CONSTANTS
    a1 = a1
    a2 = a2
    a3 = a3
    r1 = r1
    NotAllocated = NotAllocated
    NoView = NoView
    NoAttempt = NoAttempt
    Run = r1
    First = a1
    Attempts <- MCAttempts
    Authorizers <- MCAuthorizers
    Limit = 2
    Evidence <- MCEvidence
    Deadlines <- MCDeadlines
    Backoffs <- MCBackoffs
    MaxTime = 2
    MaxSettlements = 1
SPECIFICATION SeqSpec
INVARIANT
    EndsHonestly
PROPERTIES
    RepeatsSettled
    RunReturns
CHECK_DEADLOCK FALSE
