CONSTANTS
    N = 3
    Outcomes <- MCOutcomes
SPECIFICATION FairSpec
PROPERTIES
    WinnerOutlivesCall
    LosersClosed
    ContextsReleased
    CancelReturns
CHECK_DEADLOCK FALSE
