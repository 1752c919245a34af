CONSTANTS
    a1 = a1
    a2 = a2
    a3 = a3
    r1 = r1
    r2 = r2
    NotAllocated = NotAllocated
    NoView = NoView
    Attempts <- MCAttempts
    Authorizers <- MCAuthorizers
    Limit = 2
    Evidence <- MCEvidence
SPECIFICATION Spec
SYMMETRY Symmetry
INVARIANTS
    DispatchedOnce
    GrantedOnCurrentFacts
PROPERTY
    FactsMonotone
CHECK_DEADLOCK FALSE
