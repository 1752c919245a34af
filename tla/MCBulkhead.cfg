CONSTANTS
    c1 = c1
    c2 = c2
    c3 = c3
    l1 = l1
    l2 = l2
    NoLife = NoLife
    Calls <- MCCalls
    Lives <- MCLives
    Limit = 2
SPECIFICATION BulkheadFairSpec
INVARIANT
    PermitsConserved
PROPERTY
    PermitReturns
CHECK_DEADLOCK FALSE
