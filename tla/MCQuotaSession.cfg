CONSTANTS
    c1 = c1
    c2 = c2
    c3 = c3
    i1 = i1
    i2 = i2
    v1 = v1
    v2 = v2
    None = None
    Clients <- MCClients
    Ids <- MCIds
    Amounts <- MCAmounts
SPECIFICATION FairSpec
INVARIANTS
    OneFinalization
    SessionAgrees
    UnreservedHoldsNothing
PROPERTY
    ClientsReturn
CHECK_DEADLOCK FALSE
