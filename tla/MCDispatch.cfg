CONSTANTS
    None = None
    Nodes <- MCNodes
    Roots = {"root", "predicate"}
    Keys = {"k1", "k2", "none"}
    Attempts = 3
    Backoff = 5
    MaxInt = 7
SPECIFICATION Spec
INVARIANTS
    NothingLeaks
    BackoffHolds
PROPERTY
    NextTryClean
CHECK_DEADLOCK FALSE
