CONSTANTS
    c1 = c1
    c2 = c2
    c3 = c3
    c4 = c4
    c5 = c5
    Calls <- MCCalls
    Threshold = 2
    ResetTimeout = 1
    MaxTime = 2
SPECIFICATION FairSpec
INVARIANTS
    SingleProbe
    ProbeAfterReset
PROPERTIES
    StaleCompletionIgnored
    ProbeReleased
CHECK_DEADLOCK FALSE
