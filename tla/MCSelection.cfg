SPECIFICATION Spec
CONSTANTS
    Keys <- MCKeys
    Scope <- MCScope
    Descriptors <- MCDescriptors
    Affinities <- MCAffinities
    Request <- MCRequest
    Optional = "DefaultOptional"
    Defaults <- MCDefaults
    Required = {"cost"}
    Deadlines = {3}
    MaxTime = 3
    MaxChanges = 1
    MaxSelections = 1
    None = None
INVARIANTS
    SelectsBest
    DispatchedStands
CHECK_DEADLOCK FALSE
