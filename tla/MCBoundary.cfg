CONSTANTS
    Runner = Runner
    Hook = Hook
    Nobody = Nobody
    Nothing = Nothing
    Lost = Lost
    u1 = u1
    u2 = u2
    Users <- MCUsers
    DirectUpdates = TRUE
    FinishResults <- AllFinishResults
    FreshResults <- FreshMayPanic
SPECIFICATION FairSpec
INVARIANTS
    SettledFactsCurrent
    NotExecutedIsProof
    ReturnedIsFinal
PROPERTIES
    AdmissionSettled
    MethodsReturn
CHECK_DEADLOCK FALSE
