CONSTANTS
    N = 2
    Outcomes <- NoOutcomes
    Plans = 2
    RunResults <- MCRunResults
    CloseErrors <- MCCloseErrors
    AcceptErrors <- MCAcceptErrors
SPECIFICATION RaceSpec
INVARIANTS
    NoAcceptedIsHonest
    LosersReleased
    JournalComplete
PROPERTIES
    NoPlanAfterVerdict
    AcceptanceLinearized
CHECK_DEADLOCK FALSE
