CONSTANTS
    c1 = c1
    c2 = c2
    h1 = h1
    h2 = h2
    h3 = h3
    Closers <- MCClosers
    Hooks <- MCHooks
    PanickyHooks <- MCPanicky
    CleanupResults <- MCResults
SPECIFICATION FairSpec
PROPERTIES
    AttachedHookRuns
    ImplementsOwnership
CHECK_DEADLOCK FALSE
