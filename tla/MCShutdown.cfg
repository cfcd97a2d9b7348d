SPECIFICATION ShutdownFairSpec
INVARIANTS
    ShutdownTypeOK
    ShutdownOnlyWhenRequested
    FsalTeardownMatchesFailures
PROPERTIES
    HaltLeadsToExit
CHECK_DEADLOCK FALSE
