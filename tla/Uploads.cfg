CONSTANTS
    a1 = a1
    x1 = x1
    l1 = l1
    l2 = l2
    Files <- MixedFiles
    Acceptable <- OneAcceptable
    Loops <- OneLoop
    Concurrency = 2
    MaxAttempts = 2
    Hazards = {"crash", "storage", "db"}
    MaxFaults = 2
SPECIFICATION FairSpec
CHECK_DEADLOCK FALSE
INVARIANTS
    ToldIffDecided
    StoredHasBytes
PROPERTIES
    EveryUploadEnds
    ImplementsLifecycle
