CONSTANTS
    a1 = a1
    x1 = x1
    l1 = l1
    l2 = l2
    Files <- MixedFiles
    Acceptable <- OneAcceptable
    Loops <- OneLoop
    Concurrency = 2
    MaxAttempts = 2
    Hazards = {"crash", "lost_ack", "slow", "late", "early_delete"}
    MaxFaults = 1
SPECIFICATION Spec
CHECK_DEADLOCK FALSE
INVARIANTS
    DecidedIsTold
