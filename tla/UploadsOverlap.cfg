CONSTANTS
    a1 = a1
    x1 = x1
    l1 = l1
    l2 = l2
    Files <- OneAcceptable
    Acceptable <- OneAcceptable
    Loops <- OneLoop
    Concurrency = 1
    MaxAttempts = 2
    Hazards = {"storage", "db", "slow"}
    MaxFaults = 3
SPECIFICATION Spec
CHECK_DEADLOCK FALSE
INVARIANT StoredHasBytes
