CONSTANTS
    a1 = a1
    x1 = x1
    l1 = l1
    l2 = l2
    Files <- OneAcceptable
    Acceptable <- OneAcceptable
    Loops <- OneLoop
    Concurrency = 1
    MaxAttempts = 3
    Hazards = {"crash"}
    MaxFaults = 1
SPECIFICATION Spec
CHECK_DEADLOCK FALSE
INVARIANT FailedOnlyWhenExhausted
