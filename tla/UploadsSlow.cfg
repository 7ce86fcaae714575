CONSTANTS
    a1 = a1
    x1 = x1
    l1 = l1
    l2 = l2
    Files <- OneAcceptable
    Acceptable <- OneAcceptable
    Loops <- TwoLoops
    Concurrency = 1
    MaxAttempts = 2
    Hazards = {"crash", "storage", "db", "slow", "late", "early_delete"}
    MaxFaults = 4
SPECIFICATION Spec
CHECK_DEADLOCK FALSE
SYMMETRY LoopSymmetry
INVARIANTS
    AcceptedNeverLost
