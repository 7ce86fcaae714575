CONSTANTS
    r1 = r1
    r2 = r2
    p1 = p1
    p2 = p2
    Migrator = Migrator
    Requests <- TwoRequests
    Acts <- ServingActs
    Apps <- OneApp
    MaxBuild = 1
    Horizon = 1
    MaxFaults = 1
    Pools <- TwoPools
SPECIFICATION RegistryFairSpec
CHECK_DEADLOCK FALSE
INVARIANTS
    OnlyCachedIsOpen
PROPERTIES
    RefusalReachesEveryone
