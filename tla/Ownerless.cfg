CONSTANTS
    r1 = r1
    r2 = r2
    Migrator = Migrator
    Requests <- TwoRequests
    Acts <- SignupOnly
    Apps <- OneApp
    MaxBuild = 1
    Horizon = 0
    MaxFaults = 1
SPECIFICATION Spec
INVARIANT ServedHasOwner
CHECK_DEADLOCK FALSE
