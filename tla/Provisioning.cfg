CONSTANTS
    r1 = r1
    r2 = r2
    Migrator = Migrator
    Requests <- TwoRequests
    Acts <- DeskAndSignup
    Apps <- TwoApps
    MaxBuild = 2
    Horizon = 0
    MaxFaults = 1
SPECIFICATION FairSpec
CHECK_DEADLOCK FALSE
INVARIANTS
    VersionIsInstalled
PROPERTIES
    WithdrawnStaysWithdrawn
    OwnerIsKept
    EveryWorkspaceCatchesUp
