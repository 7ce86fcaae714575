CONSTANTS
    r1 = r1  r2 = r2  r3 = r3
    NULL = NULL
    Names <- Tree
    Above <- Parents
    Defaults <- Given
    Apps <- Catalog
    Root <- Roots
    Requires <- Needs
    AlwaysOn = {"core"}
    Requests = {r1, r2, r3}
    Users = {"owner", "member"}
    Owner = "owner"
    Custom = {"Clerk"}
    Keys = {"k1"}
    RequiredBy <- Doors
    Selections <- Ticks
    Mixes <- Families
    MaxRequests = 3
SPECIFICATION Spec
SYMMETRY Symmetry
CHECK_DEADLOCK FALSE
INVARIANTS
    TypeOK
    SwitchedOffIsOff
    AdminHoldsWhatIsOn
    OwnerCanAdminister
    ActsOnWhatWasMeant
