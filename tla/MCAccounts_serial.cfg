SPECIFICATION Spec
CONSTANTS
    s1 = s1
    s2 = s2
    Slots = {s1}
    Names = {admin, ann, bob}
    NoName = none
    AdminName = admin
    MaxUserId = 2
    MaxGroupId = 1
    MaxPatId = 3
    MaxPats = 2
    GrantRoles <- AnyRole
    Ops <- AllOps
INVARIANTS
    TypeOK
    NoOrphans
PROPERTIES
    NewAccountIsGuest
    LocalAccountKept
    OnlyOwnerRevokes
