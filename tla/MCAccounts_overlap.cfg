SPECIFICATION Spec
CONSTANTS
    s1 = s1
    s2 = s2
    Slots = {s1, s2}
    Names = {admin, ann}
    NoName = none
    AdminName = admin
    MaxUserId = 2
    MaxGroupId = 1
    MaxPatId = 3
    MaxPats = 1
    GrantRoles <- AdminOnly
    Ops <- OwnerOps
INVARIANTS
    UniqueNames
    PatLimitSlack
SYMMETRY SlotSymmetry
