SPECIFICATION Spec
CONSTANTS
    s1 = s1
    s2 = s2
    a1 = a1
    a2 = a2
    Slots = {s1, s2}
    Areas = {a1, a2}
    NoArea = NoArea
    MaxId = 5
    Ops <- AllOps
    Faults <- AllFaults
INVARIANTS
    TypeOK
    OneRowPerArea
PROPERTIES
    SaveRegisters
    RestartClearsAlone
