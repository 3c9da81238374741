SPECIFICATION Spec
CONSTANTS
    s1 = s1
    s2 = s2
    a1 = a1
    a2 = a2
    Slots = {s1, s2}
    Addrs = {a1, a2}
    NoAddr = NoAddr
    p1 = p1
    p2 = p2
    Passwords = {p1, p2}
    q1 = q1
    q2 = q2
    Quotas = {q1}
    NoValue = NoValue
    Script = Script
    AccountsFile = AccountsFile
    QuotasFile = QuotasFile
    VirtualFile = VirtualFile
    Ops <- AllOps
    Faults <- NoFault
    MaxLate = 0
PROPERTIES
    OwnLinesOnly
