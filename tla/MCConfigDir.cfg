SPECIFICATION MCSpec
CONSTANTS
    s1 = s1
    a1 = a1
    a2 = a2
    Slots = {s1}
    Addrs = {a1, a2}
    NoAddr = NoAddr
    p1 = p1
    p2 = p2
    Passwords = {p1, p2}
    q1 = q1
    q2 = q2
    Quotas = {q1, q2}
    NoValue = NoValue
    Script = Script
    AccountsFile = AccountsFile
    QuotasFile = QuotasFile
    VirtualFile = VirtualFile
    Ops <- AllOps
    Faults <- AllFaults
    MaxLate = 1
    m1 = m1
    m2 = m2
    Migrations = {m1, m2}
    Keys = {1, 2}
    Domains = {"d1", "d2"}
    DomainOf <- OneEach
    KeyFaults <- AllFaults
    MaxAbandoned = 1
INVARIANTS
    TypesOK
    OneLinePerMailbox
    SigningNamesKeys
PROPERTIES
    DeleteRemovesAll
    OwnLinesAlone
    NoHalfMailbox
    MigrationSigns
SYMMETRY Symmetry
