SPECIFICATION Spec
CONSTANTS
    t1 = t1
    t2 = t2
    c1 = c1
    c2 = c2
    Threads = {t1}
    Clients = {c1}
    NoClient = NoClient
    Max <- TwoAndOne
    Seconds <- ShortAndLong
    Second = 2
    Interval = 3
    MaxTime = 12
INVARIANTS
    TypeOK
    WindowLimit
    IdleSwept
PROPERTIES
    RetryAfterSuffices
