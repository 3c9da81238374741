SPECIFICATION Spec
CONSTANTS
    p1 = p1
    p2 = p2
    p3 = p3
    short = short
    long = long
    Procs = {p1, p2}
    Docs = {short, long}
    NoDoc = NoDoc
    Length <- TwoLengths
INVARIANTS
    NeverHalfWritten
