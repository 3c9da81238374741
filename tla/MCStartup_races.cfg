SPECIFICATION Spec
CONSTANTS
    w1 = w1
    w2 = w2
    g1 = g1
    g2 = g2
    Workers = {w1, w2}
    CreateOrder <- FourTables
    Groups = {g1, g2}
    NoGroup = NoGroup
    RetentionDays = 30
    MaxCrashes = 1
INVARIANTS
    TypeOK
    ReadyMigrated
    SchemaComplete
    OneDefaultAdmin
PROPERTIES
    MappingKept
    AllStart
