SPECIFICATION Spec
CONSTANTS
    Sherpa = {s1}
    Cloud = {c1}
    Foreign = {s1, c1}
    Rtl = {c1}
    MaxActions = 3
INVARIANTS
    TypeOK
    RowsTellTheTruth
    NoOrphanAlias
CHECK_DEADLOCK FALSE
