CONSTANTS
    Txns = {t1, t2, t3}
    Items = {x, y}
    Timestamps <- MCTimestamps
    UniqueTs = TRUE
    MaxOps = 2
    NoThread = NoThread
    Absent = Absent
SYMMETRY Symmetries
SPECIFICATION Spec
INVARIANT TypeOK
INVARIANT ConflictSerializable
CHECK_DEADLOCK FALSE
