CONSTANTS
    Txns = {t1, t2}
    Keys = {k1, k2}
    Levels <- AllLevels
    MaxOps = 3
    None = None
SYMMETRY KeySymmetry
SPECIFICATION Spec
INVARIANT RepeatableRead
CHECK_DEADLOCK FALSE
