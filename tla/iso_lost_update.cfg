CONSTANTS
    Txns = {t1, t2}
    Keys = {k1, k2}
    Levels <- RepeatableLevel
    MaxOps = 3
    None = None
SYMMETRY KeySymmetry
SPECIFICATION Spec
CHECK_DEADLOCK FALSE
INVARIANT NoStaleWriteBack
