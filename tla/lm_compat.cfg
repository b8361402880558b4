CONSTANTS
    Txns = {t1, t2, t3}
    Resources <- MCResources
    NoRequest = NoRequest
    MaxAcquire = 2
    Ordered = FALSE
SYMMETRY TxnSymmetry
SPECIFICATION Spec
CHECK_DEADLOCK FALSE
INVARIANT GrantedCompatible
