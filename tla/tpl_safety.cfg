CONSTANTS
    Txns = {t1, t2, t3}
    Resources <- MCResources
    NoRequest = NoRequest
    NoThread = NoThread
    MaxAcquire = 2
SYMMETRY TxnSymmetry
SPECIFICATION Spec
INVARIANT TypeOK
INVARIANT LocksAccounted
CHECK_DEADLOCK FALSE
