CONSTANTS
    Txns = {t1, t2, t3}
    Resources <- MCResources
    NoRequest = NoRequest
    MaxAcquire = 2
    Ordered = TRUE
SPECIFICATION Spec
INVARIANT TypeOK
INVARIANT WaiterHasHolder
CHECK_DEADLOCK FALSE
