CONSTANTS
    Txns = {t1, t2}
    Resources <- MCResources
    NoRequest = NoRequest
    NoThread = NoThread
    MaxAcquire = 2
SPECIFICATION Spec
PROPERTY DetectorComplete
CHECK_DEADLOCK FALSE
