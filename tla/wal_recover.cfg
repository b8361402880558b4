CONSTANTS
    MaxTxns = 2
    MaxOps = 1
    MaxLog = 4
    MaxEpochs = 2
    Absent = Absent
    None = None
SPECIFICATION Spec
INVARIANT RecoveredStateMatchesCalls
CHECK_DEADLOCK FALSE
