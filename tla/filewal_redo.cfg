CONSTANTS
    Txns <- MCTxns
    NumPages = 2
    MaxRuns = 2
SPECIFICATION Spec
INVARIANT RedoOnlyCommitted
CHECK_DEADLOCK FALSE
