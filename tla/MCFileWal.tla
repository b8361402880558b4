------------------------------ MODULE MCFileWal ------------------------------
EXTENDS FileWal, TLC

\* main starts the threads for transactions 1 and 2
MCTxns == {1, 2}
=============================================================================
