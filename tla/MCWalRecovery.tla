--------------------------- MODULE MCWalRecovery ---------------------------
EXTENDS WalRecovery, TLC
=============================================================================
