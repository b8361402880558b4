--------------------------- MODULE MCLockManager ---------------------------
(* Model-checking instance of LockManager.  The cfg gives Txns as a set   *)
(* of model values; transactions are interchangeable, so runs without a   *)
(* liveness property use them as a symmetry set.                          *)
EXTENDS LockManager, TLC

MCResources == {1, 2}

TxnSymmetry == Permutations(Txns)
=============================================================================
