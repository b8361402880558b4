------------------------- MODULE MCTwoPhaseLocking -------------------------
(* Model-checking instance of TwoPhaseLocking.  Txns is a set of model    *)
(* values, used as a symmetry set by runs without liveness properties.    *)
EXTENDS TwoPhaseLocking, TLC

MCResources == {1, 2}

TxnSymmetry == Permutations(Txns)
=============================================================================
