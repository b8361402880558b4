------------------------ MODULE MCTimestampOrdering ------------------------
EXTENDS TimestampOrdering, TLC

MCTimestamps == 1..3
TxnSymmetry == Permutations(Txns)
ItemSymmetry == Permutations(Items)
Symmetries == TxnSymmetry \cup ItemSymmetry
=============================================================================
