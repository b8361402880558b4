--------------------------- MODULE MCReplication ---------------------------
EXTENDS Replication, TLC

\* clients, slaves and keys are model values; permuting them maps behaviours
\* to behaviours
ClientSymmetry == Permutations(Clients)
SlaveSymmetry == Permutations(Slaves)
Symmetries == ClientSymmetry \cup SlaveSymmetry
=============================================================================
