---------------------------- MODULE MCBufferPool ----------------------------
(* Two client threads share a BufferManager of capacity 2 over three page *)
(* ids, so every third distinct fetch evicts.                              *)
EXTENDS BufferPool, TLC

MCPageIds == {1, 2, 3}

ClientSymmetry == Permutations(Clients)
=============================================================================
