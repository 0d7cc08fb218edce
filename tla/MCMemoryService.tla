-------------------------- MODULE MCMemoryService --------------------------
(* Three requests: a memory may be saved, updated or deleted by the others  *)
(* in every order and overlap, or three memories may be worked on at once.  *)
EXTENDS MemoryService, TLC
CONSTANTS r1, r2, r3, short, long

MCRequests   == {r1, r2, r3}
MCContents   == {short, long}
MCChunkCount == short :> 1 @@ long :> 2
Symmetry     == Permutations(MCRequests)
=============================================================================
