---------------------------- MODULE MCVectorStore ----------------------------
(* Three calls on two chunks: two writers overlap or die and a third call    *)
(* finds what they left.                                                     *)
EXTENDS VectorStore, TLC
CONSTANTS r1, r2, r3, c1, c2

MCRequests == {r1, r2, r3}
MCChunks   == {c1, c2}
Symmetry   == Permutations(MCRequests) \cup Permutations(MCChunks)
=============================================================================
