--------------------------- MODULE MCMemorySearch ---------------------------
(* Searches, one after the other, beside requests that save, update, delete, *)
(* fail and die.  A content is one chunk, so contents are interchangeable.    *)
EXTENDS MemorySearch, TLC
CONSTANTS r1, r2, r3, s1, short, long

MCRequests   == {r1, r2, r3}
MCContents   == {short, long}
MCChunkCount == short :> 1 @@ long :> 1
Symmetry     == Permutations(MCRequests) \cup Permutations(MCContents)
=============================================================================
