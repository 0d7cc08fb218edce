--------------------------- MODULE MCKeywordStore ---------------------------
(* Four calls, so that two writers can overlap, die, and be followed by a   *)
(* writer and a reader of what they left.                                   *)
EXTENDS KeywordStore, TLC
CONSTANTS r1, r2, r3, r4, c1, c2

MCRequests == {r1, r2, r3, r4}
MCChunks   == {c1, c2}
Symmetry   == Permutations(MCRequests) \cup Permutations(MCChunks)
=============================================================================
