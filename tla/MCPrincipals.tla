----------------------------- MODULE MCPrincipals -----------------------------
(* Three requests about two principals, one of whom may have a key already,  *)
(* and one shared store: sign-ins, creations, key changes, exchanges of keys *)
(* for tokens and store operations in every order and overlap.               *)
EXTENDS Tokens, TLC
CONSTANTS r1, r2, r3, a, b, s, k0

MCRequests == {r1, r2, r3}
MCIds      == {a, b}
MCShared   == {s}
Symmetry   == Permutations(MCRequests)
=============================================================================
