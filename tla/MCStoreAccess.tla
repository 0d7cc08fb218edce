---------------------------- MODULE MCStoreAccess ----------------------------
(* A caller with its personal store, another user, an admin, and the two     *)
(* callers that have no principal; two requests at a time.                   *)
EXTENDS StoreAccess, Naturals, TLC
CONSTANTS s1, s2, p, a, console, anonymous, shared

MCSlots   == {s1, s2}
MCCallers == {p, a, console, anonymous}
MCAdmins  == {a, console}
MCNames   == {p, shared}
Symmetry  == Permutations(MCSlots)

\* The bound on authors: a store whose record has raced is promised nothing, so one
\* author is enough there, and nothing is left to look at once both have.
Few ==
  /\ raced # MCNames
  /\ \A n \in MCNames : Cardinality(contents[n]) <= IF n \in raced THEN 1 ELSE 2
=============================================================================
