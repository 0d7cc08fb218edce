---------------------------- MODULE DurableIndex ----------------------------
(***************************************************************************)
(* What a per-store search index promises to the services that use it: one *)
(* set of entries that every caller sees, and that a restart does not lose *)
(* once the index has settled.  KeywordStore and VectorStore implement it. *)
(***************************************************************************)
CONSTANTS Chunks

VARIABLES
  entries,  \* the chunks the index knows
  settled   \* whether the last change has reached the disk

Init == entries = {} /\ settled = TRUE

Change ==
  /\ \E c \in Chunks : entries' \in {entries \cup {c}, entries \ {c}}
  /\ settled' = FALSE

Settle == settled' = TRUE /\ UNCHANGED entries

\* A restart goes back to an earlier state, or to nothing, but only for want of a
\* change that had settled.
Restart == ~settled /\ entries' \in SUBSET Chunks /\ UNCHANGED settled

Next == Change \/ Settle \/ Restart

Spec == Init /\ [][Next]_<<entries, settled>>
=============================================================================
