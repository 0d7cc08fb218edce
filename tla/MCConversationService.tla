----------------------- MODULE MCConversationService ------------------------
(* Three requests on one conversation: messages, summaries, promotions and *)
(* deletions in every order and overlap.                                   *)
EXTENDS ConversationService, TLC
CONSTANTS r1, r2, r3

MCRequests == {r1, r2, r3}
Symmetry   == Permutations(MCRequests)
=============================================================================
