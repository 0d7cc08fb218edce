------------------------------ MODULE MCListings ------------------------------
(* A client that pages beside writes and deletions; two files are not its own. *)
EXTENDS Listings
CONSTANTS c1

MCOrder == <<"a", "b", "c", "d">>
MCMine  == {"a", "d"}
=============================================================================
