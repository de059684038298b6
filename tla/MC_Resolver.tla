---------------------------- MODULE MC_Resolver ----------------------------
(***************************************************************************)
(* Three queries are enough for one to leave from the middle of the list,  *)
(* two workers for a signal to meet a worker that is not asleep.           *)
(***************************************************************************)
EXTENDS LinkedQueue, TLC

Symmetry == Permutations(Queries) \cup Permutations(Workers)
=============================================================================
