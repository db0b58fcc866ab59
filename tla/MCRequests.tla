---------------------------- MODULE MCRequests ----------------------------
(***************************************************************************)
(* Requests for TLC.  Calls, requesters and ids are compared for equality  *)
(* only, so states that differ in their names are one state.               *)
(***************************************************************************)
EXTENDS Requests, TLC

Renamings == Permutations(Calls) \cup Permutations(Requesters) \cup Permutations(Ids)

=============================================================================
