---------------------------- MODULE MCBailment ----------------------------
(***************************************************************************)
(* What TLC needs beyond Bailment: the workers of an instance run the same *)
(* loop and no order among them matters, so a safety run may identify      *)
(* states that differ only in which worker is which.                       *)
(***************************************************************************)
EXTENDS BrokerPolls, TLC

Interchangeable == Permutations(Workers)

=============================================================================
