--------------------------- MODULE MCServiceBroker ---------------------------
(***************************************************************************)
(* ServiceBroker for TLC.  Which call is which, and which primary key,     *)
(* makes no difference.                                                    *)
(***************************************************************************)
EXTENDS ServiceBroker, TLC

Renamings == Permutations(Calls) \cup Permutations(Ids)

=============================================================================
