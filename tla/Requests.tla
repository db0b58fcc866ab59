------------------------------ MODULE Requests ------------------------------
(***************************************************************************)
(* LeaseService.request_provision of src/bailment/engine/service.py, for   *)
(* calls that race: the look-up of the idempotency key, the count of live  *)
(* leases that the policy sees, and the commit, each of which awaits the   *)
(* database, so that other calls and the rest of the engine come between.  *)
(* What the engine does with a lease once it exists is any legal move.     *)
(***************************************************************************)
EXTENDS LeaseStates, Naturals, FiniteSets

CONSTANTS
    Calls,      \* calls of request_provision, retries included
    Requesters, \* principals
    Keys,       \* idempotency keys
    NoKey,      \* the request has none
    Ids,        \* primary keys that uuid4 may draw
    NoId,       \* no lease
    Quota       \* the rule "active_leases_for_requester >= Quota: deny"

ASSUME NoValuesAssumption == NoKey \notin Keys /\ NoId \notin Ids
ASSUME QuotaAssumption == Quota \in Nat

VARIABLES
    leases, \* the leases table: who asked, with which key, and the state
    calls   \* where each call stands, with what it has staged or answered

vars == <<leases, calls>>

Lease == [requester : Requesters, key : Keys \cup {NoKey}, state : LeaseState]

\* "absent" is no state of a row: the key has not been inserted.
NoLease == [requester |-> NoKey, key |-> NoKey, state |-> "absent"]

Call == [phase : {"new", "deciding", "staged", "lost", "answered", "raised", "gone"},
         requester : Requesters \cup {NoKey}, key : Keys \cup {NoKey},
         id : Ids \cup {NoId}, state : LeaseState \cup {"absent"}]

NewCall == [phase |-> "new", requester |-> NoKey, key |-> NoKey, id |-> NoId,
            state |-> "absent"]

Init ==
    /\ leases = [i \in Ids |-> NoLease]
    /\ calls = [c \in Calls |-> NewCall]

-----------------------------------------------------------------------------

\* MUTANT of SameRequest: a key names one lease of the whole process.
SameKey(i, requester, key) == leases[i].state # "absent" /\ leases[i].key = key

\* _find_idempotent: the lease this requester was given for this key.
SameRequest(i, requester, key) ==
    /\ leases[i].state # "absent"
    /\ leases[i].requester = requester /\ leases[i].key = key

Existing(requester, key) ==
    IF key = NoKey THEN {} ELSE {i \in Ids : SameRequest(i, requester, key)}

\* The first thing a call asks the database: a repeated request is answered
\* with the lease it has, unchanged, whatever has become of that lease.
Look(c, requester, key) ==
    LET existing == Existing(requester, key) IN
    /\ calls[c].phase = "new"
    /\ \/ existing = {}
          /\ calls' = [calls EXCEPT ![c] = [NewCall EXCEPT
                         !.phase = "deciding", !.requester = requester, !.key = key]]
       \/ \E i \in existing :
             calls' = [calls EXCEPT ![c] = [NewCall EXCEPT
                         !.phase = "answered", !.requester = requester, !.key = key,
                         !.id = i]]
    /\ UNCHANGED leases

\* count_live_leases: believed to cost money, which PENDING is not.
Live(requester) ==
    Cardinality({i \in Ids : leases[i].requester = requester
                             /\ leases[i].state \in LIVE_STATES})

\* MUTANT of Verdicts: the effect of the policy written as the state.
EffectAsState(requester) ==
    IF Live(requester) >= Quota THEN {"deny"} ELSE {"allow", "require_approval"}

\* The verdict, here of a path whose chain starts with the quota rule, as the
\* state of the row that is staged.
Verdicts(requester) ==
    IF Live(requester) >= Quota THEN {"rejected"}
                                ELSE {"pending", "awaiting_approval"}

\* The id is drawn and the row staged with its verdict; nothing is written yet.
Decide(c) ==
    /\ calls[c].phase = "deciding"
    /\ \E i \in Ids, state \in Verdicts(calls[c].requester) :
          /\ leases[i].state = "absent" /\ \A d \in Calls : calls[d].id # i
          /\ calls' = [calls EXCEPT ![c].phase = "staged", ![c].id = i,
                                    ![c].state = state]
    /\ UNCHANGED leases

\* MUTANTS of Clashes: no unique constraint, or one on the key alone.
ClashesNever(c) == FALSE
ClashesOnKey(c) ==
    calls[c].key # NoKey /\ \E i \in Ids : leases[i].key = calls[c].key

\* uq_lease_idempotency.  NULL keys are all different.
Clashes(c) ==
    /\ calls[c].key # NoKey
    /\ \E i \in Ids : /\ leases[i].state # "absent"
                      /\ leases[i].requester = calls[c].requester
                      /\ leases[i].key = calls[c].key

\* The commit: the row is inserted, or the database refuses it and everything
\* staged is rolled back.
Commit(c) ==
    /\ calls[c].phase = "staged"
    /\ \/ /\ ~Clashes(c)
          /\ leases' = [leases EXCEPT ![calls[c].id] =
                          [requester |-> calls[c].requester, key |-> calls[c].key,
                           state |-> calls[c].state]]
          /\ calls' = [calls EXCEPT ![c].phase = "answered", ![c].state = "absent"]
       \/ /\ Clashes(c)
          /\ calls' = [calls EXCEPT ![c].phase = "lost", ![c].id = NoId,
                                    ![c].state = "absent"]
          /\ UNCHANGED leases

\* The loser looks again for the winner's lease; without one it raises.
Recover(c) ==
    LET winners == Existing(calls[c].requester, calls[c].key)
        answers == IF winners = {}
                   THEN {[calls[c] EXCEPT !.phase = "raised"]}
                   ELSE {[calls[c] EXCEPT !.phase = "answered", !.id = i] : i \in winners}
    IN
    /\ calls[c].phase = "lost"
    /\ \E answer \in answers : calls' = [calls EXCEPT ![c] = answer]
    /\ UNCHANGED leases

\* The client goes away or the process dies: what was staged is gone.
Abort(c) ==
    /\ calls[c].phase \in {"deciding", "staged", "lost"}
    /\ calls' = [calls EXCEPT ![c].phase = "gone", ![c].id = NoId, ![c].state = "absent"]
    /\ UNCHANGED leases

\* The rest of the engine.
Move(i, state) ==
    /\ <<leases[i].state, state>> \in TRANSITIONS
    /\ leases' = [leases EXCEPT ![i].state = state]
    /\ UNCHANGED calls

Next ==
    \/ \E c \in Calls :
          \/ \E requester \in Requesters, key \in Keys \cup {NoKey} :
                Look(c, requester, key)
          \/ Decide(c) \/ Commit(c) \/ Recover(c) \/ Abort(c)
    \/ \E i \in Ids, state \in LeaseState : Move(i, state)

Spec == Init /\ [][Next]_vars

-----------------------------------------------------------------------------

\* Variables keep their shape.
TypeOK ==
    /\ leases \in [Ids -> Lease \cup {NoLease}]
    /\ calls \in [Calls -> Call]

Answered(c) == calls[c].phase = "answered"

\* An idempotency key names one lease of its requester for ever: calls with the
\* same key are answered with the same lease, however they race, whoever of
\* them lost the commit, and whatever the engine has done with the lease since.
KeyNamesOneLease ==
    \A c, d \in Calls :
        /\ Answered(c) /\ Answered(d)
        /\ calls[c].requester = calls[d].requester
        /\ calls[c].key = calls[d].key /\ calls[c].key # NoKey
        => calls[c].id = calls[d].id

\* Keys are scoped to the requester: nobody is answered with a lease of
\* somebody else who happened to use the same key.
AnswersAreOwn ==
    \A c \in Calls : Answered(c) =>
        /\ leases[calls[c].id].requester = calls[c].requester
        /\ leases[calls[c].id].key = calls[c].key

\* The loser of a race is answered, not turned away with a database error.
LosersAreAnswered == \A c \in Calls : calls[c].phase # "raised"

\* A rule on active_leases_for_requester bounds what a requester holds.
QuotaKept == \A requester \in Requesters : Live(requester) <= Quota

=============================================================================
