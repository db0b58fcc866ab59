--------------------------- MODULE RequestsProofs ---------------------------
(***************************************************************************)
(* What an idempotency key promises, for any number of racing calls and    *)
(* whatever the policy decides and the engine does.  The promise rests on  *)
(* the unique constraint, on rows never changing hands, and on a loser     *)
(* looking for a winner that is certain to be there.                       *)
(***************************************************************************)
EXTENDS Requests, TLAPS

Inserted(i) == leases[i].state # "absent"

\* uq_lease_idempotency, as a fact about the table.
OneRowPerKey ==
    \A i, j \in Ids :
        /\ Inserted(i) /\ Inserted(j)
        /\ leases[i].requester = leases[j].requester
        /\ leases[i].key = leases[j].key /\ leases[i].key # NoKey
        => i = j

\* What a call holds: a lease of its own to answer with, an id nobody has
\* inserted or staged, or the certainty that a winner exists.
Holds(c) ==
    /\ calls[c].phase = "answered" =>
          /\ calls[c].id \in Ids
          /\ SameRequest(calls[c].id, calls[c].requester, calls[c].key)
    /\ calls[c].phase = "staged" =>
          /\ calls[c].id \in Ids /\ ~Inserted(calls[c].id)
          /\ calls[c].state \in LeaseState
          /\ calls[c].requester \in Requesters
          /\ \A d \in Calls : d # c /\ calls[d].phase = "staged"
                                 => calls[d].id # calls[c].id
    /\ calls[c].phase = "lost" => Existing(calls[c].requester, calls[c].key) # {}
    /\ calls[c].phase = "deciding" => calls[c].requester \in Requesters
    /\ calls[c].phase # "raised"

KeyInv ==
    /\ TypeOK
    /\ OneRowPerKey
    /\ \A c \in Calls : Holds(c)

\* Rows are inserted once and keep their requester and key.
Kept ==
    \A i \in Ids : Inserted(i) =>
        /\ Inserted(i)'
        /\ leases'[i].requester = leases[i].requester
        /\ leases'[i].key = leases[i].key

\* A call that did not move still holds what it held, when no row it has
\* staged was inserted and no other call stages its id.
LEMMA HoldsKept ==
    ASSUME Kept, NEW c \in Calls, Holds(c), calls'[c] = calls[c],
           calls[c].phase = "staged" =>
               /\ ~Inserted(calls[c].id)'
               /\ \A d \in Calls : d # c /\ calls'[d].phase = "staged"
                                      => calls'[d].id # calls[c].id
    PROVE  Holds(c)'
  BY DEF Kept, Holds, SameRequest, Existing, Inserted

LEMMA KeyInit == Init => KeyInv
  BY DEF Init, KeyInv, TypeOK, OneRowPerKey, Holds, Inserted, NoLease, NewCall, Call, Lease,
     LeaseState

\* A step that inserts nothing disturbs neither the table nor the others.
LEMMA CallStep ==
    ASSUME KeyInv, NEW c \in Calls, UNCHANGED leases,
           NEW new \in Call, calls' = [calls EXCEPT ![c] = new],
           Holds(c)',
           new.phase = "staged" =>
               \A d \in Calls : d # c => calls[d].id # new.id
    PROVE  KeyInv'
<1>1. Kept
  BY DEF Kept, Inserted
<1>2. TypeOK'
  BY DEF KeyInv, TypeOK
<1>3. OneRowPerKey'
  BY DEF KeyInv, OneRowPerKey, Inserted
<1>4. ASSUME NEW d \in Calls PROVE Holds(d)'
  <2>1. CASE d = c
    BY <2>1
  <2>2. CASE d # c
    <3>1. calls'[d] = calls[d] /\ Holds(d)
      BY <2>2 DEF KeyInv, TypeOK
    <3>2. calls'[c] = new
      BY DEF KeyInv, TypeOK
    <3>3. ASSUME calls[d].phase = "staged"
          PROVE  /\ ~Inserted(calls[d].id)'
                 /\ \A e \in Calls : e # d /\ calls'[e].phase = "staged"
                                        => calls'[e].id # calls[d].id
      BY <2>2, <3>1, <3>2, <3>3 DEF KeyInv, TypeOK, Holds, Inserted
    <3> QED
      BY <1>1, <3>1, <3>3, HoldsKept
  <2> QED
    BY <2>1, <2>2
<1> QED
  BY <1>2, <1>3, <1>4 DEF KeyInv

LEMMA LookKeeps ==
    ASSUME KeyInv, NEW c \in Calls, NEW r \in Requesters, NEW k \in Keys \cup {NoKey},
           Look(c, r, k)
    PROVE  KeyInv'
<1> DEFINE Deciding == [NewCall EXCEPT !.phase = "deciding", !.requester = r, !.key = k]
           Replayed(i) == [NewCall EXCEPT !.phase = "answered", !.requester = r,
                                          !.key = k, !.id = i]
<1>1. CASE calls' = [calls EXCEPT ![c] = Deciding]
  <2>1. Deciding \in Call /\ Deciding.phase = "deciding" /\ Deciding.requester = r
    BY DEF Call, NewCall
  <2>2. calls'[c] = Deciding
    BY <1>1 DEF KeyInv, TypeOK
  <2>3. Holds(c)'
    BY <2>1, <2>2 DEF Holds
  <2> HIDE DEF Deciding
  <2> QED
    BY <1>1, <2>1, <2>3, CallStep DEF Look
<1>2. ASSUME NEW i \in Existing(r, k), calls' = [calls EXCEPT ![c] = Replayed(i)]
      PROVE  KeyInv'
  <2>1. /\ Replayed(i) \in Call /\ Replayed(i).phase = "answered"
        /\ Replayed(i).requester = r /\ Replayed(i).key = k /\ Replayed(i).id = i
    BY DEF Call, NewCall, Existing
  <2>2. calls'[c] = Replayed(i)
    BY <1>2 DEF KeyInv, TypeOK
  <2> HIDE DEF Replayed
  <2>3. i \in Ids /\ SameRequest(i, r, k)
    BY DEF Existing
  <2>4. Holds(c)'
    BY <2>1, <2>2, <2>3 DEF Holds, Look, SameRequest
  <2> QED
    BY <1>2, <2>1, <2>4, CallStep DEF Look
<1> QED
  BY <1>1, <1>2 DEF Look

LEMMA DecideKeeps ==
    ASSUME KeyInv, NEW c \in Calls, Decide(c)
    PROVE  KeyInv'
<1>1. PICK i \in Ids, s \in Verdicts(calls[c].requester) :
          /\ leases[i].state = "absent" /\ \A d \in Calls : calls[d].id # i
          /\ calls' = [calls EXCEPT ![c].phase = "staged", ![c].id = i, ![c].state = s]
  BY DEF Decide
<1> DEFINE New == [calls[c] EXCEPT !.phase = "staged", !.id = i, !.state = s]
<1>2. s \in LeaseState
  BY DEF Verdicts, LeaseState
<1>3. calls[c] \in Call /\ calls[c].requester \in Requesters
  BY DEF Decide, KeyInv, TypeOK, Holds
<1>4. /\ New \in Call /\ New.phase = "staged" /\ New.id = i /\ New.state = s
      /\ New.requester = calls[c].requester
  BY <1>2, <1>3 DEF Call
<1>5. calls' = [calls EXCEPT ![c] = New] /\ calls'[c] = New
  BY <1>1 DEF KeyInv, TypeOK
<1> HIDE DEF New
<1>6. \A d \in Calls : d # c => calls'[d].id # i
  BY <1>1, <1>5 DEF KeyInv, TypeOK
<1>7. Holds(c)'
  BY <1>1, <1>2, <1>3, <1>4, <1>5, <1>6 DEF Holds, Decide, Inserted
<1> QED
  BY <1>1, <1>4, <1>5, <1>7, CallStep DEF Decide

\* The insert: here the unique constraint does its work.
LEMMA InsertKeeps ==
    ASSUME KeyInv, NEW c \in Calls, Commit(c), ~Clashes(c)
    PROVE  KeyInv'
<1> DEFINE i == calls[c].id
           row == [requester |-> calls[c].requester, key |-> calls[c].key,
                   state |-> calls[c].state]
<1>1. /\ calls[c].phase = "staged"
      /\ leases' = [leases EXCEPT ![i] = row]
      /\ calls' = [calls EXCEPT ![c].phase = "answered", ![c].state = "absent"]
  BY DEF Commit
<1>2. /\ calls[c] \in Call /\ i \in Ids /\ ~Inserted(i)
      /\ calls[c].state \in LeaseState /\ calls[c].requester \in Requesters
      /\ \A d \in Calls : d # c /\ calls[d].phase = "staged" => calls[d].id # i
  BY <1>1 DEF KeyInv, TypeOK, Holds
<1>3. row \in Lease
  BY <1>2 DEF Lease, Call
<1>4. leases'[i] = row /\ \A j \in Ids : j # i => leases'[j] = leases[j]
  BY <1>1, <1>2 DEF KeyInv, TypeOK
<1>5. /\ calls'[c] = [calls[c] EXCEPT !.phase = "answered", !.state = "absent"]
      /\ \A d \in Calls : d # c => calls'[d] = calls[d]
  BY <1>1 DEF KeyInv, TypeOK
<1>6. Kept
  BY <1>2, <1>4 DEF Kept, Inserted
<1>7. TypeOK'
  <2>1. [calls[c] EXCEPT !.phase = "answered", !.state = "absent"] \in Call
    BY <1>2 DEF Call
  <2>2. calls' \in [Calls -> Call]
    BY <1>1, <1>5, <2>1 DEF KeyInv, TypeOK
  <2>3. leases' \in [Ids -> Lease \cup {NoLease}]
    BY <1>1, <1>3 DEF KeyInv, TypeOK
  <2> QED
    BY <2>2, <2>3 DEF TypeOK
<1>8. OneRowPerKey'
  <2>1. ASSUME NEW j \in Ids, j # i, Inserted(j)', leases'[j].requester = row.requester,
               leases'[j].key = row.key, row.key # NoKey
        PROVE  FALSE
    BY <1>4, <2>1 DEF Clashes, Inserted
  <2> QED
    BY <1>4, <2>1 DEF KeyInv, OneRowPerKey, Inserted
<1>9. ASSUME NEW d \in Calls PROVE Holds(d)'
  <2>1. CASE d = c
    <3>1. /\ calls'[c].phase = "answered" /\ calls'[c].id = i
          /\ calls'[c].requester = calls[c].requester /\ calls'[c].key = calls[c].key
      BY <1>2, <1>5 DEF Call
    <3>2. SameRequest(i, calls[c].requester, calls[c].key)'
      BY <1>2, <1>4, <1>5 DEF SameRequest, LeaseState
    <3> QED
      BY <1>2, <1>4, <1>5, <2>1, <3>1, <3>2 DEF Holds, SameRequest, LeaseState
  <2>2. CASE d # c
    <3>1. calls'[d] = calls[d] /\ Holds(d)
      BY <1>5, <2>2 DEF KeyInv
    <3>2. calls'[c].phase = "answered"
      BY <1>2, <1>5 DEF Call
    <3>3. ASSUME calls[d].phase = "staged"
          PROVE  /\ ~Inserted(calls[d].id)'
                 /\ \A e \in Calls : e # d /\ calls'[e].phase = "staged"
                                        => calls'[e].id # calls[d].id
      BY <1>2, <1>4, <1>5, <2>2, <3>1, <3>2, <3>3 DEF Holds, Inserted
    <3> QED
      BY <1>6, <3>1, <3>3, HoldsKept
  <2> QED
    BY <2>1, <2>2
<1> QED
  BY <1>7, <1>8, <1>9 DEF KeyInv

\* The refusal: the row the loser ran into is the winner it will find.
LEMMA RefusalKeeps ==
    ASSUME KeyInv, NEW c \in Calls, Commit(c), Clashes(c)
    PROVE  KeyInv'
<1> DEFINE New == [calls[c] EXCEPT !.phase = "lost", !.id = NoId, !.state = "absent"]
<1>1. /\ calls' = [calls EXCEPT ![c].phase = "lost", ![c].id = NoId,
                                ![c].state = "absent"]
      /\ UNCHANGED leases
  BY DEF Commit
<1>2. calls[c] \in Call
  BY DEF KeyInv, TypeOK
<1>3. /\ New \in Call /\ New.phase = "lost"
      /\ New.requester = calls[c].requester /\ New.key = calls[c].key
  BY <1>2 DEF Call
<1>4. calls' = [calls EXCEPT ![c] = New] /\ calls'[c] = New
  BY <1>1 DEF KeyInv, TypeOK
<1> HIDE DEF New
<1>5. Existing(calls[c].requester, calls[c].key) # {}
  BY DEF Clashes, Existing, SameRequest
<1>6. Holds(c)'
  BY <1>1, <1>3, <1>4, <1>5 DEF Holds, Existing, SameRequest
<1> QED
  BY <1>1, <1>3, <1>4, <1>6, CallStep

LEMMA RecoverKeeps ==
    ASSUME KeyInv, NEW c \in Calls, Recover(c)
    PROVE  KeyInv'
<1>1. /\ calls[c].phase = "lost" /\ calls[c] \in Call /\ UNCHANGED leases
      /\ Existing(calls[c].requester, calls[c].key) # {}
  BY DEF Recover, KeyInv, TypeOK, Holds
<1>2. PICK i \in Existing(calls[c].requester, calls[c].key) :
          calls' = [calls EXCEPT ![c] =
                      [calls[c] EXCEPT !.phase = "answered", !.id = i]]
  BY <1>1 DEF Recover
<1> DEFINE New == [calls[c] EXCEPT !.phase = "answered", !.id = i]
<1>3. i \in Ids /\ SameRequest(i, calls[c].requester, calls[c].key)
  BY <1>2 DEF Existing
<1>4. /\ New \in Call /\ New.phase = "answered" /\ New.id = i
      /\ New.requester = calls[c].requester /\ New.key = calls[c].key
  BY <1>1, <1>3 DEF Call
<1>5. calls' = [calls EXCEPT ![c] = New] /\ calls'[c] = New
  BY <1>2 DEF KeyInv, TypeOK
<1> HIDE DEF New
<1>6. Holds(c)'
  BY <1>1, <1>3, <1>4, <1>5 DEF Holds, SameRequest
<1> QED
  BY <1>1, <1>4, <1>5, <1>6, CallStep

LEMMA AbortKeeps ==
    ASSUME KeyInv, NEW c \in Calls, Abort(c)
    PROVE  KeyInv'
<1> DEFINE New == [calls[c] EXCEPT !.phase = "gone", !.id = NoId, !.state = "absent"]
<1>1. New \in Call /\ New.phase = "gone"
  BY DEF KeyInv, TypeOK, Call
<1>2. calls' = [calls EXCEPT ![c] = New] /\ calls'[c] = New /\ UNCHANGED leases
  BY DEF KeyInv, TypeOK, Abort
<1> HIDE DEF New
<1>3. Holds(c)'
  BY <1>1, <1>2 DEF Holds
<1> QED
  BY <1>1, <1>2, <1>3, CallStep

\* Whoever changes the state of a row and nothing else of it, legally or not,
\* does the promise no harm.
LEMMA StateKeeps ==
    ASSUME KeyInv, NEW i \in Ids, NEW s \in LeaseState, Inserted(i),
           leases' = [leases EXCEPT ![i].state = s], UNCHANGED calls
    PROVE  KeyInv'
<1>1. s # "absent"
  BY DEF LeaseState
<1>2. leases[i] \in Lease
  BY DEF KeyInv, TypeOK, Inserted, NoLease
<1>3. /\ leases'[i] = [leases[i] EXCEPT !.state = s]
      /\ \A j \in Ids : j # i => leases'[j] = leases[j]
  BY DEF KeyInv, TypeOK
<1>4. /\ leases'[i].requester = leases[i].requester
      /\ leases'[i].key = leases[i].key /\ leases'[i].state = s
  BY <1>2, <1>3 DEF Lease
<1>5. Kept /\ \A j \in Ids : Inserted(j)' <=> Inserted(j)
  BY <1>1, <1>3, <1>4 DEF Kept, Inserted
<1>6. TypeOK'
  <2>1. [leases[i] EXCEPT !.state = s] \in Lease
    BY <1>2 DEF Lease
  <2> QED
    BY <2>1 DEF KeyInv, TypeOK
<1>7. OneRowPerKey'
  BY <1>5 DEF KeyInv, OneRowPerKey, Kept
<1>8. ASSUME NEW c \in Calls PROVE Holds(c)'
  <2>1. Holds(c) /\ calls'[c] = calls[c]
    BY DEF KeyInv
  <2>2. calls[c].phase = "staged" =>
            /\ ~Inserted(calls[c].id)'
            /\ \A d \in Calls : d # c /\ calls'[d].phase = "staged"
                                   => calls'[d].id # calls[c].id
    BY <1>5, <2>1 DEF Holds
  <2> QED
    BY <1>5, <2>1, <2>2, HoldsKept
<1> QED
  BY <1>6, <1>7, <1>8 DEF KeyInv

\* The table of moves has no move from or to "absent".
LEMMA MoveKeeps ==
    ASSUME KeyInv, NEW i \in Ids, NEW s \in LeaseState, Move(i, s)
    PROVE  KeyInv'
<1>1. Inserted(i)
  BY DEF Move, TRANSITIONS, TEARDOWN_INTENT_STATES, Inserted
<1> QED
  BY <1>1, StateKeeps DEF Move

LEMMA KeyStep == KeyInv /\ [Next]_vars => KeyInv'
<1> SUFFICES ASSUME KeyInv, [Next]_vars PROVE KeyInv'
  OBVIOUS
<1>1. ASSUME NEW c \in Calls, NEW r \in Requesters, NEW k \in Keys \cup {NoKey}, Look(c, r, k)
      PROVE  KeyInv'
  BY <1>1, LookKeeps
<1>2. ASSUME NEW c \in Calls, Decide(c) PROVE KeyInv'
  BY <1>2, DecideKeeps
<1>3. ASSUME NEW c \in Calls, Commit(c) PROVE KeyInv'
  BY <1>3, InsertKeeps, RefusalKeeps
<1>4. ASSUME NEW c \in Calls, Recover(c) PROVE KeyInv'
  BY <1>4, RecoverKeeps
<1>5. ASSUME NEW c \in Calls, Abort(c) PROVE KeyInv'
  BY <1>5, AbortKeeps
<1>6. ASSUME NEW i \in Ids, NEW s \in LeaseState, Move(i, s) PROVE KeyInv'
  BY <1>6, MoveKeeps
<1>7. CASE UNCHANGED vars
  BY <1>7 DEF vars, KeyInv, TypeOK, OneRowPerKey, Inserted, Holds, SameRequest, Existing
<1> QED
  BY <1>1, <1>2, <1>3, <1>4, <1>5, <1>6, <1>7 DEF Next

LEMMA KeyAlways == Spec => []KeyInv
  BY KeyInit, KeyStep, PTL DEF Spec

\* However calls race, an idempotency key names one lease of its requester.
THEOREM KeysNameOneLease == Spec => []KeyNamesOneLease
<1>1. KeyInv => KeyNamesOneLease
  BY DEF KeyInv, OneRowPerKey, Inserted, Holds, SameRequest, KeyNamesOneLease, Answered
<1> QED
  BY <1>1, KeyAlways, PTL

\* Nobody is answered with a lease of somebody else.
THEOREM AnswersStayOwn == Spec => []AnswersAreOwn
<1>1. KeyInv => AnswersAreOwn
  BY DEF KeyInv, Holds, SameRequest, AnswersAreOwn, Answered
<1> QED
  BY <1>1, KeyAlways, PTL

\* The loser of a race always finds the winner's lease.
THEOREM NoLoserRaises == Spec => []LosersAreAnswered
<1>1. KeyInv => LosersAreAnswered
  BY DEF KeyInv, Holds, LosersAreAnswered
<1> QED
  BY <1>1, KeyAlways, PTL

\* Rows and calls keep their shape.
THEOREM RequestTypes == Spec => []TypeOK
<1>1. KeyInv => TypeOK
  BY DEF KeyInv
<1> QED
  BY <1>1, KeyAlways, PTL

=============================================================================
