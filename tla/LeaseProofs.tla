----------------------------- MODULE LeaseProofs -----------------------------
(***************************************************************************)
(* Three promises about every lease, for every instance and every overlap. *)
(*                                                                         *)
(* The approval gate has to be carried through everything a session may    *)
(* remember of a lease from before: a call under way, a pass of the        *)
(* ticker, a snapshot.                                                     *)
(*                                                                         *)
(* No lease is stranded: each state that some session may still write,     *)
(* from however long ago it read the row, is a state that a queue, a       *)
(* deadline or a human looks at by then.                                   *)
(*                                                                         *)
(* Whatever is carried on from before an end was loaded while the lease    *)
(* was open: nothing that sees a closed lease writes it.                   *)
(***************************************************************************)
EXTENDS BailmentTypes

\* The states of a lease nobody has provisioned anything for.
Untouched == {"absent", "awaiting_approval", "rejected"}

\* An approver or a rejecter has seen the lease wait; nobody else has a call
\* under way on an unapproved lease but somebody revoking it while it waits.
CallGate(c) ==
    /\ call[c].op \in {"approve", "reject"} => call[c].copy.state = "awaiting_approval"
    /\ call[c].op # "none" /\ Unapproved(call[c].lease) =>
          /\ call[c].op \in {"approve", "reject", "revoke"}
          /\ call[c].copy.state = "awaiting_approval"

\* An unapproved lease is untouched, and whoever read it earlier will leave it
\* so: the ticker can only reject it, the reconciler does not ask about it.
LeaseGate(l) ==
    /\ rows[l].state = "absent" => Unapproved(l)
    /\ Unapproved(l) =>
          /\ rows[l].state \in Untouched
          /\ l \notin resources \cup wire
          /\ \A w \in Workers : held[w] # l
          /\ plan[l].mine.state \in {plan[l].loaded.state, "rejected"}
          /\ snap[l].state \in Untouched
          /\ l \notin unasked \cup intended

GateInv ==
    /\ \A c \in Callers : CallGate(c)
    /\ \A l \in Leases : LeaseGate(l)

LEMMA GateInit == Init => GateInv
<1> SUFFICES ASSUME Init PROVE GateInv
  OBVIOUS
<1>1. ASSUME NEW c \in Callers PROVE CallGate(c)
  BY DEF Init, ServiceInit, NoCall, CallGate
<1>2. ASSUME NEW l \in Leases PROVE LeaseGate(l)
  BY NullsAssumption DEF Init, StoreInit, NoRow, ProviderInit, WorkerInit, TickerInit, NoPlan,
     ReconcilerInit, NoSnapshot, LeaseGate, Untouched, Unapproved, NoCopy
<1> QED
  BY <1>1, <1>2 DEF GateInv

\* Approvals and the verdict of the policy only accumulate.
LEMMA GateCloses ==
    ASSUME NEW l, Kept(l), approvals \subseteq approvals', Unapproved(l)'
    PROVE  Unapproved(l)
  BY DEF Kept, Unapproved

\* As long as no approval is committed and the calls stay what they are, so
\* does what they may do.
LEMMA CallGateKept ==
    ASSUME GateInv, ServiceInv, \A l \in Leases : Kept(l),
           approvals' = approvals, call' = call
    PROVE  \A c \in Callers : CallGate(c)'
  BY GateCloses DEF GateInv, CallGate, ServiceInv

-----------------------------------------------------------------------------
(* Workers.                                                                *)

\* How far a handler reaches: the one lease it holds, at the database as at
\* the provider.
Reach(w) ==
    /\ \A l \in Leases : l # held[w] => rows'[l] = rows[l]
    /\ \A v \in Workers : held'[v] \in {held[v], NoLease}
    /\ resources' \subseteq resources \cup {held[w]}
    /\ wire' \subseteq wire \cup {held[w]}
    /\ approvals' = approvals

LEMMA SettleReach ==
    ASSUME StoreTypeOK, WorkerInv, NEW w \in Workers, NEW mine, Settle(w, mine)
    PROVE  /\ \A l \in Leases : l # held[w] => rows'[l] = rows[l]
           /\ \A v \in Workers : held'[v] \in {held[v], NoLease}
           /\ approvals' = approvals
  BY DEF Settle, Done, StoreTypeOK, WorkerInv, WorkerTypeOK

LEMMA EndsReach ==
    ASSUME StoreTypeOK, WorkerInv, NEW w \in Workers,
           BackOff(w) \/ Fail(w) \/ Orphan(w)
    PROVE  /\ \A l \in Leases : l # held[w] => rows'[l] = rows[l]
           /\ \A v \in Workers : held'[v] \in {held[v], NoLease}
           /\ approvals' = approvals
  BY SettleReach DEF BackOff, Fail, Orphan

LEMMA HandlerReach ==
    ASSUME StoreTypeOK, WorkerInv, NEW w \in Workers, Handle(w) \/ Abandon(w)
    PROVE  Reach(w)
<1>1. CASE Begin(w)
  BY <1>1 DEF Begin, BeginUnavailable, BeginProvision, BeginTeardown, OnlyBudget,
              Reach, storeVars, providerVars
<1>2. CASE Park(w)
  BY <1>2, SettleReach DEF Park, Reach, providerVars
<1>3. CASE Provisioning(w)
  <2>1. CASE PreflightPasses(w)
    BY <2>1 DEF PreflightPasses, Goto, Reach, storeVars, providerVars
  <2>2. CASE PreflightFails(w) \/ RolledBack(w) \/ RollBackFails(w)
    BY <2>2, EndsReach DEF PreflightFails, RolledBack, RollBackFails, Reach, providerVars
  <2>3. CASE CreateLands(w)
    BY <2>3 DEF CreateLands, Create, Goto, Reach, storeVars
  <2>4. CASE CreateFails(w)
    <3>1. resources' \subseteq resources \cup {held[w]} /\ wire' \subseteq wire \cup {held[w]}
      BY <2>4 DEF CreateFails, GiveUpOnCreate, providerVars
    <3> QED
      BY <2>4, <3>1, EndsReach DEF CreateFails, Goto, Reach, storeVars
  <2>5. CASE Activate(w)
    BY <2>5 DEF Activate, Done, Reach, providerVars, StoreTypeOK, WorkerInv, WorkerTypeOK
  <2>6. CASE RollBackProbe(w)
    BY <2>6, EndsReach DEF RollBackProbe, Goto, Reach, storeVars, providerVars
  <2>7. CASE RollBackDestroys(w)
    BY <2>7 DEF RollBackDestroys, Destroy, Goto, Reach, storeVars
  <2> QED
    BY <1>3, <2>1, <2>2, <2>3, <2>4, <2>5, <2>6, <2>7 DEF Provisioning
<1>4. CASE Teardown(w)
  <2>1. CASE DestroyLands(w)
    BY <2>1 DEF DestroyLands, Destroy, Goto, Reach, storeVars
  <2>2. CASE Release(w)
    BY <2>2, SettleReach DEF Release, Reach, providerVars
  <2>3. CASE DestroyFails(w)
    BY <2>3, EndsReach DEF DestroyFails, Reach, providerVars
  <2> QED
    BY <1>4, <2>1, <2>2, <2>3 DEF Teardown
<1>5. CASE RefusedMove(w)
  BY <1>5 DEF RefusedMove, Done, Reach, storeVars, providerVars, WorkerInv, WorkerTypeOK
<1>6. CASE Abandon(w)
  BY <1>6 DEF Abandon, OnlyBudget, Done, GiveUpOnCreate, Reach, providerVars,
              WorkerInv, WorkerTypeOK
<1> QED
  BY <1>1, <1>2, <1>3, <1>4, <1>5, <1>6 DEF Handle

\* No step of a worker touches a lease that is not approved, because none holds
\* it and none can claim it.
LEMMA WorkerSpares ==
    ASSUME TypeInv, NEW l \in Leases, LeaseGate(l), Unapproved(l), WorkerNext
    PROVE  /\ rows'[l].state = rows[l].state
           /\ l \notin resources' \cup wire'
           /\ \A w \in Workers : held'[w] # l
<1>1. ASSUME NEW w \in Workers, NEW k \in Leases,
             NEW queue \in {"provision", "teardown"}, Claim(w, k, queue)
      PROVE  /\ rows'[l].state = rows[l].state
             /\ l \notin resources' \cup wire'
             /\ \A v \in Workers : held'[v] # l
  <2>1. k # l
    BY <1>1 DEF Claim, LeaseGate, Untouched, PROVISION_STATES, TEARDOWN_STATES
  <2> QED
    BY <1>1, <2>1 DEF Claim, LeaseGate, TypeInv, StoreTypeOK, WorkerInv, WorkerTypeOK,
                      providerVars
<1>2. ASSUME NEW w \in Workers, Handle(w) \/ Abandon(w)
      PROVE  /\ rows'[l].state = rows[l].state
             /\ l \notin resources' \cup wire'
             /\ \A v \in Workers : held'[v] # l
  BY <1>2, HandlerReach, NullsAssumption DEF TypeInv, LeaseGate, Reach
<1>3. ASSUME NEW k \in Leases, ClaimAges(k)
      PROVE  /\ rows'[l].state = rows[l].state
             /\ l \notin resources' \cup wire'
             /\ \A v \in Workers : held'[v] # l
  BY <1>3 DEF ClaimAges, LeaseGate, TypeInv, StoreTypeOK, Row, workerVars, providerVars
<1> QED
  BY <1>1, <1>2, <1>3 DEF WorkerNext

LEMMA WorkerApprovesNothing ==
    ASSUME StoreTypeOK, WorkerInv, WorkerNext
    PROVE  approvals' = approvals
  BY HandlerReach DEF WorkerNext, Claim, ClaimAges, Reach

LEMMA WorkerKeepsGate ==
    ASSUME TypeInv, GateInv, WorkerNext, OfWorker
    PROVE  GateInv'
<1>1. \A l \in Leases : Kept(l)
  BY WorkerTyped DEF TypeInv, StoreStep
<1>2. approvals' = approvals
  BY WorkerApprovesNothing DEF TypeInv
<1>3. ASSUME NEW l \in Leases PROVE LeaseGate(l)'
  <2>1. LeaseGate(l) /\ Kept(l)
    BY <1>1 DEF GateInv
  <2>2. rows'[l].state = "absent" => Unapproved(l)'
    BY <1>2, <2>1 DEF LeaseGate, Kept, Unapproved
  <2>3. Unapproved(l)' => Unapproved(l)
    BY <1>2, <2>1, GateCloses
  <2> QED
    BY <2>1, <2>2, <2>3, WorkerSpares DEF LeaseGate, OfWorker, reconcilerVars
<1> QED
  BY <1>1, <1>2, <1>3, CallGateKept DEF GateInv, OfWorker, TypeInv

-----------------------------------------------------------------------------
(* Calls.                                                                  *)

LEMMA RequestKeepsGate ==
    ASSUME TypeInv, GateInv, NEW k \in Leases,
           NEW effect \in {"allow", "require_approval", "deny"}, Request(k, effect), OfService
    PROVE  GateInv'
<1>1. /\ Unapproved(k) /\ LeaseGate(k)
      /\ rows' = [rows EXCEPT ![k] = Requested(effect)]
      /\ approvals' = approvals /\ call' = call
  BY DEF GateInv, LeaseGate, Request
<1>2. /\ Requested(effect).effect = effect
      /\ Requested(effect).state # "absent"
      /\ effect # "allow" => Requested(effect).state \in Untouched
  BY DEF Requested, NoRow, Untouched
<1>3. \A l \in Leases : Unapproved(l)' => Unapproved(l)
  BY <1>1 DEF Unapproved, TypeInv, StoreTypeOK
<1>4. ASSUME NEW l \in Leases PROVE LeaseGate(l)'
  <2>1. CASE l = k
    BY <1>1, <1>2, <2>1 DEF LeaseGate, Unapproved, TypeInv, StoreTypeOK, OfService,
                            providerVars, workerVars, reconcilerVars
  <2>2. CASE l # k
    BY <1>1, <2>2 DEF GateInv, LeaseGate, Unapproved, TypeInv, StoreTypeOK, OfService,
                      providerVars, workerVars, reconcilerVars
  <2> QED
    BY <2>1, <2>2
<1>5. ASSUME NEW c \in Callers PROVE CallGate(c)'
  BY <1>1, <1>3 DEF GateInv, CallGate, TypeInv, ServiceInv
<1> QED
  BY <1>4, <1>5 DEF GateInv

LEMMA CallBeginsKeepsGate ==
    ASSUME TypeInv, GateInv, NEW c \in Callers, NEW op \in AllOps, NEW k \in Leases,
           CallBegins(c, op, k), OfService
    PROVE  GateInv'
<1>1. ASSUME NEW l \in Leases PROVE LeaseGate(l)'
  BY DEF GateInv, LeaseGate, Unapproved, CallBegins, storeVars, OfService,
         providerVars, workerVars, reconcilerVars
<1>2. op \in {"approve", "reject"} => rows[k].state = "awaiting_approval"
  BY DEF CallBegins, Accepts, Approvable, Rejectable
<1>3. ASSUME Unapproved(k)
      PROVE  op \in {"approve", "reject", "revoke"} /\ rows[k].state = "awaiting_approval"
  <2>1. rows[k].state \in {"awaiting_approval", "rejected"}
    BY <1>3 DEF GateInv, LeaseGate, Untouched, CallBegins
  <2>2. Accepts(op, k)
    BY DEF CallBegins
  <2>3. CASE op \in {"approve", "reject"}
    BY <1>2, <2>3
  <2>4. CASE op = "renew"
    BY <2>1, <2>2, <2>4 DEF Accepts, Renewable, USABLE_STATES
  <2>5. CASE op = "revoke"
    BY <2>1, <2>2, <2>5 DEF Accepts, Revocable, TERMINAL_STATES
  <2>6. CASE op = "retry_teardown"
    BY <2>1, <2>2, <2>6 DEF Accepts, Retriable
  <2> QED
    BY <2>3, <2>4, <2>5, <2>6 DEF AllOps
<1>4. call' = [call EXCEPT ![c] = [op |-> op, lease |-> k, copy |-> View(rows[k])]]
  BY DEF CallBegins
<1>5. \A l : Unapproved(l)' = Unapproved(l)
  BY DEF CallBegins, storeVars, Unapproved
<1>6. View(rows[k]).state = rows[k].state
  BY DEF View
<1>7. ASSUME NEW d \in Callers PROVE CallGate(d)'
  <2>1. CASE d = c
    BY <1>2, <1>3, <1>4, <1>5, <1>6, <2>1 DEF CallGate, TypeInv, ServiceInv, ServiceTypeOK
  <2>2. CASE d # c
    BY <1>4, <1>5, <2>2 DEF GateInv, CallGate, TypeInv, ServiceInv, ServiceTypeOK
  <2> QED
    BY <2>1, <2>2
<1> QED
  BY <1>1, <1>7 DEF GateInv

\* The commit of a call: an approval opens the gate, anything else that may be
\* under way on an unapproved lease rejects it.
LEMMA CommitOnGated ==
    ASSUME TypeInv, NEW c \in Callers, CallGate(c), CallEnds(c), ~CallAborts(c),
           NEW l \in Leases, LeaseGate(l), Unapproved(l), Unapproved(l)'
    PROVE  rows'[l].state \in {rows[l].state, "rejected"}
<1>1. CASE call[c].lease # l
  BY <1>1 DEF CallEnds, Approve, Reject, Renew, Revoke, RetryTeardown, Commit,
              TypeInv, StoreTypeOK
<1>2. CASE call[c].lease = l
  <2>1. ~Approve(c)
    BY <1>2 DEF Approve, Unapproved
  <2>2. ~Renew(c) /\ ~RetryTeardown(c)
    BY <1>2 DEF Renew, RetryTeardown, Commit, CallGate
  <2>3. CASE Reject(c)
    BY <1>2, <2>3 DEF Reject, Commit, Flush, Column, CallGate, TypeInv, StoreTypeOK, Row
  <2>4. CASE Revoke(c)
    BY <1>2, <2>4 DEF Revoke, Commit, Flush, Column, CallGate, TypeInv, StoreTypeOK, Row
  <2> QED
    BY <2>1, <2>2, <2>3, <2>4 DEF CallEnds
<1> QED
  BY <1>1, <1>2

LEMMA CallEndsKeepsGate ==
    ASSUME TypeInv, GateInv, NEW c \in Callers, CallEnds(c), OfService
    PROVE  GateInv'
<1>1. \A l \in Leases : Kept(l)
  BY CallEndsTyped DEF TypeInv, StoreStep
<1>2. /\ approvals \subseteq approvals'
      /\ call' = [call EXCEPT ![c] = NoCall]
  BY DEF CallEnds, Approve, Reject, Renew, Revoke, RetryTeardown, Commit, CallAborts, storeVars
<1>3. \A l \in Leases : Unapproved(l)' => Unapproved(l)
  BY <1>1, <1>2, GateCloses
<1>4. ASSUME NEW d \in Callers PROVE CallGate(d)'
  <2>1. CASE d = c
    BY <1>2, <2>1 DEF CallGate, NoCall, TypeInv, ServiceInv, ServiceTypeOK
  <2>2. CASE d # c
    BY <1>2, <1>3, <2>2 DEF GateInv, CallGate, TypeInv, ServiceInv, ServiceTypeOK
  <2> QED
    BY <2>1, <2>2
<1>5. ASSUME NEW l \in Leases PROVE LeaseGate(l)'
  <2>1. rows'[l].state = "absent" => Unapproved(l)'
    <3>1. CASE Approve(c) /\ l = call[c].lease
      BY <3>1 DEF Approve, Commit, Flush, Column, Queued, GateInv, CallGate, TypeInv,
                  StoreTypeOK, Row
    <3>2. CASE ~(Approve(c) /\ l = call[c].lease)
      <4>1. l \in approvals' => l \in approvals
        BY <3>2 DEF CallEnds, Approve, Reject, Renew, Revoke, RetryTeardown, Commit,
                    CallAborts, storeVars
      <4> QED
        BY <1>1, <4>1 DEF GateInv, LeaseGate, Kept, Unapproved
    <3> QED
      BY <3>1, <3>2
  <2>2. Unapproved(l)' => rows'[l].state \in {rows[l].state, "rejected"}
    <3>1. CASE CallAborts(c)
      BY <3>1 DEF CallAborts, storeVars
    <3> QED
      BY <1>3, <3>1, CommitOnGated DEF GateInv
  <2> QED
    BY <1>3, <2>1, <2>2 DEF GateInv, LeaseGate, Untouched, OfService, providerVars,
                            workerVars, reconcilerVars
<1> QED
  BY <1>4, <1>5 DEF GateInv

-----------------------------------------------------------------------------
(* The clock, the provider, the ticker and the reconciler.                 *)

\* What the rest of a step has to leave alone for the gate of l to hold on.
Spared(l) ==
    /\ rows'[l].state \in {rows[l].state, "rejected"}
    /\ {l} \cap (resources' \cup wire') \subseteq resources \cup wire

LEMMA EnvironmentKeepsGate ==
    ASSUME TypeInv, GateInv,
           \/ ClockNext /\ OfClock
           \/ ProviderNext /\ OfProvider
    PROVE  GateInv'
<1>1. /\ \A l \in Leases : Kept(l) /\ Spared(l) /\ rows'[l].state = rows[l].state
      /\ approvals' = approvals
  <2>1. CASE ClockNext /\ OfClock
    BY <2>1 DEF ClockNext, OfClock, RetryFallsDue, DeadlineNears, RowMatures,
                ApprovalLapses, Kept, Spared, TypeInv, StoreTypeOK, Row, providerVars
  <2>2. CASE ProviderNext /\ OfProvider
    BY <2>2 DEF ProviderNext, OfProvider, LateCreateLands, ResourceVanishes, ResourceAges,
                Destroy, Kept, Spared, storeVars
  <2> QED
    BY <2>1, <2>2
<1>2. UNCHANGED <<workerVars, call, plan, reconcilerVars>>
  BY DEF OfClock, OfProvider
<1>3. ASSUME NEW l \in Leases PROVE LeaseGate(l)'
  BY <1>1, <1>2, GateCloses DEF GateInv, LeaseGate, Spared, Kept, Unapproved, workerVars,
                                reconcilerVars
<1> QED
  BY <1>1, <1>2, <1>3, CallGateKept DEF GateInv, TypeInv

LEMMA TickerKeepsGate ==
    ASSUME TypeInv, GateInv, TickerNext, OfTicker
    PROVE  GateInv'
<1>1. \A l \in Leases : Kept(l)
  BY TickerTyped DEF TypeInv, StoreStep
<1>2. approvals' = approvals
  BY DEF TickerNext, TickReads, TickCommits, TickAborts, storeVars
<1>3. ASSUME NEW l \in Leases PROVE LeaseGate(l)'
  <2>1. Unapproved(l)' = Unapproved(l)
    BY <1>1, <1>2 DEF Kept, Unapproved
  <2>2. rows'[l].state = "absent" => Unapproved(l)'
    BY <1>1, <2>1 DEF GateInv, LeaseGate, Kept
  <2>3. ASSUME Unapproved(l) PROVE rows'[l].state \in Untouched
    <3>1. CASE TickCommits
      <4>1. rows'[l].state = Column(plan[l].loaded.state, plan[l].mine.state, rows[l].state)
        BY <3>1, FlushIsRow DEF TickCommits, TypeInv, StoreTypeOK, TickerInv
      <4> QED
        BY <2>3, <4>1 DEF GateInv, LeaseGate, Column, Untouched
    <3>2. CASE TickReads \/ TickAborts
      BY <2>3, <3>2 DEF TickReads, TickAborts, storeVars, GateInv, LeaseGate
    <3> QED
      BY <3>1, <3>2 DEF TickerNext
  <2>4. ASSUME Unapproved(l) PROVE plan'[l].mine.state \in {plan'[l].loaded.state, "rejected"}
    <3>1. CASE TickReads
      <4>1. ~Warns(l) /\ ~Expires(l) /\ ~Unscheduled(l)
        BY <2>4 DEF GateInv, LeaseGate, Untouched, Warns, Expires, Unscheduled,
                    USABLE_STATES, TEARDOWN_INTENT_STATES
      <4>2. CASE Touched(l)
        <5>1. /\ plan'[l].loaded = View(rows[l])
              /\ plan'[l].mine = Rejected(l, View(rows[l]))
          BY <3>1, <4>1, <4>2 DEF TickReads, Warned, Expired, Requeued
        <5>2. View(rows[l]) \in Copy
          BY ViewIsCopy DEF TypeInv, StoreTypeOK
        <5> QED
          BY <5>1, <5>2 DEF Rejected, Copy
      <4>3. CASE ~Touched(l)
        BY <3>1, <4>3 DEF TickReads, NoPlan
      <4> QED
        BY <4>2, <4>3
    <3>2. CASE TickCommits \/ TickAborts
      BY <3>2 DEF TickCommits, TickAborts, NoPlan
    <3> QED
      BY <3>1, <3>2 DEF TickerNext
  <2> QED
    BY <2>1, <2>2, <2>3, <2>4 DEF GateInv, LeaseGate, OfTicker, providerVars, workerVars,
                                  reconcilerVars
<1> QED
  BY <1>1, <1>2, <1>3, CallGateKept DEF GateInv, OfTicker, TypeInv

LEMMA ReconcilerKeepsGate ==
    ASSUME TypeInv, GateInv, ReconcilerNext, OfReconciler
    PROVE  GateInv'
<1>1. \A l \in Leases : Kept(l)
  BY ReconcilerTyped DEF TypeInv, StoreStep
<1>2. /\ approvals' = approvals /\ resources' \subseteq resources /\ wire' = wire
  BY DEF ReconcilerNext, SweepProceeds, TakeSnapshot, ListManaged, OrphansDone, RereadAll,
         WriteDrift, DestroyOrphan, Ask, SweepAborts, Destroy, storeVars, providerVars
<1>3. ASSUME NEW l \in Leases PROVE LeaseGate(l)'
  <2>1. Unapproved(l)' = Unapproved(l)
    BY <1>1, <1>2 DEF Kept, Unapproved
  <2>2. rows'[l].state = "absent" => Unapproved(l)'
    BY <1>1, <2>1 DEF GateInv, LeaseGate, Kept
  <2>3. ASSUME Unapproved(l) PROVE rows'[l].state = rows[l].state
    BY <2>3 DEF GateInv, LeaseGate, ReconcilerNext, SweepProceeds, TakeSnapshot, ListManaged,
       OrphansDone, RereadAll, WriteDrift, DestroyOrphan, Ask, SweepAborts, storeVars
  <2>4. ASSUME Unapproved(l)
        PROVE  snap'[l].state \in Untouched /\ l \notin unasked' \cup intended'
    <3>1. /\ rows[l].state \in Untouched /\ snap[l].state \in Untouched
          /\ l \notin unasked \cup intended
      BY <2>4 DEF GateInv, LeaseGate
    <3>2. CASE TakeSnapshot
      BY <3>1, <3>2 DEF TakeSnapshot
    <3>3. CASE ListManaged
      <4>1. l \notin ToAsk
        BY <3>1 DEF ToAsk, Untouched, LIVE_STATES
      <4> QED
        BY <3>1, <3>3, <4>1 DEF ListManaged
    <3>4. CASE WriteDrift \/ SweepAborts
      BY <3>4 DEF WriteDrift, SweepAborts, Forgotten, NoSnapshot, Untouched
    <3>5. CASE OrphansDone \/ RereadAll \/ \E k \in Leases : DestroyOrphan(k) \/ Ask(k)
      <4>1. /\ snap' = snap /\ unasked' \subseteq unasked
            /\ intended' \subseteq intended \cup unasked
        BY <3>5 DEF OrphansDone, RereadAll, DestroyOrphan, Ask
      <4> QED
        BY <3>1, <4>1
    <3> QED
      BY <3>2, <3>3, <3>4, <3>5 DEF ReconcilerNext, SweepProceeds
  <2> QED
    BY <1>2, <2>1, <2>2, <2>3, <2>4 DEF GateInv, LeaseGate, OfReconciler, workerVars
<1> QED
  BY <1>1, <1>2, <1>3, CallGateKept DEF GateInv, OfReconciler, TypeInv

-----------------------------------------------------------------------------

LEMMA GateStep == TypeInv /\ GateInv /\ [Next]_vars => GateInv'
<1> SUFFICES ASSUME TypeInv, GateInv, [Next]_vars PROVE GateInv'
  OBVIOUS
<1>1. CASE (ClockNext /\ OfClock) \/ (ProviderNext /\ OfProvider)
  BY <1>1, EnvironmentKeepsGate
<1>2. CASE WorkerNext /\ OfWorker
  BY <1>2, WorkerKeepsGate
<1>3. CASE ServiceBegins /\ OfService
  BY <1>3, RequestKeepsGate, CallBeginsKeepsGate, ChoicesAssumption DEF ServiceBegins
<1>4. CASE ServiceEnds /\ OfService
  BY <1>4, CallEndsKeepsGate DEF ServiceEnds
<1>5. CASE TickerNext /\ OfTicker
  BY <1>5, TickerKeepsGate
<1>6. CASE ReconcilerNext /\ OfReconciler
  BY <1>6, ReconcilerKeepsGate
<1>7. CASE UNCHANGED vars
  BY <1>7 DEF vars, storeVars, providerVars, workerVars, reconcilerVars, GateInv, CallGate,
              LeaseGate, Unapproved
<1> QED
  BY <1>1, <1>2, <1>3, <1>4, <1>5, <1>6, <1>7 DEF Next

\* Nothing is provisioned for a request the policy did not allow outright before
\* an approval of it is committed, however approvers, rejecters, revokers, the
\* deadline sweep, workers and the reconciler overlap (service.py _decide,
\* approve, reject; leases.py _expire_approvals; worker.py _claim).
THEOREM ApprovalGateHolds == Spec => []ApprovalGate
<1>1. GateInv => ApprovalGate
  BY DEF GateInv, LeaseGate, ApprovalGate
<1>2. Spec => []GateInv
  BY GateInit, GateStep, TypeInvInvariant, PTL DEF Spec
<1> QED
  BY <1>1, <1>2, PTL

-----------------------------------------------------------------------------

\* Somebody still looks for the lease: what NothingStranded asks of each.
Watched(l) ==
    /\ rows[l].state # "unknown"
    /\ rows[l].state \in USABLE_STATES => rows[l].deadline # "unset"
    /\ rows[l].state = "awaiting_approval" => approval[l] \in {"open", "lapsed"}

\* A call that closes an approval row has seen the lease wait for it.
CallSaw(c) ==
    call[c].op \in {"approve", "reject"} => call[c].copy.state = "awaiting_approval"

\* A pass that lapses an approval rejects the lease it loaded waiting, and one
\* that writes EXPIRING found a deadline.
PassSaw(l) ==
    /\ plan[l].mine.state \in {plan[l].loaded.state, "expiring", "expired", "rejected"}
    /\ plan[l].mine.state # plan[l].loaded.state /\ plan[l].mine.state = "expiring" =>
          rows[l].state # "absent" /\ rows[l].deadline # "unset"
    /\ plan[l].lapse =>
          plan[l].loaded.state = "awaiting_approval" /\ plan[l].mine.state = "rejected"

StrandInv ==
    /\ \A l \in Leases : Watched(l) /\ PassSaw(l)
    /\ \A c \in Callers : CallSaw(c)

LEMMA StrandInit == Init => StrandInv
<1> SUFFICES ASSUME Init PROVE StrandInv
  OBVIOUS
<1>1. \A l \in Leases : Watched(l)
  BY DEF Init, StoreInit, NoRow, Watched, USABLE_STATES
<1>2. \A l \in Leases : PassSaw(l)
  BY DEF Init, TickerInit, NoPlan, PassSaw
<1>3. \A c \in Callers : CallSaw(c)
  BY DEF Init, ServiceInit, NoCall, CallSaw
<1> QED
  BY <1>1, <1>2, <1>3 DEF StrandInv

-----------------------------------------------------------------------------
(* A step that writes a row either moves its state to one that is watched  *)
(* by itself, or sets a deadline with it.                                  *)

\* In a queue, or closed, or shown to a human.
SafeStates ==
    {"provisioning", "deprovisioning", "failed", "orphaned", "released",
     "rejected", "revoked", "expired"}

\* What a step may do to the row of a lease it does not insert.
Moves(l) ==
    /\ \/ rows'[l].state \in {rows[l].state} \cup SafeStates
       \/ rows'[l].state \in USABLE_STATES /\ rows'[l].deadline # "unset"
    /\ rows[l].deadline # "unset" => rows'[l].deadline # "unset"
    /\ rows'[l].state = "absent" => rows[l].state = "absent"

\* The part of the invariant about rows and plans, when the step moves rows so
\* and closes no approval row of a lease that goes on waiting for it.
LEMMA MovesKeepWatch ==
    ASSUME NEW l \in Leases, Watched(l), Moves(l),
           \/ rows'[l].state # "awaiting_approval"
           \/ approval'[l] \in {approval[l], "lapsed"}
    PROVE  Watched(l)'
  BY DEF Watched, Moves, SafeStates, USABLE_STATES

LEMMA MovesKeepPlans ==
    ASSUME NEW l \in Leases, PassSaw(l), Moves(l), plan' = plan
    PROVE  PassSaw(l)'
  BY DEF PassSaw, Moves

LEMMA SameRowMoves ==
    ASSUME NEW l \in Leases, rows'[l] = rows[l]
    PROVE  Moves(l)
  BY DEF Moves

\* A commit moves a row if what its session made of the state does.
LEMMA FlushMoves ==
    ASSUME StoreTypeOK, NEW l \in Leases, NEW loaded, NEW mine,
           Committable(loaded, mine), rows'[l] = Flush(rows[l], loaded, mine),
           mine.state \in {loaded.state} \cup SafeStates
    PROVE  Moves(l)
<1>1. rows[l] \in Row
  BY DEF StoreTypeOK
<1>2. /\ rows'[l].state = Column(loaded.state, mine.state, rows[l].state)
      /\ rows'[l].deadline = rows[l].deadline
  BY <1>1, FlushColumns
<1> QED
  BY <1>1, <1>2 DEF Moves, Column, SafeStates, Committable

-----------------------------------------------------------------------------
(* Handlers.                                                               *)

\* A handler only ever writes a state that is watched, or ACTIVE with a deadline.
LEMMA SettleMoves ==
    ASSUME StoreTypeOK, WorkerInv, NEW w \in Workers, at[w] # "idle", NEW mine,
           Committable(copy[w], mine), Settle(w, mine),
           mine.state \in {copy[w].state} \cup SafeStates
    PROVE  (\A l \in Leases : Moves(l)) /\ approval' = approval
<1>1. held[w] \in Leases
  BY DEF WorkerInv
<1>2. rows' = [rows EXCEPT ![held[w]] = Flush(rows[held[w]], copy[w], mine)]
  BY DEF Settle
<1>3. Moves(held[w])
  BY <1>1, <1>2, FlushMoves DEF StoreTypeOK
<1>4. \A l \in Leases : l # held[w] => Moves(l)
  BY <1>2, SameRowMoves DEF StoreTypeOK
<1> QED
  BY <1>3, <1>4 DEF Settle

LEMMA EndsMove ==
    ASSUME StoreTypeOK, WorkerInv, NEW w \in Workers, at[w] # "idle",
           BackOff(w) \/ Fail(w) \/ Orphan(w)
    PROVE  (\A l \in Leases : Moves(l)) /\ approval' = approval
<1>1. copy[w] \in Copy
  BY DEF WorkerInv, WorkerTypeOK
<1>2. CASE BackOff(w)
  <2> DEFINE mine == [copy[w] EXCEPT !.state = Mine(w), !.claim = NoWorker, !.next = "later"]
  <2>1. Committable(copy[w], mine) /\ mine.state = Mine(w)
    BY <1>1, MineIsState DEF Committable, Copy
  <2>2. Mine(w) \in {copy[w].state} \cup SafeStates
    BY DEF Mine, SafeStates
  <2>3. Settle(w, mine)
    BY <1>2 DEF BackOff
  <2> QED
    BY <2>1, <2>2, <2>3, SettleMoves
<1>3. CASE Fail(w)
  <2> DEFINE mine == [copy[w] EXCEPT !.state = "failed", !.claim = NoWorker, !.next = "none"]
  <2>1. Committable(copy[w], mine) /\ mine.state = "failed"
    BY <1>1, CopyCommittable DEF LeaseState, Copy
  <2>2. Settle(w, mine)
    BY <1>3 DEF Fail
  <2> QED
    BY <2>1, <2>2, SettleMoves DEF SafeStates
<1>4. CASE Orphan(w)
  <2> DEFINE mine == [copy[w] EXCEPT !.state = "orphaned", !.claim = NoWorker, !.next = "none"]
  <2>1. Committable(copy[w], mine) /\ mine.state = "orphaned"
    BY <1>1, CopyCommittable DEF LeaseState, Copy
  <2>2. Settle(w, mine)
    BY <1>4 DEF Orphan
  <2> QED
    BY <2>1, <2>2, SettleMoves DEF SafeStates
<1> QED
  BY <1>2, <1>3, <1>4

LEMMA ActivateMoves ==
    ASSUME StoreTypeOK, WorkerInv, NEW w \in Workers, Activate(w)
    PROVE  (\A l \in Leases : Moves(l)) /\ approval' = approval
<1> DEFINE mine == [copy[w] EXCEPT !.state = "active", !.claim = NoWorker,
                                   !.next = "none", !.attempts = 0, !.warned = FALSE]
           flushed == Flush(rows[held[w]], copy[w], mine)
<1>1. held[w] \in Leases /\ copy[w] \in Copy
  BY DEF Activate, WorkerInv, WorkerTypeOK
<1>2. /\ mine.state = "active" /\ Committable(copy[w], mine)
  BY <1>1 DEF Committable, Copy, LeaseState
<1> HIDE DEF mine
<1>3. /\ flushed \in Row /\ flushed.state \in {"active", rows[held[w]].state}
      /\ flushed.state = "absent" => rows[held[w]].state = "absent"
  BY <1>1, <1>2, FlushIsRow DEF StoreTypeOK, Column
<1>4. rows' = [rows EXCEPT ![held[w]] = Started(flushed)]
  BY <1>1 DEF Activate, StoreTypeOK, mine
<1> HIDE DEF flushed
<1>5. Moves(held[w])
  BY <1>1, <1>3, <1>4, StartedColumns DEF StoreTypeOK, Moves, USABLE_STATES
<1>6. \A l \in Leases : l # held[w] => Moves(l)
  BY <1>4, SameRowMoves DEF StoreTypeOK
<1> QED
  BY <1>5, <1>6 DEF Activate

LEMMA HandlerMoves ==
    ASSUME StoreTypeOK, WorkerInv, NEW w \in Workers, Handle(w) \/ Abandon(w)
    PROVE  (\A l \in Leases : Moves(l)) /\ approval' = approval
<1>a. ASSUME UNCHANGED rows PROVE \A l \in Leases : Moves(l)
  BY <1>a, SameRowMoves
<1>1. CASE Begin(w) \/ RefusedMove(w) \/ Abandon(w)
  BY <1>1, <1>a DEF Begin, BeginUnavailable, BeginProvision, BeginTeardown, RefusedMove,
                    Abandon, OnlyBudget, storeVars
<1>2. CASE Park(w)
  <2> DEFINE mine == [copy[w] EXCEPT !.attempts = IF @ = 0 THEN 0 ELSE @ - 1,
                                     !.claim = NoWorker, !.next = "later"]
  <2>1. at[w] # "idle" /\ copy[w] \in Copy
    BY <1>2 DEF Park, WorkerInv, WorkerTypeOK
  <2>2. (IF copy[w].attempts = 0 THEN 0 ELSE copy[w].attempts - 1) \in Nat
    BY <2>1 DEF Copy
  <2>3. mine \in Copy /\ mine.next = "later" /\ mine.state = copy[w].state
    BY <2>1, <2>2 DEF Copy
  <2>4. Settle(w, mine)
    BY <1>2 DEF Park
  <2> QED
    BY <2>1, <2>3, <2>4, SettleMoves DEF Committable
<1>3. CASE Provisioning(w)
  <2>1. at[w] # "idle"
    BY <1>3 DEF Provisioning, PreflightPasses, PreflightFails, CreateLands, CreateFails,
                Activate, RollBackProbe, RollBackDestroys, RolledBack, RollBackFails
  <2>2. CASE PreflightPasses(w) \/ CreateLands(w) \/ RollBackDestroys(w)
    BY <2>2, <1>a DEF PreflightPasses, CreateLands, RollBackDestroys, storeVars
  <2>3. CASE PreflightFails(w) \/ RolledBack(w) \/ RollBackFails(w)
    BY <2>1, <2>3, EndsMove DEF PreflightFails, RolledBack, RollBackFails
  <2>4. CASE CreateFails(w) \/ RollBackProbe(w)
    BY <2>1, <2>4, <1>a, EndsMove DEF CreateFails, RollBackProbe, storeVars
  <2>5. CASE Activate(w)
    BY <2>5, ActivateMoves
  <2> QED
    BY <1>3, <2>2, <2>3, <2>4, <2>5 DEF Provisioning
<1>4. CASE Teardown(w)
  <2>1. at[w] # "idle" /\ copy[w] \in Copy
    BY <1>4 DEF Teardown, DestroyLands, Release, DestroyFails, WorkerInv, WorkerTypeOK
  <2>2. CASE DestroyLands(w)
    BY <2>2, <1>a DEF DestroyLands, storeVars
  <2>3. CASE Release(w)
    <3> DEFINE mine == [copy[w] EXCEPT !.state = "released", !.claim = NoWorker, !.next = "none"]
    <3>1. Committable(copy[w], mine) /\ mine.state = "released"
      BY <2>1, CopyCommittable DEF LeaseState, Copy
    <3>2. Settle(w, mine)
      BY <2>3 DEF Release
    <3> QED
      BY <2>1, <3>1, <3>2, SettleMoves DEF SafeStates
  <2>4. CASE DestroyFails(w)
    BY <2>1, <2>4, EndsMove DEF DestroyFails
  <2> QED
    BY <1>4, <2>2, <2>3, <2>4 DEF Teardown
<1> QED
  BY <1>1, <1>2, <1>3, <1>4 DEF Handle

\* The claim writes no state, and neither does its ageing.
LEMMA WorkerMoves ==
    ASSUME StoreTypeOK, WorkerInv, WorkerNext
    PROVE  (\A l \in Leases : Moves(l)) /\ approval' = approval
<1>1. ASSUME NEW w \in Workers, NEW l \in Leases,
             NEW queue \in {"provision", "teardown"}, Claim(w, l, queue)
      PROVE  (\A k \in Leases : Moves(k)) /\ approval' = approval
  BY <1>1 DEF Claim, Moves, StoreTypeOK, Row
<1>2. ASSUME NEW l \in Leases, ClaimAges(l)
      PROVE  (\A k \in Leases : Moves(k)) /\ approval' = approval
  BY <1>2 DEF ClaimAges, Moves, StoreTypeOK, Row
<1> QED
  BY <1>1, <1>2, HandlerMoves DEF WorkerNext

-----------------------------------------------------------------------------
(* Calls.                                                                  *)

LEMMA CommitMoves ==
    ASSUME StoreTypeOK, ServiceInv, NEW c \in Callers, NEW op \in AllOps, NEW mine,
           Committable(call[c].copy, mine), Commit(c, op, mine),
           mine.state \in {call[c].copy.state} \cup SafeStates
    PROVE  \A l \in Leases : Moves(l)
<1>1. call[c].lease \in Leases
  BY DEF Commit, ServiceInv, AllOps
<1>2. rows' = [rows EXCEPT ![call[c].lease]
                 = Flush(rows[call[c].lease], call[c].copy, mine)]
  BY DEF Commit
<1>3. Moves(call[c].lease)
  BY <1>1, <1>2, FlushMoves DEF StoreTypeOK
<1> QED
  BY <1>2, <1>3, SameRowMoves DEF StoreTypeOK

\* Each call, and what it leaves of the approval row: only an approver and a
\* rejecter close one, and they write a state over the one they saw waiting.
LEMMA CallEndsMoves ==
    ASSUME StoreTypeOK, ServiceInv, NEW c \in Callers, CallEnds(c), CallSaw(c)
    PROVE  \A l \in Leases :
              Moves(l) /\ (rows'[l].state # "awaiting_approval" \/ approval'[l] = approval[l])
<1> DEFINE loaded == call[c].copy
           k == call[c].lease
<1>0. loaded \in Copy
  BY DEF ServiceInv, ServiceTypeOK
<1>1. CASE Approve(c)
  <2> DEFINE mine == [Queued(loaded) EXCEPT !.state = "provisioning"]
  <2>1. Committable(loaded, mine) /\ mine.state = "provisioning"
    BY <1>0, QueuedIsCopy DEF Committable, Copy, LeaseState
  <2>2. Commit(c, "approve", mine)
    BY <1>1 DEF Approve
  <2>3. \A l \in Leases : Moves(l)
    BY <2>1, <2>2, CommitMoves DEF AllOps, SafeStates
  <2>4. k \in Leases /\ loaded.state = "awaiting_approval"
    BY <2>2 DEF Commit, ServiceInv, CallSaw
  <2>5. rows'[k].state = "provisioning"
    <3> HIDE DEF mine
    <3>1. rows[k] \in Row /\ rows'[k] = Flush(rows[k], loaded, mine)
      BY <2>2, <2>4 DEF Commit, StoreTypeOK
    <3> QED
      BY <2>1, <2>4, <3>1, FlushColumns DEF Column
  <2>6. \A l \in Leases : l # k => approval'[l] = approval[l]
    BY <1>1 DEF Approve, StoreTypeOK
  <2> QED
    BY <2>3, <2>5, <2>6
<1>2. CASE Reject(c)
  <2> DEFINE mine == [loaded EXCEPT !.state = "rejected", !.next = "none"]
  <2>1. Committable(loaded, mine) /\ mine.state = "rejected"
    BY <1>0 DEF Committable, Copy, LeaseState
  <2>2. Commit(c, "reject", mine)
    BY <1>2 DEF Reject
  <2>3. \A l \in Leases : Moves(l)
    BY <2>1, <2>2, CommitMoves DEF AllOps, SafeStates
  <2>4. k \in Leases /\ loaded.state = "awaiting_approval"
    BY <2>2 DEF Commit, ServiceInv, CallSaw
  <2>5. rows'[k].state = "rejected"
    <3> HIDE DEF mine
    <3>1. rows[k] \in Row /\ rows'[k] = Flush(rows[k], loaded, mine)
      BY <2>2, <2>4 DEF Commit, StoreTypeOK
    <3> QED
      BY <2>1, <2>4, <3>1, FlushColumns DEF Column
  <2>6. \A l \in Leases : l # k => approval'[l] = approval[l]
    BY <1>2 DEF Reject, StoreTypeOK
  <2> QED
    BY <2>3, <2>5, <2>6
<1>3. CASE Renew(c)
  <2> DEFINE mine == [loaded EXCEPT !.state = "active", !.warned = FALSE, !.renewals = @ + 1]
             flushed == Flush(rows[k], loaded, mine)
  <2>1. k \in Leases /\ loaded.renewals + 1 \in Nat
    BY <1>0, <1>3 DEF Renew, ServiceInv, Copy
  <2>2. Committable(loaded, mine) /\ mine.state = "active"
    <3>1. mine \in Copy
      BY <1>0, <2>1 DEF Copy, LeaseState
    <3> QED
      BY <1>0, <3>1 DEF Committable, Copy
  <2> HIDE DEF mine
  <2>3. /\ flushed \in Row /\ flushed.state \in {"active", rows[k].state}
        /\ flushed.state = "absent" => rows[k].state = "absent"
    BY <2>1, <2>2, FlushIsRow DEF StoreTypeOK, Column
  <2>4. rows' = [rows EXCEPT ![k] = [flushed EXCEPT !.deadline = "ahead"]]
    BY <1>3, <2>1 DEF Renew, StoreTypeOK, mine
  <2> HIDE DEF flushed
  <2>5. Moves(k)
    BY <2>1, <2>3, <2>4 DEF StoreTypeOK, Row, Moves, USABLE_STATES
  <2>6. \A l \in Leases : l # k => Moves(l)
    BY <2>4, SameRowMoves DEF StoreTypeOK
  <2> QED
    BY <1>3, <2>5, <2>6 DEF Renew
<1>4. CASE Revoke(c)
  <2> DEFINE mine == IF loaded.state \in {"pending", "awaiting_approval"}
                     THEN [loaded EXCEPT !.state = "rejected", !.next = "none"]
                     ELSE [Queued(loaded) EXCEPT !.state = "revoked"]
  <2>1. Committable(loaded, mine) /\ mine.state \in {"rejected", "revoked"}
    BY <1>0, QueuedIsCopy DEF Committable, Copy, LeaseState
  <2>2. Commit(c, "revoke", mine)
    BY <1>4 DEF Revoke
  <2>3. \A l \in Leases : Moves(l)
    BY <2>1, <2>2, CommitMoves DEF AllOps, SafeStates
  <2> QED
    BY <1>4, <2>3 DEF Revoke
<1>5. CASE RetryTeardown(c)
  <2>1. Committable(loaded, Queued(loaded)) /\ Queued(loaded).state = loaded.state
    BY <1>0, QueuedIsCopy DEF Committable
  <2>2. \A l \in Leases : Moves(l)
    BY <1>5, <2>1, CommitMoves DEF RetryTeardown, AllOps
  <2> QED
    BY <1>5, <2>2 DEF RetryTeardown
<1>6. CASE CallAborts(c)
  BY <1>6, SameRowMoves DEF CallAborts, storeVars
<1> QED
  BY <1>1, <1>2, <1>3, <1>4, <1>5, <1>6 DEF CallEnds

\* The calls that are left after one ends, or when none moves.
LEMMA CallsKept ==
    ASSUME ServiceTypeOK, StrandInv, NEW c \in Callers,
           call' \in {call, [call EXCEPT ![c] = NoCall]}
    PROVE  \A d \in Callers : CallSaw(d)'
  BY DEF StrandInv, CallSaw, ServiceTypeOK, NoCall

\* A new request is queued, closed, or waits for an approval that is open.
LEMMA RequestWatched ==
    ASSUME StoreTypeOK, StrandInv, NEW k \in Leases,
           NEW effect \in {"allow", "require_approval", "deny"}, Request(k, effect),
           plan' = plan
    PROVE  StrandInv'
<1>1. /\ rows' = [rows EXCEPT ![k] = Requested(effect)]
      /\ approval' = [approval EXCEPT ![k] =
                        IF effect = "require_approval" THEN "open" ELSE "none"]
      /\ call' = call /\ rows[k].state = "absent"
  BY DEF Request
<1>2. /\ Requested(effect).state \in {"pending", "awaiting_approval", "rejected"}
      /\ Requested(effect).state = "awaiting_approval" => effect = "require_approval"
  BY DEF Requested, NoRow
<1>3. Watched(k)'
  BY <1>1, <1>2 DEF Watched, StoreTypeOK, USABLE_STATES
<1>4. PassSaw(k)'
  BY <1>1 DEF StrandInv, PassSaw
<1>5. ASSUME NEW l \in Leases, l # k PROVE Watched(l)' /\ PassSaw(l)'
  BY <1>1, <1>5 DEF StrandInv, Watched, PassSaw, StoreTypeOK
<1>6. ASSUME NEW d \in Callers PROVE CallSaw(d)'
  BY <1>1 DEF StrandInv, CallSaw
<1> QED
  BY <1>3, <1>4, <1>5, <1>6 DEF StrandInv

LEMMA CallBeginsWatched ==
    ASSUME ServiceTypeOK, StrandInv, NEW c \in Callers, NEW op \in AllOps, NEW k \in Leases,
           CallBegins(c, op, k), plan' = plan
    PROVE  StrandInv'
<1>1. op \in {"approve", "reject"} => rows[k].state = "awaiting_approval"
  BY DEF CallBegins, Accepts, Approvable, Rejectable
<1>2. call' = [call EXCEPT ![c] = [op |-> op, lease |-> k, copy |-> View(rows[k])]]
  BY DEF CallBegins
<1>3. View(rows[k]).state = rows[k].state
  BY DEF View
<1>4. ASSUME NEW d \in Callers PROVE CallSaw(d)'
  BY <1>1, <1>2, <1>3 DEF StrandInv, CallSaw, ServiceTypeOK
<1>5. ASSUME NEW l \in Leases PROVE Watched(l)' /\ PassSaw(l)'
  BY DEF StrandInv, CallBegins, storeVars, Watched, PassSaw
<1> QED
  BY <1>4, <1>5 DEF StrandInv

-----------------------------------------------------------------------------
(* The clock, the ticker and the reconciler.                               *)

LEMMA ClockMoves ==
    ASSUME StoreTypeOK, ClockNext
    PROVE  \A l \in Leases : Moves(l) /\ approval'[l] \in {approval[l], "lapsed"}
<1>1. ASSUME NEW k \in Leases, ApprovalLapses(k)
      PROVE  \A l \in Leases : Moves(l) /\ approval'[l] \in {approval[l], "lapsed"}
  BY <1>1, SameRowMoves DEF ApprovalLapses, StoreTypeOK
<1>2. ASSUME NEW k \in Leases, RetryFallsDue(k) \/ RowMatures(k)
      PROVE  \A l \in Leases : Moves(l) /\ approval' = approval
  BY <1>2 DEF RetryFallsDue, RowMatures, StoreTypeOK, Row, Moves
<1>3. ASSUME NEW k \in Leases, DeadlineNears(k)
      PROVE  \A l \in Leases : Moves(l) /\ approval' = approval
  BY <1>3 DEF DeadlineNears, StoreTypeOK, Row, Moves
<1> QED
  BY <1>1, <1>2, <1>3 DEF ClockNext

\* What a pass makes of the state of the lease it loaded.
LEMMA PassStates ==
    ASSUME StoreTypeOK, NEW l \in Leases, NEW c \in Copy, c.state = rows[l].state
    PROVE  LET mine == Rejected(l, Requeued(l, Expired(l, Warned(l, c)))) IN
           /\ mine.state \in {c.state, "expiring", "expired", "rejected"}
           /\ mine.state # c.state /\ mine.state = "expiring" => Warns(l)
           /\ Lapses(l) => mine.state = "rejected"
<1> DEFINE one == Warned(l, c)
           two == Expired(l, one)
           three == Requeued(l, two)
           four == Rejected(l, three)
<1>1. one \in Copy /\ one.state \in {c.state, "expiring"}
      /\ (one.state # c.state => Warns(l))
  BY DEF Warned, Copy, LeaseState
<1> HIDE DEF one
<1>2. two \in Copy /\ two.state \in {one.state, "expired"}
  BY <1>1, QueuedIsCopy DEF Expired, Copy, LeaseState
<1> HIDE DEF two
<1>3. three \in Copy /\ three.state = two.state
  BY <1>2, QueuedIsCopy DEF Requeued
<1> HIDE DEF three
<1>4. four.state \in {three.state, "rejected"} /\ (Lapses(l) => four.state = "rejected")
  BY <1>3 DEF Rejected, Copy
<1> QED
  BY <1>1, <1>2, <1>3, <1>4 DEF one, two, three, four

LEMMA ReadsSee ==
    ASSUME StoreTypeOK, StrandInv, TickReads, NEW l \in Leases
    PROVE  PassSaw(l)'
<1> DEFINE mine == Rejected(l, Requeued(l, Expired(l, Warned(l, View(rows[l])))))
<1>1. /\ View(rows[l]) \in Copy /\ View(rows[l]).state = rows[l].state
      /\ rows' = rows
  BY ViewIsCopy DEF StoreTypeOK, View, TickReads, storeVars
<1>2. CASE ~Touched(l)
  <2>1. plan'[l] = NoPlan
    BY <1>2 DEF TickReads
  <2> QED
    BY <2>1 DEF PassSaw, NoPlan
<1>3. CASE Touched(l)
  <2>1. /\ mine.state \in {rows[l].state, "expiring", "expired", "rejected"}
        /\ mine.state # rows[l].state /\ mine.state = "expiring" => Warns(l)
        /\ Lapses(l) => mine.state = "rejected"
    BY <1>1, PassStates
  <2> HIDE DEF mine
  <2>2. plan'[l] = [loaded |-> View(rows[l]), mine |-> mine, lapse |-> Lapses(l)]
    BY <1>3 DEF TickReads, mine
  <2>3. Warns(l) => rows[l].state # "absent" /\ rows[l].deadline # "unset"
    BY DEF Warns
  <2>4. Lapses(l) => rows[l].state = "awaiting_approval"
    BY DEF Lapses
  <2> QED
    BY <1>1, <2>1, <2>2, <2>3, <2>4 DEF PassSaw
<1> QED
  BY <1>2, <1>3

LEMMA PassMoves ==
    ASSUME StoreTypeOK, TickerInv, StrandInv, TickCommits, NEW l \in Leases
    PROVE  Moves(l) /\ (rows'[l].state # "awaiting_approval" \/ approval'[l] = approval[l])
<1>1. /\ rows[l] \in Row
      /\ rows'[l] = Flush(rows[l], plan[l].loaded, plan[l].mine)
      /\ approval'[l] = IF plan[l].lapse THEN "refused" ELSE approval[l]
      /\ PassSaw(l) /\ Committable(plan[l].loaded, plan[l].mine)
  BY DEF StoreTypeOK, TickCommits, StrandInv, TickerInv
<1>2. /\ rows'[l].state = Column(plan[l].loaded.state, plan[l].mine.state, rows[l].state)
      /\ rows'[l].deadline = rows[l].deadline
  BY <1>1, FlushColumns
<1> QED
  BY <1>1, <1>2 DEF PassSaw, Column, Moves, SafeStates, USABLE_STATES, Committable

LEMMA TickerWatched ==
    ASSUME TypeInv, StrandInv, TickerNext, OfTicker
    PROVE  StrandInv'
<1>c. \A c \in Callers : CallSaw(c)'
  BY DEF StrandInv, CallSaw, OfTicker
<1>1. CASE TickReads
  <2>1. ASSUME NEW l \in Leases PROVE Watched(l)'
    BY <1>1 DEF TickReads, storeVars, StrandInv, Watched
  <2> QED
    BY <1>1, <1>c, <2>1, ReadsSee DEF StrandInv, TypeInv
<1>2. CASE TickCommits
  <2>1. ASSUME NEW l \in Leases PROVE Watched(l)'
    BY <1>2, PassMoves, MovesKeepWatch DEF StrandInv, TypeInv
  <2>2. ASSUME NEW l \in Leases PROVE PassSaw(l)'
    BY <1>2 DEF TickCommits, PassSaw, NoPlan
  <2> QED
    BY <1>c, <2>1, <2>2 DEF StrandInv
<1>3. CASE TickAborts
  <2>1. ASSUME NEW l \in Leases PROVE Watched(l)' /\ PassSaw(l)'
    BY <1>3 DEF TickAborts, StrandInv, Watched, PassSaw, NoPlan
  <2> QED
    BY <1>c, <2>1 DEF StrandInv
<1> QED
  BY <1>1, <1>2, <1>3 DEF TickerNext

\* The sweep writes RELEASED and FAILED, and never the UNKNOWN it passes through.
LEMMA SweepMoves ==
    ASSUME StoreTypeOK, ReconcilerTypeOK, ReconcilerNext
    PROVE  (\A l \in Leases : Moves(l)) /\ approval' = approval
<1>1. CASE WriteDrift
  <2>1. ASSUME NEW l \in Leases, l \in intended PROVE Moves(l)
    <3> DEFINE mine == [reread[l].copy EXCEPT !.state = Target(l), !.claim = NoWorker,
                                              !.next = "none"]
    <3>1. reread[l].copy \in Copy /\ Target(l) \in {"released", "failed"}
      BY DEF ReconcilerTypeOK, Reread, Target
    <3>2. Committable(reread[l].copy, mine) /\ mine.state = Target(l)
      BY <3>1, CopyCommittable DEF LeaseState, Copy
    <3>3. rows'[l] = Flush(rows[l], reread[l].copy, mine)
      BY <1>1, <2>1 DEF WriteDrift, Concluded
    <3> HIDE DEF mine
    <3> QED
      BY <3>1, <3>2, <3>3, FlushMoves DEF SafeStates
  <2>2. ASSUME NEW l \in Leases, l \notin intended PROVE Moves(l)
    BY <1>1, <2>2, SameRowMoves DEF WriteDrift
  <2> QED
    BY <1>1, <2>1, <2>2 DEF WriteDrift
<1>2. CASE ~WriteDrift
  BY <1>2, SameRowMoves DEF ReconcilerNext, SweepProceeds, TakeSnapshot, ListManaged,
     OrphansDone, RereadAll, DestroyOrphan, Ask, SweepAborts, storeVars
<1> QED
  BY <1>1, <1>2

-----------------------------------------------------------------------------

\* Any step that moves rows so, leaves plans and ends at most one call.
LEMMA MovesWatched ==
    ASSUME TypeInv, StrandInv, plan' = plan,
           \A l \in Leases : /\ Moves(l)
                             /\ \/ rows'[l].state # "awaiting_approval"
                                \/ approval'[l] \in {approval[l], "lapsed"},
           \A c \in Callers : CallSaw(c)'
    PROVE  StrandInv'
  BY MovesKeepWatch, MovesKeepPlans DEF StrandInv

LEMMA StrandStep == TypeInv /\ StrandInv /\ [Next]_vars => StrandInv'
<1> SUFFICES ASSUME TypeInv, StrandInv, [Next]_vars PROVE StrandInv'
  OBVIOUS
<1>c. call' = call => \A c \in Callers : CallSaw(c)'
  BY DEF StrandInv, CallSaw
<1>1. CASE ClockNext /\ OfClock
  BY <1>1, <1>c, ClockMoves, MovesWatched DEF OfClock, TypeInv
<1>2. CASE (ProviderNext /\ OfProvider) \/ UNCHANGED vars
  <2>1. UNCHANGED <<storeVars, call, plan>>
    BY <1>2 DEF OfProvider, vars
  <2> QED
    BY <1>c, <2>1 DEF StrandInv, Watched, PassSaw, storeVars
<1>3. CASE WorkerNext /\ OfWorker
  BY <1>3, <1>c, WorkerMoves, MovesWatched DEF OfWorker, TypeInv
<1>4. CASE ServiceBegins /\ OfService
  BY <1>4, RequestWatched, CallBeginsWatched, ChoicesAssumption
     DEF ServiceBegins, OfService, TypeInv, ServiceInv
<1>5. CASE ServiceEnds /\ OfService
  <2> PICK c \in Callers : CallEnds(c)
    BY <1>5 DEF ServiceEnds
  <2>1. call' \in {call, [call EXCEPT ![c] = NoCall]}
    BY DEF CallEnds, Approve, Reject, Renew, Revoke, RetryTeardown, Commit, CallAborts
  <2>2. \A d \in Callers : CallSaw(d)'
    BY <2>1, CallsKept DEF TypeInv, ServiceInv
  <2>3. CallSaw(c)
    BY DEF StrandInv
  <2> QED
    BY <1>5, <2>2, <2>3, CallEndsMoves, MovesWatched DEF OfService, TypeInv
<1>6. CASE TickerNext /\ OfTicker
  BY <1>6, TickerWatched
<1>7. CASE ReconcilerNext /\ OfReconciler
  BY <1>7, <1>c, SweepMoves, MovesWatched DEF OfReconciler, TypeInv
<1> QED
  BY <1>1, <1>2, <1>3, <1>4, <1>5, <1>6, <1>7 DEF Next

\* Whatever overlaps with whatever, no lease is left where nothing looks for it:
\* not by a late commit of a call, a pass or a sweep over a row that has moved
\* on, nor by the detour of _route and _to_orphaned through UNKNOWN (worker.py,
\* leases.py, service.py, reconciler.py).
THEOREM NothingStrandedHolds == Spec => []NothingStranded
<1>1. TypeInv /\ StrandInv => NothingStranded
  BY DEF TypeInv, StoreTypeOK, Row, LeaseState, StrandInv, Watched, NothingStranded,
         USABLE_STATES, TERMINAL_STATES, PROVISION_STATES, TEARDOWN_STATES
<1>2. Spec => []StrandInv
  BY StrandInit, StrandStep, TypeInvInvariant, PTL DEF Spec
<1> QED
  BY <1>1, <1>2, TypeInvInvariant, PTL

-----------------------------------------------------------------------------
(* Who may write a lease that has ended.                                   *)

\* A handler that tears down, a call and a pass loaded a lease that was running,
\* and a sweep asks about and writes down nothing else.
HandOpen(w) ==
    /\ at[w] \in {"destroying", "destroyed"} => Open(copy[w])
    /\ task[w] = "teardown" => at[w] \in {"claimed", "parking", "destroying", "destroyed"}

SweptOpen(l) ==
    /\ l \in unasked \cup intended => sweep # "idle" /\ Open(snap[l])
    /\ sweep = "write" /\ l \in intended => Open(reread[l].copy)

OpenInv ==
    /\ \A w \in Workers : HandOpen(w)
    /\ \A c \in Callers : call[c] # NoCall => Open(call[c].copy)
    /\ \A l \in Leases : plan[l] # NoPlan => Open(plan[l].loaded)
    /\ \A l \in Leases : SweptOpen(l)

Revived(l) == rows[l].state \in TERMINAL_STATES /\ rows'[l].state # rows[l].state

LEMMA OpenInit == Init => OpenInv
  BY DEF Init, WorkerInit, ServiceInit, TickerInit, ReconcilerInit, OpenInv, HandOpen, SweptOpen

\* A session that leaves the state it loaded alone leaves the state alone.
LEMMA FlushRevives ==
    ASSUME NEW row \in Row, NEW loaded, NEW mine, mine.state = loaded.state
    PROVE  Flush(row, loaded, mine).state = row.state
  BY FlushColumns DEF Column

\* The commit of a handler revives a lease only if it had loaded it open.
LEMMA SettleRevives ==
    ASSUME StoreTypeOK, WorkerInv, NEW w \in Workers, at[w] \notin {"idle", "claimed"},
           NEW mine, Settle(w, mine), ~Open(copy[w]) => mine.state = copy[w].state,
           NEW l \in Leases, Revived(l)
    PROVE  LateCommit(l)
<1>1. /\ held[w] \in Leases /\ held' = [held EXCEPT ![w] = NoLease]
      /\ rows' = [rows EXCEPT ![held[w]] = Flush(rows[held[w]], copy[w], mine)]
  BY DEF Settle, Done, WorkerInv
<1>2. l = held[w]
  BY <1>1 DEF Revived, StoreTypeOK
<1>3. Open(copy[w])
  <2> SUFFICES ASSUME mine.state = copy[w].state PROVE FALSE
    OBVIOUS
  <2>1. Flush(rows[l], copy[w], mine).state = rows[l].state
    BY FlushRevives DEF StoreTypeOK
  <2> QED
    BY <1>1, <1>2, <2>1 DEF Revived, StoreTypeOK
<1>4. held'[w] # l
  BY <1>1, NullsAssumption DEF WorkerInv, WorkerTypeOK
<1> QED
  BY <1>2, <1>3, <1>4 DEF LateCommit

LEMMA EndsRevive ==
    ASSUME StoreTypeOK, WorkerInv, NEW w \in Workers, HandOpen(w),
           at[w] \notin {"idle", "claimed", "parking"}, BackOff(w) \/ Fail(w) \/ Orphan(w),
           NEW l \in Leases, Revived(l)
    PROVE  LateCommit(l)
<1>0. copy[w] \in Copy /\ (~Open(copy[w]) => Mine(w) = copy[w].state)
  <2>1. copy[w] \in Copy
    BY DEF WorkerInv, WorkerTypeOK
  <2>2. ~Open(copy[w]) => Mine(w) = copy[w].state
    BY DEF HandOpen, Mine, Open, TERMINAL_STATES
  <2> QED
    BY <2>1, <2>2
<1>1. CASE BackOff(w)
  <2> DEFINE mine == [copy[w] EXCEPT !.state = Mine(w), !.claim = NoWorker, !.next = "later"]
  <2>1. mine.state = Mine(w) /\ Settle(w, mine)
    BY <1>0, <1>1 DEF BackOff, Copy
  <2> HIDE DEF mine
  <2> QED
    BY <1>0, <2>1, SettleRevives
<1>2. CASE Fail(w)
  <2> DEFINE mine == [copy[w] EXCEPT !.state = "failed", !.claim = NoWorker, !.next = "none"]
  <2>1. mine.state = "failed" /\ Settle(w, mine) /\ CanMove(Mine(w), "failed")
    BY <1>0, <1>2 DEF Fail, Copy
  <2>2. ~Open(copy[w]) => mine.state = copy[w].state
    BY <1>0, <2>1 DEF Open, CanMove, TRANSITIONS, TEARDOWN_INTENT_STATES, TERMINAL_STATES
  <2> HIDE DEF mine
  <2> QED
    BY <2>1, <2>2, SettleRevives
<1>3. CASE Orphan(w)
  <2> DEFINE mine == [copy[w] EXCEPT !.state = "orphaned", !.claim = NoWorker, !.next = "none"]
  <2>1. Settle(w, mine) /\ CanRoute(Mine(w), "orphaned")
    BY <1>3 DEF Orphan
  <2>2. Open(copy[w])
    BY <1>0, <2>1 DEF Open, CanRoute, CanMove, TRANSITIONS, TEARDOWN_INTENT_STATES,
                      TERMINAL_STATES
  <2> HIDE DEF mine
  <2> QED
    BY <2>1, <2>2, SettleRevives
<1> QED
  BY <1>1, <1>2, <1>3

LEMMA ActivateRevives ==
    ASSUME StoreTypeOK, WorkerInv, NEW w \in Workers, HandOpen(w), Activate(w),
           NEW l \in Leases, Revived(l)
    PROVE  LateCommit(l)
<1> DEFINE mine == [copy[w] EXCEPT !.state = "active", !.claim = NoWorker,
                                   !.next = "none", !.attempts = 0, !.warned = FALSE]
           flushed == Flush(rows[held[w]], copy[w], mine)
<1>1. /\ held[w] \in Leases /\ copy[w] \in Copy /\ at[w] = "created"
      /\ held' = [held EXCEPT ![w] = NoLease] /\ CanMove(Mine(w), "active")
  BY DEF Activate, Done, WorkerInv, WorkerTypeOK
<1>2. rows' = [rows EXCEPT ![held[w]] = Started(flushed)]
  BY <1>1 DEF Activate, StoreTypeOK
<1> HIDE DEF flushed
<1>3. l = held[w]
  BY <1>2 DEF Revived, StoreTypeOK
<1>4. task[w] # "teardown"
  BY <1>1 DEF HandOpen
<1>5. Open(copy[w])
  BY <1>1, <1>4 DEF Open, Mine, CanMove, TRANSITIONS, TEARDOWN_INTENT_STATES, TERMINAL_STATES
<1>6. held'[w] # l
  BY <1>1, NullsAssumption DEF WorkerInv, WorkerTypeOK
<1> QED
  BY <1>1, <1>3, <1>5, <1>6 DEF LateCommit

LEMMA HandlerRevives ==
    ASSUME StoreTypeOK, WorkerInv, NEW w \in Workers, HandOpen(w), Handle(w) \/ Abandon(w),
           NEW l \in Leases, Revived(l)
    PROVE  LateCommit(l)
<1>1. CASE Begin(w) \/ RefusedMove(w) \/ Abandon(w)
  BY <1>1 DEF Begin, BeginUnavailable, BeginProvision, BeginTeardown, RefusedMove, Abandon,
              OnlyBudget, storeVars, Revived
<1>2. CASE Park(w)
  <2> DEFINE mine == [copy[w] EXCEPT !.attempts = IF @ = 0 THEN 0 ELSE @ - 1,
                                     !.claim = NoWorker, !.next = "later"]
  <2>1. at[w] = "parking" /\ copy[w] \in Copy /\ Settle(w, mine)
    BY <1>2 DEF Park, WorkerInv, WorkerTypeOK
  <2>2. mine.state = copy[w].state
    BY <2>1 DEF Copy
  <2> HIDE DEF mine
  <2> QED
    BY <2>1, <2>2, SettleRevives
<1>3. CASE Provisioning(w)
  <2>1. CASE PreflightPasses(w) \/ CreateLands(w) \/ RollBackDestroys(w)
    BY <2>1 DEF PreflightPasses, CreateLands, RollBackDestroys, storeVars, Revived
  <2>2. CASE PreflightFails(w) \/ RolledBack(w) \/ RollBackFails(w)
    BY <2>2, EndsRevive DEF PreflightFails, RolledBack, RollBackFails
  <2>3. CASE CreateFails(w) \/ RollBackProbe(w)
    BY <2>3, EndsRevive DEF CreateFails, RollBackProbe, storeVars, Revived
  <2>4. CASE Activate(w)
    BY <2>4, ActivateRevives
  <2> QED
    BY <1>3, <2>1, <2>2, <2>3, <2>4 DEF Provisioning
<1>4. CASE Teardown(w)
  <2>1. CASE DestroyLands(w)
    BY <2>1 DEF DestroyLands, storeVars, Revived
  <2>2. CASE Release(w)
    <3> DEFINE mine == [copy[w] EXCEPT !.state = "released", !.claim = NoWorker, !.next = "none"]
    <3>1. at[w] = "destroyed" /\ Settle(w, mine) /\ Open(copy[w])
      BY <2>2 DEF Release, HandOpen
    <3> HIDE DEF mine
    <3> QED
      BY <3>1, SettleRevives
  <2>3. CASE DestroyFails(w)
    BY <2>3, EndsRevive DEF DestroyFails
  <2> QED
    BY <1>4, <2>1, <2>2, <2>3 DEF Teardown
<1> QED
  BY <1>1, <1>2, <1>3, <1>4 DEF Handle

LEMMA WorkerRevives ==
    ASSUME StoreTypeOK, WorkerInv, OpenInv, WorkerNext, NEW l \in Leases, Revived(l)
    PROVE  LateCommit(l)
<1>1. ASSUME NEW w \in Workers, NEW k \in Leases,
             NEW queue \in {"provision", "teardown"}, Claim(w, k, queue)
      PROVE  FALSE
  BY <1>1 DEF Claim, Revived, StoreTypeOK, Row
<1>2. ASSUME NEW k \in Leases, ClaimAges(k) PROVE FALSE
  BY <1>2 DEF ClaimAges, Revived, StoreTypeOK, Row
<1> QED
  BY <1>1, <1>2, HandlerRevives DEF WorkerNext, OpenInv

\* What a handler goes on to, or starts with.
LEMMA HandsOpen ==
    ASSUME TypeInv, OpenInv, WorkerNext, NEW v \in Workers
    PROVE  HandOpen(v)'
<1>0. HandOpen(v) /\ WorkerTypeOK /\ (task[v] = "teardown" => at[v] # "idle")
  BY DEF TypeInv, WorkerInv, OpenInv, HandOpen
<1>1. ASSUME NEW w \in Workers, NEW l \in Leases,
             NEW queue \in {"provision", "teardown"}, Claim(w, l, queue)
      PROVE  HandOpen(v)'
  BY <1>0, <1>1 DEF Claim, HandOpen, WorkerTypeOK
<1>2. ASSUME NEW l \in Leases, ClaimAges(l) PROVE HandOpen(v)'
  BY <1>0, <1>2 DEF ClaimAges, HandOpen, workerVars
<1>3. ASSUME NEW w \in Workers, Begin(w) PROVE HandOpen(v)'
  <2>1. CASE BeginTeardown(w)
    <3>1. View(rows[held[w]]).state = rows[held[w]].state
      BY DEF View
    <3>2. Open(View(rows[held[w]]))
      BY <2>1, <3>1 DEF BeginTeardown, Open, CanMove, TRANSITIONS, TEARDOWN_INTENT_STATES,
                        TERMINAL_STATES
    <3> QED
      BY <1>0, <2>1, <3>2 DEF BeginTeardown, Load, HandOpen, WorkerTypeOK
  <2>2. CASE BeginUnavailable(w) \/ BeginProvision(w)
    BY <1>0, <2>2 DEF BeginUnavailable, BeginProvision, Load, HandOpen, WorkerTypeOK
  <2> QED
    BY <1>3, <2>1, <2>2 DEF Begin
<1>4. ASSUME NEW w \in Workers,
             PreflightPasses(w) \/ CreateLands(w) \/ RollBackDestroys(w) \/ DestroyLands(w)
             \/ (at[w] \in {"creating", "created", "probing"}
                 /\ \E place \in {"probing", "undoing"} : Goto(w, place))
      PROVE  HandOpen(v)'
  BY <1>0, <1>4 DEF PreflightPasses, CreateLands, RollBackDestroys, DestroyLands, Goto, HandOpen,
                    WorkerTypeOK
<1>5. ASSUME NEW w \in Workers, Done(w) PROVE HandOpen(v)'
  BY <1>0, <1>5 DEF Done, HandOpen, WorkerTypeOK
<1>6. ASSUME NEW w \in Workers, Handle(w) \/ Abandon(w) PROVE HandOpen(v)'
  <2>1. CASE Park(w) \/ PreflightFails(w) \/ Activate(w) \/ RolledBack(w) \/ RollBackFails(w)
             \/ Release(w) \/ DestroyFails(w) \/ RefusedMove(w) \/ Abandon(w)
    BY <1>5, <2>1 DEF Park, PreflightFails, Activate, RolledBack, RollBackFails, Release,
                      DestroyFails, RefusedMove, Abandon, BackOff, Fail, Orphan, Settle
  <2>2. CASE CreateFails(w) \/ RollBackProbe(w)
    BY <1>4, <1>5, <2>2 DEF CreateFails, RollBackProbe, BackOff, Fail, Settle
  <2> QED
    BY <1>3, <1>4, <1>6, <2>1, <2>2 DEF Handle, Provisioning, Teardown
<1> QED
  BY <1>1, <1>2, <1>6 DEF WorkerNext

LEMMA CallRevives ==
    ASSUME StoreTypeOK, ServiceInv, NEW c \in Callers, CallEnds(c),
           call[c] # NoCall => Open(call[c].copy), NEW l \in Leases, Revived(l)
    PROVE  LateCommit(l)
<1>1. CASE CallAborts(c)
  BY <1>1 DEF CallAborts, storeVars, Revived
<1>2. CASE ~CallAborts(c)
  <2>1. PICK row : /\ rows' = [rows EXCEPT ![call[c].lease] = row]
                   /\ call' = [call EXCEPT ![c] = NoCall] /\ call[c].op \in AllOps
    BY <1>2 DEF CallEnds, Approve, Reject, Renew, Revoke, RetryTeardown, Commit, AllOps
  <2>2. l = call[c].lease
    BY <2>1 DEF Revived, StoreTypeOK
  <2>3. call[c] # NoCall /\ call'[c] = NoCall
    BY <2>1 DEF AllOps, NoCall, ServiceInv, ServiceTypeOK
  <2> QED
    BY <2>2, <2>3 DEF LateCommit
<1> QED
  BY <1>1, <1>2

\* A call is only begun on a lease that is running.
LEMMA AcceptsOpen ==
    ASSUME NEW op \in AllOps, NEW l \in Leases, Accepts(op, l)
    PROVE  Open(View(rows[l]))
<1>1. View(rows[l]).state = rows[l].state
  BY DEF View
<1> QED
  BY <1>1 DEF AllOps, Accepts, Approvable, Rejectable, Renewable, Revocable, Retriable, Open,
              USABLE_STATES, TERMINAL_STATES

LEMMA CallsOpen ==
    ASSUME ServiceTypeOK, ServiceBegins \/ ServiceEnds, NEW c \in Callers,
           call[c] # NoCall => Open(call[c].copy), call'[c] # NoCall
    PROVE  Open(call'[c].copy)
<1>1. CASE call'[c] = call[c]
  BY <1>1
<1>2. CASE call'[c] # call[c]
  <2>1. ASSUME ServiceEnds PROVE FALSE
    <3>1. PICK d \in Callers : CallEnds(d)
      BY <2>1 DEF ServiceEnds
    <3>2. call' = [call EXCEPT ![d] = NoCall]
      BY <3>1 DEF CallEnds, Approve, Reject, Renew, Revoke, RetryTeardown, Commit, CallAborts
    <3> QED
      BY <1>2, <3>2 DEF ServiceTypeOK
  <2>2. PICK d \in Callers, op \in Ops, l \in Leases : CallBegins(d, op, l)
    BY <1>2, <2>1 DEF ServiceBegins, Request
  <2>3. Open(View(rows[l]))
    BY <2>2, AcceptsOpen, ChoicesAssumption DEF CallBegins
  <2>4. call'[c].copy = View(rows[l])
    BY <1>2, <2>2 DEF CallBegins, ServiceTypeOK
  <2> QED
    BY <2>3, <2>4
<1> QED
  BY <1>1, <1>2

\* A pass touches no lease that has ended.
LEMMA PassesOpen ==
    ASSUME TickReads, NEW l \in Leases, plan'[l] # NoPlan
    PROVE  Open(plan'[l].loaded)
<1>1. Touched(l) /\ plan'[l].loaded = View(rows[l])
  BY DEF TickReads
<1>2. View(rows[l]).state = rows[l].state
  BY DEF View
<1> QED
  BY <1>1, <1>2 DEF Touched, Warns, Expires, Unscheduled, Lapses, Open, USABLE_STATES,
                    TEARDOWN_INTENT_STATES, TERMINAL_STATES

LEMMA PassRevives ==
    ASSUME StoreTypeOK, TickCommits, NEW l \in Leases, Revived(l),
           plan[l] # NoPlan => Open(plan[l].loaded)
    PROVE  LateCommit(l)
<1>1. /\ rows'[l] = Flush(rows[l], plan[l].loaded, plan[l].mine)
      /\ plan'[l] = NoPlan /\ rows[l] \in Row
  BY DEF TickCommits, StoreTypeOK
<1>2. plan[l] # NoPlan
  BY <1>1, FlushRevives DEF Revived, NoPlan
<1> QED
  BY <1>1, <1>2 DEF LateCommit

\* A sweep asks about the living, and writes over what it re-read unchanged.
LEMMA SweepsOpen ==
    ASSUME ReconcilerNext, NEW l \in Leases, SweptOpen(l)
    PROVE  SweptOpen(l)'
<1>1. CASE TakeSnapshot \/ OrphansDone \/ \E k \in Leases : DestroyOrphan(k) \/ Ask(k)
  <2>1. CASE TakeSnapshot
    BY <2>1 DEF TakeSnapshot, SweptOpen, Open
  <2>2. CASE OrphansDone \/ \E k \in Leases : DestroyOrphan(k) \/ Ask(k)
    BY <2>2 DEF OrphansDone, DestroyOrphan, Ask, SweptOpen, Open
  <2> QED
    BY <1>1, <2>1, <2>2
<1>2. CASE ListManaged
  BY <1>2 DEF ListManaged, ToAsk, SweptOpen, Open, LIVE_STATES, TERMINAL_STATES
<1>3. CASE RereadAll
  <2>1. /\ unasked' = unasked /\ snap' = snap /\ sweep' # "idle"
        /\ l \in intended' => l \in intended
    BY <1>3 DEF RereadAll
  <2>2. l \in intended' => reread'[l].copy.state = snap[l].state
    BY <1>3 DEF RereadAll, View
  <2> QED
    BY <2>1, <2>2 DEF SweptOpen, Open
<1>4. CASE WriteDrift \/ SweepAborts
  BY <1>4 DEF WriteDrift, SweepAborts, Forgotten, SweptOpen
<1> QED
  BY <1>1, <1>2, <1>3, <1>4 DEF ReconcilerNext, SweepProceeds

LEMMA WriteRevives ==
    ASSUME StoreTypeOK, ReconcilerNext, NEW l \in Leases, Revived(l), SweptOpen(l)
    PROVE  LateCommit(l)
<1>1. WriteDrift
  BY DEF ReconcilerNext, SweepProceeds, TakeSnapshot, ListManaged, OrphansDone, RereadAll,
         DestroyOrphan, Ask, SweepAborts, storeVars, Revived
<1>2. l \in intended
  BY <1>1 DEF WriteDrift, Revived
<1> QED
  BY <1>1, <1>2 DEF WriteDrift, SweptOpen, LateCommit

LEMMA RequestRevives ==
    ASSUME StoreTypeOK, ServiceBegins, NEW l \in Leases
    PROVE  ~Revived(l)
<1>1. ASSUME NEW k \in Leases, NEW effect \in {"allow", "require_approval", "deny"},
             Request(k, effect)
      PROVE  ~Revived(l)
  BY <1>1 DEF Request, Revived, StoreTypeOK, TERMINAL_STATES
<1> QED
  BY <1>1 DEF ServiceBegins, CallBegins, storeVars, Revived

LEMMA ClockRevives ==
    ASSUME StoreTypeOK, ClockNext, NEW l \in Leases
    PROVE  ~Revived(l)
<1>1. ASSUME NEW k \in Leases,
             RetryFallsDue(k) \/ DeadlineNears(k) \/ RowMatures(k) \/ ApprovalLapses(k)
      PROVE  rows'[l].state = rows[l].state
  BY <1>1 DEF RetryFallsDue, DeadlineNears, RowMatures, ApprovalLapses, StoreTypeOK, Row
<1> QED
  BY <1>1 DEF ClockNext, Revived

LEMMA ReviveStep ==
    ASSUME TypeInv, OpenInv, [Next]_vars
    PROVE  OpenInv' /\ \A l \in Leases : Revived(l) => LateCommit(l)
<1>c. ASSUME UNCHANGED call PROVE \A c \in Callers : call'[c] # NoCall => Open(call'[c].copy)
  BY <1>c DEF OpenInv, Open
<1>p. ASSUME UNCHANGED plan PROVE \A l \in Leases : plan'[l] # NoPlan => Open(plan'[l].loaded)
  BY <1>p DEF OpenInv, Open
<1>s. ASSUME UNCHANGED reconcilerVars PROVE \A l \in Leases : SweptOpen(l)'
  BY <1>s DEF OpenInv, SweptOpen, Open, reconcilerVars
<1>w. ASSUME UNCHANGED workerVars PROVE \A w \in Workers : HandOpen(w)'
  BY <1>w DEF OpenInv, HandOpen, Open, workerVars
<1>1. CASE (ClockNext /\ OfClock) \/ (ProviderNext /\ OfProvider) \/ UNCHANGED vars
  <2>1. UNCHANGED <<workerVars, call, plan, reconcilerVars>>
    BY <1>1 DEF OfClock, OfProvider, vars
  <2>2. OpenInv'
    BY <1>c, <1>p, <1>s, <1>w, <2>1 DEF OpenInv, Open
  <2>3. \A l \in Leases : ~Revived(l)
    BY <1>1, ClockRevives DEF TypeInv, OfProvider, vars, storeVars, Revived
  <2> QED
    BY <2>2, <2>3
<1>2. CASE WorkerNext /\ OfWorker
  <2>1. OpenInv'
    BY <1>2, <1>c, <1>p, <1>s, HandsOpen DEF OfWorker, OpenInv, Open
  <2> QED
    BY <1>2, <2>1, WorkerRevives DEF TypeInv
<1>3. CASE (ServiceBegins \/ ServiceEnds) /\ OfService
  <2>1. \A c \in Callers : call'[c] # NoCall => Open(call'[c].copy)
    BY <1>3, CallsOpen DEF TypeInv, ServiceInv, OpenInv
  <2>2. OpenInv'
    BY <1>3, <1>p, <1>s, <1>w, <2>1 DEF OfService, OpenInv, Open
  <2>3. \A l \in Leases : Revived(l) => LateCommit(l)
    BY <1>3, RequestRevives, CallRevives DEF ServiceEnds, TypeInv, OpenInv
  <2> QED
    BY <2>2, <2>3
<1>4. CASE TickerNext /\ OfTicker
  <2>1. ASSUME NEW l \in Leases, plan'[l] # NoPlan PROVE Open(plan'[l].loaded)
    BY <1>4, <2>1, PassesOpen DEF TickerNext, TickCommits, TickAborts
  <2>2. OpenInv'
    BY <1>4, <1>c, <1>s, <1>w, <2>1 DEF OfTicker, OpenInv, Open
  <2>3. \A l \in Leases : Revived(l) => LateCommit(l)
    BY <1>4, PassRevives DEF TickerNext, TickReads, TickAborts, storeVars, Revived, TypeInv,
                             OpenInv
  <2> QED
    BY <2>2, <2>3
<1>5. CASE ReconcilerNext /\ OfReconciler
  <2>1. OpenInv'
    BY <1>5, <1>c, <1>p, <1>w, SweepsOpen DEF OfReconciler, OpenInv, Open
  <2> QED
    BY <1>5, <2>1, WriteRevives DEF TypeInv, OpenInv
<1> QED
  BY <1>1, <1>2, <1>3, <1>4, <1>5 DEF Next

\* Whatever overlaps with whatever, a lease that has ended is only written again
\* by the late commit of a session that had loaded it before it ended: every check
\* of approve, reject, renew, revoke and retry_teardown (service.py), every SELECT
\* of the ticker (leases.py) and of a sweep (reconciler.py) and every transition of
\* a handler (worker.py) keeps off what is closed.
THEOREM OnlyTheLateReviveHolds == Spec => OnlyTheLateRevive
<1>1. TypeInv /\ OpenInv /\ [Next]_vars => OpenInv'
  BY ReviveStep
<1>2. TypeInv /\ OpenInv /\ [Next]_vars =>
        [\A l \in Leases : rows[l].state \in TERMINAL_STATES /\ rows'[l].state # rows[l].state
                           => LateCommit(l)]_vars
  BY ReviveStep DEF Revived
<1>3. Spec => []OpenInv
  BY <1>1, OpenInit, TypeInvInvariant, PTL DEF Spec
<1> QED
  BY <1>2, <1>3, TypeInvInvariant, PTL DEF Spec, OnlyTheLateRevive

=============================================================================
