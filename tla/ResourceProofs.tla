--------------------------- MODULE ResourceProofs ---------------------------
(***************************************************************************)
(* First, what the rows say of the provider while no sweep runs: a lease   *)
(* in use has its resource.  A row and the resource of its lease change in *)
(* two different steps; between them it is the place of the handler that   *)
(* tells which of the two is ahead.  Then, what still holds beside sweeps: *)
(* the claim is exclusive, the budget is kept, no lease is freed that has  *)
(* a resource, and none is destroyed whose lease is running.               *)
(***************************************************************************)
EXTENDS EngineProofs, FiniteSetTheorems

-----------------------------------------------------------------------------
(* What a step may do at the provider.                                     *)

Holds(w, l, places) == held[w] = l /\ at[w] \in places

\* A resource comes by the hand that creates it, or off the wire.
Comes(l) ==
    l \notin resources /\ l \in resources' =>
        l \in wire \/ \E w \in Workers : Holds(w, l, {"creating"})

\* A create is left under way by the hand that gave it up.
Lingers(l) ==
    l \notin wire /\ l \in wire' =>
        "late_create" \in Events /\ \E w \in Workers : Holds(w, l, {"creating"})

\* A resource goes by the hand that destroys it, by a sweep, or behind the
\* broker's back.
Goes(l) ==
    l \in resources /\ l \notin resources' =>
        \/ "external_deletion" \in Events \/ sweep = "destroy"
        \/ \E w \in Workers : Holds(w, l, {"undoing", "destroying"})

\* A handler stands behind a call of the provider only if the call did what it says.
Arrives(w) ==
    /\ at'[w] = "created" =>
          \/ at[w] = "created" /\ held'[w] = held[w]
          \/ held'[w] \in resources'
    /\ at'[w] \in {"undone", "destroyed"} =>
          \/ at[w] = at'[w] /\ held'[w] = held[w]
          \/ held'[w] \notin resources'

Traffic ==
    /\ \A l \in Leases : Comes(l) /\ Lingers(l) /\ Goes(l)
    /\ \A w \in Workers : Arrives(w)

LEMMA NoTraffic ==
    ASSUME UNCHANGED providerVars, UNCHANGED workerVars
    PROVE  Traffic
  BY DEF providerVars, workerVars, Traffic, Comes, Lingers, Goes, Arrives

\* A step of a worker that leaves the resources alone and stands behind no call.
LEMMA QuietTraffic ==
    ASSUME WorkerInv, NEW w \in Workers, resources' = resources,
           \/ Done(w)
           \/ \E place \in Place \ {"created", "undone", "destroyed"} :
                at' = [at EXCEPT ![w] = place] /\ \A v \in Workers : v # w => held'[v] = held[v],
           \A l \in Leases : Lingers(l)
    PROVE  Traffic
<1>1. /\ \A v \in Workers : v # w => at'[v] = at[v] /\ held'[v] = held[v]
      /\ at'[w] \notin {"created", "undone", "destroyed"}
  BY DEF Done, WorkerInv, WorkerTypeOK, Place
<1> QED
  BY <1>1 DEF Traffic, Comes, Goes, Arrives

\* A create under way that the step leaves alone.
LEMMA NothingLingers == wire' = wire => \A l \in Leases : Lingers(l)
  BY DEF Lingers

\* The three calls that change what is there.
LEMMA CallTraffic ==
    ASSUME TypeInv, NEW w \in Workers,
           CreateLands(w) \/ RollBackDestroys(w) \/ DestroyLands(w)
    PROVE  Traffic
<1>1. CASE CreateLands(w)
  <2>1. /\ at[w] = "creating" /\ resources' = resources \cup {held[w]} /\ wire' = wire
        /\ at' = [at EXCEPT ![w] = "created"] /\ held' = held
    BY <1>1 DEF CreateLands, Create, Goto
  <2> QED
    BY <2>1 DEF Traffic, Comes, Lingers, Goes, Arrives, Holds, TypeInv, WorkerInv, WorkerTypeOK
<1>2. CASE RollBackDestroys(w) \/ DestroyLands(w)
  <2>1. /\ at[w] \in {"undoing", "destroying"} /\ resources' = resources \ {held[w]}
        /\ wire' = wire /\ held' = held
        /\ \E place \in {"undone", "destroyed"} : at' = [at EXCEPT ![w] = place]
    BY <1>2 DEF RollBackDestroys, DestroyLands, Destroy, Goto
  <2> QED
    BY <2>1 DEF Traffic, Comes, Lingers, Goes, Arrives, Holds, TypeInv, WorkerInv, WorkerTypeOK
<1> QED
  BY <1>1, <1>2

LEMMA HandlerTraffic ==
    ASSUME TypeInv, NEW w \in Workers, Handle(w) \/ Abandon(w)
    PROVE  Traffic
<1>0. WorkerInv
  BY DEF TypeInv
<1>1. CASE CreateLands(w) \/ RollBackDestroys(w) \/ DestroyLands(w)
  BY <1>1, CallTraffic
<1>2. CASE Begin(w)
  <2>1. /\ resources' = resources /\ wire' = wire /\ held' = held
        /\ \E place \in {"parking", "preflight", "creating", "destroying"} :
              at' = [at EXCEPT ![w] = place]
    BY <1>2 DEF Begin, BeginUnavailable, BeginProvision, BeginTeardown, providerVars
  <2> QED
    BY <1>0, <2>1, QuietTraffic, NothingLingers DEF Place
<1>3. CASE \/ Park(w) \/ PreflightFails(w) \/ Activate(w) \/ RolledBack(w) \/ RollBackFails(w)
           \/ Release(w) \/ DestroyFails(w) \/ RefusedMove(w)
  <2>1. Done(w) /\ UNCHANGED providerVars
    BY <1>3 DEF Park, PreflightFails, Activate, RolledBack, RollBackFails, Release, DestroyFails,
                RefusedMove, BackOff, Fail, Orphan, Settle
  <2> QED
    BY <1>0, <2>1, QuietTraffic, NothingLingers DEF providerVars
<1>4. CASE PreflightPasses(w)
  <2>1. /\ resources' = resources /\ wire' = wire /\ held' = held
        /\ at' = [at EXCEPT ![w] = "creating"]
    BY <1>4 DEF PreflightPasses, Goto, providerVars
  <2> QED
    BY <1>0, <2>1, QuietTraffic, NothingLingers DEF Place
<1>5. CASE CreateFails(w)
  <2>1. resources' = resources /\ \A l \in Leases : Lingers(l)
    BY <1>5 DEF CreateFails, GiveUpOnCreate, providerVars, Lingers, Holds
  <2>2. Done(w) \/ (at' = [at EXCEPT ![w] = "probing"] /\ held' = held)
    BY <1>5 DEF CreateFails, BackOff, Settle, Goto
  <2> QED
    BY <1>0, <2>1, <2>2, QuietTraffic DEF Place
<1>6. CASE RollBackProbe(w)
  <2>1. resources' = resources /\ wire' = wire
    BY <1>6 DEF RollBackProbe, providerVars
  <2>2. Done(w) \/ (at' = [at EXCEPT ![w] = "undoing"] /\ held' = held)
    BY <1>6 DEF RollBackProbe, Fail, Settle, Goto
  <2> QED
    BY <1>0, <2>1, <2>2, QuietTraffic, NothingLingers DEF Place
<1>7. CASE Abandon(w)
  <2>1. Done(w) /\ resources' = resources /\ \A l \in Leases : Lingers(l)
    BY <1>7 DEF Abandon, GiveUpOnCreate, providerVars, Lingers, Holds
  <2> QED
    BY <1>0, <2>1, QuietTraffic
<1> QED
  BY <1>1, <1>2, <1>3, <1>4, <1>5, <1>6, <1>7 DEF Handle, Provisioning, Teardown

LEMMA TrafficStep == TypeInv /\ [Next]_vars => Traffic
<1> SUFFICES ASSUME TypeInv, [Next]_vars PROVE Traffic
  OBVIOUS
<1>1. CASE UNCHANGED vars \/ (ClockNext /\ OfClock) \/ (ServiceBegins /\ OfService)
           \/ (ServiceEnds /\ OfService) \/ (TickerNext /\ OfTicker)
  BY <1>1, NoTraffic DEF vars, OfClock, OfService, OfTicker
<1>2. CASE ProviderNext /\ OfProvider
  <2>1. /\ UNCHANGED workerVars
        /\ \E l \in Leases : LateCreateLands(l) \/ ResourceVanishes(l) \/ ResourceAges(l)
    BY <1>2 DEF OfProvider, ProviderNext
  <2> QED
    BY <2>1 DEF LateCreateLands, ResourceVanishes, ResourceAges, Destroy, workerVars,
                Traffic, Comes, Lingers, Goes, Arrives
<1>3. CASE WorkerNext
  <2>1. ASSUME NEW w \in Workers, Handle(w) \/ Abandon(w) PROVE Traffic
    BY <2>1, HandlerTraffic
  <2>2. ASSUME NEW w \in Workers, NEW l \in Leases, NEW queue \in {"provision", "teardown"},
               Claim(w, l, queue)
        PROVE  Traffic
    <3>1. /\ resources' = resources /\ wire' = wire /\ held' = [held EXCEPT ![w] = l]
          /\ at' = [at EXCEPT ![w] = "claimed"] /\ held \in [Workers -> Leases \cup {NoLease}]
      BY <2>2 DEF Claim, providerVars, TypeInv, WorkerInv, WorkerTypeOK
    <3> QED
      BY <3>1, QuietTraffic, NothingLingers DEF Place, TypeInv
  <2>3. ASSUME NEW l \in Leases, ClaimAges(l) PROVE Traffic
    BY <2>3, NoTraffic DEF ClaimAges
  <2> QED
    BY <1>3, <2>1, <2>2, <2>3 DEF WorkerNext
<1>4. CASE ReconcilerNext /\ OfReconciler
  <2>1. /\ UNCHANGED workerVars /\ wire' = wire
        /\ resources' = resources \/ (sweep = "destroy" /\ resources' \subseteq resources)
    BY <1>4 DEF OfReconciler, ReconcilerNext, SweepProceeds, TakeSnapshot, ListManaged,
                DestroyOrphan, Destroy, OrphansDone, Ask, RereadAll, WriteDrift, SweepAborts,
                providerVars
  <2> QED
    BY <2>1 DEF workerVars, Traffic, Comes, Lingers, Goes, Arrives
<1> QED
  BY <1>1, <1>2, <1>3, <1>4 DEF Next

-----------------------------------------------------------------------------
(* A lease in use has its resource.                                        *)

\* Between the create and the commit that puts the lease in use only the
\* handler knows of the resource.
BackedInv ==
    /\ \A l \in Leases : rows[l].state \in USABLE_STATES => l \in resources
    /\ \A w \in Workers : at[w] = "created" => held[w] \in resources

LEMMA BackedStep ==
    ASSUME TypeInv, EngineInv, BackedInv, Traffic, \A l \in Leases : Life(l),
           "external_deletion" \notin Events
    PROVE  BackedInv'
<1>1. ASSUME NEW l \in Leases, NEW w \in Workers, Holds(w, l, {"undoing", "destroying"})
      PROVE  /\ rows[l].state \notin USABLE_STATES
             /\ \A v \in Workers : held[v] = l => at[v] # "created"
  <2>1. /\ held[w] = l /\ at[w] # "created"
        /\ rows[l].state \in PROVISION_STATES \cup TEARDOWN_STATES /\ rows[l].claim = w
    BY <1>1 DEF Holds, EngineInv, InHand
  <2>2. \A v \in Workers : held[v] = l => v = w
    BY <2>1 DEF EngineInv, InHand
  <2> QED
    BY <2>1, <2>2 DEF PROVISION_STATES, TEARDOWN_STATES, USABLE_STATES
<1>2. ASSUME NEW l \in Leases, rows'[l].state \in USABLE_STATES PROVE l \in resources'
  <2>1. CASE rows[l].state \in USABLE_STATES
    BY <1>1, <2>1 DEF BackedInv, Traffic, Goes, EngineInv
  <2>2. CASE rows[l].state \notin USABLE_STATES
    <3>1. \E w \in Workers : held[w] = l /\ resources' = resources /\ at[w] = "created"
      BY <1>2, <2>2 DEF Life, Rests, Inserted, Moved, Closes, InUse, Failed, Released,
                        USABLE_STATES, PROVISION_STATES, TEARDOWN_STATES
    <3> QED
      BY <3>1 DEF BackedInv
  <2> QED
    BY <2>1, <2>2
<1>3. ASSUME NEW w \in Workers, at'[w] = "created" PROVE held'[w] \in resources'
  <2>1. CASE at[w] = "created" /\ held'[w] = held[w]
    <3>1. held[w] \in resources /\ held[w] \in Leases
      BY <2>1 DEF BackedInv, TypeInv, ProviderTypeOK
    <3> QED
      BY <1>1, <2>1, <3>1 DEF Traffic, Goes, EngineInv
  <2> QED
    BY <1>3, <2>1 DEF Traffic, Arrives
<1> QED
  BY <1>2, <1>3 DEF BackedInv

\* A lease in use has its resource and one binding that opens it (worker.py
\* _activate seals it only after the create has returned; _release revokes what
\* it loaded): whatever crashes, retries, renewals and revocations come between.
THEOREM UsableIsBackedHolds ==
    ASSUME Undisturbed, "external_deletion" \notin Events
    PROVE  Spec => []UsableIsBacked
<1>1. Init => BackedInv
  <2>1. ASSUME Init, NEW l \in Leases PROVE rows[l].state = "absent"
    BY <2>1 DEF Init, StoreInit, NoRow
  <2>2. Init => \A w \in Workers : at[w] = "idle"
    BY DEF Init, WorkerInit
  <2> QED
    BY <2>1, <2>2 DEF BackedInv, USABLE_STATES
<1>2. TypeInv /\ EngineInv /\ BackedInv /\ [Next]_vars => BackedInv'
  BY EngineStep, TrafficStep, BackedStep DEF Good
<1>3. BackedInv /\ LifeInv => UsableIsBacked
  <2>1. ASSUME NEW l \in Leases, LifeInv, rows[l].state \in USABLE_STATES
        PROVE  Cardinality(bindings[l].open) = 1
    <3>1. PICK n : bindings[l].open = {n}
      BY <2>1 DEF LifeInv
    <3>2. Cardinality({n}) = 1
      BY FS_Singleton, Zenon
    <3> QED
      BY <3>1, <3>2
  <2> QED
    BY <2>1 DEF BackedInv, LifeInv, UsableIsBacked, TERMINAL_STATES
<1> QED
  BY <1>1, <1>2, <1>3, EngineInvariant, LifeInvariant, TypeInvInvariant, PTL DEF Spec

-----------------------------------------------------------------------------
(* With the reconciler.  A sweep re-reads a lease and concludes it, even if *)
(* a worker has claimed it since: from then on the hand works on a lease   *)
(* that is closed, and may write it back to life.  What still holds is     *)
(* that the hand is alone with the lease.                                  *)

Unheld(l) == \A w \in Workers : held[w] # l

\* A lease in hand is claimed by the hand that has it, unless a sweep has closed
\* it meanwhile; nobody else has it, and one that is to be provisioned was never
\* in use.
AtWork(w) ==
    held[w] \in Leases =>
        LET row == rows[held[w]] IN
        /\ \/ row.state \in {"failed", "released"}
           \/ /\ row.claim = w /\ ~row.stale
              /\ row.state \in (IF task[w] = "provision" THEN PROVISION_STATES
                                                         ELSE TEARDOWN_STATES)
        /\ \/ /\ task[w] = "provision" /\ row.state # "released" /\ ~row.activated
              /\ at[w] \notin {"idle", "destroying", "destroyed"}
              /\ at[w] # "claimed" => copy[w].state \in PROVISION_STATES \cup {"failed"}
           \/ /\ task[w] = "teardown"
              /\ at[w] \in {"claimed", "parking", "destroying", "destroyed"}
        /\ \A v \in Workers : held[v] = held[w] => v = w

\* A lease that was in use is never provisioned again.
UsedOnce(l) ==
    rows[l].activated => rows[l].state \notin PROVISION_STATES \cup {"absent", "awaiting_approval"}

\* What a sweep remembers of a lease: one it saw in use was in use, and it goes
\* after live leases only.
Remembers(l) ==
    /\ snap[l].activated => rows[l].activated
    /\ l \in unasked \cup intended => snap[l].state \in LIVE_STATES
    /\ sweep = "write" /\ l \in intended => reread[l].copy.state = snap[l].state

Stages ==
    /\ sweep \in {"idle", "list"} => condemned = {} /\ unasked = {}
    /\ sweep \in {"idle", "list", "destroy"} => intended = {}

SweptInv ==
    /\ SessionsCurrent /\ Stages
    /\ \A w \in Workers : AtWork(w)
    /\ \A l \in Leases : UsedOnce(l) /\ Remembers(l)

-----------------------------------------------------------------------------
(* What a step may do to the state of a lease.                             *)

Stays(l) == rows'[l].state = rows[l].state /\ rows'[l].activated = rows[l].activated

FromOutside(l) == Unheld(l) /\ held' = held /\ (Inserted(l) \/ Moved(l))

ByHand(w, l) ==
    /\ held[w] = l /\ held'[w] = NoLease /\ resources' = resources
    /\ \A v \in Workers : v # w => held'[v] = held[v]
    /\ \/ rows'[l].state \in {"provisioning", "active", "deprovisioning", "orphaned", "failed"}
       \/ rows'[l].state = "released" /\ at[w] = "destroyed"

BySweep(l) ==
    /\ sweep = "write" /\ l \in intended /\ rows'[l].state = Target(l)
    /\ held' = held /\ resources' = resources

Fate(l) == Stays(l) \/ FromOutside(l) \/ (\E w \in Workers : ByHand(w, l)) \/ BySweep(l)

\* A worker keeps what it has, lets it go, or takes what waits in a queue.
Grasps(w) ==
    \/ held'[w] \in {NoLease, held[w]}
    \/ /\ held'[w] \in Leases
       /\ rows[held'[w]].state \in PROVISION_STATES \cup TEARDOWN_STATES

Turns ==
    /\ SweptInv'
    /\ \A w \in Workers : Grasps(w)
    /\ \A l \in Leases : Fate(l)

LEMMA SweptInit == Init => SweptInv
<1> SUFFICES ASSUME Init PROVE SweptInv
  OBVIOUS
<1>1. SessionsCurrent
  BY EngineInit DEF EngineInv
<1>2. \A l \in Leases : rows[l].activated = FALSE /\ snap[l].activated = FALSE
  BY DEF Init, StoreInit, NoRow, ReconcilerInit, NoSnapshot
<1>3. \A w \in Workers : AtWork(w)
  BY NullsAssumption DEF Init, WorkerInit, AtWork
<1> QED
  BY <1>1, <1>2, <1>3 DEF SweptInv, Init, ReconcilerInit, UsedOnce, Remembers, Stages

LEMMA LooseUnheld ==
    ASSUME SweptInv, NEW l \in Leases, Loose(l)
    PROVE  Unheld(l)
  BY NullsAssumption DEF SweptInv, AtWork, Loose, Unheld

\* While the sweep is left alone and leases that were in use stay so.
LEMMA SweepLeft ==
    ASSUME SweptInv, UNCHANGED reconcilerVars,
           \A l \in Leases : rows[l].activated => rows'[l].activated
    PROVE  Stages' /\ \A l \in Leases : Remembers(l)'
  BY DEF SweptInv, reconcilerVars, Stages, Remembers

\* A step that moves no lease.
LEMMA StaysSwept ==
    ASSUME SweptInv, SessionsCurrent', Stages', \A l \in Leases : Remembers(l)',
           UNCHANGED workerVars,
           \A l \in Leases : Stays(l) /\ rows'[l].claim = rows[l].claim
                                      /\ rows'[l].stale = rows[l].stale
    PROVE  Turns
<1>1. \A w \in Workers : AtWork(w)'
  BY DEF SweptInv, AtWork, Stays, workerVars
<1>2. \A l \in Leases : UsedOnce(l)'
  BY DEF SweptInv, UsedOnce, Stays
<1> QED
  BY <1>1, <1>2 DEF Turns, SweptInv, Fate, Grasps, workerVars

LEMMA ApartSwept ==
    ASSUME SweptInv, Apart, SessionsCurrent', UNCHANGED reconcilerVars
    PROVE  Turns
<1>1. ASSUME NEW l \in Leases
      PROVE  /\ rows'[l] = rows[l] \/ (Unheld(l) /\ (Rests(l) \/ Inserted(l) \/ Moved(l)))
  BY LooseUnheld DEF Apart, Life, Closes, Unheld
<1>2. UNCHANGED workerVars
  BY DEF Apart
<1>3. ASSUME NEW w \in Workers PROVE AtWork(w)'
  <2>1. held[w] \in Leases => rows'[held[w]] = rows[held[w]]
    BY <1>1 DEF Unheld
  <2> QED
    BY <1>2, <2>1 DEF SweptInv, AtWork, workerVars
<1>4. ASSUME NEW l \in Leases PROVE UsedOnce(l)' /\ (rows[l].activated => rows'[l].activated)
  BY <1>1 DEF SweptInv, UsedOnce, Rests, Inserted, Moved, PROVISION_STATES, TEARDOWN_STATES,
              USABLE_STATES, TEARDOWN_INTENT_STATES
<1>5. Stages' /\ \A l \in Leases : Remembers(l)'
  BY <1>4, SweepLeft
<1>6. \A l \in Leases : Fate(l)
  BY <1>1, <1>2 DEF Fate, Stays, FromOutside, Rests, workerVars
<1> QED
  BY <1>2, <1>3, <1>4, <1>5, <1>6 DEF Turns, SweptInv, Grasps, workerVars

LEMMA ClockSwept ==
    ASSUME TypeInv, SweptInv, Orderly, ClockNext, OfClock
    PROVE  Turns
<1>1. UNCHANGED workerVars /\ UNCHANGED reconcilerVars /\ SessionsCurrent'
  BY QuietKept DEF OfClock
<1>2. \A l \in Leases : Stays(l) /\ rows'[l].claim = rows[l].claim
                                 /\ rows'[l].stale = rows[l].stale
  BY DEF TypeInv, ClockNext, RetryFallsDue, DeadlineNears, RowMatures, ApprovalLapses,
         StoreTypeOK, Row, Stays
<1>3. Stages' /\ \A l \in Leases : Remembers(l)'
  BY <1>1, <1>2, SweepLeft DEF Stays
<1> QED
  BY <1>1, <1>2, <1>3, StaysSwept

LEMMA StillSwept ==
    ASSUME SweptInv, UNCHANGED <<storeVars, workerVars, call, plan, reconcilerVars>>
    PROVE  Turns
<1>1. UNCHANGED workerVars /\ UNCHANGED reconcilerVars /\ SessionsCurrent'
  BY SessionsStill DEF SweptInv
<1>2. \A l \in Leases : Stays(l) /\ rows'[l].claim = rows[l].claim
                                 /\ rows'[l].stale = rows[l].stale
  BY DEF storeVars, Stays
<1>3. Stages' /\ \A l \in Leases : Remembers(l)'
  BY <1>1, <1>2, SweepLeft DEF Stays
<1> QED
  BY <1>1, <1>2, <1>3, StaysSwept

-----------------------------------------------------------------------------
(* Workers, under a sweep that may take the lease from under their hands.  *)

\* The end of a handler, whatever the row has become meanwhile.
Ended(w) ==
    LET l == held[w] IN
    /\ l \in Leases /\ Done(w) /\ resources' = resources
    /\ \A k \in Leases : k # l => rows'[k] = rows[k]
    /\ rows[l].activated => rows'[l].activated
    /\ \/ Stays(l)
       \/ rows'[l].state = "active"
       \/ /\ rows'[l].activated = rows[l].activated
          /\ \/ rows'[l].state \in {"deprovisioning", "orphaned", "failed"}
             \/ rows'[l].state = "provisioning" /\ task[w] # "teardown"
             \/ rows'[l].state = "released" /\ at[w] = "destroyed"

\* A handler that goes on: where to depends on its queue alone.
GoesOn(w) ==
    /\ held[w] \in Leases /\ rows' = rows /\ held' = held /\ task' = task
    /\ \A v \in Workers : v # w => copy'[v] = copy[v]
    /\ copy'[w] = View(rows[held[w]]) \/ (copy'[w] = copy[w] /\ at[w] # "claimed")
    /\ \A v \in Workers : v # w => at'[v] = at[v]
    /\ \/ at'[w] = "parking"
       \/ task[w] # "teardown" /\ at'[w] \notin {"idle", "destroying", "destroyed"}
       \/ task[w] = "teardown" /\ at'[w] \in {"destroying", "destroyed"}

LEMMA SettleEnds ==
    ASSUME StoreTypeOK, WorkerInv, NEW w \in Workers, at[w] # "idle", NEW mine,
           Settle(w, mine), resources' = resources,
           \/ mine.state \in {copy[w].state, "deprovisioning", "orphaned", "failed"}
           \/ mine.state = "provisioning" /\ task[w] # "teardown"
           \/ mine.state = "released" /\ at[w] = "destroyed"
    PROVE  Ended(w)
<1>1. /\ held[w] \in Leases /\ rows[held[w]] \in Row /\ Done(w)
      /\ rows' = [rows EXCEPT ![held[w]] = Flush(rows[held[w]], copy[w], mine)]
  BY DEF Settle, WorkerInv, StoreTypeOK
<1>2. /\ rows'[held[w]] = Flush(rows[held[w]], copy[w], mine)
      /\ \A k \in Leases : k # held[w] => rows'[k] = rows[k]
  BY <1>1 DEF StoreTypeOK
<1>3. /\ rows'[held[w]].state = Column(copy[w].state, mine.state, rows[held[w]].state)
      /\ rows'[held[w]].activated = rows[held[w]].activated
  BY <1>1, <1>2, FlushColumns
<1>4. \/ rows'[held[w]].state = rows[held[w]].state
      \/ rows'[held[w]].state = mine.state /\ mine.state # copy[w].state
  BY <1>3 DEF Column
<1> QED
  BY <1>1, <1>2, <1>3, <1>4 DEF Ended, Stays

LEMMA UndecidedEnds ==
    ASSUME StoreTypeOK, WorkerInv, NEW w \in Workers, at[w] # "idle",
           BackOff(w) \/ Fail(w) \/ Orphan(w), resources' = resources
    PROVE  Ended(w)
<1>0. copy[w] \in Copy
  BY DEF WorkerInv, WorkerTypeOK
<1>1. CASE BackOff(w)
  <2> DEFINE mine == [copy[w] EXCEPT !.state = Mine(w), !.claim = NoWorker, !.next = "later"]
  <2>1. /\ mine.state = Mine(w)
        /\ \/ Mine(w) \in {copy[w].state, "deprovisioning"}
           \/ Mine(w) = "provisioning" /\ task[w] # "teardown"
    BY <1>0 DEF Copy, Mine
  <2>2. Settle(w, mine)
    BY <1>1 DEF BackOff
  <2> HIDE DEF mine
  <2> QED
    BY <2>1, <2>2, SettleEnds
<1>2. CASE Fail(w)
  <2> DEFINE mine == [copy[w] EXCEPT !.state = "failed", !.claim = NoWorker, !.next = "none"]
  <2>1. mine.state = "failed" /\ Settle(w, mine)
    BY <1>0, <1>2 DEF Copy, Fail
  <2> HIDE DEF mine
  <2> QED
    BY <2>1, SettleEnds
<1>3. CASE Orphan(w)
  <2> DEFINE mine == [copy[w] EXCEPT !.state = "orphaned", !.claim = NoWorker, !.next = "none"]
  <2>1. mine.state = "orphaned" /\ Settle(w, mine)
    BY <1>0, <1>3 DEF Copy, Orphan
  <2> HIDE DEF mine
  <2> QED
    BY <2>1, SettleEnds
<1> QED
  BY <1>1, <1>2, <1>3

LEMMA ParkEnds ==
    ASSUME StoreTypeOK, WorkerInv, NEW w \in Workers, Park(w)
    PROVE  Ended(w)
<1> DEFINE mine == [copy[w] EXCEPT !.attempts = IF copy[w].attempts = 0 THEN 0
                                                ELSE copy[w].attempts - 1,
                                   !.claim = NoWorker, !.next = "later"]
<1>1. mine.state = copy[w].state
  BY DEF WorkerInv, WorkerTypeOK, Copy
<1>2. Settle(w, mine) /\ at[w] = "parking" /\ resources' = resources
  BY DEF Park, providerVars, WorkerInv, WorkerTypeOK, Copy
<1> HIDE DEF mine
<1> QED
  BY <1>1, <1>2, SettleEnds

LEMMA ReleaseEnds ==
    ASSUME StoreTypeOK, WorkerInv, NEW w \in Workers, Release(w)
    PROVE  Ended(w)
<1> DEFINE mine == [copy[w] EXCEPT !.state = "released", !.claim = NoWorker, !.next = "none"]
<1>1. mine.state = "released"
  BY DEF WorkerInv, WorkerTypeOK, Copy
<1>2. Settle(w, mine) /\ at[w] = "destroyed" /\ resources' = resources
  BY DEF Release, providerVars
<1> HIDE DEF mine
<1> QED
  BY <1>1, <1>2, SettleEnds

\* A lease put in use over whatever its row says: the copy was never ACTIVE.
LEMMA ActivateEnds ==
    ASSUME StoreTypeOK, WorkerInv, NEW w \in Workers, AtWork(w), Activate(w)
    PROVE  Ended(w)
<1> DEFINE mine == [copy[w] EXCEPT !.state = "active", !.claim = NoWorker,
                                   !.next = "none", !.attempts = 0, !.warned = FALSE]
           flushed == Flush(rows[held[w]], copy[w], mine)
<1>1. /\ held[w] \in Leases /\ copy[w] \in Copy /\ rows[held[w]] \in Row
      /\ Done(w) /\ resources' = resources
  BY DEF Activate, WorkerInv, WorkerTypeOK, StoreTypeOK, providerVars
<1>2. Committable(copy[w], mine) /\ mine.state = "active"
  BY <1>1 DEF Committable, Copy, LeaseState
<1>3. rows' = [rows EXCEPT ![held[w]] = Started(flushed)]
  BY <1>1 DEF Activate, StoreTypeOK
<1> HIDE DEF mine
<1>4. flushed \in Row /\ flushed.state = Column(copy[w].state, "active", rows[held[w]].state)
  BY <1>1, <1>2, FlushIsRow
<1> HIDE DEF flushed
<1>5. /\ rows'[held[w]].state = flushed.state /\ rows'[held[w]].activated = TRUE
      /\ \A k \in Leases : k # held[w] => rows'[k] = rows[k]
  BY <1>1, <1>3, <1>4, StartedColumns DEF StoreTypeOK
<1>6. copy[w].state # "active"
  BY <1>1 DEF Activate, AtWork, PROVISION_STATES
<1> QED
  BY <1>1, <1>4, <1>5, <1>6 DEF Ended, Column

LEMMA HandlerShows ==
    ASSUME StoreTypeOK, WorkerInv, NEW w \in Workers, AtWork(w), Handle(w) \/ Abandon(w)
    PROVE  Ended(w) \/ GoesOn(w)
<1>0. at[w] # "idle" => held[w] \in Leases
  BY DEF WorkerInv
<1>1. CASE Begin(w)
  <2>1. /\ at[w] = "claimed" /\ rows' = rows /\ held' = held /\ task' = task
        /\ copy' = [copy EXCEPT ![w] = View(rows[held[w]])]
        /\ \E place \in Place :
              /\ at' = [at EXCEPT ![w] = place]
              /\ \/ place = "parking"
                 \/ task[w] = "provision" /\ place \in {"preflight", "creating"}
                 \/ task[w] = "teardown" /\ place = "destroying"
    BY <1>1 DEF Begin, BeginUnavailable, BeginProvision, BeginTeardown, Load, OnlyBudget,
                storeVars, Place
  <2> QED
    BY <1>0, <2>1 DEF GoesOn, WorkerInv, WorkerTypeOK
<1>2. CASE PreflightPasses(w) \/ CreateLands(w) \/ RollBackDestroys(w) \/ DestroyLands(w)
           \/ (CreateFails(w) /\ at'[w] = "probing") \/ (RollBackProbe(w) /\ at'[w] = "undoing")
  <2>1. /\ at[w] \in Place \ {"idle", "claimed"} /\ rows' = rows
        /\ \/ \E place \in {"creating", "created", "probing", "undoing", "undone"} :
                 at[w] \notin {"parking", "destroying", "destroyed"} /\ Goto(w, place)
           \/ at[w] = "destroying" /\ Goto(w, "destroyed")
    BY <1>2 DEF PreflightPasses, CreateLands, RollBackDestroys, DestroyLands, CreateFails,
                RollBackProbe, storeVars, Place, Goto, BackOff, Fail, Settle, Done, WorkerInv,
                WorkerTypeOK
  <2>2. held[w] \in Leases
    BY <1>0, <2>1
  <2> QED
    BY <2>1, <2>2 DEF GoesOn, Goto, AtWork, WorkerInv, WorkerTypeOK
<1>3. CASE Park(w) \/ Release(w) \/ Activate(w)
  BY <1>3, ParkEnds, ReleaseEnds, ActivateEnds
<1>4. CASE PreflightFails(w) \/ RolledBack(w) \/ RollBackFails(w) \/ DestroyFails(w)
           \/ (CreateFails(w) /\ BackOff(w)) \/ (RollBackProbe(w) /\ Fail(w))
  <2>1. at[w] # "idle" /\ resources' = resources /\ (BackOff(w) \/ Fail(w) \/ Orphan(w))
    BY <1>4 DEF PreflightFails, RolledBack, RollBackFails, DestroyFails, CreateFails,
                RollBackProbe, GiveUpOnCreate, providerVars
  <2> QED
    BY <2>1, UndecidedEnds
<1>5. CASE RefusedMove(w) \/ Abandon(w)
  <2>1. at[w] # "idle" /\ Done(w) /\ rows' = rows /\ resources' = resources
    BY <1>5 DEF RefusedMove, Abandon, OnlyBudget, GiveUpOnCreate, storeVars, providerVars
  <2> QED
    BY <1>0, <2>1 DEF Ended, Stays
<1> QED
  BY <1>1, <1>2, <1>3, <1>4, <1>5
     DEF Handle, Provisioning, Teardown, CreateFails, RollBackProbe, Goto, WorkerInv,
         WorkerTypeOK

LEMMA EndedSwept ==
    ASSUME TypeInv, SweptInv, SessionsCurrent', UNCHANGED reconcilerVars,
           NEW w \in Workers, Ended(w)
    PROVE  Turns
<1> DEFINE l == held[w]
<1>1. /\ l \in Leases /\ Done(w) /\ WorkerInv
      /\ \A k \in Leases : k # l => rows'[k] = rows[k]
  BY DEF Ended, TypeInv
<1>2. /\ held'[w] = NoLease
      /\ \A v \in Workers : v # w =>
            /\ at'[v] = at[v] /\ held'[v] = held[v] /\ task'[v] = task[v]
            /\ copy'[v] = copy[v]
  BY <1>1, DoneHands DEF Done, WorkerInv, WorkerTypeOK
<1>3. ASSUME NEW v \in Workers PROVE AtWork(v)'
  <2>1. CASE v = w
    BY <1>2, <2>1, NullsAssumption DEF AtWork
  <2>2. CASE v # w
    <3>1. held[v] \in Leases => held[v] # l
      BY <2>2 DEF SweptInv, AtWork
    <3>2. held[v] \in Leases => rows'[held[v]] = rows[held[v]]
      BY <1>1, <3>1
    <3> QED
      BY <1>2, <2>2, <3>2, NullsAssumption DEF SweptInv, AtWork
  <2> QED
    BY <2>1, <2>2
<1>4. ASSUME NEW k \in Leases PROVE UsedOnce(k)' /\ (rows[k].activated => rows'[k].activated)
  <2>1. CASE k # l
    BY <1>1, <2>1 DEF SweptInv, UsedOnce
  <2>2. CASE k = l
    <3>1. task[w] # "teardown" => ~rows[l].activated
      BY <1>1 DEF SweptInv, AtWork
    <3> HIDE DEF l
    <3>2. UsedOnce(k)
      BY DEF SweptInv
    <3> QED
      BY <2>2, <3>1, <3>2 DEF Ended, Stays, UsedOnce, PROVISION_STATES, l
  <2> QED
    BY <2>1, <2>2
<1>5. Stages' /\ \A k \in Leases : Remembers(k)'
  BY <1>4, SweepLeft
<1>6. ASSUME NEW k \in Leases PROVE Fate(k)
  <2>1. k # l => Stays(k)
    BY <1>1 DEF Stays
  <2>2. Stays(l) \/ ByHand(w, l)
    BY <1>2 DEF Ended, ByHand
  <2> QED
    BY <2>1, <2>2 DEF Fate
<1>7. \A v \in Workers : Grasps(v)
  BY <1>2 DEF Grasps
<1> QED
  BY <1>3, <1>4, <1>5, <1>6, <1>7 DEF Turns, SweptInv

LEMMA GoesOnSwept ==
    ASSUME SweptInv, SessionsCurrent', UNCHANGED reconcilerVars, NEW w \in Workers, GoesOn(w)
    PROVE  Turns
<1>1. ASSUME NEW v \in Workers PROVE AtWork(v)'
  <2>1. CASE v = w
    BY <2>1 DEF SweptInv, AtWork, GoesOn, View
  <2>2. CASE v # w
    BY <2>2 DEF SweptInv, AtWork, GoesOn
  <2> QED
    BY <2>1, <2>2
<1>2. \A l \in Leases : UsedOnce(l)' /\ Fate(l)
  BY DEF SweptInv, UsedOnce, GoesOn, Fate, Stays
<1>3. Stages' /\ \A l \in Leases : Remembers(l)'
  BY SweepLeft DEF GoesOn
<1> QED
  BY <1>1, <1>2, <1>3 DEF Turns, SweptInv, Grasps, GoesOn

\* The conditional UPDATE takes a lease out of no hand, and no closed one.
LEMMA ClaimSwept ==
    ASSUME TypeInv, SweptInv, SessionsCurrent', UNCHANGED reconcilerVars,
           NEW w \in Workers, NEW l \in Leases, NEW queue \in {"provision", "teardown"},
           Claim(w, l, queue)
    PROVE  Turns
<1>1. /\ at[w] = "idle" /\ Claimable(rows[l]) /\ rows[l] \in Row
      /\ rows[l].state \in (IF queue = "provision" THEN PROVISION_STATES ELSE TEARDOWN_STATES)
  BY DEF Claim, TypeInv, StoreTypeOK
<1>2. Unheld(l)
  BY <1>1, NullsAssumption DEF SweptInv, AtWork, Claimable, Unheld, PROVISION_STATES,
                               TEARDOWN_STATES
<1>3. /\ rows'[l].claim = w /\ rows'[l].stale = FALSE /\ Stays(l)
      /\ \A k \in Leases : k # l => rows'[k] = rows[k]
  BY <1>1 DEF Claim, TypeInv, StoreTypeOK, Row, Stays
<1>4. /\ at'[w] = "claimed" /\ held'[w] = l /\ task'[w] = queue
      /\ \A v \in Workers : v # w => at'[v] = at[v] /\ held'[v] = held[v] /\ task'[v] = task[v]
      /\ copy' = copy
  BY DEF Claim, TypeInv, WorkerInv, WorkerTypeOK
<1>5. AtWork(w)'
  <2>1. queue = "provision" => ~rows[l].activated
    BY <1>1 DEF SweptInv, UsedOnce
  <2>2. \A v \in Workers : held'[v] = l => v = w
    BY <1>2, <1>4 DEF Unheld
  <2> QED
    BY <1>1, <1>3, <1>4, <2>1, <2>2 DEF AtWork, Stays, PROVISION_STATES
<1>6. ASSUME NEW v \in Workers, v # w PROVE AtWork(v)'
  BY <1>2, <1>3, <1>4, <1>6 DEF SweptInv, AtWork, Unheld
<1>7. \A k \in Leases : Stays(k)
  BY <1>3 DEF Stays
<1>8. Stages' /\ \A k \in Leases : Remembers(k)'
  BY <1>7, SweepLeft DEF Stays
<1>9. \A k \in Leases : UsedOnce(k)' /\ Fate(k)
  BY <1>7 DEF SweptInv, UsedOnce, Stays, Fate
<1>10. \A v \in Workers : Grasps(v)
  BY <1>1, <1>4 DEF Grasps
<1> QED
  BY <1>5, <1>6, <1>8, <1>9, <1>10 DEF Turns, SweptInv

LEMMA ClaimAgesSwept ==
    ASSUME TypeInv, SweptInv, Orderly, SessionsCurrent', UNCHANGED reconcilerVars,
           NEW l \in Leases, ClaimAges(l)
    PROVE  Turns
<1>1. /\ \A w \in Workers : rows[l].claim = w => held[w] # l
      /\ UNCHANGED workerVars
  BY DEF ClaimAges, Orderly
<1>2. /\ Stays(l) /\ \A k \in Leases : k # l => rows'[k] = rows[k]
      /\ rows'[l].claim = rows[l].claim
  BY DEF ClaimAges, TypeInv, StoreTypeOK, Row, Stays
<1>3. ASSUME NEW w \in Workers PROVE AtWork(w)'
  BY <1>1, <1>2 DEF SweptInv, AtWork, Stays, workerVars
<1>4. \A k \in Leases : Stays(k)
  BY <1>2 DEF Stays
<1>5. Stages' /\ \A k \in Leases : Remembers(k)'
  BY <1>4, SweepLeft DEF Stays
<1>6. \A k \in Leases : UsedOnce(k)' /\ Fate(k)
  BY <1>4 DEF SweptInv, UsedOnce, Stays, Fate
<1> QED
  BY <1>1, <1>3, <1>5, <1>6 DEF Turns, SweptInv, Grasps, workerVars

LEMMA WorkerSwept ==
    ASSUME TypeInv, SweptInv, Orderly, WorkerNext, OfWorker
    PROVE  Turns
<1>1. UNCHANGED reconcilerVars /\ SessionsCurrent'
  BY QuietKept DEF OfWorker
<1>2. ASSUME NEW w \in Workers, Handle(w) \/ Abandon(w) PROVE Turns
  <2>1. Ended(w) \/ GoesOn(w)
    BY <1>2, HandlerShows DEF TypeInv, SweptInv
  <2> QED
    BY <1>1, <2>1, EndedSwept, GoesOnSwept
<1>3. ASSUME NEW w \in Workers, NEW l \in Leases, NEW queue \in {"provision", "teardown"},
             Claim(w, l, queue)
      PROVE  Turns
  BY <1>1, <1>3, ClaimSwept
<1>4. ASSUME NEW l \in Leases, ClaimAges(l) PROVE Turns
  BY <1>1, <1>4, ClaimAgesSwept
<1> QED
  BY <1>2, <1>3, <1>4 DEF WorkerNext

-----------------------------------------------------------------------------
(* The sweep itself.                                                       *)

\* What a sweep is about to write goes over whatever the row has become.
LEMMA ConcludedState ==
    ASSUME TypeInv, NEW l \in Leases, reread[l].copy.state \in LIVE_STATES
    PROVE  /\ Concluded(l).state = Target(l) /\ Concluded(l).activated = rows[l].activated
<1> DEFINE mine == [reread[l].copy EXCEPT !.state = Target(l), !.claim = NoWorker,
                                          !.next = "none"]
<1>1. rows[l] \in Row /\ reread[l].copy \in Copy
  BY DEF TypeInv, StoreTypeOK, ReconcilerTypeOK, Reread
<1>2. mine.state = Target(l) /\ Target(l) \notin LIVE_STATES
  BY <1>1 DEF Copy, Target, LIVE_STATES
<1>3. Concluded(l) = Flush(rows[l], reread[l].copy, mine)
  BY DEF Concluded
<1> HIDE DEF mine
<1> QED
  BY <1>1, <1>2, <1>3, FlushColumns DEF Column

LEMMA WriteDriftSwept ==
    ASSUME TypeInv, SweptInv, SessionsCurrent', UNCHANGED workerVars, WriteDrift
    PROVE  Turns
<1>1. /\ sweep = "write" /\ sweep' = "idle" /\ Forgotten /\ resources' = resources
      /\ \A l \in Leases : rows'[l] = IF l \in intended THEN Concluded(l) ELSE rows[l]
  BY DEF WriteDrift, providerVars
<1>2. ASSUME NEW l \in Leases, l \in intended
      PROVE  /\ rows'[l].state = Target(l) /\ rows'[l].activated = rows[l].activated
             /\ snap[l].activated => rows[l].activated
  <2>1. reread[l].copy.state \in LIVE_STATES /\ (snap[l].activated => rows[l].activated)
    BY <1>1, <1>2 DEF SweptInv, Remembers
  <2> QED
    BY <1>1, <1>2, <2>1, ConcludedState
<1>3. ASSUME NEW w \in Workers PROVE AtWork(w)'
  <2>1. CASE held[w] \in intended
    <3>1. held[w] \in Leases
      BY <2>1 DEF TypeInv, ReconcilerTypeOK
    <3> QED
      BY <1>2, <2>1, <3>1 DEF SweptInv, AtWork, Target, workerVars
  <2>2. CASE held[w] \notin intended
    BY <1>1, <2>2 DEF SweptInv, AtWork, workerVars
  <2> QED
    BY <2>1, <2>2
<1>4. ASSUME NEW l \in Leases PROVE UsedOnce(l)' /\ Fate(l)
  BY <1>1, <1>2 DEF SweptInv, UsedOnce, Fate, Stays, BySweep, Target, PROVISION_STATES, workerVars
<1>5. Stages' /\ \A l \in Leases : Remembers(l)'
  BY <1>1 DEF Stages, Remembers, Forgotten, NoSnapshot
<1> QED
  BY <1>1, <1>3, <1>4, <1>5 DEF Turns, SweptInv, Grasps, workerVars

LEMMA ReconcilerSwept ==
    ASSUME TypeInv, SweptInv, Orderly, ReconcilerNext, OfReconciler
    PROVE  Turns
<1>1. UNCHANGED workerVars /\ SessionsCurrent'
  BY QuietKept DEF OfReconciler
<1>2. CASE WriteDrift
  BY <1>1, <1>2, WriteDriftSwept
<1>3. CASE TakeSnapshot \/ ListManaged \/ OrphansDone \/ RereadAll \/ SweepAborts
           \/ \E l \in Leases : DestroyOrphan(l) \/ Ask(l)
  <2>1. rows' = rows
    BY <1>3 DEF TakeSnapshot, ListManaged, OrphansDone, RereadAll, SweepAborts, DestroyOrphan,
                Ask, storeVars
  <2>2. Stages'
    BY <1>3 DEF SweptInv, Stages, TakeSnapshot, ListManaged, OrphansDone, RereadAll,
                SweepAborts, Forgotten, DestroyOrphan, Ask
  <2>3. ASSUME NEW l \in Leases PROVE Remembers(l)'
    <3>1. Remembers(l) /\ Stages
      BY DEF SweptInv
    <3>2. CASE TakeSnapshot
      BY <2>1, <3>1, <3>2 DEF TakeSnapshot, Remembers, Stages
    <3>3. CASE ListManaged
      BY <2>1, <3>1, <3>3 DEF ListManaged, ToAsk, Remembers, Stages
    <3>4. CASE OrphansDone \/ \E k \in Leases : DestroyOrphan(k)
      BY <2>1, <3>1, <3>4 DEF OrphansDone, DestroyOrphan, Remembers
    <3>5. CASE \E k \in Leases : Ask(k)
      BY <2>1, <3>1, <3>5 DEF Ask, Remembers, SweptInv
    <3>6. CASE RereadAll
      BY <2>1, <3>1, <3>6 DEF RereadAll, Remembers, View
    <3>7. CASE SweepAborts
      BY <2>1, <3>7 DEF SweepAborts, Forgotten, NoSnapshot, Remembers
    <3> QED
      BY <1>3, <3>2, <3>3, <3>4, <3>5, <3>6, <3>7
  <2> QED
    BY <1>1, <2>1, <2>2, <2>3, StaysSwept DEF Stays
<1> QED
  BY <1>2, <1>3 DEF ReconcilerNext, SweepProceeds

LEMMA SweptStep == Orderly => (TypeInv /\ SweptInv /\ [Next]_vars => Turns)
<1> SUFFICES ASSUME Orderly, TypeInv, SweptInv, [Next]_vars PROVE Turns
  OBVIOUS
<1>1. CASE (ProviderNext /\ OfProvider) \/ UNCHANGED vars
  BY <1>1, StillSwept DEF OfProvider, vars
<1>2. CASE (ServiceBegins /\ OfService /\ CallsQuiet) \/ (ServiceEnds /\ OfService)
  <2>1. Apart /\ SessionsCurrent' /\ UNCHANGED reconcilerVars
    BY <1>2, ServiceApart DEF SweptInv, OfService
  <2> QED
    BY <2>1, ApartSwept
<1>3. CASE TickerNext /\ OfTicker
  <2>1. Apart /\ SessionsCurrent' /\ UNCHANGED reconcilerVars
    BY <1>3, TickerApart DEF SweptInv, OfTicker
  <2> QED
    BY <2>1, ApartSwept
<1> QED
  BY <1>1, <1>2, <1>3, ClockSwept, WorkerSwept, ReconcilerSwept DEF Next

THEOREM SweptInvariant == ASSUME Orderly PROVE Spec => []SweptInv
<1>1. TypeInv /\ SweptInv /\ [Next]_vars => SweptInv'
  BY SweptStep DEF Turns
<1> QED
  BY <1>1, SweptInit, TypeInvInvariant, PTL DEF Spec

-----------------------------------------------------------------------------
(* The claim and the budget, whatever sweeps close meanwhile.              *)

\* The claim is exclusive (worker.py _claim): the conditional UPDATE hands a
\* lease to nobody while a handler is at work on it, across crashes, backing
\* off, parking, sweeps and everything clients do meanwhile.
THEOREM ClaimExclusiveHolds ==
    ASSUME Orderly
    PROVE  Spec => []ClaimExclusive
<1>1. TypeInv /\ SweptInv => ClaimExclusive
  BY NullsAssumption DEF TypeInv, WorkerInv, WorkerTypeOK, SweptInv, AtWork, ClaimExclusive
<1> QED
  BY <1>1, SweptInvariant, TypeInvInvariant, PTL

\* A lease that waits in a queue has an attempt left, or one a fault gave it.
Budget == MaxAttempts + (MaxFaults - faults)

Budgeted(l) ==
    /\ rows[l].attempts <= Budget
    /\ rows[l].state \in PROVISION_STATES \cup TEARDOWN_STATES =>
          rows[l].attempts < Budget \/ \E w \in Workers : held[w] = l

Queues == PROVISION_STATES \cup TEARDOWN_STATES

\* A handler knows how often its lease was tried, and a lease that is still in a
\* queue was in a queue when it looked.
Counted(w) ==
    held[w] \in Leases /\ at[w] # "claimed" =>
        /\ copy[w].attempts = rows[held[w]].attempts
        /\ rows[held[w]].state \in Queues => copy[w].state \in Queues

SpentInv ==
    /\ \A l \in Leases : Budgeted(l)
    /\ \A w \in Workers : Counted(w)

\* The budget only grows, by what faults cost.
LEMMA BudgetArithmetic ==
    ASSUME NEW max \in Nat, NEW left \in 0..max, NEW fewer \in 0..left
    PROVE  /\ MaxAttempts + (max - left) \in Nat /\ MaxAttempts + (max - left) > 0
           /\ MaxAttempts + (max - fewer) \in Nat
           /\ MaxAttempts + (max - left) <= MaxAttempts + (max - fewer)
<1>1. MaxAttempts \in Nat /\ MaxAttempts > 0
  BY BoundsAssumption
<1> QED
  BY <1>1

LEMMA BudgetGrows ==
    ASSUME StoreTypeOK, faults' \in 0..faults
    PROVE  Budget \in Nat /\ Budget' \in Nat /\ Budget <= Budget' /\ Budget > 0
<1>1. MaxFaults \in Nat /\ faults \in 0..MaxFaults
  BY BoundsAssumption DEF StoreTypeOK
<1>2. /\ Budget = MaxAttempts + (MaxFaults - faults)
      /\ Budget' = MaxAttempts + (MaxFaults - faults')
  BY DEF Budget
<1>3. /\ MaxAttempts + (MaxFaults - faults) \in Nat
      /\ MaxAttempts + (MaxFaults - faults) > 0
      /\ MaxAttempts + (MaxFaults - faults') \in Nat
      /\ MaxAttempts + (MaxFaults - faults) <= MaxAttempts + (MaxFaults - faults')
  BY <1>1, BudgetArithmetic, Zenon
<1> QED
  BY <1>2, <1>3, Zenon

LEMMA SpentInit == Init => SpentInv
<1> SUFFICES ASSUME Init PROVE SpentInv
  OBVIOUS
<1>1. \A w \in Workers : Counted(w)
  BY NullsAssumption DEF Init, WorkerInit, Counted
<1>2. ASSUME NEW l \in Leases PROVE Budgeted(l)
  <2>1. rows[l].attempts = 0 /\ rows[l].state = "absent" /\ faults = MaxFaults
    BY DEF Init, StoreInit, NoRow
  <2>2. 0 <= MaxAttempts + (MaxFaults - MaxFaults)
    BY BoundsAssumption
  <2> QED
    BY <2>1, <2>2 DEF Budgeted, Budget, PROVISION_STATES, TEARDOWN_STATES
<1> QED
  BY <1>1, <1>2 DEF SpentInv

\* A row that is left alone, or counted anew, or taken out of its queue, keeps
\* within the budget, as long as a lease in hand stays in hand.
LEMMA RowSpends ==
    ASSUME StoreTypeOK, NEW l \in Leases, Budgeted(l), faults' \in 0..faults,
           (\E w \in Workers : held[w] = l) => \E w \in Workers : held'[w] = l,
           \/ rows'[l].attempts = 0
           \/ /\ rows'[l].attempts = rows[l].attempts
              /\ \/ rows'[l].state = rows[l].state
                 \/ rows'[l].state \notin Queues
    PROVE  Budgeted(l)'
<1>1. rows[l].attempts \in Nat
  BY DEF StoreTypeOK, Row
<1>2. Budget \in Nat /\ Budget' \in Nat /\ Budget <= Budget' /\ Budget > 0
  BY BudgetGrows
<1> QED
  BY <1>1, <1>2 DEF Budgeted, Queues

\* A step of somebody who is no worker, and touches no count but to start it anew.
LEMMA OthersSpend ==
    ASSUME StoreTypeOK, SpentInv, UNCHANGED workerVars, faults' \in 0..faults,
           \A l \in Leases :
              \/ rows'[l].attempts = 0 /\ Unheld(l)
              \/ /\ rows'[l].attempts = rows[l].attempts
                 /\ \/ rows'[l].state = rows[l].state
                    \/ rows'[l].state \notin Queues
    PROVE  SpentInv'
<1>1. \A l \in Leases : Budgeted(l)'
  BY RowSpends DEF SpentInv, workerVars
<1>2. ASSUME NEW w \in Workers PROVE Counted(w)'
  BY DEF SpentInv, Counted, workerVars, Unheld
<1> QED
  BY <1>1, <1>2 DEF SpentInv

LEMMA ApartSpends ==
    ASSUME StoreTypeOK, SweptInv, SpentInv, Apart
    PROVE  SpentInv'
<1>1. ASSUME NEW l \in Leases
      PROVE  \/ rows'[l].attempts = 0 /\ Unheld(l)
             \/ /\ rows'[l].attempts = rows[l].attempts
                /\ \/ rows'[l].state = rows[l].state
                   \/ rows'[l].state \notin Queues
  BY LooseUnheld DEF Apart, Queues
<1> QED
  BY <1>1, OthersSpend DEF Apart

-----------------------------------------------------------------------------

\* The end of a handler: the count it leaves is no more than it was, and if it
\* leaves the lease in a queue, that is because there is an attempt left.
Spends(w) ==
    LET l == held[w] IN
    /\ l \in Leases /\ Done(w) /\ faults' \in 0..faults
    /\ \A k \in Leases : k # l => rows'[k] = rows[k]
    /\ rows'[l].attempts \in Nat /\ rows'[l].attempts <= rows[l].attempts
    /\ rows'[l].state \in Queues => rows'[l].attempts < Budget'

LEMMA SettleSpends ==
    ASSUME StoreTypeOK, WorkerInv, NEW w \in Workers, Counted(w),
           at[w] \notin {"idle", "claimed"}, NEW mine,
           Committable(copy[w], mine), Settle(w, mine), mine.attempts <= copy[w].attempts,
           mine.state \in Queues => mine.attempts < Budget
    PROVE  Spends(w)
<1>1. /\ held[w] \in Leases /\ rows[held[w]] \in Row /\ Done(w) /\ faults' = faults
      /\ rows' = [rows EXCEPT ![held[w]] = Flush(rows[held[w]], copy[w], mine)]
  BY DEF Settle, WorkerInv, StoreTypeOK
<1>2. /\ rows'[held[w]] = Flush(rows[held[w]], copy[w], mine)
      /\ \A k \in Leases : k # held[w] => rows'[k] = rows[k]
  BY <1>1 DEF StoreTypeOK
<1>3. /\ rows'[held[w]].state = Column(copy[w].state, mine.state, rows[held[w]].state)
      /\ rows'[held[w]].attempts = Column(copy[w].attempts, mine.attempts,
                                          rows[held[w]].attempts)
  BY <1>1, <1>2, FlushColumns
<1>4. copy[w].attempts = rows[held[w]].attempts /\ mine.attempts \in Nat
  BY <1>1 DEF Counted, Committable, Copy
<1>5. rows'[held[w]].attempts = mine.attempts
  BY <1>3, <1>4 DEF Column
<1>6. rows'[held[w]].state \in Queues => mine.state \in Queues
  BY <1>1, <1>3 DEF Column, Counted
<1>7. Budget' = Budget /\ faults' \in 0..faults
  BY <1>1, BoundsAssumption DEF Budget, StoreTypeOK
<1> QED
  BY <1>1, <1>2, <1>4, <1>5, <1>6, <1>7 DEF Spends

\* Backing off takes an attempt left, failing, orphaning and releasing take the
\* lease out of its queue.
LEMMA DecidedSpends ==
    ASSUME StoreTypeOK, WorkerInv, NEW w \in Workers, Counted(w),
           at[w] \notin {"idle", "claimed"},
           BackOff(w) \/ Fail(w) \/ Orphan(w) \/ Release(w)
    PROVE  Spends(w)
<1>0. copy[w] \in Copy /\ copy[w].attempts \in Nat
  BY DEF WorkerInv, WorkerTypeOK, Copy
<1>1. CASE BackOff(w)
  <2> DEFINE mine == [copy[w] EXCEPT !.state = Mine(w), !.claim = NoWorker, !.next = "later"]
  <2>1. Committable(copy[w], mine) /\ mine.attempts = copy[w].attempts
    BY <1>0, MineIsState DEF Committable, Copy
  <2>2. Settle(w, mine) /\ copy[w].attempts < MaxAttempts
    BY <1>1 DEF BackOff
  <2>3. mine.attempts <= copy[w].attempts /\ mine.attempts < Budget
    BY <1>0, <2>1, <2>2, BoundsAssumption DEF Budget, StoreTypeOK
  <2> HIDE DEF mine
  <2> QED
    BY <2>1, <2>2, <2>3, SettleSpends
<1>2. ASSUME NEW state \in {"failed", "orphaned", "released"},
             Settle(w, [copy[w] EXCEPT !.state = state, !.claim = NoWorker, !.next = "none"])
      PROVE  Spends(w)
  <2> DEFINE mine == [copy[w] EXCEPT !.state = state, !.claim = NoWorker, !.next = "none"]
  <2>1. Committable(copy[w], mine) /\ mine.state = state /\ mine.attempts = copy[w].attempts
    BY <1>0, CopyCommittable DEF LeaseState, Copy
  <2>2. Settle(w, mine) /\ mine.attempts <= copy[w].attempts
    BY <1>0, <1>2, <2>1
  <2>3. mine.state \notin Queues
    BY <2>1 DEF Queues, PROVISION_STATES, TEARDOWN_STATES
  <2> HIDE DEF mine
  <2> QED
    BY <2>1, <2>2, <2>3, SettleSpends
<1> QED
  BY <1>1, <1>2 DEF Fail, Orphan, Release

\* Parking hands an attempt back.
LEMMA ParkSpends ==
    ASSUME StoreTypeOK, WorkerInv, NEW w \in Workers, Counted(w), Budgeted(held[w]), Park(w)
    PROVE  Spends(w)
<1> DEFINE back == IF copy[w].attempts = 0 THEN 0 ELSE copy[w].attempts - 1
           mine == [copy[w] EXCEPT !.attempts = back, !.claim = NoWorker, !.next = "later"]
<1>0. /\ at[w] = "parking" /\ held[w] \in Leases /\ copy[w] \in Copy
      /\ copy[w].attempts = rows[held[w]].attempts
  BY DEF Park, WorkerInv, WorkerTypeOK, Counted
<1>1. back \in Nat /\ back <= copy[w].attempts /\ back < Budget
  <2>1. /\ copy[w].attempts \in Nat /\ copy[w].attempts <= Budget
        /\ Budget \in Nat /\ Budget > 0
    BY <1>0, BoundsAssumption DEF Copy, Budgeted, Budget, StoreTypeOK
  <2> QED
    BY <2>1
<1>2. Settle(w, mine)
  BY DEF Park
<1> HIDE DEF back
<1>3. Committable(copy[w], mine) /\ mine.attempts = back
  BY <1>0, <1>1 DEF Committable, Copy
<1> HIDE DEF mine
<1> QED
  BY <1>0, <1>1, <1>2, <1>3, SettleSpends

\* A lease put in use starts anew.
LEMMA ActivateSpends ==
    ASSUME StoreTypeOK, WorkerInv, NEW w \in Workers, Counted(w), Activate(w)
    PROVE  Spends(w)
<1> DEFINE mine == [copy[w] EXCEPT !.state = "active", !.claim = NoWorker,
                                   !.next = "none", !.attempts = 0, !.warned = FALSE]
           flushed == Flush(rows[held[w]], copy[w], mine)
<1>1. /\ held[w] \in Leases /\ copy[w] \in Copy /\ rows[held[w]] \in Row
      /\ Done(w) /\ faults' = faults /\ copy[w].attempts = rows[held[w]].attempts
      /\ rows[held[w]].attempts \in Nat
  BY DEF Activate, WorkerInv, WorkerTypeOK, StoreTypeOK, Counted, Row
<1>2. Committable(copy[w], mine) /\ mine.attempts = 0
  BY <1>1 DEF Committable, Copy, LeaseState
<1>3. rows' = [rows EXCEPT ![held[w]] = Started(flushed)]
  BY <1>1 DEF Activate, StoreTypeOK
<1> HIDE DEF mine
<1>4. /\ flushed \in Row
      /\ flushed.attempts = Column(copy[w].attempts, mine.attempts, rows[held[w]].attempts)
  BY <1>1, <1>2, FlushIsRow, FlushColumns
<1> HIDE DEF flushed
<1>5. flushed.attempts = 0
  BY <1>1, <1>2, <1>4 DEF StoreTypeOK, Row, Column
<1>6. /\ rows'[held[w]].attempts = 0
      /\ \A k \in Leases : k # held[w] => rows'[k] = rows[k]
  BY <1>1, <1>3, <1>4, <1>5, StartedColumns DEF StoreTypeOK
<1>7. 0 < Budget' /\ faults' \in 0..faults
  BY <1>1, BoundsAssumption DEF Budget, StoreTypeOK
<1> QED
  BY <1>1, <1>6, <1>7 DEF Spends

\* A move is refused only of a lease a sweep has closed.
LEMMA RefusedSpends ==
    ASSUME StoreTypeOK, WorkerInv, NEW w \in Workers, AtWork(w), Counted(w), RefusedMove(w)
    PROVE  Spends(w)
<1>1. /\ held[w] \in Leases /\ Done(w) /\ rows' = rows /\ faults' = faults
      /\ rows[held[w]].attempts \in Nat
  BY DEF RefusedMove, storeVars, WorkerInv, StoreTypeOK, Row
<1>2. rows[held[w]].state \notin Queues
  <2>1. CASE at[w] = "claimed" /\ task[w] = "teardown"
    <3>1. \A state \in TEARDOWN_STATES : CanMove(state, "deprovisioning")
      BY DEF CanMove, TRANSITIONS, TEARDOWN_STATES, TEARDOWN_INTENT_STATES
    <3>2. ~CanMove(rows[held[w]].state, "deprovisioning")
      BY <2>1 DEF RefusedMove
    <3> QED
      BY <1>1, <2>1, <3>1, <3>2 DEF AtWork, Queues, PROVISION_STATES, TEARDOWN_STATES,
                                    TEARDOWN_INTENT_STATES
  <2>2. CASE at[w] \in {"created", "probing", "undoing", "undone"}
    <3>1. /\ CanMove("provisioning", "active") /\ CanMove("provisioning", "failed")
          /\ CanRoute("provisioning", "orphaned")
      BY DEF CanMove, CanRoute, TRANSITIONS
    <3>2. Mine(w) # "provisioning"
      BY <2>2, <3>1 DEF RefusedMove
    <3>3. copy[w].state = "failed"
      BY <1>1, <2>2, <3>2 DEF AtWork, Mine, PROVISION_STATES
    <3> QED
      BY <1>1, <2>2, <3>3 DEF Counted, Queues, PROVISION_STATES, TEARDOWN_STATES,
                              TEARDOWN_INTENT_STATES
  <2> QED
    BY <2>1, <2>2 DEF RefusedMove
<1>3. faults' \in 0..faults
  BY <1>1, BoundsAssumption DEF StoreTypeOK
<1> QED
  BY <1>1, <1>2, <1>3 DEF Spends

\* A crash costs a fault, and that pays for the attempt it cost the lease.
LEMMA AbandonSpends ==
    ASSUME StoreTypeOK, WorkerInv, NEW w \in Workers, Budgeted(held[w]), Abandon(w)
    PROVE  Spends(w)
<1>1. /\ held[w] \in Leases /\ Done(w) /\ rows' = rows
      /\ faults >= 1 /\ faults' = faults - 1 /\ faults \in 0..MaxFaults
      /\ rows[held[w]].attempts \in Nat
  BY DEF Abandon, OnlyBudget, WorkerInv, StoreTypeOK, Row
<1>2. Budget' = Budget + 1 /\ Budget \in Nat
  BY <1>1, BoundsAssumption DEF Budget
<1>3. rows[held[w]].attempts < Budget' /\ faults' \in 0..faults
  BY <1>1, <1>2, BoundsAssumption DEF Budgeted
<1> QED
  BY <1>1, <1>3 DEF Spends

LEMMA SpendsKeeps ==
    ASSUME StoreTypeOK, WorkerInv, SweptInv, SpentInv, NEW w \in Workers, Spends(w)
    PROVE  SpentInv'
<1> DEFINE l == held[w]
<1>1. /\ l \in Leases /\ Done(w) /\ faults' \in 0..faults
      /\ \A k \in Leases : k # l => rows'[k] = rows[k]
  BY DEF Spends
<1>2. /\ held'[w] = NoLease
      /\ \A v \in Workers : v # w =>
            at'[v] = at[v] /\ held'[v] = held[v] /\ copy'[v] = copy[v]
  BY <1>1, DoneHands DEF Done, WorkerInv, WorkerTypeOK
<1>3. ASSUME NEW k \in Leases PROVE Budgeted(k)'
  <2>1. CASE k = l
    <3>1. Budget \in Nat /\ Budget' \in Nat /\ Budget <= Budget'
      BY <1>1, BudgetGrows
    <3>2. rows[l].attempts \in Nat /\ rows[l].attempts <= Budget
      BY <1>1 DEF StoreTypeOK, Row, SpentInv, Budgeted
    <3>3. /\ rows'[l].attempts \in Nat /\ rows'[l].attempts <= rows[l].attempts
          /\ rows'[l].state \in Queues => rows'[l].attempts < Budget'
      BY DEF Spends
    <3> HIDE DEF l
    <3> QED
      BY <2>1, <3>1, <3>2, <3>3 DEF Budgeted, Queues
  <2>2. CASE k # l
    <3>1. (\E v \in Workers : held[v] = k) => \E v \in Workers : held'[v] = k
      BY <1>2, <2>2
    <3> QED
      BY <1>1, <2>2, <3>1, RowSpends DEF SpentInv
  <2> QED
    BY <2>1, <2>2
<1>4. ASSUME NEW v \in Workers PROVE Counted(v)'
  <2>1. CASE v = w
    BY <1>2, <2>1, NullsAssumption DEF Counted
  <2>2. CASE v # w
    <3>1. held[v] \in Leases => held[v] # l
      BY <2>2 DEF SweptInv, AtWork
    <3>2. held[v] \in Leases => rows'[held[v]] = rows[held[v]]
      BY <1>1, <3>1
    <3> QED
      BY <1>2, <2>2, <3>2 DEF SpentInv, Counted
  <2> QED
    BY <2>1, <2>2
<1> QED
  BY <1>3, <1>4 DEF SpentInv

LEMMA GoesOnSpends ==
    ASSUME StoreTypeOK, SpentInv, NEW w \in Workers, GoesOn(w), faults' \in 0..faults
    PROVE  SpentInv'
<1>1. rows' = rows /\ held' = held
  BY DEF GoesOn
<1>2. \A l \in Leases : Budgeted(l)'
  BY <1>1, RowSpends DEF SpentInv
<1>3. ASSUME NEW v \in Workers PROVE Counted(v)'
  <2>1. CASE v = w
    BY <1>1, <2>1 DEF SpentInv, Counted, GoesOn, View
  <2>2. CASE v # w
    BY <1>1, <2>2 DEF SpentInv, Counted, GoesOn
  <2> QED
    BY <2>1, <2>2
<1> QED
  BY <1>2, <1>3 DEF SpentInv

LEMMA HandlerSpends ==
    ASSUME TypeInv, SweptInv, SpentInv, NEW w \in Workers, Handle(w) \/ Abandon(w)
    PROVE  SpentInv'
<1>0. /\ StoreTypeOK /\ WorkerInv /\ AtWork(w) /\ Counted(w)
      /\ at[w] # "idle" => held[w] \in Leases /\ Budgeted(held[w])
  BY DEF TypeInv, WorkerInv, SweptInv, SpentInv
<1>1. CASE Park(w) \/ Activate(w) \/ RefusedMove(w) \/ Abandon(w)
  <2>1. at[w] # "idle"
    BY <1>1 DEF Park, Activate, RefusedMove, Abandon
  <2>2. Spends(w)
    BY <1>0, <1>1, <2>1, ParkSpends, ActivateSpends, RefusedSpends, AbandonSpends
  <2> QED
    BY <1>0, <2>2, SpendsKeeps
<1>2. CASE /\ at[w] \notin {"idle", "claimed"}
           /\ BackOff(w) \/ Fail(w) \/ Orphan(w) \/ Release(w)
  <2>1. Spends(w)
    BY <1>0, <1>2, DecidedSpends
  <2> QED
    BY <1>0, <2>1, SpendsKeeps
<1>3. CASE Begin(w)
  <2>1. at[w] = "claimed" /\ held' = held /\ faults' \in 0..faults
    BY <1>0, <1>3, BoundsAssumption
       DEF Begin, BeginUnavailable, BeginProvision, BeginTeardown, Load, OnlyBudget, storeVars,
           StoreTypeOK
  <2>2. held'[w] # NoLease
    BY <1>0, <2>1, NullsAssumption
  <2>3. ~Done(w)
    BY <1>0, <2>2 DEF Done, WorkerInv, WorkerTypeOK
  <2>4. GoesOn(w)
    BY <1>0, <1>3, <2>3, HandlerShows DEF Ended
  <2> QED
    BY <1>0, <2>1, <2>4, GoesOnSpends
<1>4. ASSUME NEW place, Goto(w, place), UNCHANGED storeVars, at[w] \notin {"idle", "claimed"}
      PROVE  SpentInv'
  <2>1. faults' \in 0..faults
    BY <1>0, <1>4, BoundsAssumption DEF storeVars, StoreTypeOK
  <2>2. rows' = rows /\ held' = held
    BY <1>4 DEF Goto, storeVars
  <2>3. \A l \in Leases : Budgeted(l)'
    BY <1>0, <2>1, <2>2, RowSpends DEF SpentInv
  <2>4. ASSUME NEW v \in Workers PROVE Counted(v)'
    BY <1>4, <2>2 DEF Goto, SpentInv, Counted, TypeInv, WorkerInv, WorkerTypeOK
  <2> QED
    BY <2>3, <2>4 DEF SpentInv
<1>5. CASE Provisioning(w) \/ Teardown(w)
  <2>1. /\ at[w] \notin {"idle", "claimed"}
        /\ \/ Activate(w) \/ BackOff(w) \/ Fail(w) \/ Orphan(w) \/ Release(w)
           \/ \E place \in Place : Goto(w, place) /\ UNCHANGED storeVars
    BY <1>5 DEF Provisioning, Teardown, PreflightPasses, PreflightFails, CreateLands,
                CreateFails, RollBackProbe, RollBackDestroys, RolledBack, RollBackFails,
                DestroyLands, DestroyFails, Place, Activate, Release
  <2> QED
    BY <1>1, <1>2, <1>4, <2>1
<1> QED
  BY <1>1, <1>3, <1>5 DEF Handle

\* The conditional UPDATE counts an attempt that was left.
LEMMA ClaimSpends ==
    ASSUME TypeInv, SweptInv, SpentInv, NEW w \in Workers, NEW l \in Leases,
           NEW queue \in {"provision", "teardown"}, Claim(w, l, queue)
    PROVE  SpentInv'
<1>0. StoreTypeOK /\ WorkerInv
  BY DEF TypeInv
<1>1. /\ at[w] = "idle" /\ Claimable(rows[l]) /\ rows[l] \in Row
      /\ rows[l].state \in (IF queue = "provision" THEN PROVISION_STATES ELSE TEARDOWN_STATES)
  BY <1>0 DEF Claim, StoreTypeOK
<1>2. Unheld(l)
  BY <1>1, NullsAssumption DEF SweptInv, AtWork, Claimable, Unheld, PROVISION_STATES,
                               TEARDOWN_STATES
<1>3. /\ rows'[l].attempts = rows[l].attempts + 1 /\ rows'[l].state = rows[l].state
      /\ \A k \in Leases : k # l => rows'[k] = rows[k]
      /\ faults' = faults
  BY <1>0 DEF Claim, StoreTypeOK, Row
<1>4. /\ at'[w] = "claimed" /\ held'[w] = l
      /\ \A v \in Workers : v # w => at'[v] = at[v] /\ held'[v] = held[v]
      /\ copy' = copy
  BY <1>0 DEF Claim, WorkerInv, WorkerTypeOK
<1>5. held[w] \notin Leases
  BY <1>1 DEF SweptInv, AtWork
<1>6. ASSUME NEW k \in Leases PROVE Budgeted(k)'
  <2>1. Budgeted(k) /\ Budget' = Budget /\ Budget \in Nat /\ faults' \in 0..faults
    BY <1>0, <1>3, BoundsAssumption DEF SpentInv, Budget, StoreTypeOK
  <2>2. CASE k = l
    <3>1. rows[l].attempts < Budget /\ rows[l].attempts \in Nat
      BY <1>1, <1>2, <2>1, <2>2 DEF Budgeted, Unheld, Row
    <3> QED
      BY <1>3, <1>4, <2>1, <2>2, <3>1 DEF Budgeted
  <2>3. CASE k # l
    <3>1. (\E v \in Workers : held[v] = k) => \E v \in Workers : held'[v] = k
      BY <1>4, <1>5
    <3> QED
      BY <1>0, <1>3, <2>1, <2>3, <3>1, RowSpends
  <2> QED
    BY <2>2, <2>3
<1>7. ASSUME NEW v \in Workers PROVE Counted(v)'
  BY <1>2, <1>3, <1>4 DEF SpentInv, Counted, Unheld
<1> QED
  BY <1>6, <1>7 DEF SpentInv

-----------------------------------------------------------------------------

\* A sweep closes leases and leaves the count alone.
LEMMA SweepSpends ==
    ASSUME TypeInv, SweptInv, SpentInv, ReconcilerNext, OfReconciler
    PROVE  SpentInv'
<1>0. StoreTypeOK /\ UNCHANGED workerVars /\ faults \in 0..faults
  BY BoundsAssumption DEF TypeInv, OfReconciler, StoreTypeOK
<1>1. CASE WriteDrift
  <2>1. /\ faults' = faults
        /\ \A l \in Leases : rows'[l] = IF l \in intended THEN Concluded(l) ELSE rows[l]
    BY <1>1 DEF WriteDrift
  <2>2. ASSUME NEW l \in Leases, l \in intended
        PROVE  rows'[l].attempts = rows[l].attempts /\ rows'[l].state \notin Queues
    <3> DEFINE mine == [reread[l].copy EXCEPT !.state = Target(l), !.claim = NoWorker,
                                              !.next = "none"]
    <3>1. rows[l] \in Row /\ reread[l].copy \in Copy /\ reread[l].copy.state \in LIVE_STATES
      BY <1>1, <2>2 DEF TypeInv, StoreTypeOK, ReconcilerTypeOK, Reread, SweptInv, Remembers,
                        WriteDrift
    <3>2. Concluded(l).state = Target(l)
      BY <3>1, ConcludedState
    <3>3. mine.attempts = reread[l].copy.attempts
      BY <3>1 DEF Copy
    <3>4. Concluded(l) = Flush(rows[l], reread[l].copy, mine)
      BY DEF Concluded
    <3> HIDE DEF mine
    <3>5. Concluded(l).attempts = rows[l].attempts
      BY <3>1, <3>3, <3>4, FlushColumns DEF Column
    <3> QED
      BY <2>1, <2>2, <3>2, <3>5 DEF Target, Queues, PROVISION_STATES, TEARDOWN_STATES,
                                    TEARDOWN_INTENT_STATES
  <2> QED
    BY <1>0, <2>1, <2>2, OthersSpend
<1>2. CASE TakeSnapshot \/ ListManaged \/ OrphansDone \/ RereadAll \/ SweepAborts
           \/ \E l \in Leases : DestroyOrphan(l) \/ Ask(l)
  <2>1. rows' = rows /\ faults' \in 0..faults
    BY <1>0, <1>2, BoundsAssumption
       DEF TakeSnapshot, ListManaged, OrphansDone, RereadAll, SweepAborts, DestroyOrphan, Ask,
           storeVars, StoreTypeOK
  <2> QED
    BY <1>0, <2>1, OthersSpend
<1> QED
  BY <1>1, <1>2 DEF ReconcilerNext, SweepProceeds

LEMMA SpentStep ==
    Orderly => (TypeInv /\ SweptInv /\ SpentInv /\ [Next]_vars => SpentInv')
<1> SUFFICES ASSUME Orderly, TypeInv, SweptInv, SpentInv, [Next]_vars PROVE SpentInv'
  OBVIOUS
<1>0. StoreTypeOK /\ faults \in 0..faults
  BY BoundsAssumption DEF TypeInv, StoreTypeOK
<1>1. CASE (ProviderNext /\ OfProvider) \/ UNCHANGED vars
  BY <1>0, <1>1, OthersSpend DEF OfProvider, vars, storeVars
<1>2. CASE (ServiceBegins /\ OfService /\ CallsQuiet) \/ (ServiceEnds /\ OfService)
  BY <1>0, <1>2, ServiceApart, ApartSpends DEF SweptInv
<1>3. CASE TickerNext /\ OfTicker
  BY <1>0, <1>3, TickerApart, ApartSpends DEF SweptInv
<1>4. CASE ClockNext /\ OfClock
  <2>1. /\ faults' = faults
        /\ \A l \in Leases : rows'[l].state = rows[l].state /\ rows'[l].attempts = rows[l].attempts
    BY <1>0, <1>4 DEF ClockNext, RetryFallsDue, DeadlineNears, RowMatures, ApprovalLapses,
                      StoreTypeOK, Row
  <2> QED
    BY <1>0, <1>4, <2>1, OthersSpend DEF OfClock
<1>5. CASE WorkerNext /\ OfWorker
  <2>1. ASSUME NEW l \in Leases, ClaimAges(l) PROVE SpentInv'
    <3>1. /\ UNCHANGED workerVars /\ faults' \in 0..faults
          /\ \A k \in Leases : rows'[k].state = rows[k].state
                               /\ rows'[k].attempts = rows[k].attempts
      BY <1>0, <2>1, BoundsAssumption DEF ClaimAges, StoreTypeOK, Row
    <3> QED
      BY <1>0, <3>1, OthersSpend
  <2> QED
    BY <1>5, <2>1, HandlerSpends, ClaimSpends DEF WorkerNext
<1>6. CASE ReconcilerNext /\ OfReconciler
  BY <1>6, SweepSpends
<1> QED
  BY <1>1, <1>2, <1>3, <1>4, <1>5, <1>6 DEF Next

\* The budget holds (worker.py _claim counts, _provision_failed, _teardown_failed
\* and _park settle): a lease is tried MaxAttempts times, and once more for each
\* fault that kept an attempt from being settled, whatever a sweep closes.
THEOREM BudgetKeptHolds ==
    ASSUME Orderly
    PROVE  Spec => []BudgetKept
<1>1. TypeInv /\ SweptInv /\ SpentInv /\ [Next]_vars => SpentInv'
  BY SpentStep
<1>2. SpentInv => BudgetKept
  BY DEF SpentInv, Budgeted, Budget, BudgetKept
<1> QED
  BY <1>1, <1>2, SpentInit, SweptInvariant, TypeInvInvariant, PTL DEF Spec

-----------------------------------------------------------------------------
(* A lease the reconciler frees has no resource.                           *)

\* Never asked of the provider, or gone for good.
Blank == {"absent", "awaiting_approval", "rejected", "released"}

\* What a sweep found gone may be made anew by the hand that has the lease, but
\* not if the lease was in use; and it is that one a sweep calls released.
FreedInv ==
    /\ wire = {}
    /\ \A l \in Leases :
          /\ rows[l].state \in Blank => l \notin resources
          /\ l \in intended /\ snap[l].activated => l \notin resources
    /\ \A w \in Workers : at[w] = "destroyed" => held[w] \notin resources

LEMMA FreedStep ==
    ASSUME TypeInv, TypeInv', SweptInv, FreedInv, Traffic, Turns, [Next]_vars,
           "late_create" \notin Events
    PROVE  FreedInv'
<1>1. wire' = {}
  BY DEF FreedInv, Traffic, Lingers, TypeInv, ProviderTypeOK
<1>2. ASSUME NEW l \in Leases, l \notin resources, l \in resources'
      PROVE  /\ rows[l].state \notin Blank /\ ~snap[l].activated
             /\ \A v \in Workers : held[v] = l => at[v] # "destroyed"
             /\ ~Unheld(l)
  <2>1. PICK w \in Workers : held[w] = l /\ at[w] = "creating"
    BY <1>2 DEF Traffic, Comes, FreedInv, Holds
  <2>2. rows[l].state \notin Blank /\ ~rows[l].activated
    BY <2>1 DEF SweptInv, AtWork, Blank, PROVISION_STATES
  <2>3. \A v \in Workers : held[v] = l => v = w
    BY <2>1 DEF SweptInv, AtWork
  <2>4. ~snap[l].activated
    BY <2>2 DEF SweptInv, Remembers
  <2> QED
    BY <2>1, <2>2, <2>3, <2>4 DEF Unheld
<1>3. ASSUME NEW l \in Leases, rows'[l].state \in Blank PROVE l \notin resources'
  <2>1. CASE Stays(l)
    BY <1>2, <1>3, <2>1 DEF FreedInv, Stays
  <2>2. CASE FromOutside(l)
    <3>1. rows[l].state \in Blank
      BY <1>3, <2>2 DEF FromOutside, Inserted, Moved, Blank, USABLE_STATES,
                        TEARDOWN_INTENT_STATES
    <3> QED
      BY <1>2, <3>1 DEF FreedInv
  <2>3. CASE \E w \in Workers : ByHand(w, l)
    BY <1>3, <2>3 DEF ByHand, Blank, FreedInv
  <2>4. CASE BySweep(l)
    BY <1>3, <2>4 DEF BySweep, Blank, Target, FreedInv
  <2> QED
    BY <2>1, <2>2, <2>3, <2>4 DEF Turns, Fate
<1>4. ASSUME NEW l \in Leases, l \in intended', snap'[l].activated PROVE l \notin resources'
  <2>1. CASE ReconcilerNext /\ OfReconciler
    <3>1. l \in intended \/ (l \notin resources /\ resources' = resources)
      BY <1>4, <2>1 DEF ReconcilerNext, SweepProceeds, TakeSnapshot, ListManaged,
         DestroyOrphan, OrphansDone, Ask, MaySay, RereadAll, WriteDrift, SweepAborts,
         Forgotten, providerVars
    <3>2. l \in intended => snap' = snap
      BY <1>4, <2>1 DEF SweptInv, Stages, ReconcilerNext, SweepProceeds, TakeSnapshot,
         ListManaged, DestroyOrphan, OrphansDone, Ask, RereadAll, WriteDrift, SweepAborts,
         Forgotten
    <3> QED
      BY <1>2, <1>4, <3>1, <3>2 DEF FreedInv
  <2>2. CASE UNCHANGED reconcilerVars
    BY <1>2, <1>4, <2>2 DEF reconcilerVars, FreedInv
  <2> QED
    BY <2>1, <2>2 DEF Next, vars, OfClock, OfProvider, OfWorker, OfService, OfTicker
<1>5. ASSUME NEW w \in Workers, at'[w] = "destroyed" PROVE held'[w] \notin resources'
  <2>1. CASE at[w] = "destroyed" /\ held'[w] = held[w]
    <3>1. held[w] \in Leases /\ held[w] \notin resources
      BY <2>1 DEF FreedInv, TypeInv, WorkerInv
    <3> QED
      BY <1>2, <2>1, <3>1
  <2>2. CASE ~(at[w] = "destroyed" /\ held'[w] = held[w])
    BY <1>5, <2>2 DEF Traffic, Arrives
  <2> QED
    BY <2>1, <2>2
<1> QED
  BY <1>1, <1>3, <1>4, <1>5 DEF FreedInv

\* The reconciler never frees a lease that still has a resource (reconciler.py
\* _apply_drift, _vanished_target), though it re-reads the row and not the
\* provider, and though a worker may have claimed the lease since it asked.
THEOREM ReleasedMeansGoneHolds ==
    ASSUME Orderly, "late_create" \notin Events
    PROVE  Spec => []ReleasedMeansGone
<1>1. Init => FreedInv
  <2>1. ASSUME Init PROVE resources = {} /\ wire = {}
    BY <2>1 DEF Init, ProviderInit
  <2> QED
    BY <2>1 DEF FreedInv
<1>2. /\ TypeInv /\ TypeInv' /\ SweptInv /\ FreedInv /\ [Next]_vars => FreedInv'
  BY TrafficStep, SweptStep, FreedStep
<1>3. FreedInv => ReleasedMeansGone
  BY DEF FreedInv, ReleasedMeansGone, Blank
<1> QED
  BY <1>1, <1>2, <1>3, SweptInvariant, TypeInvInvariant, PTL DEF Spec

-----------------------------------------------------------------------------
(* The orphan sweep spares the living.                                     *)

\* Closed, and in no hand that could write it back to life.
Buried(l) == rows[l].state \in TERMINAL_STATES /\ Unheld(l)

\* What is beyond the grace period under a closed lease belongs to a buried one,
\* and a lease that is buried stays so for as long as a sweep may take.
SparingInv ==
    \A l \in Leases :
       /\ rows[l].state \in {"absent", "awaiting_approval"} => l \notin resources \cup wire
       /\ rows[l].state \in TERMINAL_STATES /\ l \in aged => Unheld(l)
       /\ l \in condemned => Buried(l)
       /\ snap[l].aged /\ snap[l].state \in TERMINAL_STATES \cup {"absent"} => Buried(l)
       /\ l \in intended => l \notin aged

\* What is in a hand, or seen by a sweep, does not come of age.
Ages(l) ==
    l \notin aged /\ l \in aged' =>
        Unheld(l) /\ held' = held /\ sweep = "idle" /\ UNCHANGED reconcilerVars

LEMMA AgesStep ==
    ASSUME TypeInv, [Next]_vars, Events \cap {"claim_outlived", "slow_sweep"} = {}
    PROVE  \A l \in Leases : Ages(l)
<1>1. CASE (ProviderNext /\ OfProvider) \/ (ClockNext /\ OfClock)
  <2>1. AgesInOrder /\ UNCHANGED workerVars /\ UNCHANGED reconcilerVars
    BY <1>1 DEF OfProvider, OfClock
  <2> QED
    BY <2>1 DEF AgesInOrder, Ages, Unheld, workerVars
<1>2. CASE WorkerNext \/ (ReconcilerNext /\ OfReconciler)
  <2>1. aged' \subseteq aged
    BY <1>2 DEF WorkerNext, Claim, ClaimAges, Handle, Abandon, Begin, BeginUnavailable,
       BeginProvision, BeginTeardown, Park, Provisioning, PreflightPasses, PreflightFails,
       CreateLands, Create, CreateFails, GiveUpOnCreate, Activate, RollBackProbe,
       RollBackDestroys, Destroy, RolledBack, RollBackFails, Teardown, DestroyLands, Release,
       DestroyFails, RefusedMove, ReconcilerNext, SweepProceeds, TakeSnapshot, ListManaged,
       DestroyOrphan, OrphansDone, Ask, RereadAll, WriteDrift, SweepAborts, providerVars
  <2> QED
    BY <2>1 DEF Ages
<1>3. CASE UNCHANGED providerVars
  BY <1>3 DEF providerVars, Ages
<1> QED
  BY <1>1, <1>2, <1>3 DEF Next, vars, OfService, OfTicker

LEMMA BuriedStays ==
    ASSUME SweptInv, Turns, NEW l \in Leases, Buried(l)
    PROVE  Buried(l)'
<1>1. rows'[l].state \in TERMINAL_STATES
  BY DEF Turns, Fate, Stays, FromOutside, Inserted, Moved, ByHand, BySweep, Target, Buried,
         Unheld, TERMINAL_STATES, PROVISION_STATES, TEARDOWN_STATES, USABLE_STATES
<1>2. ASSUME NEW w \in Workers PROVE held'[w] # l
  BY NullsAssumption DEF Turns, Grasps, Buried, Unheld, TERMINAL_STATES, PROVISION_STATES,
                         TEARDOWN_STATES
<1> QED
  BY <1>1, <1>2 DEF Buried, Unheld

LEMMA SparingStep ==
    ASSUME TypeInv, TypeInv', SweptInv, SparingInv, Traffic, Turns, [Next]_vars,
           \A l \in Leases : Ages(l), "undated" \notin Events
    PROVE  SparingInv'
<1> SUFFICES ASSUME NEW l \in Leases
             PROVE  /\ rows'[l].state \in {"absent", "awaiting_approval"} =>
                          l \notin resources' \cup wire'
                    /\ rows'[l].state \in TERMINAL_STATES /\ l \in aged' => Unheld(l)'
                    /\ l \in condemned' => Buried(l)'
                    /\ snap'[l].aged /\ snap'[l].state \in TERMINAL_STATES \cup {"absent"}
                       => Buried(l)'
                    /\ l \in intended' => l \notin aged'
  BY DEF SparingInv
<1>0. Fate(l) /\ Ages(l)
  BY DEF Turns
<1>1. ASSUME rows'[l].state \in {"absent", "awaiting_approval"}
      PROVE  l \notin resources' \cup wire'
  <2>1. rows[l].state \in {"absent", "awaiting_approval"}
    BY <1>0, <1>1 DEF Fate, Stays, FromOutside, Inserted, Moved, ByHand, BySweep, Target,
                      USABLE_STATES, TEARDOWN_INTENT_STATES
  <2>2. Unheld(l)
    BY <2>1 DEF SweptInv, AtWork, Unheld, PROVISION_STATES, TEARDOWN_STATES
  <2> QED
    BY <2>1, <2>2 DEF SparingInv, Traffic, Comes, Lingers, Holds, Unheld
<1>2. ASSUME rows'[l].state \in TERMINAL_STATES, l \in aged'
      PROVE  Unheld(l)'
  <2>1. CASE l \notin aged
    BY <1>0, <1>2, <2>1 DEF Ages, Unheld
  <2>2. CASE l \in aged /\ Stays(l)
    <3>1. Buried(l)
      BY <1>2, <2>2 DEF SparingInv, Stays, Buried
    <3> QED
      BY <3>1, BuriedStays DEF Buried
  <2>3. CASE FromOutside(l)
    BY <2>3 DEF FromOutside, Unheld
  <2>4. CASE \E w \in Workers : ByHand(w, l)
    <3>1. PICK w \in Workers : ByHand(w, l)
      BY <2>4
    <3>2. \A v \in Workers : held[v] = l => v = w
      BY <3>1 DEF ByHand, SweptInv, AtWork
    <3> QED
      BY <3>1, <3>2, NullsAssumption DEF ByHand, Unheld
  <2>5. CASE BySweep(l) /\ l \in aged
    BY <2>5 DEF BySweep, SparingInv
  <2> QED
    BY <1>0, <2>1, <2>2, <2>3, <2>4, <2>5 DEF Fate
<1>3. CASE UNCHANGED reconcilerVars
  <2>1. l \in intended' => l \notin aged'
    BY <1>0, <1>3 DEF SparingInv, Ages, SweptInv, Stages, reconcilerVars
  <2>2. /\ l \in condemned' => Buried(l)
        /\ snap'[l].aged /\ snap'[l].state \in TERMINAL_STATES \cup {"absent"} => Buried(l)
    BY <1>3 DEF SparingInv, reconcilerVars
  <2> QED
    BY <1>1, <1>2, <2>1, <2>2, BuriedStays
<1>4. CASE ReconcilerNext /\ OfReconciler
  <2>0. aged' \subseteq aged
    BY <1>4 DEF ReconcilerNext, SweepProceeds, TakeSnapshot, ListManaged, DestroyOrphan,
                Destroy, OrphansDone, Ask, RereadAll, WriteDrift, SweepAborts, providerVars
  <2>1. l \in intended' => l \notin aged'
    <3>1. l \in intended' => l \in intended \/ l \notin resources
      BY <1>4 DEF ReconcilerNext, SweepProceeds, TakeSnapshot, ListManaged, DestroyOrphan,
                  OrphansDone, Ask, MaySay, RereadAll, WriteDrift, SweepAborts, Forgotten
    <3> QED
      BY <2>0, <3>1 DEF SparingInv, TypeInv, ProviderTypeOK
  <2>2. l \in condemned' =>
          \/ l \in condemned
          \/ snap[l].aged /\ snap[l].state \in TERMINAL_STATES \cup {"absent"}
    BY <1>4 DEF ReconcilerNext, SweepProceeds, TakeSnapshot, ListManaged, Undated, IsOrphan,
                PastGrace, DestroyOrphan, OrphansDone, Ask, RereadAll, WriteDrift, SweepAborts, Forgotten
  <2>3. CASE TakeSnapshot
    <3>1. snap'[l].aged = (l \in aged) /\ snap'[l].state = rows[l].state
      BY <2>3 DEF TakeSnapshot
    <3>2. l \in aged /\ rows[l].state \in TERMINAL_STATES \cup {"absent"} => Buried(l)
      BY DEF SparingInv, TypeInv, ProviderTypeOK, Buried
    <3> QED
      BY <1>1, <1>2, <2>1, <2>2, <3>1, <3>2, BuriedStays DEF SparingInv
  <2>4. CASE ~TakeSnapshot
    <3>1. snap'[l] = snap[l] \/ snap'[l] = NoSnapshot
      BY <1>4, <2>4 DEF ReconcilerNext, SweepProceeds, ListManaged, DestroyOrphan,
                        OrphansDone, Ask, RereadAll, WriteDrift, SweepAborts, Forgotten
    <3>2. ~NoSnapshot.aged
      BY DEF NoSnapshot
    <3>3. snap'[l].aged /\ snap'[l].state \in TERMINAL_STATES \cup {"absent"} => Buried(l)
      BY <3>1, <3>2 DEF SparingInv
    <3> QED
      BY <1>1, <1>2, <2>1, <2>2, <3>3, BuriedStays DEF SparingInv
  <2> QED
    BY <2>3, <2>4
<1> QED
  BY <1>3, <1>4 DEF Next, vars, OfClock, OfProvider, OfWorker, OfService, OfTicker

\* The orphan sweep (reconciler.py _classify, _maybe_destroy) acts on an old
\* snapshot and an older list, and yet never destroys a resource whose lease is
\* still running, even where a sweep has closed a lease a worker had claimed and
\* the worker wrote it back to life.
THEOREM SweepSparesTheLivingHolds ==
    ASSUME Orderly, Events \cap {"slow_sweep", "undated"} = {}
    PROVE  Spec => SweepSparesTheLiving
<1>1. Init => SparingInv
  <2>1. ASSUME Init
        PROVE  /\ resources = {} /\ wire = {} /\ aged = {} /\ condemned = {} /\ intended = {}
               /\ \A l \in Leases : snap[l].aged = FALSE
    BY <2>1 DEF Init, ProviderInit, ReconcilerInit, NoSnapshot
  <2> QED
    BY <2>1 DEF SparingInv
<1>2. TypeInv /\ TypeInv' /\ SweptInv /\ SparingInv /\ [Next]_vars => SparingInv'
  <2>1. Events \cap {"claim_outlived", "slow_sweep"} = {} /\ "undated" \notin Events
    BY DEF Orderly
  <2> QED
    BY <2>1, TrafficStep, SweptStep, AgesStep, SparingStep
<1>3. SparingInv =>
        [\A l \in Leases : DestroyOrphan(l) /\ l \notin resources' =>
             rows[l].state \in TERMINAL_STATES]_vars
  BY DEF SparingInv, DestroyOrphan, Buried
<1> QED
  BY <1>1, <1>2, <1>3, SweptInvariant, TypeInvInvariant, PTL DEF Spec, SweepSparesTheLiving

=============================================================================
