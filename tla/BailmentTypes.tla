---------------------------- MODULE BailmentTypes ----------------------------
(***************************************************************************)
(* What holds of Bailment for every set of leases, workers and callers,    *)
(* every budget and every choice of what overlaps with what.               *)
(***************************************************************************)
EXTENDS Bailment, TLAPS

-----------------------------------------------------------------------------
(* Sessions: what they load and what they leave behind is well formed.     *)

\* What a session may commit over what it loaded: "kept" is nothing that can be
\* assigned, so a copy shows it only if it was loaded.
Committable(loaded, mine) ==
    /\ loaded \in Copy /\ mine \in Copy
    /\ mine.next = "kept" => loaded.next = "kept"
    /\ mine.state = "absent" => loaded.state = "absent"

\* What every step but a new request leaves of a row: the verdict of the policy,
\* and that it was inserted.
Kept(l) ==
    /\ rows'[l].effect = rows[l].effect
    /\ rows'[l].state = "absent" => rows[l].state = "absent"

StoreStep == StoreTypeOK' /\ \A l \in Leases : Kept(l)

\* A SELECT yields a copy (db.py session, View).
LEMMA ViewIsCopy ==
    ASSUME NEW row \in Row
    PROVE  View(row) \in Copy
  BY DEF Row, Copy, View

\* A commit leaves a well-formed row, whatever happened to it meanwhile (Flush).
LEMMA FlushIsRow ==
    ASSUME NEW row \in Row, NEW loaded, NEW mine, Committable(loaded, mine)
    PROVE  /\ Flush(row, loaded, mine) \in Row
           /\ Flush(row, loaded, mine).effect = row.effect
           /\ Flush(row, loaded, mine).state = Column(loaded.state, mine.state, row.state)
           /\ Flush(row, loaded, mine).state = "absent" => row.state = "absent"
<1> DEFINE state    == Column(loaded.state, mine.state, row.state)
           claim    == Column(loaded.claim, mine.claim, row.claim)
           stale    == mine.claim = loaded.claim /\ row.stale
           attempts == Column(loaded.attempts, mine.attempts, row.attempts)
           next     == Column(loaded.next, mine.next, row.next)
           warned   == Column(loaded.warned, mine.warned, row.warned)
           renewals == Column(loaded.renewals, mine.renewals, row.renewals)
<1>1. /\ state \in LeaseState \cup {"absent"} /\ claim \in Workers \cup {NoWorker}
      /\ attempts \in Nat /\ warned \in BOOLEAN /\ renewals \in Nat
  BY DEF Committable, Copy, Row, Column
<1>2. next \in {"none", "due", "later"}
  BY DEF Committable, Copy, Row, Column
<1>3. stale \in BOOLEAN
  OBVIOUS
<1>4. Flush(row, loaded, mine) =
        [row EXCEPT !.state = state, !.claim = claim, !.stale = stale,
                    !.attempts = attempts, !.next = next,
                    !.warned = warned, !.renewals = renewals]
  BY DEF Flush
<1>6. state = "absent" => row.state = "absent"
  BY DEF Committable, Column
<1> HIDE DEF state, claim, stale, attempts, next, warned, renewals
<1>5. [row EXCEPT !.state = state, !.claim = claim, !.stale = stale,
                  !.attempts = attempts, !.next = next,
                  !.warned = warned, !.renewals = renewals] \in Row
  BY <1>1, <1>2, <1>3 DEF Row
<1>7. LET written == [row EXCEPT !.state = state, !.claim = claim, !.stale = stale,
                                 !.attempts = attempts, !.next = next,
                                 !.warned = warned, !.renewals = renewals]
      IN  written.effect = row.effect /\ written.state = state
  BY DEF Row
<1>8. Flush(row, loaded, mine).state = state
  BY <1>4, <1>7, Zenon
<1>9. Flush(row, loaded, mine) \in Row /\ Flush(row, loaded, mine).effect = row.effect
  BY <1>4, <1>5, <1>7, Zenon
<1> QED
  BY <1>6, <1>8, <1>9 DEF state

\* ... column by column: mine where the session changed it, else theirs; and the
\* columns no session of a handler or of a call assigns through its copy.
LEMMA FlushColumns ==
    ASSUME NEW row \in Row, NEW loaded, NEW mine
    PROVE  /\ Flush(row, loaded, mine).state = Column(loaded.state, mine.state, row.state)
           /\ Flush(row, loaded, mine).claim = Column(loaded.claim, mine.claim, row.claim)
           /\ Flush(row, loaded, mine).stale = (mine.claim = loaded.claim /\ row.stale)
           /\ Flush(row, loaded, mine).attempts
                = Column(loaded.attempts, mine.attempts, row.attempts)
           /\ Flush(row, loaded, mine).next = Column(loaded.next, mine.next, row.next)
           /\ Flush(row, loaded, mine).effect = row.effect
           /\ Flush(row, loaded, mine).deadline = row.deadline
           /\ Flush(row, loaded, mine).activated = row.activated
           /\ Flush(row, loaded, mine).age = row.age
  BY DEF Flush, Row

\* The columns an activation assigns anew, and those it leaves to its copy.
LEMMA StartedColumns ==
    ASSUME NEW row \in Row
    PROVE  /\ Started(row) \in Row
           /\ Started(row).activated = TRUE /\ Started(row).deadline = "ahead"
           /\ Started(row).state = row.state /\ Started(row).effect = row.effect
           /\ Started(row).attempts = row.attempts
<1> DEFINE age == IF row.age = "old" THEN "young" ELSE row.age
<1>1. age \in {"new", "young", "old"}
  BY DEF Row
<1>2. Started(row) = [row EXCEPT !.activated = TRUE, !.deadline = "ahead", !.age = age]
  BY DEF Started
<1> HIDE DEF age
<1> QED
  BY <1>1, <1>2 DEF Row

\* queue_for_provisioning and queue_for_teardown keep a copy a copy.
LEMMA QueuedIsCopy ==
    ASSUME NEW c \in Copy
    PROVE  Queued(c) \in Copy /\ Queued(c).next = "due" /\ Queued(c).state = c.state
  BY DEF Copy, Queued

\* The copy a closed session leaves is the empty one.
LEMMA NoCopyIsCopy == NoCopy \in Copy
  BY DEF NoCopy, Copy

-----------------------------------------------------------------------------
(* Type correctness.  TypeOK alone is not inductive: a handler under way has *)
(* a lease in hand, a call under way names one, and what the ticker is about *)
(* to commit can be committed.                                             *)

WorkerInv ==
    /\ WorkerTypeOK
    /\ \A w \in Workers : at[w] # "idle" => held[w] \in Leases

ServiceInv ==
    /\ ServiceTypeOK
    /\ \A c \in Callers : call[c].op # "none" => call[c].lease \in Leases

TickerInv ==
    /\ TickerTypeOK
    /\ \A l \in Leases : Committable(plan[l].loaded, plan[l].mine)

TypeInv ==
    /\ StoreTypeOK /\ ProviderTypeOK /\ WorkerInv
    /\ ServiceInv /\ TickerInv /\ ReconcilerTypeOK

LEMMA TypeInvInit == Init => TypeInv
<1> SUFFICES ASSUME Init PROVE TypeInv
  OBVIOUS
<1>1. StoreTypeOK
  BY BoundsAssumption DEF Init, StoreInit, StoreTypeOK, NoRow, Row, Binding, ApprovalStatus
<1>2. ProviderTypeOK
  BY DEF Init, ProviderInit, ProviderTypeOK
<1>3. WorkerInv
  BY NoCopyIsCopy DEF Init, WorkerInit, WorkerInv, WorkerTypeOK, Place
<1>4. ServiceInv
  BY NoCopyIsCopy DEF Init, ServiceInit, ServiceInv, ServiceTypeOK, NoCall
<1>5. TickerInv
  BY NoCopyIsCopy DEF Init, TickerInit, TickerInv, TickerTypeOK, Plan, NoPlan, Committable
<1>6. ReconcilerTypeOK
  BY NoCopyIsCopy DEF Init, ReconcilerInit, ReconcilerTypeOK, Snapshot, NoSnapshot,
                      Reread, NoReread
<1> QED
  BY <1>1, <1>2, <1>3, <1>4, <1>5, <1>6 DEF TypeInv

\* One row committed leaves a well-formed table.
LEMMA RowCommitted ==
    ASSUME StoreTypeOK, NEW l \in Leases, NEW loaded, NEW mine,
           Committable(loaded, mine),
           rows' = [rows EXCEPT ![l] = Flush(@, loaded, mine)]
    PROVE  rows' \in [Leases -> Row] /\ \A k \in Leases : Kept(k)
  BY FlushIsRow DEF StoreTypeOK, Kept

\* Closing a session, or going on to the next await, keeps the handlers typed.
LEMMA DoneTyped ==
    ASSUME WorkerInv, NEW w \in Workers, Done(w)
    PROVE  WorkerInv'
  BY NoCopyIsCopy DEF WorkerInv, WorkerTypeOK, Done, Place

LEMMA GotoTyped ==
    ASSUME WorkerInv, NEW w \in Workers, NEW place \in Place,
           at[w] # "idle", Goto(w, place)
    PROVE  WorkerInv'
  BY DEF WorkerInv, WorkerTypeOK, Goto, Place

\* ... and so does the commit at the end of a handler.
LEMMA SettleTyped ==
    ASSUME StoreTypeOK, WorkerInv, NEW w \in Workers, NEW mine,
           at[w] # "idle", Committable(copy[w], mine), Settle(w, mine)
    PROVE  /\ WorkerInv' /\ rows' \in [Leases -> Row] /\ \A l \in Leases : Kept(l)
           /\ UNCHANGED <<approval, approvals, faults>>
<1>1. held[w] \in Leases
  BY DEF WorkerInv
<1>2. rows' \in [Leases -> Row] /\ \A l \in Leases : Kept(l)
  BY <1>1, RowCommitted DEF Settle
<1> QED
  BY <1>2, DoneTyped DEF Settle

\* What a handler may commit over its copy: a state and a next_attempt_at of
\* its own choosing, and an attempt handed back.
LEMMA CopyCommittable ==
    ASSUME NEW c \in Copy, NEW state \in LeaseState, NEW next \in {"none", "later"}
    PROVE  Committable(c, [c EXCEPT !.state = state, !.claim = NoWorker, !.next = next])
  BY DEF Copy, Committable, LeaseState

LEMMA MineIsState ==
    ASSUME WorkerInv, NEW w \in Workers
    PROVE  /\ Mine(w) \in LeaseState \cup {"absent"}
           /\ Mine(w) = "absent" => copy[w].state = "absent"
  BY DEF WorkerInv, WorkerTypeOK, Mine, Copy, LeaseState

\* The ends of a handler that write the bindings table nothing.
LEMMA EndsTyped ==
    ASSUME StoreTypeOK, WorkerInv, NEW w \in Workers, at[w] # "idle",
           BackOff(w) \/ Fail(w) \/ Orphan(w)
    PROVE  StoreStep /\ WorkerInv'
<1>1. copy[w] \in Copy
  BY DEF WorkerInv, WorkerTypeOK
<1>2. CASE BackOff(w)
  <2> DEFINE mine == [copy[w] EXCEPT !.state = Mine(w), !.claim = NoWorker, !.next = "later"]
  <2>1. Committable(copy[w], mine)
    BY <1>1, MineIsState DEF Committable, Copy
  <2>2. Settle(w, mine) /\ UNCHANGED bindings
    BY <1>2 DEF BackOff
  <2> QED
    BY <2>1, <2>2, SettleTyped DEF StoreTypeOK, StoreStep
<1>3. CASE Fail(w)
  <2> DEFINE mine == [copy[w] EXCEPT !.state = "failed", !.claim = NoWorker, !.next = "none"]
  <2>1. Committable(copy[w], mine)
    BY <1>1, CopyCommittable DEF LeaseState
  <2>2. Settle(w, mine) /\ UNCHANGED bindings
    BY <1>3 DEF Fail
  <2> QED
    BY <2>1, <2>2, SettleTyped DEF StoreTypeOK, StoreStep
<1>4. CASE Orphan(w)
  <2> DEFINE mine == [copy[w] EXCEPT !.state = "orphaned", !.claim = NoWorker, !.next = "none"]
  <2>1. Committable(copy[w], mine)
    BY <1>1, CopyCommittable DEF LeaseState
  <2>2. Settle(w, mine) /\ UNCHANGED bindings
    BY <1>4 DEF Orphan
  <2> QED
    BY <2>1, <2>2, SettleTyped DEF StoreTypeOK, StoreStep
<1> QED
  BY <1>2, <1>3, <1>4

LEMMA ProviderCallTyped ==
    ASSUME ProviderTypeOK, NEW l \in Leases,
           Create(l) \/ Destroy(l) \/ GiveUpOnCreate(l) \/ UNCHANGED providerVars
    PROVE  ProviderTypeOK'
  BY DEF ProviderTypeOK, Create, Destroy, GiveUpOnCreate, providerVars

LEMMA LoadTyped ==
    ASSUME StoreTypeOK, WorkerInv, NEW w \in Workers, NEW place \in Place,
           Load(w), at' = [at EXCEPT ![w] = place], UNCHANGED <<held, task>>
    PROVE  WorkerInv'
<1>1. held[w] \in Leases
  BY DEF Load, WorkerInv
<1>2. View(rows[held[w]]) \in Copy /\ bindings[held[w]].open \in SUBSET Nat
  BY <1>1, ViewIsCopy DEF StoreTypeOK, Binding
<1> QED
  BY <1>1, <1>2 DEF Load, WorkerInv, WorkerTypeOK, Place

LEMMA ClaimTyped ==
    ASSUME StoreTypeOK, WorkerInv, NEW w \in Workers, NEW l \in Leases,
           NEW queue \in {"provision", "teardown"}, Claim(w, l, queue)
    PROVE  StoreStep /\ WorkerInv'
<1>1. rows' \in [Leases -> Row]
  BY DEF Claim, StoreTypeOK, Row
<1>2. StoreStep
  BY <1>1 DEF Claim, StoreTypeOK, StoreStep, Kept
<1>3. WorkerInv'
  BY DEF Claim, WorkerInv, WorkerTypeOK, Place
<1> QED
  BY <1>2, <1>3

LEMMA BeginTyped ==
    ASSUME StoreTypeOK, WorkerInv, NEW w \in Workers, Begin(w)
    PROVE  StoreStep /\ WorkerInv' /\ UNCHANGED providerVars
<1>1. CASE BeginUnavailable(w)
  <2>1. WorkerInv'
    BY <1>1, LoadTyped DEF BeginUnavailable, Place
  <2>2. StoreStep
    BY <1>1, BoundsAssumption DEF BeginUnavailable, OnlyBudget, StoreTypeOK, StoreStep, Kept
  <2> QED
    BY <1>1, <2>1, <2>2 DEF BeginUnavailable
<1>2. CASE BeginProvision(w)
  <2> DEFINE place == IF rows[held[w]].state = "pending" THEN "preflight" ELSE "creating"
  <2>1. place \in Place
    BY DEF Place
  <2>2. /\ Load(w) /\ at' = [at EXCEPT ![w] = place]
        /\ UNCHANGED <<held, task, storeVars, providerVars>>
    BY <1>2 DEF BeginProvision
  <2> HIDE DEF place
  <2>3. WorkerInv'
    BY <2>1, <2>2, LoadTyped
  <2> QED
    BY <2>2, <2>3 DEF StoreTypeOK, StoreStep, Kept, storeVars
<1>3. CASE BeginTeardown(w)
  <2>1. WorkerInv'
    BY <1>3, LoadTyped DEF BeginTeardown, Place
  <2> QED
    BY <1>3, <2>1 DEF BeginTeardown, StoreTypeOK, StoreStep, Kept, storeVars
<1> QED
  BY <1>1, <1>2, <1>3 DEF Begin

LEMMA ActivateTyped ==
    ASSUME StoreTypeOK, WorkerInv, NEW w \in Workers, Activate(w)
    PROVE  StoreStep /\ WorkerInv' /\ UNCHANGED providerVars
<1> DEFINE mine == [copy[w] EXCEPT !.state = "active", !.claim = NoWorker,
                                   !.next = "none", !.attempts = 0, !.warned = FALSE]
           flushed == Flush(rows[held[w]], copy[w], mine)
<1>1. held[w] \in Leases /\ copy[w] \in Copy
  BY DEF Activate, WorkerInv, WorkerTypeOK
<1>2. Committable(copy[w], mine)
  BY <1>1 DEF Committable, Copy, LeaseState
<1>3. /\ flushed \in Row /\ flushed.effect = rows[held[w]].effect
      /\ flushed.state = "absent" => rows[held[w]].state = "absent"
  BY <1>1, <1>2, FlushIsRow DEF StoreTypeOK
<1>4. rows' = [rows EXCEPT ![held[w]] = Started(flushed)]
  BY <1>1 DEF Activate, StoreTypeOK
<1> HIDE DEF flushed
<1>5. rows' \in [Leases -> Row] /\ \A l \in Leases : Kept(l)
  BY <1>1, <1>3, <1>4, StartedColumns DEF StoreTypeOK, Kept
<1>6. bindings' \in [Leases -> Binding]
  BY <1>1 DEF Activate, StoreTypeOK, Binding
<1>7. WorkerInv'
  BY DoneTyped DEF Activate
<1> QED
  BY <1>5, <1>6, <1>7 DEF Activate, StoreTypeOK, StoreStep

LEMMA ProvisioningTyped ==
    ASSUME StoreTypeOK, ProviderTypeOK, WorkerInv, NEW w \in Workers, Provisioning(w)
    PROVE  StoreStep /\ ProviderTypeOK' /\ WorkerInv'
<1>0. at[w] # "idle" /\ held[w] \in Leases
  BY DEF Provisioning, PreflightPasses, PreflightFails, CreateLands, CreateFails,
         Activate, RollBackProbe, RollBackDestroys, RolledBack, RollBackFails, WorkerInv
<1>a. UNCHANGED storeVars => StoreStep
  BY DEF StoreTypeOK, StoreStep, Kept, storeVars
<1>b. UNCHANGED providerVars => ProviderTypeOK'
  BY DEF ProviderTypeOK, providerVars
<1>c. ASSUME NEW place \in Place, Goto(w, place) PROVE WorkerInv'
  BY <1>0, <1>c, GotoTyped
<1>1. CASE PreflightPasses(w)
  BY <1>1, <1>a, <1>b, <1>c DEF PreflightPasses, Place
<1>2. CASE PreflightFails(w)
  BY <1>2, <1>0, <1>b, EndsTyped DEF PreflightFails
<1>3. CASE CreateLands(w)
  BY <1>3, <1>0, <1>a, <1>c, ProviderCallTyped DEF CreateLands, Place
<1>4. CASE CreateFails(w)
  <2>1. ProviderTypeOK'
    BY <1>4, <1>0, ProviderCallTyped DEF CreateFails
  <2>2. StoreStep /\ WorkerInv'
    BY <1>4, <1>0, <1>a, <1>c, EndsTyped DEF CreateFails, Place
  <2> QED
    BY <2>1, <2>2
<1>5. CASE Activate(w)
  BY <1>5, <1>b, ActivateTyped
<1>6. CASE RollBackProbe(w)
  BY <1>6, <1>0, <1>a, <1>b, <1>c, EndsTyped DEF RollBackProbe, Place
<1>7. CASE RollBackDestroys(w)
  BY <1>7, <1>0, <1>a, <1>c, ProviderCallTyped DEF RollBackDestroys, Place
<1>8. CASE RolledBack(w)
  BY <1>8, <1>0, <1>b, EndsTyped DEF RolledBack
<1>9. CASE RollBackFails(w)
  BY <1>9, <1>0, <1>b, EndsTyped DEF RollBackFails
<1> QED
  BY <1>1, <1>2, <1>3, <1>4, <1>5, <1>6, <1>7, <1>8, <1>9 DEF Provisioning

LEMMA TeardownTyped ==
    ASSUME StoreTypeOK, ProviderTypeOK, WorkerInv, NEW w \in Workers, Teardown(w)
    PROVE  StoreStep /\ ProviderTypeOK' /\ WorkerInv'
<1>0. at[w] # "idle" /\ held[w] \in Leases
  BY DEF Teardown, DestroyLands, Release, DestroyFails, WorkerInv
<1>b. UNCHANGED providerVars => ProviderTypeOK'
  BY DEF ProviderTypeOK, providerVars
<1>1. CASE DestroyLands(w)
  BY <1>1, <1>0, GotoTyped, ProviderCallTyped DEF DestroyLands, Place, StoreTypeOK, StoreStep, Kept, storeVars
<1>2. CASE Release(w)
  <2> DEFINE mine == [copy[w] EXCEPT !.state = "released", !.claim = NoWorker, !.next = "none"]
  <2>1. Committable(copy[w], mine)
    BY CopyCommittable DEF WorkerInv, WorkerTypeOK, LeaseState
  <2>2. Settle(w, mine)
    BY <1>2 DEF Release
  <2>3. bindings' \in [Leases -> Binding]
    BY <1>0, <1>2 DEF Release, StoreTypeOK, Binding
  <2> QED
    BY <1>0, <1>2, <1>b, <2>1, <2>2, <2>3, SettleTyped DEF Release, StoreTypeOK, StoreStep, Kept
<1>3. CASE DestroyFails(w)
  BY <1>3, <1>0, <1>b, EndsTyped DEF DestroyFails
<1> QED
  BY <1>1, <1>2, <1>3 DEF Teardown

LEMMA AbandonTyped ==
    ASSUME StoreTypeOK, ProviderTypeOK, WorkerInv, NEW w \in Workers, Abandon(w)
    PROVE  StoreStep /\ ProviderTypeOK' /\ WorkerInv'
<1>1. StoreStep
  BY BoundsAssumption DEF Abandon, OnlyBudget, StoreTypeOK, StoreStep, Kept
<1>2. WorkerInv'
  BY DoneTyped DEF Abandon
<1>3. held[w] \in Leases
  BY DEF Abandon, WorkerInv
<1>4. ProviderTypeOK'
  BY <1>3, ProviderCallTyped DEF Abandon
<1> QED
  BY <1>1, <1>2, <1>4

LEMMA ParkTyped ==
    ASSUME StoreTypeOK, WorkerInv, NEW w \in Workers, Park(w)
    PROVE  StoreStep /\ WorkerInv'
<1> DEFINE mine == [copy[w] EXCEPT !.attempts = IF @ = 0 THEN 0 ELSE @ - 1,
                                   !.claim = NoWorker, !.next = "later"]
<1>1. at[w] # "idle" /\ copy[w] \in Copy
  BY DEF Park, WorkerInv, WorkerTypeOK
<1>2. (IF copy[w].attempts = 0 THEN 0 ELSE copy[w].attempts - 1) \in Nat
  BY <1>1 DEF Copy
<1>3. mine \in Copy /\ mine.next = "later" /\ mine.state = copy[w].state
  BY <1>1, <1>2 DEF Copy
<1>4. Settle(w, mine) /\ UNCHANGED bindings
  BY DEF Park
<1> QED
  BY <1>1, <1>3, <1>4, SettleTyped DEF StoreTypeOK, StoreStep, Committable

LEMMA ClaimAgesTyped ==
    ASSUME StoreTypeOK, NEW l \in Leases, ClaimAges(l)
    PROVE  StoreStep
<1>0. [rows[l] EXCEPT !.stale = TRUE] \in Row
  <2>1. \A row \in Row : [row EXCEPT !.stale = TRUE] \in Row
    BY DEF Row
  <2> QED
    BY <2>1 DEF StoreTypeOK
<1>1. rows' \in [Leases -> Row]
  BY <1>0 DEF ClaimAges, StoreTypeOK
<1>2. faults' \in 0..MaxFaults
  BY BoundsAssumption DEF ClaimAges, StoreTypeOK
<1> QED
  BY <1>1, <1>2 DEF ClaimAges, StoreTypeOK, StoreStep, Kept

LEMMA WorkerTyped ==
    ASSUME StoreTypeOK, ProviderTypeOK, WorkerInv, WorkerNext
    PROVE  StoreStep /\ ProviderTypeOK' /\ WorkerInv'
<1>a. UNCHANGED storeVars => StoreStep
  BY DEF StoreTypeOK, StoreStep, Kept, storeVars
<1>b. UNCHANGED providerVars => ProviderTypeOK'
  BY DEF ProviderTypeOK, providerVars
<1>1. ASSUME NEW w \in Workers, NEW l \in Leases,
             NEW queue \in {"provision", "teardown"}, Claim(w, l, queue)
      PROVE  StoreStep /\ ProviderTypeOK' /\ WorkerInv'
  BY <1>1, <1>b, ClaimTyped DEF Claim
<1>2. ASSUME NEW w \in Workers, Handle(w)
      PROVE  StoreStep /\ ProviderTypeOK' /\ WorkerInv'
  <2>1. CASE Begin(w)
    BY <2>1, <1>b, BeginTyped
  <2>2. CASE Park(w)
    BY <2>2, <1>b, ParkTyped DEF Park
  <2>3. CASE Provisioning(w)
    BY <2>3, ProvisioningTyped
  <2>4. CASE Teardown(w)
    BY <2>4, TeardownTyped
  <2>5. CASE RefusedMove(w)
    BY <2>5, <1>a, <1>b, DoneTyped DEF RefusedMove
  <2> QED
    BY <1>2, <2>1, <2>2, <2>3, <2>4, <2>5 DEF Handle
<1>3. ASSUME NEW w \in Workers, Abandon(w)
      PROVE  StoreStep /\ ProviderTypeOK' /\ WorkerInv'
  BY <1>3, AbandonTyped
<1>4. ASSUME NEW l \in Leases, ClaimAges(l)
      PROVE  StoreStep /\ ProviderTypeOK' /\ WorkerInv'
  BY <1>4, <1>b, ClaimAgesTyped DEF ClaimAges, workerVars, WorkerInv, WorkerTypeOK
<1> QED
  BY <1>1, <1>2, <1>3, <1>4 DEF WorkerNext

LEMMA ClockTyped ==
    ASSUME StoreTypeOK, ClockNext
    PROVE  StoreStep
<1> SUFFICES ASSUME NEW l \in Leases,
                    RetryFallsDue(l) \/ DeadlineNears(l) \/ RowMatures(l) \/ ApprovalLapses(l)
             PROVE  StoreStep
  BY DEF ClockNext
<1>1. CASE RetryFallsDue(l)
  BY <1>1 DEF RetryFallsDue, StoreTypeOK, StoreStep, Kept, Row
<1>2. CASE DeadlineNears(l)
  <2>1. PICK deadline \in {"near", "past"} :
           rows' = [rows EXCEPT ![l] = [rows[l] EXCEPT !.deadline = deadline]]
    BY <1>2 DEF DeadlineNears, StoreTypeOK
  <2> DEFINE neared == [rows[l] EXCEPT !.deadline = deadline]
  <2>2. neared \in Row /\ neared.effect = rows[l].effect /\ neared.state = rows[l].state
    BY DEF StoreTypeOK, Row
  <2>3. rows' = [rows EXCEPT ![l] = neared]
    BY <2>1
  <2> HIDE DEF neared
  <2> QED
    BY <1>2, <2>2, <2>3 DEF DeadlineNears, StoreTypeOK, StoreStep, Kept
<1>3. CASE RowMatures(l)
  <2> DEFINE age == IF rows[l].age = "new" /\ rows[l].activated THEN "young" ELSE "old"
  <2>1. /\ rows' = [rows EXCEPT ![l] = [rows[l] EXCEPT !.age = age]]
        /\ age \in {"young", "old"}
    BY <1>3 DEF RowMatures, StoreTypeOK
  <2> HIDE DEF age
  <2> DEFINE matured == [rows[l] EXCEPT !.age = age]
  <2>2. matured \in Row /\ matured.effect = rows[l].effect /\ matured.state = rows[l].state
    BY <2>1 DEF StoreTypeOK, Row
  <2>3. rows' = [rows EXCEPT ![l] = matured]
    BY <2>1
  <2> HIDE DEF matured
  <2> QED
    BY <1>3, <2>2, <2>3 DEF RowMatures, StoreTypeOK, StoreStep, Kept
<1>4. CASE ApprovalLapses(l)
  BY <1>4 DEF ApprovalLapses, StoreTypeOK, StoreStep, Kept, ApprovalStatus
<1> QED
  BY <1>1, <1>2, <1>3, <1>4

LEMMA ProviderTyped ==
    ASSUME ProviderTypeOK, ProviderNext
    PROVE  ProviderTypeOK'
  BY DEF ProviderNext, ProviderTypeOK, LateCreateLands, ResourceVanishes,
         ResourceAges, Destroy

LEMMA RequestTyped ==
    ASSUME StoreTypeOK, ServiceInv, NEW l \in Leases,
           NEW effect \in {"allow", "require_approval", "deny"}, Request(l, effect)
    PROVE  StoreTypeOK' /\ ServiceInv'
<1>1. NoRow \in Row
  BY DEF NoRow, Row
<1>2. Requested(effect) \in Row
  BY <1>1 DEF Requested, Row, LeaseState
<1>3. StoreTypeOK'
  BY <1>2 DEF Request, StoreTypeOK, ApprovalStatus
<1> QED
  BY <1>3 DEF Request, ServiceInv, ServiceTypeOK

LEMMA CommitTyped ==
    ASSUME StoreTypeOK, ServiceInv, NEW c \in Callers, NEW op \in AllOps, NEW mine,
           Committable(call[c].copy, mine), Commit(c, op, mine)
    PROVE  /\ rows' \in [Leases -> Row] /\ ServiceInv' /\ \A l \in Leases : Kept(l)
           /\ call[c].lease \in Leases /\ UNCHANGED <<bindings, faults>>
<1>1. call[c].lease \in Leases
  BY DEF Commit, ServiceInv, AllOps
<1>2. rows' \in [Leases -> Row] /\ \A l \in Leases : Kept(l)
  BY <1>1, RowCommitted DEF Commit
<1>3. ServiceInv'
  BY NoCopyIsCopy DEF Commit, ServiceInv, ServiceTypeOK, NoCall
<1> QED
  BY <1>1, <1>2, <1>3 DEF Commit

LEMMA CallEndsTyped ==
    ASSUME StoreTypeOK, ServiceInv, NEW c \in Callers, CallEnds(c)
    PROVE  StoreStep /\ ServiceInv'
<1> DEFINE loaded == call[c].copy
<1>0. loaded \in Copy
  BY DEF ServiceInv, ServiceTypeOK
<1>1. CASE Approve(c)
  <2> DEFINE mine == [Queued(loaded) EXCEPT !.state = "provisioning"]
  <2>1. Committable(loaded, mine)
    BY <1>0, QueuedIsCopy DEF Committable, Copy, LeaseState
  <2>2. Commit(c, "approve", mine)
    BY <1>1 DEF Approve
  <2>3. /\ rows' \in [Leases -> Row] /\ ServiceInv' /\ \A l \in Leases : Kept(l)
        /\ call[c].lease \in Leases /\ UNCHANGED <<bindings, faults>>
    BY <2>1, <2>2, CommitTyped DEF AllOps
  <2> QED
    BY <1>1, <2>3 DEF Approve, StoreTypeOK, StoreStep, Kept, ApprovalStatus
<1>2. CASE Reject(c)
  <2> DEFINE mine == [loaded EXCEPT !.state = "rejected", !.next = "none"]
  <2>1. Committable(loaded, mine)
    BY <1>0 DEF Committable, Copy, LeaseState
  <2>2. Commit(c, "reject", mine)
    BY <1>2 DEF Reject
  <2>3. /\ rows' \in [Leases -> Row] /\ ServiceInv' /\ \A l \in Leases : Kept(l)
        /\ call[c].lease \in Leases /\ UNCHANGED <<bindings, faults>>
    BY <2>1, <2>2, CommitTyped DEF AllOps
  <2> QED
    BY <1>2, <2>3 DEF Reject, StoreTypeOK, StoreStep, Kept, ApprovalStatus
<1>3. CASE Renew(c)
  <2> DEFINE mine == [loaded EXCEPT !.state = "active", !.warned = FALSE, !.renewals = @ + 1]
             flushed == Flush(rows[call[c].lease], loaded, mine)
  <2>0. loaded.renewals + 1 \in Nat
    BY <1>0 DEF Copy
  <2>1. Committable(loaded, mine)
    <3>1. mine \in Copy
      BY <1>0, <2>0 DEF Copy, LeaseState
    <3> QED
      BY <1>0, <3>1 DEF Committable, Copy
  <2>2. call[c].lease \in Leases
    BY <1>3 DEF Renew, ServiceInv
  <2>3. /\ flushed \in Row /\ flushed.effect = rows[call[c].lease].effect
        /\ flushed.state = "absent" => rows[call[c].lease].state = "absent"
    BY <2>1, <2>2, FlushIsRow DEF StoreTypeOK
  <2>4. rows' = [rows EXCEPT ![call[c].lease] = [flushed EXCEPT !.deadline = "ahead"]]
    BY <1>3, <2>2 DEF Renew, StoreTypeOK
  <2> HIDE DEF flushed
  <2>5. rows' \in [Leases -> Row] /\ \A l \in Leases : Kept(l)
    BY <2>2, <2>3, <2>4 DEF StoreTypeOK, Row, Kept
  <2>6. ServiceInv'
    BY <1>3, NoCopyIsCopy DEF Renew, ServiceInv, ServiceTypeOK, NoCall
  <2> QED
    BY <1>3, <2>5, <2>6 DEF Renew, StoreTypeOK, StoreStep
<1>4. CASE Revoke(c)
  <2> DEFINE mine == IF loaded.state \in {"pending", "awaiting_approval"}
                     THEN [loaded EXCEPT !.state = "rejected", !.next = "none"]
                     ELSE [Queued(loaded) EXCEPT !.state = "revoked"]
  <2>1. Committable(loaded, mine)
    BY <1>0, QueuedIsCopy DEF Committable, Copy, LeaseState
  <2>2. Commit(c, "revoke", mine)
    BY <1>4 DEF Revoke
  <2>3. /\ rows' \in [Leases -> Row] /\ ServiceInv' /\ \A l \in Leases : Kept(l)
        /\ call[c].lease \in Leases /\ UNCHANGED <<bindings, faults>>
    BY <2>1, <2>2, CommitTyped DEF AllOps
  <2> QED
    BY <1>4, <2>3 DEF Revoke, StoreTypeOK, StoreStep, Kept
<1>5. CASE RetryTeardown(c)
  <2>1. Committable(loaded, Queued(loaded))
    BY <1>0, QueuedIsCopy DEF Committable
  <2>2. /\ rows' \in [Leases -> Row] /\ ServiceInv' /\ \A l \in Leases : Kept(l)
        /\ call[c].lease \in Leases /\ UNCHANGED <<bindings, faults>>
    BY <1>5, <2>1, CommitTyped DEF RetryTeardown, AllOps
  <2> QED
    BY <1>5, <2>2 DEF RetryTeardown, StoreTypeOK, StoreStep, Kept
<1>6. CASE CallAborts(c)
  BY <1>6, NoCopyIsCopy DEF CallAborts, ServiceInv, ServiceTypeOK, NoCall, StoreTypeOK, StoreStep, Kept, storeVars
<1> QED
  BY <1>1, <1>2, <1>3, <1>4, <1>5, <1>6 DEF CallEnds

LEMMA ServiceTyped ==
    ASSUME StoreTypeOK, ServiceInv, ServiceBegins \/ ServiceEnds
    PROVE  StoreTypeOK' /\ ServiceInv'
<1>1. ASSUME NEW l \in Leases, NEW c \in Callers, NEW op \in Ops, CallBegins(c, op, l)
      PROVE  StoreTypeOK' /\ ServiceInv'
  <2>1. View(rows[l]) \in Copy
    BY ViewIsCopy DEF StoreTypeOK
  <2> QED
    BY <1>1, <2>1, ChoicesAssumption DEF CallBegins, ServiceInv, ServiceTypeOK,
                                        StoreTypeOK, storeVars
<1> QED
  BY <1>1, RequestTyped, CallEndsTyped DEF ServiceBegins, ServiceEnds, StoreStep

\* What one pass of the ticker makes of a copy can be committed over it.
LEMMA PassCommittable ==
    ASSUME NEW l, NEW c \in Copy
    PROVE  Committable(c, Rejected(l, Requeued(l, Expired(l, Warned(l, c)))))
<1>1. Committable(c, Warned(l, c))
  BY DEF Warned, Committable, Copy, LeaseState
<1>2. ASSUME NEW m, Committable(c, m) PROVE Committable(c, Expired(l, m))
  BY <1>2, QueuedIsCopy DEF Expired, Committable, Copy, LeaseState
<1>3. ASSUME NEW m, Committable(c, m) PROVE Committable(c, Requeued(l, m))
  BY <1>3, QueuedIsCopy DEF Requeued, Committable
<1>4. ASSUME NEW m, Committable(c, m) PROVE Committable(c, Rejected(l, m))
  <2> DEFINE turned == [m EXCEPT !.state = "rejected", !.next = "none"]
  <2>1. turned \in Copy /\ turned.next = "none"
    BY <1>4 DEF Committable, Copy, LeaseState
  <2> QED
    BY <1>4, <2>1 DEF Rejected, Committable
<1> QED
  BY <1>1, <1>2, <1>3, <1>4

LEMMA NoPlanTyped == NoPlan \in Plan /\ Committable(NoPlan.loaded, NoPlan.mine)
  BY NoCopyIsCopy DEF NoPlan, Plan, Committable

LEMMA TickerTyped ==
    ASSUME StoreTypeOK, TickerInv, TickerNext
    PROVE  StoreStep /\ TickerInv'
<1>1. CASE TickReads
  <2>1. ASSUME NEW l \in Leases
        PROVE  plan'[l] \in Plan /\ Committable(plan'[l].loaded, plan'[l].mine)
    <3> DEFINE mine == Rejected(l, Requeued(l, Expired(l, Warned(l, View(rows[l])))))
    <3>1. View(rows[l]) \in Copy /\ Committable(View(rows[l]), mine)
      BY ViewIsCopy, PassCommittable DEF StoreTypeOK
    <3>2. Lapses(l) \in BOOLEAN
      BY DEF Lapses
    <3> HIDE DEF mine
    <3>3. plan'[l] = IF Touched(l)
                     THEN [loaded |-> View(rows[l]), mine |-> mine, lapse |-> Lapses(l)]
                     ELSE NoPlan
      BY <1>1 DEF TickReads, mine
    <3> QED
      BY <3>1, <3>2, <3>3, NoPlanTyped DEF Plan, Committable
  <2>2. plan' = [l \in Leases |-> plan'[l]]
    BY <1>1 DEF TickReads
  <2>3. StoreStep
    BY <1>1 DEF TickReads, StoreTypeOK, StoreStep, Kept, storeVars
  <2> QED
    BY <2>1, <2>2, <2>3 DEF TickerInv, TickerTypeOK
<1>2. CASE TickCommits
  <2>1. rows' \in [Leases -> Row] /\ \A l \in Leases : Kept(l)
    BY <1>2, FlushIsRow DEF TickCommits, StoreTypeOK, TickerInv, Kept
  <2>2. approval' \in [Leases -> ApprovalStatus]
    BY <1>2 DEF TickCommits, StoreTypeOK, ApprovalStatus
  <2>3. TickerInv'
    BY <1>2, NoPlanTyped DEF TickCommits, TickerInv, TickerTypeOK
  <2> QED
    BY <1>2, <2>1, <2>2, <2>3 DEF TickCommits, StoreTypeOK, StoreStep
<1>3. CASE TickAborts
  <2>1. StoreStep
    BY <1>3, BoundsAssumption DEF TickAborts, StoreTypeOK, StoreStep, Kept
  <2> QED
    BY <1>3, <2>1, NoPlanTyped DEF TickAborts, TickerInv, TickerTypeOK
<1> QED
  BY <1>1, <1>2, <1>3 DEF TickerNext

LEMMA ForgottenTyped ==
    ASSUME Forgotten, sweep' = "idle"
    PROVE  ReconcilerTypeOK'
  BY NoCopyIsCopy DEF Forgotten, ReconcilerTypeOK, Snapshot, NoSnapshot, Reread, NoReread

LEMMA ConcludedIsRow ==
    ASSUME StoreTypeOK, ReconcilerTypeOK, NEW l \in Leases
    PROVE  /\ Concluded(l) \in Row /\ Concluded(l).effect = rows[l].effect
           /\ Concluded(l).state = "absent" => rows[l].state = "absent"
<1> DEFINE loaded == reread[l].copy
           mine == [loaded EXCEPT !.state = Target(l), !.claim = NoWorker, !.next = "none"]
<1>1. loaded \in Copy
  BY DEF ReconcilerTypeOK, Reread
<1>2. Committable(loaded, mine)
  BY <1>1, CopyCommittable DEF Target, LeaseState
<1> QED
  BY <1>2, FlushIsRow DEF Concluded, StoreTypeOK

LEMMA ReconcilerTyped ==
    ASSUME StoreTypeOK, ProviderTypeOK, ReconcilerTypeOK, ReconcilerNext
    PROVE  StoreStep /\ ProviderTypeOK' /\ ReconcilerTypeOK'
<1>a. UNCHANGED storeVars => StoreStep
  BY DEF StoreTypeOK, StoreStep, Kept, storeVars
<1>b. UNCHANGED providerVars => ProviderTypeOK'
  BY DEF ProviderTypeOK, providerVars
<1>1. CASE TakeSnapshot
  <2>1. ASSUME NEW l \in Leases
        PROVE  [state |-> rows[l].state,
                held |-> rows[l].claim # NoWorker /\ ~rows[l].stale,
                new |-> rows[l].age = "new",
                young |-> rows[l].age # "old",
                activated |-> rows[l].activated,
                aged |-> l \in aged] \in Snapshot
    BY DEF StoreTypeOK, Row, Snapshot
  <2>2. snap' \in [Leases -> Snapshot]
    BY <1>1, <2>1 DEF TakeSnapshot
  <2> QED
    BY <1>1, <1>a, <1>b, <2>2 DEF TakeSnapshot, ReconcilerTypeOK
<1>2. CASE ListManaged
  BY <1>2, <1>a, <1>b DEF ListManaged, ReconcilerTypeOK, ToAsk, ProviderTypeOK
<1>3. CASE OrphansDone
  BY <1>3, <1>a, <1>b DEF OrphansDone, ReconcilerTypeOK
<1>4. CASE RereadAll
  <2>1. ASSUME NEW l \in Leases
        PROVE  [copy |-> View(rows[l]), open |-> bindings[l].open] \in Reread
    BY ViewIsCopy DEF StoreTypeOK, Binding, Reread
  <2>2. reread' \in [Leases -> Reread]
    BY <1>4, <2>1, NoCopyIsCopy DEF RereadAll, NoReread, Reread
  <2> QED
    BY <1>4, <1>a, <1>b, <2>2 DEF RereadAll, ReconcilerTypeOK
<1>5. CASE WriteDrift
  <2>1. rows' \in [Leases -> Row] /\ \A l \in Leases : Kept(l)
    BY <1>5, ConcludedIsRow DEF WriteDrift, StoreTypeOK, Kept
  <2>2. bindings' \in [Leases -> Binding]
    BY <1>5 DEF WriteDrift, StoreTypeOK, Binding
  <2> QED
    BY <1>5, <1>b, <2>1, <2>2, ForgottenTyped DEF WriteDrift, StoreTypeOK, StoreStep
<1>6. ASSUME NEW l \in Leases, DestroyOrphan(l)
      PROVE  StoreStep /\ ProviderTypeOK' /\ ReconcilerTypeOK'
  BY <1>6, <1>a, ProviderCallTyped DEF DestroyOrphan, ReconcilerTypeOK
<1>7. ASSUME NEW l \in Leases, Ask(l)
      PROVE  StoreStep /\ ProviderTypeOK' /\ ReconcilerTypeOK'
  BY <1>7, <1>a, <1>b DEF Ask, ReconcilerTypeOK
<1>8. CASE SweepAborts
  <2>1. StoreStep
    BY <1>8, BoundsAssumption DEF SweepAborts, StoreTypeOK, StoreStep, Kept
  <2> QED
    BY <1>8, <1>b, <2>1, ForgottenTyped DEF SweepAborts
<1> QED
  BY <1>1, <1>2, <1>3, <1>4, <1>5, <1>6, <1>7, <1>8 DEF ReconcilerNext, SweepProceeds

LEMMA TypeInvStep == TypeInv /\ [Next]_vars => TypeInv'
<1> SUFFICES ASSUME TypeInv, [Next]_vars PROVE TypeInv'
  OBVIOUS
<1>a. UNCHANGED storeVars => StoreTypeOK'
  BY DEF TypeInv, StoreTypeOK, storeVars
<1>b. UNCHANGED providerVars => ProviderTypeOK'
  BY DEF TypeInv, ProviderTypeOK, providerVars
<1>c. UNCHANGED workerVars => WorkerInv'
  BY DEF TypeInv, WorkerInv, WorkerTypeOK, workerVars
<1>d. UNCHANGED call => ServiceInv'
  BY DEF TypeInv, ServiceInv, ServiceTypeOK
<1>e. UNCHANGED plan => TickerInv'
  BY DEF TypeInv, TickerInv, TickerTypeOK
<1>f. UNCHANGED reconcilerVars => ReconcilerTypeOK'
  BY DEF TypeInv, ReconcilerTypeOK, reconcilerVars
<1>1. CASE ClockNext /\ OfClock
  BY <1>1, <1>b, <1>c, <1>d, <1>e, <1>f, ClockTyped DEF StoreStep, TypeInv, OfClock
<1>2. CASE ProviderNext /\ OfProvider
  BY <1>2, <1>a, <1>c, <1>d, <1>e, <1>f, ProviderTyped DEF TypeInv, OfProvider
<1>3. CASE WorkerNext /\ OfWorker
  BY <1>3, <1>d, <1>e, <1>f, WorkerTyped DEF StoreStep, TypeInv, OfWorker
<1>4. CASE (ServiceBegins \/ ServiceEnds) /\ OfService
  BY <1>4, <1>b, <1>c, <1>e, <1>f, ServiceTyped DEF TypeInv, OfService
<1>5. CASE TickerNext /\ OfTicker
  BY <1>5, <1>b, <1>c, <1>d, <1>f, TickerTyped DEF StoreStep, TypeInv, OfTicker
<1>6. CASE ReconcilerNext /\ OfReconciler
  BY <1>6, <1>c, <1>d, <1>e, ReconcilerTyped DEF StoreStep, TypeInv, OfReconciler
<1>7. CASE UNCHANGED vars
  BY <1>7, <1>a, <1>b, <1>c, <1>d, <1>e, <1>f DEF vars, TypeInv
<1> QED
  BY <1>1, <1>2, <1>3, <1>4, <1>5, <1>6, <1>7 DEF Next

\* What sessions hold is always something one could commit.
THEOREM TypeInvInvariant == Spec => []TypeInv
<1> QED
  BY TypeInvInit, TypeInvStep, PTL DEF Spec

\* Every variable keeps its shape in every behaviour: in particular no commit,
\* however stale the copy it was made from, puts anything in a column that is
\* not a value of that column.
THEOREM TypeCorrectness == Spec => []TypeOK
<1>1. TypeInv => TypeOK
  BY DEF TypeInv, TypeOK, WorkerInv, ServiceInv, TickerInv
<1> QED
  BY <1>1, TypeInvInvariant, PTL

=============================================================================
