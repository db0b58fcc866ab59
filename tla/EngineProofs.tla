---------------------------- MODULE EngineProofs ----------------------------
(***************************************************************************)
(* Workers, clients and the ticker on one table, for every number of each, *)
(* where nothing falls into a SELECT ... commit window: every lease lives  *)
(* one life, and what a platform was told of it is final.  What has to be  *)
(* carried from step to step is that each session still knows the row it   *)
(* is going to write.                                                      *)
(***************************************************************************)
EXTENDS BailmentTypes, BrokerPolls

\* The instance: no handler outlives its claim, the calls and the passes of the
\* ticker commit what they read undisturbed, and clients revoke no lease a worker
\* may be holding.
Orderly ==
    /\ Events \cap {"claim_outlived", "overlap_api", "overlap_ticker"} = {}
    /\ RevocableIn \cap (PROVISION_STATES \cup TEARDOWN_STATES) = {}

\* ... and no sweep runs.
Undisturbed == Orderly /\ "reconcile" \notin Events

-----------------------------------------------------------------------------
(* What a session knows.                                                   *)

\* A call is alone, and its row is still as it loaded and checked it.
CallCurrent(c) ==
    call[c] # NoCall =>
        /\ call[c].op \in AllOps /\ call[c].lease \in Leases
        /\ \A d \in Callers : d # c => call[d] = NoCall
        /\ call[c].copy = View(rows[call[c].lease])
        /\ Accepts(call[c].op, call[c].lease)

\* What a pass of the ticker makes of the row as it is now.
Pass(l) == Rejected(l, Requeued(l, Expired(l, Warned(l, View(rows[l])))))

PlanCurrent(l) ==
    \/ plan[l] = NoPlan
    \/ /\ Touched(l)
       /\ plan[l] = [loaded |-> View(rows[l]), mine |-> Pass(l), lapse |-> Lapses(l)]

SessionsCurrent ==
    (\A c \in Callers : CallCurrent(c)) /\ (\A l \in Leases : PlanCurrent(l))

\* A lease in hand is claimed by the hand that has it, stays in the queue it was
\* taken from, and is as its handler loaded it.
InHand(w) ==
    held[w] \in Leases =>
        LET row == rows[held[w]] IN
        /\ row.claim = w /\ ~row.stale /\ row.next # "later"
        /\ \/ /\ task[w] = "provision" /\ row.state \in PROVISION_STATES
              /\ at[w] \in {"claimed", "parking", "preflight", "creating", "created",
                            "probing", "undoing", "undone"}
           \/ /\ task[w] = "teardown" /\ row.state \in TEARDOWN_STATES
              /\ at[w] \in {"claimed", "parking", "destroying", "destroyed"}
        /\ at[w] = "preflight" => row.state = "pending"
        /\ at[w] # "claimed" => copy[w] = View(row) /\ creds[w] = bindings[held[w]].open

EngineInv ==
    /\ sweep = "idle"
    /\ SessionsCurrent
    /\ \A w \in Workers : InHand(w)

-----------------------------------------------------------------------------
(* One life: what a step may do to a lease.                                *)

Rests(l) ==
    /\ rows'[l].state = rows[l].state /\ rows'[l].activated = rows[l].activated
    /\ bindings'[l] = bindings[l]

Inserted(l) ==
    /\ rows[l].state = "absent"
    /\ rows'[l].state \in {"pending", "awaiting_approval", "rejected"}
    /\ rows'[l].activated = FALSE /\ bindings'[l] = bindings[l]

Moved(l) ==
    /\ \/ /\ rows[l].state = "awaiting_approval"
          /\ rows'[l].state \in {"provisioning", "rejected"}
       \/ /\ rows[l].state \in PROVISION_STATES
          /\ rows'[l].state \in {"provisioning", "orphaned"}
       \/ /\ rows[l].state \in USABLE_STATES
          /\ rows'[l].state \in USABLE_STATES \cup TEARDOWN_INTENT_STATES
       \/ /\ rows[l].state \in TEARDOWN_STATES
          /\ rows'[l].state \in {"deprovisioning", "orphaned"}
    /\ rows'[l].activated = rows[l].activated /\ bindings'[l] = bindings[l]

\* Only by the hand that has the lease: in use once its create has returned,
\* failed once it has nothing (left) at the provider, released once its destroy
\* has returned.
InUse(w, l) ==
    /\ rows[l].state \in PROVISION_STATES /\ rows'[l].state = "active"
    /\ at[w] = "created" /\ rows'[l].activated = TRUE
    /\ bindings'[l].open = bindings[l].open \cup {bindings[l].sealed + 1}

NothingLeft(w) ==
    \/ at[w] = "undone"
    \/ at[w] = "probing" /\ held[w] \notin resources
    \/ at[w] = "preflight" /\ "preflight_fails" \in Events

Failed(w, l) ==
    /\ rows[l].state \in PROVISION_STATES /\ rows'[l].state = "failed"
    /\ NothingLeft(w) /\ rows'[l].activated = rows[l].activated
    /\ bindings'[l] = bindings[l]

Released(w, l) ==
    /\ rows[l].state \in TEARDOWN_STATES /\ rows'[l].state = "released"
    /\ at[w] = "destroyed" /\ rows'[l].activated = rows[l].activated
    /\ bindings'[l].open = {}

Closes(l) ==
    \E w \in Workers :
        /\ held[w] = l /\ resources' = resources
        /\ InUse(w, l) \/ Failed(w, l) \/ Released(w, l)

Life(l) == Rests(l) \/ Inserted(l) \/ Moved(l) \/ Closes(l)

-----------------------------------------------------------------------------
(* Commits of a session whose row is still the one it loaded.              *)

LEMMA FlushFresh ==
    ASSUME NEW row \in Row, NEW mine, Committable(View(row), mine)
    PROVE  /\ Flush(row, View(row), mine).state = mine.state
           /\ Flush(row, View(row), mine).claim = mine.claim
           /\ Flush(row, View(row), mine).attempts = mine.attempts
           /\ Flush(row, View(row), mine).activated = row.activated
<1>1. /\ View(row).state = row.state /\ View(row).claim = row.claim
      /\ View(row).attempts = row.attempts
  BY DEF View
<1> QED
  BY <1>1, FlushColumns DEF Column

LEMMA FlushNothing ==
    ASSUME NEW row \in Row, NEW c
    PROVE  Flush(row, c, c) = row
  BY DEF Flush, Column, Row

LEMMA EngineInit == Init => EngineInv
<1> SUFFICES ASSUME Init PROVE EngineInv
  OBVIOUS
<1>1. \A w \in Workers : InHand(w)
  BY NullsAssumption DEF Init, WorkerInit, InHand
<1>2. \A c \in Callers : CallCurrent(c)
  BY DEF Init, ServiceInit, CallCurrent
<1>3. \A l \in Leases : PlanCurrent(l)
  BY DEF Init, TickerInit, PlanCurrent
<1> QED
  BY <1>1, <1>2, <1>3 DEF EngineInv, SessionsCurrent, Init, ReconcilerInit

\* While calls and passes are quiet nothing is under way that could go stale.
LEMMA QuietKept ==
    ASSUME Orderly, CallsQuiet, TickQuiet, call' = call, plan' = plan
    PROVE  SessionsCurrent'
  BY DEF Orderly, CallsQuiet, TickQuiet, Ticking, SessionsCurrent, CallCurrent, PlanCurrent

-----------------------------------------------------------------------------
(* Workers.                                                                *)

\* What one worker's step leaves of the others: it touches the lease in its hand
\* and nothing else.
Alone(w) ==
    /\ \A v \in Workers : v # w =>
          /\ at'[v] = at[v] /\ held'[v] = held[v] /\ task'[v] = task[v]
          /\ copy'[v] = copy[v] /\ creds'[v] = creds[v]
    /\ \A l \in Leases : l # held[w] => rows'[l] = rows[l] /\ bindings'[l] = bindings[l]

LEMMA OthersKept ==
    ASSUME EngineInv, NEW w \in Workers, held[w] \in Leases, Alone(w)
    PROVE  /\ \A v \in Workers : v # w => InHand(v)'
           /\ \A l \in Leases : l # held[w] => Rests(l)
<1>1. ASSUME NEW v \in Workers, v # w PROVE InHand(v)'
  <2>1. held[v] \in Leases => held[v] # held[w]
    BY <1>1 DEF EngineInv, InHand
  <2> QED
    BY <1>1, <2>1 DEF EngineInv, InHand, Alone
<1>2. \A l \in Leases : l # held[w] => Rests(l)
  BY DEF Alone, Rests
<1> QED
  BY <1>1, <1>2

\* What a step of a worker shows.
Lives(w) ==
    /\ \A v \in Workers : InHand(v)'
    /\ \A l \in Leases : Life(l)

\* An end of a handler: the row as the copy has become, the lease out of hand.
LEMMA SettleLives ==
    ASSUME StoreTypeOK, WorkerInv, EngineInv, NEW w \in Workers,
           at[w] \notin {"idle", "claimed"}, NEW mine,
           Committable(copy[w], mine), Settle(w, mine)
    PROVE  /\ Done(w) /\ held[w] \in Leases
           /\ \A l \in Leases : l # held[w] => rows'[l] = rows[l]
           /\ rows'[held[w]].state = mine.state
           /\ rows'[held[w]].activated = rows[held[w]].activated
<1>1. held[w] \in Leases /\ copy[w] = View(rows[held[w]])
  BY DEF WorkerInv, EngineInv, InHand
<1>2. /\ rows' = [rows EXCEPT ![held[w]] = Flush(rows[held[w]], copy[w], mine)]
      /\ Done(w)
  BY DEF Settle
<1>3. rows[held[w]] \in Row /\ rows'[held[w]] = Flush(rows[held[w]], View(rows[held[w]]), mine)
  BY <1>1, <1>2 DEF StoreTypeOK
<1> QED
  BY <1>1, <1>2, <1>3, FlushFresh DEF StoreTypeOK

LEMMA DoneHands ==
    ASSUME WorkerInv, NEW w \in Workers, Done(w)
    PROVE  /\ InHand(w)'
           /\ \A v \in Workers : v # w =>
                /\ at'[v] = at[v] /\ held'[v] = held[v] /\ task'[v] = task[v]
                /\ copy'[v] = copy[v] /\ creds'[v] = creds[v]
  BY NullsAssumption DEF WorkerInv, WorkerTypeOK, Done, InHand

\* What a step may make of the state of a lease in hand.
MayBecome(state) ==
    (PROVISION_STATES \X {"provisioning", "orphaned"})
    \cup (TEARDOWN_STATES \X {"deprovisioning", "orphaned"})
    \cup {<<state, state>>}

\* An end that leaves the bindings alone.
LEMMA EndLives ==
    ASSUME StoreTypeOK, WorkerInv, EngineInv, NEW w \in Workers,
           at[w] \notin {"idle", "claimed"}, NEW mine,
           Committable(copy[w], mine), Settle(w, mine), bindings' = bindings,
           <<rows[held[w]].state, mine.state>> \in MayBecome(rows[held[w]].state)
    PROVE  Lives(w)
<1>1. /\ Done(w) /\ held[w] \in Leases
      /\ \A l \in Leases : l # held[w] => rows'[l] = rows[l]
      /\ rows'[held[w]].state = mine.state
      /\ rows'[held[w]].activated = rows[held[w]].activated
  BY SettleLives
<1>2. Alone(w) /\ InHand(w)'
  BY <1>1, DoneHands DEF Alone
<1>3. Life(held[w])
  BY <1>1 DEF MayBecome, Life, Rests, Moved, PROVISION_STATES, TEARDOWN_STATES
<1>4. \A l \in Leases : l # held[w] => Life(l)
  BY <1>1, <1>2, OthersKept DEF Life
<1>5. \A v \in Workers : InHand(v)'
  BY <1>1, <1>2, OthersKept
<1> QED
  BY <1>1, <1>3, <1>4, <1>5 DEF Lives

\* Where a handler stands tells which queue it works for.
LEMMA PlaceTells ==
    ASSUME WorkerInv, EngineInv, NEW w \in Workers, at[w] \notin {"idle", "claimed"}
    PROVE  /\ held[w] \in Leases /\ copy[w] \in Copy /\ copy[w] = View(rows[held[w]])
           /\ copy[w].state = rows[held[w]].state
           /\ at[w] \in {"preflight", "creating", "created", "probing", "undoing", "undone"} =>
                 /\ task[w] = "provision" /\ rows[held[w]].state \in PROVISION_STATES
                 /\ Mine(w) = IF at[w] = "preflight" THEN "pending" ELSE "provisioning"
           /\ at[w] = "preflight" => rows[held[w]].state = "pending"
           /\ at[w] \in {"destroying", "destroyed"} =>
                 /\ task[w] = "teardown" /\ rows[held[w]].state \in TEARDOWN_STATES
                 /\ Mine(w) = "deprovisioning"
<1>1. held[w] \in Leases /\ copy[w] \in Copy /\ InHand(w)
  BY DEF WorkerInv, WorkerTypeOK, EngineInv
<1>2. /\ copy[w] = View(rows[held[w]])
      /\ copy[w].state = rows[held[w]].state
  BY <1>1 DEF InHand, View
<1> QED
  BY <1>1, <1>2 DEF InHand, Mine, PROVISION_STATES, TEARDOWN_STATES

LEMMA BackOffLives ==
    ASSUME StoreTypeOK, WorkerInv, EngineInv, NEW w \in Workers,
           at[w] \notin {"idle", "claimed", "parking"}, BackOff(w)
    PROVE  Lives(w)
<1> DEFINE mine == [copy[w] EXCEPT !.state = Mine(w), !.claim = NoWorker, !.next = "later"]
<1>0. /\ held[w] \in Leases /\ copy[w] \in Copy
      /\ at[w] \in {"preflight", "creating", "created", "probing", "undoing", "undone",
                    "destroying", "destroyed"}
  BY PlaceTells DEF WorkerInv, WorkerTypeOK, Place
<1>1. Committable(copy[w], mine) /\ mine.state = Mine(w)
  BY <1>0, MineIsState DEF Committable, Copy
<1>2. Settle(w, mine) /\ bindings' = bindings
  BY DEF BackOff
<1>3. <<rows[held[w]].state, Mine(w)>> \in MayBecome(rows[held[w]].state)
  BY <1>0, PlaceTells DEF MayBecome
<1> HIDE DEF mine
<1> QED
  BY <1>0, <1>1, <1>2, <1>3, EndLives

LEMMA OrphanLives ==
    ASSUME StoreTypeOK, WorkerInv, EngineInv, NEW w \in Workers,
           at[w] \in {"undoing", "undone", "destroying", "destroyed"}, Orphan(w)
    PROVE  Lives(w)
<1> DEFINE mine == [copy[w] EXCEPT !.state = "orphaned", !.claim = NoWorker, !.next = "none"]
<1>0. /\ held[w] \in Leases /\ copy[w] \in Copy
      /\ rows[held[w]].state \in PROVISION_STATES \cup TEARDOWN_STATES
  BY PlaceTells
<1>1. Committable(copy[w], mine) /\ mine.state = "orphaned"
  BY <1>0, CopyCommittable DEF LeaseState, Copy
<1>2. Settle(w, mine) /\ bindings' = bindings
  BY DEF Orphan
<1> HIDE DEF mine
<1> QED
  BY <1>0, <1>1, <1>2, EndLives DEF MayBecome, PROVISION_STATES, TEARDOWN_STATES

LEMMA ParkLives ==
    ASSUME StoreTypeOK, WorkerInv, EngineInv, NEW w \in Workers, Park(w)
    PROVE  Lives(w)
<1> DEFINE back == IF copy[w].attempts = 0 THEN 0 ELSE copy[w].attempts - 1
           mine == [copy[w] EXCEPT !.attempts = back, !.claim = NoWorker, !.next = "later"]
<1>0. /\ at[w] = "parking" /\ held[w] \in Leases /\ copy[w] \in Copy
      /\ copy[w].state = rows[held[w]].state
  BY PlaceTells DEF Park
<1>1. Settle(w, mine) /\ bindings' = bindings
  BY DEF Park
<1>2. back \in Nat
  BY <1>0 DEF Copy
<1> HIDE DEF back
<1>3. Committable(copy[w], mine) /\ mine.state = copy[w].state
  BY <1>0, <1>2 DEF Committable, Copy
<1> HIDE DEF mine
<1> QED
  BY <1>0, <1>1, <1>3, EndLives DEF MayBecome

\* A handler goes on: nothing is written.
LEMMA GotoLives ==
    ASSUME StoreTypeOK, WorkerInv, EngineInv, NEW w \in Workers,
           NEW place, Goto(w, place), UNCHANGED storeVars,
           \/ /\ at[w] \in {"preflight", "creating", "created", "probing", "undoing"}
              /\ place \in {"creating", "created", "probing", "undoing", "undone"}
           \/ at[w] = "destroying" /\ place = "destroyed"
    PROVE  Lives(w)
<1>1. held[w] \in Leases /\ at[w] \in Place
  BY DEF WorkerInv, WorkerTypeOK
<1>2. InHand(w)'
  BY <1>1 DEF EngineInv, InHand, Goto, storeVars, WorkerInv, WorkerTypeOK
<1>3. Alone(w)
  BY <1>1 DEF Alone, Goto, storeVars, WorkerInv, WorkerTypeOK
<1>4. \A l \in Leases : Life(l)
  BY DEF Goto, storeVars, Life, Rests
<1> QED
  BY <1>1, <1>2, <1>3, <1>4, OthersKept DEF Lives

\* The SELECT of a handler finds the row as the claim left it.
LEMMA BeginLives ==
    ASSUME StoreTypeOK, WorkerInv, EngineInv, NEW w \in Workers, Begin(w)
    PROVE  Lives(w)
<1>1. /\ at[w] = "claimed" /\ held[w] \in Leases /\ InHand(w)
      /\ rows' = rows /\ bindings' = bindings /\ held' = held /\ task' = task
      /\ copy' = [copy EXCEPT ![w] = View(rows[held[w]])]
      /\ creds' = [creds EXCEPT ![w] = bindings[held[w]].open]
  BY DEF Begin, BeginUnavailable, BeginProvision, BeginTeardown, Load, OnlyBudget, storeVars,
         WorkerInv, EngineInv
<1>2. \E place \in Place :
         /\ at' = [at EXCEPT ![w] = place]
         /\ \/ place = "parking"
            \/ task[w] = "provision" /\ place = "creating"
            \/ task[w] = "provision" /\ place = "preflight" /\ rows[held[w]].state = "pending"
            \/ task[w] = "teardown" /\ place = "destroying"
  BY DEF Begin, BeginUnavailable, BeginProvision, BeginTeardown, Place
<1>3. InHand(w)'
  BY <1>1, <1>2 DEF InHand, WorkerInv, WorkerTypeOK
<1>4. Alone(w)
  BY <1>1, <1>2 DEF Alone, WorkerInv, WorkerTypeOK
<1>5. \A l \in Leases : Life(l)
  BY <1>1 DEF Life, Rests
<1>6. \A v \in Workers : InHand(v)'
  BY <1>1, <1>3, <1>4, OthersKept
<1> QED
  BY <1>5, <1>6 DEF Lives

\* An end that writes bindings, or a state of its own: what is left to show of
\* it is what becomes of the lease itself.
LEMMA EndsAlone ==
    ASSUME StoreTypeOK, WorkerInv, EngineInv, NEW w \in Workers, held[w] \in Leases, Done(w),
           \A l \in Leases : l # held[w] => rows'[l] = rows[l] /\ bindings'[l] = bindings[l],
           Life(held[w])
    PROVE  Lives(w)
<1>1. Alone(w) /\ InHand(w)'
  BY DoneHands DEF Alone
<1>2. \A l \in Leases : l # held[w] => Life(l)
  BY <1>1, OthersKept DEF Life
<1>3. \A v \in Workers : InHand(v)'
  BY <1>1, OthersKept
<1> QED
  BY <1>2, <1>3 DEF Lives

LEMMA FailLives ==
    ASSUME StoreTypeOK, WorkerInv, EngineInv, NEW w \in Workers,
           at[w] \in {"preflight", "probing", "undone"}, Fail(w),
           NothingLeft(w), resources' = resources
    PROVE  Lives(w)
<1> DEFINE mine == [copy[w] EXCEPT !.state = "failed", !.claim = NoWorker, !.next = "none"]
<1>0. /\ held[w] \in Leases /\ copy[w] \in Copy
      /\ rows[held[w]].state \in PROVISION_STATES
  BY PlaceTells
<1>1. Committable(copy[w], mine) /\ mine.state = "failed"
  BY <1>0, CopyCommittable DEF LeaseState, Copy
<1>2. Settle(w, mine) /\ bindings' = bindings
  BY DEF Fail
<1> HIDE DEF mine
<1>3. /\ Done(w)
      /\ \A l \in Leases : l # held[w] => rows'[l] = rows[l]
      /\ rows'[held[w]].state = "failed"
      /\ rows'[held[w]].activated = rows[held[w]].activated
  BY <1>0, <1>1, <1>2, SettleLives
<1>4. Life(held[w])
  BY <1>0, <1>2, <1>3 DEF Life, Closes, Failed
<1> QED
  BY <1>0, <1>2, <1>3, <1>4, EndsAlone

LEMMA ActivateLives ==
    ASSUME StoreTypeOK, WorkerInv, EngineInv, NEW w \in Workers, Activate(w)
    PROVE  Lives(w)
<1> DEFINE mine == [copy[w] EXCEPT !.state = "active", !.claim = NoWorker,
                                   !.next = "none", !.attempts = 0, !.warned = FALSE]
           flushed == Flush(rows[held[w]], copy[w], mine)
<1>1. /\ held[w] \in Leases /\ copy[w] \in Copy /\ copy[w] = View(rows[held[w]])
      /\ rows[held[w]].state \in PROVISION_STATES /\ rows[held[w]] \in Row
  BY PlaceTells DEF Activate, StoreTypeOK
<1>2. Committable(copy[w], mine) /\ mine.state = "active"
  BY <1>1 DEF Committable, Copy, LeaseState
<1>3. rows' = [rows EXCEPT ![held[w]] = Started(flushed)]
  BY <1>1 DEF Activate, StoreTypeOK
<1>4. bindings' = [bindings EXCEPT ![held[w]] =
                     [sealed |-> bindings[held[w]].sealed + 1,
                      open |-> bindings[held[w]].open \cup {bindings[held[w]].sealed + 1}]]
  BY <1>1 DEF Activate, StoreTypeOK
<1>5. Done(w)
  BY DEF Activate
<1> HIDE DEF mine
<1>6. flushed \in Row /\ flushed.state = "active"
  BY <1>1, <1>2, FlushFresh, FlushIsRow
<1> HIDE DEF flushed
<1>7. /\ rows'[held[w]].state = "active"
      /\ rows'[held[w]].activated = TRUE
      /\ \A l \in Leases : l # held[w] => rows'[l] = rows[l]
  BY <1>1, <1>3, <1>6, StartedColumns DEF StoreTypeOK
<1>8. /\ bindings'[held[w]].open
           = bindings[held[w]].open \cup {bindings[held[w]].sealed + 1}
      /\ \A l \in Leases : l # held[w] => bindings'[l] = bindings[l]
  BY <1>1, <1>4 DEF StoreTypeOK
<1>9. Life(held[w])
  BY <1>1, <1>7, <1>8 DEF Life, Closes, InUse, Activate, providerVars
<1> QED
  BY <1>1, <1>5, <1>7, <1>8, <1>9, EndsAlone

LEMMA ReleaseLives ==
    ASSUME StoreTypeOK, WorkerInv, EngineInv, NEW w \in Workers, Release(w)
    PROVE  Lives(w)
<1> DEFINE mine == [copy[w] EXCEPT !.state = "released", !.claim = NoWorker, !.next = "none"]
<1>1. /\ at[w] = "destroyed" /\ held[w] \in Leases /\ copy[w] \in Copy
      /\ rows[held[w]].state \in TEARDOWN_STATES
      /\ creds[w] = bindings[held[w]].open
  BY PlaceTells DEF Release, EngineInv, InHand
<1>2. Committable(copy[w], mine) /\ mine.state = "released"
  BY <1>1, CopyCommittable DEF LeaseState, Copy
<1>3. /\ Settle(w, mine)
      /\ bindings' = [bindings EXCEPT ![held[w]].open = @ \ creds[w]]
  BY DEF Release
<1> HIDE DEF mine
<1>4. /\ Done(w)
      /\ \A l \in Leases : l # held[w] => rows'[l] = rows[l]
      /\ rows'[held[w]].state = "released"
      /\ rows'[held[w]].activated = rows[held[w]].activated
  BY <1>1, <1>2, <1>3, SettleLives
<1>5. /\ bindings'[held[w]].open = {}
      /\ \A l \in Leases : l # held[w] => bindings'[l] = bindings[l]
  BY <1>1, <1>3 DEF StoreTypeOK, Binding
<1>6. Life(held[w])
  BY <1>1, <1>4, <1>5 DEF Life, Closes, Released, Release, providerVars
<1> QED
  BY <1>1, <1>4, <1>5, <1>6, EndsAlone

\* A crash leaves the row as it is.
LEMMA AbandonLives ==
    ASSUME StoreTypeOK, WorkerInv, EngineInv, NEW w \in Workers, Abandon(w)
    PROVE  Lives(w)
<1>1. /\ held[w] \in Leases /\ Done(w) /\ rows' = rows /\ bindings' = bindings
  BY DEF Abandon, OnlyBudget, WorkerInv
<1>2. Life(held[w])
  BY <1>1 DEF Life, Rests
<1> QED
  BY <1>1, <1>2, EndsAlone

\* Every move a handler makes is in the table: the row it loaded was in its queue.
LEMMA NoMoveRefused ==
    ASSUME WorkerInv, EngineInv, NEW w \in Workers
    PROVE  ~RefusedMove(w)
<1>1. CASE at[w] = "claimed" /\ task[w] = "teardown"
  <2>1. rows[held[w]].state \in TEARDOWN_STATES
    BY <1>1 DEF EngineInv, InHand, WorkerInv
  <2>2. CanMove(rows[held[w]].state, "deprovisioning")
    BY <2>1 DEF CanMove, TRANSITIONS, TEARDOWN_STATES, TEARDOWN_INTENT_STATES
  <2> QED
    BY <1>1, <2>2 DEF RefusedMove
<1>2. CASE at[w] \in {"created", "probing", "undoing", "undone"}
  <2>1. Mine(w) = "provisioning"
    BY <1>2, PlaceTells
  <2>2. /\ CanMove("provisioning", "active") /\ CanMove("provisioning", "failed")
        /\ CanRoute("provisioning", "orphaned")
    BY DEF CanMove, CanRoute, TRANSITIONS
  <2> QED
    BY <1>2, <2>1, <2>2 DEF RefusedMove
<1>3. CASE at[w] \notin {"created", "probing", "undoing", "undone"}
           /\ ~(at[w] = "claimed" /\ task[w] = "teardown")
  BY <1>3 DEF RefusedMove
<1> QED
  BY <1>1, <1>2, <1>3

LEMMA HandlerLives ==
    ASSUME StoreTypeOK, WorkerInv, EngineInv, NEW w \in Workers, Handle(w) \/ Abandon(w)
    PROVE  Lives(w)
<1>1. CASE Begin(w) \/ Park(w) \/ Abandon(w)
  BY <1>1, BeginLives, ParkLives, AbandonLives
<1>2. CASE Provisioning(w)
  <2>1. CASE PreflightPasses(w) \/ CreateLands(w) \/ RollBackDestroys(w)
    BY <2>1, GotoLives DEF PreflightPasses, CreateLands, RollBackDestroys
  <2>2. CASE PreflightFails(w)
    BY <2>2, BackOffLives, FailLives DEF PreflightFails, NothingLeft, providerVars
  <2>3. CASE CreateFails(w)
    BY <2>3, BackOffLives, GotoLives DEF CreateFails
  <2>4. CASE Activate(w)
    BY <2>4, ActivateLives
  <2>5. CASE RollBackProbe(w)
    BY <2>5, FailLives, GotoLives DEF RollBackProbe, MaySay, NothingLeft, providerVars
  <2>6. CASE RolledBack(w) \/ RollBackFails(w)
    BY <2>6, FailLives, OrphanLives DEF RolledBack, RollBackFails, NothingLeft, providerVars
  <2> QED
    BY <1>2, <2>1, <2>2, <2>3, <2>4, <2>5, <2>6 DEF Provisioning
<1>3. CASE Teardown(w)
  <2>1. CASE DestroyLands(w)
    BY <2>1, GotoLives DEF DestroyLands
  <2>2. CASE Release(w)
    BY <2>2, ReleaseLives
  <2>3. CASE DestroyFails(w)
    BY <2>3, BackOffLives, OrphanLives DEF DestroyFails
  <2> QED
    BY <1>3, <2>1, <2>2, <2>3 DEF Teardown
<1> QED
  BY <1>1, <1>2, <1>3, NoMoveRefused DEF Handle

\* The conditional UPDATE takes a lease out of no hand.
LEMMA ClaimLives ==
    ASSUME StoreTypeOK, WorkerInv, EngineInv, NEW w \in Workers, NEW l \in Leases,
           NEW queue \in {"provision", "teardown"}, Claim(w, l, queue)
    PROVE  Lives(w)
<1>1. /\ at[w] = "idle" /\ Claimable(rows[l])
      /\ rows[l].state \in (IF queue = "provision" THEN PROVISION_STATES ELSE TEARDOWN_STATES)
      /\ rows[l] \in Row
  BY DEF Claim, StoreTypeOK
<1>2. \A v \in Workers : held[v] # l
  BY <1>1, NullsAssumption DEF EngineInv, InHand, Claimable
<1>3. /\ rows'[l].claim = w /\ rows'[l].stale = FALSE /\ rows'[l].next = rows[l].next
      /\ rows'[l].state = rows[l].state /\ rows'[l].activated = rows[l].activated
      /\ \A k \in Leases : k # l => rows'[k] = rows[k]
  BY DEF Claim, StoreTypeOK, Row
<1>4. /\ at' = [at EXCEPT ![w] = "claimed"] /\ held' = [held EXCEPT ![w] = l]
      /\ task' = [task EXCEPT ![w] = queue]
      /\ UNCHANGED <<copy, creds, bindings>>
  BY DEF Claim
<1>5. InHand(w)'
  BY <1>1, <1>3, <1>4 DEF InHand, WorkerInv, WorkerTypeOK, Claimable
<1>6. ASSUME NEW v \in Workers, v # w PROVE InHand(v)'
  <2>1. InHand(v) /\ held'[v] = held[v] /\ at'[v] = at[v] /\ task'[v] = task[v]
    BY <1>4, <1>6 DEF EngineInv, WorkerInv, WorkerTypeOK
  <2> QED
    BY <1>2, <1>3, <1>4, <2>1 DEF InHand
<1>7. \A k \in Leases : Life(k)
  BY <1>3, <1>4 DEF Life, Rests
<1> QED
  BY <1>5, <1>6, <1>7 DEF Lives

\* A claim grows old in nobody's hand.
LEMMA ClaimAgesLives ==
    ASSUME StoreTypeOK, EngineInv, Undisturbed, NEW l \in Leases, ClaimAges(l)
    PROVE  /\ \A v \in Workers : InHand(v)'
           /\ \A k \in Leases : Life(k)
<1>1. /\ \A w \in Workers : rows[l].claim = w => held[w] # l
      /\ UNCHANGED <<bindings, at, held, task, copy, creds>>
  BY DEF ClaimAges, Undisturbed, Orderly, workerVars
<1>2. /\ \A v \in Workers : held[v] # l
      /\ \A k \in Leases : k # l => rows'[k] = rows[k]
      /\ rows'[l].state = rows[l].state /\ rows'[l].activated = rows[l].activated
  BY <1>1 DEF EngineInv, InHand, ClaimAges, StoreTypeOK, Row
<1>3. ASSUME NEW v \in Workers PROVE InHand(v)'
  BY <1>1, <1>2 DEF EngineInv, InHand
<1>4. ASSUME NEW k \in Leases PROVE Life(k)
  BY <1>1, <1>2 DEF Life, Rests
<1> QED
  BY <1>3, <1>4

-----------------------------------------------------------------------------
(* Everybody who is no worker and no sweep.                                *)

\* A lease no handler is at work on: whoever has a lease claims it, as long as it
\* is open.
Loose(l) ==
    /\ rows[l].state \notin {"failed", "released"}
    /\ rows[l].state \in PROVISION_STATES \cup TEARDOWN_STATES => rows[l].claim = NoWorker

\* A step of theirs moves loose leases along, and starts the count of attempts
\* anew wherever it puts one in a queue.
Apart ==
    /\ UNCHANGED <<workerVars, bindings>> /\ faults' \in 0..faults
    /\ \A l \in Leases :
          /\ rows'[l] = rows[l] \/ Loose(l)
          /\ Life(l)
          /\ \/ rows'[l].attempts = 0
             \/ /\ rows'[l].attempts = rows[l].attempts
                /\ \/ rows'[l].state = rows[l].state
                   \/ rows'[l].state \notin PROVISION_STATES \cup TEARDOWN_STATES

\* Every lease lives on, and the engine stays current.
Good == EngineInv' /\ \A l \in Leases : Life(l)

LEMMA ApartGood ==
    ASSUME StoreTypeOK, EngineInv, Apart, SessionsCurrent', sweep' = sweep
    PROVE  Good
<1>1. ASSUME NEW w \in Workers PROVE InHand(w)'
  <2>1. held[w] \in Leases => rows'[held[w]] = rows[held[w]]
    BY NullsAssumption DEF EngineInv, InHand, Apart, Loose, PROVISION_STATES, TEARDOWN_STATES
  <2> QED
    BY <2>1 DEF EngineInv, InHand, Apart, workerVars
<1> QED
  BY <1>1 DEF Good, EngineInv, Apart

-----------------------------------------------------------------------------
(* Calls.                                                                  *)

\* What calls ask for is loose.
LEMMA CallsAskLoose ==
    ASSUME Orderly, SessionsCurrent, NEW c \in Callers, call[c] # NoCall
    PROVE  Loose(call[c].lease)
<1> DEFINE l == call[c].lease
<1>1. call[c].op \in AllOps /\ l \in Leases /\ Accepts(call[c].op, l)
  BY DEF SessionsCurrent, CallCurrent
<1> QED
  BY <1>1 DEF AllOps, Accepts, Approvable, Rejectable, Renewable, Revocable, Retriable,
              Orderly, Loose, PROVISION_STATES, TEARDOWN_STATES, USABLE_STATES,
              TERMINAL_STATES

\* The commit of a call writes what the caller made of the row as it is.
LEMMA CommitFresh ==
    ASSUME StoreTypeOK, SessionsCurrent, NEW c \in Callers, call[c] # NoCall, NEW mine,
           Committable(call[c].copy, mine),
           rows' = [rows EXCEPT ![call[c].lease]
                      = Flush(rows[call[c].lease], call[c].copy, mine)]
    PROVE  LET l == call[c].lease IN
           /\ rows'[l].state = mine.state /\ rows'[l].attempts = mine.attempts
           /\ rows'[l].activated = rows[l].activated
           /\ \A k \in Leases : k # l => rows'[k] = rows[k]
<1>1. /\ call[c].lease \in Leases /\ call[c].copy = View(rows[call[c].lease])
      /\ rows[call[c].lease] \in Row
  BY DEF SessionsCurrent, CallCurrent, StoreTypeOK
<1> QED
  BY <1>1, FlushFresh DEF StoreTypeOK

LEMMA CallEndsLives ==
    ASSUME StoreTypeOK, ServiceInv, SessionsCurrent, Orderly, NEW c \in Callers,
           call[c] # NoCall, CallEnds(c)
    PROVE  LET l == call[c].lease IN
           /\ Life(l)
           /\ \/ rows'[l].attempts = 0
              \/ /\ rows'[l].attempts = rows[l].attempts
                 /\ \/ rows'[l].state = rows[l].state
                    \/ rows'[l].state \notin PROVISION_STATES \cup TEARDOWN_STATES
           /\ \A k \in Leases : k # l => rows'[k] = rows[k]
           /\ UNCHANGED <<bindings, faults>>
<1> DEFINE l == call[c].lease
           loaded == call[c].copy
<1>a. /\ loaded \in Copy /\ l \in Leases /\ loaded = View(rows[l])
      /\ Accepts(call[c].op, l)
  BY DEF SessionsCurrent, CallCurrent, ServiceInv, ServiceTypeOK
<1>0. /\ loaded \in Copy /\ l \in Leases /\ rows[l] \in Row
      /\ loaded = View(rows[l]) /\ loaded.state = rows[l].state
      /\ loaded.attempts = rows[l].attempts
      /\ Accepts(call[c].op, l)
  BY <1>a DEF StoreTypeOK, View
<1>1. CASE Approve(c)
  <2> DEFINE mine == [Queued(loaded) EXCEPT !.state = "provisioning"]
  <2>1. Committable(loaded, mine) /\ mine.state = "provisioning" /\ mine.attempts = 0
    BY <1>0, QueuedIsCopy DEF Committable, Copy, LeaseState, Queued
  <2>2. Commit(c, "approve", mine)
    BY <1>1 DEF Approve
  <2> HIDE DEF mine
  <2>3. rows[l].state = "awaiting_approval"
    BY <1>0, <2>2 DEF Commit, Accepts, Approvable
  <2> QED
    BY <2>1, <2>2, <2>3, CommitFresh DEF Commit, Life, Moved
<1>2. CASE Reject(c)
  <2> DEFINE mine == [loaded EXCEPT !.state = "rejected", !.next = "none"]
  <2>1. /\ Committable(loaded, mine) /\ mine.state = "rejected"
        /\ mine.attempts = loaded.attempts
    BY <1>0 DEF Committable, Copy, LeaseState
  <2>2. Commit(c, "reject", mine)
    BY <1>2 DEF Reject
  <2> HIDE DEF mine
  <2>3. rows[l].state = "awaiting_approval"
    BY <1>0, <2>2 DEF Commit, Accepts, Rejectable
  <2> QED
    BY <1>0, <2>1, <2>2, <2>3, CommitFresh
       DEF Commit, Life, Moved, PROVISION_STATES, TEARDOWN_STATES
<1>3. CASE Renew(c)
  <2> DEFINE mine == [loaded EXCEPT !.state = "active", !.warned = FALSE, !.renewals = @ + 1]
             flushed == Flush(rows[l], loaded, mine)
  <2>1. /\ Committable(loaded, mine) /\ mine.state = "active"
        /\ mine.attempts = loaded.attempts
    <3>1. loaded.renewals + 1 \in Nat
      BY <1>0 DEF Copy
    <3>2. mine \in Copy
      BY <1>0, <3>1 DEF Copy, LeaseState
    <3> QED
      BY <1>0, <3>2 DEF Committable, Copy
  <2> HIDE DEF mine
  <2>2. /\ flushed \in Row /\ flushed.state = "active"
        /\ flushed.attempts = rows[l].attempts /\ flushed.activated = rows[l].activated
    BY <1>0, <2>1, FlushFresh, FlushIsRow
  <2>3. rows' = [rows EXCEPT ![l] = [flushed EXCEPT !.deadline = "ahead"]]
    BY <1>0, <1>3 DEF Renew, StoreTypeOK, mine
  <2> HIDE DEF flushed
  <2>4. /\ rows'[l].state = "active" /\ rows'[l].attempts = rows[l].attempts
        /\ rows'[l].activated = rows[l].activated
        /\ \A k \in Leases : k # l => rows'[k] = rows[k]
    BY <1>0, <2>2, <2>3 DEF StoreTypeOK, Row
  <2>5. rows[l].state \in USABLE_STATES
    BY <1>0, <1>3 DEF Renew, Accepts, Renewable
  <2> QED
    BY <1>3, <2>4, <2>5 DEF Renew, Life, Moved, USABLE_STATES, PROVISION_STATES,
                            TEARDOWN_STATES
<1>4. CASE Revoke(c)
  <2> DEFINE mine == IF loaded.state \in {"pending", "awaiting_approval"}
                     THEN [loaded EXCEPT !.state = "rejected", !.next = "none"]
                     ELSE [Queued(loaded) EXCEPT !.state = "revoked"]
  <2>1. /\ Committable(loaded, mine)
        /\ IF loaded.state \in {"pending", "awaiting_approval"}
           THEN mine.state = "rejected" /\ mine.attempts = loaded.attempts
           ELSE mine.state = "revoked" /\ mine.attempts = 0
    BY <1>0, QueuedIsCopy DEF Committable, Copy, LeaseState, Queued
  <2>2. Commit(c, "revoke", mine)
    BY <1>4 DEF Revoke
  <2> HIDE DEF mine
  <2>3. rows[l].state \in {"awaiting_approval"} \cup USABLE_STATES
    <3>1. /\ Revocable(l) /\ rows[l].state \in RevocableIn
          /\ rows[l].state \in LeaseState \cup {"absent"}
      BY <1>0, <2>2 DEF Commit, Accepts, Revocable, Row
    <3>2. rows[l].state \notin PROVISION_STATES \cup TEARDOWN_STATES
      BY <3>1 DEF Orderly
    <3> QED
      BY <3>1, <3>2 DEF Revocable, CanMove, TRANSITIONS, PROVISION_STATES,
                        TEARDOWN_STATES, USABLE_STATES, TEARDOWN_INTENT_STATES
  <2>4. /\ rows'[l].state = mine.state /\ rows'[l].attempts = mine.attempts
        /\ rows'[l].activated = rows[l].activated
        /\ \A k \in Leases : k # l => rows'[k] = rows[k]
        /\ UNCHANGED <<bindings, faults>>
    BY <2>1, <2>2, CommitFresh DEF Commit
  <2>5. CASE rows[l].state = "awaiting_approval"
    BY <1>0, <2>1, <2>4, <2>5 DEF Life, Moved, PROVISION_STATES, TEARDOWN_STATES
  <2>6. CASE rows[l].state \in USABLE_STATES
    BY <1>0, <2>1, <2>4, <2>6 DEF Life, Moved, USABLE_STATES, TEARDOWN_INTENT_STATES
  <2> QED
    BY <2>3, <2>4, <2>5, <2>6
<1>5. CASE RetryTeardown(c)
  <2>1. /\ Committable(loaded, Queued(loaded)) /\ Queued(loaded).state = loaded.state
        /\ Queued(loaded).attempts = 0
    BY <1>0, QueuedIsCopy DEF Committable, Queued, Copy
  <2>2. Commit(c, "retry_teardown", Queued(loaded))
    BY <1>5 DEF RetryTeardown
  <2> QED
    BY <1>0, <2>1, <2>2, CommitFresh DEF Commit, Life, Rests
<1>6. CASE CallAborts(c)
  BY <1>6 DEF CallAborts, storeVars, Life, Rests
<1> QED
  BY <1>1, <1>2, <1>3, <1>4, <1>5, <1>6 DEF CallEnds

LEMMA CallBeginsCurrent ==
    ASSUME ServiceTypeOK, NEW c \in Callers, NEW op \in AllOps,
           NEW l \in Leases, CallBegins(c, op, l), \A d \in Callers : call[d] = NoCall
    PROVE  \A d \in Callers : CallCurrent(d)'
<1>1. /\ call' = [call EXCEPT ![c] = [op |-> op, lease |-> l, copy |-> View(rows[l])]]
      /\ Accepts(op, l) /\ rows' = rows /\ approval' = approval
  BY DEF CallBegins, storeVars
<1>2. Accepts(op, l)'
  BY <1>1 DEF AllOps, Accepts, Approvable, Rejectable, Renewable, Revocable, Retriable
<1>3. \A d \in Callers : d # c => call'[d] = NoCall
  BY <1>1 DEF ServiceTypeOK
<1>4. call'[c] = [op |-> op, lease |-> l, copy |-> View(rows[l])]
  BY <1>1 DEF ServiceTypeOK
<1>5. CallCurrent(c)'
  BY <1>1, <1>2, <1>3, <1>4 DEF CallCurrent
<1> QED
  BY <1>3, <1>5 DEF CallCurrent

LEMMA ServiceApart ==
    ASSUME TypeInv, SessionsCurrent, Orderly,
           (ServiceBegins /\ CallsQuiet) \/ ServiceEnds, OfService
    PROVE  Apart /\ SessionsCurrent'
<1>t. StoreTypeOK /\ ServiceInv /\ ServiceTypeOK
  BY DEF TypeInv, ServiceInv
<1>0. UNCHANGED workerVars /\ \A l \in Leases : PlanCurrent(l)'
  BY DEF OfService, Orderly, TickQuiet, Ticking, PlanCurrent
<1>a. faults \in 0..faults
  BY <1>t, BoundsAssumption DEF StoreTypeOK
<1>1. ASSUME NEW k \in Leases, NEW effect \in {"allow", "require_approval", "deny"},
             Request(k, effect), CallsQuiet
      PROVE  Apart /\ SessionsCurrent'
  <2>1. /\ rows[k].state = "absent" /\ rows' = [rows EXCEPT ![k] = Requested(effect)]
        /\ UNCHANGED <<bindings, faults, call>>
    BY <1>1 DEF Request
  <2>2. /\ Requested(effect).state \in {"pending", "awaiting_approval", "rejected"}
        /\ Requested(effect).activated = FALSE /\ Requested(effect).attempts = 0
    BY DEF Requested, NoRow
  <2>3. /\ Loose(k) /\ Inserted(k) /\ rows'[k].attempts = 0
        /\ \A l \in Leases : l # k => rows'[l] = rows[l]
    BY <1>t, <2>1, <2>2 DEF Loose, Inserted, StoreTypeOK, PROVISION_STATES, TEARDOWN_STATES
  <2>4. \A c \in Callers : CallCurrent(c)'
    BY <1>1, <2>1 DEF Orderly, CallsQuiet, CallCurrent
  <2> QED
    BY <1>0, <1>a, <2>1, <2>3, <2>4 DEF Apart, Life, Rests, SessionsCurrent
<1>2. ASSUME NEW c \in Callers, NEW op \in Ops, NEW k \in Leases, CallBegins(c, op, k),
             CallsQuiet
      PROVE  Apart /\ SessionsCurrent'
  <2>1. \A d \in Callers : call[d] = NoCall
    BY <1>2 DEF Orderly, CallsQuiet
  <2>2. \A d \in Callers : CallCurrent(d)'
    BY <1>2, <1>t, <2>1, CallBeginsCurrent, ChoicesAssumption
  <2>3. UNCHANGED storeVars
    BY <1>2 DEF CallBegins
  <2> QED
    BY <1>0, <1>a, <2>2, <2>3 DEF storeVars, Apart, Life, Rests, SessionsCurrent
<1>3. ASSUME NEW c \in Callers, CallEnds(c)
      PROVE  Apart /\ SessionsCurrent'
  <2>1. call[c] # NoCall
    BY <1>3 DEF CallEnds, Approve, Reject, Renew, Revoke, RetryTeardown, Commit, CallAborts,
                NoCall
  <2> DEFINE k == call[c].lease
  <2>2. /\ Life(k)
        /\ \/ rows'[k].attempts = 0
           \/ /\ rows'[k].attempts = rows[k].attempts
              /\ \/ rows'[k].state = rows[k].state
                 \/ rows'[k].state \notin PROVISION_STATES \cup TEARDOWN_STATES
        /\ \A l \in Leases : l # k => rows'[l] = rows[l]
        /\ UNCHANGED <<bindings, faults>>
    BY <1>3, <1>t, <2>1, CallEndsLives
  <2>3. Loose(k)
    BY <2>1, CallsAskLoose
  <2>4. call' = [call EXCEPT ![c] = NoCall]
    BY <1>3 DEF CallEnds, Approve, Reject, Renew, Revoke, RetryTeardown, Commit, CallAborts
  <2>5. \A d \in Callers : d # c => call[d] = NoCall
    BY <2>1 DEF SessionsCurrent, CallCurrent
  <2>6. \A d \in Callers : CallCurrent(d)'
    BY <1>t, <2>4, <2>5 DEF CallCurrent, ServiceTypeOK
  <2> HIDE DEF k
  <2> QED
    BY <1>0, <1>a, <2>2, <2>3, <2>6 DEF Apart, Life, Rests, SessionsCurrent
<1> QED
  BY <1>1, <1>2, <1>3 DEF ServiceBegins, ServiceEnds

LEMMA ServiceGood ==
    ASSUME TypeInv, EngineInv, Undisturbed,
           (ServiceBegins /\ CallsQuiet) \/ ServiceEnds, OfService
    PROVE  Good
<1>1. Apart /\ SessionsCurrent'
  BY ServiceApart DEF EngineInv, Undisturbed
<1> QED
  BY <1>1, ApartGood DEF TypeInv, OfService, reconcilerVars

-----------------------------------------------------------------------------
(* The clock, the provider, the ticker, and the sweep that never starts.   *)

LEMMA ClockGood ==
    ASSUME TypeInv, EngineInv, Undisturbed, ClockNext, OfClock
    PROVE  Good
<1>0. /\ UNCHANGED <<workerVars, call, plan, reconcilerVars>> /\ CallsQuiet /\ TickQuiet
      /\ StoreTypeOK
  BY DEF OfClock, TypeInv
<1>1. SessionsCurrent'
  BY <1>0, QuietKept DEF Undisturbed
<1>2. /\ bindings' = bindings
      /\ \A l \in Leases :
            /\ rows'[l].state = rows[l].state
            /\ rows'[l].activated = rows[l].activated
            /\ rows'[l] = rows[l] \/ rows[l].next = "later" \/ rows[l].state \in USABLE_STATES
  BY <1>0 DEF ClockNext, RetryFallsDue, DeadlineNears, RowMatures, ApprovalLapses, Undisturbed,
              StoreTypeOK, Row
<1>3. \A l \in Leases : rows'[l] = rows[l] \/ \A w \in Workers : held[w] # l
  BY <1>2 DEF EngineInv, InHand, PROVISION_STATES, TEARDOWN_STATES, USABLE_STATES
<1>4. \A w \in Workers : InHand(w)'
  BY <1>0, <1>2, <1>3 DEF EngineInv, InHand, workerVars
<1>5. \A l \in Leases : Life(l)
  BY <1>2 DEF Life, Rests
<1> QED
  BY <1>0, <1>1, <1>4, <1>5 DEF Good, EngineInv, reconcilerVars

\* What sessions know does not hang on anything but the store.
LEMMA SessionsStill ==
    ASSUME SessionsCurrent, UNCHANGED <<storeVars, call, plan>>
    PROVE  SessionsCurrent'
<1>1. \A c \in Callers : CallCurrent(c)'
  BY DEF SessionsCurrent, CallCurrent, Accepts, Approvable, Rejectable, Renewable, Revocable,
         Retriable, AllOps, storeVars
<1>2. ASSUME NEW l \in Leases PROVE PlanCurrent(l)'
  <2>1. rows' = rows /\ approval' = approval /\ plan' = plan /\ PlanCurrent(l)
    BY DEF storeVars, SessionsCurrent
  <2>2. Pass(l)' = Pass(l) /\ Touched(l)' = Touched(l) /\ Lapses(l)' = Lapses(l)
    BY <2>1 DEF Pass, Touched, Lapses, Warns, Expires, Unscheduled, Rejected, Requeued,
                Expired, Warned
  <2> QED
    BY <2>1, <2>2 DEF PlanCurrent
<1> QED
  BY <1>1, <1>2 DEF SessionsCurrent

LEMMA StillGood ==
    ASSUME EngineInv, UNCHANGED <<storeVars, workerVars, call, plan, reconcilerVars>>
    PROVE  Good
<1>1. \A w \in Workers : InHand(w)'
  BY DEF EngineInv, InHand, storeVars, workerVars
<1>2. \A l \in Leases : Life(l)
  BY DEF Life, Rests, storeVars
<1>3. SessionsCurrent'
  BY SessionsStill DEF EngineInv
<1> QED
  BY <1>1, <1>2, <1>3 DEF Good, EngineInv, reconcilerVars

\* What a pass makes of a lease it touches.
LEMMA PassEffect ==
    ASSUME NEW l \in Leases, rows[l] \in Row, Touched(l)
    PROVE  \/ /\ rows[l].state \in USABLE_STATES /\ Pass(l).state = "expiring"
              /\ Pass(l).attempts = rows[l].attempts
           \/ /\ rows[l].state \in USABLE_STATES /\ Pass(l).state = "expired"
              /\ Pass(l).attempts = 0
           \/ /\ Unscheduled(l) /\ Pass(l).state = rows[l].state /\ Pass(l).attempts = 0
           \/ /\ rows[l].state = "awaiting_approval" /\ Pass(l).state = "rejected"
              /\ Pass(l).attempts = rows[l].attempts
<1> DEFINE c == View(rows[l])
<1>0. c \in Copy /\ c.state = rows[l].state /\ c.attempts = rows[l].attempts
  BY ViewIsCopy DEF View
<1> HIDE DEF c
<1>1. CASE rows[l].state \in USABLE_STATES
  <2>1. ~Unscheduled(l) /\ ~Lapses(l) /\ (Warns(l) \/ Expires(l))
    BY <1>1 DEF Touched, Unscheduled, Lapses, USABLE_STATES, TEARDOWN_INTENT_STATES
  <2>2. Pass(l) = Expired(l, Warned(l, c))
    BY <2>1 DEF Pass, Rejected, Requeued, c
  <2>3. /\ Warned(l, c) \in Copy /\ Warned(l, c).attempts = c.attempts
        /\ Warns(l) => Warned(l, c).state = "expiring"
    BY <1>0 DEF Warned, Copy, LeaseState
  <2> QED
    BY <1>0, <1>1, <2>1, <2>2, <2>3 DEF Expired, Queued, Copy
<1>2. CASE Unscheduled(l)
  <2>1. ~Warns(l) /\ ~Expires(l) /\ ~Lapses(l)
    BY <1>2 DEF Unscheduled, Warns, Expires, Lapses, USABLE_STATES, TEARDOWN_INTENT_STATES
  <2> QED
    BY <1>0, <1>2, <2>1 DEF Pass, Rejected, Requeued, Expired, Warned, Queued, Copy, c
<1>3. CASE Lapses(l)
  <2>1. ~Warns(l) /\ ~Expires(l) /\ ~Unscheduled(l)
    BY <1>3 DEF Unscheduled, Warns, Expires, Lapses, USABLE_STATES, TEARDOWN_INTENT_STATES
  <2>2. Pass(l) = [c EXCEPT !.state = "rejected", !.next = "none"]
    BY <1>3, <2>1 DEF Pass, Rejected, Requeued, Expired, Warned, c
  <2> QED
    BY <1>0, <1>3, <2>2 DEF Lapses, Copy
<1> QED
  BY <1>1, <1>2, <1>3 DEF Touched, Warns, Expires, USABLE_STATES

LEMMA PassLives ==
    ASSUME StoreTypeOK, TickerInv, SessionsCurrent, TickCommits, NEW l \in Leases
    PROVE  /\ Life(l)
           /\ rows'[l] = rows[l] \/ Loose(l)
           /\ \/ rows'[l].attempts = 0
              \/ /\ rows'[l].attempts = rows[l].attempts
                 /\ \/ rows'[l].state = rows[l].state
                    \/ rows'[l].state \notin PROVISION_STATES \cup TEARDOWN_STATES
<1>1. /\ rows'[l] = Flush(rows[l], plan[l].loaded, plan[l].mine)
      /\ Committable(plan[l].loaded, plan[l].mine)
      /\ rows[l] \in Row /\ bindings' = bindings /\ PlanCurrent(l)
  BY DEF TickCommits, TickerInv, StoreTypeOK, SessionsCurrent
<1>2. CASE plan[l] = NoPlan
  <2>1. rows'[l] = rows[l]
    BY <1>1, <1>2, FlushNothing DEF NoPlan
  <2> QED
    BY <1>1, <2>1 DEF Life, Rests
<1>3. CASE plan[l] # NoPlan
  <2>1. /\ Touched(l) /\ plan[l].loaded = View(rows[l]) /\ plan[l].mine = Pass(l)
    BY <1>1, <1>3 DEF PlanCurrent
  <2>2. /\ rows'[l].state = Pass(l).state /\ rows'[l].attempts = Pass(l).attempts
        /\ rows'[l].activated = rows[l].activated
    BY <1>1, <2>1, FlushFresh
  <2>3. Loose(l)
    BY <2>1 DEF Loose, Touched, Warns, Expires, Unscheduled, Lapses, PROVISION_STATES,
                TEARDOWN_STATES, USABLE_STATES, TEARDOWN_INTENT_STATES
  <2> QED
    BY <1>1, <2>1, <2>2, <2>3, PassEffect
       DEF Life, Rests, Moved, Unscheduled, USABLE_STATES, TEARDOWN_INTENT_STATES,
           PROVISION_STATES, TEARDOWN_STATES
<1> QED
  BY <1>2, <1>3

LEMMA TickerApart ==
    ASSUME TypeInv, SessionsCurrent, Orderly, TickerNext, OfTicker
    PROVE  Apart /\ SessionsCurrent'
<1>0. /\ UNCHANGED workerVars /\ StoreTypeOK /\ TickerInv
      /\ \A c \in Callers : CallCurrent(c)'
  BY DEF OfTicker, TypeInv, Orderly, CallsQuiet, CallCurrent
<1>1. CASE TickReads
  <2>1. rows' = rows /\ approval' = approval /\ bindings' = bindings /\ faults' = faults
    BY <1>1 DEF TickReads, storeVars
  <2>2. ASSUME NEW l \in Leases PROVE PlanCurrent(l)'
    <3>1. Pass(l)' = Pass(l) /\ Touched(l)' = Touched(l) /\ Lapses(l)' = Lapses(l)
      BY <2>1 DEF Pass, Touched, Lapses, Warns, Expires, Unscheduled, Rejected, Requeued,
                  Expired, Warned
    <3>2. plan'[l] = IF Touched(l)
                     THEN [loaded |-> View(rows[l]), mine |-> Pass(l), lapse |-> Lapses(l)]
                     ELSE NoPlan
      BY <1>1 DEF TickReads, Pass
    <3> QED
      BY <2>1, <3>1, <3>2 DEF PlanCurrent
  <2>3. faults \in 0..faults
    BY <1>0, BoundsAssumption DEF StoreTypeOK
  <2> QED
    BY <1>0, <2>1, <2>2, <2>3 DEF Apart, Life, Rests, SessionsCurrent
<1>2. CASE TickCommits \/ TickAborts
  <2>1. \A l \in Leases : PlanCurrent(l)'
    BY <1>2 DEF TickCommits, TickAborts, PlanCurrent
  <2>2. faults' \in 0..faults /\ bindings' = bindings
    BY <1>0, <1>2, BoundsAssumption DEF TickCommits, TickAborts, StoreTypeOK
  <2>3. \A l \in Leases :
           /\ Life(l)
           /\ rows'[l] = rows[l] \/ Loose(l)
           /\ \/ rows'[l].attempts = 0
              \/ /\ rows'[l].attempts = rows[l].attempts
                 /\ \/ rows'[l].state = rows[l].state
                    \/ rows'[l].state \notin PROVISION_STATES \cup TEARDOWN_STATES
    BY <1>0, <1>2, PassLives DEF TickAborts, Life, Rests
  <2> QED
    BY <1>0, <2>1, <2>2, <2>3 DEF Apart, SessionsCurrent
<1> QED
  BY <1>1, <1>2 DEF TickerNext

LEMMA TickerGood ==
    ASSUME TypeInv, EngineInv, Undisturbed, TickerNext, OfTicker
    PROVE  Good
<1>1. Apart /\ SessionsCurrent'
  BY TickerApart DEF EngineInv, Undisturbed
<1> QED
  BY <1>1, ApartGood DEF TypeInv, OfTicker, reconcilerVars

LEMMA WorkerGood ==
    ASSUME TypeInv, EngineInv, Undisturbed, WorkerNext, OfWorker
    PROVE  Good
<1>0. /\ UNCHANGED <<call, plan, reconcilerVars>> /\ CallsQuiet /\ TickQuiet
      /\ StoreTypeOK /\ WorkerInv
  BY DEF OfWorker, TypeInv
<1>1. SessionsCurrent'
  BY <1>0, QuietKept DEF Undisturbed
<1>2. /\ \A v \in Workers : InHand(v)'
      /\ \A l \in Leases : Life(l)
  <2>1. ASSUME NEW w \in Workers, NEW l \in Leases,
               NEW queue \in {"provision", "teardown"}, Claim(w, l, queue)
        PROVE  Lives(w)
    BY <1>0, <2>1, ClaimLives
  <2>2. ASSUME NEW w \in Workers, Handle(w) \/ Abandon(w) PROVE Lives(w)
    BY <1>0, <2>2, HandlerLives
  <2> QED
    BY <1>0, <2>1, <2>2, ClaimAgesLives DEF WorkerNext, Lives
<1> QED
  BY <1>0, <1>1, <1>2 DEF Good, EngineInv, reconcilerVars

LEMMA SweepNever ==
    ASSUME EngineInv, Undisturbed
    PROVE  ~ReconcilerNext
  BY DEF EngineInv, Undisturbed, ReconcilerNext, SweepProceeds, TakeSnapshot, ListManaged,
         OrphansDone, RereadAll, WriteDrift, DestroyOrphan, Ask, SweepAborts

-----------------------------------------------------------------------------

LEMMA EngineStep ==
    Undisturbed => (TypeInv /\ EngineInv /\ [Next]_vars => Good)
<1> SUFFICES ASSUME Undisturbed, TypeInv, EngineInv, [Next]_vars PROVE Good
  OBVIOUS
<1>1. CASE (ProviderNext /\ OfProvider) \/ UNCHANGED vars
  BY <1>1, StillGood DEF OfProvider, vars
<1>2. CASE ClockNext /\ OfClock
  BY <1>2, ClockGood
<1>3. CASE WorkerNext /\ OfWorker
  BY <1>3, WorkerGood
<1>4. CASE (ServiceBegins /\ OfService /\ CallsQuiet) \/ (ServiceEnds /\ OfService)
  BY <1>4, ServiceGood
<1>5. CASE TickerNext /\ OfTicker
  BY <1>5, TickerGood
<1>6. CASE ReconcilerNext /\ OfReconciler
  BY <1>6, SweepNever
<1> QED
  BY <1>1, <1>2, <1>3, <1>4, <1>5, <1>6 DEF Next

\* What every session knows of its row holds throughout: the conditional claim,
\* the one transaction of a pass and of a call keep it.
THEOREM EngineInvariant ==
    ASSUME Undisturbed
    PROVE  Spec => []EngineInv
<1>1. TypeInv /\ EngineInv /\ [Next]_vars => EngineInv'
  BY EngineStep DEF Good
<1> QED
  BY <1>1, EngineInit, TypeInvInvariant, PTL DEF Spec

\* Every lease lives one life, whoever moves it: the row of a lease changes state
\* only along it, and is put in use, failed or released only by the worker that
\* has it in hand.
LivesOneLife == [][\A l \in Leases : Life(l)]_vars

\* Every lease lives one life: each step of each handler is one step along it, or
\* leaves the lease at rest.
THEOREM LivesOneLifeHolds ==
    ASSUME Undisturbed
    PROVE  Spec => LivesOneLife
<1>1. TypeInv /\ EngineInv /\ [Next]_vars => \A l \in Leases : Life(l)
  BY EngineStep DEF Good
<1> QED
  BY <1>1, EngineInvariant, TypeInvInvariant, PTL DEF Spec, LivesOneLife

-----------------------------------------------------------------------------
(* What follows from one life.                                             *)

\* A lease in use was activated and has one open binding; one that was never in
\* use, or is released, has none.
LifeInv ==
    \A l \in Leases :
        /\ rows[l].state \in USABLE_STATES =>
              rows[l].activated /\ \E n : bindings[l].open = {n}
        /\ rows[l].state \in PROVISION_STATES \cup TERMINAL_STATES
                             \cup {"absent", "awaiting_approval"}
           => bindings[l].open = {}

LEMMA LifeStep ==
    ASSUME LifeInv, \A l \in Leases : Life(l)
    PROVE  LifeInv'
<1> SUFFICES ASSUME NEW l \in Leases
             PROVE  /\ rows'[l].state \in USABLE_STATES =>
                          rows'[l].activated /\ \E n : bindings'[l].open = {n}
                    /\ rows'[l].state \in PROVISION_STATES \cup TERMINAL_STATES
                                          \cup {"absent", "awaiting_approval"}
                       => bindings'[l].open = {}
  BY DEF LifeInv
<1>1. CASE Rests(l)
  BY <1>1 DEF LifeInv, Rests
<1>2. CASE Inserted(l) \/ Moved(l)
  BY <1>2 DEF LifeInv, Inserted, Moved, TERMINAL_STATES, PROVISION_STATES, TEARDOWN_STATES,
              USABLE_STATES, TEARDOWN_INTENT_STATES
<1>3. CASE Closes(l)
  <2>1. PICK w \in Workers : InUse(w, l) \/ Failed(w, l) \/ Released(w, l)
    BY <1>3 DEF Closes
  <2>2. CASE InUse(w, l)
    <3>1. bindings'[l].open = {bindings[l].sealed + 1}
      BY <2>2 DEF LifeInv, InUse
    <3> QED
      BY <2>2, <3>1 DEF InUse, PROVISION_STATES, TERMINAL_STATES
  <2>3. CASE Failed(w, l)
    BY <2>3 DEF LifeInv, Failed, USABLE_STATES
  <2>4. CASE Released(w, l)
    BY <2>4 DEF Released, USABLE_STATES
  <2> QED
    BY <2>1, <2>2, <2>3, <2>4
<1> QED
  BY <1>1, <1>2, <1>3 DEF Life

\* Where on its life a lease stands can be read from its row (worker.py _activate
\* stamps activated_at, _release revokes the bindings).
THEOREM LifeInvariant ==
    ASSUME Undisturbed
    PROVE  Spec => []LifeInv
<1>1. Init => LifeInv
  <2> SUFFICES ASSUME Init, NEW l \in Leases
               PROVE  rows[l].state = "absent" /\ bindings[l].open = {}
    BY DEF LifeInv, USABLE_STATES
  <2> QED
    BY DEF Init, StoreInit, NoRow
<1>2. LifeInv /\ [\A l \in Leases : Life(l)]_vars => LifeInv'
  BY LifeStep DEF LifeInv, vars, storeVars
<1> QED
  BY <1>1, <1>2, LivesOneLifeHolds, PTL DEF Spec, LivesOneLife

\* What _provision_progress makes of each state.
LEMMA Verdicts ==
    ASSUME NEW row \in Row
    PROVE  LET verdict == LastOperation(row, "provision") IN
           /\ row.state = "absent" => verdict = "missing"
           /\ row.state \in PROVISION_STATES \cup {"awaiting_approval"} =>
                 verdict = "in progress"
           /\ row.state \in USABLE_STATES => verdict = "succeeded"
           /\ row.state \in TEARDOWN_STATES \cup {"failed", "orphaned", "released"} =>
                 verdict = IF row.activated THEN "succeeded" ELSE "failed"
<1>0. row.state # "absent" => LastOperation(row, "provision") = ProvisionProgress(row)
  BY DEF LastOperation
<1>1. CASE row.state = "absent"
  BY <1>1 DEF LastOperation, PROVISION_STATES, TEARDOWN_STATES, USABLE_STATES
<1>2. CASE row.state \in PROVISION_STATES \cup {"awaiting_approval"}
  <2>1. ProvisionProgress(row) = "in progress"
    BY <1>2 DEF ProvisionProgress, PROVISION_STATES, USABLE_STATES
  <2> QED
    BY <1>0, <1>2, <2>1 DEF PROVISION_STATES, TEARDOWN_STATES, USABLE_STATES
<1>3. CASE row.state \in USABLE_STATES
  <2>1. ProvisionProgress(row) = "succeeded"
    BY <1>3 DEF ProvisionProgress, USABLE_STATES
  <2> QED
    BY <1>0, <1>3, <2>1 DEF PROVISION_STATES, TEARDOWN_STATES, USABLE_STATES
<1>4. CASE row.state \in TEARDOWN_STATES \cup {"failed", "orphaned", "released"}
  <2>1. ProvisionProgress(row) = IF row.activated THEN "succeeded" ELSE "failed"
    BY <1>4 DEF ProvisionProgress, TEARDOWN_STATES, USABLE_STATES
  <2> QED
    BY <1>0, <1>4, <2>1 DEF PROVISION_STATES, TEARDOWN_STATES, USABLE_STATES
<1> QED
  BY <1>1, <1>2, <1>3, <1>4

\* The last word of last_operation about a creation stands (osb/router.py
\* _provision_progress).
THEOREM ProvisionVerdictStandsHolds ==
    ASSUME Undisturbed
    PROVE  Spec => ProvisionVerdictStands
<1> DEFINE Stands(l) ==
             LastOperation(rows[l], "provision") \in {"succeeded", "failed"}
             => LastOperation(rows'[l], "provision") = LastOperation(rows[l], "provision")
<1>1. ASSUME TypeInv, TypeInv', LifeInv, NEW l \in Leases, Life(l)
      PROVE  Stands(l)
  <2>1. /\ rows[l] \in Row /\ rows'[l] \in Row
        /\ rows[l].state \in USABLE_STATES => rows[l].activated
    BY <1>1 DEF TypeInv, StoreTypeOK, LifeInv
  <2>2. CASE Rests(l)
    BY <2>2 DEF Rests, LastOperation, ProvisionProgress
  <2>3. CASE Inserted(l) \/ rows[l].state \in PROVISION_STATES \cup {"awaiting_approval"}
    BY <2>1, <2>3, Verdicts DEF Inserted
  <2>4. CASE Moved(l)
    <3>1. CASE rows[l].state \in USABLE_STATES
      <4>1. /\ rows'[l].activated = rows[l].activated
            /\ rows'[l].state \in USABLE_STATES \cup TEARDOWN_STATES
        BY <2>4, <3>1 DEF Moved, PROVISION_STATES, TEARDOWN_STATES, USABLE_STATES,
                          TEARDOWN_INTENT_STATES
      <4> QED
        BY <2>1, <3>1, <4>1, Verdicts
    <3>2. CASE rows[l].state \in TEARDOWN_STATES
      <4>1. /\ rows'[l].activated = rows[l].activated
            /\ rows'[l].state \in TEARDOWN_STATES \cup {"orphaned"}
        BY <2>4, <3>2 DEF Moved, PROVISION_STATES, TEARDOWN_STATES, USABLE_STATES
      <4> QED
        BY <2>1, <3>2, <4>1, Verdicts
    <3> QED
      BY <2>3, <2>4, <3>1, <3>2 DEF Moved
  <2>5. CASE Closes(l)
    <3>1. CASE \E w \in Workers : Released(w, l)
      BY <2>1, <3>1, Verdicts DEF Released
    <3> QED
      BY <2>3, <2>5, <3>1 DEF Closes, InUse, Failed
  <2> QED
    BY <1>1, <2>2, <2>3, <2>4, <2>5 DEF Life
<1>2. TypeInv /\ TypeInv' /\ LifeInv /\ [\A l \in Leases : Life(l)]_vars
      => [\A l \in Leases : Stands(l)]_vars
  BY <1>1
<1> QED
  BY <1>2, LivesOneLifeHolds, LifeInvariant, TypeInvInvariant, PTL
     DEF LivesOneLife, ProvisionVerdictStands
=============================================================================
