------------------------------- MODULE Worker -------------------------------
(***************************************************************************)
(* src/bailment/engine/worker.py: ProvisioningWorker.  Every worker handles *)
(* one lease at a time.  It takes the claim with a committed conditional   *)
(* UPDATE, SELECTs the row again, and runs a handler that awaits the       *)
(* provider with the row in memory; what the handler decided reaches the   *)
(* database in the one commit at its end.  `at` is where the handler       *)
(* stands, and between any two of its steps everybody else may step.       *)
(*                                                                         *)
(*   idle -> claimed -> preflight -> creating -> created -> idle           *)
(*                  \                        \-> probing -> undoing ->     *)
(*                   \                                      undone -> idle *)
(*                    \-> destroying -> destroyed -> idle                  *)
(*                    \-> parking -> idle                                  *)
(***************************************************************************)
EXTENDS LeaseStore, Provider

VARIABLES
    at,   \* where each worker's handler stands
    held, \* the lease it handles
    task, \* which queue it took the lease from
    copy, \* the row as its session loaded it
    creds \* the unrevoked bindings loaded with the row

workerVars == <<at, held, task, copy, creds>>

Place == {"idle", "claimed", "parking", "preflight", "creating", "created",
          "probing", "undoing", "undone", "destroying", "destroyed"}

WorkerInit ==
    /\ at = [w \in Workers |-> "idle"]
    /\ held = [w \in Workers |-> NoLease]
    /\ task = [w \in Workers |-> "none"]
    /\ copy = [w \in Workers |-> NoCopy]
    /\ creds = [w \in Workers |-> {}]

WorkerTypeOK ==
    /\ at \in [Workers -> Place]
    /\ held \in [Workers -> Leases \cup {NoLease}]
    /\ task \in [Workers -> {"none", "provision", "teardown"}]
    /\ copy \in [Workers -> Copy]
    /\ creds \in [Workers -> SUBSET Nat]

\* The session is closed: nothing of it is left in memory.
Done(w) ==
    /\ at' = [at EXCEPT ![w] = "idle"]
    /\ held' = [held EXCEPT ![w] = NoLease]
    /\ task' = [task EXCEPT ![w] = "none"]
    /\ copy' = [copy EXCEPT ![w] = NoCopy]
    /\ creds' = [creds EXCEPT ![w] = {}]

\* The handler goes on to its next await; its session keeps what it loaded.
Goto(w, place) ==
    /\ at' = [at EXCEPT ![w] = place]
    /\ UNCHANGED <<held, task, copy, creds>>

OnlyBudget(amount) ==
    /\ faults >= amount
    /\ faults' = faults - amount
    /\ UNCHANGED <<rows, approval, approvals, bindings>>

-----------------------------------------------------------------------------
(* Claiming.                                                               *)

\* _claim: the conditional UPDATE and its commit.
Claim(w, l, queue) ==
    /\ at[w] = "idle"
    /\ rows[l].state \in (IF queue = "provision" THEN PROVISION_STATES
                                                 ELSE TEARDOWN_STATES)
    /\ Claimable(rows[l])
    /\ rows' = [rows EXCEPT ![l].claim = w, ![l].stale = FALSE,
                            ![l].attempts = @ + 1]
    /\ at' = [at EXCEPT ![w] = "claimed"]
    /\ held' = [held EXCEPT ![w] = l]
    /\ task' = [task EXCEPT ![w] = queue]
    /\ UNCHANGED <<copy, creds, approval, approvals, bindings, faults,
                   providerVars>>

\* The SELECT after that commit, with the bindings relationship.
Load(w) ==
    /\ at[w] = "claimed"
    /\ copy' = [copy EXCEPT ![w] = View(rows[held[w]])]
    /\ creds' = [creds EXCEPT ![w] = bindings[held[w]].open]

\* ... and the handler as far as its first await.  A provider that cannot be
\* used parks the lease, whichever the handler.
BeginUnavailable(w) ==
    /\ Load(w)
    /\ at' = [at EXCEPT ![w] = "parking"]
    /\ OnlyBudget(1)
    /\ UNCHANGED <<held, task, providerVars>>

\* _provision: preflight is for a lease that is still PENDING.
BeginProvision(w) ==
    /\ task[w] = "provision"
    /\ Load(w)
    /\ at' = [at EXCEPT ![w] = IF rows[held[w]].state = "pending"
                               THEN "preflight" ELSE "creating"]
    /\ UNCHANGED <<held, task, storeVars, providerVars>>

\* _deprovision: the move to DEPROVISIONING is made in memory only.
BeginTeardown(w) ==
    /\ task[w] = "teardown"
    /\ CanMove(rows[held[w]].state, "deprovisioning")
    /\ Load(w)
    /\ at' = [at EXCEPT ![w] = "destroying"]
    /\ UNCHANGED <<held, task, storeVars, providerVars>>

-----------------------------------------------------------------------------
(* Ends of a handler: what the copy has become, committed.                 *)

\* The state of the copy: both handlers move it before they call the provider.
Mine(w) ==
    IF task[w] = "teardown" THEN "deprovisioning"
    ELSE IF copy[w].state = "pending" /\ at[w] # "preflight" THEN "provisioning"
    ELSE copy[w].state

Settle(w, mine) ==
    /\ rows' = [rows EXCEPT ![held[w]] = Flush(@, copy[w], mine)]
    /\ Done(w)
    /\ UNCHANGED <<approval, approvals, faults>>

\* MUTANT of BackOff: one attempt too many.
BackOffOnceMore(w) ==
    /\ copy[w].attempts <= MaxAttempts
    /\ Settle(w, [copy[w] EXCEPT !.state = Mine(w), !.claim = NoWorker,
                                 !.next = "later"])
    /\ UNCHANGED bindings

\* _provision_failed and _teardown_failed with budget left: the claim is given
\* up and the lease waits, in the state the handler had moved it to.
BackOff(w) ==
    /\ copy[w].attempts < MaxAttempts
    /\ Settle(w, [copy[w] EXCEPT !.state = Mine(w), !.claim = NoWorker,
                                 !.next = "later"])
    /\ UNCHANGED bindings

\* _fail
Fail(w) ==
    /\ CanMove(Mine(w), "failed")
    /\ Settle(w, [copy[w] EXCEPT !.state = "failed", !.claim = NoWorker,
                                 !.next = "none"])
    /\ UNCHANGED bindings

\* MUTANT of Orphan: the detour ends where it was only to pass.
OrphanHalfway(w) ==
    /\ Settle(w, [copy[w] EXCEPT
                    !.state = IF CanMove(Mine(w), "orphaned") THEN "orphaned"
                                                              ELSE "unknown",
                    !.claim = NoWorker, !.next = "none"])
    /\ UNCHANGED bindings

\* _orphan, _to_orphaned
Orphan(w) ==
    /\ CanRoute(Mine(w), "orphaned")
    /\ Settle(w, [copy[w] EXCEPT !.state = "orphaned", !.claim = NoWorker,
                                 !.next = "none"])
    /\ UNCHANGED bindings

\* MUTANT of Park: the attempt is handed back without looking.
ParkBelowZero(w) ==
    /\ at[w] = "parking"
    /\ Settle(w, [copy[w] EXCEPT !.attempts = @ - 1, !.claim = NoWorker,
                                 !.next = "later"])
    /\ UNCHANGED <<bindings, providerVars>>

\* _park: the attempt is handed back.
Park(w) ==
    /\ at[w] = "parking"
    /\ Settle(w, [copy[w] EXCEPT
                    !.attempts = IF @ = 0 THEN 0 ELSE @ - 1,
                    !.claim = NoWorker, !.next = "later"])
    /\ UNCHANGED <<bindings, providerVars>>

-----------------------------------------------------------------------------
(* Provisioning.                                                           *)

PreflightPasses(w) ==
    /\ at[w] = "preflight"
    /\ Goto(w, "creating")
    /\ UNCHANGED <<storeVars, providerVars>>

\* Nothing has been created, so giving up needs no rollback.
PreflightFails(w) ==
    /\ "preflight_fails" \in Events
    /\ at[w] = "preflight"
    /\ BackOff(w) \/ Fail(w)
    /\ UNCHANGED providerVars

CreateLands(w) ==
    /\ at[w] = "creating"
    /\ Create(held[w])
    /\ Goto(w, "created")
    /\ UNCHANGED storeVars

\* create raised, with or without having created.  Retryable with budget left:
\* back off; otherwise roll back.
CreateFails(w) ==
    /\ \/ at[w] = "creating" /\ GiveUpOnCreate(held[w])
       \/ at[w] = "created" /\ UNCHANGED providerVars
    /\ \/ BackOff(w)
       \/ Goto(w, "probing") /\ UNCHANGED storeVars

\* activated_at and expires_at are new instants and are always written.
Started(row) ==
    [row EXCEPT !.activated = TRUE, !.deadline = "ahead",
                !.age = IF row.age = "old" THEN "young" ELSE row.age]

\* _activate: the clock starts, a binding is sealed, the claim is given up.
Activate(w) ==
    LET l == held[w]
        mine == [copy[w] EXCEPT !.state = "active", !.claim = NoWorker,
                                !.next = "none", !.attempts = 0,
                                !.warned = FALSE]
    IN  /\ at[w] = "created"
        /\ CanMove(Mine(w), "active")
        /\ rows' = [rows EXCEPT ![l] = Started(Flush(@, copy[w], mine))]
        /\ bindings' = [bindings EXCEPT ![l] =
                          [sealed |-> @.sealed + 1,
                           open |-> @.open \cup {@.sealed + 1}]]
        /\ Done(w)
        /\ UNCHANGED <<approval, approvals, faults, providerVars>>

\* _roll_back: look first, destroy unless the provider says GONE.
RollBackProbe(w) ==
    /\ at[w] = "probing"
    /\ \/ MaySay(held[w], "gone") /\ Fail(w)
       \/ /\ \E status \in {"exists", "unknown"} : MaySay(held[w], status)
          /\ Goto(w, "undoing")
          /\ UNCHANGED storeVars
    /\ UNCHANGED providerVars

RollBackDestroys(w) ==
    /\ at[w] = "undoing"
    /\ Destroy(held[w])
    /\ Goto(w, "undone")
    /\ UNCHANGED storeVars

RolledBack(w) ==
    /\ at[w] = "undone"
    /\ Fail(w)
    /\ UNCHANGED providerVars

\* MUTANT of RollBackFails: a failed rollback is a failed lease.
RollBackFailsQuietly(w) ==
    /\ at[w] \in {"undoing", "undone"}
    /\ Fail(w)
    /\ UNCHANGED providerVars

\* The destroy raised, before or after it took effect.
RollBackFails(w) ==
    /\ at[w] \in {"undoing", "undone"}
    /\ Orphan(w)
    /\ UNCHANGED providerVars

-----------------------------------------------------------------------------
(* Teardown.                                                               *)

DestroyLands(w) ==
    /\ at[w] = "destroying"
    /\ Destroy(held[w])
    /\ Goto(w, "destroyed")
    /\ UNCHANGED storeVars

\* MUTANT of Release: the bindings are not revoked.
ReleaseOnly(w) ==
    /\ at[w] = "destroyed"
    /\ Settle(w, [copy[w] EXCEPT !.state = "released", !.claim = NoWorker,
                                 !.next = "none"])
    /\ UNCHANGED <<bindings, providerVars>>

\* _release: the bindings loaded with the row are revoked.
Release(w) ==
    /\ at[w] = "destroyed"
    /\ Settle(w, [copy[w] EXCEPT !.state = "released", !.claim = NoWorker,
                                 !.next = "none"])
    /\ bindings' = [bindings EXCEPT ![held[w]].open = @ \ creds[w]]
    /\ UNCHANGED providerVars

DestroyFails(w) ==
    /\ at[w] \in {"destroying", "destroyed"}
    /\ BackOff(w) \/ Orphan(w)
    /\ UNCHANGED providerVars

-----------------------------------------------------------------------------
(* Handlers that never commit.  The claim stays in the row either way.     *)

\* transition() raises IllegalTransition: the row had been moved between the
\* claim's commit and the SELECT.  The exception escapes the handler.
RefusedMove(w) ==
    /\ \/ /\ at[w] = "claimed" /\ task[w] = "teardown"
          /\ ~CanMove(rows[held[w]].state, "deprovisioning")
       \/ at[w] = "created" /\ ~CanMove(Mine(w), "active")
       \/ at[w] = "probing" /\ MaySay(held[w], "gone") /\ ~CanMove(Mine(w), "failed")
       \/ at[w] = "undone" /\ ~CanMove(Mine(w), "failed")
       \/ at[w] \in {"undoing", "undone"} /\ ~CanRoute(Mine(w), "orphaned")
    /\ Done(w)
    /\ UNCHANGED <<storeVars, providerVars>>

\* The process dies, or an exception that is not a ProviderError escapes
\* (preflight, sealing the outputs, the commit itself): _handle rolls back.
Abandon(w) ==
    /\ at[w] # "idle"
    /\ OnlyBudget(1)
    /\ Done(w)
    /\ IF at[w] = "creating" THEN GiveUpOnCreate(held[w])
                             ELSE UNCHANGED providerVars

\* claimed_at passes CLAIM_TTL.  While the claimant is still in its handler
\* this takes a provider call slower than CLAIM_TTL.
ClaimAges(l) ==
    /\ rows[l].claim # NoWorker /\ ~rows[l].stale
    /\ \/ /\ \A w \in Workers : rows[l].claim = w => held[w] # l
          /\ UNCHANGED faults
       \/ /\ "claim_outlived" \in Events
          /\ \E w \in Workers : rows[l].claim = w /\ held[w] = l
          /\ faults > 0 /\ faults' = faults - 1
    /\ rows' = [rows EXCEPT ![l].stale = TRUE]
    /\ UNCHANGED <<approval, approvals, bindings, workerVars, providerVars>>

-----------------------------------------------------------------------------
(* What a worker does of its own accord, and what befalls it.              *)

Begin(w) == BeginUnavailable(w) \/ BeginProvision(w) \/ BeginTeardown(w)

Provisioning(w) ==
    \/ PreflightPasses(w) \/ PreflightFails(w) \/ CreateLands(w)
    \/ CreateFails(w) \/ Activate(w) \/ RollBackProbe(w)
    \/ RollBackDestroys(w) \/ RolledBack(w) \/ RollBackFails(w)

Teardown(w) == DestroyLands(w) \/ Release(w) \/ DestroyFails(w)

Handle(w) ==
    Begin(w) \/ Park(w) \/ Provisioning(w) \/ Teardown(w) \/ RefusedMove(w)

WorkerNext ==
    \/ \E w \in Workers :
          \/ \E l \in Leases, queue \in {"provision", "teardown"} : Claim(w, l, queue)
          \/ Handle(w)
          \/ Abandon(w)
    \/ \E l \in Leases : ClaimAges(l)

=============================================================================
