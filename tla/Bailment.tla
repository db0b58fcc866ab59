------------------------------ MODULE Bailment ------------------------------
(***************************************************************************)
(* The engine of the broker: the workers, the lease ticker, the reconciler *)
(* and the calls of clients, all on one lease table and one provider.      *)
(* Nobody talks to anybody else except through those two.                  *)
(***************************************************************************)
EXTENDS Worker, LeaseService, LeaseTicker, Reconciler, FiniteSets

vars == <<storeVars, providerVars, workerVars, call, plan, reconcilerVars>>

Init ==
    /\ StoreInit /\ ProviderInit /\ WorkerInit
    /\ ServiceInit /\ TickerInit /\ ReconcilerInit

\* A short SELECT ... commit window that, in this instance, nothing falls into.
CallsQuiet  == "overlap_api" \in Events \/ \A c \in Callers : call[c] = NoCall
TickQuiet   == "overlap_ticker" \in Events \/ ~Ticking
SweepQuiet  == "overlap_reconciler" \in Events \/ sweep # "write"

\* Ages count from the start of a sweep, which is shorter than the grace period
\* (10 minutes), and so is a handler that cannot outlive CLAIM_TTL (5 minutes):
\* neither what a running handler made nor what was made or activated under a
\* running sweep comes of age before it is over.
AgesInOrder ==
    /\ \/ "claim_outlived" \in Events
       \/ \A w \in Workers : held[w] \notin aged' \ aged
    /\ \/ "slow_sweep" \in Events \/ sweep = "idle"
       \/ aged' \subseteq aged /\ \A l \in Leases : rows'[l].age = rows[l].age

\* What a step of each part leaves alone, beyond what its own actions say, and
\* whose windows it may fall into.
OfClock ==
    /\ CallsQuiet /\ TickQuiet /\ SweepQuiet
    /\ UNCHANGED <<providerVars, workerVars, call, plan, reconcilerVars>>
    /\ AgesInOrder
OfProvider ==
    /\ CallsQuiet /\ TickQuiet /\ SweepQuiet
    /\ UNCHANGED <<storeVars, workerVars, call, plan, reconcilerVars>>
    /\ AgesInOrder
OfWorker ==
    /\ CallsQuiet /\ TickQuiet /\ SweepQuiet
    /\ UNCHANGED <<call, plan, reconcilerVars>>
OfService ==
    /\ TickQuiet /\ SweepQuiet
    /\ UNCHANGED <<providerVars, workerVars, plan, reconcilerVars>>
OfTicker ==
    /\ CallsQuiet /\ SweepQuiet
    /\ UNCHANGED <<providerVars, workerVars, call, reconcilerVars>>
OfReconciler ==
    /\ CallsQuiet /\ TickQuiet
    /\ UNCHANGED <<workerVars, call, plan>>

Next ==
    \/ ClockNext /\ OfClock
    \/ ProviderNext /\ OfProvider
    \/ WorkerNext /\ OfWorker
    \/ ServiceBegins /\ OfService /\ CallsQuiet
    \/ ServiceEnds /\ OfService
    \/ TickerNext /\ OfTicker
    \/ ReconcilerNext /\ OfReconciler

Spec == Init /\ [][Next]_vars

-----------------------------------------------------------------------------
(* Scheduling.  run_forever of the ticker and of the worker come back every *)
(* interval, absorb every exception and go through all candidates; a       *)
(* provider call returns (every client has a timeout); time passes.        *)
(* Clients and faults owe nobody anything.  Where a window is quiet it      *)
(* holds up everybody else, which it does not in the code, so fairness is   *)
(* strong: a window that closes again starves nobody.                      *)

ClaimSome(l) ==
    \E w \in Workers, queue \in {"provision", "teardown"} : Claim(w, l, queue)

Fairness ==
    /\ \A l \in Leases :
          /\ SF_vars(RetryFallsDue(l) /\ OfClock)
          /\ SF_vars(DeadlineNears(l) /\ OfClock)
          /\ SF_vars(ApprovalLapses(l) /\ OfClock)
          /\ SF_vars(ClaimAges(l) /\ OfWorker)
          /\ SF_vars(ClaimSome(l) /\ OfWorker)
    /\ \A w \in Workers : SF_vars(Handle(w) /\ OfWorker)
    /\ \A c \in Callers : WF_vars(CallEnds(c) /\ OfService)
    /\ SF_vars(TickReads /\ OfTicker)
    /\ SF_vars(TickCommits /\ OfTicker)

FairSpec == Spec /\ Fairness

-----------------------------------------------------------------------------
(* Safety, whatever overlaps with whatever.                                *)

\* Every variable keeps its shape.
TypeOK ==
    /\ StoreTypeOK /\ ProviderTypeOK /\ WorkerTypeOK
    /\ ServiceTypeOK /\ TickerTypeOK /\ ReconcilerTypeOK

Unapproved(l) == rows[l].effect # "allow" /\ l \notin approvals

\* The approval gate holds against every overlap of approvers, the deadline
\* sweep, revocations, workers and the reconciler: until an approval is in the
\* audit trail, a request the policy did not allow outright is in no worker's
\* hands and has nothing at the provider, nor a create on its way there.
ApprovalGate ==
    \A l \in Leases : Unapproved(l) =>
        /\ l \notin resources \cup wire
        /\ \A w \in Workers : held[w] # l

\* No overlap leaves a lease where nothing looks for it: one that is neither
\* closed nor shown to a human as an orphan is in one of the worker's queues, or
\* has a deadline the ticker expires it by, or an approval row somebody can
\* still decide or the ticker lapse.  UNKNOWN, which both _route and
\* _to_orphaned pass through, is watched by none of them.
NothingStranded ==
    \A l \in Leases :
        \/ rows[l].state \in {"absent", "orphaned"} \cup TERMINAL_STATES
        \/ rows[l].state \in PROVISION_STATES \cup TEARDOWN_STATES
        \/ rows[l].state \in USABLE_STATES /\ rows[l].deadline # "unset"
        \/ rows[l].state = "awaiting_approval" /\ approval[l] \in {"open", "lapsed"}

Open(copyOf) == copyOf.state \notin TERMINAL_STATES

\* The commit of a session that had loaded the lease while it was running.
LateCommit(l) ==
    \/ \E w \in Workers : held[w] = l /\ held'[w] # l /\ at[w] # "claimed" /\ Open(copy[w])
    \/ \E c \in Callers : call[c].lease = l /\ call'[c] = NoCall /\ Open(call[c].copy)
    \/ plan[l] # NoPlan /\ plan'[l] = NoPlan /\ Open(plan[l].loaded)
    \/ sweep = "write" /\ sweep' = "idle" /\ l \in intended /\ Open(reread[l].copy)

\* A lease that has ended is written back to life, or to another end, only by the
\* late commit of a session that was under way when it ended.  Nobody who finds a
\* lease closed decides anything about it: not a client that asks for the wrong
\* thing, not a pass of the ticker, not a sweep, and not a worker whose claim
\* came too late.
OnlyTheLateRevive ==
    [][\A l \in Leases :
          rows[l].state \in TERMINAL_STATES /\ rows'[l].state # rows[l].state
          => LateCommit(l)]_vars

-----------------------------------------------------------------------------
(* Safety that rests on the windows being quiet (see README).              *)

\* The claim is exclusive: two handlers never work on one lease, across crashes,
\* stale claims being stolen, retries, revocations and renewals.
ClaimExclusive ==
    \A v, w \in Workers : v # w /\ held[v] = held[w] => held[v] = NoLease

\* A lease recorded as RELEASED or FAILED has nothing at the provider: no
\* half-completed create, failed rollback or failed destroy is ever written
\* down as gone.
ClosedMeansGone ==
    \A l \in Leases : rows[l].state \in {"released", "failed"} => l \notin resources

\* A lease its holder may use has its resource, and exactly one binding that
\* still opens it; a released one has none left.
UsableIsBacked ==
    \A l \in Leases :
        /\ rows[l].state \in USABLE_STATES =>
              l \in resources /\ Cardinality(bindings[l].open) = 1
        /\ rows[l].state = "released" => bindings[l].open = {}

\* Terminal states are final: no session still running when a lease ends ever
\* writes it back to life.
TerminalIsFinal ==
    [][\A l \in Leases : rows[l].state \in TERMINAL_STATES =>
          rows'[l].state = rows[l].state]_vars

\* A crash never refunds the budget: a lease is tried at most MaxAttempts
\* times, and once more for each fault that kept an attempt from being settled.
BudgetKept ==
    \A l \in Leases : rows[l].attempts <= MaxAttempts + (MaxFaults - faults)

\* The orphan sweep acts on an old snapshot and an older list, and yet never
\* destroys a resource whose lease is still running.
SweepSparesTheLiving ==
    [][\A l \in Leases :
          DestroyOrphan(l) /\ l \notin resources' => rows[l].state \in TERMINAL_STATES]_vars

\* Nothing younger than the grace period is destroyed as an orphan, since it may
\* be half way through being provisioned.
YoungAreSpared ==
    [][\A l \in Leases :
          DestroyOrphan(l) /\ l \in resources \ resources' => l \in aged]_vars

\* The reconciler never frees a lease that still has a resource.
ReleasedMeansGone ==
    \A l \in Leases : rows[l].state = "released" => l \notin resources

-----------------------------------------------------------------------------
(* Liveness.                                                               *)

Settles(from, to) ==
    \A l \in Leases : rows[l].state \in from ~> rows[l].state \in to

\* A request cleared for provisioning is not left in flight: it ends up in use,
\* or as a failure, or as an orphan for a human.
RequestsSettle ==
    Settles({"pending", "provisioning"}, LeaseState \ {"pending", "provisioning"})

\* Every lease in use is torn down in the end, whatever is renewed, however
\* often destroys fail and workers crash: it is released or shown as an orphan.
LeasesEnd == Settles(USABLE_STATES, {"released", "orphaned"})

\* An approval request nobody answers does not wait for ever.
ApprovalsSettle ==
    Settles({"awaiting_approval"}, LeaseState \ {"awaiting_approval"})

\* A lease an operator put back in the teardown queue is taken up again.
RetriedTeardownRuns ==
    \A l \in Leases :
        rows[l].state = "orphaned" /\ rows[l].next # "none" ~> rows[l].state # "orphaned"

=============================================================================
