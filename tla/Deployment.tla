----------------------------- MODULE Deployment -----------------------------
(***************************************************************************)
(* The parameters of one deployment of the broker: who takes part, the     *)
(* limits that come from settings and from the golden path, and which of   *)
(* the things a deployment can meet do happen in the instance at hand.     *)
(***************************************************************************)
EXTENDS Naturals

CONSTANTS
    Leases,      \* primary keys; external_name is derived from the key
    Workers,     \* worker processes, each with a worker_id of its own
    NoWorker,    \* claimed_by IS NULL
    Callers,     \* API requests in progress at one time
    NoLease,     \* no lease at hand
    MaxAttempts, \* settings.max_provision_attempts, at least 1
    MaxRenewals, \* the golden path's max_renewals
    MaxFaults,   \* bound: crashes, escaped exceptions, outages, slow calls
    Ops,         \* the lifecycle calls that clients make
    RevocableIn, \* the states of a lease in which clients call revoke
    Events       \* which of AllEvents may happen

AllOps == {"approve", "reject", "renew", "revoke", "retry_teardown"}

\* The overlap_* entries say whose SELECT ... commit window the steps of others
\* may fall into; a part that is not named reads and commits undisturbed.  Every
\* other entry is something the environment or a scheduler does.
AllEvents ==
    {"claim_outlived",    \* a handler may still run when its claim goes stale
     "preflight_fails",   \* a provider may refuse or fail a preflight
     "late_create",       \* a create given up on may still land at the provider
     "external_deletion", \* somebody deletes a resource in the console
     "reconcile",         \* the reconciler runs
     "undated",           \* ... and a listing may leave out when a resource was made
     "auto_destroy",      \* ... with orphan destruction armed
     "slow_sweep",        \* a sweep may take longer than the grace period
     "overlap_api", "overlap_ticker", "overlap_reconciler"}

ASSUME NullsAssumption == NoWorker \notin Workers /\ NoLease \notin Leases
ASSUME BoundsAssumption ==
    MaxAttempts \in Nat \ {0} /\ MaxRenewals \in Nat /\ MaxFaults \in Nat
ASSUME ChoicesAssumption == Ops \subseteq AllOps /\ Events \subseteq AllEvents

=============================================================================
