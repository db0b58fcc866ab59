\* ... and with the reconciler, orphan destruction armed, whose own windows anybody
\* may fall into.
SPECIFICATION Spec
CONSTANTS
    Leases = {l1}
    Workers = {w1, w2}
    NoWorker = NoWorker
    Callers = {c1}
    NoLease = NoLease
    MaxAttempts = 2
    MaxRenewals = 1
    MaxFaults = 1
    Ops = {"approve", "reject", "renew", "revoke", "retry_teardown"}
    RevocableIn = {"awaiting_approval", "active", "expiring"}
    Events = {"reconcile", "auto_destroy", "preflight_fails", "external_deletion", "overlap_reconciler"}
INVARIANTS
    ReleasedMeansGone
    NothingStranded
PROPERTIES
    SweepSparesTheLiving
\* When every lease is closed, the broker rests.
CHECK_DEADLOCK FALSE
