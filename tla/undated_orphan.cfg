\* A provider whose listings may not say when a resource was made.
SPECIFICATION Spec
CONSTANTS
    Leases = {l1}
    Workers = {w1}
    NoWorker = NoWorker
    Callers = {c1}
    NoLease = NoLease
    MaxAttempts = 1
    MaxRenewals = 0
    MaxFaults = 1
    Ops = {"approve", "reject", "revoke"}
    RevocableIn = {"awaiting_approval", "active", "expiring"}
    Events = {"reconcile", "auto_destroy", "undated", "overlap_reconciler"}
PROPERTIES
    YoungAreSpared
CHECK_DEADLOCK FALSE
