\* A worker dies with a resource created, and the next preflight is refused.
SPECIFICATION Spec
CONSTANTS
    Leases = {l1}
    Workers = {w1}
    NoWorker = NoWorker
    Callers = {c1}
    NoLease = NoLease
    MaxAttempts = 2
    MaxRenewals = 1
    MaxFaults = 1
    Ops = {"approve"}
    RevocableIn = {}
    Events = {"preflight_fails"}
INVARIANTS
    ClosedMeansGone
\* When every lease is closed, the broker rests.
CHECK_DEADLOCK FALSE
