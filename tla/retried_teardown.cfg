\* An operator retries the teardown of an orphan.
SPECIFICATION FairSpec
CONSTANTS
    Leases = {l1}
    Workers = {w1}
    NoWorker = NoWorker
    Callers = {c1}
    NoLease = NoLease
    MaxAttempts = 2
    MaxRenewals = 1
    MaxFaults = 0
    Ops = {"revoke", "retry_teardown"}
    RevocableIn = {"active"}
    Events = {}
PROPERTIES
    RetriedTeardownRuns
\* When every lease is closed, the broker rests.
CHECK_DEADLOCK FALSE
