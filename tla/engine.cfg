\* Two workers, crashes and outages, and clients that do not interfere with a
\* lease that a worker may be holding, scheduled fairly.
SPECIFICATION FairSpec
CONSTANTS
    Leases = {l1}
    Workers = {w1, w2}
    NoWorker = NoWorker
    Callers = {c1}
    NoLease = NoLease
    MaxAttempts = 2
    MaxRenewals = 1
    MaxFaults = 2
    Ops = {"approve", "reject", "renew", "revoke", "retry_teardown"}
    RevocableIn = {"awaiting_approval", "active", "expiring"}
    Events = {}
INVARIANTS
    ClaimExclusive
    GoneMeansGone
    UsableIsBacked
    BudgetKept
PROPERTIES
    TerminalIsFinal
    ProvisionVerdictStands
    RequestsSettle
    LeasesEnd
    ApprovalsSettle
\* When every lease is closed, the broker rests.
CHECK_DEADLOCK FALSE
