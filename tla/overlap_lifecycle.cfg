\* Every call in every state, in everybody's windows, over a whole life of a lease.
SPECIFICATION Spec
CONSTANTS
    Leases = {l1}
    Workers = {w1}
    NoWorker = NoWorker
    Callers = {c1}
    NoLease = NoLease
    MaxAttempts = 1
    MaxRenewals = 1
    MaxFaults = 1
    Ops = {"approve", "reject", "renew", "revoke", "retry_teardown"}
    RevocableIn = {"pending", "awaiting_approval", "provisioning", "active", "expiring", "revoked"}
    Events = {"late_create", "claim_outlived", "overlap_api", "overlap_ticker"}
INVARIANTS
    TypeOK
    NothingStranded
    ApprovalGate
PROPERTIES
    OnlyTheLateRevive
\* When every lease is closed, the broker rests.
CHECK_DEADLOCK FALSE
