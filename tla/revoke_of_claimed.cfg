\* A client revokes a lease that is PENDING while a worker is provisioning it.
SPECIFICATION Spec
CONSTANTS
    Leases = {l1}
    Workers = {w1}
    NoWorker = NoWorker
    Callers = {c1}
    NoLease = NoLease
    MaxAttempts = 2
    MaxRenewals = 1
    MaxFaults = 0
    Ops = {"revoke"}
    RevocableIn = {"pending"}
    Events = {}
PROPERTIES
    TerminalIsFinal
\* When every lease is closed, the broker rests.
CHECK_DEADLOCK FALSE
