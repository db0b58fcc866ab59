\* One requester without keys, one request after the other.
SPECIFICATION Spec
CONSTANTS
    Calls = {c1, c2}
    Requesters = {alice}
    Keys = {}
    NoKey = NoKey
    Ids = {i1, i2}
    NoId = NoId
    Quota = 1
INVARIANTS
    QuotaKept
\* When every call is over and every lease closed, nothing is left to do.
CHECK_DEADLOCK FALSE
