\* Three requests, of the tenant and of the platform's operator, about one
\* instance, between whose database calls anything happens.
SPECIFICATION BrokerSpec
CONSTANTS
    Calls = {c1, c2, c3}
    Requesters = {alice, ops}
    Operators = {ops}
    Keys = {k1}
    Instances = {k1}
    NoKey = NoKey
    Ids = {i1, i2, i3}
    NoId = NoId
    Quota = 1
SYMMETRY Renamings
INVARIANTS
    BrokerTypeOK
    KeyNamesOneLease
    AnswersAreOwn
    LosersAreAnswered
    AcceptedIsFound
\* When every request is answered and every lease closed, nothing is left to do.
CHECK_DEADLOCK FALSE
