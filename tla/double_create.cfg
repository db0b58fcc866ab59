\* Calls for one lease at a vendor that does not refuse a second resource of one
\* name, when replies may be lost.
SPECIFICATION Spec
CONSTANTS
    Calls = {c1, c2}
    Ids = {1, 2}
    Managed = {ours}
    Others = {theirs}
    NoName = NoName
    Vendors = {"upstash"}
    Sheltered = {}
    MaxSends <- MCMaxSends
    PageSize <- MCPageSize
    MaxPages = 2
    MaxAdrift <- MCNoneAdrift
SYMMETRY Renamings
INVARIANT OneResourceEach
\* Calls may all be over and everything at the vendor as it will stay.
CHECK_DEADLOCK FALSE
