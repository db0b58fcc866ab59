\* Two calls for one lease at each vendor, beside a request that was given up and that
\* the vendor still handles.
SPECIFICATION Spec
CONSTANTS
    Calls = {c1, c2}
    Ids = {1, 2}
    Managed = {ours}
    Others = {theirs}
    NoName = NoName
    Vendors = {"neon", "upstash", "cloudflare"}
    Sheltered = {"upstash"}
    MaxSends <- MCMaxSends
    PageSize <- MCPageSize
    MaxPages = 2
    MaxAdrift <- MCMaxAdrift
SYMMETRY Renamings
INVARIANT TypeOK
 
\* Calls may all be over and everything at the vendor as it will stay.
CHECK_DEADLOCK FALSE
