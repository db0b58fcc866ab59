\* A request against a golden path, with every rule the operands make up.
SPECIFICATION Spec
CONSTANTS
    Equal <- Same
    Ordering <- Order
    HasHash <- Hashable
    Allowed <- Accepts
    ValueOf <- Eval
    Validation <- ValidateInputs
    Spelling <- MCSpelling
    Uppercase <- MCUppercase
    Languages <- MCLanguages
    Found <- MCFound
    Durations <- MCDurations
    Documents <- MCDocuments
    Arrivals <- MCAllArrivals
    Dunder = {"__class__"}
    MaxNodes = 12
    MaxDepth = 4
    MaxElements = 3
    MaxPatternLength = 2
    MaxSubjectLength = 2
    UnboundedStringLimit = 3
    MaxSchemaDepth = 3
    Loads = {0, 1}
    Hours = {0}
    Registered = {"memory"}
    MIN_TTL_SECONDS = 60
INVARIANTS
    FirstMatchDecides
    TraceTellsWhy
    ServedRulesAreKnown
    OptionalInputsAreSafe
    RewritingsAgree
    RowStandsTheSchema
    PolicySawTheRow
\* A request is answered, or turned away.
CHECK_DEADLOCK FALSE
