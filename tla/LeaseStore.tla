----------------------------- MODULE LeaseStore -----------------------------
(***************************************************************************)
(* The durable half of the broker: the leases, approvals, bindings and     *)
(* audit tables (src/bailment/models.py), what a SQLAlchemy session does   *)
(* to a row (src/bailment/db.py), and the columns that change meaning only *)
(* because time passes.                                                    *)
(*                                                                         *)
(* A session SELECTs a row into memory, changes the copy, and at commit    *)
(* issues UPDATE ... WHERE id = ? with only the columns whose value is not *)
(* the one it loaded.  No row is locked and no version is compared, so the *)
(* commit lands whatever happened to the row since the SELECT.  View is    *)
(* what such a session remembers and Flush is that commit.                 *)
(***************************************************************************)
EXTENDS Deployment, LeaseStates, Naturals

VARIABLES
    rows,      \* the leases table
    approval,  \* the approvals table: undecided, past its deadline, or decided
    approvals, \* leases with an "approved" event in the audit trail
    bindings,  \* the bindings table: how many were sealed, which are unrevoked
    faults     \* how many of MaxFaults are left

storeVars == <<rows, approval, approvals, bindings, faults>>

-----------------------------------------------------------------------------
(* Columns.  A timestamp is kept as what the code compares it with.        *)

Row ==
    [state     : LeaseState \cup {"absent"}, \* "absent": not inserted yet
     effect    : {"none", "allow", "require_approval", "deny"}, \* policy_effect
     claim     : Workers \cup {NoWorker},    \* claimed_by
     stale     : BOOLEAN,                    \* claimed_at is over CLAIM_TTL old
     attempts  : Nat,
     next      : {"none", "due", "later"},   \* next_attempt_at
     deadline  : {"unset", "ahead", "near", "past"}, \* expires_at
     warned    : BOOLEAN,                    \* warned_at is set
     activated : BOOLEAN,                    \* activated_at is set
     age       : {"new", "young", "old"},    \* of created_at, then of activated_at
     renewals  : Nat]

NoRow ==
    [state |-> "absent", effect |-> "none", claim |-> NoWorker, stale |-> FALSE,
     attempts |-> 0, next |-> "none", deadline |-> "unset", warned |-> FALSE,
     activated |-> FALSE, age |-> "new", renewals |-> 0]

ApprovalStatus == {"none", "open", "lapsed", "granted", "refused"}

Binding == [sealed : Nat, open : SUBSET Nat]

-----------------------------------------------------------------------------
(* Sessions.                                                               *)

\* "kept" stands for a next_attempt_at that is set: whatever instant a session
\* then assigns differs from it, and so does NULL.
Copy ==
    [state : LeaseState \cup {"absent"}, claim : Workers \cup {NoWorker},
     attempts : Nat, next : {"none", "kept", "due", "later"},
     warned : BOOLEAN, renewals : Nat]

NoCopy == [state |-> "absent", claim |-> NoWorker, attempts |-> 0,
           next |-> "none", warned |-> FALSE, renewals |-> 0]

\* SELECT: the columns a handler may go on to change.
View(row) ==
    [state |-> row.state, claim |-> row.claim, attempts |-> row.attempts,
     next |-> IF row.next = "none" THEN "none" ELSE "kept",
     warned |-> row.warned, renewals |-> row.renewals]

\* A column of the committed row: mine if I changed it, else whatever is there.
Column(loaded, mine, theirs) == IF mine # loaded THEN mine ELSE theirs

\* COMMIT of the copy `mine` by a session that had loaded `loaded`.
Flush(row, loaded, mine) ==
    [row EXCEPT
        !.state    = Column(loaded.state, mine.state, row.state),
        !.claim    = Column(loaded.claim, mine.claim, row.claim),
        !.stale    = mine.claim = loaded.claim /\ row.stale,
        !.attempts = Column(loaded.attempts, mine.attempts, row.attempts),
        !.next     = Column(loaded.next, mine.next, row.next),
        !.warned   = Column(loaded.warned, mine.warned, row.warned),
        !.renewals = Column(loaded.renewals, mine.renewals, row.renewals)]

\* queue_for_provisioning and queue_for_teardown assign the same four columns.
Queued(copy) ==
    [copy EXCEPT !.claim = NoWorker, !.attempts = 0, !.next = "due"]

\* MUTANTS of Claimable: the UPDATE forgets the claim, or that claims go stale.
ClaimableAnyway(row) == row.next \in {"none", "due"}
ClaimableIfFree(row) == row.claim = NoWorker /\ row.next \in {"none", "due"}

\* The conditional UPDATE of _claim: free or stale, and not backing off.
Claimable(row) ==
    /\ row.claim = NoWorker \/ row.stale
    /\ row.next \in {"none", "due"}

-----------------------------------------------------------------------------
(* The clock.  Each action lets one column come to mean something else;    *)
(* nothing is written.                                                     *)

RetryFallsDue(l) ==
    /\ rows[l].next = "later"
    /\ rows' = [rows EXCEPT ![l].next = "due"]
    /\ UNCHANGED <<approval, approvals, bindings, faults>>

\* The warning window opens, then the deadline passes.  Only a lease in use
\* has a deadline that anything looks at.
DeadlineNears(l) ==
    /\ rows[l].state \in USABLE_STATES
    /\ \/ rows[l].deadline = "ahead" /\ rows' = [rows EXCEPT ![l].deadline = "near"]
       \/ rows[l].deadline = "near"  /\ rows' = [rows EXCEPT ![l].deadline = "past"]
    /\ UNCHANGED <<approval, approvals, bindings, faults>>

\* created_at leaves the reconciler's grace period, and then activated_at does:
\* a "new" row has neither beyond it, a "young" one only created_at, and an
\* "old" one age_reference, whichever of the two that is.
RowMatures(l) ==
    /\ "reconcile" \in Events
    /\ rows[l].state # "absent" /\ rows[l].age # "old"
    /\ rows' = [rows EXCEPT ![l].age = IF @ = "new" /\ rows[l].activated THEN "young"
                                                                         ELSE "old"]
    /\ UNCHANGED <<approval, approvals, bindings, faults>>

ApprovalLapses(l) ==
    /\ approval[l] = "open"
    /\ approval' = [approval EXCEPT ![l] = "lapsed"]
    /\ UNCHANGED <<rows, approvals, bindings, faults>>

ClockNext ==
    \E l \in Leases :
        RetryFallsDue(l) \/ DeadlineNears(l) \/ RowMatures(l) \/ ApprovalLapses(l)

StoreInit ==
    /\ rows = [l \in Leases |-> NoRow]
    /\ approval = [l \in Leases |-> "none"]
    /\ approvals = {}
    /\ bindings = [l \in Leases |-> [sealed |-> 0, open |-> {}]]
    /\ faults = MaxFaults

StoreTypeOK ==
    /\ rows \in [Leases -> Row]
    /\ approval \in [Leases -> ApprovalStatus]
    /\ approvals \subseteq Leases
    /\ bindings \in [Leases -> Binding]
    /\ faults \in 0..MaxFaults

=============================================================================
