---------------------------- MODULE LeaseService ----------------------------
(***************************************************************************)
(* src/bailment/engine/service.py: the calls that change a lease, with     *)
(* renew_lease and revoke_lease of src/bailment/engine/leases.py.  A call  *)
(* SELECTs the lease, checks it, changes the copy and commits; `call` is a *)
(* call between the check and the commit.  A new request inserts a row and *)
(* has nothing to load.                                                    *)
(***************************************************************************)
EXTENDS LeaseStore

VARIABLES call

NoCall == [op |-> "none", lease |-> NoLease, copy |-> NoCopy]

ServiceInit == call = [c \in Callers |-> NoCall]

ServiceTypeOK ==
    call \in [Callers -> [op : AllOps \cup {"none"},
                          lease : Leases \cup {NoLease}, copy : Copy]]

-----------------------------------------------------------------------------
(* request_provision and _apply_decision: the row, named, is committed     *)
(* with the verdict of the policy.  An allowed request stays PENDING.      *)

\* MUTANT of Requested: a request that needs an approval is queued at once.
RequestedUngated(effect) ==
    [NoRow EXCEPT !.effect = effect, !.next = "due",
                  !.state = IF effect = "deny" THEN "rejected" ELSE "pending"]

Requested(effect) ==
    [NoRow EXCEPT
        !.effect = effect,
        !.state = CASE effect = "allow"            -> "pending"
                    [] effect = "require_approval" -> "awaiting_approval"
                    [] effect = "deny"             -> "rejected",
        !.next = IF effect = "allow" THEN "due" ELSE "none"]

Request(l, effect) ==
    /\ rows[l].state = "absent"
    /\ rows' = [rows EXCEPT ![l] = Requested(effect)]
    /\ approval' = [approval EXCEPT ![l] =
                      IF effect = "require_approval" THEN "open" ELSE "none"]
    /\ UNCHANGED <<approvals, bindings, faults, call>>

-----------------------------------------------------------------------------
(* What each call asks of the row it loaded.                               *)

\* MUTANT of Approvable: approve() trusts the approval row alone.
ApprovableByApproval(l) == approval[l] = "open"

Approvable(l) == rows[l].state = "awaiting_approval" /\ approval[l] = "open"

Rejectable(l) ==
    rows[l].state = "awaiting_approval" /\ approval[l] \in {"open", "lapsed"}

Renewable(l) == rows[l].state \in USABLE_STATES /\ rows[l].renewals < MaxRenewals

\* MUTANT of Revocable: only what was torn down cannot be.
RevocableUnlessReleased(l) == rows[l].state \notin {"absent", "rejected", "released"}

\* RevocableIn is the choice of the instance, the rest is the code's.
Revocable(l) ==
    /\ rows[l].state \in RevocableIn \ TERMINAL_STATES
    /\ \/ rows[l].state \in {"pending", "awaiting_approval"}
       \/ CanMove(rows[l].state, "revoked")

Retriable(l) == rows[l].state = "orphaned"

Accepts(op, l) ==
    CASE op = "approve"        -> Approvable(l)
      [] op = "reject"         -> Rejectable(l)
      [] op = "renew"          -> Renewable(l)
      [] op = "revoke"         -> Revocable(l)
      [] op = "retry_teardown" -> Retriable(l)

CallBegins(c, op, l) ==
    /\ call[c] = NoCall
    /\ rows[l].state # "absent"
    /\ Accepts(op, l)
    /\ call' = [call EXCEPT ![c] = [op |-> op, lease |-> l,
                                    copy |-> View(rows[l])]]
    /\ UNCHANGED storeVars

\* The client goes away or the commit fails: get_session rolls back.
CallAborts(c) ==
    /\ call[c] # NoCall
    /\ call' = [call EXCEPT ![c] = NoCall]
    /\ UNCHANGED storeVars

-----------------------------------------------------------------------------
(* ... and what it commits.                                                *)

Commit(c, op, mine) ==
    /\ call[c].op = op
    /\ rows' = [rows EXCEPT ![call[c].lease] = Flush(@, call[c].copy, mine)]
    /\ call' = [call EXCEPT ![c] = NoCall]
    /\ UNCHANGED <<bindings, faults>>

Approve(c) ==
    LET l == call[c].lease IN
    /\ Commit(c, "approve", [Queued(call[c].copy) EXCEPT !.state = "provisioning"])
    /\ approval' = [approval EXCEPT ![l] = "granted"]
    /\ approvals' = approvals \cup {l}

Reject(c) ==
    /\ Commit(c, "reject", [call[c].copy EXCEPT !.state = "rejected",
                                                !.next = "none"])
    /\ approval' = [approval EXCEPT ![call[c].lease] = "refused"]
    /\ UNCHANGED approvals

\* renew_lease: a fresh deadline, a warning to come again, one renewal spent.
Renew(c) ==
    LET l == call[c].lease
        loaded == call[c].copy
        mine == [loaded EXCEPT !.state = "active", !.warned = FALSE,
                               !.renewals = @ + 1]
    IN  /\ call[c].op = "renew"
        /\ rows' = [rows EXCEPT ![l] = [Flush(@, loaded, mine) EXCEPT
                                          !.deadline = "ahead"]]
        /\ call' = [call EXCEPT ![c] = NoCall]
        /\ UNCHANGED <<approval, approvals, bindings, faults>>

\* revoke_lease: a request that never reached a provider is rejected; anything
\* else is revoked and queued for teardown.  The approval row is left alone.
Revoke(c) ==
    LET loaded == call[c].copy IN
    /\ Commit(c, "revoke",
              IF loaded.state \in {"pending", "awaiting_approval"}
              THEN [loaded EXCEPT !.state = "rejected", !.next = "none"]
              ELSE [Queued(loaded) EXCEPT !.state = "revoked"])
    /\ UNCHANGED <<approval, approvals>>

RetryTeardown(c) ==
    /\ Commit(c, "retry_teardown", Queued(call[c].copy))
    /\ UNCHANGED <<approval, approvals>>

CallEnds(c) ==
    \/ Approve(c) \/ Reject(c) \/ Renew(c) \/ Revoke(c) \/ RetryTeardown(c)
    \/ CallAborts(c)

ServiceBegins ==
    \E l \in Leases :
       \/ \E effect \in {"allow", "require_approval", "deny"} : Request(l, effect)
       \/ \E c \in Callers, op \in Ops : CallBegins(c, op, l)

ServiceEnds == \E c \in Callers : CallEnds(c)

=============================================================================
