---------------------------- MODULE LeaseTicker ----------------------------
(***************************************************************************)
(* src/bailment/engine/leases.py: LeaseTicker.tick.  One pass is one       *)
(* session: four SELECTs, each followed by changes to the copies in        *)
(* memory, and one commit.  The SELECTs are taken at one instant, the pass *)
(* being over its `now` anyway; what lies between them and the commit is   *)
(* not.  A row an earlier step already loaded keeps its changed copy (the  *)
(* identity map), and the later step works on that.                        *)
(***************************************************************************)
EXTENDS LeaseStore

VARIABLES
    plan  \* per lease, the loaded copy and the changed one, while a pass runs

Plan == [loaded : Copy, mine : Copy, lapse : BOOLEAN]

NoPlan == [loaded |-> NoCopy, mine |-> NoCopy, lapse |-> FALSE]

TickerInit == plan = [l \in Leases |-> NoPlan]

TickerTypeOK == plan \in [Leases -> Plan]

Ticking == \E l \in Leases : plan[l] # NoPlan

-----------------------------------------------------------------------------
(* What each step selects.                                                 *)

\* _warn: unwarned ACTIVE leases inside the window, or already past it.
Warns(l) ==
    /\ rows[l].state = "active" /\ ~rows[l].warned
    /\ rows[l].deadline \in {"near", "past"}

\* MUTANT of Expires: a lease that was warned is not looked at again.
ExpiresUnwarned(l) == rows[l].state = "active" /\ rows[l].deadline = "past"

\* _expire: whether or not a warning came first.
Expires(l) == rows[l].state \in USABLE_STATES /\ rows[l].deadline = "past"

\* _queue_teardown: EXPIRED or REVOKED with nothing scheduled and no claim.
Unscheduled(l) ==
    /\ rows[l].state \in TEARDOWN_INTENT_STATES
    /\ rows[l].next = "none" /\ rows[l].claim = NoWorker

\* _expire_approvals: undecided past its deadline, lease still waiting.
Lapses(l) == approval[l] = "lapsed" /\ rows[l].state = "awaiting_approval"

\* ... and what becomes of the copy, step after step.
Warned(l, copy) ==
    IF Warns(l) THEN [copy EXCEPT !.state = "expiring", !.warned = TRUE] ELSE copy

Expired(l, copy) ==
    IF Expires(l) THEN [Queued(copy) EXCEPT !.state = "expired"] ELSE copy

Requeued(l, copy) == IF Unscheduled(l) THEN Queued(copy) ELSE copy

\* MUTANT of Rejected: the approval lapses, the lease stays.
RejectedNowhere(l, copy) == copy

Rejected(l, copy) ==
    IF Lapses(l) THEN [copy EXCEPT !.state = "rejected", !.next = "none"] ELSE copy

Touched(l) == Warns(l) \/ Expires(l) \/ Unscheduled(l) \/ Lapses(l)

TickReads ==
    /\ ~Ticking
    /\ \E l \in Leases : Touched(l)
    /\ plan' = [l \in Leases |->
         IF Touched(l)
         THEN [loaded |-> View(rows[l]),
               mine |-> Rejected(l, Requeued(l, Expired(l, Warned(l, View(rows[l]))))),
               lapse |-> Lapses(l)]
         ELSE NoPlan]
    /\ UNCHANGED storeVars

TickCommits ==
    /\ Ticking
    /\ rows' = [l \in Leases |-> Flush(rows[l], plan[l].loaded, plan[l].mine)]
    /\ approval' = [l \in Leases |-> IF plan[l].lapse THEN "refused"
                                                      ELSE approval[l]]
    /\ plan' = [l \in Leases |-> NoPlan]
    /\ UNCHANGED <<approvals, bindings, faults>>

\* The pass raises or its process dies: nothing is committed, and the loop
\* starts over.
TickAborts ==
    /\ Ticking
    /\ faults > 0
    /\ faults' = faults - 1
    /\ plan' = [l \in Leases |-> NoPlan]
    /\ UNCHANGED <<rows, approval, approvals, bindings>>

TickerNext == TickReads \/ TickCommits \/ TickAborts

=============================================================================
