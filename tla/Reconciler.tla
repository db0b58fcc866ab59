----------------------------- MODULE Reconciler -----------------------------
(***************************************************************************)
(* src/bailment/engine/reconciler.py: one sweep over a provider.  It reads *)
(* every lease, asks the provider what exists and destroys what no lease   *)
(* accounts for (if armed), asks about every live lease that nobody holds, *)
(* then re-reads the leases whose resource is gone and writes that down.   *)
(* The four parts run one after the other with everybody else in between.  *)
(***************************************************************************)
EXTENDS LeaseStore, Provider

VARIABLES
    sweep,     \* the part of the sweep that comes next
    snap,      \* the leases as part one read them
    condemned, \* resources about to be destroyed as orphans
    unasked,   \* live leases still to be asked about
    intended,  \* leases whose resource the provider called GONE
    reread     \* per intended lease, its copy and bindings as re-read

reconcilerVars == <<sweep, snap, condemned, unasked, intended, reread>>

\* _Snapshot: the state, whether a worker is holding the row, whether the row was
\* created and whether it became what it is (age_reference) within the grace
\* period, and whether it was ever activated.  Ages are counted from the start of
\* the sweep, so `aged`, whether the resource of that name is beyond the grace
\* period, is settled here too.
Snapshot == [state : LeaseState \cup {"absent"}, held : BOOLEAN, new : BOOLEAN,
             young : BOOLEAN, activated : BOOLEAN, aged : BOOLEAN]

NoSnapshot == [state |-> "absent", held |-> FALSE, new |-> FALSE, young |-> FALSE,
               activated |-> FALSE, aged |-> FALSE]

Reread == [copy : Copy, open : SUBSET Nat]

NoReread == [copy |-> NoCopy, open |-> {}]

Forgotten ==
    /\ snap' = [l \in Leases |-> NoSnapshot]
    /\ condemned' = {}
    /\ unasked' = {}
    /\ intended' = {}
    /\ reread' = [l \in Leases |-> NoReread]

ReconcilerInit ==
    /\ sweep = "idle"
    /\ snap = [l \in Leases |-> NoSnapshot]
    /\ condemned = {}
    /\ unasked = {}
    /\ intended = {}
    /\ reread = [l \in Leases |-> NoReread]

ReconcilerTypeOK ==
    /\ sweep \in {"idle", "list", "destroy", "ask", "write"}
    /\ snap \in [Leases -> Snapshot]
    /\ condemned \subseteq Leases
    /\ unasked \subseteq Leases
    /\ intended \subseteq Leases
    /\ reread \in [Leases -> Reread]

-----------------------------------------------------------------------------

TakeSnapshot ==
    /\ "reconcile" \in Events
    /\ sweep = "idle"
    /\ sweep' = "list"
    /\ snap' = [l \in Leases |->
                  [state |-> rows[l].state,
                   held |-> rows[l].claim # NoWorker /\ ~rows[l].stale,
                   new |-> rows[l].age = "new",
                   young |-> rows[l].age # "old",
                   activated |-> rows[l].activated,
                   aged |-> l \in aged]]
    /\ UNCHANGED <<condemned, unasked, intended, reread, storeVars, providerVars>>

\* _classify: the age of a resource, or, if the listing does not date it, that of
\* its lease.  What has neither is reported and, by _maybe_destroy, left alone.
\* "absent" is a lease the snapshot does not have.
PastGrace(l, dated) ==
    IF dated THEN l \in aged /\ snap[l].aged
             ELSE snap[l].state # "absent" /\ ~snap[l].new

\* MUTANT of IsOrphan: whatever is not in use is nobody's.
IsOrphanUnlessUsable(l, dated) ==
    PastGrace(l, dated) /\ snap[l].state \notin USABLE_STATES

\* ... past the grace period, and nothing live names it.
IsOrphan(l, dated) ==
    PastGrace(l, dated) /\ snap[l].state \in TERMINAL_STATES \cup {"absent"}

\* The resources a listing does not date.
Undated == IF "undated" \in Events THEN SUBSET resources ELSE {{}}

\* _find_drift skips a lease that is not live, is held, or is young.
ToAsk ==
    {l \in Leases : /\ snap[l].state \in LIVE_STATES
                    /\ ~snap[l].held /\ ~snap[l].young}

\* list_managed; an error is recorded and leaves the account unseen, which is
\* no reason not to ask about the leases.
ListManaged ==
    /\ sweep = "list"
    /\ \/ condemned' = {}
       \/ /\ "auto_destroy" \in Events
          /\ \E undated \in Undated :
                condemned' = {l \in resources : IsOrphan(l, l \notin undated)}
    /\ sweep' = "destroy"
    /\ unasked' = ToAsk
    /\ UNCHANGED <<snap, intended, reread, storeVars, providerVars>>

\* _maybe_destroy: the destroy succeeds or raises, and is not repeated.
DestroyOrphan(l) ==
    /\ sweep = "destroy"
    /\ l \in condemned
    /\ condemned' = condemned \ {l}
    /\ Destroy(l) \/ UNCHANGED providerVars
    /\ UNCHANGED <<sweep, snap, unasked, intended, reread, storeVars>>

OrphansDone ==
    /\ sweep = "destroy" /\ condemned = {}
    /\ sweep' = "ask"
    /\ UNCHANGED <<snap, condemned, unasked, intended, reread, storeVars,
                   providerVars>>

\* MUTANT of Ask: not knowing is taken for GONE.
AskAndAssume(l) ==
    /\ sweep = "ask"
    /\ l \in unasked
    /\ unasked' = unasked \ {l}
    /\ \/ \E status \in {"gone", "unknown"} : MaySay(l, status) /\ intended' = intended \cup {l}
       \/ MaySay(l, "exists") /\ intended' = intended
    /\ UNCHANGED <<sweep, snap, condemned, reread, storeVars, providerVars>>

\* exists: only GONE leads anywhere.  EXISTS, UNKNOWN and an error change
\* nothing.
Ask(l) ==
    /\ sweep = "ask"
    /\ l \in unasked
    /\ unasked' = unasked \ {l}
    /\ \/ MaySay(l, "gone") /\ intended' = intended \cup {l}
       \/ /\ \E status \in {"exists", "unknown"} : MaySay(l, status)
          /\ intended' = intended
    /\ UNCHANGED <<sweep, snap, condemned, reread, storeVars, providerVars>>

\* _vanished_target
Target(l) == IF snap[l].activated THEN "released" ELSE "failed"

\* _apply_drift: the re-read, and the re-check that the state is the one the
\* snapshot had.  Whether somebody has claimed the row since is not looked at.
RereadAll ==
    /\ sweep = "ask" /\ unasked = {}
    /\ sweep' = "write"
    /\ intended' = {l \in intended : rows[l].state = snap[l].state}
    /\ reread' = [l \in Leases |->
                    IF l \in intended'
                    THEN [copy |-> View(rows[l]), open |-> bindings[l].open]
                    ELSE NoReread]
    /\ UNCHANGED <<snap, condemned, unasked, storeVars, providerVars>>

\* MUTANT of Concluded: the detour of _route ends where it was only to pass.
ConcludedHalfway(l) ==
    Flush(rows[l], reread[l].copy,
          [reread[l].copy EXCEPT
             !.state = IF CanMove(reread[l].copy.state, Target(l)) THEN Target(l)
                                                                   ELSE "unknown",
             !.claim = NoWorker, !.next = "none"])

Concluded(l) ==
    Flush(rows[l], reread[l].copy,
          [reread[l].copy EXCEPT !.state = Target(l), !.claim = NoWorker,
                                 !.next = "none"])

\* ... and the commit.  A released lease has its bindings revoked.
WriteDrift ==
    /\ sweep = "write"
    /\ rows' = [l \in Leases |-> IF l \in intended THEN Concluded(l) ELSE rows[l]]
    /\ bindings' = [l \in Leases |->
          IF l \in intended /\ Target(l) = "released"
          THEN [bindings[l] EXCEPT !.open = @ \ reread[l].open]
          ELSE bindings[l]]
    /\ sweep' = "idle"
    /\ Forgotten
    /\ UNCHANGED <<approval, approvals, faults, providerVars>>

\* The sweep raises or its process dies: nothing of it is written.
SweepAborts ==
    /\ sweep # "idle"
    /\ sweep' = "idle"
    /\ faults > 0
    /\ faults' = faults - 1
    /\ Forgotten
    /\ UNCHANGED <<rows, approval, approvals, bindings, providerVars>>

SweepProceeds ==
    \/ TakeSnapshot \/ ListManaged \/ OrphansDone \/ RereadAll \/ WriteDrift
    \/ \E l \in Leases : DestroyOrphan(l) \/ Ask(l)

ReconcilerNext == SweepProceeds \/ SweepAborts

=============================================================================
