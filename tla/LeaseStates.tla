---------------------------- MODULE LeaseStates ----------------------------
(***************************************************************************)
(* src/bailment/states.py: the states a lease row can hold, the named      *)
(* groups of states, the table of legal moves, and the two ways the engine *)
(* walks that table: a single checked move and the detour through UNKNOWN  *)
(* that the worker and the reconciler share.                               *)
(***************************************************************************)

LeaseState ==
    {"pending", "awaiting_approval", "rejected",
     "provisioning", "active", "expiring",
     "expired", "revoked", "deprovisioning", "released",
     "failed", "orphaned", "unknown"}

LIVE_STATES ==
    {"provisioning", "active", "expiring", "expired", "revoked",
     "deprovisioning", "orphaned", "unknown"}

USABLE_STATES == {"active", "expiring"}

TERMINAL_STATES == {"rejected", "released", "failed"}

TEARDOWN_INTENT_STATES == {"expired", "revoked"}

\* The states the two queues of the worker pick up.  ORPHANED is in neither.
PROVISION_STATES == {"pending", "provisioning"}
TEARDOWN_STATES  == {"expired", "revoked", "deprovisioning"}

\* The table as the set of its <<source, target>> edges.
TRANSITIONS ==
    ({"pending"} \X {"awaiting_approval", "provisioning", "rejected", "failed"})
    \cup ({"awaiting_approval"} \X {"provisioning", "rejected", "expired"})
    \cup ({"provisioning"} \X {"active", "failed", "unknown", "revoked"})
    \cup ({"active"} \X {"expiring", "expired", "revoked", "unknown"})
    \cup ({"expiring"} \X {"expired", "revoked", "active", "unknown"})
    \cup (TEARDOWN_INTENT_STATES \X {"deprovisioning", "unknown"})
    \cup ({"deprovisioning"} \X {"released", "orphaned", "unknown"})
    \cup ({"orphaned"} \X {"deprovisioning", "released", "unknown"})
    \cup ({"unknown"} \X {"active", "orphaned", "released", "deprovisioning",
                          "failed"})

\* assert_transition: a self-move is a no-op, anything else must be an edge.
CanMove(source, target) ==
    source = target \/ <<source, target>> \in TRANSITIONS

\* _route and _to_orphaned: directly when there is an edge, else by way of
\* UNKNOWN.  Both halves are checked moves of one transaction, so a row only
\* ever shows the last of them.
CanRoute(source, target) ==
    \/ CanMove(source, target)
    \/ CanMove(source, "unknown") /\ CanMove("unknown", target)

=============================================================================
