------------------------------ MODULE Provider ------------------------------
(***************************************************************************)
(* The provider as the engine sees it: the Provider protocol of            *)
(* src/bailment/providers/base.py, with the behaviours MemoryProvider      *)
(* (src/bailment/providers/memory.py) implements and can be armed to show: *)
(* an idempotent create, a create that succeeds and then raises, a destroy *)
(* that raises, an `exists` that may not know, deletion behind the broker's *)
(* back.  A resource carries the external_name of the lease it was made    *)
(* for, so it is identified with that lease.                               *)
(***************************************************************************)
EXTENDS Deployment

VARIABLES
    resources, \* names that exist at the provider
    aged,      \* those that have existed longer than the reconciler's grace
    wire       \* creates whose caller gave up and that may still land

providerVars == <<resources, aged, wire>>

ProviderInit == resources = {} /\ aged = {} /\ wire = {}

ProviderTypeOK ==
    /\ resources \subseteq Leases
    /\ aged \subseteq resources
    /\ wire \subseteq Leases

\* create: the resource is stored, or the one already there is adopted.
Create(l) ==
    /\ resources' = resources \cup {l}
    /\ UNCHANGED <<aged, wire>>

\* destroy: removing what is not there is success.
Destroy(l) ==
    /\ resources' = resources \ {l}
    /\ aged' = aged \ {l}
    /\ UNCHANGED wire

\* The caller of a create that has not landed stops waiting for it (a timeout,
\* a dead process).  The request may still be under way.
GiveUpOnCreate(l) ==
    /\ \/ wire' = wire
       \/ "late_create" \in Events /\ wire' = wire \cup {l}
    /\ UNCHANGED <<resources, aged>>

LateCreateLands(l) ==
    /\ l \in wire
    /\ wire' = wire \ {l}
    /\ resources' = resources \cup {l}
    /\ UNCHANGED aged

\* vanish: deleted by a human with console access.
ResourceVanishes(l) ==
    /\ "external_deletion" \in Events
    /\ l \in resources
    /\ Destroy(l)

ResourceAges(l) ==
    /\ "reconcile" \in Events
    /\ l \in resources \ aged
    /\ aged' = aged \cup {l}
    /\ UNCHANGED <<resources, wire>>

ProviderNext ==
    \E l \in Leases : LateCreateLands(l) \/ ResourceVanishes(l) \/ ResourceAges(l)

\* exists: GONE is a statement about the provider; EXISTS, UNKNOWN and an
\* exception all leave the engine believing the resource may be there.
MaySay(l, status) ==
    CASE status = "gone"    -> l \notin resources
      [] status = "exists"  -> l \in resources
      [] status = "unknown" -> TRUE

=============================================================================
