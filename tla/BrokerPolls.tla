----------------------------- MODULE BrokerPolls -----------------------------
(***************************************************************************)
(* What a platform that polls last_operation of src/bailment/osb/router.py *)
(* is told of a lease while the engine works on it.  A platform asks until *)
(* it hears something other than "in progress", and then never again: an   *)
(* answer that is not the last word leaves it with a wrong one for good.   *)
(***************************************************************************)
EXTENDS Bailment

\* MUTANT of ProvisionProgress: the current state decides.
ProgressOfState(row) ==
    CASE row.state \in {"pending", "awaiting_approval", "provisioning"} -> "in progress"
      [] row.state \in USABLE_STATES -> "succeeded"
      [] OTHER -> "failed"

\* _provision_progress: what decides is whether the lease was ever active.
ProvisionProgress(row) ==
    CASE row.state \in {"pending", "awaiting_approval", "provisioning"} -> "in progress"
      [] row.state \in USABLE_STATES -> "succeeded"
      [] OTHER -> IF row.state = "rejected" \/ ~row.activated THEN "failed"
                                                             ELSE "succeeded"

\* _deprovision_progress.  What is left to the last branch never had a resource.
DeprovisionProgress(row) ==
    CASE row.state = "released" -> "gone"
      [] row.state \in {"expired", "revoked", "deprovisioning", "unknown"}
                       \cup USABLE_STATES -> "in progress"
      [] row.state = "orphaned" -> "failed"
      [] OTHER -> "gone"

\* last_operation.
LastOperation(row, operation) ==
    CASE row.state = "absent" -> IF operation = "deprovision" THEN "gone" ELSE "missing"
      [] row.state # "absent" /\ operation = "deprovision" -> DeprovisionProgress(row)
      [] row.state # "absent" /\ operation # "deprovision" -> ProvisionProgress(row)

-----------------------------------------------------------------------------

\* The last word stands: a platform told that its instance was created, or that
\* it was not, would be told the same whenever it asked again, whatever the
\* lease went through since: expiry, a failed destroy, an orphan retried.
ProvisionVerdictStands ==
    [][\A l \in Leases :
          LastOperation(rows[l], "provision") \in {"succeeded", "failed"}
          => LastOperation(rows'[l], "provision") = LastOperation(rows[l], "provision")]_vars

\* A platform told that its instance is gone forgets it, and nobody pays for
\* anything by then: whichever way the lease ended, refused, rolled back or torn
\* down through crashes, the provider has nothing of it.  Where clients revoke
\* what a worker may have begun to create, it fails.
GoneMeansGone ==
    \A l \in Leases :
        /\ rows[l].state \notin {"pending", "awaiting_approval", "provisioning"}
        /\ LastOperation(rows[l], "deprovision") = "gone"
        => l \notin resources

=============================================================================
