---------------------------- MODULE ServiceBroker ----------------------------
(***************************************************************************)
(* src/bailment/osb/router.py: the Open Service Broker surface.  A         *)
(* platform names an instance, the broker keeps the name as the idempotency *)
(* key of a lease, and every request looks the name up, checks what it     *)
(* found, and acts: three awaits, with other requests in between.          *)
(*                                                                         *)
(* The other surfaces call the service under keys of their own, or none:   *)
(* those are the actions of Requests as they stand.                        *)
(***************************************************************************)
EXTENDS Requests, SequencesExt

CONSTANTS
    Instances, \* the keys that are OSB instance ids
    Operators  \* principals whose token is an admin token

ASSUME SurfacesAssumption == Instances \subseteq Keys /\ Operators \subseteq Requesters

VARIABLES
    born,  \* rows in the order of created_at, which is stamped as they are staged
    http,  \* the OSB requests: how far each has come, and what it was answered
    uses   \* access_count of the binding of each lease

brokerVars == <<leases, calls, born, http, uses>>

Stage == {"none", "unseen", "asking", "revoking", "renewing", "opening", "done"}

\* What the platform is told, with the HTTP status.
ToldOf == {"none",
           "accepted", \* 202 to a PUT
           "exists",   \* 200 to a PUT, or to a PATCH
           "denied",   \* 400, by policy
           "ended",    \* 409: the lease has ended
           "foreign",  \* 409: the instance belongs to another principal
           "missing",  \* 404
           "gone",     \* 410
           "deleting", \* 202 to a DELETE
           "conflict", \* 409, 422 or 403 of the service
           "opened",   \* 201, with credentials
           "failed"}   \* 500

\* `seen` and `count` are what the request remembers of the rows it read.
Http == [stage : Stage, who : Requesters \cup {NoKey}, instance : Instances \cup {NoKey},
         lease : Ids \cup {NoId}, seen : LeaseState \cup {"absent"}, count : Nat, told : ToldOf]

NoHttp == [stage |-> "none", who |-> NoKey, instance |-> NoKey, lease |-> NoId,
           seen |-> "absent", count |-> 0, told |-> "none"]

BrokerInit ==
    /\ Init
    /\ born = <<>>
    /\ http = [c \in Calls |-> NoHttp]
    /\ uses = [i \in Ids |-> 0]

-----------------------------------------------------------------------------
\* Looking up.

\* _lease_id_for_instance: the oldest row with this key, whoever asked for it.
Named(instance) ==
    LET rows == {n \in DOMAIN born : leases[born[n]].key = instance}
    IN {born[n] : n \in {m \in rows : \A k \in rows : m <= k}}

\* _view_for_instance: ... if this caller may see it.
InView(who, instance) ==
    {i \in Named(instance) : who \in Operators \/ leases[i].requester = who}

Free(c) == calls[c].phase = "new" /\ http[c].stage = "none"

Asked(who, instance) == [NoHttp EXCEPT !.who = who, !.instance = instance]
Told(request, told, i) == [request EXCEPT !.stage = "done", !.told = told, !.lease = i]

Becomes(c, request) == http' = [http EXCEPT ![c] = request]

-----------------------------------------------------------------------------
\* PUT.

\* _existing_instance, for a repeated PUT with the parameters of the first.
ExistingInstance(state) ==
    CASE state \in {"pending", "awaiting_approval", "provisioning"} -> "accepted"
      [] state \in {"rejected", "failed"} -> "denied"
      [] state \in USABLE_STATES -> "exists"
      [] OTHER -> "ended"

PutLooks(c, who, instance) ==
    LET view == InView(who, instance)
        request == Asked(who, instance)
    IN
    /\ Free(c)
    /\ \/ view = {} /\ Becomes(c, [request EXCEPT !.stage = "unseen"])
       \/ \E i \in view :
             \/ Becomes(c, Told(request, ExistingInstance(leases[i].state), i))
             \/ Becomes(c, Told(request, "conflict", i)) \* other parameters
    /\ UNCHANGED <<leases, calls, born, uses>>

\* The second look-up: is the name taken by a lease that is not in view?
PutLooksAgain(c) ==
    /\ http[c].stage = "unseen"
    /\ Becomes(c, IF Named(http[c].instance) = {}
                  THEN [http[c] EXCEPT !.stage = "asking"]
                  ELSE Told(http[c], "foreign", NoId))
    /\ UNCHANGED <<leases, calls, born, uses>>

\* What a call of request_provision leaves behind when it takes a step.
Stamped(c) ==
    IF calls'[c].phase = "staged" THEN born' = Append(born, calls'[c].id)
    ELSE IF calls[c].phase = "staged" /\ calls'[c].id = NoId
    THEN \E n \in DOMAIN born : born[n] = calls[c].id /\ born' = RemoveAt(born, n)
    ELSE UNCHANGED born

\* ... and what a platform hears of it.
Heard(c) ==
    LET call == calls'[c] IN
    IF http[c].stage # "asking" THEN UNCHANGED http
    ELSE Becomes(c,
        CASE call.phase = "answered" ->
                Told(http[c], IF leases'[call.id].state = "rejected" THEN "denied"
                              ELSE "accepted", call.id)
          [] call.phase = "raised" -> Told(http[c], "failed", NoId)
          [] call.phase = "gone" -> Told(http[c], "none", NoId)
          [] OTHER -> http[c])

\* POST /leases: the caller's own key, of the body or the header, or none.
CreateLease(c) ==
    /\ http[c].stage = "none"
    /\ \E who \in Requesters, key \in Keys \cup {NoKey} : Look(c, who, key)

\* request_provision, called by a PUT or by another surface.
Provision(c) ==
    /\ \/ http[c].stage = "asking" /\ Look(c, http[c].who, http[c].instance)
       \/ CreateLease(c)
       \/ Decide(c) \/ Commit(c) \/ Recover(c) \/ Abort(c)
    /\ Stamped(c) /\ Heard(c)
    /\ UNCHANGED uses

-----------------------------------------------------------------------------
\* DELETE, PATCH and the service binding.

\* A request that finds no lease, or one it can do nothing with, is answered
\* at once; else it goes on with what it has read.
Finds(c, who, instance, answer, stage, unseen) ==
    LET view == InView(who, instance)
        request == Asked(who, instance)
    IN
    /\ Free(c)
    /\ \/ view = {} /\ Becomes(c, Told(request, unseen, NoId))
       \/ \E i \in view :
             IF answer[i] # "none" THEN Becomes(c, Told(request, answer[i], i))
             ELSE Becomes(c, [request EXCEPT !.stage = stage, !.lease = i,
                                 !.seen = leases[i].state, !.count = uses[i]])
    /\ UNCHANGED <<leases, calls, born, uses>>

Delete(c, who, instance) ==
    LET answer == [i \in Ids |->
            CASE leases[i].state \in TERMINAL_STATES -> "gone"
              [] leases[i].state \in {"pending", "awaiting_approval"} -> "none"
              [] CanMove(leases[i].state, "revoked") -> "none"
              [] OTHER -> "conflict"]
    IN Finds(c, who, instance, answer, "revoking", "gone")

Update(c, who, instance) ==
    LET answer == [i \in Ids |-> IF leases[i].state \in USABLE_STATES THEN "none" ELSE "conflict"]
    IN Finds(c, who, instance, answer, "renewing", "missing")

\* bind, and `bailment exec` of an operator at a terminal.  Everything that is
\* checked, and checked again, is what the session loaded first.
Bind(c, who, instance) ==
    LET answer == [i \in Ids |-> IF leases[i].state \in USABLE_STATES THEN "none" ELSE "conflict"]
    IN who \in Operators /\ Finds(c, who, instance, answer, "opening", "missing")

\* The commit, into whatever the row has become.
Writes(c, stage, state, told) ==
    /\ http[c].stage = stage
    /\ leases' = [leases EXCEPT ![http[c].lease].state = state]
    /\ Becomes(c, Told(http[c], told, http[c].lease))
    /\ UNCHANGED <<calls, born>>

Revokes(c) ==
    Writes(c, "revoking", IF http[c].seen \in {"pending", "awaiting_approval"}
                          THEN "rejected" ELSE "revoked", "deleting") /\ UNCHANGED uses

Renews(c) ==
    LET i == http[c].lease
        now == leases[i].state
    IN Writes(c, "renewing", IF http[c].seen = "active" THEN now ELSE "active", "exists")
       /\ UNCHANGED uses

\* resolve_binding: access_count += 1, of the count that was read.
Opens(c) ==
    /\ Writes(c, "opening", leases[http[c].lease].state, "opened")
    /\ uses' = [uses EXCEPT ![http[c].lease] = http[c].count + 1]

\* The platform hangs up, or the process dies, between two awaits.
HangsUp(c) ==
    /\ http[c].stage \in Stage \ {"none", "asking", "done"}
    /\ Becomes(c, Told(http[c], "none", NoId))
    /\ UNCHANGED <<leases, calls, born, uses>>

Engine ==
    /\ \E i \in Ids, state \in LeaseState : Move(i, state)
    /\ UNCHANGED <<born, http, uses>>

BrokerNext ==
    \/ \E c \in Calls :
          \/ \E who \in Requesters, instance \in Instances :
                \/ PutLooks(c, who, instance) \/ Delete(c, who, instance)
                \/ Update(c, who, instance) \/ Bind(c, who, instance)
          \/ PutLooksAgain(c) \/ Provision(c)
          \/ Revokes(c) \/ Renews(c) \/ Opens(c) \/ HangsUp(c)
    \/ Engine

BrokerSpec == BrokerInit /\ [][BrokerNext]_brokerVars

-----------------------------------------------------------------------------

\* Variables keep their shape.
BrokerTypeOK ==
    /\ TypeOK
    /\ http \in [Calls -> Http]
    /\ \A i \in Ids : leases[i].state # "absent" => Contains(born, i)
    /\ uses \in [Ids -> Nat]

Granted(c) == http[c].told \in {"accepted", "exists"}

\* A platform that was told its instance is there, or on its way, finds it: the
\* name leads to the lease it was told of, however its retries raced, unless
\* somebody else holds a lease under the same name.
AcceptedIsFound ==
    \A c \in Calls : Granted(c) =>
        \/ Named(http[c].instance) = {http[c].lease}
        \/ \E i \in Ids : leases[i].key = http[c].instance
                          /\ leases[i].requester # http[c].who

=============================================================================
