---------------------------- MODULE BrokerProofs ----------------------------
(***************************************************************************)
(* What the idempotency key promises still holds behind the Open Service   *)
(* Broker surface, whose requests write into rows that they read long      *)
(* before: a row may get any state from them, but no other owner or key.   *)
(***************************************************************************)
EXTENDS ServiceBroker, RequestsProofs

Writing == {"revoking", "renewing", "opening"}

\* What a request holds between its awaits: the names it was asked with, or a
\* row to write into.
RequestHolds(c) ==
    /\ http[c] \in Http
    /\ http[c].stage \in {"unseen", "asking"} =>
          http[c].who \in Requesters /\ http[c].instance \in Instances
    /\ http[c].stage \in Writing => http[c].lease \in Ids /\ Inserted(http[c].lease)

BrokerInv ==
    /\ KeyInv
    /\ born \in Seq(Ids)
    /\ uses \in [Ids -> Nat]
    /\ http \in [Calls -> Http]
    /\ \A c \in Calls : RequestHolds(c)

LEMMA BrokerStarts == BrokerInit => BrokerInv
<1> SUFFICES ASSUME BrokerInit PROVE BrokerInv
  OBVIOUS
<1>1. KeyInv
  BY KeyInit DEF BrokerInit
<1>2. NoHttp \in Http /\ NoHttp.stage = "none"
  BY DEF NoHttp, Http, Stage, ToldOf
<1> QED
  BY <1>1, <1>2 DEF BrokerInit, BrokerInv, RequestHolds, Writing

\* A name leads to a row that is there.
LEMMA NamedIsInserted ==
    ASSUME BrokerInv, NEW who, NEW instance \in Instances, NEW i \in InView(who, instance)
    PROVE  i \in Ids /\ Inserted(i)
<1>1. i \in Ids /\ leases[i].key = instance
  BY DEF InView, Named, BrokerInv
<1>2. leases[i].key # NoKey
  BY <1>1, NoValuesAssumption, SurfacesAssumption
<1>3. leases[i] # NoLease
  BY <1>2 DEF NoLease
<1> QED
  BY <1>1, <1>3 DEF BrokerInv, KeyInv, TypeOK, Inserted, Lease, LeaseState

\* Requests that do not move hold what they held, as long as no row is deleted.
LEMMA OthersHold ==
    ASSUME BrokerInv, NEW c \in Calls, NEW request \in Http, Becomes(c, request),
           \A i \in Ids : Inserted(i) => Inserted(i)',
           RequestHolds(c)'
    PROVE  http' \in [Calls -> Http] /\ \A d \in Calls : RequestHolds(d)'
<1>1. http' = [http EXCEPT ![c] = request] /\ http' \in [Calls -> Http]
  BY DEF BrokerInv, Becomes
<1>2. ASSUME NEW d \in Calls, d # c PROVE RequestHolds(d)'
  <2>1. http'[d] = http[d] /\ RequestHolds(d)
    BY <1>1, <1>2 DEF BrokerInv
  <2> QED
    BY <2>1 DEF RequestHolds, Writing
<1> QED
  BY <1>1, <1>2

\* A request moves, and leaves the tables alone.
LEMMA RequestMoves ==
    ASSUME BrokerInv, NEW c \in Calls, NEW request \in Http, Becomes(c, request),
           UNCHANGED <<leases, calls, born, uses>>,
           request.stage \in {"unseen", "asking"} =>
               request.who \in Requesters /\ request.instance \in Instances,
           request.stage \in Writing => request.lease \in Ids /\ Inserted(request.lease)
    PROVE  BrokerInv'
<1>1. http'[c] = request
  BY DEF BrokerInv, Becomes
<1>2. \A i \in Ids : Inserted(i) <=> Inserted(i)'
  BY DEF Inserted
<1>3. RequestHolds(c)'
  BY <1>1, <1>2 DEF RequestHolds, Writing
<1>4. http' \in [Calls -> Http] /\ \A d \in Calls : RequestHolds(d)'
  BY <1>2, <1>3, OthersHold
<1>5. KeyInv'
  BY DEF BrokerInv, KeyInv, TypeOK, OneRowPerKey, Inserted, Holds, SameRequest, Existing
<1> QED
  BY <1>4, <1>5 DEF BrokerInv

\* ... because it is answered,
LEMMA AnsweredAtOnce ==
    ASSUME BrokerInv, NEW c \in Calls, NEW request \in Http, NEW told \in ToldOf,
           NEW i \in Ids \cup {NoId}, Becomes(c, Told(request, told, i)),
           UNCHANGED <<leases, calls, born, uses>>
    PROVE  BrokerInv'
<1> DEFINE done == Told(request, told, i)
<1>1. done \in Http /\ done.stage = "done"
  BY DEF Told, Http, Stage
<1>2. Becomes(c, done)
  OBVIOUS
<1> HIDE DEF done
<1> QED
  BY <1>1, <1>2, RequestMoves DEF Writing

\* ... or because it has found the row it will write into.
LEMMA GoesOn ==
    ASSUME BrokerInv, NEW c \in Calls, NEW who \in Requesters, NEW instance \in Instances,
           NEW i \in InView(who, instance), NEW stage \in Writing,
           Becomes(c, [Asked(who, instance) EXCEPT !.stage = stage, !.lease = i,
                          !.seen = leases[i].state, !.count = uses[i]]),
           UNCHANGED <<leases, calls, born, uses>>
    PROVE  BrokerInv'
<1> DEFINE request == [Asked(who, instance) EXCEPT !.stage = stage, !.lease = i,
                          !.seen = leases[i].state, !.count = uses[i]]
<1>1. i \in Ids /\ Inserted(i)
  BY NamedIsInserted
<1>2. leases[i].state \in LeaseState \cup {"absent"} /\ uses[i] \in Nat
  BY <1>1 DEF BrokerInv, KeyInv, TypeOK, Lease, NoLease
<1>3. /\ request \in Http /\ request.stage = stage /\ request.lease = i
  BY <1>1, <1>2 DEF Asked, NoHttp, Http, Stage, ToldOf, Writing
<1>4. Becomes(c, request)
  OBVIOUS
<1> HIDE DEF request
<1> QED
  BY <1>1, <1>3, <1>4, RequestMoves DEF Writing

LEMMA AskedIsHttp ==
    ASSUME NEW who \in Requesters, NEW instance \in Instances
    PROVE  Asked(who, instance) \in Http
  BY DEF Asked, NoHttp, Http, Stage, ToldOf

LEMMA PutLooksKeeps ==
    ASSUME BrokerInv, NEW c \in Calls, NEW who \in Requesters, NEW instance \in Instances,
           PutLooks(c, who, instance)
    PROVE  BrokerInv'
<1> DEFINE request == Asked(who, instance)
           unseen == [request EXCEPT !.stage = "unseen"]
<1>1. request \in Http
  BY AskedIsHttp
<1>2. UNCHANGED <<leases, calls, born, uses>>
  BY DEF PutLooks
<1>3. CASE Becomes(c, unseen)
  <2>1. /\ unseen \in Http /\ unseen.stage = "unseen"
        /\ unseen.who = who /\ unseen.instance = instance
    BY DEF Asked, NoHttp, Http, Stage, ToldOf
  <2> HIDE DEF unseen
  <2> QED
    BY <1>2, <1>3, <2>1, RequestMoves DEF Writing
<1>4. ASSUME NEW i \in InView(who, instance), NEW told \in ToldOf,
             Becomes(c, Told(request, told, i))
      PROVE  BrokerInv'
  <2>1. i \in Ids
    BY NamedIsInserted
  <2> HIDE DEF request
  <2> QED
    BY <1>1, <1>2, <1>4, <2>1, AnsweredAtOnce
<1>5. \A state : ExistingInstance(state) \in ToldOf
  BY DEF ExistingInstance, ToldOf
<1>6. "conflict" \in ToldOf
  BY DEF ToldOf
<1> QED
  BY <1>3, <1>4, <1>5, <1>6 DEF PutLooks

LEMMA PutLooksAgainKeeps ==
    ASSUME BrokerInv, NEW c \in Calls, PutLooksAgain(c)
    PROVE  BrokerInv'
<1> DEFINE asking == [http[c] EXCEPT !.stage = "asking"]
<1>1. /\ http[c] \in Http /\ http[c].stage = "unseen" /\ RequestHolds(c)
      /\ UNCHANGED <<leases, calls, born, uses>>
  BY DEF PutLooksAgain, BrokerInv
<1>2. CASE Becomes(c, asking)
  <2>1. /\ asking \in Http /\ asking.stage = "asking"
        /\ asking.who = http[c].who /\ asking.instance = http[c].instance
    BY <1>1 DEF Http, Stage
  <2> HIDE DEF asking
  <2>2. asking.who \in Requesters /\ asking.instance \in Instances
    BY <1>1, <2>1 DEF RequestHolds
  <2> QED
    BY <1>1, <1>2, <2>1, <2>2, RequestMoves DEF Writing
<1>3. CASE Becomes(c, Told(http[c], "foreign", NoId))
  <2>1. "foreign" \in ToldOf
    BY DEF ToldOf
  <2> QED
    BY <1>1, <1>3, <2>1, AnsweredAtOnce
<1> QED
  BY <1>2, <1>3 DEF PutLooksAgain

LEMMA DeleteKeeps ==
    ASSUME BrokerInv, NEW c \in Calls, NEW who \in Requesters, NEW instance \in Instances,
           Delete(c, who, instance)
    PROVE  BrokerInv'
<1> DEFINE answer == [i \in Ids |->
            CASE leases[i].state \in TERMINAL_STATES -> "gone"
              [] leases[i].state \in {"pending", "awaiting_approval"} -> "none"
              [] CanMove(leases[i].state, "revoked") -> "none"
              [] OTHER -> "conflict"]
<1>0. \A i \in Ids : answer[i] \in {"gone", "none", "conflict"}
  OBVIOUS
<1>1. /\ Finds(c, who, instance, answer, "revoking", "gone")
      /\ UNCHANGED <<leases, calls, born, uses>>
  BY DEF Delete, Finds
<1> HIDE DEF answer
<1>2. \/ Becomes(c, Told(Asked(who, instance), "gone", NoId))
      \/ \E i \in InView(who, instance) :
            \/ \E told \in {"gone", "conflict"} :
                  Becomes(c, Told(Asked(who, instance), told, i))
            \/ Becomes(c, [Asked(who, instance) EXCEPT !.stage = "revoking", !.lease = i,
                              !.seen = leases[i].state, !.count = uses[i]])
  BY <1>0, <1>1, NamedIsInserted DEF Finds
<1>3. "gone" \in ToldOf /\ "conflict" \in ToldOf
  BY DEF ToldOf
<1> QED
  BY <1>1, <1>2, <1>3, AskedIsHttp, NamedIsInserted, AnsweredAtOnce, GoesOn DEF Writing

LEMMA UpdateKeeps ==
    ASSUME BrokerInv, NEW c \in Calls, NEW who \in Requesters, NEW instance \in Instances,
           Update(c, who, instance)
    PROVE  BrokerInv'
<1>1. UNCHANGED <<leases, calls, born, uses>>
  BY DEF Update, Finds
<1>2. \/ Becomes(c, Told(Asked(who, instance), "missing", NoId))
      \/ \E i \in InView(who, instance) :
            \/ Becomes(c, Told(Asked(who, instance), "conflict", i))
            \/ Becomes(c, [Asked(who, instance) EXCEPT !.stage = "renewing", !.lease = i,
                              !.seen = leases[i].state, !.count = uses[i]])
  BY NamedIsInserted DEF Update, Finds
<1>3. "missing" \in ToldOf /\ "conflict" \in ToldOf
  BY DEF ToldOf
<1> QED
  BY <1>1, <1>2, <1>3, AskedIsHttp, NamedIsInserted, AnsweredAtOnce, GoesOn DEF Writing

LEMMA BindKeeps ==
    ASSUME BrokerInv, NEW c \in Calls, NEW who \in Requesters, NEW instance \in Instances,
           Bind(c, who, instance)
    PROVE  BrokerInv'
<1>1. UNCHANGED <<leases, calls, born, uses>>
  BY DEF Bind, Finds
<1>2. \/ Becomes(c, Told(Asked(who, instance), "missing", NoId))
      \/ \E i \in InView(who, instance) :
            \/ Becomes(c, Told(Asked(who, instance), "conflict", i))
            \/ Becomes(c, [Asked(who, instance) EXCEPT !.stage = "opening", !.lease = i,
                              !.seen = leases[i].state, !.count = uses[i]])
  BY NamedIsInserted DEF Bind, Finds
<1>3. "missing" \in ToldOf /\ "conflict" \in ToldOf
  BY DEF ToldOf
<1> QED
  BY <1>1, <1>2, <1>3, AskedIsHttp, NamedIsInserted, AnsweredAtOnce, GoesOn DEF Writing

LEMMA HangsUpKeeps ==
    ASSUME BrokerInv, NEW c \in Calls, HangsUp(c)
    PROVE  BrokerInv'
<1>1. /\ http[c] \in Http /\ Becomes(c, Told(http[c], "none", NoId))
      /\ UNCHANGED <<leases, calls, born, uses>>
  BY DEF HangsUp, BrokerInv
<1>2. "none" \in ToldOf
  BY DEF ToldOf
<1> QED
  BY <1>1, <1>2, AnsweredAtOnce

\* The commit of a request changes the state of one row, and maybe a count.
LEMMA WritesKeeps ==
    ASSUME BrokerInv, NEW c \in Calls, NEW stage \in Writing, NEW state \in LeaseState,
           NEW told \in ToldOf, Writes(c, stage, state, told),
           uses' \in [Ids -> Nat]
    PROVE  BrokerInv'
<1> DEFINE i == http[c].lease
           done == Told(http[c], told, i)
<1>1. http[c] \in Http /\ i \in Ids /\ Inserted(i)
  BY DEF Writes, BrokerInv, RequestHolds
<1>2. /\ leases' = [leases EXCEPT ![i].state = state]
      /\ Becomes(c, done) /\ UNCHANGED <<calls, born>>
  BY DEF Writes
<1>3. /\ done \in Http /\ done.stage = "done"
  BY <1>1 DEF Told, Http, Stage
<1>4. KeyInv'
  BY <1>1, <1>2, StateKeeps DEF BrokerInv
<1>5. ASSUME NEW j \in Ids, Inserted(j) PROVE Inserted(j)'
  <2>1. leases[j] \in Lease /\ leases \in [Ids -> Lease \cup {NoLease}]
    BY <1>5 DEF BrokerInv, KeyInv, TypeOK, Inserted, NoLease
  <2>2. leases'[j].state \in {leases[j].state, state}
    BY <1>1, <1>2, <2>1 DEF Lease
  <2> QED
    BY <1>5, <2>2 DEF Inserted, LeaseState
<1> HIDE DEF done
<1>6. http'[c] = done
  BY <1>2 DEF BrokerInv, Becomes
<1>7. RequestHolds(c)'
  BY <1>1, <1>3, <1>6 DEF RequestHolds, Writing
<1>8. http' \in [Calls -> Http] /\ \A d \in Calls : RequestHolds(d)'
  BY <1>2, <1>3, <1>5, <1>7, OthersHold
<1> QED
  BY <1>2, <1>4, <1>8 DEF BrokerInv

LEMMA RevokesKeeps ==
    ASSUME BrokerInv, NEW c \in Calls, Revokes(c)
    PROVE  BrokerInv'
<1> DEFINE state == IF http[c].seen \in {"pending", "awaiting_approval"}
                    THEN "rejected" ELSE "revoked"
<1>1. state \in LeaseState /\ "deleting" \in ToldOf /\ "revoking" \in Writing
  BY DEF LeaseState, ToldOf, Writing
<1>2. Writes(c, "revoking", state, "deleting") /\ UNCHANGED uses
  BY DEF Revokes
<1> HIDE DEF state
<1> QED
  BY <1>1, <1>2, WritesKeeps DEF BrokerInv

LEMMA RenewsKeeps ==
    ASSUME BrokerInv, NEW c \in Calls, Renews(c)
    PROVE  BrokerInv'
<1> DEFINE i == http[c].lease
           state == IF http[c].seen = "active" THEN leases[i].state ELSE "active"
<1>1. Writes(c, "renewing", state, "exists") /\ UNCHANGED uses
  BY DEF Renews
<1>2. i \in Ids /\ Inserted(i)
  BY <1>1 DEF Writes, Writing, BrokerInv, RequestHolds
<1>3. leases[i].state \in LeaseState
  BY <1>2 DEF BrokerInv, KeyInv, TypeOK, Inserted, Lease, NoLease
<1>4. state \in LeaseState /\ "exists" \in ToldOf /\ "renewing" \in Writing
  BY <1>3 DEF LeaseState, ToldOf, Writing
<1> HIDE DEF state
<1> QED
  BY <1>1, <1>4, WritesKeeps DEF BrokerInv

LEMMA OpensKeeps ==
    ASSUME BrokerInv, NEW c \in Calls, Opens(c)
    PROVE  BrokerInv'
<1> DEFINE i == http[c].lease
           state == leases[i].state
<1>1. /\ Writes(c, "opening", state, "opened")
      /\ uses' = [uses EXCEPT ![i] = http[c].count + 1]
  BY DEF Opens
<1>2. i \in Ids /\ Inserted(i) /\ http[c] \in Http
  BY <1>1 DEF Writes, Writing, BrokerInv, RequestHolds
<1>3. state \in LeaseState
  BY <1>2 DEF BrokerInv, KeyInv, TypeOK, Inserted, Lease, NoLease
<1>4. "opened" \in ToldOf /\ "opening" \in Writing
  BY DEF ToldOf, Writing
<1>5. http[c].count + 1 \in Nat
  BY <1>2 DEF Http
<1>6. uses' \in [Ids -> Nat]
  BY <1>1, <1>2, <1>5 DEF BrokerInv
<1> HIDE DEF state
<1> QED
  BY <1>1, <1>3, <1>4, <1>6, WritesKeeps

\* What the service does with its tables is what Requests says it does.
LEMMA ProvisionIsRequest ==
    ASSUME BrokerInv, NEW c \in Calls, Provision(c)
    PROVE  KeyInv'
<1>1. ASSUME http[c].stage = "asking", Look(c, http[c].who, http[c].instance)
      PROVE  KeyInv'
  <2>1. http[c].who \in Requesters /\ http[c].instance \in Keys
    BY <1>1, SurfacesAssumption DEF BrokerInv, RequestHolds
  <2> QED
    BY <1>1, <2>1, LookKeeps DEF BrokerInv
<1>2. ASSUME NEW who \in Requesters, NEW key \in Keys \cup {NoKey}, Look(c, who, key)
      PROVE  KeyInv'
  BY <1>2, LookKeeps DEF BrokerInv
<1>3. CASE Decide(c)
  BY <1>3, DecideKeeps DEF BrokerInv
<1>4. CASE Commit(c)
  BY <1>4, InsertKeeps, RefusalKeeps DEF BrokerInv
<1>5. CASE Recover(c)
  BY <1>5, RecoverKeeps DEF BrokerInv
<1>6. CASE Abort(c)
  BY <1>6, AbortKeeps DEF BrokerInv
<1> QED
  BY <1>1, <1>2, <1>3, <1>4, <1>5, <1>6 DEF Provision, CreateLease

\* It inserts rows, and deletes none.
LEMMA ProvisionDeletesNone ==
    ASSUME BrokerInv, NEW c \in Calls, Provision(c)
    PROVE  \A i \in Ids : Inserted(i) => Inserted(i)'
<1>1. CASE UNCHANGED leases
  BY <1>1 DEF Inserted
<1>2. CASE Commit(c) /\ ~Clashes(c)
  <2>1. /\ calls[c].id \in Ids /\ ~Inserted(calls[c].id)
        /\ leases' = [leases EXCEPT ![calls[c].id] =
                        [requester |-> calls[c].requester, key |-> calls[c].key,
                         state |-> calls[c].state]]
    BY <1>2 DEF Commit, BrokerInv, KeyInv, Holds
  <2>2. \A i \in Ids : i # calls[c].id => leases'[i] = leases[i]
    BY <2>1 DEF BrokerInv, KeyInv, TypeOK
  <2> QED
    BY <2>1, <2>2 DEF Inserted
<1> QED
  BY <1>1, <1>2 DEF Provision, CreateLease, Look, Decide, Commit, Recover, Abort

\* created_at is stamped on what is staged, and forgotten with it.
LEMMA StampsKeep ==
    ASSUME BrokerInv, KeyInv', NEW c \in Calls, Stamped(c)
    PROVE  born' \in Seq(Ids)
<1>1. CASE calls'[c].phase = "staged" /\ born' = Append(born, calls'[c].id)
  <2>1. calls'[c].id \in Ids
    BY <1>1 DEF KeyInv, Holds
  <2> QED
    BY <1>1, <2>1 DEF BrokerInv
<1>2. ASSUME NEW n \in DOMAIN born, born' = RemoveAt(born, n)
      PROVE  born' \in Seq(Ids)
  <2>1. born \in Seq(Ids) /\ n \in 1..Len(born)
    BY <1>2 DEF BrokerInv
  <2>2. SubSeq(born, 1, n - 1) \in Seq(Ids) /\ SubSeq(born, n + 1, Len(born)) \in Seq(Ids)
    BY <2>1
  <2> QED
    BY <1>2, <2>2 DEF RemoveAt
<1>3. CASE UNCHANGED born
  BY <1>3 DEF BrokerInv
<1> QED
  BY <1>1, <1>2, <1>3 DEF Stamped

\* A platform hears what becomes of its request, which is never credentials.
LEMMA HearsAnAnswer ==
    ASSUME BrokerInv, KeyInv', NEW c \in Calls, Heard(c)
    PROVE  \/ UNCHANGED http
           \/ \E told \in ToldOf, i \in Ids \cup {NoId} :
                 Becomes(c, Told(http[c], told, i))
<1> DEFINE call == calls'[c]
           verdict == IF leases'[call.id].state = "rejected" THEN "denied" ELSE "accepted"
<1>1. {"denied", "accepted", "failed", "none"} \subseteq ToldOf
  BY DEF ToldOf
<1>2. call.id \in Ids \cup {NoId}
  BY DEF KeyInv, TypeOK, Call
<1>3. verdict \in {"denied", "accepted"}
  OBVIOUS
<1>4. CASE http[c].stage # "asking"
  BY <1>4 DEF Heard
<1>5. CASE http[c].stage = "asking"
  <2>1. CASE call.phase = "answered"
    BY <1>1, <1>2, <1>3, <1>5, <2>1 DEF Heard
  <2>2. CASE call.phase = "raised"
    BY <1>1, <1>5, <2>2 DEF Heard
  <2>3. CASE call.phase = "gone"
    BY <1>1, <1>5, <2>3 DEF Heard
  <2>4. CASE call.phase \notin {"answered", "raised", "gone"}
    <3>1. Becomes(c, http[c])
      BY <1>5, <2>4 DEF Heard
    <3> QED
      BY <3>1 DEF Becomes, BrokerInv
  <2> QED
    BY <2>1, <2>2, <2>3, <2>4
<1> QED
  BY <1>4, <1>5

LEMMA ProvisionKeeps ==
    ASSUME BrokerInv, NEW c \in Calls, Provision(c)
    PROVE  BrokerInv'
<1>1. KeyInv' /\ \A i \in Ids : Inserted(i) => Inserted(i)'
  BY ProvisionIsRequest, ProvisionDeletesNone
<1>2. Stamped(c) /\ Heard(c) /\ UNCHANGED uses
  BY DEF Provision
<1>3. born' \in Seq(Ids)
  BY <1>1, <1>2, StampsKeep
<1>4. ASSUME UNCHANGED http
      PROVE  http' \in [Calls -> Http] /\ \A d \in Calls : RequestHolds(d)'
  BY <1>1, <1>2, <1>4 DEF BrokerInv, RequestHolds, Writing
<1>5. ASSUME NEW told \in ToldOf, NEW i \in Ids \cup {NoId},
             Becomes(c, Told(http[c], told, i))
      PROVE  http' \in [Calls -> Http] /\ \A d \in Calls : RequestHolds(d)'
  <2> DEFINE done == Told(http[c], told, i)
  <2>1. done \in Http /\ done.stage = "done"
    BY DEF Told, Http, Stage, BrokerInv
  <2>2. Becomes(c, done)
    BY <1>5
  <2> HIDE DEF done
  <2>3. http'[c] = done
    BY <2>2 DEF BrokerInv, Becomes
  <2>4. RequestHolds(c)'
    BY <2>1, <2>3 DEF RequestHolds, Writing
  <2> QED
    BY <1>1, <1>2, <2>1, <2>2, <2>4, OthersHold
<1>6. http' \in [Calls -> Http] /\ \A d \in Calls : RequestHolds(d)'
  BY <1>1, <1>2, <1>4, <1>5, HearsAnAnswer DEF BrokerInv
<1> QED
  BY <1>1, <1>2, <1>3, <1>6 DEF BrokerInv

LEMMA EngineKeeps ==
    ASSUME BrokerInv, NEW i \in Ids, NEW state \in LeaseState, Move(i, state),
           UNCHANGED <<born, http, uses>>
    PROVE  BrokerInv'
<1>1. KeyInv'
  BY MoveKeeps DEF BrokerInv
<1>2. ASSUME NEW j \in Ids, Inserted(j) PROVE Inserted(j)'
  <2>1. leases[j] \in Lease /\ leases[i] \in Lease \cup {NoLease}
    BY <1>2 DEF BrokerInv, KeyInv, TypeOK, Inserted, NoLease
  <2>2. leases'[j].state \in {leases[j].state, state}
    BY <2>1 DEF Move, BrokerInv, KeyInv, TypeOK, Lease
  <2> QED
    BY <1>2, <2>2 DEF Inserted, LeaseState
<1> QED
  BY <1>1, <1>2 DEF BrokerInv, RequestHolds, Writing

LEMMA BrokerStep == BrokerInv /\ [BrokerNext]_brokerVars => BrokerInv'
<1> SUFFICES ASSUME BrokerInv, [BrokerNext]_brokerVars PROVE BrokerInv'
  OBVIOUS
<1>1. ASSUME NEW c \in Calls, NEW who \in Requesters, NEW instance \in Instances,
             \/ PutLooks(c, who, instance) \/ Delete(c, who, instance)
             \/ Update(c, who, instance) \/ Bind(c, who, instance)
      PROVE  BrokerInv'
  BY <1>1, PutLooksKeeps, DeleteKeeps, UpdateKeeps, BindKeeps
<1>2. ASSUME NEW c \in Calls, PutLooksAgain(c) PROVE BrokerInv'
  BY <1>2, PutLooksAgainKeeps
<1>3. ASSUME NEW c \in Calls, Provision(c) PROVE BrokerInv'
  BY <1>3, ProvisionKeeps
<1>4. ASSUME NEW c \in Calls, Revokes(c) \/ Renews(c) \/ Opens(c) PROVE BrokerInv'
  BY <1>4, RevokesKeeps, RenewsKeeps, OpensKeeps
<1>5. ASSUME NEW c \in Calls, HangsUp(c) PROVE BrokerInv'
  BY <1>5, HangsUpKeeps
<1>6. CASE Engine
  BY <1>6, EngineKeeps DEF Engine
<1>7. CASE UNCHANGED brokerVars
  BY <1>7 DEF brokerVars, BrokerInv, KeyInv, TypeOK, OneRowPerKey, Inserted, Holds,
     SameRequest, Existing, RequestHolds, Writing
<1> QED
  BY <1>1, <1>2, <1>3, <1>4, <1>5, <1>6, <1>7 DEF BrokerNext

LEMMA BrokerAlways == BrokerSpec => []BrokerInv
  BY BrokerStarts, BrokerStep, PTL DEF BrokerSpec

\* An idempotency key names one lease of its requester behind the broker too,
\* whose requests write states that the table of moves does not allow.
THEOREM BrokerKeysNameOneLease == BrokerSpec => []KeyNamesOneLease
<1>1. KeyInv => KeyNamesOneLease
  BY DEF KeyInv, OneRowPerKey, Inserted, Holds, SameRequest, KeyNamesOneLease, Answered
<1>2. BrokerInv => KeyInv
  BY DEF BrokerInv
<1> QED
  BY <1>1, <1>2, BrokerAlways, PTL

\* Nobody is answered with a lease of somebody else behind the broker.
THEOREM BrokerAnswersStayOwn == BrokerSpec => []AnswersAreOwn
<1>1. BrokerInv => AnswersAreOwn
  BY DEF BrokerInv, KeyInv, Holds, SameRequest, AnswersAreOwn, Answered
<1> QED
  BY <1>1, BrokerAlways, PTL

\* The loser of a race finds its winner behind the broker: the broker's writes
\* end leases, but take no row away from under its key.
THEOREM BrokerLosersAreAnswered == BrokerSpec => []LosersAreAnswered
<1>1. BrokerInv => LosersAreAnswered
  BY DEF BrokerInv, KeyInv, Holds, LosersAreAnswered
<1> QED
  BY <1>1, BrokerAlways, PTL

-----------------------------------------------------------------------------
(* What a platform was told leads somewhere.  A name is looked up by the   *)
(* order in which rows were stamped, which has to be traced through what   *)
(* calls stage, insert and take back.                                      *)

Staged(i) == \E c \in Calls : calls[c].phase = "staged" /\ calls[c].id = i

\* One stamp for each row that is there, or about to be.
BornInv ==
    /\ \A m, n \in DOMAIN born : born[m] = born[n] => m = n
    /\ \A i \in Ids : Inserted(i) \/ Staged(i) <=> \E n \in DOMAIN born : born[n] = i

\* A request that will write, or has granted something, has a row of its name;
\* one that asks the service asks what it was asked.
Leads(c) ==
    http[c].stage \in Writing \/ Granted(c) =>
        /\ http[c].lease \in Ids /\ Inserted(http[c].lease)
        /\ http[c].instance \in Instances
        /\ leases[http[c].lease].key = http[c].instance

Asks(c) ==
    /\ http[c].stage = "unseen" => calls[c].phase = "new"
    /\ http[c].stage = "asking" /\ calls[c].phase # "new" =>
          calls[c].requester = http[c].who /\ calls[c].key = http[c].instance

FoundInv == BornInv /\ \A c \in Calls : Leads(c) /\ Asks(c)

LEMMA FoundStarts == BrokerInit => FoundInv
<1> SUFFICES ASSUME BrokerInit PROVE FoundInv
  OBVIOUS
<1>1. /\ \A i \in Ids : ~Inserted(i)
      /\ \A c \in Calls : calls[c].phase = "new" /\ http[c] = NoHttp
  BY DEF BrokerInit, Init, Inserted, NoLease, NewCall
<1>2. BornInv
  BY <1>1 DEF BornInv, Staged, BrokerInit
<1>3. NoHttp.stage = "none" /\ NoHttp.told = "none"
  BY DEF NoHttp
<1> QED
  BY <1>1, <1>2, <1>3 DEF FoundInv, Leads, Asks, Granted, Writing

\* Appending a new element, and taking one out, of a sequence without repetitions.
LEMMA AppendNew ==
    ASSUME NEW S, NEW s \in Seq(S), NEW e \in S,
           \A m, n \in DOMAIN s : s[m] = s[n] => m = n,
           \A n \in DOMAIN s : s[n] # e
    PROVE  LET t == Append(s, e) IN
           /\ \A m, n \in DOMAIN t : t[m] = t[n] => m = n
           /\ \A x : (\E n \in DOMAIN t : t[n] = x) <=> x = e \/ \E n \in DOMAIN s : s[n] = x
<1> DEFINE t == Append(s, e)
<1>1. /\ DOMAIN t = 1..(Len(s) + 1) /\ DOMAIN s = 1..Len(s) /\ Len(s) \in Nat
      /\ t[Len(s) + 1] = e /\ \A n \in 1..Len(s) : t[n] = s[n]
  OBVIOUS
<1> HIDE DEF t
<1>2. \A n \in 1..(Len(s) + 1) : n = Len(s) + 1 \/ n \in 1..Len(s)
  BY <1>1
<1>3. \A m, n \in DOMAIN t : t[m] = t[n] => m = n
  BY <1>1, <1>2
<1>4. ASSUME NEW x
      PROVE  (\E n \in DOMAIN t : t[n] = x) <=> x = e \/ \E n \in DOMAIN s : s[n] = x
  BY <1>1, <1>2
<1> QED
  BY <1>3, <1>4 DEF t

LEMMA RemoveOne ==
    ASSUME NEW S, NEW s \in Seq(S), NEW k \in DOMAIN s,
           \A m, n \in DOMAIN s : s[m] = s[n] => m = n
    PROVE  LET t == RemoveAt(s, k) IN
           /\ \A m, n \in DOMAIN t : t[m] = t[n] => m = n
           /\ \A x : (\E n \in DOMAIN t : t[n] = x) <=>
                         x # s[k] /\ \E n \in DOMAIN s : s[n] = x
<1> DEFINE t == RemoveAt(s, k)
<1>1. DOMAIN s = 1..Len(s) /\ Len(s) \in Nat /\ k \in 1..Len(s)
  OBVIOUS
<1>2. /\ DOMAIN t = 1..(Len(s) - 1)
      /\ \A n \in 1..(Len(s) - 1) : t[n] = IF n < k THEN s[n] ELSE s[n + 1]
  <2> DEFINE front == SubSeq(s, 1, k - 1)
             back == SubSeq(s, k + 1, Len(s))
  <2>1. /\ front \in Seq(S) /\ Len(front) = k - 1
        /\ \A n \in 1..(k - 1) : front[n] = s[n]
    BY <1>1
  <2>2. /\ back \in Seq(S) /\ Len(back) = Len(s) - k
        /\ \A n \in 1..(Len(s) - k) : back[n] = s[k + n]
    <3>1. back \in Seq(S) /\ Len(back) = Len(s) - k
      BY <1>1
    <3>2. ASSUME NEW n \in 1..(Len(s) - k) PROVE back[n] = s[k + n]
      <4>1. back[n] = s[(k + 1) + n - 1]
        BY <1>1
      <4>2. (k + 1) + n - 1 = k + n
        BY <1>1
      <4> QED
        BY <4>1, <4>2
    <3> QED
      BY <3>1, <3>2
  <2> HIDE DEF front, back
  <2>3. /\ DOMAIN (front \o back) = 1..(Len(front) + Len(back))
        /\ \A n \in 1..(Len(front) + Len(back)) :
              (front \o back)[n] = IF n <= Len(front) THEN front[n] ELSE back[n - Len(front)]
    BY <2>1, <2>2
  <2>4. Len(front) + Len(back) = Len(s) - 1
    BY <1>1, <2>1, <2>2
  <2>5. ASSUME NEW n \in 1..(Len(s) - 1)
        PROVE  (front \o back)[n] = IF n < k THEN s[n] ELSE s[n + 1]
    <3>1. CASE n < k
      BY <1>1, <2>1, <2>3, <2>4, <3>1
    <3>2. CASE ~(n < k)
      <4>1. n - (k - 1) \in 1..(Len(s) - k) /\ k + (n - (k - 1)) = n + 1 /\ ~(n <= k - 1)
        BY <1>1, <3>2
      <4> QED
        <5>1. (front \o back)[n] = back[n - (k - 1)]
          BY <2>1, <2>3, <2>4, <4>1
        <5> QED
          BY <2>2, <3>2, <4>1, <5>1
    <3> QED
      BY <3>1, <3>2
  <2>6. t = front \o back
    BY DEF RemoveAt, front, back
  <2> QED
    BY <2>3, <2>4, <2>5, <2>6
<1> HIDE DEF t
<1>3. \A m, n \in DOMAIN t : t[m] = t[n] => m = n
  BY <1>1, <1>2
<1>4. ASSUME NEW n \in DOMAIN t PROVE t[n] # s[k] /\ \E m \in DOMAIN s : s[m] = t[n]
  <2>1. CASE n < k
    BY <1>1, <1>2, <2>1
  <2>2. CASE ~(n < k)
    BY <1>1, <1>2, <2>2
  <2> QED
    BY <2>1, <2>2
<1>5. ASSUME NEW m \in DOMAIN s, s[m] # s[k] PROVE \E n \in DOMAIN t : t[n] = s[m]
  <2>1. CASE m < k
    BY <1>1, <1>2, <2>1
  <2>2. CASE k < m
    <3>1. m - 1 \in 1..(Len(s) - 1) /\ ~(m - 1 < k) /\ (m - 1) + 1 = m
      BY <1>1, <2>2
    <3> QED
      BY <1>2, <3>1
  <2> QED
    BY <1>1, <1>5, <2>1, <2>2
<1> QED
  BY <1>3, <1>4, <1>5 DEF t

\* What becomes of the stamps when neither rows nor stagings come or go.
LEMMA BornKept ==
    ASSUME BornInv, UNCHANGED born, \A i \in Ids : Inserted(i)' <=> Inserted(i),
           \A i \in Ids : Staged(i)' <=> Staged(i)
    PROVE  BornInv'
  BY DEF BornInv

\* A staging that becomes a row, or one that a call takes back: what is staged
\* by others stays staged.
LEMMA StagedByOthers ==
    ASSUME BrokerInv, NEW c \in Calls, \A d \in Calls : d # c => calls'[d] = calls[d],
           calls'[c].phase # "staged", calls[c].phase = "staged"
    PROVE  /\ calls[c].id \in Ids /\ ~Inserted(calls[c].id) /\ Staged(calls[c].id)
           /\ \A i \in Ids : Staged(i)' <=> Staged(i) /\ i # calls[c].id
<1>1. /\ calls[c].id \in Ids /\ ~Inserted(calls[c].id)
      /\ \A d \in Calls : d # c /\ calls[d].phase = "staged" => calls[d].id # calls[c].id
  BY DEF BrokerInv, KeyInv, Holds
<1> QED
  BY <1>1 DEF Staged

LEMMA ProvisionStamps ==
    ASSUME BrokerInv, BornInv, KeyInv', NEW c \in Calls, Provision(c)
    PROVE  BornInv'
<1>0. /\ Stamped(c) /\ born \in Seq(Ids) /\ leases \in [Ids -> Lease \cup {NoLease}]
      /\ calls \in [Calls -> Call]
  BY DEF Provision, BrokerInv, KeyInv, TypeOK
<1>1. CASE \/ \E who, key : Look(c, who, key)
           \/ Recover(c)
           \/ Abort(c) /\ calls[c].phase # "staged"
  <2>1. /\ UNCHANGED leases /\ \A d \in Calls : d # c => calls'[d] = calls[d]
        /\ calls[c].phase # "staged" /\ calls'[c].phase # "staged"
    <3>1. /\ calls[c].phase # "staged"
          /\ UNCHANGED leases
      BY <1>1 DEF Look, Recover, Abort
    <3>2. \E new : new.phase # "staged" /\ calls' = [calls EXCEPT ![c] = new]
      <4>1. CASE \E who, key : Look(c, who, key)
        BY <4>1 DEF Look, NewCall
      <4>2. CASE Recover(c)
        <5>1. calls[c] \in Call
          BY <1>0
        <5> QED
          BY <4>2, <5>1 DEF Recover, Call
      <4>3. CASE Abort(c)
        <5>1. /\ calls' = [calls EXCEPT ![c] =
                    [calls[c] EXCEPT !.phase = "gone", !.id = NoId, !.state = "absent"]]
              /\ calls[c] \in Call
          BY <1>0, <4>3 DEF Abort
        <5> QED
          BY <5>1 DEF Call
      <4> QED
        BY <1>1, <4>1, <4>2, <4>3
    <3> QED
      BY <1>0, <3>1, <3>2
  <2>2. \A i \in Ids : (Inserted(i)' <=> Inserted(i)) /\ (Staged(i)' <=> Staged(i))
    BY <2>1 DEF Inserted, Staged
  <2>3. UNCHANGED born
    BY <1>0, <2>1 DEF Stamped
  <2> QED
    BY <2>2, <2>3, BornKept
<1>2. CASE Decide(c)
  <2>1. PICK i \in Ids :
           /\ ~Inserted(i) /\ ~Staged(i) /\ UNCHANGED leases
           /\ calls'[c].phase = "staged" /\ calls'[c].id = i /\ calls[c].phase # "staged"
           /\ \A d \in Calls : d # c => calls'[d] = calls[d]
    BY <1>0, <1>2 DEF Decide, Inserted, Staged, Call
  <2>2. \A j \in Ids : Inserted(j)' <=> Inserted(j)
    BY <2>1 DEF Inserted
  <2>3. \A j \in Ids : Staged(j)' <=> Staged(j) \/ j = i
    BY <2>1 DEF Staged
  <2>4. born' = Append(born, i)
    BY <1>0, <2>1 DEF Stamped
  <2>5. \A n \in DOMAIN born : born[n] # i
    BY <2>1 DEF BornInv
  <2>6. /\ \A m, n \in DOMAIN born' : born'[m] = born'[n] => m = n
        /\ \A x : (\E n \in DOMAIN born' : born'[n] = x)
                    <=> x = i \/ \E n \in DOMAIN born : born[n] = x
    BY <1>0, <2>4, <2>5, AppendNew DEF BornInv
  <2> QED
    BY <2>2, <2>3, <2>6 DEF BornInv
<1>3. CASE Commit(c) /\ ~Clashes(c)
  <2> DEFINE i == calls[c].id
             row == [requester |-> calls[c].requester, key |-> calls[c].key,
                     state |-> calls[c].state]
  <2>1. /\ calls[c].phase = "staged" /\ leases' = [leases EXCEPT ![i] = row]
        /\ calls'[c].phase = "answered" /\ calls'[c].id = i
        /\ \A d \in Calls : d # c => calls'[d] = calls[d]
    BY <1>0, <1>3 DEF Commit, Call
  <2>2. /\ i \in Ids /\ Staged(i) /\ \A j \in Ids : Staged(j)' <=> Staged(j) /\ j # i
    BY <2>1, StagedByOthers
  <2>3. \A j \in Ids : Inserted(j)' <=> Inserted(j) \/ j = i
    <3>1. calls[c].state \in LeaseState
      BY <2>1 DEF BrokerInv, KeyInv, Holds
    <3> QED
      BY <1>0, <2>1, <2>2, <3>1 DEF Inserted, LeaseState
  <2>4. UNCHANGED born
    BY <1>0, <2>1, <2>2, NoValuesAssumption DEF Stamped
  <2> QED
    BY <2>2, <2>3, <2>4 DEF BornInv
<1>4. CASE (Commit(c) /\ Clashes(c)) \/ (Abort(c) /\ calls[c].phase = "staged")
  <2> DEFINE i == calls[c].id
  <2>1. /\ calls[c].phase = "staged" /\ UNCHANGED leases
        /\ calls'[c].phase # "staged" /\ calls'[c].id = NoId
        /\ \A d \in Calls : d # c => calls'[d] = calls[d]
    BY <1>0, <1>4 DEF Commit, Abort, Call
  <2>2. /\ i \in Ids /\ ~Inserted(i) /\ Staged(i)
        /\ \A j \in Ids : Staged(j)' <=> Staged(j) /\ j # i
    BY <2>1, StagedByOthers
  <2>3. \A j \in Ids : Inserted(j)' <=> Inserted(j)
    BY <2>1 DEF Inserted
  <2>4. PICK k \in DOMAIN born : born[k] = i /\ born' = RemoveAt(born, k)
    BY <1>0, <2>1 DEF Stamped
  <2>5. /\ \A m, n \in DOMAIN born' : born'[m] = born'[n] => m = n
        /\ \A x : (\E n \in DOMAIN born' : born'[n] = x)
                    <=> x # i /\ \E n \in DOMAIN born : born[n] = x
    BY <1>0, <2>4, RemoveOne DEF BornInv
  <2> QED
    BY <2>2, <2>3, <2>5 DEF BornInv
<1> QED
  BY <1>1, <1>2, <1>3, <1>4 DEF Provision, CreateLease

\* Rows are never deleted, and keep their keys.
KeysKept ==
    \A i \in Ids : Inserted(i) => Inserted(i)' /\ leases'[i].key = leases[i].key

LEMMA ProvisionKeepsKeys ==
    ASSUME BrokerInv, NEW c \in Calls, Provision(c)
    PROVE  KeysKept
<1>1. CASE UNCHANGED leases
  BY <1>1 DEF KeysKept, Inserted
<1>2. CASE Commit(c) /\ ~Clashes(c)
  <2>1. /\ ~Inserted(calls[c].id)
        /\ \A i \in Ids : i # calls[c].id => leases'[i] = leases[i]
    BY <1>2 DEF Commit, BrokerInv, KeyInv, TypeOK, Holds
  <2> QED
    BY <2>1 DEF KeysKept, Inserted
<1> QED
  BY <1>1, <1>2 DEF Provision, CreateLease, Look, Decide, Commit, Recover, Abort

LEMMA StateKeepsKeys ==
    ASSUME BrokerInv, NEW i \in Ids, NEW state \in LeaseState,
           leases' = [leases EXCEPT ![i].state = state]
    PROVE  KeysKept
<1>1. \A j \in Ids : j # i => leases'[j] = leases[j]
  BY DEF BrokerInv, KeyInv, TypeOK
<1>2. leases'[i].key = leases[i].key /\ leases'[i].state = state
  BY DEF BrokerInv, KeyInv, TypeOK, Lease, NoLease
<1> QED
  BY <1>1, <1>2 DEF KeysKept, Inserted, LeaseState

\* Requests that do not move lead where they led.
LEMMA OthersLead ==
    ASSUME BrokerInv, FoundInv, KeysKept, NEW d \in Calls, http'[d] = http[d]
    PROVE  Leads(d)'
  BY DEF FoundInv, KeysKept, Leads, Granted, Inserted, Writing

\* A request moves, and calls and stamps stay.
LEMMA MovesFound ==
    ASSUME BrokerInv, FoundInv, KeysKept, NEW c \in Calls, NEW request, Becomes(c, request),
           UNCHANGED <<calls, born>>, \A i \in Ids : Inserted(i)' <=> Inserted(i),
           request.stage \in Writing \/ request.told \in {"accepted", "exists"} =>
               /\ request.lease \in Ids /\ Inserted(request.lease)
               /\ request.instance \in Instances
               /\ leases[request.lease].key = request.instance,
           request.stage \in {"unseen", "asking"} => calls[c].phase = "new"
    PROVE  FoundInv'
<1>1. http'[c] = request /\ \A d \in Calls : d # c => http'[d] = http[d]
  BY DEF BrokerInv, Becomes
<1>2. BornInv'
  BY BornKept DEF FoundInv, Staged
<1>3. Leads(c)' /\ Asks(c)'
  BY <1>1 DEF Leads, Asks, Granted, KeysKept, Inserted, Writing
<1>4. ASSUME NEW d \in Calls, d # c PROVE Leads(d)' /\ Asks(d)'
  BY <1>1, <1>4, OthersLead DEF FoundInv, Asks
<1> QED
  BY <1>2, <1>3, <1>4 DEF FoundInv

\* What a look-up finds has the name that was looked up.
LEMMA ViewIsNamed ==
    ASSUME BrokerInv, NEW who, NEW instance \in Instances, NEW i \in InView(who, instance)
    PROVE  i \in Ids /\ Inserted(i) /\ leases[i].key = instance
<1>1. leases[i].key = instance
  BY DEF InView, Named
<1> QED
  BY <1>1, NamedIsInserted

LEMMA LooksFound ==
    ASSUME BrokerInv, FoundInv, NEW c \in Calls, NEW who \in Requesters,
           NEW instance \in Instances,
           \/ PutLooks(c, who, instance) \/ Delete(c, who, instance)
           \/ Update(c, who, instance) \/ Bind(c, who, instance)
    PROVE  FoundInv'
<1> DEFINE request == Asked(who, instance)
<1>1. /\ UNCHANGED <<leases, calls, born>> /\ calls[c].phase = "new"
      /\ KeysKept /\ \A i \in Ids : Inserted(i)' <=> Inserted(i)
  BY DEF PutLooks, Delete, Update, Bind, Finds, Free, KeysKept, Inserted
<1>2. \/ \E told \in {"gone", "missing"} : Becomes(c, Told(request, told, NoId))
      \/ Becomes(c, [request EXCEPT !.stage = "unseen"])
      \/ \E i \in InView(who, instance) :
            \/ \E told : Becomes(c, Told(request, told, i))
            \/ \E stage \in Writing :
                  Becomes(c, [request EXCEPT !.stage = stage, !.lease = i,
                                 !.seen = leases[i].state, !.count = uses[i]])
  BY DEF PutLooks, Delete, Update, Bind, Finds, Writing
<1>3. /\ request.stage = "none" /\ request.told = "none" /\ request.instance = instance
      /\ request.lease = NoId
      /\ \A told, i : LET done == Told(request, told, i) IN
            /\ done.stage = "done" /\ done.told = told
            /\ done.lease = i /\ done.instance = instance
  BY DEF Asked, NoHttp, Told
<1>4. ASSUME NEW told \in {"gone", "missing"}, Becomes(c, Told(request, told, NoId))
      PROVE  FoundInv'
  BY <1>1, <1>3, <1>4, MovesFound DEF Writing
<1>5. ASSUME Becomes(c, [request EXCEPT !.stage = "unseen"]) PROVE FoundInv'
  <2> DEFINE unseen == [request EXCEPT !.stage = "unseen"]
  <2>1. unseen.stage = "unseen" /\ unseen.told = "none"
    BY DEF Asked, NoHttp
  <2>2. Becomes(c, unseen)
    BY <1>5
  <2> HIDE DEF unseen
  <2> QED
    BY <1>1, <2>1, <2>2, MovesFound DEF Writing
<1>6. ASSUME NEW i \in InView(who, instance), NEW told, Becomes(c, Told(request, told, i))
      PROVE  FoundInv'
  <2>1. i \in Ids /\ Inserted(i) /\ leases[i].key = instance
    BY ViewIsNamed
  <2> QED
    BY <1>1, <1>3, <1>6, <2>1, MovesFound
<1>7. ASSUME NEW i \in InView(who, instance), NEW stage \in Writing,
             Becomes(c, [request EXCEPT !.stage = stage, !.lease = i,
                            !.seen = leases[i].state, !.count = uses[i]])
      PROVE  FoundInv'
  <2> DEFINE found == [request EXCEPT !.stage = stage, !.lease = i,
                          !.seen = leases[i].state, !.count = uses[i]]
  <2>1. i \in Ids /\ Inserted(i) /\ leases[i].key = instance
    BY ViewIsNamed
  <2>2. found.stage = stage /\ found.lease = i /\ found.instance = instance
    BY DEF Asked, NoHttp
  <2>3. Becomes(c, found)
    BY <1>7
  <2> HIDE DEF found
  <2> QED
    BY <1>1, <2>1, <2>2, <2>3, MovesFound DEF Writing
<1> QED
  BY <1>2, <1>4, <1>5, <1>6, <1>7

LEMMA WaitsFound ==
    ASSUME BrokerInv, FoundInv, NEW c \in Calls, PutLooksAgain(c) \/ HangsUp(c)
    PROVE  FoundInv'
<1>1. /\ UNCHANGED <<leases, calls, born>> /\ http[c] \in Http
      /\ KeysKept /\ \A i \in Ids : Inserted(i)' <=> Inserted(i)
  BY DEF PutLooksAgain, HangsUp, BrokerInv, KeysKept, Inserted
<1>2. CASE \E told \in {"foreign", "none"} : Becomes(c, Told(http[c], told, NoId))
  <2>1. PICK told \in {"foreign", "none"} : Becomes(c, Told(http[c], told, NoId))
    BY <1>2
  <2>2. Told(http[c], told, NoId).stage = "done" /\ Told(http[c], told, NoId).told = told
    BY <1>1 DEF Told, Http
  <2> QED
    BY <1>1, <2>1, <2>2, MovesFound DEF Writing
<1>3. CASE http[c].stage = "unseen" /\ Becomes(c, [http[c] EXCEPT !.stage = "asking"])
  <2> DEFINE asking == [http[c] EXCEPT !.stage = "asking"]
  <2>1. asking.stage = "asking" /\ asking.told = http[c].told /\ asking.lease = http[c].lease
        /\ asking.instance = http[c].instance
    BY <1>1 DEF Http
  <2>2. calls[c].phase = "new" /\ Leads(c)
    BY <1>3 DEF FoundInv, Asks
  <2>3. Becomes(c, asking)
    BY <1>3
  <2> HIDE DEF asking
  <2> QED
    BY <1>1, <2>1, <2>2, <2>3, MovesFound DEF Leads, Granted, Writing
<1> QED
  BY <1>2, <1>3 DEF PutLooksAgain, HangsUp

\* The commit of a request, into a row that keeps its name.
LEMMA WritesFound ==
    ASSUME BrokerInv, FoundInv, NEW c \in Calls, NEW stage \in Writing,
           NEW state \in LeaseState, NEW told, Writes(c, stage, state, told)
    PROVE  FoundInv'
<1> DEFINE i == http[c].lease
           done == Told(http[c], told, i)
<1>1. /\ i \in Ids /\ Inserted(i) /\ http[c].instance \in Instances
      /\ leases[i].key = http[c].instance /\ http[c] \in Http
  BY DEF Writes, FoundInv, Leads, BrokerInv
<1>2. /\ leases' = [leases EXCEPT ![i].state = state] /\ Becomes(c, done)
      /\ UNCHANGED <<calls, born>>
  BY DEF Writes
<1>3. KeysKept
  BY <1>1, <1>2, StateKeepsKeys
<1>4. \A j \in Ids : Inserted(j)' <=> Inserted(j)
  <2>1. \A j \in Ids : j # i => leases'[j] = leases[j]
    BY <1>1, <1>2 DEF BrokerInv, KeyInv, TypeOK
  <2> QED
    BY <1>1, <1>3, <2>1 DEF KeysKept, Inserted
<1>5. done.stage = "done" /\ done.lease = i /\ done.instance = http[c].instance
  BY <1>1 DEF Told, Http
<1> HIDE DEF done
<1> QED
  BY <1>1, <1>2, <1>3, <1>4, <1>5, MovesFound DEF Writing

LEMMA CommitsFound ==
    ASSUME BrokerInv, FoundInv, NEW c \in Calls, Revokes(c) \/ Renews(c) \/ Opens(c)
    PROVE  FoundInv'
<1> DEFINE i == http[c].lease
<1>1. PICK stage, told :
          /\ stage \in Writing
          /\ \E state \in {"rejected", "revoked", "active", leases[i].state} :
                Writes(c, stage, state, told)
  BY DEF Revokes, Renews, Opens, Writing
<1>2. i \in Ids /\ Inserted(i)
  BY <1>1 DEF Writes, BrokerInv, RequestHolds
<1>3. {"rejected", "revoked", "active", leases[i].state} \subseteq LeaseState
  BY <1>2 DEF BrokerInv, KeyInv, TypeOK, Inserted, Lease, NoLease, LeaseState
<1> QED
  BY <1>1, <1>3, WritesFound

\* The service is asked for the platform's name on behalf of the platform's
\* caller, and remembers both.
LEMMA AsksOwn ==
    ASSUME BrokerInv, FoundInv, NEW c \in Calls, Provision(c)
    PROVE  /\ http[c].stage # "unseen"
           /\ http[c].stage = "asking" =>
                 calls'[c].requester = http[c].who /\ calls'[c].key = http[c].instance
           /\ \A d \in Calls : d # c => calls'[d] = calls[d]
<1>0. calls \in [Calls -> Call] /\ Asks(c)
  BY DEF BrokerInv, KeyInv, TypeOK, FoundInv
<1>1. ASSUME NEW who, NEW key, Look(c, who, key)
      PROVE  /\ calls'[c].requester = who /\ calls'[c].key = key
             /\ \A d \in Calls : d # c => calls'[d] = calls[d]
  BY <1>0, <1>1 DEF Look, NewCall
<1>2. CASE Decide(c) \/ Commit(c) \/ Recover(c) \/ Abort(c)
  <2>1. calls[c].phase # "new"
    BY <1>2 DEF Decide, Commit, Recover, Abort
  <2>2. /\ calls'[c].requester = calls[c].requester /\ calls'[c].key = calls[c].key
        /\ \A d \in Calls : d # c => calls'[d] = calls[d]
    <3>1. CASE Recover(c)
      <4>1. PICK answer :
               /\ calls' = [calls EXCEPT ![c] = answer]
               /\ \/ answer = [calls[c] EXCEPT !.phase = "raised"]
                  \/ \E i : answer = [calls[c] EXCEPT !.phase = "answered", !.id = i]
        BY <3>1 DEF Recover
      <4>2. answer.requester = calls[c].requester /\ answer.key = calls[c].key
        <5>1. CASE answer = [calls[c] EXCEPT !.phase = "raised"]
          BY <1>0, <5>1 DEF Call
        <5>2. ASSUME NEW i, answer = [calls[c] EXCEPT !.phase = "answered", !.id = i]
              PROVE  answer.requester = calls[c].requester /\ answer.key = calls[c].key
          BY <1>0, <5>2 DEF Call
        <5> QED
          BY <4>1, <5>1, <5>2
      <4> QED
        BY <1>0, <4>1, <4>2
    <3>2. CASE Decide(c)
      BY <1>0, <3>2 DEF Decide, Call
    <3>3. CASE Commit(c)
      BY <1>0, <3>3 DEF Commit, Call
    <3>4. CASE Abort(c)
      BY <1>0, <3>4 DEF Abort, Call
    <3> QED
      BY <1>2, <3>1, <3>2, <3>3, <3>4
  <2> QED
    BY <1>0, <2>1, <2>2 DEF Asks
<1>3. CASE http[c].stage = "asking" /\ Look(c, http[c].who, http[c].instance)
  BY <1>1, <1>3
<1>4. CASE CreateLease(c)
  BY <1>1, <1>4 DEF CreateLease
<1> QED
  BY <1>2, <1>3, <1>4 DEF Provision

LEMMA ProvisionFound ==
    ASSUME BrokerInv, FoundInv, NEW c \in Calls, Provision(c)
    PROVE  FoundInv'
<1>1. KeyInv' /\ KeysKept /\ Heard(c)
  BY ProvisionIsRequest, ProvisionKeepsKeys DEF Provision
<1>2. BornInv'
  BY <1>1, ProvisionStamps DEF FoundInv
<1>3. /\ http[c].stage # "unseen"
      /\ http[c].stage = "asking" =>
            calls'[c].requester = http[c].who /\ calls'[c].key = http[c].instance
      /\ \A d \in Calls : d # c => calls'[d] = calls[d]
  BY AsksOwn
<1>4. ASSUME http'[c] = http[c] PROVE Leads(c)' /\ Asks(c)'
  BY <1>1, <1>3, <1>4, OthersLead DEF Asks
<1>5. CASE http[c].stage # "asking"
  <2>1. UNCHANGED http
    BY <1>1, <1>5 DEF Heard
  <2> QED
    BY <1>1, <1>2, <1>3, <1>4, <2>1, OthersLead DEF FoundInv, Asks
<1>6. CASE http[c].stage = "asking"
  <2> DEFINE call == calls'[c]
  <2>0. http[c] \in Http /\ http[c].instance \in Instances
    BY <1>6 DEF BrokerInv, RequestHolds
  <2>1. \A told, i : LET done == Told(http[c], told, i) IN
           /\ done.stage = "done" /\ done.told = told
           /\ done.lease = i /\ done.instance = http[c].instance
    BY <2>0 DEF Told, Http
  <2>2. ASSUME call.phase = "answered" PROVE Leads(c)' /\ Asks(c)'
    <3>1. PICK i \in Ids : /\ i = call.id /\ Inserted(i)'
                           /\ leases'[i].key = http[c].instance
      <4>1. Holds(c)'
        BY <1>1 DEF KeyInv
      <4> QED
        BY <1>3, <1>6, <2>2, <4>1 DEF Holds, SameRequest, Inserted
    <3>2. \E told : Becomes(c, Told(http[c], told, i))
      BY <1>1, <1>6, <2>2, <3>1 DEF Heard
    <3>3. \E told : http'[c] = Told(http[c], told, i)
      BY <3>2 DEF Becomes, BrokerInv
    <3> QED
      BY <2>0, <2>1, <3>1, <3>3 DEF Leads, Asks
  <2>3. ASSUME call.phase \in {"raised", "gone"} PROVE Leads(c)' /\ Asks(c)'
    <3>1. \E told \in {"failed", "none"} : Becomes(c, Told(http[c], told, NoId))
      BY <1>1, <1>6, <2>3 DEF Heard
    <3>2. \E told \in {"failed", "none"} : http'[c] = Told(http[c], told, NoId)
      BY <3>1 DEF Becomes, BrokerInv
    <3> QED
      BY <2>1, <3>2 DEF Leads, Asks, Granted, Writing
  <2>4. ASSUME call.phase \notin {"answered", "raised", "gone"} PROVE Leads(c)' /\ Asks(c)'
    <3>1. Becomes(c, http[c])
      BY <1>1, <1>6, <2>4 DEF Heard
    <3>2. http'[c] = http[c]
      BY <3>1 DEF Becomes, BrokerInv
    <3> QED
      BY <1>4, <3>2
  <2>5. \A d \in Calls : d # c => http'[d] = http[d]
    BY <1>1, <1>6 DEF Heard, Becomes, BrokerInv
  <2>6. \A d \in Calls : d # c => Leads(d)' /\ Asks(d)'
    BY <1>1, <1>3, <2>5, OthersLead DEF FoundInv, Asks
  <2> QED
    BY <1>2, <2>2, <2>3, <2>4, <2>6 DEF FoundInv
<1> QED
  BY <1>5, <1>6

LEMMA EngineFound ==
    ASSUME BrokerInv, FoundInv, NEW i \in Ids, NEW state \in LeaseState, Move(i, state),
           UNCHANGED <<born, http, uses>>
    PROVE  FoundInv'
<1>1. /\ leases' = [leases EXCEPT ![i].state = state] /\ UNCHANGED calls /\ Inserted(i)
  BY DEF Move, TRANSITIONS, TEARDOWN_INTENT_STATES, Inserted
<1>2. KeysKept
  BY <1>1, StateKeepsKeys
<1>3. \A j \in Ids : Inserted(j)' <=> Inserted(j)
  <2>1. \A j \in Ids : j # i => leases'[j] = leases[j]
    BY <1>1 DEF BrokerInv, KeyInv, TypeOK
  <2> QED
    BY <1>1, <1>2, <2>1 DEF KeysKept, Inserted
<1>4. BornInv'
  BY <1>1, <1>3, BornKept DEF FoundInv, Staged
<1> QED
  BY <1>1, <1>2, <1>4, OthersLead DEF FoundInv, Asks

LEMMA FoundStep == BrokerInv /\ FoundInv /\ [BrokerNext]_brokerVars => FoundInv'
<1> SUFFICES ASSUME BrokerInv, FoundInv, [BrokerNext]_brokerVars PROVE FoundInv'
  OBVIOUS
<1>1. ASSUME NEW c \in Calls, NEW who \in Requesters, NEW instance \in Instances,
             \/ PutLooks(c, who, instance) \/ Delete(c, who, instance)
             \/ Update(c, who, instance) \/ Bind(c, who, instance)
      PROVE  FoundInv'
  BY <1>1, LooksFound
<1>2. ASSUME NEW c \in Calls, PutLooksAgain(c) \/ HangsUp(c) PROVE FoundInv'
  BY <1>2, WaitsFound
<1>3. ASSUME NEW c \in Calls, Provision(c) PROVE FoundInv'
  BY <1>3, ProvisionFound
<1>4. ASSUME NEW c \in Calls, Revokes(c) \/ Renews(c) \/ Opens(c) PROVE FoundInv'
  BY <1>4, CommitsFound
<1>5. CASE Engine
  BY <1>5, EngineFound DEF Engine
<1>6. CASE UNCHANGED brokerVars
  BY <1>6 DEF brokerVars, FoundInv, BornInv, Inserted, Staged, Leads, Granted, Asks, Writing
<1> QED
  BY <1>1, <1>2, <1>3, <1>4, <1>5, <1>6 DEF BrokerNext

LEMMA FoundAlways == BrokerSpec => []FoundInv
  BY FoundStarts, FoundStep, BrokerAlways, PTL DEF BrokerSpec

\* A platform that was told its instance is there, or on its way, finds it by its
\* name (osb/router.py _lease_id_for_instance takes the oldest row), however its
\* retries raced: unless somebody else holds a lease under the same name.
THEOREM AcceptedIsFoundHolds == BrokerSpec => []AcceptedIsFound
<1>1. ASSUME BrokerInv, FoundInv, NEW c \in Calls, Granted(c),
             \A i \in Ids : leases[i].key = http[c].instance =>
                              leases[i].requester = http[c].who
      PROVE  Named(http[c].instance) = {http[c].lease}
  <2> DEFINE lease == http[c].lease
             instance == http[c].instance
  <2>1. lease \in Ids /\ Inserted(lease) /\ leases[lease].key = instance /\ instance # NoKey
    BY <1>1, NoValuesAssumption, SurfacesAssumption DEF FoundInv, Leads
  <2>2. ASSUME NEW i \in Ids, leases[i].key = instance PROVE i = lease
    <3>1. leases[i] # NoLease
      BY <2>1, <2>2 DEF NoLease
    <3>2. Inserted(i)
      BY <1>1, <3>1 DEF BrokerInv, KeyInv, TypeOK, Inserted, Lease, LeaseState
    <3> QED
      BY <1>1, <2>1, <2>2, <3>2 DEF BrokerInv, KeyInv, OneRowPerKey
  <2>3. PICK n \in DOMAIN born : born[n] = lease
    BY <1>1, <2>1 DEF FoundInv, BornInv
  <2>4. ASSUME NEW m \in DOMAIN born, leases[born[m]].key = instance PROVE m = n
    <3>1. born[m] \in Ids
      BY <1>1 DEF BrokerInv
    <3> QED
      BY <1>1, <2>2, <2>3, <2>4, <3>1 DEF FoundInv, BornInv
  <2>5. {m \in DOMAIN born : leases[born[m]].key = instance} = {n} /\ n <= n
    BY <1>1, <2>1, <2>3, <2>4 DEF BrokerInv
  <2> QED
    BY <2>3, <2>5 DEF Named
<1>2. BrokerInv /\ FoundInv => AcceptedIsFound
  BY <1>1 DEF AcceptedIsFound
<1> QED
  BY <1>2, BrokerAlways, FoundAlways, PTL

\* Rows, requests and stamps keep their shape, and every row is stamped.
THEOREM BrokerTypes == BrokerSpec => []BrokerTypeOK
<1>1. ASSUME BrokerInv, FoundInv, NEW i \in Ids, leases[i].state # "absent"
      PROVE  Contains(born, i)
  BY <1>1 DEF BrokerInv, FoundInv, BornInv, Inserted, Contains
<1>2. BrokerInv /\ FoundInv => BrokerTypeOK
  BY <1>1 DEF BrokerInv, KeyInv, BrokerTypeOK
<1> QED
  BY <1>2, BrokerAlways, FoundAlways, PTL

=============================================================================
