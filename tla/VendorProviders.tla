--------------------------- MODULE VendorProviders ---------------------------
(***************************************************************************)
(* The providers for Neon branches, Upstash databases and Cloudflare DNS   *)
(* records (src/bailment/providers/neon.py, upstash.py, cloudflare.py):    *)
(* each call of the Provider protocol as the requests it makes, one after  *)
(* the other, with everybody else in between, and what earlier calls have  *)
(* left with the vendor.                                                   *)
(***************************************************************************)
EXTENDS HttpProvider

Neon == vendor = "neon"
Upstash == vendor = "upstash"
Cloudflare == vendor = "cloudflare"

LowestOf(ids, n) == {i \in ids : Cardinality({j \in ids : j < i}) < n}

-----------------------------------------------------------------------------
\* What the vendors do.

\* _list_branches and _list_records: a page after a cursor, or the page with
\* a number.  Cloudflare filters, by the comment or by its prefix.
\* Upstash has one list of all databases.
Listed(call) ==
    IF ~Cloudflare THEN {i \in Ids : account[i] # NoName}
    ELSE IF call.question.op = "list_managed" THEN {i \in Ids : account[i] \in Managed}
    ELSE {i \in Ids : account[i] = call.question.name}

\* What the caller looks for in a page.
Wanted(call) ==
    IF call.question.op = "list_managed" THEN {i \in Ids : account[i] \in Managed}
                                         ELSE {i \in Ids : account[i] = call.question.name}

Page(call) ==
    LET all == Listed(call)
        size == PageSize[vendor]
        skipped == IF Neon THEN {i \in all : i <= call.cursor}
                           ELSE LowestOf(all, size * call.pages)
        here == LowestOf(all \ skipped, size)
        next == IF all = skipped \cup here THEN 0
                ELSE CHOOSE i \in here : \A j \in here : j <= i
    IN
    IF Upstash THEN Reply("page", Wanted(call), 0)
               ELSE Reply("page", here \cap Wanted(call), next)

\* Neon has one branch of a name, Cloudflare one record of a host name: a
\* POST meets the resource made for the same lease, or somebody else's record.
Clashes(call) == ~Upstash /\ \E i \in Ids : account[i] = call.question.name
MayClash(call) == Clashes(call) \/ (Cloudflare /\ \E i \in Ids : account[i] \in Others)

\* An id is given out once: not while a request to remove it may be handled.
Vacant(i) == account[i] = NoName /\ Removing(i) \notin adrift

\* The vendor handles the request of c and a reply is under way.
Handle(c) ==
    LET call == calls[c]
        found == IF account[call.id] = NoName THEN "missing"
                 ELSE IF account[call.id] = call.question.name THEN "ours" ELSE "renamed"
        Replied(reply) == Becomes(c, [call EXCEPT !.reply = reply])
        Unchanged == UNCHANGED account
    IN
    /\ Waiting(c)
    /\ \/ call.step \in {"find", "find_again", "list"} /\ Replied(Page(call)) /\ Unchanged
       \/ call.step = "read" /\ Replied(Reply(found, {}, 0)) /\ Unchanged
       \/ /\ call.step = "credentials" /\ Unchanged
          /\ Replied(Reply(IF found = "missing" THEN "missing" ELSE "ok", {}, 0))
       \/ /\ call.step \in {"ground", "parent"} /\ Unchanged
          /\ \E kind \in {"ok", "missing"} : Replied(Reply(kind, {}, 0))
       \/ /\ call.step = "post" /\ ~Clashes(call)
          /\ \E i \in Ids :
                /\ Vacant(i)
                /\ account' = [account EXCEPT ![i] = call.question.name]
                /\ Replied(Reply("created", {i}, 0))
       \/ call.step = "post" /\ MayClash(call) /\ Replied(Reply("clash", {}, 0)) /\ Unchanged
       \/ /\ call.step = "delete"
          /\ account' = [account EXCEPT ![call.id] = NoName]
          /\ Replied(Reply("ok", {}, 0))
    /\ UNCHANGED <<vendor, adrift>>

\* The vendor handles a request that nobody waits for.  A client may have sent
\* its POST more than once: it may be handled again.
HandleLate ==
    /\ \/ /\ \E name \in Managed : \E i \in Ids :
                /\ Making(name) \in adrift /\ Vacant(i)
                /\ Upstash \/ \A j \in Ids : account[j] # name
                /\ account' = [account EXCEPT ![i] = name]
          /\ UNCHANGED adrift
       \/ \E i \in Ids :
             /\ Removing(i) \in adrift /\ adrift' = adrift \ {Removing(i)}
             /\ account' = [account EXCEPT ![i] = NoName]
    /\ UNCHANGED <<vendor, calls>>

-----------------------------------------------------------------------------
\* What the providers do with a reply.

\* The request in front of a POST: Neon resolves the parent branch the inputs
\* name, Cloudflare validates the record against the zone, whose name it
\* caches; inputs that fail a check on the way end the call.
BeforePost(call) ==
    {GoesTo(call, "post"), Raised(call, FALSE)}
    \cup (IF Neon THEN {GoesTo(call, "parent")} ELSE {})
    \cup (IF Cloudflare THEN {GoesTo(call, "ground")} ELSE {})

\* A resource with the name is there: a previous attempt got further than its
\* caller knew.  Neon asks for its connection URI, Upstash reads it again.
Adopted(call, id) ==
    IF Cloudflare THEN Answered("ok", {id})
    ELSE [GoesTo(call, IF Neon THEN "credentials" ELSE "read") EXCEPT !.id = id]

\* Nobody can tell which of two resources with one name a lease refers to.
\* Neon takes the first it finds.
Ambiguous(ids) == ~Neon /\ Cardinality(ids) > 1

\* _branch_by_name, _database_by_name and _record_by_marker have an answer.
Found(call, ids) ==
    LET op == call.question.op IN
    IF Ambiguous(ids) THEN {Raised(call, FALSE)}
    ELSE IF op = "preflight" THEN {Answered("ok", {})}
    ELSE IF op = "exists" THEN {Answered(IF ids = {} THEN "gone" ELSE "exists", {})}
    ELSE IF op = "destroy" THEN
        IF ids = {} THEN {Answered("ok", {})}
                    ELSE {[GoesTo(call, "read") EXCEPT !.id = i] : i \in ids}
    ELSE IF ids # {} THEN {Adopted(call, i) : i \in ids}
    ELSE IF call.step = "find" THEN BeforePost(call)
    \* the POST clashed with a resource that is gone, or that is not ours
    ELSE {Raised(call, Neon)}

AfterPage(call) ==
    LET seen == call.seen \cup call.reply.ids
        last == call.reply.next = 0 \/ call.pages + 1 = MaxPages
    IN
    IF ~last THEN {[call EXCEPT !.seen = seen, !.cursor = call.reply.next,
                                !.pages = @ + 1, !.sent = 0, !.reply = NoReply]}
    ELSE IF call.step = "list" THEN {Answered("ok", seen)}
    ELSE Found(call, seen)

\* _get_branch, _get_database and _get_record have an answer.  destroy refuses
\* to delete what no longer carries the name.
AfterRead(call) ==
    LET op == call.question.op
        kind == call.reply.kind
    IN
    IF op = "create" THEN {Answered("ok", {call.id})}
    ELSE IF op = "exists" THEN {Answered(IF kind = "missing" THEN "gone" ELSE "exists", {})}
    ELSE IF kind = "missing" THEN {Answered("ok", {})}
    ELSE IF kind = "ours" THEN {GoesTo(call, "delete")}
    ELSE {Raised(call, FALSE)}

\* Neon answers a POST with a connection URI, which a pooled one or another
\* database or role than the default makes useless.
AfterPost(call) ==
    IF call.reply.kind = "clash" THEN {GoesTo(call, "find_again")}
    ELSE LET new == CHOOSE i \in Ids : call.reply.ids = {i} IN
         {Answered("ok", {new})}
         \cup (IF Neon THEN {[GoesTo(call, "credentials") EXCEPT !.id = new]} ELSE {})

\* The project or the zone has an answer ...
AfterGround(call) ==
    IF call.reply.kind = "missing" THEN {Raised(call, FALSE)}
    ELSE IF Neon THEN {GoesTo(call, "parent"), Answered("ok", {})}
    ELSE {GoesTo(call, IF call.question.op = "create" THEN "post" ELSE "find"),
          Raised(call, FALSE)}

\* ... and so has _resolve_parent, which preflight asks as well.
AfterParent(call) ==
    IF call.reply.kind = "missing" THEN {Raised(call, FALSE)}
    ELSE IF call.question.op = "create" THEN {GoesTo(call, "post"), Raised(call, FALSE)}
    ELSE {Answered("ok", {})}

Receive(c) ==
    LET call == calls[c]
        step == call.step
        onwards ==
            CASE step \in {"find", "find_again", "list"} -> AfterPage(call)
              [] step = "read" -> AfterRead(call)
              [] step = "post" -> AfterPost(call)
              [] step = "ground" -> AfterGround(call)
              [] step = "parent" -> AfterParent(call)
              [] step = "credentials" ->
                   {IF call.reply.kind = "missing" THEN Raised(call, FALSE)
                    ELSE Answered("ok", {call.id})}
              [] step = "delete" -> {Answered("ok", {})}
    IN
    /\ call.reply # NoReply
    /\ \E then \in onwards : Becomes(c, then)
    /\ UNCHANGED <<vendor, account, adrift>>

-----------------------------------------------------------------------------
\* The engine calls, and people act.

FirstSteps(question) ==
    CASE question.op = "preflight" -> IF Neon THEN {"ground"}
                                      ELSE IF Upstash THEN {"find"} ELSE {"ground", "find"}
      [] question.op = "create" -> {"find"}
      [] question.op = "list_managed" -> {"list"}
      [] OTHER -> IF question.ref = NoId THEN {"find"} ELSE {"read"}

\* The provider_ref of a question comes from an earlier answer of a create or
\* of list_managed, or there is none: it died with the worker that had it.
Refs == {NoId} \cup UNION {calls[d].answer.ids : d \in Calls}

\* preflight, create and list_managed take no reference.
Questions ==
    {q \in Question : /\ q.op \in {"destroy", "exists"} \/ q.ref = NoId
                      /\ q.ref \in Refs}

Begin(c) ==
    /\ calls[c].step = "none"
    /\ vendor \in Sheltered => \A d \in Calls : calls[d].step = "none"
    /\ \E question \in Questions : \E step \in FirstSteps(question) :
          Becomes(c, [NoCall EXCEPT !.question = question, !.step = step,
                                    !.id = question.ref])
    /\ UNCHANGED <<vendor, account, adrift>>

Init ==
    /\ vendor \in Vendors
    /\ account = [i \in Ids |-> NoName]
    /\ calls = [c \in Calls |-> NoCall]
    /\ adrift = {}
    /\ witness = [c \in Calls |-> {}]

ConsoleActs(i) ==
    /\ UNCHANGED <<vendor, calls>>
    /\ account[i] = NoName => Vacant(i)
    /\ Promise!Console(i)

Step ==
    \/ \E c \in Calls :
          \/ Begin(c) \/ Handle(c) \/ Receive(c) \/ HttpFaults(c)
    \/ HandleLate
    \/ \E i \in Ids : ConsoleActs(i)

Next ==
    /\ Step
    /\ witness' = [c \in Calls |-> Witnessing(calls[c].question, witness[c],
                                             calls'[c].question, account')]

Spec == Init /\ [][Next]_vars

-----------------------------------------------------------------------------

\* Variables keep their shape.
TypeOK ==
    /\ vendor \in Vendors
    /\ account \in [Ids -> Managed \cup Others \cup {NoName}] /\ adrift \subseteq Request
    /\ \A c \in Calls :
          /\ calls[c].question \in Question \cup {Idle}
          /\ calls[c].step = "none" <=> calls[c].question = Idle
          /\ calls[c].sent \in 0 .. MaxSends[vendor] - 1
          /\ calls[c].pages \in 0 .. MaxPages - 1 /\ calls[c].cursor \in Ids \cup {NoId}
          /\ calls[c].id \in Ids \cup {NoId} /\ calls[c].seen \subseteq Ids

\* Every call keeps the protocol's promise: what it answers was the case at
\* some moment of the call, whatever others did and whatever replies were lost;
\* a second resource of one name is never made; nothing is destroyed that did
\* not carry the name.
KeepsPromise == Promise!Spec

\* "create" is idempotent: a name names one resource.
OneResourceEach ==
    \A i, j \in Ids : account[i] = account[j] /\ account[i] \in Managed => i = j

=============================================================================
