---------------------------- MODULE PromiseProofs ----------------------------
(***************************************************************************)
(* The vendor providers keep the promise of the Provider protocol, for     *)
(* every number of calls, resources, names and sends: each step of a call  *)
(* is a step that ProviderPromise allows, or nothing of it is visible.     *)
(***************************************************************************)
EXTENDS VendorProviders, FiniteSetTheorems, TLAPS

-----------------------------------------------------------------------------
(* Pages.                                                                  *)

LEMMA SmallestOf ==
    ASSUME NEW S, S \subseteq Nat, S # {}
    PROVE  \E m \in S : \A n \in S : m <= n
<1> DEFINE R == OpToRel(<, Nat)
<1>1. IsWellFoundedOn(R, Nat)
  BY NatLessThanWellFounded
<1>2. \A a, b \in Nat : <<a, b>> \in R <=> a < b
  BY DEF OpToRel
<1> HIDE DEF R
<1>3. PICK m \in S : \A n \in S : ~(<<n, m>> \in R)
  BY <1>1, WFMin
<1>4. ASSUME NEW n \in S PROVE m <= n
  <2>1. m \in Nat /\ n \in Nat /\ ~(n < m)
    BY <1>2, <1>3
  <2> QED
    BY <2>1
<1> QED
  BY <1>4

\* ... the one with the fewest above it.
LEMMA LargestOf ==
    ASSUME NEW S, S \subseteq Nat, IsFiniteSet(S), S # {}
    PROVE  \E m \in S : \A n \in S : n <= m
<1> DEFINE Above(m) == {n \in S : n > m}
           Counts == {Cardinality(Above(m)) : m \in S}
<1>1. ASSUME NEW m \in S PROVE IsFiniteSet(Above(m)) /\ Cardinality(Above(m)) \in Nat
  BY FS_Subset, FS_CardinalityType
<1>2. Counts \subseteq Nat /\ Counts # {}
  BY <1>1
<1>3. PICK m \in S : \A n \in S : Cardinality(Above(m)) <= Cardinality(Above(n))
  <2> HIDE DEF Above
  <2>1. PICK k \in Counts : \A n \in Counts : k <= n
    BY <1>2, SmallestOf
  <2> QED
    BY <2>1
<1>4. ASSUME NEW n \in S, n > m PROVE FALSE
  <2>0. m \in Nat /\ n \in Nat /\ n > m /\ ~(n > n)
    BY <1>4
  <2>1. ASSUME NEW k \in Above(n) PROVE k \in Above(m)
    <3>1. k \in S /\ k \in Nat /\ k > n
      OBVIOUS
    <3>2. k > m
      BY <2>0, <3>1
    <3> QED
      BY <3>1, <3>2
  <2>2. n \in Above(m) /\ n \notin Above(n)
    BY <2>0
  <2> HIDE DEF Above
  <2>4. Above(n) \in SUBSET Above(m) /\ Above(n) # Above(m)
    BY <2>1, <2>2
  <2>5. /\ Cardinality(Above(n)) <= Cardinality(Above(m))
        /\ Cardinality(Above(n)) # Cardinality(Above(m))
    BY <1>1, <2>4, FS_Subset
  <2>3. Cardinality(Above(m)) <= Cardinality(Above(n))
    BY <1>3
  <2> QED
    BY <1>1, <2>5, <2>3
<1>5. ASSUME NEW n \in S PROVE n <= m
  <2>1. m \in Nat /\ n \in Nat /\ ~(n > m)
    BY <1>4
  <2> QED
    BY <2>1
<1> QED
  BY <1>5

\* The n lowest ids: no gaps among them, n of them if there are more, all of them
\* if there are not.
LEMMA LowestCloses ==
    ASSUME NEW ids, ids \subseteq Nat, IsFiniteSet(ids), NEW n \in Nat,
           NEW i \in LowestOf(ids, n), NEW j \in ids, j < i
    PROVE  j \in LowestOf(ids, n)
<1> DEFINE below(k) == {m \in ids : m < k}
<1>0. i \in ids /\ Cardinality(below(i)) < n
  BY DEF LowestOf
<1>1. below(j) \in SUBSET below(i)
  <2>1. i \in Nat /\ j \in Nat /\ \A m \in ids : m \in Nat
    BY <1>0
  <2>2. ASSUME NEW m \in ids, m < j PROVE m < i
    BY <2>1, <2>2
  <2> QED
    BY <2>2
<1>2. /\ \A k : IsFiniteSet(below(k)) /\ Cardinality(below(k)) \in Nat
  BY FS_Subset, FS_CardinalityType
<1>3. Cardinality(below(j)) <= Cardinality(below(i))
  <2> HIDE DEF below
  <2> QED
    BY <1>1, <1>2, FS_Subset
<1>4. Cardinality(below(j)) < n
  <2> HIDE DEF below
  <2> QED
    BY <1>0, <1>2, <1>3
<1> QED
  BY <1>4 DEF LowestOf

LEMMA LowestFills ==
    ASSUME NEW ids, ids \subseteq Nat, IsFiniteSet(ids), NEW n \in Nat,
           NEW i \in ids, i \notin LowestOf(ids, n)
    PROVE  /\ IsFiniteSet(LowestOf(ids, n)) /\ Cardinality(LowestOf(ids, n)) \in Nat
           /\ n <= Cardinality(LowestOf(ids, n))
<1> DEFINE below(k) == {m \in ids : m < k}
           low == LowestOf(ids, n)
<1>1. low \in SUBSET ids
  BY DEF LowestOf
<1>2. PICK k \in ids \ low : \A m \in ids \ low : k <= m
  <2>1. i \in ids \ low
    OBVIOUS
  <2> HIDE DEF low
  <2>2. ids \ low \subseteq Nat /\ ids \ low # {}
    BY <2>1
  <2> QED
    BY <2>2, SmallestOf
<1>3. below(k) \in SUBSET low
  <2>1. ASSUME NEW m \in ids, m < k, m \notin low PROVE FALSE
    <3>1. k <= m /\ k \in Nat /\ m \in Nat
      BY <1>2, <2>1
    <3> QED
      BY <2>1, <3>1
  <2> QED
    BY <2>1
<1>4. ~(Cardinality(below(k)) < n)
  BY <1>2 DEF LowestOf
<1>5. /\ IsFiniteSet(low) /\ Cardinality(low) \in Nat /\ Cardinality(below(k)) \in Nat
      /\ Cardinality(below(k)) <= Cardinality(low)
  <2> HIDE DEF low, below
  <2>1. IsFiniteSet(low)
    BY <1>1, FS_Subset
  <2>2. IsFiniteSet(below(k)) /\ Cardinality(below(k)) <= Cardinality(low)
    BY <1>3, <2>1, FS_Subset
  <2> QED
    BY <2>1, <2>2, FS_CardinalityType
<1> HIDE DEF low, below
<1>6. IsFiniteSet(low) /\ Cardinality(low) \in Nat /\ n <= Cardinality(low)
  BY <1>4, <1>5
<1> QED
  BY <1>6 DEF low

LEMMA LowestIsAll ==
    ASSUME NEW ids, ids \subseteq Nat, IsFiniteSet(ids), NEW n \in Nat, Cardinality(ids) <= n
    PROVE  LowestOf(ids, n) = ids
<1>1. ASSUME NEW i \in ids PROVE Cardinality({j \in ids : j < i}) < n
  <2> DEFINE below == {j \in ids : j < i}
  <2>1. below \in SUBSET ids /\ below # ids
    <3>1. i \in Nat /\ ~(i < i)
      OBVIOUS
    <3> QED
      BY <3>1
  <2> HIDE DEF below
  <2>2. /\ IsFiniteSet(below) /\ Cardinality(below) <= Cardinality(ids)
        /\ Cardinality(below) # Cardinality(ids)
    BY <2>1, FS_Subset
  <2>3. Cardinality(below) \in Nat /\ Cardinality(ids) \in Nat
    BY <2>2, FS_CardinalityType
  <2>4. Cardinality(below) < n
    BY <2>2, <2>3
  <2> QED
    BY <2>4 DEF below
<1> QED
  BY <1>1 DEF LowestOf

\* A page that is not empty-handed about anything beyond it.
LEMMA LowestNotEmpty ==
    ASSUME NEW ids, ids \subseteq Nat, IsFiniteSet(ids), NEW n \in Nat \ {0}, ids # {}
    PROVE  LowestOf(ids, n) # {}
<1> SUFFICES ASSUME LowestOf(ids, n) = {} PROVE FALSE
  OBVIOUS
<1>1. PICK i \in ids : TRUE
  OBVIOUS
<1>2. n <= Cardinality(LowestOf(ids, n))
  BY <1>1, LowestFills
<1> QED
  BY <1>2, FS_EmptySet

\* A page that leaves something for the next: its last id is where it ends.
LEMMA PageEnds ==
    ASSUME NEW rest, rest \subseteq Nat, IsFiniteSet(rest), NEW size \in Nat \ {0},
           NEW here, here = LowestOf(rest, size), rest # here
    PROVE  /\ \E i \in here : \A j \in here : j <= i
           /\ \A next \in here : (\A j \in here : j <= next) =>
                 /\ \A i \in rest : i <= next => i \in here
                 /\ \E k \in rest : k > next
           /\ size <= Cardinality(here)
<1>1. here \in SUBSET rest
  BY DEF LowestOf
<1>2. PICK k \in rest : k \notin here
  BY <1>1
<1>3. IsFiniteSet(here) /\ Cardinality(here) \in Nat /\ size <= Cardinality(here)
  BY <1>2, LowestFills
<1>4. here # {}
  BY <1>2, LowestNotEmpty
<1>5. \E i \in here : \A j \in here : j <= i
  BY <1>1, <1>3, <1>4, LargestOf
<1>6. SUFFICES ASSUME NEW next \in here, \A j \in here : j <= next
               PROVE  /\ \A i \in rest : i <= next => i \in here
                      /\ \E l \in rest : l > next
  BY <1>3, <1>5
<1>7. ASSUME NEW i \in rest, i <= next PROVE i \in here
  <2>1. CASE i = next
    BY <1>6, <2>1
  <2>2. CASE i # next
    <3>1. i \in Nat /\ next \in Nat
      BY <1>1, <1>6
    <3>2. i < next
      BY <1>7, <2>2, <3>1
    <3> QED
      BY <1>6, <3>2, LowestCloses
  <2> QED
    BY <2>1, <2>2
<1>8. k > next
  <2>1. k \in Nat /\ next \in Nat /\ ~(k <= next)
    BY <1>1, <1>2, <1>6, <1>7
  <2> QED
    BY <2>1
<1> QED
  BY <1>7, <1>8

-----------------------------------------------------------------------------
(* What a call has learned.                                                *)

\* The instance: the vendor's listing fits the pages the client is willing to
\* fetch (neon.py and cloudflare.py, _MAX_PAGES), Cloudflare's fits one; and
\* calls to Upstash, which accepts a name twice, come one at a time and lose no
\* answer to a POST.
Listable ==
    /\ "neon" \in Vendors => Cardinality(Ids) <= MaxPages * PageSize["neon"]
    /\ "cloudflare" \in Vendors => Cardinality(Ids) <= PageSize["cloudflare"]
    /\ "upstash" \in Vendors => "upstash" \in Sheltered

Steps == {"find", "find_again", "list", "read", "credentials", "ground", "parent", "post", "delete"}

StepsOf(op) ==
    CASE op = "preflight" -> {"find", "ground", "parent"}
      [] op = "create" -> {"find", "find_again", "ground", "parent", "post", "read", "credentials"}
      [] op = "destroy" -> {"find", "read", "delete"}
      [] op = "exists" -> {"find", "read"}
      [] op = "list_managed" -> {"list"}

AnswerKind == {"none", "ok", "retry", "error", "unknown", "gone", "exists"}
AnyAnswer == [reply : AnswerKind, ids : SUBSET Ids]

ReplyKind == {"none", "page", "missing", "ours", "renamed", "ok", "created", "clash"}

Call == [question : Question \cup {Idle}, answer : AnyAnswer,
         step : Steps \cup {"none"}, sent : Nat,
         reply : [kind : ReplyKind, ids : SUBSET Ids, next : Ids \cup {NoId}],
         id : Ids \cup {NoId}, cursor : Ids \cup {NoId}, pages : 0 .. MaxPages - 1,
         seen : SUBSET Ids]

Kinds(step) ==
    CASE step = "read" -> {"missing", "ours", "renamed"}
      [] step \in {"credentials", "ground", "parent"} -> {"ok", "missing"}
      [] step = "post" -> {"created", "clash"}
      [] step = "delete" -> {"ok"}
      [] OTHER -> {"page"}

Listing == {"find", "find_again", "list"}
OfOne == {"read", "credentials", "delete"}

\* A call that is open is at a request its operation has, and is answered what
\* that request may be answered.
Shape(call) ==
    /\ call.question = Idle <=> call.step = "none"
    /\ call.step = "none" => call.reply = NoReply
    /\ call.step # "none" =>
          /\ call.answer = NoAnswer /\ call.step \in StepsOf(call.question.op)
          /\ call.question.op \notin {"destroy", "exists"} => call.question.ref = NoId
          /\ call.reply # NoReply => call.reply.kind \in Kinds(call.step)
    /\ call.reply.kind = "created" => \E i \in Ids : call.reply.ids = {i}
    /\ call.step \notin Listing /\ call.reply.kind # "created" => call.reply.ids = {}
    /\ call.step \notin Listing => call.seen = {}
    /\ call.step \in OfOne => call.id \in Ids

CallsTyped ==
    /\ vendor \in Vendors
    /\ account \in [Ids -> Managed \cup Others \cup {NoName}]
    /\ calls \in [Calls -> Call] /\ adrift \subseteq Request
    /\ \A c \in Calls : Shape(calls[c]) /\ calls[c].sent < MaxSends[vendor]

Absent == <<"absent", NoId>>
There == <<"there", NoId>>
Got(call) == call.seen \cup call.reply.ids

\* What a listing has gone past, without and with the reply on its way.
Past(call) == {i \in Ids : i <= call.cursor}
PastReply(call) == {i \in Ids : call.reply.next = 0 \/ i <= call.reply.next}

\* How far a listing is: only Neon's has a second page, and each page but the
\* last is full.
Pages(v, call) ==
    /\ v # "neon" => call.pages = 0 /\ call.cursor = 0 /\ call.reply.next = 0 /\ call.seen = {}
    /\ v = "neon" =>
          /\ call.pages * PageSize[v] <= Cardinality(Past(call))
          /\ call.reply.next # 0 =>
                /\ (call.pages + 1) * PageSize[v] <= Cardinality(PastReply(call))
                /\ (call.pages + 1) * PageSize[v] < Cardinality(Ids)

Creates(v, acc, call, w) ==
    call.question.op = "create" =>
        /\ \A i \in Got(call) : <<"carried", i>> \in w
        /\ call.step \in {"read", "credentials"} => <<"carried", call.id>> \in w
        /\ call.step = "ground" => v # "neon"
        /\ v = "upstash" =>
              /\ call.step \notin {"ground", "parent", "find_again"} /\ call.reply.kind # "clash"
              /\ \/ call.step = "find" /\ call.reply # NoReply /\ Got(call) = {}
                 \/ call.step = "post" /\ call.reply = NoReply
                 => \A i \in Ids : acc[i] # call.question.name

\* The look-up by name, when no id was recorded.
Finds(acc, call, w) ==
    LET name == call.question.name IN
    call.question.op \in {"destroy", "exists"} /\ call.question.ref = NoId =>
        /\ call.question.op = "exists" => call.step = "find"
        /\ Got(call) # {} => There \in w
        /\ \/ Absent \in w
           \/ /\ \A i \in Past(call) : acc[i] = name => i \in call.seen
              /\ call.step = "find" /\ call.reply # NoReply =>
                    \A i \in PastReply(call) : acc[i] = name => i \in Got(call)
              /\ \A i \in Got(call) : acc[i] = name
              /\ call.step \in {"read", "delete"} => acc[call.id] = name

Reads(call, w) ==
    call.question.op \in {"destroy", "exists"} =>
        /\ call.question.ref # NoId => call.step # "find" /\ call.id = call.question.ref
        /\ call.step = "read" =>
              /\ call.reply.kind = "missing" => Absent \in w
              /\ call.question.op = "exists" /\ call.reply.kind \in {"ours", "renamed"} => There \in w
              /\ call.question.op = "destroy" /\ call.reply.kind = "ours" => <<"carried", call.id>> \in w
        /\ call.step = "delete" =>
              /\ <<"carried", call.id>> \in w
              /\ call.reply # NoReply => Absent \in w

Lists(call, w) ==
    call.question.op = "list_managed" =>
        /\ \A i \in Got(call) : <<"managed", i>> \in w
        /\ \A i \in Past(call) : i \in call.seen \/ <<"unmanaged", i>> \in w
        /\ call.reply # NoReply =>
              \A i \in PastReply(call) : i \in Got(call) \/ <<"unmanaged", i>> \in w

Learned(v, acc, call, w) ==
    /\ Pages(v, call) /\ Creates(v, acc, call, w) /\ Finds(acc, call, w)
    /\ Reads(call, w) /\ Lists(call, w)

\* What is the case has been witnessed, by the calls that are open.
Current(acc, question, w) ==
    IF question = Idle THEN w = {} ELSE Moment(question, acc) \subseteq w

Unique(acc) == \A i, j \in Ids : acc[i] = acc[j] /\ acc[i] \in Managed => i = j

Alone == vendor = "upstash" =>
    \A c, d \in Calls : calls[c].step # "none" /\ calls[d].step # "none" => c = d

\* A sheltered vendor has no POST left to handle.
NonePosted == vendor \in Sheltered => \A name \in Managed : Making(name) \notin adrift

PromiseInv ==
    /\ Unique(account) /\ Alone /\ NonePosted
    /\ witness = [c \in Calls |-> witness[c]]
    /\ \A c \in Calls :
          Learned(vendor, account, calls[c], witness[c])
          /\ Current(account, calls[c].question, witness[c])

-----------------------------------------------------------------------------
(* Every request that a call comes to is one of its operation, and its     *)
(* fields keep their types.                                                *)

Typed(call) == call \in Call /\ Shape(call)

\* What may become of an open call in one step, as far as types go.
Continues(call, then) ==
    \/ \E answer \in AnyAnswer : then = Ended(answer)
    \/ /\ Typed(then) /\ then.question = call.question /\ then.step # "none"
       /\ then.sent \in {0, call.sent} \/ then.sent < MaxSends[vendor]

LEMMA EndedIs ==
    ASSUME NEW answer
    PROVE  /\ Ended(answer).question = Idle /\ Ended(answer).answer = answer
           /\ Ended(answer).step = "none" /\ Ended(answer).reply = NoReply
           /\ Ended(answer).sent = 0
           /\ answer \in AnyAnswer => Typed(Ended(answer))
<1>0. 0 \in 0 .. MaxPages - 1
  BY SendsAssumption
<1>1. NoCall \in Call
  BY <1>0 DEF NoCall, Call, NoAnswer, Answer, AnyAnswer, AnswerKind, NoReply, ReplyKind, NoId
<1>2. /\ Ended(answer).question = Idle /\ Ended(answer).answer = answer
      /\ Ended(answer).step = "none" /\ Ended(answer).reply = NoReply
      /\ Ended(answer).seen = {} /\ Ended(answer).sent = 0
  BY DEF Ended, NoCall
<1>3. answer \in AnyAnswer => Ended(answer) \in Call
  BY <1>1 DEF Ended, Call, AnyAnswer
<1>4. Shape(Ended(answer))
  BY <1>2 DEF Shape, NoReply, OfOne
<1> QED
  BY <1>2, <1>3, <1>4 DEF Typed

\* The idle call is one that ended without an answer.
LEMMA NoCallIs == NoCall = Ended(NoAnswer) /\ NoAnswer \in AnyAnswer
<1>1. NoCall = Ended(NoAnswer)
  BY DEF NoCall, Ended, NoAnswer
<1> QED
  BY <1>1 DEF NoAnswer, AnyAnswer, Answer, AnswerKind

LEMMA RaisedIs ==
    ASSUME NEW call, NEW retryable \in BOOLEAN
    PROVE  /\ \/ Raised(call, retryable) = Ended(Answer("error", {}))
              \/ Raised(call, retryable) = Ended(Answer("retry", {}))
              \/ /\ call.question.op = "exists"
                 /\ Raised(call, retryable) = Ended(Answer("unknown", {}))
           /\ Continues(call, Raised(call, retryable))
<1>1. /\ Answer("error", {}) \in AnyAnswer /\ Answer("retry", {}) \in AnyAnswer
      /\ Answer("unknown", {}) \in AnyAnswer
  BY DEF Answer, AnyAnswer, AnswerKind
<1> QED
  BY <1>1 DEF Raised, Answered, Continues

LEMMA AnswersContinue ==
    ASSUME NEW call, NEW x \in AnswerKind, NEW ids \in SUBSET Ids
    PROVE  Continues(call, Answered(x, ids))
  BY DEF Answered, Answer, AnyAnswer, Continues

LEMMA StepsAreSteps == \A op \in Op : StepsOf(op) \subseteq Steps /\ "none" \notin StepsOf(op)
  BY DEF Op, StepsOf, Steps

\* An open call asks something.
LEMMA OpenAsks ==
    ASSUME NEW call, Typed(call), call.step # "none"
    PROVE  /\ call.question \in Question /\ call.question.op \in Op
           /\ call.question.name \in Managed /\ call.question.ref \in Ids \cup {NoId}
           /\ call.step \in StepsOf(call.question.op)
  BY DEF Typed, Call, Shape, Question

LEMMA GoesToIs ==
    ASSUME NEW call, Typed(call), call.step # "none",
           NEW step \in StepsOf(call.question.op), NEW i \in Ids \cup {NoId},
           step \in OfOne => i \in Ids,
           NEW then, then = [GoesTo(call, step) EXCEPT !.id = i]
    PROVE  /\ then.question = call.question /\ then.step = step /\ then.id = i
           /\ then.reply = NoReply /\ then.cursor = NoId /\ then.pages = 0 /\ then.seen = {}
           /\ Continues(call, then)
<1>1. then.step = step /\ step \in Steps /\ step # "none"
  BY StepsAreSteps, OpenAsks DEF GoesTo, Typed, Call
<1>2. /\ then.question = call.question /\ then.id = i /\ then.answer = call.answer
      /\ then.sent = 0
      /\ then.reply = NoReply /\ then.cursor = NoId /\ then.pages = 0 /\ then.seen = {}
  BY DEF GoesTo, Typed, Call
<1>0. 0 \in 0 .. MaxPages - 1
  BY SendsAssumption
<1>3. then \in Call
  BY <1>0, <1>1 DEF GoesTo, Typed, Call, NoReply, ReplyKind, NoId
<1>4. Shape(then)
  BY <1>1, <1>2 DEF Shape, Typed, NoReply
<1> QED
  BY <1>1, <1>2, <1>3, <1>4 DEF Continues, Typed

LEMMA GoesToSame ==
    ASSUME NEW call, Typed(call), NEW step
    PROVE  GoesTo(call, step) = [GoesTo(call, step) EXCEPT !.id = call.id]
           /\ call.id \in Ids \cup {NoId}
  BY DEF GoesTo, Typed, Call

\* The loop of the client goes round once more.
LEMMA AgainIs ==
    ASSUME NEW call, Typed(call), call.step # "none", NEW then, then = SentAgain(call)
    PROVE  /\ \/ then = Raised(call, TRUE)
              \/ /\ then.question = call.question /\ then.step = call.step /\ then.id = call.id
                 /\ then.reply = NoReply /\ then.cursor = call.cursor
                 /\ then.pages = call.pages /\ then.seen = call.seen
           /\ Continues(call, then)
<1>1. CASE then = Raised(call, TRUE)
  BY <1>1, RaisedIs
<1>2. CASE then # Raised(call, TRUE)
  <2>1. /\ call.sent + 1 < MaxSends[vendor] /\ call.sent \in Nat
        /\ then = [call EXCEPT !.sent = @ + 1, !.reply = NoReply]
    BY <1>2 DEF SentAgain, Typed, Call
  <2>2. call.sent + 1 \in Nat
    BY <2>1
  <2>3. /\ then.question = call.question /\ then.step = call.step /\ then.id = call.id
        /\ then.reply = NoReply /\ then.cursor = call.cursor /\ then.answer = call.answer
        /\ then.pages = call.pages /\ then.seen = call.seen
        /\ then.sent = call.sent + 1
    BY <2>1 DEF Typed, Call
  <2>6. /\ NoReply \in [kind : ReplyKind, ids : SUBSET Ids, next : Ids \cup {NoId}]
        /\ then = [call EXCEPT !.sent = call.sent + 1, !.reply = NoReply]
    BY <2>1 DEF NoReply, ReplyKind, NoId
  <2> DEFINE n == call.sent + 1
  <2>7. n \in Nat /\ then = [call EXCEPT !.sent = n, !.reply = NoReply]
    BY <2>2, <2>6
  <2> HIDE DEF n
  <2>4. then \in Call
    BY <2>6, <2>7 DEF Typed, Call
  <2>5. Shape(then)
    BY <2>3 DEF Typed, Shape, NoReply
  <2> QED
    BY <2>1, <2>3, <2>4, <2>5 DEF Continues, Typed
<1> QED
  BY <1>1, <1>2

\* A reply is on its way.
LEMMA RepliedIs ==
    ASSUME NEW call, Typed(call), call.step # "none",
           NEW reply \in [kind : ReplyKind, ids : SUBSET Ids, next : Ids \cup {NoId}],
           reply.kind \in Kinds(call.step),
           reply.kind = "created" => \E i \in Ids : reply.ids = {i},
           call.step \notin Listing /\ reply.kind # "created" => reply.ids = {},
           NEW then, then = [call EXCEPT !.reply = reply]
    PROVE  /\ then.question = call.question /\ then.step = call.step /\ then.id = call.id
           /\ then.reply = reply /\ then.cursor = call.cursor
           /\ then.pages = call.pages /\ then.seen = call.seen
           /\ Continues(call, then)
<1>1. /\ then.question = call.question /\ then.step = call.step /\ then.id = call.id
      /\ then.reply = reply /\ then.cursor = call.cursor /\ then.answer = call.answer
      /\ then.sent = call.sent /\ then.pages = call.pages /\ then.seen = call.seen
  BY DEF Typed, Call
<1>2. then \in Call
  BY DEF Typed, Call
<1>3. Shape(then)
  BY <1>1 DEF Typed, Shape
<1> QED
  BY <1>1, <1>2, <1>3 DEF Continues, Typed

\* The next page of a listing is asked for.
LEMMA TurnedIs ==
    ASSUME NEW call, Typed(call), call.step \in Listing, call.pages + 1 # MaxPages,
           NEW then, then = [call EXCEPT !.seen = call.seen \cup call.reply.ids,
                                         !.cursor = call.reply.next, !.pages = @ + 1,
                                         !.sent = 0, !.reply = NoReply]
    PROVE  /\ then.question = call.question /\ then.step = call.step /\ then.id = call.id
           /\ then.reply = NoReply /\ then.cursor = call.reply.next
           /\ then.pages = call.pages + 1 /\ then.seen = Got(call)
           /\ Continues(call, then)
<1>0. /\ call.pages \in 0 .. MaxPages - 1 /\ call.step # "none"
  BY SendsAssumption DEF Typed, Call, Listing
<1>1. call.pages + 1 \in 0 .. MaxPages - 1
  BY <1>0, SendsAssumption
<1>2. /\ then.question = call.question /\ then.step = call.step /\ then.id = call.id
      /\ then.reply = NoReply /\ then.cursor = call.reply.next /\ then.answer = call.answer
      /\ then.pages = call.pages + 1 /\ then.seen = Got(call) /\ then.sent = 0
  BY DEF Typed, Call, Got
<1>3. then \in Call
  <2>1. call.reply.next \in Ids \cup {NoId} /\ call.seen \cup call.reply.ids \in SUBSET Ids
    BY DEF Typed, Call
  <2> QED
    BY <1>0, <1>1, <2>1 DEF Typed, Call, NoReply, ReplyKind, NoId
<1>4. Shape(then)
  BY <1>2 DEF Typed, Shape, NoReply, Listing
<1> QED
  BY <1>0, <1>2, <1>3, <1>4 DEF Continues, Typed

\* Which operation is at a step, and which steps an operation has.
LEMMA WhoIsAt ==
    ASSUME NEW call, Typed(call), call.step # "none"
    PROVE  /\ call.step \in {"find_again", "post", "credentials"} => call.question.op = "create"
           /\ call.step = "list" <=> call.question.op = "list_managed"
           /\ call.step \in {"ground", "parent"} => call.question.op \in {"preflight", "create"}
           /\ call.step = "read" => call.question.op \in {"create", "destroy", "exists"}
           /\ call.step = "delete" => call.question.op = "destroy"
           /\ call.step = "find" => call.question.op \in Op \ {"list_managed"}
<1>1. call.step \in StepsOf(call.question.op) /\ call.question.op \in Op
  BY OpenAsks
<1> QED
  BY <1>1 DEF StepsOf, Op

LEMMA GoesOn ==
    ASSUME NEW call, Typed(call), call.step # "none", NEW step \in StepsOf(call.question.op),
           step \in OfOne => call.id \in Ids
    PROVE  Continues(call, GoesTo(call, step))
<1>1. GoesTo(call, step) = [GoesTo(call, step) EXCEPT !.id = call.id] /\ call.id \in Ids \cup {NoId}
  BY GoesToSame
<1> QED
  BY <1>1, GoesToIs

LEMMA AdoptedContinues ==
    ASSUME NEW call, Typed(call), call.step # "none", call.question.op = "create", NEW i \in Ids
    PROVE  Continues(call, Adopted(call, i))
<1>1. CASE Cloudflare
  BY <1>1, AnswersContinue DEF Adopted, AnswerKind
<1>2. CASE ~Cloudflare
  <2>1. PICK step \in {"credentials", "read"} :
           Adopted(call, i) = [GoesTo(call, step) EXCEPT !.id = i]
    BY <1>2 DEF Adopted
  <2>2. step \in StepsOf(call.question.op)
    BY DEF StepsOf
  <2> QED
    BY <2>1, <2>2, GoesToIs
<1> QED
  BY <1>1, <1>2

LEMMA FoundContinues ==
    ASSUME NEW call, Typed(call), call.step \in {"find", "find_again"},
           NEW ids \in SUBSET Ids, NEW then \in Found(call, ids)
    PROVE  Continues(call, then)
<1> DEFINE op == call.question.op
<1>0. call.step # "none" /\ op \in Op \ {"list_managed"} /\ Neon \in BOOLEAN
  BY WhoIsAt DEF Op, Neon
<1>1. CASE Ambiguous(ids)
  BY <1>1, RaisedIs DEF Found
<1>2. CASE ~Ambiguous(ids) /\ op = "preflight"
  BY <1>2, AnswersContinue DEF Found, AnswerKind
<1>3. CASE ~Ambiguous(ids) /\ op = "exists"
  BY <1>3, AnswersContinue DEF Found, AnswerKind
<1>4. CASE ~Ambiguous(ids) /\ op = "destroy"
  <2>1. CASE ids = {}
    BY <1>4, <2>1, AnswersContinue DEF Found, AnswerKind
  <2>2. CASE ids # {}
    <3>1. PICK i \in ids : then = [GoesTo(call, "read") EXCEPT !.id = i]
      BY <1>4, <2>2 DEF Found
    <3>2. "read" \in StepsOf(op) /\ i \in Ids \cup {NoId}
      BY <1>4 DEF StepsOf
    <3> QED
      BY <1>0, <3>1, <3>2, GoesToIs
  <2> QED
    BY <2>1, <2>2
<1>5. CASE ~Ambiguous(ids) /\ op = "create"
  <2>1. CASE ids # {}
    BY <1>0, <1>5, <2>1, AdoptedContinues DEF Found
  <2>2. CASE ids = {} /\ call.step = "find"
    <3>1. \/ then = Raised(call, FALSE)
          \/ \E step \in {"post", "parent", "ground"} : then = GoesTo(call, step)
      BY <1>5, <2>2 DEF Found, BeforePost
    <3>2. {"post", "parent", "ground"} \subseteq StepsOf(op)
      BY <1>5 DEF StepsOf
    <3> QED
      BY <1>0, <3>1, <3>2, GoesOn, RaisedIs DEF OfOne
  <2>3. CASE ids = {} /\ call.step # "find"
    BY <1>0, <1>5, <2>3, RaisedIs DEF Found
  <2> QED
    BY <2>1, <2>2, <2>3
<1> QED
  BY <1>0, <1>1, <1>2, <1>3, <1>4, <1>5 DEF Op

LEMMA AfterPageContinues ==
    ASSUME NEW call, Typed(call), call.step \in Listing, NEW then \in AfterPage(call)
    PROVE  Continues(call, then)
<1>1. Got(call) \in SUBSET Ids
  BY DEF Typed, Call, Got
<1>2. CASE ~(call.reply.next = 0 \/ call.pages + 1 = MaxPages)
  <2>1. then = [call EXCEPT !.seen = call.seen \cup call.reply.ids, !.cursor = call.reply.next,
                            !.pages = @ + 1, !.sent = 0, !.reply = NoReply]
    BY <1>2 DEF AfterPage
  <2> QED
    BY <1>2, <2>1, TurnedIs
<1>3. CASE (call.reply.next = 0 \/ call.pages + 1 = MaxPages) /\ call.step = "list"
  <2>1. then = Answered("ok", Got(call))
    BY <1>3 DEF AfterPage, Got
  <2> QED
    BY <1>1, <2>1, AnswersContinue DEF AnswerKind
<1>4. CASE (call.reply.next = 0 \/ call.pages + 1 = MaxPages) /\ call.step # "list"
  <2>1. then \in Found(call, Got(call)) /\ call.step \in {"find", "find_again"}
    BY <1>4 DEF AfterPage, Got, Listing
  <2> QED
    BY <1>1, <2>1, FoundContinues
<1> QED
  BY <1>2, <1>3, <1>4

LEMMA AfterReadContinues ==
    ASSUME NEW call, Typed(call), call.step = "read", NEW then \in AfterRead(call)
    PROVE  Continues(call, then)
<1>0. call.id \in Ids /\ call.question.op \in {"create", "destroy", "exists"}
  BY WhoIsAt DEF Typed, Shape, OfOne
<1>1. CASE call.question.op = "create"
  <2>1. then = Answered("ok", {call.id}) /\ {call.id} \in SUBSET Ids
    BY <1>0, <1>1 DEF AfterRead
  <2> QED
    BY <2>1, AnswersContinue DEF AnswerKind
<1>2. CASE call.question.op = "exists"
  BY <1>2, AnswersContinue DEF AfterRead, AnswerKind
<1>3. CASE call.question.op = "destroy"
  <2>1. \/ then = Answered("ok", {})
        \/ then = Raised(call, FALSE)
        \/ then = GoesTo(call, "delete")
    BY <1>3 DEF AfterRead
  <2>2. "delete" \in StepsOf(call.question.op)
    BY <1>3 DEF StepsOf
  <2> QED
    BY <1>0, <2>1, <2>2, GoesOn, RaisedIs, AnswersContinue DEF AnswerKind
<1> QED
  BY <1>0, <1>1, <1>2, <1>3

LEMMA AfterPostContinues ==
    ASSUME NEW call, Typed(call), call.step = "post", call.reply # NoReply, NEW then \in AfterPost(call)
    PROVE  Continues(call, then)
<1>0. /\ call.question.op = "create" /\ call.reply.kind \in {"created", "clash"}
      /\ call.reply.kind = "created" => \E i \in Ids : call.reply.ids = {i}
  BY WhoIsAt DEF Typed, Shape, Kinds
<1>1. CASE call.reply.kind = "clash"
  <2>1. then = GoesTo(call, "find_again") /\ "find_again" \in StepsOf(call.question.op)
    BY <1>0, <1>1 DEF AfterPost, StepsOf
  <2> QED
    BY <2>1, GoesOn DEF OfOne
<1>2. CASE call.reply.kind = "created"
  <2> DEFINE new == CHOOSE i \in Ids : call.reply.ids = {i}
  <2>1. new \in Ids
    BY <1>0, <1>2
  <2>2. then = Answered("ok", {new}) \/ then = [GoesTo(call, "credentials") EXCEPT !.id = new]
    BY <1>2 DEF AfterPost
  <2>3. "credentials" \in StepsOf(call.question.op) /\ {new} \in SUBSET Ids
    BY <1>0, <2>1 DEF StepsOf
  <2> HIDE DEF new
  <2>4. CASE then = Answered("ok", {new})
    BY <2>3, <2>4, AnswersContinue DEF AnswerKind
  <2>5. CASE then = [GoesTo(call, "credentials") EXCEPT !.id = new]
    BY <2>1, <2>3, <2>5, GoesToIs
  <2> QED
    BY <2>2, <2>4, <2>5
<1> QED
  BY <1>0, <1>1, <1>2

LEMMA AfterGroundContinues ==
    ASSUME NEW call, Typed(call), call.step = "ground", NEW then \in AfterGround(call)
    PROVE  Continues(call, then)
<1>0. call.question.op \in {"preflight", "create"}
  BY WhoIsAt
<1>1. \/ then = Raised(call, FALSE) \/ then = Answered("ok", {})
      \/ then = GoesTo(call, "parent")
      \/ then = GoesTo(call, "post") /\ call.question.op = "create"
      \/ then = GoesTo(call, "find")
  BY <1>0 DEF AfterGround
<1>2. /\ {"parent", "find"} \subseteq StepsOf(call.question.op)
      /\ call.question.op = "create" => "post" \in StepsOf(call.question.op)
  BY <1>0 DEF StepsOf
<1> QED
  BY <1>1, <1>2, GoesOn, RaisedIs, AnswersContinue DEF AnswerKind, OfOne

LEMMA AfterParentContinues ==
    ASSUME NEW call, Typed(call), call.step = "parent", NEW then \in AfterParent(call)
    PROVE  Continues(call, then)
<1>1. \/ then = Raised(call, FALSE) \/ then = Answered("ok", {})
      \/ then = GoesTo(call, "post") /\ call.question.op = "create"
  BY DEF AfterParent
<1>2. call.question.op = "create" => "post" \in StepsOf(call.question.op)
  BY DEF StepsOf
<1> QED
  BY <1>1, <1>2, GoesOn, RaisedIs, AnswersContinue DEF AnswerKind, OfOne

-----------------------------------------------------------------------------
(* Every step keeps the types.                                             *)

\* What a reply makes of the call that receives it.
LEMMA ReceiveIs ==
    ASSUME NEW c \in Calls, Typed(calls[c]), Receive(c)
    PROVE  \E then : /\ calls' = [calls EXCEPT ![c] = then] /\ calls[c].step # "none"
                     /\ \/ calls[c].step \in Listing /\ then \in AfterPage(calls[c])
                        \/ calls[c].step = "read" /\ then \in AfterRead(calls[c])
                        \/ calls[c].step = "post" /\ then \in AfterPost(calls[c])
                        \/ calls[c].step = "ground" /\ then \in AfterGround(calls[c])
                        \/ calls[c].step = "parent" /\ then \in AfterParent(calls[c])
                        \/ /\ calls[c].step = "credentials"
                           /\ \/ then = Raised(calls[c], FALSE)
                              \/ then = Answered("ok", {calls[c].id})
                        \/ calls[c].step = "delete" /\ then = Answered("ok", {})
<1> DEFINE call == calls[c]
<1>0. call.step \in Steps /\ call.reply # NoReply
  BY DEF Receive, Typed, Call, Shape
<1>1. CASE call.step \in Listing
  BY <1>0, <1>1 DEF Receive, Becomes, Listing
<1>2. CASE call.step = "read"
  BY <1>0, <1>2 DEF Receive, Becomes
<1>3. CASE call.step = "post"
  BY <1>0, <1>3 DEF Receive, Becomes
<1>4. CASE call.step = "ground"
  BY <1>0, <1>4 DEF Receive, Becomes
<1>5. CASE call.step = "parent"
  BY <1>0, <1>5 DEF Receive, Becomes
<1>6. CASE call.step = "credentials"
  BY <1>0, <1>6 DEF Receive, Becomes
<1>7. CASE call.step = "delete"
  BY <1>0, <1>7 DEF Receive, Becomes
<1> QED
  BY <1>0, <1>1, <1>2, <1>3, <1>4, <1>5, <1>6, <1>7 DEF Steps, Listing

LEMMA ReceiveContinues ==
    ASSUME NEW c \in Calls, Typed(calls[c]), Receive(c)
    PROVE  \E then : calls' = [calls EXCEPT ![c] = then] /\ Continues(calls[c], then)
<1> DEFINE call == calls[c]
<1>1. PICK then : /\ calls' = [calls EXCEPT ![c] = then] /\ call.step # "none"
                  /\ \/ call.step \in Listing /\ then \in AfterPage(call)
                     \/ call.step = "read" /\ then \in AfterRead(call)
                     \/ call.step = "post" /\ then \in AfterPost(call)
                     \/ call.step = "ground" /\ then \in AfterGround(call)
                     \/ call.step = "parent" /\ then \in AfterParent(call)
                     \/ /\ call.step = "credentials"
                        /\ then = Raised(call, FALSE) \/ then = Answered("ok", {call.id})
                     \/ call.step = "delete" /\ then = Answered("ok", {})
  BY ReceiveIs
<1>2. call.reply # NoReply
  BY DEF Receive
<1>3. call.step = "credentials" => {call.id} \in SUBSET Ids
  BY DEF Typed, Shape, OfOne
<1>4. "ok" \in AnswerKind /\ {} \in SUBSET Ids
  BY DEF AnswerKind
<1>5. Typed(call)
  OBVIOUS
<1> HIDE DEF call
<1>6. Continues(call, then)
  <2>1. CASE call.step \in Listing /\ then \in AfterPage(call)
    BY <1>5, <2>1, AfterPageContinues
  <2>2. CASE call.step = "read" /\ then \in AfterRead(call)
    BY <1>5, <2>2, AfterReadContinues
  <2>3. CASE call.step = "post" /\ then \in AfterPost(call)
    BY <1>2, <1>5, <2>3, AfterPostContinues
  <2>4. CASE call.step = "ground" /\ then \in AfterGround(call)
    BY <1>5, <2>4, AfterGroundContinues
  <2>5. CASE call.step = "parent" /\ then \in AfterParent(call)
    BY <1>5, <2>5, AfterParentContinues
  <2>6. CASE then = Raised(call, FALSE)
    BY <2>6, RaisedIs
  <2>7. CASE call.step = "credentials" /\ then = Answered("ok", {call.id})
    BY <1>3, <1>4, <2>7, AnswersContinue
  <2>8. CASE then = Answered("ok", {})
    BY <1>4, <2>8, AnswersContinue
  <2> QED
    BY <1>1, <2>1, <2>2, <2>3, <2>4, <2>5, <2>6, <2>7, <2>8
<1> QED
  BY <1>1, <1>6 DEF call

ReplyRecord == [kind : ReplyKind, ids : SUBSET Ids, next : Ids \cup {NoId}]

LEMMA ReplyIs ==
    ASSUME NEW kind \in ReplyKind, NEW ids \in SUBSET Ids, NEW next \in Ids \cup {NoId}
    PROVE  /\ Reply(kind, ids, next) \in ReplyRecord
           /\ Reply(kind, ids, next).kind = kind /\ Reply(kind, ids, next).ids = ids
           /\ Reply(kind, ids, next).next = next
  BY DEF Reply, ReplyRecord

\* What the listing has for a call beyond what it skips.
LEMMA ListedIs ==
    ASSUME NEW call, vendor \in Vendors
    PROVE  /\ Listed(call) \in SUBSET Ids /\ Wanted(call) \in SUBSET Ids
           /\ \A S \in SUBSET Ids : S \subseteq Nat /\ IsFiniteSet(S) /\ Cardinality(S) \in Nat
           /\ PageSize[vendor] \in Nat \ {0}
<1>1. Listed(call) \in SUBSET Ids /\ Wanted(call) \in SUBSET Ids
  BY DEF Listed, Wanted
<1>2. \A S \in SUBSET Ids : S \subseteq Nat /\ IsFiniteSet(S) /\ Cardinality(S) \in Nat
  BY IdsAssumption, FS_Subset, FS_CardinalityType
<1>3. PageSize[vendor] \in Nat \ {0}
  BY VendorsAssumption
<1> QED
  BY <1>1, <1>2, <1>3

\* The parts of a page: what it skips, what it leaves, what it holds, where it ends.
Skipped(call) == IF Neon THEN {i \in Listed(call) : i <= call.cursor}
                         ELSE LowestOf(Listed(call), PageSize[vendor] * call.pages)
Rest(call) == Listed(call) \ Skipped(call)
Here(call) == LowestOf(Rest(call), PageSize[vendor])
Last(call) == CHOOSE i \in Here(call) : \A j \in Here(call) : j <= i

LEMMA PageParts ==
    ASSUME NEW call, vendor \in Vendors
    PROVE  /\ Upstash => Page(call) = Reply("page", Wanted(call), 0)
           /\ ~Upstash => Page(call) = Reply("page", Here(call) \cap Wanted(call),
                                             IF Rest(call) = Here(call) THEN 0 ELSE Last(call))
           /\ Rest(call) \in SUBSET Ids /\ Here(call) \in SUBSET Ids
           /\ Rest(call) # Here(call) =>
                 /\ Last(call) \in Here(call)
                 /\ \A i \in Rest(call) : i <= Last(call) => i \in Here(call)
                 /\ \E k \in Rest(call) : k > Last(call)
                 /\ PageSize[vendor] <= Cardinality(Here(call))
<1>1. Skipped(call) \subseteq Listed(call) /\ Here(call) \subseteq Rest(call)
  BY DEF Skipped, LowestOf, Here
<1>2. Listed(call) = Skipped(call) \cup Here(call) <=> Rest(call) = Here(call)
  BY <1>1 DEF Rest
<1>3. ~Upstash => Page(call) = Reply("page", Here(call) \cap Wanted(call),
         IF Listed(call) = Skipped(call) \cup Here(call) THEN 0 ELSE Last(call))
  BY DEF Page, Here, Rest, Skipped, Last
<1>4. Rest(call) \in SUBSET Ids /\ Here(call) \in SUBSET Ids
  BY <1>1, ListedIs DEF Rest
<1>5. ASSUME Rest(call) # Here(call)
      PROVE  /\ Last(call) \in Here(call)
             /\ \A i \in Rest(call) : i <= Last(call) => i \in Here(call)
             /\ \E k \in Rest(call) : k > Last(call)
             /\ PageSize[vendor] <= Cardinality(Here(call))
  <2>1. /\ Rest(call) \subseteq Nat /\ IsFiniteSet(Rest(call)) /\ PageSize[vendor] \in Nat \ {0}
        /\ Here(call) = LowestOf(Rest(call), PageSize[vendor])
    BY <1>4, ListedIs DEF Here
  <2>2. /\ \E i \in Here(call) : \A j \in Here(call) : j <= i
        /\ \A next \in Here(call) : (\A j \in Here(call) : j <= next) =>
              /\ \A i \in Rest(call) : i <= next => i \in Here(call)
              /\ \E k \in Rest(call) : k > next
        /\ PageSize[vendor] <= Cardinality(Here(call))
    BY <1>5, <2>1, PageEnds
  <2>3. Last(call) \in Here(call) /\ \A j \in Here(call) : j <= Last(call)
    BY <2>2 DEF Last
  <2> QED
    BY <2>2, <2>3
<1> QED
  BY <1>2, <1>3, <1>4, <1>5 DEF Page

LEMMA PageShape ==
    ASSUME NEW call, vendor \in Vendors
    PROVE  /\ Page(call) \in ReplyRecord /\ Page(call).kind = "page"
           /\ Page(call).ids \subseteq Wanted(call)
<1>0. "page" \in ReplyKind /\ 0 \in Ids \cup {NoId} /\ Wanted(call) \in SUBSET Ids
  BY ListedIs DEF ReplyKind, NoId
<1>1. CASE Upstash
  BY <1>0, <1>1, PageParts, ReplyIs
<1>2. CASE ~Upstash
  <2> DEFINE ids == Here(call) \cap Wanted(call)
             next == IF Rest(call) = Here(call) THEN 0 ELSE Last(call)
  <2>1. ids \in SUBSET Ids /\ next \in Ids \cup {NoId} /\ ids \subseteq Wanted(call)
    BY <1>0, PageParts
  <2>2. Page(call) = Reply("page", ids, next)
    BY <1>2, PageParts
  <2> HIDE DEF ids, next
  <2> QED
    BY <1>0, <2>1, <2>2, ReplyIs
<1> QED
  BY <1>1, <1>2

\* The request is handled: how the account and the call are left.
LEMMA HandleIs ==
    ASSUME NEW c \in Calls, Handle(c)
    PROVE  LET call == calls[c]
               name == call.question.name
           IN \E reply :
              /\ call.step # "none" /\ call.reply = NoReply
              /\ calls' = [calls EXCEPT ![c] = [call EXCEPT !.reply = reply]]
              /\ \/ call.step \in Listing /\ reply = Page(call) /\ account' = account
                 \/ /\ call.step = "read" /\ account' = account
                    /\ \/ account[call.id] = NoName /\ reply = Reply("missing", {}, 0)
                       \/ account[call.id] = name /\ reply = Reply("ours", {}, 0)
                       \/ account[call.id] \notin {NoName, name} /\ reply = Reply("renamed", {}, 0)
                 \/ /\ call.step \in {"credentials", "ground", "parent"} /\ account' = account
                    /\ reply = Reply("ok", {}, 0) \/ reply = Reply("missing", {}, 0)
                 \/ /\ call.step = "post" /\ ~Clashes(call)
                    /\ \E i \in Ids : /\ account[i] = NoName
                                      /\ account' = [account EXCEPT ![i] = name]
                                      /\ reply = Reply("created", {i}, 0)
                 \/ /\ call.step = "post" /\ MayClash(call) /\ account' = account
                    /\ reply = Reply("clash", {}, 0)
                 \/ /\ call.step = "delete" /\ account' = [account EXCEPT ![call.id] = NoName]
                    /\ reply = Reply("ok", {}, 0)
<1> DEFINE call == calls[c]
           found == IF account[call.id] = NoName THEN "missing"
                    ELSE IF account[call.id] = call.question.name THEN "ours" ELSE "renamed"
<1>0. call.step # "none" /\ call.reply = NoReply
  BY DEF Handle, Waiting
<1>1. CASE call.step \in {"find", "find_again", "list"}
  BY <1>0, <1>1 DEF Handle, Becomes, Listing
<1>2. CASE call.step = "read"
  <2>1. account' = account /\ calls' = [calls EXCEPT ![c] = [call EXCEPT !.reply = Reply(found, {}, 0)]]
    BY <1>2 DEF Handle, Becomes
  <2>2. \/ account[call.id] = NoName /\ found = "missing"
        \/ account[call.id] = call.question.name /\ found = "ours"
        \/ account[call.id] \notin {NoName, call.question.name} /\ found = "renamed"
    OBVIOUS
  <2> HIDE DEF found
  <2> QED
    BY <1>0, <1>2, <2>1, <2>2
<1>3. CASE call.step = "credentials"
  <2>1. PICK kind \in {"missing", "ok"} :
          account' = account /\ calls' = [calls EXCEPT ![c] = [call EXCEPT !.reply = Reply(kind, {}, 0)]]
    BY <1>3 DEF Handle, Becomes
  <2> QED
    BY <1>0, <1>3, <2>1
<1>4. CASE call.step \in {"ground", "parent"}
  <2>1. PICK kind \in {"missing", "ok"} :
          account' = account /\ calls' = [calls EXCEPT ![c] = [call EXCEPT !.reply = Reply(kind, {}, 0)]]
    BY <1>4 DEF Handle, Becomes
  <2> QED
    BY <1>0, <1>4, <2>1
<1>5. CASE call.step = "post"
  BY <1>0, <1>5 DEF Handle, Becomes, Vacant
<1>6. CASE call.step = "delete"
  BY <1>0, <1>6 DEF Handle, Becomes
<1> QED
  BY <1>1, <1>2, <1>3, <1>4, <1>5, <1>6 DEF Handle

AccountTyped(acc) == acc \in [Ids -> Managed \cup Others \cup {NoName}]

LEMMA HandleContinues ==
    ASSUME CallsTyped, NEW c \in Calls, Handle(c)
    PROVE  /\ \E then : calls' = [calls EXCEPT ![c] = then] /\ Continues(calls[c], then)
           /\ AccountTyped(account')
<1> DEFINE call == calls[c]
           name == call.question.name
<1>0. Typed(call) /\ vendor \in Vendors /\ AccountTyped(account)
  BY DEF CallsTyped, Typed, AccountTyped
<1>1. PICK reply :
         /\ call.step # "none" /\ call.reply = NoReply
         /\ calls' = [calls EXCEPT ![c] = [call EXCEPT !.reply = reply]]
         /\ \/ call.step \in Listing /\ reply = Page(call) /\ account' = account
            \/ /\ call.step = "read" /\ account' = account
               /\ \/ account[call.id] = NoName /\ reply = Reply("missing", {}, 0)
                  \/ account[call.id] = name /\ reply = Reply("ours", {}, 0)
                  \/ account[call.id] \notin {NoName, name} /\ reply = Reply("renamed", {}, 0)
            \/ /\ call.step \in {"credentials", "ground", "parent"} /\ account' = account
               /\ reply = Reply("ok", {}, 0) \/ reply = Reply("missing", {}, 0)
            \/ /\ call.step = "post" /\ ~Clashes(call)
               /\ \E i \in Ids : /\ account[i] = NoName
                                 /\ account' = [account EXCEPT ![i] = name]
                                 /\ reply = Reply("created", {i}, 0)
            \/ /\ call.step = "post" /\ MayClash(call) /\ account' = account
               /\ reply = Reply("clash", {}, 0)
            \/ /\ call.step = "delete" /\ account' = [account EXCEPT ![call.id] = NoName]
               /\ reply = Reply("ok", {}, 0)
  BY HandleIs
<1> HIDE DEF call
<1>2. /\ reply \in ReplyRecord /\ reply.kind \in Kinds(call.step)
      /\ reply.kind = "created" => \E i \in Ids : reply.ids = {i}
      /\ call.step \notin Listing /\ reply.kind # "created" => reply.ids = {}
  <2>0. 0 \in Ids \cup {NoId}
    BY DEF NoId
  <2>1. ASSUME NEW kind \in ReplyKind
        PROVE  Reply(kind, {}, 0) \in ReplyRecord /\ Reply(kind, {}, 0).kind = kind
               /\ Reply(kind, {}, 0).ids = {}
    BY <2>0, ReplyIs
  <2>2. CASE call.step \in Listing /\ reply = Page(call)
    BY <1>0, <2>2, PageShape DEF Kinds, Listing
  <2>3. CASE call.step = "read" /\ \E kind \in {"missing", "ours", "renamed"} : reply = Reply(kind, {}, 0)
    BY <2>1, <2>3 DEF Kinds, ReplyKind
  <2>4. CASE call.step \in {"credentials", "ground", "parent"}
             /\ \E kind \in {"ok", "missing"} : reply = Reply(kind, {}, 0)
    BY <2>1, <2>4 DEF Kinds, ReplyKind
  <2>5. CASE call.step = "post" /\ \E i \in Ids : reply = Reply("created", {i}, 0)
    <3>1. PICK i \in Ids : reply = Reply("created", {i}, 0)
      BY <2>5
    <3>2. reply \in ReplyRecord /\ reply.kind = "created" /\ reply.ids = {i}
      BY <2>0, <3>1, ReplyIs DEF ReplyKind
    <3> QED
      BY <2>5, <3>2 DEF Kinds
  <2>6. CASE call.step = "post" /\ reply = Reply("clash", {}, 0)
    BY <2>1, <2>6 DEF Kinds, ReplyKind
  <2>7. CASE call.step = "delete" /\ reply = Reply("ok", {}, 0)
    BY <2>1, <2>7 DEF Kinds, ReplyKind
  <2> QED
    BY <1>1, <2>2, <2>3, <2>4, <2>5, <2>6, <2>7
<1>3. Continues(call, [call EXCEPT !.reply = reply])
  BY <1>0, <1>1, <1>2, RepliedIs DEF ReplyRecord
<1>4. AccountTyped(account')
  <2>1. name \in Managed
    BY <1>0, <1>1, OpenAsks
  <2>2. CASE account' = account
    BY <1>0, <2>2
  <2>3. CASE \E i \in Ids : account' = [account EXCEPT ![i] = name]
    BY <1>0, <2>1, <2>3 DEF AccountTyped
  <2>4. CASE account' = [account EXCEPT ![call.id] = NoName]
    BY <1>0, <2>4 DEF AccountTyped
  <2> QED
    BY <1>1, <2>2, <2>3, <2>4
<1> QED
  BY <1>1, <1>3, <1>4 DEF call

\* A call begins with a request of its operation.
LEMMA BeginIs ==
    ASSUME NEW c \in Calls, CallsTyped, Begin(c)
    PROVE  \E then : /\ calls' = [calls EXCEPT ![c] = then] /\ Typed(then) /\ account' = account
                     /\ then.question \in Questions /\ then.step \in FirstSteps(then.question)
                     /\ then.id = then.question.ref /\ then.reply = NoReply
                     /\ then.cursor = 0 /\ then.pages = 0 /\ then.seen = {} /\ then.answer = NoAnswer
                     /\ then.step # "none" /\ then.sent = 0
<1>a. PICK question \in Questions :
         \E step \in FirstSteps(question) :
            calls' = [calls EXCEPT ![c] = [NoCall EXCEPT !.question = question, !.step = step,
                                                         !.id = question.ref]]
  BY DEF Begin, Becomes
<1>1. PICK step \in FirstSteps(question) :
         calls' = [calls EXCEPT ![c] = [NoCall EXCEPT !.question = question, !.step = step,
                                                      !.id = question.ref]]
  BY <1>a
<1> DEFINE then == [NoCall EXCEPT !.question = question, !.step = step, !.id = question.ref]
<1>2. /\ question \in Question /\ question.op \in Op /\ question.ref \in Ids \cup {NoId}
      /\ question.op \in {"destroy", "exists"} \/ question.ref = NoId
  BY DEF Questions, Question
<1>3. step \in StepsOf(question.op) /\ (step = "read" => question.ref # NoId) /\ step # "none"
      /\ step \in Steps
  BY <1>2 DEF FirstSteps, StepsOf, Op, Steps
<1>4. /\ then.question = question /\ then.step = step /\ then.id = question.ref
      /\ then.reply = NoReply /\ then.cursor = 0 /\ then.pages = 0 /\ then.seen = {}
      /\ then.answer = NoAnswer /\ then.sent = 0
  BY DEF NoCall, NoId
<1>5. NoCall \in Call
  BY NoCallIs, EndedIs DEF Typed
<1>6. then \in Call
  BY <1>2, <1>3, <1>5 DEF Call
<1>7. question # Idle
  BY <1>2 DEF Idle, Op
<1>8. step \in OfOne => question.ref \in Ids
  BY <1>2, <1>3 DEF OfOne, FirstSteps, Op
<1> HIDE DEF then
<1>9. Shape(then)
  BY <1>2, <1>3, <1>4, <1>7, <1>8 DEF Shape, NoReply
<1> QED
  BY <1>1, <1>3, <1>4, <1>6, <1>9 DEF Typed, then, Begin

LEMMA FaultsContinue ==
    ASSUME NEW c \in Calls, CallsTyped, HttpFaults(c)
    PROVE  \E then : /\ calls' = [calls EXCEPT ![c] = then] /\ Continues(calls[c], then)
                     /\ account' = account /\ calls[c].step # "none"
                     /\ \/ then = SentAgain(calls[c]) /\ ~(vendor \in Sheltered /\ calls[c].step = "post" /\ calls[c].reply # NoReply)
                        \/ \E retryable \in BOOLEAN : then = Raised(calls[c], retryable)
                        \/ then = NoCall
<1>0. Typed(calls[c])
  BY DEF CallsTyped, Typed
<1>1. calls[c].step # "none"
  BY <1>0 DEF HttpFaults, TurnedAway, Deferred, Refused, ReplyLost, ReplyGarbled, CallerDies,
              TimedOut, Waiting, Typed, Shape
<1>2. CASE CallerDies(c)
  BY <1>1, <1>2, NoCallIs DEF CallerDies, Becomes, Continues
<1>3. CASE Deferred(c) \/ Refused(c) \/ ReplyGarbled(c)
  <2>1. PICK retryable \in BOOLEAN : calls' = [calls EXCEPT ![c] = Raised(calls[c], retryable)]
                                     /\ account' = account
    BY <1>3 DEF Deferred, Refused, ReplyGarbled, Becomes
  <2> QED
    BY <1>1, <2>1, RaisedIs
<1>4. CASE TurnedAway(c) \/ TimedOut(c) \/ ReplyLost(c)
  <2>1. /\ calls' = [calls EXCEPT ![c] = SentAgain(calls[c])] /\ account' = account
        /\ ~(vendor \in Sheltered /\ calls[c].step = "post" /\ calls[c].reply # NoReply)
    BY <1>4 DEF TurnedAway, TimedOut, ReplyLost, Becomes, Waiting
  <2> QED
    BY <1>0, <1>1, <2>1, AgainIs
<1> QED
  BY <1>2, <1>3, <1>4 DEF HttpFaults

\* What the requests left with the vendor may become by a step of a call.
Strays(call, now) ==
    \/ now = adrift
    \/ call.step = "post" /\ vendor \notin Sheltered /\ now = adrift \cup {Making(call.question.name)}
    \/ call.step = "delete" /\ now = adrift \cup {Removing(call.id)}

LEMMA LeavesIs ==
    ASSUME NEW c \in Calls, Leaves(c)
    PROVE  Strays(calls[c], adrift')
<1>1. CASE calls[c].step = "post"
  BY <1>1 DEF Leaves, Left, Strays
<1>2. CASE calls[c].step = "delete"
  BY <1>2 DEF Leaves, Left, Strays
<1>3. CASE calls[c].step \notin {"post", "delete"}
  BY <1>3 DEF Leaves, Left, Strays
<1> QED
  BY <1>1, <1>2, <1>3

\* Only a call that waits leaves anything, and the account as it is.
LEMMA CallStrays ==
    ASSUME CallsTyped, NEW c \in Calls, Begin(c) \/ Handle(c) \/ Receive(c) \/ HttpFaults(c)
    PROVE  /\ Strays(calls[c], adrift')
           /\ calls[c].step = "none" \/ account' # account => adrift' = adrift
<1>1. CASE Begin(c) \/ Handle(c) \/ Receive(c)
  BY <1>1 DEF Begin, Handle, Receive, Strays
<1>2. CASE HttpFaults(c)
  <2>1. account' = account /\ calls[c].step # "none"
    BY <1>2, FaultsContinue
  <2>2. Leaves(c) \/ adrift' = adrift
    BY <1>2 DEF HttpFaults, TurnedAway, TimedOut, Deferred, Refused, ReplyLost, ReplyGarbled, CallerDies
  <2> QED
    BY <2>1, <2>2, LeavesIs DEF Strays
<1> QED
  BY <1>1, <1>2

LEMMA StraysTyped ==
    ASSUME NEW call, Typed(call), adrift \subseteq Request, NEW now, Strays(call, now)
    PROVE  now \subseteq Request
<1>1. call.step = "post" => call.question.name \in Managed
  BY OpenAsks
<1>2. call.step = "delete" => call.id \in Ids
  BY DEF Typed, Shape, OfOne
<1> QED
  BY <1>1, <1>2 DEF Strays, Request

\* A request handled late: what it makes nobody has, what it removes was asked for.
LEMMA LateIs ==
    ASSUME HandleLate
    PROVE  /\ calls' = calls /\ vendor' = vendor
           /\ \/ /\ adrift' = adrift
                 /\ \E name \in Managed : \E i \in Ids :
                       /\ Making(name) \in adrift /\ account[i] = NoName
                       /\ vendor = "upstash" \/ \A j \in Ids : account[j] # name
                       /\ account' = [account EXCEPT ![i] = name]
              \/ \E i \in Ids : /\ Removing(i) \in adrift /\ adrift' = adrift \ {Removing(i)}
                               /\ account' = [account EXCEPT ![i] = NoName]
  BY DEF HandleLate, Vacant, Upstash

LEMMA LateTyped ==
    ASSUME HandleLate, AccountTyped(account), adrift \subseteq Request
    PROVE  AccountTyped(account') /\ adrift' \subseteq Request /\ calls' = calls /\ vendor' = vendor
<1>1. calls' = calls /\ vendor' = vendor /\ adrift' \subseteq Request
  BY LateIs
<1>2. \E i \in Ids : \E x \in Managed \cup {NoName} : account' = [account EXCEPT ![i] = x]
  BY LateIs
<1> QED
  BY <1>1, <1>2 DEF AccountTyped

LEMMA ConsoleTyped ==
    ASSUME NEW i \in Ids, AccountTyped(account), ConsoleActs(i)
    PROVE  AccountTyped(account') /\ calls' = calls /\ vendor' = vendor /\ adrift' = adrift
  BY DEF AccountTyped, ConsoleActs, Promise!Console

LEMMA TypesStart == Init => CallsTyped
<1> SUFFICES ASSUME Init PROVE CallsTyped
  OBVIOUS
<1>1. NoCall \in Call /\ Shape(NoCall)
  BY NoCallIs, EndedIs DEF Typed
<1>2. NoCall.sent = 0 /\ (vendor \in Vendors => MaxSends[vendor] \in Nat \ {0})
  BY SendsAssumption DEF NoCall
<1> QED
  BY <1>1, <1>2 DEF Init, CallsTyped

LEMMA TypesStep == CallsTyped /\ [Next]_vars => CallsTyped'
<1> SUFFICES ASSUME CallsTyped, [Next]_vars PROVE CallsTyped'
  OBVIOUS
<1>0. MaxSends[vendor] \in Nat \ {0}
  BY SendsAssumption DEF CallsTyped
<1>1. ASSUME NEW c \in Calls, NEW then, Typed(then), then.sent < MaxSends[vendor],
             calls' = [calls EXCEPT ![c] = then]
      PROVE  /\ calls' \in [Calls -> Call]
             /\ \A d \in Calls : Shape(calls'[d]) /\ calls'[d].sent < MaxSends[vendor]
  BY <1>1 DEF CallsTyped, Typed
<1>2. ASSUME NEW c \in Calls, NEW then, Continues(calls[c], then)
      PROVE  Typed(then) /\ then.sent < MaxSends[vendor]
  <2>1. CASE \E answer \in AnyAnswer : then = Ended(answer)
    BY <1>0, <2>1, EndedIs
  <2>2. CASE then.sent \in {0, calls[c].sent} \/ then.sent < MaxSends[vendor]
    BY <1>0, <1>2, <2>2, EndedIs DEF Continues, CallsTyped
  <2> QED
    BY <1>2, <2>1, <2>2 DEF Continues
<1>3. ASSUME NEW c \in Calls, Begin(c) \/ Handle(c) \/ Receive(c) \/ HttpFaults(c)
      PROVE  CallsTyped'
  <2>0. Typed(calls[c]) /\ AccountTyped(account)
    BY DEF CallsTyped, Typed, AccountTyped
  <2>1. vendor' = vendor
    BY <1>3 DEF Begin, Handle, Receive, HttpFaults, TurnedAway, TimedOut, Deferred, Refused,
                ReplyLost, ReplyGarbled, CallerDies
  <2>2. /\ AccountTyped(account')
        /\ \E then : /\ Typed(then) /\ then.sent < MaxSends[vendor]
                     /\ calls' = [calls EXCEPT ![c] = then]
    <3>1. CASE Begin(c)
      BY <1>0, <2>0, <3>1, BeginIs
    <3>2. CASE Handle(c)
      BY <1>2, <3>2, HandleContinues
    <3>3. CASE Receive(c)
      <4>1. account' = account
        BY <3>3 DEF Receive
      <4> QED
        BY <1>2, <2>0, <3>3, <4>1, ReceiveContinues
    <3>4. CASE HttpFaults(c)
      BY <1>2, <2>0, <3>4, FaultsContinue
    <3> QED
      BY <1>3, <3>1, <3>2, <3>3, <3>4
  <2>3. adrift' \subseteq Request
    <3>1. PICK now : now = adrift'
      OBVIOUS
    <3>2. Strays(calls[c], now)
      BY <1>3, <3>1, CallStrays
    <3> QED
      BY <2>0, <3>1, <3>2, StraysTyped DEF CallsTyped
  <2> QED
    BY <1>1, <2>1, <2>2, <2>3 DEF CallsTyped, AccountTyped
<1>4. ASSUME NEW i \in Ids, ConsoleActs(i) PROVE CallsTyped'
  BY <1>4, ConsoleTyped DEF CallsTyped, AccountTyped
<1>5. CASE UNCHANGED vars
  BY <1>5 DEF vars, CallsTyped
<1>6. CASE HandleLate
  BY <1>6, LateTyped DEF CallsTyped, AccountTyped
<1> QED
  BY <1>3, <1>4, <1>5, <1>6 DEF Next, Step

LEMMA TypesAlways == Spec => []CallsTyped
  BY TypesStart, TypesStep, PTL DEF Spec

\* Calls keep their shape with every vendor, however replies are lost, late or
\* garbled (HttpProvider and neon.py, upstash.py, cloudflare.py).
THEOREM VendorTypes == Spec => []TypeOK
<1>1. CallsTyped => TypeOK
  <2> SUFFICES ASSUME CallsTyped, NEW c \in Calls
               PROVE  /\ calls[c].question \in Question \cup {Idle}
                      /\ calls[c].step = "none" <=> calls[c].question = Idle
                      /\ calls[c].sent \in 0 .. MaxSends[vendor] - 1
                      /\ calls[c].pages \in 0 .. MaxPages - 1
                      /\ calls[c].cursor \in Ids \cup {NoId}
                      /\ calls[c].id \in Ids \cup {NoId} /\ calls[c].seen \subseteq Ids
    BY DEF CallsTyped, TypeOK
  <2>1. MaxSends[vendor] \in Nat /\ calls[c].sent \in Nat /\ calls[c].sent < MaxSends[vendor]
    BY SendsAssumption DEF CallsTyped, Call
  <2> QED
    BY <2>1 DEF CallsTyped, Call, Shape
<1> QED
  BY <1>1, TypesAlways, PTL

-----------------------------------------------------------------------------
(* What one moment of the account says, and what stays true of it.         *)

LEMMA MomentTells ==
    ASSUME NEW question \in Question, NEW acc, AccountTyped(acc),
           NEW w, Moment(question, acc) \subseteq w
    PROVE  /\ question.op = "create" /\ question.ref = NoId =>
                \A i \in Ids : acc[i] = question.name => <<"carried", i>> \in w
           /\ question.op \in {"destroy", "exists"} /\ question.ref = NoId =>
                /\ (\A i \in Ids : acc[i] # question.name) => Absent \in w
                /\ (\E i \in Ids : acc[i] = question.name) => There \in w
           /\ question.op \in {"destroy", "exists"} /\ question.ref # NoId =>
                /\ acc[question.ref] = NoName => Absent \in w
                /\ acc[question.ref] # NoName => There \in w
           /\ question.op = "destroy" =>
                \A i \in Ids : acc[i] = question.name /\ question.ref \in {NoId, i} =>
                    <<"carried", i>> \in w
           /\ question.op = "list_managed" =>
                \A i \in Ids : /\ acc[i] \in Managed => <<"managed", i>> \in w
                               /\ acc[i] \notin Managed => <<"unmanaged", i>> \in w
<1> DEFINE subject == Subject(question, acc)
           absence == IF subject = {} THEN {<<"absent", NoId>>} ELSE {<<"there", NoId>>}
           carried == {<<"carried", i>> : i \in {j \in subject : acc[j] = question.name}}
           managed == {i \in Ids : acc[i] \in Managed}
<1>1. question.op \in Op /\ question.name \in Managed /\ question.ref \in Ids \cup {NoId}
  BY DEF Question
<1>2. /\ question.ref = NoId => subject = {i \in Ids : acc[i] = question.name}
      /\ question.ref # NoId => subject = {question.ref} \cap Live(acc)
  BY DEF Subject
<1> HIDE DEF subject
<1>3. subject = {} => Absent \in absence
  BY DEF Absent
<1>4. subject # {} => There \in absence
  BY DEF There
<1>5. \A i \in subject : acc[i] = question.name => <<"carried", i>> \in carried
  OBVIOUS
<1> HIDE DEF absence, carried
<1>6. CASE question.op = "create"
  <2>1. carried \subseteq w
    BY <1>6 DEF Moment, carried, subject
  <2> QED
    BY <1>2, <1>5, <1>6, <2>1
<1>7. CASE question.op \in {"destroy", "exists"}
  <2>1. absence \subseteq w /\ (question.op = "destroy" => carried \subseteq w)
    BY <1>7 DEF Moment, carried, absence, subject
  <2>2. question.ref # NoId =>
          (acc[question.ref] = NoName <=> subject = {})
    BY <1>1, <1>2 DEF Live
  <2>3. \A i \in Ids : acc[i] = question.name /\ question.ref \in {NoId, i} => i \in subject
    BY <1>1, <1>2, NamesAssumption DEF Live
  <2>4. question.ref = NoId =>
          /\ (\A i \in Ids : acc[i] # question.name) => subject = {}
          /\ (\E i \in Ids : acc[i] = question.name) => subject # {}
    BY <1>2
  <2> QED
    BY <1>3, <1>4, <1>5, <1>7, <2>1, <2>2, <2>3, <2>4
<1>8. CASE question.op = "list_managed"
  <2>1. {<<"managed", i>> : i \in managed} \cup {<<"unmanaged", i>> : i \in Ids \ managed} \subseteq w
    BY <1>8 DEF Moment
  <2>2. \A i \in Ids : /\ acc[i] \in Managed => i \in managed
                       /\ acc[i] \notin Managed => i \in Ids \ managed
    OBVIOUS
  <2> HIDE DEF managed
  <2>3. \A i \in managed : <<"managed", i>> \in w
    BY <2>1
  <2>4. \A i \in Ids \ managed : <<"unmanaged", i>> \in w
    BY <2>1
  <2> QED
    BY <1>8, <2>2, <2>3, <2>4
<1>9. CASE question.op = "preflight"
  BY <1>9
<1> QED
  BY <1>1, <1>6, <1>7, <1>8, <1>9 DEF Op

\* Names come to be only where nobody has them.
Settles(acc, after) ==
    \A name \in Managed : \A i \in Ids :
        after[i] = name => acc[i] = name \/ \A j \in Ids : acc[j] # name

\* While a call looks for a name, either nobody has had it at some moment of the
\* call, or the same resource has had it throughout.
LEMMA NameStays ==
    ASSUME NEW question \in Question, question.op \in {"destroy", "exists"}, question.ref = NoId,
           NEW acc, AccountTyped(acc), Unique(acc), NEW after, AccountTyped(after), Settles(acc, after),
           NEW w, Moment(question, acc) \subseteq w,
           NEW since, w \subseteq since, Moment(question, after) \subseteq since
    PROVE  \/ Absent \in since
           \/ Absent \notin w /\ \A i \in Ids : after[i] = question.name <=> acc[i] = question.name
<1> SUFFICES ASSUME Absent \notin since
             PROVE  /\ Absent \notin w
                    /\ \A i \in Ids : after[i] = question.name <=> acc[i] = question.name
  OBVIOUS
<1>1. question.name \in Managed
  BY DEF Question
<1>2. PICK j \in Ids : acc[j] = question.name
  BY MomentTells
<1>3. PICK k \in Ids : after[k] = question.name
  BY MomentTells
<1>4. \A i \in Ids : after[i] = question.name => acc[i] = question.name
  BY <1>1, <1>2 DEF Settles
<1>5. \A i \in Ids : acc[i] = question.name => i = k
  BY <1>1, <1>3, <1>4 DEF Unique
<1> QED
  BY <1>3, <1>4, <1>5

\* What a call has learned it goes on knowing while others act.
LEMMA LearnedStays ==
    ASSUME NEW v, NEW call, Typed(call), call.step # "none",
           NEW acc, AccountTyped(acc), Unique(acc), NEW after, AccountTyped(after), Settles(acc, after),
           NEW w, Moment(call.question, acc) \subseteq w,
           NEW since, w \subseteq since, Moment(call.question, after) \subseteq since,
           v = "upstash" => \A i \in Ids : after[i] = call.question.name => acc[i] = call.question.name,
           Learned(v, acc, call, w)
    PROVE  Learned(v, after, call, since)
<1>1. Creates(v, after, call, since)
  BY DEF Learned, Creates
<1>2. Finds(after, call, since)
  <2> SUFFICES ASSUME call.question.op \in {"destroy", "exists"}, call.question.ref = NoId
               PROVE  Finds(after, call, since)
    BY DEF Finds
  <2>1. call.question \in Question /\ call.id \in Ids \cup {NoId} /\ Got(call) \subseteq Ids
        /\ (call.step \in {"read", "delete"} => call.id \in Ids)
    BY OpenAsks DEF Typed, Call, Got, Shape, OfOne
  <2>2. \/ Absent \in since
        \/ Absent \notin w /\ \A i \in Ids : after[i] = call.question.name <=> acc[i] = call.question.name
    BY <2>1, NameStays
  <2>3. Past(call) \subseteq Ids /\ PastReply(call) \subseteq Ids
    BY DEF Past, PastReply
  <2> QED
    BY <2>1, <2>2, <2>3 DEF Learned, Finds
<1>3. Reads(call, since) /\ Lists(call, since)
  BY DEF Learned, Reads, Lists
<1> QED
  BY <1>1, <1>2, <1>3 DEF Learned

-----------------------------------------------------------------------------
(* What a call answers is what it has witnessed.                           *)

Saw(w, kind) == {i \in Ids \cup {NoId} : <<kind, i>> \in w}

\* The answers a call may give that was asked a question and has witnessed w.
Given(question, w) ==
    Unhelpful \cup
    CASE question.op = "preflight" -> {Answer("ok", {})}
      [] question.op = "create" -> {Answer("ok", {i}) : i \in Saw(w, "carried")}
      [] question.op = "destroy" -> {Answer("ok", {}) : i \in Saw(w, "absent")}
      [] question.op = "exists" ->
           {Answer("gone", {}) : i \in Saw(w, "absent")}
           \cup {Answer("exists", {}) : i \in Saw(w, "there")}
           \cup {Answer("unknown", {})}
      [] question.op = "list_managed" ->
           {Answer("ok", ids) : ids \in {s \in SUBSET Saw(w, "managed") :
                                            Ids \ Saw(w, "unmanaged") \subseteq s}}
      [] OTHER -> {}

LEMMA GivenIs ==
    ASSUME NEW question, NEW w
    PROVE  /\ Answer("error", {}) \in Given(question, w) /\ Answer("retry", {}) \in Given(question, w)
           /\ question.op = "preflight" => Answer("ok", {}) \in Given(question, w)
           /\ question.op = "create" =>
                \A i \in Ids : <<"carried", i>> \in w => Answer("ok", {i}) \in Given(question, w)
           /\ question.op = "destroy" => (Absent \in w => Answer("ok", {}) \in Given(question, w))
           /\ question.op = "exists" =>
                /\ Absent \in w => Answer("gone", {}) \in Given(question, w)
                /\ There \in w => Answer("exists", {}) \in Given(question, w)
                /\ Answer("unknown", {}) \in Given(question, w)
           /\ question.op = "list_managed" =>
                \A ids \in SUBSET Ids :
                    /\ \A i \in ids : <<"managed", i>> \in w
                    /\ \A i \in Ids : i \in ids \/ <<"unmanaged", i>> \in w
                    => Answer("ok", ids) \in Given(question, w)
<1>1. Answer("error", {}) \in Given(question, w) /\ Answer("retry", {}) \in Given(question, w)
  BY DEF Given, Unhelpful
<1>2. CASE question.op = "preflight"
  BY <1>1, <1>2 DEF Given
<1>3. CASE question.op = "create"
  <2>1. \A i \in Ids : <<"carried", i>> \in w => i \in Saw(w, "carried")
    BY DEF Saw
  <2>2. \A i \in Saw(w, "carried") : Answer("ok", {i}) \in Given(question, w)
    BY <1>3 DEF Given
  <2> QED
    BY <1>1, <1>3, <2>1, <2>2
<1>4. CASE question.op = "destroy"
  <2>1. Absent \in w => NoId \in Saw(w, "absent")
    BY DEF Saw, Absent
  <2>2. \A i \in Saw(w, "absent") : Answer("ok", {}) \in Given(question, w)
    BY <1>4 DEF Given
  <2> QED
    BY <1>1, <1>4, <2>1, <2>2
<1>5. CASE question.op = "exists"
  <2>1. /\ Absent \in w => NoId \in Saw(w, "absent")
        /\ There \in w => NoId \in Saw(w, "there")
    BY DEF Saw, Absent, There
  <2>2. /\ \A i \in Saw(w, "absent") : Answer("gone", {}) \in Given(question, w)
        /\ \A i \in Saw(w, "there") : Answer("exists", {}) \in Given(question, w)
        /\ Answer("unknown", {}) \in Given(question, w)
    BY <1>5 DEF Given
  <2> QED
    BY <1>1, <1>5, <2>1, <2>2
<1>6. CASE question.op = "list_managed"
  <2>1. ASSUME NEW ids \in SUBSET Ids,
               \A i \in ids : <<"managed", i>> \in w,
               \A i \in Ids : i \in ids \/ <<"unmanaged", i>> \in w
        PROVE  ids \in SUBSET Saw(w, "managed") /\ Ids \ Saw(w, "unmanaged") \subseteq ids
    BY <2>1 DEF Saw
  <2>2. \A ids \in SUBSET Saw(w, "managed") :
            Ids \ Saw(w, "unmanaged") \subseteq ids => Answer("ok", ids) \in Given(question, w)
    BY <1>6 DEF Given
  <2> QED
    BY <1>1, <1>6, <2>1, <2>2
<1> QED
  BY <1>1, <1>2, <1>3, <1>4, <1>5, <1>6

\* What may become of an open call in one step, as the promise has it.
Follows(v, acc, call, then, w) ==
    \/ \E answer \in Given(call.question, w) : then = Ended(answer)
    \/ then.question = call.question /\ then.step # "none" /\ Learned(v, acc, then, w)

LEMMA AnswersFollow ==
    ASSUME NEW v, NEW acc, NEW call, NEW w, NEW x, NEW ids, Answer(x, ids) \in Given(call.question, w)
    PROVE  Follows(v, acc, call, Answered(x, ids), w)
  BY DEF Answered, Follows

LEMMA RaisedFollows ==
    ASSUME NEW v, NEW acc, NEW call, NEW w, NEW retryable \in BOOLEAN
    PROVE  Follows(v, acc, call, Raised(call, retryable), w)
<1>1. \/ Raised(call, retryable) = Ended(Answer("error", {}))
      \/ Raised(call, retryable) = Ended(Answer("retry", {}))
      \/ call.question.op = "exists" /\ Raised(call, retryable) = Ended(Answer("unknown", {}))
  BY RaisedIs
<1> QED
  BY <1>1, GivenIs DEF Follows

\* What a call has to know when it comes to a request.
Knows(v, acc, call, w, step, id) ==
    LET op == call.question.op
        ref == call.question.ref
    IN
    /\ op = "create" =>
          /\ step \in {"read", "credentials"} => <<"carried", id>> \in w
          /\ step = "ground" => v # "neon"
          /\ v = "upstash" =>
                /\ step \notin {"ground", "parent", "find_again"}
                /\ step = "post" => \A i \in Ids : acc[i] # call.question.name
    /\ op \in {"destroy", "exists"} =>
          /\ ref = NoId =>
                /\ op = "exists" => step = "find"
                /\ step \in {"read", "delete"} => Absent \in w \/ acc[id] = call.question.name
          /\ ref # NoId => step # "find" /\ id = ref
          /\ step = "delete" => <<"carried", id>> \in w

LEMMA FreshLearned ==
    ASSUME NEW v \in Vendors, NEW acc, NEW w, NEW call, NEW then,
           then.question = call.question, then.reply = NoReply,
           then.cursor = 0, then.pages = 0, then.seen = {},
           Knows(v, acc, call, w, then.step, then.id)
    PROVE  Learned(v, acc, then, w)
<1>1. Past(then) = {} /\ Got(then) = {} /\ NoReply.next = 0 /\ NoReply.kind = "none"
  <2>1. \A i \in Ids : ~(i <= 0)
    BY IdsAssumption
  <2> QED
    BY <2>1 DEF Past, Got, NoReply
<1>2. Pages(v, then)
  <2>1. PageSize[v] \in Nat /\ Cardinality({}) = 0
    BY VendorsAssumption, FS_EmptySet
  <2>2. 0 * PageSize[v] = 0
    BY <2>1
  <2> QED
    BY <1>1, <2>1, <2>2 DEF Pages
<1>3. Creates(v, acc, then, w)
  BY <1>1 DEF Knows, Creates
<1>4. Finds(acc, then, w)
  BY <1>1 DEF Knows, Finds
<1>5. Reads(then, w)
  BY <1>1 DEF Knows, Reads
<1>6. Lists(then, w)
  BY <1>1 DEF Lists
<1> QED
  BY <1>2, <1>3, <1>4, <1>5, <1>6 DEF Learned

LEMMA GoesToFollows ==
    ASSUME NEW v \in Vendors, NEW acc, NEW w, NEW call, Typed(call), call.step # "none",
           NEW step \in StepsOf(call.question.op), NEW i \in Ids \cup {NoId},
           step \in OfOne => i \in Ids,
           NEW then, then = [GoesTo(call, step) EXCEPT !.id = i],
           Knows(v, acc, call, w, step, i)
    PROVE  Follows(v, acc, call, then, w)
<1>0. /\ then.question = call.question /\ then.step = step /\ then.id = i
      /\ then.reply = NoReply /\ then.cursor = NoId /\ then.pages = 0 /\ then.seen = {}
  BY DEF GoesTo, Typed, Call
<1>1. then.cursor = 0
  BY <1>0 DEF NoId
<1>2. Learned(v, acc, then, w)
  BY <1>0, <1>1, FreshLearned
<1>3. step # "none"
  BY OpenAsks, StepsAreSteps
<1> QED
  BY <1>0, <1>2, <1>3 DEF Follows

LEMMA GoesOnFollows ==
    ASSUME NEW v \in Vendors, NEW acc, NEW w, NEW call, Typed(call), call.step # "none",
           NEW step \in StepsOf(call.question.op), step \in OfOne => call.id \in Ids,
           Knows(v, acc, call, w, step, call.id)
    PROVE  Follows(v, acc, call, GoesTo(call, step), w)
<1>1. GoesTo(call, step) = [GoesTo(call, step) EXCEPT !.id = call.id] /\ call.id \in Ids \cup {NoId}
  BY GoesToSame
<1> QED
  BY <1>1, GoesToFollows

-----------------------------------------------------------------------------
(* The pages of a listing.                                                 *)

\* A page tells of all that is wanted up to where it ends, and a listing that
\* has to go on has pages left to go on with.
LEMMA PageTells ==
    ASSUME Listable, vendor \in Vendors, AccountTyped(account),
           NEW call, Typed(call), call.step # "none", Pages(vendor, call),
           NEW reply, reply = Page(call)
    PROVE  /\ \A i \in Wanted(call) : reply.next = 0 \/ i <= reply.next => i \in reply.ids \cup Past(call)
           /\ ~Neon => reply.next = 0
           /\ Upstash => reply.ids = Wanted(call)
           /\ reply.next # 0 =>
                LET past == {i \in Ids : i <= reply.next} IN
                /\ (call.pages + 1) * PageSize[vendor] <= Cardinality(past)
                /\ (call.pages + 1) * PageSize[vendor] < Cardinality(Ids)
<1> DEFINE size == PageSize[vendor]
           listed == Listed(call)
           here == Here(call)
           rest == Rest(call)
           past == {i \in Ids : i <= reply.next}
<1>0. /\ size \in Nat \ {0} /\ listed \in SUBSET Ids /\ Wanted(call) \in SUBSET Ids
      /\ rest \in SUBSET Ids /\ here \in SUBSET Ids
      /\ \A S \in SUBSET Ids : S \subseteq Nat /\ IsFiniteSet(S) /\ Cardinality(S) \in Nat
  BY ListedIs, PageParts
<1>a. "page" \in ReplyKind /\ 0 \in Ids \cup {NoId} /\ 0 \notin Ids /\ Ids \subseteq Nat
  BY IdsAssumption DEF ReplyKind, NoId
<1>1. CASE Upstash
  <2>1. reply.next = 0 /\ reply.ids = Wanted(call)
    BY <1>0, <1>1, <1>a, PageParts, ReplyIs
  <2> QED
    BY <1>1, <2>1 DEF Upstash, Neon
<1>2. CASE ~Upstash
  <2> DEFINE ids == here \cap Wanted(call)
             next == IF rest = here THEN 0 ELSE Last(call)
  <2>1. ids \in SUBSET Ids /\ next \in Ids \cup {NoId}
    BY <1>0, <1>a, PageParts
  <2>2. reply = Reply("page", ids, next)
    BY <1>2, PageParts
  <2>3. reply.ids = ids /\ reply.next = next
    <3> HIDE DEF ids, next
    <3> QED
      BY <1>a, <2>1, <2>2, ReplyIs
  <2>4. reply.next = 0 <=> rest = here
    BY <1>0, <1>a, <2>3, PageParts
  <2>5. reply.next # 0 =>
          /\ reply.next \in here
          /\ \A i \in rest : i <= reply.next => i \in here
          /\ \E k \in rest : k > reply.next
          /\ size <= Cardinality(here)
    BY <2>3, <2>4, PageParts
  <2>6. Wanted(call) \subseteq listed
    <3>1. call.question.name \in Managed
      BY OpenAsks
    <3> QED
      BY <3>1, NamesAssumption DEF Wanted, Listed
  <2>7. Cloudflare => rest = listed /\ rest = here
    <3> SUFFICES ASSUME Cloudflare PROVE rest = listed /\ rest = here
      OBVIOUS
    <3>1. vendor = "cloudflare" /\ ~Neon
      BY DEF Cloudflare, Neon
    <3>2. call.pages = 0 /\ Cardinality(Ids) <= size
      BY <3>1 DEF Pages, Listable
    <3>3. size * 0 = 0
      BY <1>0
    <3>4. Skipped(call) = LowestOf(listed, 0)
      BY <3>1, <3>2, <3>3 DEF Skipped
    <3>5. LowestOf(listed, 0) = {}
      <4>1. ASSUME NEW i \in listed PROVE ~(Cardinality({j \in listed : j < i}) < 0)
        <5>1. {j \in listed : j < i} \in SUBSET Ids
          BY <1>0
        <5>2. Cardinality({j \in listed : j < i}) \in Nat
          BY <1>0, <5>1
        <5> QED
          BY <5>2
      <4> QED
        BY <4>1 DEF LowestOf
    <3>6. rest = listed
      BY <3>4, <3>5 DEF Rest
    <3>7. Cardinality(rest) <= Cardinality(Ids)
      BY <1>0, IdsAssumption, FS_Subset
    <3>8. Cardinality(rest) <= size
      <4>1. Cardinality(rest) \in Nat /\ Cardinality(Ids) \in Nat
        BY <1>0
      <4> QED
        BY <1>0, <3>2, <3>7, <4>1
    <3>9. here = rest
      BY <1>0, <3>8, LowestIsAll DEF Here
    <3> QED
      BY <3>6, <3>9
  <2>8. Neon \/ Cloudflare
    BY <1>2, VendorsAssumption DEF Neon, Cloudflare, Upstash
  <2>9. Neon => rest = {i \in listed : ~(i <= call.cursor)}
    BY DEF Rest, Skipped
  <2>10. ASSUME NEW i \in Wanted(call), reply.next = 0 \/ i <= reply.next
         PROVE  i \in reply.ids \cup Past(call)
    <3>1. CASE i \in rest
      BY <2>3, <2>4, <2>5, <2>10, <3>1
    <3>2. CASE i \notin rest
      <4>1. Neon /\ i <= call.cursor
        BY <2>6, <2>7, <2>8, <2>9, <3>2
      <4> QED
        BY <1>0, <4>1 DEF Past
    <3> QED
      BY <3>1, <3>2
  <2>11. ~Neon => reply.next = 0
    BY <2>4, <2>7, <2>8
  <2>12. ASSUME reply.next # 0
         PROVE  /\ (call.pages + 1) * size <= Cardinality(past)
                /\ (call.pages + 1) * size < Cardinality(Ids)
    <3>1. Neon /\ vendor = "neon"
      BY <2>11, <2>12 DEF Neon
    <3>2. call.pages \in Nat /\ call.pages * size <= Cardinality(Past(call))
      BY <3>1, SendsAssumption DEF Pages, Typed, Call
    <3>3. reply.next \in Ids /\ reply.next \in Nat /\ call.cursor \in Nat
          /\ \A i \in here : i \in Nat /\ ~(i <= call.cursor)
      <4>1. here \subseteq rest
        BY DEF Here, LowestOf
      <4>2. call.cursor \in Ids \cup {0}
        BY DEF Typed, Call, NoId
      <4>3. reply.next \in here /\ here \subseteq Nat /\ here \subseteq Ids
        BY <1>0, <1>a, <2>5, <2>12
      <4>4. call.cursor \in Nat
        <5>1. CASE call.cursor \in Ids
          BY <1>a, <5>1
        <5>2. CASE call.cursor = 0
          BY <5>2
        <5> QED
          BY <4>2, <5>1, <5>2
      <4>5. \A i \in here : ~(i <= call.cursor)
        <5> HIDE DEF here, rest, listed
        <5> QED
          BY <2>9, <3>1, <4>1
      <4> QED
        BY <4>3, <4>4, <4>5
    <3>4. Past(call) \cap here = {} /\ Past(call) \in SUBSET Ids /\ past \in SUBSET Ids
      BY <3>3 DEF Past
    <3>5. here \subseteq past
      <4>1. PICK k \in rest : k > reply.next
        BY <2>5, <2>12
      <4>2. Last(call) = reply.next
        BY <2>3, <2>4, <2>12
      <4>3. \A j \in here : j <= reply.next
        <5>1. /\ rest \subseteq Nat /\ IsFiniteSet(rest) /\ size \in Nat \ {0}
              /\ here = LowestOf(rest, size) /\ rest # here
          BY <1>0, <2>4, <2>12 DEF Here
        <5>2. \E i \in here : \A j \in here : j <= i
          BY <5>1, PageEnds
        <5>3. \A j \in here : j <= Last(call)
          BY <5>2 DEF Last
        <5> QED
          BY <4>2, <5>3
      <4> QED
        BY <1>0, <4>3
    <3>6. Past(call) \subseteq past
      <4>1. ~(reply.next <= call.cursor)
        BY <2>5, <2>12, <3>3
      <4>2. ASSUME NEW i \in Past(call) PROVE i \in Ids /\ i <= reply.next
        <5>1. i \in Ids /\ i \in Nat /\ i <= call.cursor
          BY <1>a DEF Past
        <5> QED
          BY <3>3, <4>1, <5>1
      <4> QED
        BY <4>2
    <3> HIDE DEF size, here, rest, past
    <3>7. Cardinality(Past(call) \cup here) = Cardinality(Past(call)) + Cardinality(here)
      <4>1. /\ IsFiniteSet(Past(call)) /\ IsFiniteSet(here) /\ Cardinality(Past(call)) \in Nat
            /\ Cardinality(here) \in Nat
        BY <1>0, <3>4
      <4>2. Cardinality(Past(call) \cup here) =
              Cardinality(Past(call)) + Cardinality(here) - Cardinality(Past(call) \cap here)
        BY <4>1, FS_Union
      <4>3. Cardinality(Past(call) \cap here) = 0
        BY <3>4, FS_EmptySet
      <4> QED
        BY <4>1, <4>2, <4>3
    <3>8. Cardinality(Past(call) \cup here) <= Cardinality(past)
      <4>1. Past(call) \cup here \in SUBSET past /\ IsFiniteSet(past)
        BY <1>0, <3>4, <3>5, <3>6
      <4> QED
        BY <4>1, FS_Subset
    <3>9. Cardinality(past) <= Cardinality(Ids) /\ Cardinality(past) # Cardinality(Ids)
      <4>1. PICK k \in rest : k > reply.next
        BY <2>5, <2>12
      <4>2. k \in Ids /\ k \in Nat
        BY <1>0, <4>1
      <4>3. k \notin past
        BY <3>3, <4>1, <4>2 DEF past
      <4> QED
        BY <3>4, <4>2, <4>3, IdsAssumption, FS_Subset
    <3>10. /\ Cardinality(past) \in Nat /\ Cardinality(Ids) \in Nat /\ Cardinality(here) \in Nat
           /\ Cardinality(Past(call)) \in Nat
      BY <1>0, <3>4
    <3>11. (call.pages + 1) * size = call.pages * size + size
      BY <1>0, <3>2
    <3>12. call.pages * size \in Nat /\ size \in Nat /\ size <= Cardinality(here)
      BY <1>0, <2>5, <2>12, <3>2
    <3> DEFINE n == call.pages * size
    <3>13. n \in Nat /\ n <= Cardinality(Past(call)) /\ (call.pages + 1) * size = n + size
      BY <3>2, <3>11, <3>12
    <3> HIDE DEF n
    <3>14. n + size <= Cardinality(past) /\ n + size < Cardinality(Ids)
      BY <3>7, <3>8, <3>9, <3>10, <3>12, <3>13
    <3> QED
      BY <3>13, <3>14
  <2> QED
    BY <1>2, <2>10, <2>11, <2>12
<1> QED
  BY <1>1, <1>2

-----------------------------------------------------------------------------
(* What a call makes of a reply it may do.                                 *)

LEMMA AdoptedFollows ==
    ASSUME vendor \in Vendors, NEW call, Typed(call), call.step # "none",
           call.question.op = "create", NEW w, NEW i \in Ids, <<"carried", i>> \in w
    PROVE  Follows(vendor, account, call, Adopted(call, i), w)
<1>1. CASE Cloudflare
  BY <1>1, GivenIs, AnswersFollow DEF Adopted
<1>2. CASE ~Cloudflare
  <2>1. PICK step \in {"credentials", "read"} :
           Adopted(call, i) = [GoesTo(call, step) EXCEPT !.id = i]
    BY <1>2 DEF Adopted
  <2>2. step \in StepsOf(call.question.op)
    BY DEF StepsOf
  <2>3. Knows(vendor, account, call, w, step, i)
    BY DEF Knows
  <2> QED
    BY <2>1, <2>2, <2>3, GoesToFollows
<1> QED
  BY <1>1, <1>2

LEMMA FoundFollows ==
    ASSUME vendor \in Vendors, AccountTyped(account),
           NEW call, Typed(call), call.step \in {"find", "find_again"},
           call.reply # NoReply, call.reply.next = 0,
           NEW w, Moment(call.question, account) \subseteq w, Learned(vendor, account, call, w),
           NEW then \in Found(call, Got(call))
    PROVE  Follows(vendor, account, call, then, w)
<1> DEFINE op == call.question.op
           name == call.question.name
           ids == Got(call)
<1>0. /\ call.step # "none" /\ op \in Op \ {"list_managed"} /\ Neon \in BOOLEAN
      /\ call.step = "find_again" => op = "create"
      /\ call.question \in Question
  BY WhoIsAt, OpenAsks DEF Neon
<1>a. ids \subseteq Ids /\ PastReply(call) = Ids
  BY DEF Got, PastReply, Typed, Call
<1>b. ASSUME op \in {"destroy", "exists"}
      PROVE  /\ call.question.ref = NoId /\ call.step = "find"
             /\ ids # {} => There \in w
             /\ Absent \in w \/ (ids # {} /\ \A i \in ids : account[i] = name)
  <2>1. call.question.ref = NoId /\ call.step = "find"
    BY <1>0, <1>b DEF Learned, Reads
  <2>2. ids # {} => There \in w
    BY <1>b, <2>1 DEF Learned, Finds
  <2>3. Absent \in w \/ /\ \A i \in Ids : account[i] = name => i \in ids
                        /\ \A i \in ids : account[i] = name
    BY <1>a, <1>b, <2>1 DEF Learned, Finds
  <2>4. Absent \in w \/ ids # {}
    BY <1>0, <1>b, <2>1, <2>3, MomentTells
  <2> QED
    BY <2>1, <2>2, <2>3, <2>4
<1> HIDE DEF ids
<1>1. CASE Ambiguous(ids)
  BY <1>1, RaisedFollows DEF Found, ids
<1>2. CASE ~Ambiguous(ids) /\ op = "preflight"
  BY <1>2, GivenIs, AnswersFollow DEF Found, ids
<1>3. CASE ~Ambiguous(ids) /\ op = "exists"
  BY <1>3, <1>b, GivenIs, AnswersFollow DEF Found, ids
<1>4. CASE ~Ambiguous(ids) /\ op = "destroy"
  <2>1. CASE ids = {}
    <3>1. then = Answered("ok", {})
      BY <1>4, <2>1 DEF Found, ids
    <3> QED
      BY <1>4, <1>b, <2>1, <3>1, GivenIs, AnswersFollow
  <2>2. CASE ids # {}
    <3>1. PICK i \in ids : then = [GoesTo(call, "read") EXCEPT !.id = i]
      BY <1>4, <2>2 DEF Found, ids
    <3>2. "read" \in StepsOf(op) /\ i \in Ids
      BY <1>4, <1>a DEF StepsOf
    <3>3. Knows(vendor, account, call, w, "read", i)
      BY <1>4, <1>b DEF Knows
    <3> QED
      BY <1>0, <3>1, <3>2, <3>3, GoesToFollows
  <2> QED
    BY <2>1, <2>2
<1>5. CASE ~Ambiguous(ids) /\ op = "create"
  <2>1. CASE ids # {}
    <3>1. PICK i \in ids : then = Adopted(call, i)
      BY <1>5, <2>1 DEF Found, ids
    <3>2. <<"carried", i>> \in w
      BY <1>5 DEF Learned, Creates, ids
    <3> QED
      BY <1>0, <1>5, <1>a, <3>1, <3>2, AdoptedFollows
  <2>2. CASE ids = {} /\ call.step = "find"
    <3>1. \/ then = Raised(call, FALSE)
          \/ \E step \in {"post", "parent", "ground"} :
                /\ then = GoesTo(call, step)
                /\ step = "parent" => Neon
                /\ step = "ground" => Cloudflare
      BY <1>5, <2>2 DEF Found, BeforePost, ids
    <3>2. ASSUME NEW step \in {"post", "parent", "ground"}, then = GoesTo(call, step),
                 step = "parent" => Neon, step = "ground" => Cloudflare
          PROVE  Follows(vendor, account, call, then, w)
      <4>1. step \in StepsOf(op) /\ step \notin OfOne
        BY <1>5 DEF StepsOf, OfOne
      <4>2. vendor = "upstash" => \A i \in Ids : account[i] # name
        BY <1>5, <2>2 DEF Learned, Creates, ids
      <4>3. Knows(vendor, account, call, w, step, call.id)
        BY <1>5, <3>2, <4>2 DEF Knows, Neon, Cloudflare
      <4> QED
        BY <1>0, <3>2, <4>1, <4>3, GoesOnFollows
    <3> QED
      BY <3>1, <3>2, RaisedFollows
  <2>3. CASE ids = {} /\ call.step # "find"
    <3>1. then = Raised(call, Neon)
      BY <1>5, <2>3 DEF Found, ids
    <3> QED
      BY <1>0, <3>1, RaisedFollows
  <2> QED
    BY <2>1, <2>2, <2>3
<1> QED
  BY <1>0, <1>1, <1>2, <1>3, <1>4, <1>5 DEF Op

LEMMA AfterPageFollows ==
    ASSUME Listable, vendor \in Vendors, AccountTyped(account),
           NEW call, Typed(call), call.step \in Listing, call.reply # NoReply,
           NEW w, Moment(call.question, account) \subseteq w, Learned(vendor, account, call, w),
           NEW then \in AfterPage(call)
    PROVE  Follows(vendor, account, call, then, w)
<1>0. call.step # "none" /\ call.question \in Question /\ NoReply.next = 0 /\ NoReply.kind = "none"
  BY OpenAsks DEF NoReply, Listing
<1>a. call.reply.next # 0 => vendor = "neon" /\ call.pages + 1 # MaxPages
  <2> SUFFICES ASSUME call.reply.next # 0 PROVE vendor = "neon" /\ call.pages + 1 # MaxPages
    OBVIOUS
  <2>1. vendor = "neon" /\ (call.pages + 1) * PageSize["neon"] < Cardinality(Ids)
    BY DEF Learned, Pages
  <2>2. Cardinality(Ids) <= MaxPages * PageSize["neon"]
    BY <2>1 DEF Listable
  <2>3. Cardinality(Ids) \in Nat /\ MaxPages \in Nat /\ call.pages \in Nat /\ PageSize["neon"] \in Nat
    BY <2>1, IdsAssumption, FS_CardinalityType, SendsAssumption, VendorsAssumption DEF Typed, Call
  <2>4. CASE call.pages + 1 = MaxPages
    <3>1. MaxPages * PageSize["neon"] < Cardinality(Ids)
      BY <2>1, <2>4
    <3>2. MaxPages * PageSize["neon"] \in Nat
      BY <2>3
    <3> DEFINE n == MaxPages * PageSize["neon"]
    <3>3. n < Cardinality(Ids) /\ Cardinality(Ids) <= n /\ n \in Nat
      BY <2>2, <3>1, <3>2
    <3> HIDE DEF n
    <3> QED
      BY <2>3, <3>3
  <2> QED
    BY <2>1, <2>4
<1>1. CASE call.reply.next # 0
  <2>1. then = [call EXCEPT !.seen = call.seen \cup call.reply.ids, !.cursor = call.reply.next,
                            !.pages = @ + 1, !.sent = 0, !.reply = NoReply]
    BY <1>1, <1>a DEF AfterPage
  <2>2. /\ then.question = call.question /\ then.step = call.step /\ then.id = call.id
        /\ then.reply = NoReply /\ then.cursor = call.reply.next
        /\ then.pages = call.pages + 1 /\ then.seen = Got(call)
    BY <1>1, <1>a, <2>1, TurnedIs
  <2>3. Past(then) = PastReply(call) /\ Got(then) = Got(call)
    BY <1>1, <2>2 DEF Past, PastReply, Got, NoReply
  <2>4. Pages(vendor, then)
    BY <1>0, <1>1, <1>a, <2>2, <2>3 DEF Learned, Pages
  <2>5. Creates(vendor, account, then, w)
    BY <1>0, <1>a, <1>1, <2>2, <2>3 DEF Learned, Creates, Listing
  <2>6. Finds(account, then, w)
    BY <1>0, <2>2, <2>3, WhoIsAt DEF Learned, Finds, Listing
  <2>7. Reads(then, w)
    BY <2>2 DEF Learned, Reads, Listing
  <2>8. Lists(then, w)
    BY <2>2, <2>3 DEF Learned, Lists
  <2> QED
    BY <1>0, <2>2, <2>4, <2>5, <2>6, <2>7, <2>8 DEF Follows, Learned
<1>2. CASE call.reply.next = 0 /\ call.step = "list"
  <2>1. then = Answered("ok", Got(call)) /\ Got(call) \in SUBSET Ids /\ PastReply(call) = Ids
    BY <1>2 DEF AfterPage, Got, Typed, Call, PastReply
  <2>2. call.question.op = "list_managed"
    BY <1>0, <1>2, WhoIsAt
  <2>3. /\ \A i \in Got(call) : <<"managed", i>> \in w
        /\ \A i \in Ids : i \in Got(call) \/ <<"unmanaged", i>> \in w
    BY <2>1, <2>2 DEF Learned, Lists
  <2> QED
    BY <2>1, <2>2, <2>3, GivenIs, AnswersFollow
<1>3. CASE call.reply.next = 0 /\ call.step # "list"
  <2>1. then \in Found(call, Got(call)) /\ call.step \in {"find", "find_again"}
    BY <1>3 DEF AfterPage, Got, Listing
  <2> QED
    BY <1>3, <2>1, FoundFollows
<1> QED
  BY <1>1, <1>2, <1>3

LEMMA AfterReadFollows ==
    ASSUME vendor \in Vendors, NEW call, Typed(call), call.step = "read", call.reply # NoReply,
           NEW w, Learned(vendor, account, call, w), NEW then \in AfterRead(call)
    PROVE  Follows(vendor, account, call, then, w)
<1>0. /\ call.id \in Ids /\ call.question.op \in {"create", "destroy", "exists"}
      /\ call.step # "none" /\ call.reply.kind \in {"missing", "ours", "renamed"}
  BY WhoIsAt DEF Typed, Shape, OfOne, Kinds
<1>1. CASE call.question.op = "create"
  <2>1. then = Answered("ok", {call.id}) /\ <<"carried", call.id>> \in w
    BY <1>1 DEF AfterRead, Learned, Creates
  <2> QED
    BY <1>0, <1>1, <2>1, GivenIs, AnswersFollow
<1>2. CASE call.question.op = "exists"
  <2>1. /\ call.reply.kind = "missing" => then = Answered("gone", {}) /\ Absent \in w
        /\ call.reply.kind # "missing" => then = Answered("exists", {}) /\ There \in w
    BY <1>0, <1>2 DEF AfterRead, Learned, Reads
  <2> QED
    BY <1>2, <2>1, GivenIs, AnswersFollow
<1>3. CASE call.question.op = "destroy"
  <2>1. CASE call.reply.kind = "missing"
    <3>1. then = Answered("ok", {}) /\ Absent \in w
      BY <1>3, <2>1 DEF AfterRead, Learned, Reads
    <3> QED
      BY <1>3, <3>1, GivenIs, AnswersFollow
  <2>2. CASE call.reply.kind = "ours"
    <3>1. then = GoesTo(call, "delete") /\ "delete" \in StepsOf(call.question.op)
      BY <1>3, <2>2 DEF AfterRead, StepsOf
    <3>2. Knows(vendor, account, call, w, "delete", call.id)
      BY <1>3, <2>2 DEF Knows, Learned, Reads, Finds
    <3> QED
      BY <1>0, <3>1, <3>2, GoesOnFollows
  <2>3. CASE call.reply.kind = "renamed"
    <3>1. then = Raised(call, FALSE)
      BY <1>3, <2>3 DEF AfterRead
    <3> QED
      BY <3>1, RaisedFollows
  <2> QED
    BY <1>0, <2>1, <2>2, <2>3
<1> QED
  BY <1>0, <1>1, <1>2, <1>3

LEMMA AfterPostFollows ==
    ASSUME vendor \in Vendors, NEW call, Typed(call), call.step = "post", call.reply # NoReply,
           NEW w, Learned(vendor, account, call, w), NEW then \in AfterPost(call)
    PROVE  Follows(vendor, account, call, then, w)
<1>0. /\ call.question.op = "create" /\ call.reply.kind \in {"created", "clash"}
      /\ call.reply.kind = "created" => \E i \in Ids : call.reply.ids = {i}
      /\ call.step # "none"
  BY WhoIsAt DEF Typed, Shape, Kinds
<1>1. CASE call.reply.kind = "clash"
  <2>1. then = GoesTo(call, "find_again") /\ "find_again" \in StepsOf(call.question.op)
    BY <1>0, <1>1 DEF AfterPost, StepsOf
  <2>2. Knows(vendor, account, call, w, "find_again", call.id)
    BY <1>0, <1>1 DEF Knows, Learned, Creates
  <2> QED
    BY <1>0, <2>1, <2>2, GoesOnFollows DEF OfOne
<1>2. CASE call.reply.kind = "created"
  <2> DEFINE new == CHOOSE i \in Ids : call.reply.ids = {i}
  <2>1. new \in Ids /\ call.reply.ids = {new}
    BY <1>0, <1>2
  <2>2. then = Answered("ok", {new}) \/ then = [GoesTo(call, "credentials") EXCEPT !.id = new]
    BY <1>2 DEF AfterPost
  <2> HIDE DEF new
  <2>3. <<"carried", new>> \in w
    BY <1>0, <2>1 DEF Learned, Creates, Got
  <2>4. CASE then = Answered("ok", {new})
    BY <1>0, <2>1, <2>3, <2>4, GivenIs, AnswersFollow
  <2>5. CASE then = [GoesTo(call, "credentials") EXCEPT !.id = new]
    <3>1. "credentials" \in StepsOf(call.question.op)
      BY <1>0 DEF StepsOf
    <3>2. Knows(vendor, account, call, w, "credentials", new)
      BY <1>0, <2>3 DEF Knows
    <3> QED
      BY <1>0, <2>1, <2>5, <3>1, <3>2, GoesToFollows
  <2> QED
    BY <2>2, <2>4, <2>5
<1> QED
  BY <1>0, <1>1, <1>2

LEMMA AfterGroundFollows ==
    ASSUME vendor \in Vendors, NEW call, Typed(call), call.step = "ground", call.reply # NoReply,
           NEW w, Learned(vendor, account, call, w), NEW then \in AfterGround(call)
    PROVE  Follows(vendor, account, call, then, w)
<1>0. call.question.op \in {"preflight", "create"} /\ call.step # "none"
  BY WhoIsAt
<1>1. \/ then = Raised(call, FALSE)
      \/ then = Answered("ok", {}) /\ Neon
      \/ then = GoesTo(call, "parent") /\ Neon
      \/ then = GoesTo(call, "post") /\ call.question.op = "create"
      \/ then = GoesTo(call, "find") /\ call.question.op # "create"
  BY <1>0 DEF AfterGround
<1>2. /\ {"parent", "find"} \subseteq StepsOf(call.question.op)
      /\ call.question.op = "create" => "post" \in StepsOf(call.question.op)
  BY <1>0 DEF StepsOf
<1>3. call.question.op = "create" => ~Neon /\ vendor # "upstash"
  BY DEF Learned, Creates, Neon
<1>4. CASE then = Raised(call, FALSE)
  BY <1>4, RaisedFollows
<1>5. CASE then = Answered("ok", {}) /\ Neon
  BY <1>0, <1>3, <1>5, GivenIs, AnswersFollow
<1>6. CASE then = GoesTo(call, "parent") /\ Neon
  <2>1. Knows(vendor, account, call, w, "parent", call.id)
    BY <1>0, <1>3, <1>6 DEF Knows
  <2> QED
    BY <1>0, <1>2, <1>6, <2>1, GoesOnFollows DEF OfOne
<1>7. CASE then = GoesTo(call, "post") /\ call.question.op = "create"
  <2>1. Knows(vendor, account, call, w, "post", call.id)
    BY <1>3, <1>7 DEF Knows
  <2> QED
    BY <1>0, <1>2, <1>7, <2>1, GoesOnFollows DEF OfOne
<1>8. CASE then = GoesTo(call, "find") /\ call.question.op # "create"
  <2>1. Knows(vendor, account, call, w, "find", call.id)
    BY <1>0, <1>8 DEF Knows
  <2> QED
    BY <1>0, <1>2, <1>8, <2>1, GoesOnFollows DEF OfOne
<1> QED
  BY <1>1, <1>4, <1>5, <1>6, <1>7, <1>8

LEMMA AfterParentFollows ==
    ASSUME vendor \in Vendors, NEW call, Typed(call), call.step = "parent", call.reply # NoReply,
           NEW w, Learned(vendor, account, call, w), NEW then \in AfterParent(call)
    PROVE  Follows(vendor, account, call, then, w)
<1>0. call.question.op \in {"preflight", "create"} /\ call.step # "none"
  BY WhoIsAt
<1>1. \/ then = Raised(call, FALSE)
      \/ then = Answered("ok", {}) /\ call.question.op # "create"
      \/ then = GoesTo(call, "post") /\ call.question.op = "create"
  BY DEF AfterParent
<1>2. CASE then = Raised(call, FALSE)
  BY <1>2, RaisedFollows
<1>3. CASE then = Answered("ok", {}) /\ call.question.op # "create"
  BY <1>0, <1>3, GivenIs, AnswersFollow
<1>4. CASE then = GoesTo(call, "post") /\ call.question.op = "create"
  <2>1. "post" \in StepsOf(call.question.op)
    BY <1>4 DEF StepsOf
  <2>2. Knows(vendor, account, call, w, "post", call.id)
    BY <1>4 DEF Knows, Learned, Creates
  <2> QED
    BY <1>0, <1>4, <2>1, <2>2, GoesOnFollows DEF OfOne
<1> QED
  BY <1>1, <1>2, <1>3, <1>4

LEMMA ReceiveFollows ==
    ASSUME Listable, vendor \in Vendors, AccountTyped(account),
           NEW c \in Calls, NEW call, call = calls[c], Typed(call), Receive(c),
           NEW w, Moment(call.question, account) \subseteq w, Learned(vendor, account, call, w)
    PROVE  \E then : calls' = [calls EXCEPT ![c] = then] /\ Follows(vendor, account, call, then, w)
<1>1. PICK then : /\ calls' = [calls EXCEPT ![c] = then] /\ call.step # "none"
                  /\ \/ call.step \in Listing /\ then \in AfterPage(call)
                     \/ call.step = "read" /\ then \in AfterRead(call)
                     \/ call.step = "post" /\ then \in AfterPost(call)
                     \/ call.step = "ground" /\ then \in AfterGround(call)
                     \/ call.step = "parent" /\ then \in AfterParent(call)
                     \/ /\ call.step = "credentials"
                        /\ then = Raised(call, FALSE) \/ then = Answered("ok", {call.id})
                     \/ call.step = "delete" /\ then = Answered("ok", {})
  BY ReceiveIs
<1>2. call.reply # NoReply
  BY DEF Receive
<1>3. CASE call.step \in Listing /\ then \in AfterPage(call)
  BY <1>1, <1>2, <1>3, AfterPageFollows
<1>4. CASE call.step = "read" /\ then \in AfterRead(call)
  BY <1>1, <1>2, <1>4, AfterReadFollows
<1>5. CASE call.step = "post" /\ then \in AfterPost(call)
  BY <1>1, <1>2, <1>5, AfterPostFollows
<1>6. CASE call.step = "ground" /\ then \in AfterGround(call)
  BY <1>1, <1>2, <1>6, AfterGroundFollows
<1>7. CASE call.step = "parent" /\ then \in AfterParent(call)
  BY <1>1, <1>2, <1>7, AfterParentFollows
<1>8. CASE then = Raised(call, FALSE)
  BY <1>1, <1>8, RaisedFollows
<1>9. CASE call.step = "credentials" /\ then = Answered("ok", {call.id})
  <2>1. call.question.op = "create" /\ call.id \in Ids /\ <<"carried", call.id>> \in w
    BY <1>9, WhoIsAt DEF Typed, Shape, OfOne, Learned, Creates
  <2> QED
    BY <1>1, <1>9, <2>1, GivenIs, AnswersFollow
<1>10. CASE call.step = "delete" /\ then = Answered("ok", {})
  <2>1. call.question.op = "destroy" /\ Absent \in w
    BY <1>2, <1>10, WhoIsAt DEF Learned, Reads
  <2> QED
    BY <1>1, <1>10, <2>1, GivenIs, AnswersFollow
<1> QED
  BY <1>1, <1>3, <1>4, <1>5, <1>6, <1>7, <1>8, <1>9, <1>10

-----------------------------------------------------------------------------
(* What the vendor does the promise allows.                                *)

LEMMA SettlesSame == \A acc : Settles(acc, acc)
  BY DEF Settles

LEMMA SettlesGone ==
    ASSUME NEW acc, AccountTyped(acc), NEW i \in Ids, NEW x \in Others \cup {NoName},
           NEW after, \A j \in Ids : after[j] = IF j = i THEN x ELSE acc[j]
    PROVE  /\ Settles(acc, after)
           /\ \A name \in Managed : \A j \in Ids : after[j] = name => acc[j] = name
           /\ Unique(acc) => Unique(after)
<1>1. \A name \in Managed : \A j \in Ids : after[j] = name => acc[j] = name /\ j # i
  BY NamesAssumption DEF AccountTyped
<1> QED
  BY <1>1 DEF Settles, Unique

\* A listing's request is handled.
LEMMA PageLearned ==
    ASSUME Listable, vendor \in Vendors, AccountTyped(account),
           NEW call, Typed(call), call.step \in Listing, call.reply = NoReply,
           NEW w, Moment(call.question, account) \subseteq w, Learned(vendor, account, call, w),
           NEW then, then.question = call.question, then.step = call.step, then.id = call.id,
           then.reply = Page(call), then.cursor = call.cursor, then.pages = call.pages,
           then.seen = call.seen
    PROVE  Learned(vendor, account, then, w)
<1> DEFINE reply == Page(call)
           name == call.question.name
<1>0. call.step # "none" /\ call.question \in Question /\ call.question.name \in Managed
  BY OpenAsks DEF Listing
<1>1. /\ reply \in ReplyRecord /\ reply.kind = "page" /\ reply.ids \subseteq Wanted(call)
  BY PageShape
<1>2. /\ \A i \in Wanted(call) : reply.next = 0 \/ i <= reply.next => i \in reply.ids \cup Past(call)
      /\ ~Neon => reply.next = 0
      /\ Upstash => reply.ids = Wanted(call)
      /\ reply.next # 0 =>
           LET past == {i \in Ids : i <= reply.next} IN
           /\ (call.pages + 1) * PageSize[vendor] <= Cardinality(past)
           /\ (call.pages + 1) * PageSize[vendor] < Cardinality(Ids)
  BY <1>0, PageTells DEF Learned
<1> HIDE DEF reply
<1>3. /\ Past(then) = Past(call) /\ Got(then) = call.seen \cup reply.ids /\ Got(call) = call.seen
      /\ PastReply(then) = {i \in Ids : reply.next = 0 \/ i <= reply.next}
      /\ then.reply = reply
  BY DEF Past, Got, PastReply, reply, NoReply
<1>4. Pages(vendor, then)
  <2>1. vendor # "neon" => /\ then.pages = 0 /\ then.cursor = 0 /\ then.reply.next = 0
                           /\ then.seen = {}
    BY <1>2, <1>3 DEF Learned, Pages, Neon
  <2>2. vendor = "neon" => then.pages * PageSize[vendor] <= Cardinality(Past(then))
    BY <1>3 DEF Learned, Pages
  <2>3. then.reply.next # 0 => PastReply(then) = {i \in Ids : i <= reply.next}
    BY <1>3
  <2>4. then.reply.next # 0 =>
           /\ (then.pages + 1) * PageSize[vendor] <= Cardinality(PastReply(then))
           /\ (then.pages + 1) * PageSize[vendor] < Cardinality(Ids)
    BY <1>2, <1>3, <2>3
  <2> QED
    BY <2>1, <2>2, <2>4 DEF Pages
<1>5. Creates(vendor, account, then, w)
  <2> SUFFICES ASSUME call.question.op = "create" PROVE Creates(vendor, account, then, w)
    BY DEF Creates
  <2>1. call.question.ref = NoId /\ call.step # "list"
    BY <1>0, WhoIsAt DEF Typed, Shape
  <2>2. Wanted(call) = {i \in Ids : account[i] = name}
    BY DEF Wanted
  <2>3. \A i \in Got(then) : <<"carried", i>> \in w
    <3>1. \A i \in call.seen : <<"carried", i>> \in w
      BY <1>3 DEF Learned, Creates
    <3>2. \A i \in reply.ids : <<"carried", i>> \in w
      BY <1>0, <1>1, <2>1, <2>2, MomentTells
    <3> QED
      BY <1>3, <3>1, <3>2
  <2>4. vendor = "upstash" /\ Got(then) = {} => \A i \in Ids : account[i] # name
    BY <1>2, <1>3, <2>2 DEF Upstash
  <2>5. vendor = "upstash" => then.step \notin {"ground", "parent", "find_again"} /\ then.reply.kind # "clash"
    BY <1>1, <1>3 DEF Learned, Creates
  <2>6. then.step \notin {"read", "credentials", "ground", "post"}
    BY DEF Listing
  <2> QED
    BY <2>3, <2>4, <2>5, <2>6 DEF Creates
<1>6. Finds(account, then, w)
  <2> SUFFICES ASSUME call.question.op \in {"destroy", "exists"}, call.question.ref = NoId
               PROVE  Finds(account, then, w)
    BY DEF Finds
  <2>1. Wanted(call) = {i \in Ids : account[i] = name}
    BY DEF Wanted
  <2>2. reply.ids # {} => There \in w
    BY <1>0, <1>1, <2>1, MomentTells
  <2>3. \A i \in reply.ids : account[i] = name
    BY <1>1, <2>1
  <2>4. /\ call.question.op = "exists" => call.step = "find"
        /\ call.seen # {} => There \in w
        /\ Absent \in w \/ /\ \A i \in Past(call) : account[i] = name => i \in call.seen
                           /\ \A i \in call.seen : account[i] = name
    BY <1>3 DEF Learned, Finds
  <2>5. Absent \in w \/ \A i \in PastReply(then) : account[i] = name => i \in Got(then)
    BY <1>2, <1>3, <2>1, <2>4
  <2>6. then.step \notin {"read", "delete"}
    BY DEF Listing
  <2> QED
    BY <1>3, <2>2, <2>3, <2>4, <2>5, <2>6 DEF Finds
<1>7. Reads(then, w)
  BY DEF Learned, Reads, Listing
<1>8. Lists(then, w)
  <2> SUFFICES ASSUME call.question.op = "list_managed" PROVE Lists(then, w)
    BY DEF Lists
  <2>1. Wanted(call) = {i \in Ids : account[i] \in Managed}
    BY DEF Wanted
  <2>2. \A i \in Ids : /\ account[i] \in Managed => <<"managed", i>> \in w
                       /\ account[i] \notin Managed => <<"unmanaged", i>> \in w
    BY <1>0, MomentTells
  <2>3. /\ \A i \in call.seen : <<"managed", i>> \in w
        /\ \A i \in Past(call) : i \in call.seen \/ <<"unmanaged", i>> \in w
    BY <1>3 DEF Learned, Lists
  <2>4. \A i \in PastReply(then) : i \in Got(then) \/ <<"unmanaged", i>> \in w
    BY <1>2, <1>3, <2>1, <2>2, <2>3
  <2> QED
    BY <1>1, <1>3, <2>1, <2>2, <2>3, <2>4 DEF Lists
<1> QED
  BY <1>4, <1>5, <1>6, <1>7, <1>8 DEF Learned

\* The reply to another request: only its kind and the id made come with it.
LEMMA PlainLearned ==
    ASSUME NEW v, NEW acc, NEW w, NEW call, Typed(call), call.step \notin Listing, call.step # "none",
           call.reply = NoReply, Learned(v, acc, call, w),
           NEW kind \in ReplyKind, NEW then, then.question = call.question, then.step = call.step,
           then.id = call.id, then.reply = Reply(kind, {}, 0), then.cursor = call.cursor,
           then.pages = call.pages, then.seen = call.seen, v = "upstash" => kind # "clash",
           call.step = "read" => Reads(then, w),
           call.step = "delete" => Absent \in w
    PROVE  Learned(v, acc, then, w)
<1>1. /\ Past(then) = Past(call) /\ Got(then) = Got(call)
      /\ then.reply.next = 0 /\ then.reply.kind = kind
  BY DEF Past, Got, Reply, NoReply
<1>2. Pages(v, then)
  BY <1>1 DEF Learned, Pages
<1>3. then.reply # NoReply \/ then.reply = NoReply
  OBVIOUS
<1>4. Creates(v, acc, then, w)
  <2>1. call.step = "post" => call.reply = NoReply
    OBVIOUS
  <2> QED
    BY <1>1, <2>1 DEF Learned, Creates, Listing
<1>5. Finds(acc, then, w)
  BY <1>1 DEF Learned, Finds, Listing
<1>6. Reads(then, w)
  BY <1>1 DEF Learned, Reads, Listing
<1>7. Lists(then, w)
  <2>1. call.question.op # "list_managed"
    BY WhoIsAt DEF Listing
  <2> QED
    BY <2>1 DEF Lists
<1> QED
  BY <1>2, <1>4, <1>5, <1>6, <1>7 DEF Learned

\* What a handled request may do to the account.
Touches(call, w, acc, after) ==
    \/ after = acc
    \/ /\ call.question.op = "create" /\ call.step = "post"
       /\ \A j \in Ids : acc[j] # call.question.name
       /\ \E i \in Ids : acc[i] = NoName /\ after = [acc EXCEPT ![i] = call.question.name]
    \/ /\ call.question.op = "destroy" /\ call.id \in Ids /\ <<"carried", call.id>> \in w
       /\ after = [acc EXCEPT ![call.id] = NoName]

LEMMA TouchesSettle ==
    ASSUME NEW call, Typed(call), call.step # "none", NEW w,
           NEW acc, AccountTyped(acc), Unique(acc), NEW after, Touches(call, w, acc, after)
    PROVE  /\ Settles(acc, after) /\ Unique(after)
           /\ call.step # "post" =>
                \A name \in Managed : \A j \in Ids : after[j] = name => acc[j] = name
<1>1. CASE after = acc
  BY <1>1, SettlesSame
<1>2. CASE /\ call.question.op = "create" /\ call.step = "post"
           /\ \A j \in Ids : acc[j] # call.question.name
           /\ \E i \in Ids : acc[i] = NoName /\ after = [acc EXCEPT ![i] = call.question.name]
  <2>1. PICK i \in Ids : after = [acc EXCEPT ![i] = call.question.name]
    BY <1>2
  <2>2. \A j \in Ids : after[j] = (IF j = i THEN call.question.name ELSE acc[j])
    BY <2>1 DEF AccountTyped
  <2>3. Settles(acc, after)
    BY <1>2, <2>2 DEF Settles
  <2>4. Unique(after)
    BY <1>2, <2>2 DEF Unique
  <2> QED
    BY <1>2, <2>3, <2>4
<1>3. CASE call.id \in Ids /\ after = [acc EXCEPT ![call.id] = NoName]
  <2>1. \A j \in Ids : after[j] = (IF j = call.id THEN NoName ELSE acc[j])
    BY <1>3 DEF AccountTyped
  <2>2. \A name \in Managed : \A j \in Ids : after[j] = name => acc[j] = name /\ j # call.id
    BY <2>1, NamesAssumption
  <2> QED
    BY <2>2 DEF Settles, Unique
<1> QED
  BY <1>1, <1>2, <1>3 DEF Touches

LEMMA HandleFollows ==
    ASSUME Listable, vendor \in Vendors, AccountTyped(account), Unique(account),
           NEW c \in Calls, NEW call, call = calls[c], Typed(call), Handle(c),
           NEW after, after = account', AccountTyped(after),
           NEW w, Moment(call.question, account) \subseteq w,
           NEW since, w \subseteq since, Moment(call.question, after) \subseteq since,
           Learned(vendor, account, call, w)
    PROVE  /\ Touches(call, w, account, after)
           /\ \E then : /\ calls' = [calls EXCEPT ![c] = then]
                        /\ then.question = call.question /\ then.answer = call.answer
                        /\ then.step = call.step /\ Learned(vendor, after, then, since)
<1> DEFINE name == call.question.name
           op == call.question.op
           ref == call.question.ref
<1>1. PICK reply :
         /\ call.step # "none" /\ call.reply = NoReply
         /\ calls' = [calls EXCEPT ![c] = [call EXCEPT !.reply = reply]]
         /\ \/ call.step \in Listing /\ reply = Page(call) /\ account' = account
            \/ /\ call.step = "read" /\ account' = account
               /\ \/ account[call.id] = NoName /\ reply = Reply("missing", {}, 0)
                  \/ account[call.id] = name /\ reply = Reply("ours", {}, 0)
                  \/ account[call.id] \notin {NoName, name} /\ reply = Reply("renamed", {}, 0)
            \/ /\ call.step \in {"credentials", "ground", "parent"} /\ account' = account
               /\ reply = Reply("ok", {}, 0) \/ reply = Reply("missing", {}, 0)
            \/ /\ call.step = "post" /\ ~Clashes(call)
               /\ \E i \in Ids : /\ account[i] = NoName
                                 /\ account' = [account EXCEPT ![i] = name]
                                 /\ reply = Reply("created", {i}, 0)
            \/ /\ call.step = "post" /\ MayClash(call) /\ account' = account
               /\ reply = Reply("clash", {}, 0)
            \/ /\ call.step = "delete" /\ account' = [account EXCEPT ![call.id] = NoName]
               /\ reply = Reply("ok", {}, 0)
  BY HandleIs
<1> DEFINE then == [call EXCEPT !.reply = reply]
<1>2. /\ then.question = call.question /\ then.answer = call.answer /\ then.step = call.step
      /\ then.id = call.id /\ then.reply = reply /\ then.cursor = call.cursor
      /\ then.pages = call.pages /\ then.seen = call.seen
  BY DEF Typed, Call
<1>3. /\ call.question \in Question /\ op \in Op /\ name \in Managed /\ ref \in Ids \cup {NoId}
      /\ call.step \in StepsOf(op)
  BY <1>1, OpenAsks
<1> HIDE DEF then
<1> SUFFICES Touches(call, w, account, after) /\ Learned(vendor, after, then, since)
  BY <1>1, <1>2 DEF then
<1>4. ASSUME after = account
      PROVE  Learned(vendor, account, call, since)
  <2>1. Settles(account, account)
    BY SettlesSame
  <2> QED
    BY <1>1, <1>4, <2>1, LearnedStays
<1>5. CASE call.step \in Listing /\ reply = Page(call) /\ after = account
  BY <1>1, <1>2, <1>4, <1>5, PageLearned DEF Touches
<1>6. CASE call.step = "read" /\ after = account
  <2>1. op \in {"create", "destroy", "exists"} /\ call.id \in Ids /\ ref \in {NoId} \cup Ids
    BY <1>1, <1>3, <1>6, WhoIsAt DEF Typed, Shape, OfOne
  <2>2. PICK kind \in {"missing", "ours", "renamed"} :
          /\ reply = Reply(kind, {}, 0)
          /\ kind = "missing" => account[call.id] = NoName
          /\ kind = "ours" => account[call.id] = name
          /\ kind = "renamed" => account[call.id] # NoName
    BY <1>1, <1>6 DEF Listing
  <2>3. reply.kind = kind
    BY <2>2 DEF Reply
  <2>4. name # NoName
    BY <1>3, NamesAssumption
  <2>5. op \in {"destroy", "exists"} /\ kind = "missing" => Absent \in since
    <3> SUFFICES ASSUME op \in {"destroy", "exists"}, kind = "missing" PROVE Absent \in since
      OBVIOUS
    <3>1. CASE ref = NoId
      BY <1>6, <2>2, <2>4, <3>1 DEF Learned, Finds
    <3>2. CASE ref # NoId
      <4>1. call.id = ref
        BY <3>2 DEF Learned, Reads
      <4> QED
        BY <1>3, <1>6, <2>2, <3>2, <4>1, MomentTells
    <3> QED
      BY <3>1, <3>2
  <2>6. op = "exists" /\ kind \in {"ours", "renamed"} => There \in since
    <3> SUFFICES ASSUME op = "exists", kind \in {"ours", "renamed"} PROVE There \in since
      OBVIOUS
    <3>1. ref # NoId
      BY <1>6 DEF Learned, Finds
    <3>2. call.id = ref
      BY <3>1 DEF Learned, Reads
    <3> QED
      BY <1>3, <1>6, <2>2, <2>4, <3>1, <3>2, MomentTells
  <2>7. op = "destroy" /\ kind = "ours" => <<"carried", call.id>> \in since
    <3> SUFFICES ASSUME op = "destroy", kind = "ours" PROVE <<"carried", call.id>> \in since
      OBVIOUS
    <3>1. ref \in {NoId, call.id}
      BY DEF Learned, Reads
    <3> QED
      BY <1>3, <1>6, <2>1, <2>2, <3>1, MomentTells
  <2>8. Reads(then, since)
    <3>1. op \in {"destroy", "exists"} /\ ref # NoId => call.id = ref
      BY DEF Learned, Reads
    <3> QED
      BY <1>2, <1>6, <2>3, <2>5, <2>6, <2>7, <3>1 DEF Reads
  <2>9. kind \in ReplyKind /\ kind # "clash"
    BY DEF ReplyKind
  <2>10. Learned(vendor, account, then, since)
    BY <1>1, <1>2, <1>4, <1>6, <2>2, <2>8, <2>9, PlainLearned DEF Listing
  <2> QED
    BY <1>6, <2>10 DEF Touches
<1>7. CASE call.step \in {"credentials", "ground", "parent"} /\ after = account
  <2>1. PICK kind \in {"ok", "missing"} : reply = Reply(kind, {}, 0)
    BY <1>1, <1>7 DEF Listing
  <2>2. Learned(vendor, account, then, since)
    BY <1>1, <1>2, <1>4, <1>7, <2>1, PlainLearned DEF Listing, ReplyKind
  <2> QED
    BY <1>7, <2>2 DEF Touches
<1>8. CASE call.step = "post" /\ MayClash(call) /\ after = account /\ reply = Reply("clash", {}, 0)
  <2>1. vendor # "upstash"
    BY <1>8 DEF MayClash, Clashes, Upstash, Cloudflare
  <2>2. Learned(vendor, account, then, since)
    BY <1>1, <1>2, <1>4, <1>8, <2>1, PlainLearned DEF Listing, ReplyKind
  <2> QED
    BY <1>8, <2>2 DEF Touches
<1>9. CASE /\ call.step = "post" /\ ~Clashes(call)
           /\ \E i \in Ids : /\ account[i] = NoName
                             /\ account' = [account EXCEPT ![i] = name]
                             /\ reply = Reply("created", {i}, 0)
  <2>1. PICK i \in Ids : /\ account[i] = NoName /\ after = [account EXCEPT ![i] = name]
                         /\ reply = Reply("created", {i}, 0)
    BY <1>9
  <2>2. op = "create" /\ ref = NoId
    BY <1>1, <1>9, WhoIsAt DEF Typed, Shape
  <2>3. \A j \in Ids : account[j] # name
    BY <1>1, <1>9, <2>2 DEF Learned, Creates, Clashes, Upstash
  <2>4. Touches(call, w, account, after)
    BY <1>9, <2>1, <2>2, <2>3 DEF Touches
  <2>5. after[i] = name
    BY <2>1 DEF AccountTyped
  <2>6. <<"carried", i>> \in since
    BY <1>3, <2>2, <2>5, MomentTells
  <2>7. /\ Got(then) = {i} /\ reply # NoReply /\ reply.next = 0 /\ Past(then) = Past(call)
        /\ reply.kind = "created"
    BY <1>2, <1>9, <2>1 DEF Got, Reply, NoReply, Past, Typed, Shape, Listing
  <2>8. Pages(vendor, then)
    BY <1>2, <2>7 DEF Learned, Pages
  <2>9. Creates(vendor, after, then, since)
    BY <1>2, <1>9, <2>6, <2>7 DEF Creates
  <2>10. Finds(after, then, since) /\ Reads(then, since) /\ Lists(then, since)
    BY <1>2, <2>2 DEF Finds, Reads, Lists
  <2> QED
    BY <2>4, <2>8, <2>9, <2>10 DEF Learned
<1>10. CASE /\ call.step = "delete" /\ account' = [account EXCEPT ![call.id] = NoName]
            /\ reply = Reply("ok", {}, 0)
  <2>1. op = "destroy" /\ call.id \in Ids
    BY <1>1, <1>10, WhoIsAt DEF Typed, Shape, OfOne
  <2>2. <<"carried", call.id>> \in w
    BY <1>10, <2>1 DEF Learned, Reads
  <2>3. Touches(call, w, account, after)
    BY <1>10, <2>1, <2>2 DEF Touches
  <2>4. Settles(account, after) /\ \A j \in Ids : after[j] = name => account[j] = name
    <3>1. call.step # "none" /\ call.step # "post"
      BY <1>10
    <3>2. /\ Settles(account, after)
          /\ \A other \in Managed : \A j \in Ids : after[j] = other => account[j] = other
      BY <2>3, <3>1, TouchesSettle
    <3> QED
      BY <1>3, <3>2
  <2>5. Learned(vendor, after, call, since)
    BY <1>1, <2>4, LearnedStays
  <2>6. Absent \in since
    <3>1. CASE ref # NoId
      <4>1. call.id = ref /\ after[ref] = NoName
        BY <1>10, <2>1, <3>1 DEF Learned, Reads, AccountTyped
      <4> QED
        BY <1>3, <2>1, <3>1, <4>1, MomentTells
    <3>2. CASE ref = NoId
      <4>1. Absent \in w \/ account[call.id] = name
        BY <1>10, <2>1, <3>2 DEF Learned, Finds
      <4>2. ASSUME account[call.id] = name PROVE \A j \in Ids : after[j] # name
        <5>1. \A j \in Ids : account[j] = name => j = call.id
          BY <1>3, <2>1, <4>2 DEF Unique
        <5>2. after[call.id] # name
          BY <1>3, <1>10, <2>1, NamesAssumption DEF AccountTyped
        <5> QED
          BY <2>4, <5>1, <5>2
      <4> QED
        BY <1>3, <2>1, <3>2, <4>1, <4>2, MomentTells
    <3> QED
      BY <3>1, <3>2
  <2>7. Learned(vendor, after, then, since)
    BY <1>1, <1>2, <1>10, <2>5, <2>6, PlainLearned DEF Listing, ReplyKind
  <2> QED
    BY <2>3, <2>7
<1> QED
  BY <1>1, <1>5, <1>6, <1>7, <1>8, <1>9, <1>10

-----------------------------------------------------------------------------
(* Every step of a call keeps what it and the others have learned.         *)

\* What a step adds to the witness of a call.
LEMMA SeesIs ==
    ASSUME NEW before, NEW w, NEW question, NEW acc,
           NEW since, since = Witnessing(before, w, question, acc)
    PROVE  /\ Current(acc, question, since)
           /\ before = question /\ question # Idle =>
                 w \subseteq since /\ Moment(question, acc) \subseteq since
           /\ before = question /\ Current(acc, question, w) => since = w
           /\ question # Idle => Moment(question, acc) \subseteq since
<1>1. CASE question = Idle
  BY <1>1 DEF Witnessing, Current
<1>2. CASE question # Idle
  <2>1. since = Moment(question, acc) \cup (IF before = Idle THEN {} ELSE w)
    BY <1>2 DEF Witnessing
  <2>2. Current(acc, question, w) => Moment(question, acc) \subseteq w
    BY <1>2 DEF Current
  <2>3. before = question => since = Moment(question, acc) \cup w
    BY <1>2, <2>1
  <2>4. Current(acc, question, since)
    BY <1>2, <2>1 DEF Current
  <2> QED
    BY <1>2, <2>1, <2>2, <2>3, <2>4
<1> QED
  BY <1>1, <1>2

\* A call that is not open has nothing to know.
LEMMA IdleStays ==
    ASSUME NEW v, NEW acc, NEW w, NEW call, call.question = Idle, Learned(v, acc, call, w),
           NEW after, NEW since
    PROVE  Learned(v, after, call, since)
  BY DEF Learned, Creates, Finds, Reads, Lists, Idle

LEMMA EndedLearned ==
    ASSUME NEW v \in Vendors, NEW acc, NEW w, NEW answer
    PROVE  Learned(v, acc, Ended(answer), w)
<1> DEFINE then == Ended(answer)
<1>1. /\ then.question = Idle /\ then.reply = NoReply /\ then.cursor = 0 /\ then.pages = 0
      /\ then.seen = {} /\ then.step = "none"
  BY DEF Ended, NoCall, NoId
<1> HIDE DEF then
<1>2. Knows(v, acc, then, w, then.step, then.id)
  BY <1>1 DEF Knows, Idle
<1>3. Learned(v, acc, then, w)
  BY <1>1, <1>2, FreshLearned
<1> QED
  BY <1>3 DEF then

\* A reply that never arrives takes nothing away but what it would have told.
LEMMA DroppedLearned ==
    ASSUME NEW v, NEW acc, NEW w, NEW call, Learned(v, acc, call, w),
           v = "upstash" /\ call.step = "post" => call.reply = NoReply,
           NEW then, then.question = call.question, then.step = call.step, then.id = call.id,
           then.reply = NoReply, then.cursor = call.cursor, then.pages = call.pages,
           then.seen = call.seen
    PROVE  Learned(v, acc, then, w)
<1>1. /\ Past(then) = Past(call) /\ Got(then) \subseteq Got(call) /\ NoReply.next = 0
      /\ NoReply.kind = "none" /\ Got(then) = call.seen
  BY DEF Past, Got, NoReply
<1>2. Pages(v, then)
  BY <1>1 DEF Learned, Pages
<1>3. Creates(v, acc, then, w)
  BY <1>1 DEF Learned, Creates
<1>4. Finds(acc, then, w)
  BY <1>1 DEF Learned, Finds
<1>5. Reads(then, w)
  BY <1>1 DEF Learned, Reads
<1>6. Lists(then, w)
  BY <1>1 DEF Learned, Lists
<1> QED
  BY <1>2, <1>3, <1>4, <1>5, <1>6 DEF Learned

\* One step of one call: it is asked, ends with an answer it may give, dies, or goes
\* on, and the account changes only as its question allows.
Advances(call, then, w, after, since) ==
    \/ /\ call.step = "none" /\ after = account
       /\ vendor = "upstash" => \A d \in Calls : calls[d].step = "none"
       /\ then.question \in Question /\ then.answer = NoAnswer /\ then.step # "none"
       /\ Learned(vendor, after, then, since)
    \/ /\ call.step # "none" /\ after = account
       /\ \E answer \in Given(call.question, w) : then = Ended(answer)
    \/ call.step # "none" /\ after = account /\ then = NoCall
    \/ /\ call.step # "none" /\ then.step # "none"
       /\ then.question = call.question /\ then.answer = call.answer
       /\ Touches(call, w, account, after) /\ Learned(vendor, after, then, since)

LEMMA CallAdvances ==
    ASSUME Listable, CallsTyped, CallsTyped', PromiseInv,
           NEW c \in Calls, Begin(c) \/ Handle(c) \/ Receive(c) \/ HttpFaults(c),
           NEW after, after = account', NEW then, then = calls'[c],
           NEW since, since = Witnessing(calls[c].question, witness[c], then.question, after)
    PROVE  /\ vendor' = vendor /\ calls' = [calls EXCEPT ![c] = then]
           /\ Advances(calls[c], then, witness[c], after, since)
<1> DEFINE call == calls[c]
           w == witness[c]
<1>0. /\ Typed(call) /\ Typed(then) /\ vendor \in Vendors
      /\ AccountTyped(account) /\ AccountTyped(after)
      /\ \A new : calls' = [calls EXCEPT ![c] = new] => new = then
  BY DEF CallsTyped, Typed, AccountTyped
<1>1. vendor' = vendor
  BY DEF Begin, Handle, Receive, HttpFaults, TurnedAway, TimedOut, Deferred, Refused,
         ReplyLost, ReplyGarbled, CallerDies
<1>2. Learned(vendor, account, call, w) /\ Current(account, call.question, w) /\ Unique(account)
  BY DEF PromiseInv
<1>3. /\ call.question = Idle <=> call.step = "none"
      /\ call.step # "none" => call.answer = NoAnswer /\ Moment(call.question, account) \subseteq w
  BY <1>0, <1>2 DEF Typed, Shape, Current
<1>4. /\ then.question # Idle => Moment(then.question, after) \subseteq since
      /\ then.question = call.question /\ call.question # Idle => w \subseteq since
      /\ then.question = call.question /\ after = account => since = w
  BY <1>2, SeesIs
<1> HIDE DEF call, w
<1>5. CASE Begin(c)
  <2>1. /\ calls' = [calls EXCEPT ![c] = then] /\ after = account
        /\ then.question \in Questions /\ then.step \in FirstSteps(then.question)
        /\ then.id = then.question.ref /\ then.reply = NoReply
        /\ then.cursor = 0 /\ then.pages = 0 /\ then.seen = {} /\ then.answer = NoAnswer
        /\ then.step # "none"
    BY <1>0, <1>5, BeginIs
  <2>2. /\ call.step = "none"
        /\ vendor = "upstash" => \A d \in Calls : calls[d].step = "none"
    BY <1>0, <1>5 DEF Begin, Listable, call
  <2>3. then.question \in Question /\ then.question.op \in Op
    BY <2>1 DEF Questions, Question
  <2>4. Knows(vendor, after, then, since, then.step, then.id)
    BY <2>1, <2>3 DEF Knows, FirstSteps, Op
  <2>5. Learned(vendor, after, then, since)
    BY <1>0, <2>1, <2>4, FreshLearned
  <2> QED
    BY <1>1, <2>1, <2>2, <2>3, <2>5 DEF Advances, call, w
<1>6. CASE Handle(c)
  <2>0. call.step # "none"
    BY <1>6 DEF Handle, Waiting, call
  <2>1. PICK new : /\ calls' = [calls EXCEPT ![c] = new] /\ new.question = call.question
    BY <1>0, <1>6, HandleIs DEF call, Typed, Call
  <2>2. then.question = call.question
    BY <1>0, <2>1
  <2>3. /\ Touches(call, w, account, after)
        /\ \E x : /\ calls' = [calls EXCEPT ![c] = x]
                  /\ x.question = call.question /\ x.answer = call.answer
                  /\ x.step = call.step /\ Learned(vendor, after, x, since)
    BY <1>0, <1>2, <1>3, <1>4, <1>6, <2>0, <2>2, HandleFollows DEF call, w
  <2> QED
    BY <1>0, <1>1, <2>0, <2>3 DEF Advances, call, w
<1>7. CASE Receive(c)
  <2>0. after = account /\ call.step # "none"
    BY <1>0, <1>7, ReceiveIs DEF Receive, call
  <2>1. calls' = [calls EXCEPT ![c] = then] /\ Follows(vendor, account, call, then, w)
    BY <1>0, <1>2, <1>3, <1>7, <2>0, ReceiveFollows DEF call
  <2>2. CASE \E answer \in Given(call.question, w) : then = Ended(answer)
    BY <1>1, <2>0, <2>1, <2>2 DEF Advances, call, w
  <2>3. CASE then.question = call.question /\ then.step # "none" /\ Learned(vendor, account, then, w)
    <3>1. then.answer = call.answer
      BY <1>0, <1>3, <2>0, <2>3 DEF Typed, Shape
    <3>2. Touches(call, w, account, after) /\ since = w
      BY <1>4, <2>0, <2>3 DEF Touches
    <3> QED
      BY <1>1, <2>0, <2>1, <2>3, <3>1, <3>2 DEF Advances, call, w
  <2> QED
    BY <2>1, <2>2, <2>3 DEF Follows
<1>8. CASE HttpFaults(c)
  <2>1. /\ calls' = [calls EXCEPT ![c] = then] /\ after = account /\ call.step # "none"
        /\ \/ then = SentAgain(call)
              /\ ~(vendor \in Sheltered /\ call.step = "post" /\ call.reply # NoReply)
           \/ \E retryable \in BOOLEAN : then = Raised(call, retryable)
           \/ then = NoCall
    BY <1>0, <1>8, FaultsContinue DEF call
  <2>2. CASE then = NoCall
    BY <1>1, <2>1, <2>2 DEF Advances, call
  <2>3. ASSUME NEW retryable \in BOOLEAN, then = Raised(call, retryable)
        PROVE  Advances(call, then, w, after, since)
    <3>1. \E answer \in Given(call.question, w) : then = Ended(answer)
      BY <2>3, RaisedIs, GivenIs
    <3> QED
      BY <2>1, <3>1 DEF Advances
  <2>4. CASE /\ then = SentAgain(call) /\ then # Raised(call, TRUE)
             /\ ~(vendor \in Sheltered /\ call.step = "post" /\ call.reply # NoReply)
    <3>1. /\ then.question = call.question /\ then.step = call.step /\ then.id = call.id
          /\ then.reply = NoReply /\ then.cursor = call.cursor
          /\ then.pages = call.pages /\ then.seen = call.seen
      BY <1>0, <2>1, <2>4, AgainIs DEF call
    <3>2. vendor = "upstash" /\ call.step = "post" => call.reply = NoReply
      BY <1>0, <2>4 DEF Listable
    <3>3. Learned(vendor, account, then, w)
      BY <1>2, <3>1, <3>2, DroppedLearned DEF call, w
    <3>4. then.answer = call.answer /\ Touches(call, w, account, after) /\ since = w
      BY <1>0, <1>3, <1>4, <2>1, <3>1 DEF Typed, Shape, Touches
    <3> QED
      BY <1>1, <2>1, <3>1, <3>3, <3>4 DEF Advances, call, w
  <2> QED
    BY <1>1, <2>1, <2>2, <2>3, <2>4 DEF call, w
<1> QED
  BY <1>5, <1>6, <1>7, <1>8

\* A console action makes no name of ours and touches no call.
LEMMA ConsoleIs ==
    ASSUME NEW i \in Ids, ConsoleActs(i)
    PROVE  \E x \in Others \cup {NoName} : account' = [account EXCEPT ![i] = x]
  BY DEF ConsoleActs, Promise!Console

LEMMA PromiseStarts == Init => PromiseInv
<1> SUFFICES ASSUME Init PROVE PromiseInv
  OBVIOUS
<1>1. Unique(account)
  BY NamesAssumption DEF Init, Unique
<1>2. \A c \in Calls : calls[c] = NoCall /\ calls[c].step = "none" /\ calls[c].question = Idle
  BY DEF Init, NoCall
<1>3. \A c \in Calls : Learned(vendor, account, calls[c], witness[c])
  BY <1>2, NoCallIs, EndedLearned DEF Init
<1>4. \A c \in Calls : Current(account, calls[c].question, witness[c])
  BY <1>2 DEF Init, Current
<1>5. Alone /\ NonePosted /\ witness = [c \in Calls |-> witness[c]]
  BY <1>2 DEF Alone, NonePosted, Init
<1> QED
  BY <1>1, <1>3, <1>4, <1>5 DEF PromiseInv

\* What everybody else knows survives a step that settles names only where nobody
\* has them.
LEMMA OthersStay ==
    ASSUME CallsTyped, PromiseInv, NEW d \in Calls,
           NEW after, AccountTyped(after), Settles(account, after),
           vendor = "upstash" /\ calls[d].step # "none" =>
               \A name \in Managed : \A j \in Ids : after[j] = name => account[j] = name,
           NEW since, since = Witnessing(calls[d].question, witness[d], calls[d].question, after)
    PROVE  Learned(vendor, after, calls[d], since)
<1> DEFINE call == calls[d]
<1>1. /\ Typed(call) /\ AccountTyped(account) /\ Unique(account)
      /\ Learned(vendor, account, call, witness[d]) /\ Current(account, call.question, witness[d])
      /\ call.question = Idle <=> call.step = "none"
  BY DEF CallsTyped, PromiseInv, Typed, Shape, AccountTyped
<1> HIDE DEF call
<1>2. CASE call.step = "none"
  BY <1>1, <1>2, IdleStays DEF call
<1>3. CASE call.step # "none"
  <2>1. call.question.name \in Managed
    BY <1>1, <1>3, OpenAsks
  <2>2. Moment(call.question, account) \subseteq witness[d]
    BY <1>1, <1>3 DEF Current
  <2>3. witness[d] \subseteq since /\ Moment(call.question, after) \subseteq since
    BY <1>1, <1>3, SeesIs DEF call
  <2>4. vendor = "upstash" =>
          \A j \in Ids : after[j] = call.question.name => account[j] = call.question.name
    BY <1>3, <2>1 DEF call
  <2>5. Learned(vendor, after, call, since)
    BY <1>1, <1>3, <2>2, <2>3, <2>4, LearnedStays
  <2> QED
    BY <2>5 DEF call
<1> QED
  BY <1>2, <1>3

\* What a request handled late does to the names.
LEMMA LateSettles ==
    ASSUME Listable, CallsTyped, PromiseInv, HandleLate, NEW after, after = account'
    PROVE  /\ Settles(account, after) /\ Unique(after)
           /\ vendor = "upstash" =>
                 \A name \in Managed : \A j \in Ids : after[j] = name => account[j] = name
<1>0. AccountTyped(account) /\ Unique(account) /\ vendor \in Vendors
  BY DEF CallsTyped, AccountTyped, PromiseInv
<1>1. ASSUME NEW i \in Ids, after = [account EXCEPT ![i] = NoName]
      PROVE  /\ Settles(account, after) /\ Unique(after)
             /\ \A name \in Managed : \A j \in Ids : after[j] = name => account[j] = name
  <2>1. PICK x \in Others \cup {NoName} : x = NoName
    OBVIOUS
  <2>2. \A j \in Ids : after[j] = IF j = i THEN x ELSE account[j]
    BY <1>0, <1>1, <2>1 DEF AccountTyped
  <2> QED
    BY <1>0, <2>2, SettlesGone
<1>2. ASSUME NEW name \in Managed, NEW i \in Ids, Making(name) \in adrift,
             vendor = "upstash" \/ \A j \in Ids : account[j] # name,
             after = [account EXCEPT ![i] = name]
      PROVE  vendor # "upstash" /\ Settles(account, after) /\ Unique(after)
  <2>1. vendor # "upstash"
    BY <1>0, <1>2 DEF PromiseInv, NonePosted, Listable
  <2>2. /\ \A j \in Ids : account[j] # name
        /\ \A j \in Ids : after[j] = IF j = i THEN name ELSE account[j]
    BY <1>0, <1>2, <2>1 DEF AccountTyped
  <2>3. Settles(account, after) /\ Unique(after)
    BY <1>0, <2>2 DEF Settles, Unique
  <2> QED
    BY <2>1, <2>3
<1> QED
  BY <1>1, <1>2, LateIs

\* A sheltered vendor stays without a POST to handle.
LEMMA StaysUnposted ==
    ASSUME CallsTyped, PromiseInv, Step
    PROVE  NonePosted'
<1>0. \A name, i : Making(name) # Removing(i)
  BY DEF Making, Removing
<1>1. ASSUME NEW c \in Calls, Begin(c) \/ Handle(c) \/ Receive(c) \/ HttpFaults(c)
      PROVE  NonePosted'
  <2>1. vendor' = vendor
    BY <1>1 DEF Begin, Handle, Receive, HttpFaults, TurnedAway, TimedOut, Deferred, Refused,
                ReplyLost, ReplyGarbled, CallerDies
  <2>2. Strays(calls[c], adrift')
    BY <1>1, CallStrays
  <2> QED
    BY <1>0, <2>1, <2>2 DEF Strays, PromiseInv, NonePosted
<1>2. ASSUME NEW i \in Ids, ConsoleActs(i) PROVE NonePosted'
  BY <1>2 DEF ConsoleActs, Promise!Console, PromiseInv, NonePosted
<1>3. CASE HandleLate
  BY <1>3, LateIs DEF PromiseInv, NonePosted
<1> QED
  BY <1>1, <1>2, <1>3 DEF Step

\* PromiseInv once the step is known by its effects.
KnownBy(acc, now, w) ==
    /\ Unique(acc)
    /\ \A c \in Calls : Learned(vendor, acc, now[c], w[c]) /\ Current(acc, now[c].question, w[c])

LEMMA PromiseStep ==
    ASSUME Listable, CallsTyped, CallsTyped', PromiseInv, [Next]_vars
    PROVE  PromiseInv'
<1>1. CASE UNCHANGED vars
  BY <1>1 DEF vars, PromiseInv, Alone, NonePosted
<1>2. CASE Next
  <2> DEFINE W == [c \in Calls |-> Witnessing(calls[c].question, witness[c],
                                              calls'[c].question, account')]
  <2>0. witness' = W /\ AccountTyped(account) /\ AccountTyped(account') /\ vendor \in Vendors
    BY <1>2 DEF Next, CallsTyped, AccountTyped
  <2>1. \A d \in Calls : W[d] = Witnessing(calls[d].question, witness[d], calls'[d].question, account')
    OBVIOUS
  <2>2. witness' = [c \in Calls |-> witness'[c]]
    BY <2>0
  <2> HIDE DEF W
  <2>3. \A d \in Calls : Current(account', calls'[d].question, W[d])
    BY <2>1, SeesIs
  <2>4. SUFFICES vendor' = vendor /\ KnownBy(account', calls', W) /\ Alone'
    <3>1. NonePosted'
      BY <1>2, StaysUnposted DEF Next
    <3> QED
      BY <2>0, <2>2, <3>1 DEF KnownBy, PromiseInv, Unique
  <2>5. ASSUME NEW c \in Calls, Begin(c) \/ Handle(c) \/ Receive(c) \/ HttpFaults(c)
        PROVE  vendor' = vendor /\ KnownBy(account', calls', W) /\ Alone'
    <3> DEFINE call == calls[c]
    <3>1. PICK then, after, since : then = calls'[c] /\ after = account' /\ since = W[c]
      OBVIOUS
    <3>2. /\ vendor' = vendor /\ calls' = [calls EXCEPT ![c] = then]
          /\ Advances(call, then, witness[c], after, since)
      BY <2>1, <2>5, <3>1, CallAdvances
    <3>3. /\ Typed(call) /\ Unique(account) /\ calls \in [Calls -> Call]
      BY DEF CallsTyped, Typed, PromiseInv
    <3>4. \A d \in Calls : calls'[d] = (IF d = c THEN then ELSE calls[d])
      BY <3>2, <3>3
    <3>5. after = account \/ (call.step # "none" /\ Touches(call, witness[c], account, after))
      BY <3>2 DEF Advances
    <3> HIDE DEF call
    <3>6. /\ Settles(account, after) /\ Unique(after)
          /\ after = account \/ call.step # "post" =>
                \A name \in Managed : \A j \in Ids : after[j] = name => account[j] = name
      BY <2>0, <3>3, <3>5, SettlesSame, TouchesSettle
    <3>7. Learned(vendor, after, then, since)
      BY <2>0, <3>2, NoCallIs, EndedLearned DEF Advances
    <3>8. ASSUME NEW d \in Calls, d # c
          PROVE  Learned(vendor, after, calls[d], W[d])
      <4>1. W[d] = Witnessing(calls[d].question, witness[d], calls[d].question, after)
        BY <2>1, <3>1, <3>4, <3>8
      <4>2. vendor = "upstash" /\ calls[d].step # "none" => after = account \/ call.step = "none"
        BY <3>8 DEF PromiseInv, Alone, call
      <4> QED
        BY <2>0, <3>1, <3>5, <3>6, <4>1, <4>2, OthersStay
    <3>9. KnownBy(account', calls', W)
      BY <2>3, <3>1, <3>4, <3>6, <3>7, <3>8 DEF KnownBy
    <3>10. ASSUME vendor = "upstash", NEW a \in Calls, NEW b \in Calls,
                  calls'[a].step # "none", calls'[b].step # "none"
           PROVE  a = b
      <4>1. CASE /\ call.step = "none"
                 /\ vendor = "upstash" => \A d \in Calls : calls[d].step = "none"
        BY <3>4, <3>10, <4>1
      <4>2. CASE call.step # "none"
        BY <3>4, <3>10, <4>2 DEF PromiseInv, Alone, call
      <4> QED
        BY <3>2, <4>1, <4>2 DEF Advances
    <3> QED
      BY <3>2, <3>9, <3>10 DEF Alone
  <2>6. ASSUME NEW i \in Ids, ConsoleActs(i)
        PROVE  vendor' = vendor /\ KnownBy(account', calls', W) /\ Alone'
    <3>1. calls' = calls /\ vendor' = vendor
      BY <2>6 DEF ConsoleActs
    <3>2. PICK after, x : /\ after = account' /\ x \in Others \cup {NoName}
                          /\ after = [account EXCEPT ![i] = x]
      BY <2>6, ConsoleIs
    <3>3. /\ Settles(account, after) /\ Unique(after)
          /\ \A name \in Managed : \A j \in Ids : after[j] = name => account[j] = name
      <4>1. /\ AccountTyped(account) /\ Unique(account) /\ x \in Others \cup {NoName}
            /\ \A j \in Ids : after[j] = IF j = i THEN x ELSE account[j]
        BY <2>0, <3>2 DEF PromiseInv, AccountTyped
      <4> QED
        BY <4>1, SettlesGone
    <3>4. ASSUME NEW d \in Calls PROVE Learned(vendor, after, calls[d], W[d])
      <4>1. W[d] = Witnessing(calls[d].question, witness[d], calls[d].question, after)
        BY <2>1, <3>1, <3>2
      <4> QED
        BY <2>0, <3>2, <3>3, <4>1, OthersStay
    <3>5. KnownBy(account', calls', W)
      BY <2>3, <3>1, <3>2, <3>3, <3>4 DEF KnownBy
    <3> QED
      BY <3>1, <3>5 DEF PromiseInv, Alone
  <2>7. CASE HandleLate
    <3>1. calls' = calls /\ vendor' = vendor
      BY <2>7, LateIs
    <3>2. PICK after : after = account'
      OBVIOUS
    <3>3. /\ Settles(account, after) /\ Unique(after)
          /\ vendor = "upstash" =>
                \A name \in Managed : \A j \in Ids : after[j] = name => account[j] = name
      BY <2>7, <3>2, LateSettles
    <3>4. ASSUME NEW d \in Calls PROVE Learned(vendor, after, calls[d], W[d])
      <4>1. W[d] = Witnessing(calls[d].question, witness[d], calls[d].question, after)
        BY <2>1, <3>1, <3>2
      <4> QED
        BY <2>0, <3>2, <3>3, <4>1, OthersStay
    <3>5. KnownBy(account', calls', W)
      BY <2>3, <3>1, <3>2, <3>3, <3>4 DEF KnownBy
    <3> QED
      BY <3>1, <3>5 DEF PromiseInv, Alone
  <2> QED
    BY <1>2, <2>5, <2>6, <2>7 DEF Next, Step
<1> QED
  BY <1>1, <1>2

-----------------------------------------------------------------------------
(* ProviderPromise is what everybody may rely on.                          *)

\* The instance speaks of the same questions, answers and moments.
LEMMA SameWords ==
    /\ Promise!Idle = Idle /\ Promise!NoAnswer = NoAnswer /\ Promise!Question = Question
    /\ Promise!Unhelpful = Unhelpful /\ Promise!NoId = NoId
    /\ \A reply, ids : Promise!Answer(reply, ids) = Answer(reply, ids)
    /\ \A x : Promise!Making(x) = Making(x) /\ Promise!Removing(x) = Removing(x)
  BY DEF Promise!Making, Making, Promise!Removing, Removing, Promise!Idle, Idle, Promise!NoId, NoId, Promise!NoAnswer, NoAnswer, Promise!Answer, Answer,
         Promise!Question, Question, Promise!Op, Op, Promise!Unhelpful, Unhelpful

LEMMA SameMoments ==
    \A before, seen, after, acc :
        Promise!Witnessing(before, seen, after, acc) = Witnessing(before, seen, after, acc)
  BY DEF Witnessing, Promise!Witnessing, Moment, Promise!Moment, Idle, Promise!Idle,
         Subject, Promise!Subject, NoId, Promise!NoId, Live, Promise!Live

\* asked and answers of the promise.
asked == [c \in Calls |-> calls[c].question]
answers == [c \in Calls |-> calls[c].answer]

LEMMA SameAnswers ==
    ASSUME NEW c \in Calls
    PROVE  Promise!MayAnswer(c) = Given(calls[c].question, witness[c])
<1>1. [d \in Calls |-> calls[d].question][c] = calls[c].question
  OBVIOUS
<1> QED
  BY <1>1 DEF Promise!MayAnswer, Given, Promise!Witnessed, Saw, Promise!NoId, NoId,
              Promise!Unhelpful, Unhelpful, Promise!Answer, Answer

LEMMA PromiseBegins == Init => Promise!Init
<1> SUFFICES ASSUME Init PROVE Promise!Init
  OBVIOUS
<1>1. \A c \in Calls : calls[c].question = Idle /\ calls[c].answer = NoAnswer
  BY DEF Init, NoCall
<1> QED
  BY <1>1, SameWords DEF Init, Promise!Init

\* What a call leaves with the vendor is what it was asked for.
LEMMA MayLeaveIt ==
    ASSUME CallsTyped, PromiseInv, NEW c \in Calls, Strays(calls[c], adrift')
    PROVE  Promise!Leaves(c)
<1> DEFINE call == calls[c]
<1>0. /\ Typed(call) /\ Reads(call, witness[c])
      /\ [d \in Calls |-> calls[d].question][c] = call.question
  BY DEF CallsTyped, Typed, PromiseInv, Learned
<1> HIDE DEF call
<1>1. CASE adrift' = adrift
  BY <1>1 DEF Promise!Leaves
<1>2. CASE call.step = "post" /\ adrift' = adrift \cup {Making(call.question.name)}
  <2>1. call.question.op = "create"
    BY <1>0, <1>2, WhoIsAt
  <2> QED
    BY <1>0, <1>2, <2>1, SameWords DEF Promise!Leaves, Promise!MayLeave
<1>3. CASE call.step = "delete" /\ adrift' = adrift \cup {Removing(call.id)}
  <2>1. call.question.op = "destroy" /\ call.id \in Ids
    BY <1>0, <1>3, WhoIsAt DEF Typed, Shape, OfOne
  <2>2. <<"carried", call.id>> \in witness[c]
    BY <1>0, <1>3, <2>1 DEF Reads
  <2>3. call.id \in Promise!Witnessed(c, "carried")
    BY <2>1, <2>2 DEF Promise!Witnessed
  <2> QED
    BY <1>0, <1>3, <2>1, <2>3, SameWords DEF Promise!Leaves, Promise!MayLeave
<1> QED
  BY <1>1, <1>2, <1>3 DEF Strays, call

\* Each step of a call is one that the promise allows, or changes nothing it
\* speaks of.
LEMMA CallAllowed ==
    ASSUME CallsTyped, NEW c \in Calls, NEW then, Typed(then), calls' = [calls EXCEPT ![c] = then],
           NEW after, after = account', NEW since, Advances(calls[c], then, witness[c], after, since),
           Promise!Leaves(c), calls[c].step = "none" \/ account' # account => adrift' = adrift
    PROVE  \/ account' = account /\ asked' = asked /\ answers' = answers /\ adrift' = adrift
           \/ Promise!Step
<1> DEFINE call == calls[c]
           Q == [d \in Calls |-> calls[d].question]
           A == [d \in Calls |-> calls[d].answer]
<1>1. Typed(call) /\ calls \in [Calls -> Call]
  BY DEF CallsTyped, Typed
<1>2. /\ [d \in Calls |-> calls'[d].question] = [Q EXCEPT ![c] = then.question]
      /\ [d \in Calls |-> calls'[d].answer] = [A EXCEPT ![c] = then.answer]
  BY <1>1
<1>3. call.question = Idle <=> call.step = "none"
  BY <1>1 DEF Typed, Shape
<1>4. then.answer = call.answer => [A EXCEPT ![c] = then.answer] = A
  OBVIOUS
<1>5. then.question = call.question => [Q EXCEPT ![c] = then.question] = Q
  OBVIOUS
<1>6. CASE /\ call.step = "none" /\ after = account
           /\ then.question \in Question /\ then.answer = NoAnswer
  <2>1. Promise!Ask(c)
    BY <1>2, <1>3, <1>6, SameWords DEF Promise!Ask, Promise!Open
  <2> QED
    BY <2>1 DEF Promise!Step
<1>7. CASE /\ call.step # "none" /\ after = account
           /\ \E answer \in Given(call.question, witness[c]) : then = Ended(answer)
  <2>1. PICK answer \in Promise!MayAnswer(c) : then = Ended(answer)
    BY <1>7, SameAnswers
  <2>2. then.question = Idle /\ then.answer = answer
    BY <2>1, EndedIs
  <2>3. Promise!End(c)
    BY <1>2, <1>3, <1>7, <2>1, <2>2, SameWords DEF Promise!End, Promise!Open
  <2> QED
    BY <2>3 DEF Promise!Step
<1>8. CASE call.step # "none" /\ after = account /\ then = NoCall
  <2>1. then.question = Idle /\ then.answer = call.answer
    BY <1>1, <1>8 DEF NoCall, Typed, Shape
  <2>2. Promise!Dies(c)
    BY <1>2, <1>3, <1>4, <1>8, <2>1, SameWords DEF Promise!Dies, Promise!Open
  <2> QED
    BY <2>2 DEF Promise!Step
<1>9. CASE /\ then.question = call.question /\ then.answer = call.answer
           /\ Touches(call, witness[c], account, after)
  <2>1. asked' = asked /\ answers' = answers
    BY <1>2, <1>4, <1>5, <1>9 DEF asked, answers
  <2>2. CASE after = account
    <3>1. CASE call.step = "none"
      BY <2>1, <2>2, <3>1
    <3>2. CASE call.step # "none"
      <4>1. Promise!AsksAgain(c)
        BY <1>3, <2>1, <2>2, <3>2, SameWords DEF Promise!AsksAgain, Promise!Open, asked, answers
      <4> QED
        BY <4>1 DEF Promise!Step
    <3> QED
      BY <3>1, <3>2
  <2>0. after # account => adrift' = adrift
    OBVIOUS
  <2>3. CASE /\ call.question.op = "create" /\ \A j \in Ids : account[j] # call.question.name
             /\ after # account
             /\ \E i \in Ids : account[i] = NoName
                               /\ after = [account EXCEPT ![i] = call.question.name]
    <3>1. PICK i \in Ids : account[i] = NoName
                           /\ account' = [account EXCEPT ![i] = call.question.name]
      BY <2>3
    <3>2. call.question.name \in Managed
      BY <1>1, <1>3, <2>3, OpenAsks DEF Idle
    <3>3. Promise!Appear(i)
      BY <2>0, <2>1, <2>3, <3>1, <3>2 DEF Promise!Appear, asked, answers
    <3> QED
      BY <3>3 DEF Promise!Step
  <2>4. CASE /\ call.question.op = "destroy" /\ call.id \in Ids
             /\ after # account
             /\ <<"carried", call.id>> \in witness[c]
             /\ after = [account EXCEPT ![call.id] = NoName]
    <3>1. call.id \in Promise!Witnessed(c, "carried")
      BY <2>4 DEF Promise!Witnessed
    <3>2. Promise!Disappear(call.id)
      BY <2>0, <2>1, <2>4, <3>1 DEF Promise!Disappear, asked, answers
    <3> QED
      BY <2>4, <3>2 DEF Promise!Step
  <2> QED
    BY <1>9, <2>2, <2>3, <2>4 DEF Touches
<1> QED
  BY <1>6, <1>7, <1>8, <1>9 DEF Advances

\* A request handled late is one the promise knows of.
LEMMA LateAllowed ==
    ASSUME Listable, CallsTyped, PromiseInv, HandleLate
    PROVE  Promise!Step
<1>1. asked' = asked /\ answers' = answers
  BY LateIs DEF asked, answers
<1>2. ASSUME NEW name \in Managed, NEW i \in Ids, Making(name) \in adrift, account[i] = NoName,
             vendor = "upstash" \/ \A j \in Ids : account[j] # name,
             account' = [account EXCEPT ![i] = name], adrift' = adrift
      PROVE  Promise!Step
  <2>1. \A j \in Ids : account[j] # name
    BY <1>2 DEF PromiseInv, NonePosted, Listable, CallsTyped
  <2>2. Promise!Appear(i)
    BY <1>1, <1>2, <2>1, SameWords DEF Promise!Appear, asked, answers
  <2> QED
    BY <2>2 DEF Promise!Step
<1>3. ASSUME NEW i \in Ids, Removing(i) \in adrift, adrift' = adrift \ {Removing(i)},
             account' = [account EXCEPT ![i] = NoName]
      PROVE  Promise!Step
  <2>1. Promise!Disappear(i)
    BY <1>1, <1>3, SameWords DEF Promise!Disappear, asked, answers
  <2> QED
    BY <2>1 DEF Promise!Step
<1> QED
  BY <1>2, <1>3, LateIs

LEMMA PromiseAllows ==
    ASSUME Listable, CallsTyped, CallsTyped', PromiseInv, [Next]_vars
    PROVE  [Promise!Next]_(Promise!vars)
<1>1. CASE UNCHANGED vars
  BY <1>1 DEF vars, Promise!vars
<1>2. CASE Next
  <2>1. witness' = [c \in Calls |-> Witnessing(calls[c].question, witness[c],
                                               calls'[c].question, account')]
    BY <1>2 DEF Next
  <2>2. Promise!Witness
    BY <2>1, SameMoments DEF Promise!Witness
  <2>3. CASE account' = account /\ asked' = asked /\ answers' = answers /\ adrift' = adrift
    <3>1. ASSUME NEW c \in Calls PROVE witness'[c] = witness[c]
      <4>1. calls'[c].question = calls[c].question
        BY <2>3 DEF asked
      <4>2. Current(account', calls[c].question, witness[c])
        BY <2>3 DEF PromiseInv
      <4>3. PICK since : since = Witnessing(calls[c].question, witness[c], calls'[c].question, account')
        OBVIOUS
      <4>4. since = witness[c]
        BY <4>1, <4>2, <4>3, SeesIs
      <4> QED
        BY <2>1, <4>3, <4>4
    <3>2. witness' = witness
      <4>1. witness = [c \in Calls |-> witness[c]]
        BY DEF PromiseInv
      <4>2. witness' = [c \in Calls |-> witness'[c]]
        BY <2>1
      <4> QED
        BY <3>1, <4>1, <4>2
    <3> QED
      BY <2>3, <3>2 DEF Promise!vars, asked, answers
  <2>4. CASE ~(account' = account /\ asked' = asked /\ answers' = answers /\ adrift' = adrift)
    <3>1. ASSUME NEW c \in Calls, Begin(c) \/ Handle(c) \/ Receive(c) \/ HttpFaults(c)
          PROVE  Promise!Step
      <4>1. PICK then, after, since :
               /\ then = calls'[c] /\ after = account'
               /\ since = Witnessing(calls[c].question, witness[c], then.question, after)
        OBVIOUS
      <4>2. Typed(then)
        BY <4>1 DEF CallsTyped, Typed
      <4>3. /\ calls' = [calls EXCEPT ![c] = then]
            /\ Advances(calls[c], then, witness[c], after, since)
        BY <3>1, <4>1, CallAdvances
      <4>4. Promise!Leaves(c) /\ (calls[c].step = "none" \/ account' # account => adrift' = adrift)
        BY <3>1, CallStrays, MayLeaveIt
      <4> QED
        BY <2>4, <4>1, <4>2, <4>3, <4>4, CallAllowed
    <3>2. ASSUME NEW i \in Ids, ConsoleActs(i) PROVE Promise!Step
      BY <3>2 DEF ConsoleActs, Promise!Step
    <3>3. ASSUME HandleLate PROVE Promise!Step
      BY <3>3, LateAllowed
    <3>4. Promise!Step
      BY <1>2, <3>1, <3>2, <3>3 DEF Next, Step
    <3>5. Promise!Next
      BY <2>2, <2>4, <3>4 DEF Promise!Next, asked, answers
    <3> QED
      BY <3>5
  <2> QED
    BY <2>3, <2>4
<1> QED
  BY <1>1, <1>2

\* What a provider call answers was the case at some moment of that call, whatever
\* others did in between, whatever replies were lost and whatever requests were
\* handled after their caller had given up; a second resource of one
\* name is never made, and nothing is destroyed that did not carry the name: neon.py,
\* upstash.py and cloudflare.py keep the promise of the Provider protocol of base.py.
THEOREM KeepsPromiseHolds == ASSUME Listable PROVE Spec => KeepsPromise
<1>1. CallsTyped /\ CallsTyped' /\ PromiseInv /\ [Next]_vars => PromiseInv'
  BY PromiseStep
<1>2. CallsTyped /\ CallsTyped' /\ PromiseInv /\ [Next]_vars => [Promise!Next]_(Promise!vars)
  BY PromiseAllows
<1> QED
  BY <1>1, <1>2, TypesAlways, PromiseStarts, PromiseBegins, PTL DEF Spec, KeepsPromise, Promise!Spec

\* "create" is idempotent: where a name can clash, or calls come one at a time, a
\* name of ours never names two resources (ensure_* in the three providers).
THEOREM OneResourceEachHolds == ASSUME Listable PROVE Spec => []OneResourceEach
<1>1. CallsTyped /\ CallsTyped' /\ PromiseInv /\ [Next]_vars => PromiseInv'
  BY PromiseStep
<1>2. PromiseInv => OneResourceEach
  BY DEF PromiseInv, Unique, OneResourceEach
<1> QED
  BY <1>1, <1>2, TypesAlways, PromiseStarts, PTL DEF Spec
=============================================================================
