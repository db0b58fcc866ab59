----------------------------- MODULE GateProofs ------------------------------
(***************************************************************************)
(* What stands between a request and its row, for every catalog, every     *)
(* request, every rule, every value and every validator of inputs: first   *)
(* the walk of the policy chain, whatever an expression comes to; then     *)
(* what the operations of the evaluator come to, and with it the ways to   *)
(* write one rule that mean the same, the rule about an optional input,    *)
(* and the agreement of the allowlist with the evaluator.                  *)
(*                                                                         *)
(* Expressions is a set of trees here, and ValueOf what the recursion of   *)
(* Expressions makes of them (Evaluates), so that the induction over a     *)
(* rule is an induction over the heights of its nodes.                     *)
(***************************************************************************)
EXTENDS RuleTrees, WellFoundedInduction, SequenceTheorems, TLAPS

Traces == {"error", "matched", "not_matched", "not_evaluated"}

Stops(i) == ~OutcomeOf(path.policy[i]).ok \/ OutcomeOf(path.policy[i]).value

\* Every rule that was tried and did not decide was passed.
PassedBefore(k) ==
    \A i \in 1..Len(traces) : i < k => ~Stops(i) /\ traces[i] = "not_matched"

EffectAt(k) == IF OutcomeOf(path.policy[k]).ok THEN path.policy[k].effect ELSE "deny"

\* As far as the walk has come: nothing has decided, or the first that stops has.
Walked ==
    \/ decision = NoDecision /\ PassedBefore(Len(traces) + 1)
    \/ /\ decision.rule \in 1..Len(traces) /\ Stops(decision.rule)
       /\ PassedBefore(decision.rule)
       /\ decision.effect = EffectAt(decision.rule)
       /\ traces[decision.rule] \in {"matched", "error"}
       /\ \A i \in 1..Len(traces) : i > decision.rule => traces[i] = "not_evaluated"

\* What policy is asked about is what was validated and clamped.
AskedAbout ==
    /\ ~Refused(Validation(path.inputs, Remaining))
    /\ inputs = Validation(path.inputs, Remaining).value
    /\ TtlIsValid /\ ttl = Clamp(path, Asked)
    /\ \E live \in Loads, hour \in Hours : context = Context(inputs, ttl, live, hour)

RowOf ==
    /\ decision # NoDecision
    /\ lease.inputs = inputs /\ lease.ttl = ttl /\ lease.rule = decision.rule
    /\ lease.state = [allow |-> "pending", deny |-> "rejected",
                      require_approval |-> "awaiting_approval"][decision.effect]

\* Steps of a request that a path serves.
Serving == {"served", "deciding", "answered"}

\* The request is one that arrives, the path one of the files: as it is, or let
\* in with its schema closed.
FromOutside ==
    /\ \E r \in DOMAIN Arrivals : request = Arrivals[r]
    /\ \E d \in DOMAIN Documents :
          /\ path.policy = Documents[d].policy
          /\ step = "file" => path = Documents[d]
          /\ step \in Serving =>
                d \in Served /\ path = [Documents[d] EXCEPT !.inputs = Closed(Documents[d].inputs)]

GateInv ==
    /\ {"policy", "inputs"} \subseteq DOMAIN path /\ IsChain(path.policy) /\ FromOutside
    /\ step \in Serving => EndsInDefault(path)
    /\ traces \in Seq(Traces) /\ Len(traces) <= Len(path.policy)
    /\ step \in {"file", "served"} => traces = <<>> /\ decision = NoDecision
    /\ step \in {"deciding", "answered"} => Walked /\ AskedAbout
    /\ step = "answered" => Len(traces) = Len(path.policy) /\ RowOf

LEMMA GateInit == Init => GateInv
<1> SUFFICES ASSUME Init PROVE GateInv
  OBVIOUS
<1>1. PICK d \in DOMAIN Documents : path = Documents[d]
  BY DEF Init
<1>2. {"policy", "inputs"} \subseteq DOMAIN path /\ IsChain(path.policy)
  BY <1>1, DocumentsAssumption
<1>3. FromOutside
  BY <1>1 DEF Init, FromOutside, Serving
<1>4. traces \in Seq(Traces) /\ Len(traces) = 0
  BY DEF Init
<1> QED
  BY <1>2, <1>3, <1>4 DEF Init, GateInv, IsChain, Serving

LEMMA LoadKeepsInv == GateInv /\ Load => GateInv'
<1> SUFFICES ASSUME GateInv, Load PROVE GateInv'
  OBVIOUS
<1>1. {"policy", "inputs"} \subseteq DOMAIN path' /\ path'.policy = path.policy
  BY DEF GateInv, Load
<1>2. step' \in {"served", "unserved"}
  BY DEF Load
<1>3. step' = "served" => EndsInDefault(path') /\ path'.inputs = Closed(path.inputs)
  BY <1>1, <1>2 DEF GateInv, Load, Loadable, EndsInDefault
<1>4. FromOutside'
  <2>1. PICK d \in DOMAIN Documents : path.policy = Documents[d].policy /\ path = Documents[d]
    BY DEF GateInv, Load, FromOutside
  <2>2. step' = "served" => d \in Served
    BY <2>1 DEF Load, Served
  <2> QED
    BY <1>1, <1>2, <1>3, <2>1, <2>2 DEF GateInv, Load, FromOutside, Serving
<1> QED
  BY <1>1, <1>2, <1>3, <1>4 DEF GateInv, Load, IsChain, Serving

LEMMA ReceiveKeepsInv == GateInv /\ Receive => GateInv'
<1> SUFFICES ASSUME GateInv, Receive PROVE GateInv'
  OBVIOUS
<1>1. step = "served" /\ UNCHANGED <<path, request, traces, decision, lease>>
  BY DEF Receive, Answer
<1>2. CASE \E outcome \in {"not_found", "invalid", "unavailable"} : Answer(outcome)
  <2>1. step' \notin Serving /\ step' # "file"
    BY <1>2 DEF Answer, Serving
  <2>2. FromOutside'
    BY <1>1, <2>1 DEF GateInv, FromOutside
  <2> QED
    BY <1>1, <2>1, <2>2 DEF GateInv, IsChain, Serving
<1>3. CASE /\ step' = "deciding"
           /\ ~Refused(Validation(path.inputs, Remaining))
           /\ inputs' = Validation(path.inputs, Remaining).value
           /\ TtlIsValid /\ ttl' = Clamp(path, Asked)
           /\ \E live \in Loads, hour \in Hours : context' = Context(inputs', ttl', live, hour)
  <2>1. Remaining' = Remaining /\ Asked' = Asked /\ TtlIsValid' = TtlIsValid
    BY <1>1 DEF Remaining, Asked, TtlIsValid, Embedded
  <2>2. \A live, hour : Context(inputs, ttl, live, hour)' = Context(inputs', ttl', live, hour)
    BY <1>1 DEF Context
  <2>3. AskedAbout'
    BY <1>1, <1>3, <2>1, <2>2 DEF AskedAbout
  <2>4. traces' = <<>> /\ decision' = NoDecision
    BY <1>1 DEF GateInv
  <2>5. Walked'
    BY <2>4 DEF Walked, PassedBefore
  <2>6. FromOutside'
    BY <1>1, <1>3 DEF GateInv, FromOutside, Serving
  <2> QED
    BY <1>1, <1>3, <2>3, <2>4, <2>5, <2>6 DEF GateInv, IsChain, EndsInDefault, Serving
<1> QED
  BY <1>2, <1>3 DEF Receive

\* The walk and the row leave what policy is asked about alone.
LEMMA AskedAboutStays ==
    ASSUME UNCHANGED <<path, request, inputs, ttl, context>>, AskedAbout
    PROVE  AskedAbout'
<1>1. Remaining' = Remaining /\ Asked' = Asked /\ TtlIsValid' = TtlIsValid
  BY DEF Remaining, Asked, TtlIsValid, Embedded
<1>2. \A live, hour : Context(inputs, ttl, live, hour)' = Context(inputs, ttl, live, hour)
  BY DEF Context
<1> QED
  BY <1>1, <1>2 DEF AskedAbout

LEMMA WalkKeepsInv == GateInv /\ Walk => GateInv'
<1> SUFFICES ASSUME GateInv, Walk PROVE GateInv'
  OBVIOUS
<1> PICK i \in Nat : i = Len(traces) + 1
  BY DEF GateInv
<1> DEFINE outcome == OutcomeOf(Rule)
<1>1. /\ step = "deciding" /\ i \in 1..Len(path.policy)
      /\ Rule = path.policy[i] /\ outcome = OutcomeOf(path.policy[i])
      /\ Len(path.policy) \in Nat /\ Len(traces) \in Nat /\ Walked
  BY DEF GateInv, Walk, AtRule, Rule, IsChain
<1>2. \E said \in Traces : \E decided : Traced(said, decided)
  BY DEF Walk, Broken, Match, Pass, LeaveOut, Traces
<1>3. /\ traces' \in Seq(Traces) /\ Len(traces') = i
      /\ \A j \in 1..Len(traces) : traces'[j] = traces[j]
  BY <1>2 DEF Traced, GateInv
<1>4. UNCHANGED <<path, request, step, inputs, ttl, context, lease>>
  BY <1>2 DEF Traced
<1>5. \A j : Stops(j)' <=> Stops(j)
  BY <1>4 DEF Stops, OutcomeOf
<1>6. \A j : EffectAt(j)' = EffectAt(j)
  BY <1>4 DEF EffectAt, OutcomeOf
<1>7. Walked'
  <2> USE <1>1, <1>3, <1>5, <1>6
  <2>1. ~outcome.ok => ~outcome.value
    BY DEF OutcomeOf, Outcome, Judged
  <2>2. CASE Broken(i, outcome)
    <3>1. decision' = Deny(i) /\ traces'[i] = "error" /\ Stops(i)
      BY <2>2 DEF Broken, Traced, GateInv, Stops
    <3>2. PassedBefore(i)'
      BY <2>2 DEF Broken, Open, Walked, PassedBefore, NoDecision
    <3> QED
      BY <2>2, <3>1, <3>2 DEF Walked, Deny, EffectAt, Broken
  <2>3. CASE Match(i, outcome)
    <3>1. decision' = Decide(i, Rule) /\ traces'[i] = "matched" /\ Stops(i)
      BY <2>3 DEF Match, Traced, GateInv, Stops
    <3>2. PassedBefore(i)'
      BY <2>3 DEF Match, Open, Walked, PassedBefore, NoDecision
    <3> QED
      BY <2>1, <2>3, <3>1, <3>2 DEF Walked, Decide, EffectAt, Match
  <2>4. CASE Pass(i, outcome)
    <3>1. decision' = NoDecision /\ traces'[i] = "not_matched" /\ ~Stops(i)
      BY <2>4 DEF Pass, Traced, GateInv, Stops
    <3>2. PassedBefore(i + 1)'
      BY <2>4, <3>1 DEF Pass, Open, Walked, PassedBefore, NoDecision
    <3> QED
      BY <3>1, <3>2 DEF Walked
  <2>5. CASE LeaveOut(i, outcome)
    <3>1. decision' = decision /\ decision # NoDecision /\ traces'[i] = "not_evaluated"
      BY <2>5 DEF LeaveOut, Traced, GateInv, Open
    <3> QED
      BY <3>1 DEF Walked, PassedBefore
  <2> QED
    BY <2>2, <2>3, <2>4, <2>5 DEF Walk
<1> QED
  <2>1. AskedAbout'
    BY <1>1, <1>4, AskedAboutStays DEF GateInv
  <2> QED
    BY <1>1, <1>3, <1>4, <1>7, <2>1 DEF GateInv, IsChain, FromOutside, EndsInDefault, Serving

LEMMA ApplyKeepsInv == GateInv /\ Apply => GateInv'
<1> SUFFICES ASSUME GateInv, Apply PROVE GateInv'
  OBVIOUS
<1>1. UNCHANGED <<path, request, inputs, ttl, context, traces, decision>>
  BY DEF Apply
<1>2. decision # NoDecision
  <2>1. Len(traces) \in Nat /\ Len(traces) = Len(path.policy) /\ Len(traces) # 0
    BY DEF GateInv, Apply, Serving, EndsInDefault, IsChain
  <2>2. Stops(Len(traces))
    BY <2>1 DEF GateInv, Apply, Serving, EndsInDefault, Last, Stops, OutcomeOf
  <2> QED
    BY <2>1, <2>2 DEF GateInv, Apply, Walked, PassedBefore, NoDecision
<1>3. decision.effect \in EFFECTS
  BY <1>2 DEF GateInv, Apply, Walked, EffectAt, IsChain, EFFECTS
<1>4. RowOf'
  BY <1>1, <1>2, <1>3 DEF Apply, RowOf, Row, EFFECTS
<1>5. Walked'
  BY <1>1 DEF GateInv, Apply, Walked, PassedBefore, Stops, EffectAt, OutcomeOf
<1>6. AskedAbout'
  BY <1>1, AskedAboutStays DEF GateInv, Apply
<1> QED
  BY <1>1, <1>4, <1>5, <1>6 DEF GateInv, IsChain, FromOutside, EndsInDefault, Apply, Serving

\* GateInv, the invariant behind the theorems below: the walk is where the chain
\* and the request have brought it, and the row is what the walk decided.
THEOREM GateInvariance == Spec => []GateInv
<1>1. GateInv /\ [Next]_vars => GateInv'
  <2> SUFFICES ASSUME GateInv, [Next]_vars PROVE GateInv'
    OBVIOUS
  <2>1. CASE UNCHANGED vars
    <3>1. step \in {"deciding", "answered"} => AskedAbout'
      BY <2>1, AskedAboutStays DEF vars, GateInv
    <3> QED
      BY <2>1, <3>1 DEF vars, GateInv, IsChain, FromOutside, EndsInDefault, Walked, PassedBefore,
                        Stops, EffectAt, OutcomeOf, RowOf
  <2> QED
    BY <2>1, LoadKeepsInv, ReceiveKeepsInv, WalkKeepsInv, ApplyKeepsInv DEF Next
<1> QED
  BY <1>1, GateInit, PTL DEF Spec

-----------------------------------------------------------------------------

\* The rule that decided is the first that stops, among all of them.
LEMMA DecidedByFirst ==
    ASSUME GateInv, Answered
    PROVE  LET outcomes == [i \in DOMAIN path.policy |-> OutcomeOf(path.policy[i])]
           IN /\ decision.rule \in DOMAIN path.policy
              /\ FirstOf({i \in DOMAIN outcomes : ~outcomes[i].ok \/ outcomes[i].value})
                    = decision.rule
<1> DEFINE outcomes == [i \in DOMAIN path.policy |-> OutcomeOf(path.policy[i])]
           stops == {i \in DOMAIN outcomes : ~outcomes[i].ok \/ outcomes[i].value}
<1>1. /\ Len(traces) \in Nat /\ Len(traces) = Len(path.policy) /\ Walked
      /\ DOMAIN path.policy = 1..Len(traces)
  BY DEF GateInv, Answered, IsChain
<1>2. decision # NoDecision
  BY DEF GateInv, Answered, RowOf, NoDecision
<1>3. /\ decision.rule \in 1..Len(traces) /\ Stops(decision.rule)
      /\ \A i \in 1..Len(traces) : i < decision.rule => ~Stops(i)
  BY <1>1, <1>2 DEF Walked, PassedBefore
<1>4. \A i : i \in stops <=> i \in 1..Len(traces) /\ Stops(i)
  BY <1>1 DEF Stops
<1> HIDE DEF stops
<1>5. \A i \in stops : i \in Nat
  BY <1>1, <1>4
<1>6. decision.rule \in stops /\ \A i \in stops : decision.rule <= i
  BY <1>1, <1>3, <1>4
<1>7. FirstOf(stops) = decision.rule
  BY <1>5, <1>6 DEF FirstOf
<1> QED
  BY <1>1, <1>3, <1>7 DEF stops

\* FirstMatchDecides: the chain means what its author reads, whatever the
\* evaluator makes of an expression and whatever chain a file has.
THEOREM FirstMatchDecidesHolds == Spec => []FirstMatchDecides
<1>1. GateInv => FirstMatchDecides
  <2> SUFFICES ASSUME GateInv, Answered
               PROVE  RowFollows([i \in DOMAIN path.policy |-> OutcomeOf(path.policy[i])])
    BY DEF FirstMatchDecides
  <2> DEFINE outcomes == [i \in DOMAIN path.policy |-> OutcomeOf(path.policy[i])]
             first == FirstOf({i \in DOMAIN outcomes : ~outcomes[i].ok \/ outcomes[i].value})
  <2>1. first = decision.rule /\ decision.rule \in DOMAIN path.policy
    BY DecidedByFirst
  <2>2. outcomes[decision.rule] = OutcomeOf(path.policy[decision.rule])
    BY <2>1
  <2>3. RowOf /\ decision.effect = EffectAt(decision.rule)
    BY DEF GateInv, Answered, RowOf, Walked
  <2> HIDE DEF first, outcomes
  <2>4. RowFollows(outcomes)
    BY <2>1, <2>2, <2>3 DEF RowFollows, RowOf, EffectAt, first
  <2> QED
    BY <2>4 DEF outcomes
<1> QED
  BY <1>1, GateInvariance, PTL

\* TraceTellsWhy: the story the dashboard shows is the story of the row.
THEOREM TraceTellsWhyHolds == Spec => []TraceTellsWhy
<1>1. GateInv => TraceTellsWhy
  <2> SUFFICES ASSUME GateInv, Answered
               PROVE  \A i \in DOMAIN traces :
                        CASE i < lease.rule -> traces[i] = "not_matched"
                          [] i = lease.rule -> traces[i] \in {"matched", "error"}
                          [] i > lease.rule -> traces[i] = "not_evaluated"
    BY DEF TraceTellsWhy
  <2> TAKE i \in DOMAIN traces
  <2>1. /\ lease.rule = decision.rule /\ i \in Nat /\ lease.rule \in Nat
        /\ i < lease.rule => traces[i] = "not_matched"
        /\ i = lease.rule => traces[i] \in {"matched", "error"}
        /\ i > lease.rule => traces[i] = "not_evaluated"
    BY DEF GateInv, Answered, RowOf, Walked, PassedBefore
  <2>2. CASE i < lease.rule
    BY <2>1, <2>2
  <2>3. CASE i = lease.rule
    BY <2>1, <2>3
  <2>4. CASE i > lease.rule
    BY <2>1, <2>4
  <2>5. i < lease.rule \/ i = lease.rule \/ i > lease.rule
    BY <2>1
  <2> QED
    BY <2>2, <2>3, <2>4, <2>5
<1> QED
  BY <1>1, GateInvariance, PTL

\* What a context says of the inputs and the duration it was made from.
LEMMA ContextTells ==
    ASSUME NEW values, NEW seconds, NEW live, NEW hour
    PROVE  /\ "input" \in DOMAIN Context(values, seconds, live, hour)
           /\ Context(values, seconds, live, hour)["input"] = values
           /\ Context(values, seconds, live, hour)["ttl_seconds"].val = seconds
  BY DEF Context, Whole

\* PolicySawTheRow: what is granted is what policy was asked about.
THEOREM PolicySawTheRowHolds == Spec => []PolicySawTheRow
<1>1. GateInv => PolicySawTheRow
  BY ContextTells DEF GateInv, PolicySawTheRow, Answered, RowOf, AskedAbout
<1> QED
  BY <1>1, GateInvariance, PTL

-----------------------------------------------------------------------------
\* What the operations of the evaluator come to.

LEMMA FirstExists ==
    ASSUME NEW numbers \in SUBSET Nat, numbers # {}
    PROVE  FirstOf(numbers) \in numbers /\ \A j \in numbers : FirstOf(numbers) <= j
<1>1. PICK n \in numbers : \A j \in numbers : <<j, n>> \notin OpToRel(<, Nat)
  BY NatLessThanWellFounded, WFMin
<1>2. ASSUME NEW j \in numbers PROVE n <= j
  <2>1. j \in Nat /\ n \in Nat
    OBVIOUS
  <2>2. <<j, n>> \in Nat \X Nat /\ <<j, n>>[1] = j /\ <<j, n>>[2] = n
    BY <2>1
  <2>3. ~(j < n)
    BY <1>1, <2>2 DEF OpToRel
  <2> QED
    BY <2>1, <2>3
<1> QED
  BY <1>1, <1>2 DEF FirstOf

\* `not` of a value that may be an error.
Inverted(x) == IF IsError(x) THEN x ELSE Unary("not", x)

LEMMA BoolCases ==
    ASSUME NEW x
    PROVE  /\ IsBool(x) <=> x = Bool(TRUE) \/ x = Bool(FALSE)
           /\ IsBool(x) => ~IsError(x)
           /\ ~IsBool(Failure) /\ IsError(Failure)
           /\ Bool(TRUE) # Bool(FALSE)
           /\ Bool(TRUE).val = TRUE /\ Bool(FALSE).val = FALSE
  BY DEF IsError, IsBool, Bool, Failure, Raised

LEMMA InvertedCases ==
    ASSUME NEW x
    PROVE  /\ x = Bool(TRUE) => Inverted(x) = Bool(FALSE)
           /\ x = Bool(FALSE) => Inverted(x) = Bool(TRUE)
           /\ IsError(x) => Inverted(x) = x
           /\ ~IsError(x) /\ ~IsBool(x) => Inverted(x) = Failure
<1>1. CASE x = Bool(TRUE)
  BY <1>1, BoolCases DEF Inverted, Unary, Bool
<1>2. CASE x = Bool(FALSE)
  BY <1>2, BoolCases DEF Inverted, Unary, Bool
<1>3. CASE ~IsBool(x)
  BY <1>3, BoolCases DEF Inverted, Unary
<1> QED
  BY <1>1, <1>2, <1>3, BoolCases

\* Both are errors, or both the same bool.
Alike(x, y) == (IsError(x) /\ IsError(y)) \/ (IsBool(x) /\ x = y)

LEMMA DualConnection ==
    ASSUME NEW op \in {"and", "or"}, NEW values, DOMAIN values \in SUBSET Nat,
           NEW negated, DOMAIN negated = DOMAIN values,
           \A i \in DOMAIN values : negated[i] = Inverted(values[i])
    PROVE  Alike(Connect(op, values), Inverted(Connect(Dual(op), negated)))
<1> DEFINE dual == Dual(op)
           Ends(x, o) == IsError(x) \/ ~IsBool(x) \/ x.val = (o = "or")
           ends == {i \in DOMAIN values : Ends(values[i], op)}
           dualEnds == {i \in DOMAIN negated : Ends(negated[i], dual)}
           x == values[FirstOf(ends)]
           y == negated[FirstOf(ends)]
           left == Connect(op, values)
           right == Connect(dual, negated)
<1> USE DEF Dual
<1>1. \A v : Ends(v, op) <=> Ends(Inverted(v), dual)
  <2> TAKE v
  <2>1. CASE v = Bool(TRUE) \/ v = Bool(FALSE)
    BY <2>1, BoolCases, InvertedCases
  <2>2. CASE ~IsBool(v)
    BY <2>2, BoolCases, InvertedCases
  <2> QED
    BY <2>1, <2>2, BoolCases
<1>2. ends = dualEnds
  BY <1>1
<1>3. left = IF ends = {} THEN Bool(op = "and") ELSE IF IsError(x) \/ IsBool(x) THEN x ELSE Failure
  BY DEF Connect
<1>4. right = IF ends = {} THEN Bool(dual = "and")
              ELSE IF IsError(y) \/ IsBool(y) THEN y ELSE Failure
  BY <1>2 DEF Connect
<1>5. ends # {} => FirstOf(ends) \in DOMAIN values
  BY FirstExists
<1>6. ends # {} => y = Inverted(x)
  BY <1>5
<1> HIDE DEF left, right, ends, x, y, Ends
<1>7. Alike(left, Inverted(right))
  <2>1. CASE ends = {} /\ op = "and"
    BY <1>3, <1>4, <2>1, BoolCases, InvertedCases DEF Alike
  <2>2. CASE ends = {} /\ op = "or"
    BY <1>3, <1>4, <2>2, BoolCases, InvertedCases DEF Alike
  <2>3. CASE ends # {} /\ ~IsBool(x)
    BY <1>3, <1>4, <1>6, <2>3, BoolCases, InvertedCases DEF Alike
  <2>4. CASE ends # {} /\ IsBool(x)
    BY <1>3, <1>4, <1>6, <2>4, BoolCases, InvertedCases DEF Alike
  <2> QED
    BY <2>1, <2>2, <2>3, <2>4
<1> QED
  BY <1>7 DEF left, right

\* Membership and every comparison come to an error or a bool.
Verdicts == {Failure, Bool(TRUE), Bool(FALSE)}

LEMMA VerdictCases ==
    /\ Failure \in Verdicts /\ \A b \in BOOLEAN : Bool(b) \in Verdicts
    /\ \A x \in Verdicts : IsError(x) \/ IsBool(x)
  BY BoolCases DEF Verdicts

LEMMA IsInVerdict ==
    ASSUME NEW container, NEW needle
    PROVE  IsIn(container, needle) \in Verdicts
<1>1. CASE container.type = "map"
  <2>1. IsIn(container, needle) =
            IF HasHash(needle) THEN Bool(IsText(needle) /\ needle.val \in DOMAIN container.val)
                               ELSE Failure
    BY <1>1 DEF IsIn, IsText, IsCollection
  <2>2. (IsText(needle) /\ needle.val \in DOMAIN container.val) \in BOOLEAN
    OBVIOUS
  <2> QED
    BY <2>1, <2>2, VerdictCases
<1>2. CASE container.type # "map" /\ IsText(container)
  <2>1. IsIn(container, needle) =
            IF IsText(needle) THEN Bool(Within(Spelling[needle.val], Spelling[container.val]))
                              ELSE Failure
    BY <1>2 DEF IsIn, IsText, IsCollection
  <2>2. Within(Spelling[needle.val], Spelling[container.val]) \in BOOLEAN
    BY DEF Within
  <2> QED
    BY <2>1, <2>2, VerdictCases
<1>3. CASE ~(container.type = "map") /\ ~IsText(container) /\ IsCollection(container)
  <2>1. IsIn(container, needle) = Bool(Has(container, needle))
    BY <1>3 DEF IsIn
  <2>2. Has(container, needle) \in BOOLEAN
    BY DEF Has
  <2> QED
    BY <2>1, <2>2, VerdictCases
<1>4. CASE ~(container.type = "map") /\ ~IsText(container) /\ ~IsCollection(container)
  BY <1>4, VerdictCases DEF IsIn
<1> QED
  BY <1>1, <1>2, <1>3, <1>4

LEMMA CompareVerdict ==
    ASSUME NEW op \in Comparisons, NEW x, NEW y
    PROVE  Compare(op, x, y) \in Verdicts
<1>1. CASE op \in {"==", "!="}
  <2>1. Compare(op, x, y) = Bool(Equal(x, y) = (op = "=="))
    BY <1>1 DEF Compare
  <2>2. (Equal(x, y) = (op = "==")) \in BOOLEAN
    OBVIOUS
  <2> QED
    BY <2>1, <2>2, VerdictCases
<1>2. CASE op = "in"
  BY <1>2, IsInVerdict DEF Compare
<1>3. CASE op = "not in"
  <2>1. Compare(op, x, y) = Negation(IsIn(y, x))
    BY <1>3, Zenon DEF Compare
  <2>2. Negation(IsIn(y, x)) \in Verdicts
    <3>1. (~IsIn(y, x).val) \in BOOLEAN
      OBVIOUS
    <3> QED
      BY <3>1, IsInVerdict, VerdictCases DEF Negation
  <2> QED
    BY <2>1, <2>2, Zenon
<1>4. CASE op \in {"<", "<=", ">", ">="}
  <2>1. Compare(op, x, y) = IF Ordering(x, y) = {} THEN Failure
                            ELSE Bool(Ordering(x, y) \subseteq Admitted(op))
    BY <1>4 DEF Compare
  <2>2. (Ordering(x, y) \subseteq Admitted(op)) \in BOOLEAN
    OBVIOUS
  <2> QED
    BY <2>1, <2>2, VerdictCases
<1> QED
  BY <1>1, <1>2, <1>3, <1>4, Zenon DEF Comparisons

LEMMA CompareCases ==
    ASSUME NEW op, NEW x, NEW y
    PROVE  IsError(Compare(op, x, y)) \/ IsBool(Compare(op, x, y))
<1>1. CASE op \in Comparisons
  BY <1>1, CompareVerdict, VerdictCases
<1>2. CASE op \notin Comparisons
  <2>1. Compare(op, x, y) = Internal
    BY <1>2, Zenon DEF Compare, Comparisons
  <2>2. IsError(Internal)
    BY DEF IsError, Internal, Raised
  <2> QED
    BY <2>1, <2>2
<1> QED
  BY <1>1, <1>2

LEMMA LinkCases ==
    ASSUME NEW op, NEW x, NEW y
    PROVE  IsError(Link(op, x, y)) \/ IsBool(Link(op, x, y))
  BY CompareCases DEF Link

\* The chain of comparisons is the conjunction of its links.
LEMMA SettledIsConjunction ==
    ASSUME NEW n \in Nat, n # 0, NEW links, DOMAIN links = 1..n, Len(links) = n,
           \A i \in 1..n : IsError(links[i]) \/ IsBool(links[i])
    PROVE  Alike(Settled(links), Connect("and", links))
<1> DEFINE Ends(x) == IsError(x) \/ ~IsBool(x) \/ x.val = ("and" = "or")
           ends == {i \in DOMAIN links : Ends(links[i])}
           stops == {i \in DOMAIN links : IsError(links[i]) \/ ~links[i].val}
           x == links[FirstOf(ends)]
           left == Settled(links)
           right == Connect("and", links)
<1>1. \A i \in 1..n : Ends(links[i]) <=> IsError(links[i]) \/ ~links[i].val
  BY BoolCases
<1>2. ends = stops
  BY <1>1
<1>3. left = links[IF ends = {} THEN n ELSE FirstOf(ends)]
  BY <1>2 DEF Settled
<1>4. right = IF ends = {} THEN Bool("and" = "and")
              ELSE IF IsError(x) \/ IsBool(x) THEN x ELSE Failure
  BY DEF Connect
<1>5. ends # {} => FirstOf(ends) \in ends
  <2>1. ends \in SUBSET Nat
    OBVIOUS
  <2> QED
    BY <2>1, FirstExists
<1>6. ASSUME ends = {} PROVE links[n] = Bool(TRUE)
  <2>1. n \in DOMAIN links /\ ~Ends(links[n])
    BY <1>6
  <2> QED
    BY <2>1, BoolCases
<1>7. ASSUME ends # {} PROVE IsError(x) \/ IsBool(x)
  BY <1>5, <1>7
<1> HIDE DEF left, right, ends, x
<1>8. Alike(left, right)
  <2>1. CASE ends = {}
    BY <1>3, <1>4, <1>6, <2>1, BoolCases DEF Alike
  <2>2. CASE ends # {}
    BY <1>3, <1>4, <1>7, <2>2 DEF Alike, x
  <2> QED
    BY <2>1, <2>2
<1> QED
  BY <1>8 DEF left, right

-----------------------------------------------------------------------------

LEMMA ValueOfNot ==
    ASSUME NEW trees, Evaluates(trees), NEW e, Not(e) \in trees, NEW facts
    PROVE  ValueOf(Not(e), facts) = Inverted(ValueOf(e, facts))
<1> DEFINE values == ValuesBelow(Not(e), facts)
           errors == {i \in DOMAIN values : IsError(values[i])}
<1>1. Children(Not(e)) = <<e>>
  BY DEF Not, Children
<1>2. DOMAIN values = {1} /\ values[1] = ValueOf(e, facts)
  BY <1>1 DEF ValuesBelow
<1>3. ValueOf(Not(e), facts) = Combine(Not(e), values)
  BY DEF Evaluates, Visit, Not
<1>4. Combine(Not(e), values) = IF errors # {} THEN values[FirstOf(errors)]
                                ELSE Unary("not", values[1])
  BY DEF Combine, Not
<1>5. CASE IsError(ValueOf(e, facts))
  <2>1. errors = {1}
    BY <1>2, <1>5
  <2>2. FirstOf({1}) = 1
    BY DEF FirstOf
  <2> HIDE DEF values, errors
  <2> QED
    BY <1>2, <1>3, <1>4, <1>5, <2>1, <2>2 DEF Inverted
<1>6. CASE ~IsError(ValueOf(e, facts))
  <2>1. errors = {}
    BY <1>2, <1>6
  <2> HIDE DEF values, errors
  <2> QED
    BY <1>2, <1>3, <1>4, <1>6, <2>1 DEF Inverted
<1> QED
  BY <1>5, <1>6

LEMMA ValueOfConnection ==
    ASSUME NEW trees, Evaluates(trees), NEW op, NEW es, Connection(op, es) \in trees, NEW facts
    PROVE  ValueOf(Connection(op, es), facts) = Connect(op, [i \in DOMAIN es |-> ValueOf(es[i], facts)])
<1>1. Children(Connection(op, es)) = es
  BY DEF Connection, Children
<1>2. ValuesBelow(Connection(op, es), facts) = [i \in DOMAIN es |-> ValueOf(es[i], facts)]
  BY <1>1 DEF ValuesBelow
<1> QED
  BY <1>2 DEF Evaluates, Visit, Combine, Connection

LEMMA ValueOfCompare ==
    ASSUME NEW trees, Evaluates(trees), NEW e \in trees, e.node = "compare", NEW facts
    PROVE  ValueOf(e, facts) =
              LET operands == <<e.left>> \o e.comparators
              IN Chain(e.ops, [i \in DOMAIN operands |-> ValueOf(operands[i], facts)])
<1>1. Children(e) = <<e.left>> \o e.comparators
  BY DEF Children
<1> QED
  BY <1>1 DEF Evaluates, Visit, Combine, ValuesBelow

\* A sequence with one more in front.
LEMMA Operands ==
    ASSUME NEW S, NEW x, NEW ys \in Seq(S)
    PROVE  LET operands == <<x>> \o ys
           IN /\ DOMAIN operands = 1..Len(ys) + 1 /\ operands[1] = x
              /\ \A i \in 1..Len(ys) : operands[i + 1] = ys[i]
<1>1. <<x>> \in Seq(S \cup {x}) /\ ys \in Seq(S \cup {x}) /\ Len(<<x>>) = 1 /\ <<x>>[1] = x
  OBVIOUS
<1>2. Len(ys) \in Nat
  OBVIOUS
<1>3. /\ <<x>> \o ys \in Seq(S \cup {x}) /\ Len(<<x>> \o ys) = 1 + Len(ys)
      /\ \A i \in 1..1 + Len(ys) :
            (<<x>> \o ys)[i] = IF i <= 1 THEN <<x>>[i] ELSE ys[i - 1]
  BY <1>1, ConcatProperties
<1>4. DOMAIN (<<x>> \o ys) = 1..Len(ys) + 1
  BY <1>2, <1>3
<1>5. (<<x>> \o ys)[1] = x
  BY <1>1, <1>2, <1>3
<1>6. ASSUME NEW i \in 1..Len(ys) PROVE (<<x>> \o ys)[i + 1] = ys[i]
  <2>1. i + 1 \in 1..1 + Len(ys) /\ ~(i + 1 <= 1) /\ i + 1 - 1 = i
    BY <1>2
  <2> QED
    BY <1>3, <2>1
<1> QED
  BY <1>4, <1>5, <1>6

LEMMA ValueOfOneLink ==
    ASSUME NEW trees, IsForest(trees), Evaluates(trees), NEW e \in trees, e.node = "compare",
           Len(e.ops) = 1, NEW facts
    PROVE  /\ e.comparators[1] \in trees
           /\ ValueOf(e, facts) =
                  Link(e.ops[1], ValueOf(e.left, facts), ValueOf(e.comparators[1], facts))
<1> DEFINE operands == <<e.left>> \o e.comparators
           values == [i \in DOMAIN operands |-> ValueOf(operands[i], facts)]
           links == [i \in DOMAIN e.ops |-> Link(e.ops[i], values[i], values[i + 1])]
           ends == {i \in DOMAIN links : IsError(links[i]) \/ ~links[i].val}
<1>1. e.comparators \in Seq(trees) /\ Len(e.comparators) = 1 /\ DOMAIN e.ops = {1}
  BY DEF IsForest
<1>2. e.comparators[1] \in trees
  BY <1>1
<1>3. values[1] = ValueOf(e.left, facts) /\ values[2] = ValueOf(e.comparators[1], facts)
  <2>1. DOMAIN operands = 1..2 /\ operands[1] = e.left /\ operands[2] = e.comparators[1]
    BY <1>1, Operands
  <2> HIDE DEF operands
  <2> QED
    BY <2>1
<1>4. /\ DOMAIN links = {1} /\ Len(links) = 1
      /\ links[1] = Link(e.ops[1], ValueOf(e.left, facts), ValueOf(e.comparators[1], facts))
  BY <1>1, <1>3
<1>5. ValueOf(e, facts) = Settled(links)
  BY <1>1, ValueOfCompare DEF Chain
<1>6. ends = {} \/ ends = {1}
  BY <1>4
<1>7. FirstOf({1}) = 1
  BY DEF FirstOf
<1>8. Settled(links) = links[IF ends = {} THEN Len(links) ELSE FirstOf(ends)]
  BY DEF Settled
<1> HIDE DEF links, ends
<1> QED
  BY <1>2, <1>4, <1>5, <1>6, <1>7, <1>8

LEMMA ValueOfComparison ==
    ASSUME NEW trees, IsForest(trees), Evaluates(trees), NEW x, NEW op, NEW y,
           Comparison(x, op, y) \in trees, NEW facts
    PROVE  ValueOf(Comparison(x, op, y), facts) = Link(op, ValueOf(x, facts), ValueOf(y, facts))
<1> DEFINE e == Comparison(x, op, y)
<1>1. /\ e.left = x /\ e.comparators[1] = y /\ e.ops[1] = op
      /\ e.node = "compare" /\ Len(e.ops) = 1
  BY DEF Comparison
<1> HIDE DEF e
<1>2. e \in trees
  BY DEF e
<1>3. ValueOf(e, facts) = Link(e.ops[1], ValueOf(e.left, facts), ValueOf(e.comparators[1], facts))
  BY <1>1, <1>2, ValueOfOneLink
<1> QED
  BY <1>1, <1>3 DEF e

-----------------------------------------------------------------------------
\* The ways to write an expression that a reader takes to mean the same.

LEMMA DeMorgan ==
    ASSUME NEW trees, IsForest(trees), Evaluates(trees), NEW e \in trees, e.node = "bool",
           NEW other \in trees, NEW facts,
           other = Not(Connection(Dual(e.op), [i \in DOMAIN e.values |-> Not(e.values[i])]))
    PROVE  Alike(ValueOf(e, facts), ValueOf(other, facts))
<1> DEFINE nots == [i \in DOMAIN e.values |-> Not(e.values[i])]
           values == [i \in DOMAIN e.values |-> ValueOf(e.values[i], facts)]
           negated == [i \in DOMAIN nots |-> ValueOf(nots[i], facts)]
<1>1. Connection(Dual(e.op), nots) \in trees
  BY DEF IsForest, Not
<1>2. nots \in Seq(trees)
  BY <1>1 DEF IsForest, Connection
<1>3. DOMAIN values \in SUBSET Nat /\ DOMAIN negated = DOMAIN values
  BY DEF IsForest
<1>4. ASSUME NEW i \in DOMAIN values PROVE negated[i] = Inverted(values[i])
  <2>1. Not(e.values[i]) \in trees
    BY <1>2
  <2> QED
    BY <2>1, ValueOfNot
<1>5. ValueOf(e, facts) = Connect(e.op, values)
  <2>1. Children(e) = e.values
    BY DEF Children
  <2>2. ValuesBelow(e, facts) = values
    BY <2>1 DEF ValuesBelow
  <2> QED
    BY <2>2 DEF Evaluates, Visit, Combine
<1>6. ValueOf(other, facts) = Inverted(Connect(Dual(e.op), negated))
  BY <1>1, ValueOfNot, ValueOfConnection
<1>7. e.op \in {"and", "or"}
  BY DEF IsForest
<1> HIDE DEF nots, values, negated
<1> QED
  BY <1>3, <1>4, <1>5, <1>6, <1>7, DualConnection

LEMMA ChainsAreConjunctions ==
    ASSUME NEW trees, IsForest(trees), Evaluates(trees), NEW e \in trees, e.node = "compare",
           NEW operands, operands = <<e.left>> \o e.comparators,
           NEW pairs, DOMAIN pairs = DOMAIN e.ops,
           \A i \in DOMAIN e.ops : pairs[i] = Comparison(operands[i], e.ops[i], operands[i + 1]),
           Len(e.ops) > 1, Conjunction(pairs) \in trees, NEW facts
    PROVE  Alike(ValueOf(e, facts), ValueOf(Conjunction(pairs), facts))
<1> DEFINE values == [i \in DOMAIN operands |-> ValueOf(operands[i], facts)]
           links == [i \in DOMAIN e.ops |-> Link(e.ops[i], values[i], values[i + 1])]
           n == Len(e.ops)
<1>1. /\ n \in Nat /\ n # 0 /\ DOMAIN e.ops = 1..n
      /\ e.comparators \in Seq(trees) /\ n = Len(e.comparators)
  BY DEF IsForest
<1>2. DOMAIN operands = 1..n + 1
  BY <1>1, Operands
<1>3. \A i \in 1..n : pairs[i] \in trees
  <2>1. pairs \in Seq(trees)
    BY DEF IsForest, Conjunction, Connection
  <2>2. DOMAIN pairs = 1..n
    BY <1>1
  <2>3. Len(pairs) = n
    BY <1>1, <2>1, <2>2
  <2> HIDE DEF n, values, links
  <2> QED
    BY <2>1, <2>3, ElementOfSeq
<1>4. ASSUME NEW i \in 1..n PROVE ValueOf(pairs[i], facts) = links[i]
  <2>1. pairs[i] = Comparison(operands[i], e.ops[i], operands[i + 1])
    BY <1>1
  <2>2. i \in DOMAIN operands /\ i + 1 \in DOMAIN operands
    BY <1>1, <1>2
  <2>3. Comparison(operands[i], e.ops[i], operands[i + 1]) \in trees
    BY <1>3, <2>1
  <2>4. ValueOf(Comparison(operands[i], e.ops[i], operands[i + 1]), facts) =
            Link(e.ops[i], ValueOf(operands[i], facts), ValueOf(operands[i + 1], facts))
    <3>1. \A x, op, y : Comparison(x, op, y) \in trees =>
              ValueOf(Comparison(x, op, y), facts) = Link(op, ValueOf(x, facts), ValueOf(y, facts))
      BY ValueOfComparison
    <3>2. PICK x, op, y : x = operands[i] /\ op = e.ops[i] /\ y = operands[i + 1]
      OBVIOUS
    <3>3. Comparison(x, op, y) \in trees
      BY <2>3, <3>2
    <3>4. ValueOf(Comparison(x, op, y), facts) = Link(op, ValueOf(x, facts), ValueOf(y, facts))
      BY <3>3, ValueOfComparison
    <3> QED
      BY <3>2, <3>4
  <2> QED
    BY <1>1, <2>1, <2>2, <2>4
<1>5. ValueOf(Conjunction(pairs), facts) =
          Connect("and", [i \in DOMAIN pairs |-> ValueOf(pairs[i], facts)])
  <2>1. Conjunction(pairs) = Connection("and", pairs)
    BY DEF Conjunction
  <2>2. Connection("and", pairs) \in trees
    BY <2>1
  <2>3. ValueOf(Connection("and", pairs), facts) =
            Connect("and", [i \in DOMAIN pairs |-> ValueOf(pairs[i], facts)])
    <3> HIDE DEF n, values, links
    <3> QED
      BY <2>2, ValueOfConnection
  <2> QED
    BY <2>1, <2>3
<1>6. [i \in DOMAIN pairs |-> ValueOf(pairs[i], facts)] = links
  BY <1>1, <1>4
<1>7. ValueOf(e, facts) = Settled(links)
  <2>1. ValueOf(e, facts) = Chain(e.ops, values)
    BY ValueOfCompare
  <2> QED
    BY <2>1 DEF Chain
<1>8. DOMAIN links = 1..n /\ Len(links) = n
  BY <1>1
<1>9. \A i \in 1..n : IsError(links[i]) \/ IsBool(links[i])
  BY <1>1, LinkCases
<1> HIDE DEF n, links
<1>10. Alike(Settled(links), Connect("and", links))
  BY <1>1, <1>8, <1>9, SettledIsConjunction
<1>11. ValueOf(Conjunction(pairs), facts) = Connect("and", links)
  BY <1>5, <1>6
<1> QED
  BY <1>7, <1>10, <1>11

LEMMA NotInIsNegatedIn ==
    ASSUME NEW trees, IsForest(trees), Evaluates(trees), NEW e \in trees, e.node = "compare",
           Len(e.ops) = 1, \A x, y : Compare(e.ops[1], x, y) = Negation(IsIn(y, x)), NEW facts,
           Not(Comparison(e.left, "in", e.comparators[1])) \in trees
    PROVE  Alike(ValueOf(e, facts),
                 ValueOf(Not(Comparison(e.left, "in", e.comparators[1])), facts))
<1>1. PICK left, right, op, other, x, y :
          /\ left = e.left /\ right = e.comparators[1] /\ op = "in"
          /\ other = Comparison(left, op, right)
          /\ x = ValueOf(left, facts) /\ y = ValueOf(right, facts)
  OBVIOUS
<1>2. ValueOf(e, facts) = Link(e.ops[1], x, y)
  BY <1>1, ValueOfOneLink
<1>3. other \in trees
  BY <1>1 DEF IsForest, Not
<1>4. ValueOf(other, facts) = Link(op, x, y)
  <2>1. Comparison(left, op, right) \in trees
    BY <1>1, <1>3
  <2>2. ValueOf(Comparison(left, op, right), facts) =
            Link(op, ValueOf(left, facts), ValueOf(right, facts))
    BY <2>1, ValueOfComparison
  <2> QED
    BY <1>1, <2>2
<1>5. ValueOf(Not(other), facts) = Inverted(ValueOf(other, facts))
  BY <1>1, ValueOfNot
<1>6. Alike(Link(e.ops[1], x, y), Inverted(Link("in", x, y)))
  <2>1. CASE IsError(x) \/ IsError(y)
    BY <2>1, InvertedCases DEF Link, Alike
  <2>2. CASE ~IsError(x) /\ ~IsError(y)
    <3>1. Link("in", x, y) = IsIn(y, x) /\ Link(e.ops[1], x, y) = Negation(IsIn(y, x))
      BY <2>2 DEF Link, Compare
    <3>2. CASE IsError(IsIn(y, x))
      BY <3>1, <3>2, InvertedCases DEF Negation, Alike
    <3>3. CASE IsIn(y, x) = Bool(TRUE)
      BY <3>1, <3>3, BoolCases, InvertedCases DEF Negation, Alike
    <3>4. CASE IsIn(y, x) = Bool(FALSE)
      BY <3>1, <3>4, BoolCases, InvertedCases DEF Negation, Alike
    <3> QED
      BY <3>2, <3>3, <3>4, IsInVerdict, VerdictCases, BoolCases
  <2> QED
    BY <2>1, <2>2
<1> QED
  BY <1>1, <1>2, <1>4, <1>5, <1>6

\* The list of the values of a list of expressions, or the first error.
LEMMA ValueOfList ==
    ASSUME NEW trees, Evaluates(trees), NEW e \in trees, e.node = "display", e.kind = "list",
           DOMAIN e.elts \in SUBSET Nat, NEW facts
    PROVE  LET values == [i \in DOMAIN e.elts |-> ValueOf(e.elts[i], facts)]
           IN IF \E i \in DOMAIN values : IsError(values[i])
              THEN IsError(ValueOf(e, facts))
              ELSE ValueOf(e, facts) = [type |-> "list", val |-> values]
<1> DEFINE values == [i \in DOMAIN e.elts |-> ValueOf(e.elts[i], facts)]
           errors == {i \in DOMAIN values : IsError(values[i])}
<1>1. ValuesBelow(e, facts) = values
  BY DEF Children, ValuesBelow
<1>2. ValueOf(e, facts) = IF errors # {} THEN values[FirstOf(errors)] ELSE Display("list", values)
  <2>1. ValueOf(e, facts) = Combine(e, values)
    BY <1>1 DEF Evaluates, Visit
  <2>2. Combine(e, values) = IF errors # {} THEN values[FirstOf(errors)] ELSE Display("list", values)
    BY DEF Combine
  <2> QED
    BY <2>1, <2>2
<1>3. errors # {} => FirstOf(errors) \in errors
  <2>1. errors \in SUBSET Nat
    OBVIOUS
  <2> QED
    BY <2>1, FirstExists
<1>4. Display("list", values) = [type |-> "list", val |-> values]
  BY DEF Display
<1>5. errors # {} <=> \E i \in DOMAIN values : IsError(values[i])
  OBVIOUS
<1>6. errors # {} => IsError(values[FirstOf(errors)])
  BY <1>3
<1> HIDE DEF values, errors
<1> QED
  BY <1>2, <1>4, <1>5, <1>6 DEF values

LEMMA ValueOfAnyOf ==
    ASSUME NEW trees, Evaluates(trees), NEW e \in trees, e.node = "call", e.func = "any_of",
           DOMAIN e.args \in SUBSET Nat, NEW facts
    PROVE  LET values == [i \in DOMAIN e.args |-> ValueOf(e.args[i], facts)]
           IN IF \E i \in DOMAIN values : IsError(values[i])
              THEN IsError(ValueOf(e, facts))
              ELSE ValueOf(e, facts) = AnyOf(values[1], Tail(values))
<1> DEFINE values == [i \in DOMAIN e.args |-> ValueOf(e.args[i], facts)]
           errors == {i \in DOMAIN values : IsError(values[i])}
<1>1. ValuesBelow(e, facts) = values
  BY DEF Children, ValuesBelow
<1>2. ValueOf(e, facts) = Combine(e, values)
  BY <1>1 DEF Evaluates, Visit
<1>3. "any_of" \in DOMAIN Arity
  BY DEF Arity
<1>4. Combine(e, values) = IF errors # {} THEN values[FirstOf(errors)] ELSE Call("any_of", values)
  BY <1>3 DEF Combine
<1>5. errors # {} => FirstOf(errors) \in errors
  <2>1. errors \in SUBSET Nat
    OBVIOUS
  <2> QED
    BY <2>1, FirstExists
<1>6. Call("any_of", values) = AnyOf(values[1], Tail(values))
  BY DEF Call
<1>7. errors # {} <=> \E i \in DOMAIN values : IsError(values[i])
  OBVIOUS
<1>8. errors # {} => IsError(values[FirstOf(errors)])
  BY <1>5
<1> HIDE DEF values, errors
<1> QED
  BY <1>2, <1>4, <1>6, <1>7, <1>8 DEF values

LEMMA AnyOfIsIn ==
    ASSUME NEW trees, IsForest(trees), Evaluates(trees), NEW e \in trees, e.node = "call",
           e.func = "any_of", Len(e.args) > 2, NEW facts, NEW options,
           options.node = "display", options.kind = "list", options.elts = Tail(e.args),
           Comparison(e.args[1], "in", options) \in trees
    PROVE  Alike(ValueOf(e, facts), ValueOf(Comparison(e.args[1], "in", options), facts))
<1> DEFINE n == Len(e.args)
<1>1. e.args \in Seq(trees) /\ n \in Nat /\ n > 2 /\ DOMAIN e.args = 1..n
  BY DEF IsForest
<1>2. PICK rest : rest = Tail(e.args)
  OBVIOUS
<1>3. DOMAIN rest = 1..n - 1 /\ \A i \in 1..n - 1 : rest[i] = e.args[i + 1]
  <2>1. e.args # <<>>
    BY <1>1
  <2>2. /\ Tail(e.args) \in Seq(trees) /\ Len(Tail(e.args)) = n - 1
        /\ \A i \in 1..n - 1 : Tail(e.args)[i] = e.args[i + 1]
    BY <1>1, <2>1, HeadTailProperties
  <2> QED
    BY <1>2, <2>2
<1>4. PICK values, tail :
          /\ values = [i \in 1..n |-> ValueOf(e.args[i], facts)]
          /\ tail = [i \in 1..n - 1 |-> ValueOf(rest[i], facts)]
  OBVIOUS
<1>5. PICK x : x = values[1]
  OBVIOUS
<1>6. IF \E i \in 1..n : IsError(values[i])
      THEN IsError(ValueOf(e, facts))
      ELSE ValueOf(e, facts) = AnyOf(x, Tail(values))
  <2>1. DOMAIN e.args \in SUBSET Nat
    BY <1>1
  <2>2. values = [i \in DOMAIN e.args |-> ValueOf(e.args[i], facts)] /\ DOMAIN values = 1..n
    BY <1>1, <1>4
  <2> HIDE DEF n
  <2> QED
    BY <1>5, <2>1, <2>2, ValueOfAnyOf
<1>7. AnyOf(x, Tail(values)) = Bool(\E i \in 1..n - 1 : Equal(tail[i], x))
  <2>1. values \in Seq({values[i] : i \in 1..n}) /\ Len(values) = n
    <3>1. values \in [1..n -> {values[i] : i \in 1..n}]
      BY <1>4
    <3>2. \A S : [1..n -> S] \subseteq Seq(S)
      BY <1>1
    <3>3. DOMAIN values = 1..n
      BY <1>4
    <3> QED
      BY <1>1, <3>1, <3>2, <3>3
  <2>2. values # <<>>
    BY <1>1, <2>1
  <2>3. /\ Len(Tail(values)) = n - 1 /\ DOMAIN Tail(values) = 1..n - 1
        /\ \A i \in 1..n - 1 : Tail(values)[i] = values[i + 1]
    BY <1>1, <2>1, <2>2, HeadTailProperties
  <2>4. \A i \in 1..n - 1 : Tail(values)[i] = tail[i]
    BY <1>1, <1>3, <1>4, <2>3
  <2>5. AnyOf(x, Tail(values)) = Bool(\E i \in DOMAIN Tail(values) : Equal(Tail(values)[i], x))
    <3>1. PICK others : others = Tail(values)
      OBVIOUS
    <3>2. ~(Len(others) = 1)
      BY <1>1, <2>3, <3>1
    <3>3. AnyOf(x, others) = Bool(\E i \in DOMAIN others : Equal(others[i], x))
      BY <3>2 DEF AnyOf
    <3> QED
      BY <3>1, <3>3
  <2> QED
    BY <2>3, <2>4, <2>5
<1>8. options \in trees
  <2>1. PICK c : c = Comparison(e.args[1], "in", options)
    OBVIOUS
  <2>2. c.node = "compare" /\ Len(c.ops) = 1 /\ c.comparators[1] = options
    BY <2>1 DEF Comparison
  <2>3. c.comparators[1] \in trees
    BY <2>1, <2>2, ValueOfOneLink
  <2> QED
    BY <2>2, <2>3
<1>9. IF \E i \in 1..n - 1 : IsError(tail[i])
      THEN IsError(ValueOf(options, facts))
      ELSE ValueOf(options, facts) = [type |-> "list", val |-> tail]
  <2>1. options.node = "display" /\ options.kind = "list" /\ options.elts = rest
    BY <1>2
  <2>2. DOMAIN rest \in SUBSET Nat /\ DOMAIN tail = 1..n - 1
    BY <1>1, <1>3, <1>4
  <2>3. tail = [i \in DOMAIN options.elts |-> ValueOf(options.elts[i], facts)]
    BY <1>3, <1>4, <2>1
  <2> HIDE DEF n
  <2> QED
    BY <1>8, <2>1, <2>2, <2>3, ValueOfList
<1>10. ValueOf(Comparison(e.args[1], "in", options), facts) =
           Link("in", x, ValueOf(options, facts))
  <2>1. PICK left, op : left = e.args[1] /\ op = "in"
    OBVIOUS
  <2>2. Comparison(left, op, options) \in trees
    BY <2>1
  <2>3. ValueOf(Comparison(left, op, options), facts) =
            Link(op, ValueOf(left, facts), ValueOf(options, facts))
    BY <2>2, ValueOfComparison
  <2>4. x = ValueOf(left, facts)
    BY <1>1, <1>4, <1>5, <2>1
  <2> QED
    BY <2>1, <2>3, <2>4
<1>11. \A i \in 2..n : values[i] = tail[i - 1]
  BY <1>1, <1>3, <1>4
<1>12. CASE IsError(x)
  <2>1. 1 \in 1..n /\ IsError(values[1])
    BY <1>1, <1>5, <1>12
  <2> QED
    BY <1>6, <1>10, <1>12, <2>1 DEF Link, Alike
<1>13. CASE ~IsError(x) /\ \E i \in 1..n - 1 : IsError(tail[i])
  <2>1. IsError(ValueOf(options, facts))
    BY <1>9, <1>13
  <2>2. PICK i \in 1..n - 1 : IsError(tail[i])
    BY <1>13
  <2>3. i + 1 \in 1..n /\ i + 1 \in 2..n /\ i + 1 - 1 = i
    BY <1>1
  <2>4. IsError(values[i + 1])
    BY <1>11, <2>2, <2>3
  <2> QED
    BY <1>6, <1>10, <1>13, <2>1, <2>3, <2>4 DEF Link, Alike
<1>14. CASE ~IsError(x) /\ ~\E i \in 1..n - 1 : IsError(tail[i])
  <2>1. PICK list : list = ValueOf(options, facts)
    OBVIOUS
  <2>2. list.type = "list" /\ list.val = tail
    BY <1>9, <1>14, <2>1
  <2>3. Link("in", x, list) = IsIn(list, x)
    BY <1>14, <2>2 DEF Link, Compare, IsError
  <2>4. IsIn(list, x) = Bool(\E i \in 1..n - 1 : Equal(tail[i], x))
    <3>1. IsIn(list, x) = Bool(Has(list, x))
      BY <2>2 DEF IsIn, IsText, IsCollection
    <3>2. DOMAIN tail = 1..n - 1
      BY <1>4
    <3>3. Has(list, x) = \E i \in 1..n - 1 : Equal(tail[i], x)
      BY <2>2, <3>2 DEF Has
    <3> QED
      BY <3>1, <3>3
  <2>5. \A i \in 1..n : ~IsError(values[i])
    <3> SUFFICES ASSUME NEW i \in 1..n PROVE ~IsError(values[i])
      OBVIOUS
    <3>1. CASE i = 1
      BY <1>5, <1>14, <3>1
    <3>2. CASE i # 1
      <4>1. i \in 2..n /\ i - 1 \in 1..n - 1
        BY <1>1, <3>2
      <4> QED
        BY <1>11, <1>14, <4>1
    <3> QED
      BY <3>1, <3>2
  <2>6. ValueOf(e, facts) = Bool(\E i \in 1..n - 1 : Equal(tail[i], x))
    BY <1>6, <1>7, <2>5
  <2>7. (\E i \in 1..n - 1 : Equal(tail[i], x)) \in BOOLEAN /\ \A b \in BOOLEAN : IsBool(Bool(b))
    BY BoolCases
  <2>8. IsBool(ValueOf(e, facts))
    BY <2>6, <2>7
  <2> QED
    BY <1>10, <2>1, <2>3, <2>4, <2>6, <2>8 DEF Alike
<1> QED
  BY <1>12, <1>13, <1>14

LEMMA RewritingsAreAlike ==
    ASSUME NEW trees, IsForest(trees), Evaluates(trees), NEW e \in trees,
           NEW other \in Rewritings(e), other \in trees, NEW facts
    PROVE  Alike(ValueOf(e, facts), ValueOf(other, facts))
<1> DEFINE operands == <<e.left>> \o e.comparators
           links == [i \in DOMAIN e.ops |-> Comparison(operands[i], e.ops[i], operands[i + 1])]
           options == [node |-> "display", kind |-> "list", elts |-> Tail(e.args)]
           nots == [i \in DOMAIN e.values |-> Not(e.values[i])]
           Bare == Len(e.ops) = 1 /\ \A x, y : Compare(e.ops[1], x, y) = Negation(IsIn(y, x))
<1>1. \A op, x, y : op = "not in" => Compare(op, x, y) = Negation(IsIn(y, x))
  BY Zenon DEF Compare
<1>2. \A op : Len(<<op>>) = 1 /\ <<op>>[1] = op
  OBVIOUS
<1>3. e.ops = <<"not in">> => Bare
  BY <1>1, <1>2, Zenon
<1>4. \/ e.node = "bool" /\ other = Not(Connection(Dual(e.op), nots))
      \/ e.node = "compare" /\ Len(e.ops) > 1 /\ other = Conjunction(links)
      \/ e.node = "compare" /\ Bare /\ other = Not(Comparison(e.left, "in", e.comparators[1]))
      \/ /\ e.node = "call" /\ e.func = "any_of" /\ Len(e.args) > 2
         /\ other = Comparison(e.args[1], "in", options)
  BY <1>3, Zenon DEF Rewritings
<1>5. CASE e.node = "bool" /\ other = Not(Connection(Dual(e.op), nots))
  BY <1>5, DeMorgan
<1>6. CASE e.node = "compare" /\ Len(e.ops) > 1 /\ other = Conjunction(links)
  <2>1. DOMAIN links = DOMAIN e.ops
    OBVIOUS
  <2>2. \A i \in DOMAIN e.ops : links[i] = Comparison(operands[i], e.ops[i], operands[i + 1])
    OBVIOUS
  <2>3. PICK sequence : sequence = operands
    OBVIOUS
  <2>4. \A i \in DOMAIN e.ops : links[i] = Comparison(sequence[i], e.ops[i], sequence[i + 1])
    BY <2>2, <2>3
  <2>5. Conjunction(links) \in trees
    BY <1>6
  <2>6. sequence = <<e.left>> \o e.comparators
    BY <2>3
  <2> HIDE DEF links, operands
  <2> QED
    BY <1>6, <2>1, <2>4, <2>5, <2>6, ChainsAreConjunctions
<1>7. CASE e.node = "compare" /\ Bare /\ other = Not(Comparison(e.left, "in", e.comparators[1]))
  BY <1>7, NotInIsNegatedIn
<1>8. CASE /\ e.node = "call" /\ e.func = "any_of" /\ Len(e.args) > 2
           /\ other = Comparison(e.args[1], "in", options)
  <2>1. options.node = "display" /\ options.kind = "list" /\ options.elts = Tail(e.args)
    OBVIOUS
  <2> HIDE DEF options
  <2> QED
    BY <1>8, <2>1, AnyOfIsIn
<1> QED
  BY <1>4, <1>5, <1>6, <1>7, <1>8

-----------------------------------------------------------------------------

LEMMA AlikeAgree ==
    ASSUME NEW x, NEW y, Alike(x, y)
    PROVE  Agree(x, y)
<1>1. CASE IsError(x) /\ IsError(y)
  BY <1>1 DEF Agree, IsError
<1>2. CASE IsBool(x) /\ x = y
  BY <1>2, EqualAssumption, BoolCases DEF Agree
<1> QED
  BY <1>1, <1>2 DEF Alike

\* RewritingsAgree: De Morgan, the chained comparison as a conjunction, `not in`
\* and any_of() come to the same outcome, errors included, for every expression
\* in every context, however it is nested and whatever values it meets.
THEOREM RewritingsAgreeHolds ==
    ASSUME NEW CONSTANT trees, IsForest(trees), Evaluates(trees), Covers(trees)
    PROVE  Spec => []RewritingsAgree
<1>1. GateInv => RewritingsAgree
  <2> SUFFICES ASSUME GateInv, Asking, NEW i \in DOMAIN path.policy, path.policy[i].when # <<>>,
                      NEW other \in Rewritings(path.policy[i].when[1])
               PROVE  Agree(ValueOf(path.policy[i].when[1], context), ValueOf(other, context))
    BY DEF RewritingsAgree
  <2>1. PICK e : e = path.policy[i].when[1]
    OBVIOUS
  <2>2. e \in trees /\ Rewritings(e) \subseteq trees
    BY <2>1 DEF GateInv, Asking, FromOutside, Serving, Covers, HasRules
  <2>3. PICK facts : facts = context
    OBVIOUS
  <2>4. Alike(ValueOf(e, facts), ValueOf(other, facts))
    BY <2>1, <2>2, RewritingsAreAlike
  <2> QED
    BY <2>1, <2>3, <2>4, AlikeAgree
<1> QED
  BY <1>1, GateInvariance, PTL

-----------------------------------------------------------------------------

LEMMA ValueOfLeaf ==
    ASSUME NEW trees, Evaluates(trees), NEW e \in trees, NEW facts
    PROVE  /\ e.node = "constant" => ValueOf(e, facts) = e.value
           /\ e.node = "name" /\ e.id \in DOMAIN facts \ DOMAIN Literals =>
                 ValueOf(e, facts) = facts[e.id]
  BY DEF Evaluates, Visit

LEMMA ValueOfAttribute ==
    ASSUME NEW trees, Evaluates(trees), NEW e \in trees, e.node = "attribute", NEW facts,
           ~IsError(ValueOf(e.value, facts))
    PROVE  ValueOf(e, facts) = Attribute(ValueOf(e.value, facts), e.attr)
<1> DEFINE values == ValuesBelow(e, facts)
           errors == {i \in DOMAIN values : IsError(values[i])}
<1>1. Children(e) = <<e.value>>
  BY DEF Children
<1>2. DOMAIN values = {1} /\ values[1] = ValueOf(e.value, facts)
  BY <1>1 DEF ValuesBelow
<1>3. errors = {}
  BY <1>2
<1>4. ValueOf(e, facts) = Combine(e, values)
  BY DEF Evaluates, Visit
<1>5. Combine(e, values) = IF errors # {} THEN values[FirstOf(errors)]
                           ELSE Attribute(values[1], e.attr)
  BY DEF Combine
<1> HIDE DEF values, errors
<1> QED
  BY <1>2, <1>3, <1>4, <1>5

LEMMA ConnectTwo ==
    ASSUME NEW x, NEW y, IsBool(x), x.val => IsBool(y)
    PROVE  Connect("and", <<x, y>>) = IF x.val THEN y ELSE x
<1> DEFINE values == <<x, y>>
           Ends(v) == IsError(v) \/ ~IsBool(v) \/ v.val = ("and" = "or")
           ends == {i \in DOMAIN values : Ends(values[i])}
           z == values[FirstOf(ends)]
<1>1. Connect("and", values) = IF ends = {} THEN Bool("and" = "and")
                               ELSE IF IsError(z) \/ IsBool(z) THEN z ELSE Failure
  BY DEF Connect
<1>2. DOMAIN values = {1, 2} /\ values[1] = x /\ values[2] = y
  OBVIOUS
<1>3. \A v : IsBool(v) => (Ends(v) <=> v = Bool(FALSE))
  BY BoolCases
<1> HIDE DEF Ends
<1>4. CASE x = Bool(FALSE)
  <2>1. 1 \in ends /\ \A i \in ends : i \in {1, 2}
    BY <1>2, <1>3, <1>4
  <2>2. FirstOf(ends) = 1
    <3> HIDE DEF ends
    <3> QED
      BY <2>1 DEF FirstOf
  <2>3. z = x
    BY <1>2, <2>2
  <2> HIDE DEF ends, z, values
  <2> QED
    BY <1>1, <1>4, <2>1, <2>3, BoolCases DEF values
<1>5. CASE x = Bool(TRUE) /\ y = Bool(FALSE)
  <2>1. ends = {2}
    BY <1>2, <1>3, <1>5, BoolCases
  <2>2. FirstOf({2}) = 2
    BY DEF FirstOf
  <2>3. z = y
    BY <1>2, <2>1, <2>2
  <2> HIDE DEF ends, z, values
  <2> QED
    BY <1>1, <1>5, <2>1, <2>3, BoolCases DEF values
<1>6. CASE x = Bool(TRUE) /\ y = Bool(TRUE)
  <2>1. ends = {}
    BY <1>2, <1>3, <1>6, BoolCases
  <2> HIDE DEF ends, z, values
  <2> QED
    BY <1>1, <1>6, <2>1, BoolCases DEF values
<1> QED
  BY <1>4, <1>5, <1>6, BoolCases

LEMMA ValueOfPresentAndEqual ==
    ASSUME NEW trees, IsForest(trees), Evaluates(trees), Comparable, NEW k, NEW s,
           PresentAndEqual(k, s) \in trees,
           NEW facts, "input" \in DOMAIN facts, NEW map, map = facts["input"],
           map.type = "map", \A n \in DOMAIN map.val : ~IsError(map.val[n])
    PROVE  ValueOf(PresentAndEqual(k, s), facts) =
               Bool(k \in DOMAIN map.val /\ Equal(map.val[k], Str(s)))
<1>1. PICK key, input, field, value, isIn, equals :
          /\ key = Constant(Str(k)) /\ input = Name("input") /\ value = Constant(Str(s))
          /\ field = [node |-> "attribute", value |-> input, attr |-> k]
          /\ isIn = "in" /\ equals = "=="
  OBVIOUS
<1>2. PICK first, second :
          first = Comparison(key, isIn, input) /\ second = Comparison(field, equals, value)
  OBVIOUS
<1>3. PresentAndEqual(k, s) = Connection("and", <<first, second>>)
  BY <1>1, <1>2 DEF PresentAndEqual, Conjunction
<1>4. first \in trees /\ second \in trees
  <2>1. <<first, second>> \in Seq(trees)
    BY <1>3 DEF IsForest, Connection
  <2> QED
    BY <2>1
<1>5. /\ key \in trees /\ input \in trees /\ field \in trees /\ value \in trees
  <2>1. \A x, op, y : Comparison(x, op, y) \in trees => x \in trees /\ y \in trees
    <3> TAKE x, op, y
    <3> HAVE Comparison(x, op, y) \in trees
    <3>1. PICK e \in trees : e = Comparison(x, op, y)
      OBVIOUS
    <3>2. e.node = "compare" /\ Len(e.ops) = 1 /\ e.left = x /\ e.comparators[1] = y
      BY <3>1 DEF Comparison
    <3>3. e.left \in trees /\ e.comparators[1] \in trees
      BY <3>2, ValueOfOneLink DEF IsForest
    <3> QED
      BY <3>2, <3>3
  <2> QED
    BY <1>2, <1>4, <2>1
<1>6. ValueOf(key, facts) = Str(k) /\ ValueOf(value, facts) = Str(s)
  BY <1>1, <1>5, ValueOfLeaf DEF Constant
<1>7. ValueOf(input, facts) = map
  <2>1. input.node = "name" /\ input.id = "input" /\ "input" \notin DOMAIN Literals
    BY <1>1 DEF Name, Literals
  <2> QED
    BY <1>5, <2>1, ValueOfLeaf
<1>8. ~IsError(map) /\ ~IsError(Str(k)) /\ ~IsError(Str(s)) /\ IsText(Str(k)) /\ Str(k).val = k
  BY DEF IsError, Str, IsText
<1>9. ValueOf(field, facts) = Attribute(map, k)
  <2>1. field.node = "attribute" /\ field.value = input /\ field.attr = k
    BY <1>1
  <2> QED
    BY <1>5, <1>7, <1>8, <2>1, ValueOfAttribute
<1>10. ValueOf(first, facts) = Bool(k \in DOMAIN map.val)
  <2>1. ValueOf(first, facts) = Link(isIn, Str(k), map)
    <3>1. Comparison(key, isIn, input) \in trees
      BY <1>2, <1>4
    <3>2. ValueOf(Comparison(key, isIn, input), facts) =
              Link(isIn, ValueOf(key, facts), ValueOf(input, facts))
      BY <3>1, ValueOfComparison
    <3> QED
      BY <1>2, <1>6, <1>7, <3>2
  <2>2. Link("in", Str(k), map) = IsIn(map, Str(k))
    BY <1>8 DEF Link, Compare
  <2>3. HasHash(Str(k))
    BY DEF Comparable
  <2>4. IsIn(map, Str(k)) = Bool(IsText(Str(k)) /\ Str(k).val \in DOMAIN map.val)
    BY <2>3 DEF IsIn, IsText, IsCollection
  <2> QED
    BY <1>1, <1>8, <2>1, <2>2, <2>4
<1>11. ASSUME k \in DOMAIN map.val
       PROVE  ValueOf(second, facts) = Bool(Equal(map.val[k], Str(s)))
  <2>1. ValueOf(second, facts) = Link(equals, Attribute(map, k), Str(s))
    <3>1. Comparison(field, equals, value) \in trees
      BY <1>2, <1>4
    <3>2. ValueOf(Comparison(field, equals, value), facts) =
              Link(equals, ValueOf(field, facts), ValueOf(value, facts))
      BY <3>1, ValueOfComparison
    <3> QED
      BY <1>2, <1>6, <1>9, <3>2
  <2>2. Attribute(map, k) = map.val[k] /\ ~IsError(map.val[k])
    BY <1>11 DEF Attribute
  <2>3. Link("==", map.val[k], Str(s)) = Bool(Equal(map.val[k], Str(s)) = ("==" = "=="))
    BY <1>8, <2>2 DEF Link, Compare
  <2>4. (Equal(map.val[k], Str(s)) = ("==" = "==")) = Equal(map.val[k], Str(s))
    BY DEF Comparable
  <2> QED
    BY <1>1, <2>1, <2>2, <2>3, <2>4
<1>12. PICK x, y : x = ValueOf(first, facts) /\ y = ValueOf(second, facts)
  OBVIOUS
<1>13. ValueOf(PresentAndEqual(k, s), facts) = Connect("and", <<x, y>>)
  <2>1. PICK es : es = <<first, second>>
    OBVIOUS
  <2>2. Connection("and", es) \in trees
    BY <1>3, <2>1
  <2>3. ValueOf(Connection("and", es), facts) =
            Connect("and", [i \in DOMAIN es |-> ValueOf(es[i], facts)])
    BY <2>2, ValueOfConnection
  <2>4. [i \in DOMAIN es |-> ValueOf(es[i], facts)] = <<x, y>>
    BY <1>12, <2>1
  <2> QED
    BY <1>3, <2>1, <2>3, <2>4
<1>14. (k \in DOMAIN map.val) \in BOOLEAN /\ Equal(map.val[k], Str(s)) \in BOOLEAN
  BY DEF Comparable
<1>15. CASE k \in DOMAIN map.val
  <2>1. x = Bool(TRUE)
    BY <1>10, <1>12, <1>15
  <2>2. y = Bool(Equal(map.val[k], Str(s)))
    BY <1>11, <1>12, <1>15
  <2>3. IsBool(x) /\ x.val = TRUE /\ IsBool(y)
    BY <1>14, <2>1, <2>2 DEF Bool, IsBool
  <2>4. Connect("and", <<x, y>>) = y
    BY <2>3, ConnectTwo
  <2>5. (k \in DOMAIN map.val /\ Equal(map.val[k], Str(s))) = Equal(map.val[k], Str(s))
    BY <1>14, <1>15
  <2> QED
    BY <1>13, <2>2, <2>4, <2>5
<1>16. CASE k \notin DOMAIN map.val
  <2>1. x = Bool(FALSE)
    <3>1. (k \in DOMAIN map.val) = FALSE
      BY <1>16
    <3> QED
      BY <1>10, <1>12, <3>1
  <2>2. IsBool(x) /\ x.val = FALSE
    BY <2>1, BoolCases
  <2>3. Connect("and", <<x, y>>) = x
    BY <2>2, ConnectTwo
  <2>4. (k \in DOMAIN map.val /\ Equal(map.val[k], Str(s))) = FALSE
    BY <1>16
  <2> QED
    BY <1>13, <2>1, <2>3, <2>4
<1> QED
  BY <1>15, <1>16

-----------------------------------------------------------------------------

\* OptionalInputsAreSafe: the rule about an optional input is evaluated without
\* an error and means what it says, for every catalog, every request and every
\* input that a rule may name.
THEOREM OptionalInputsAreSafeHolds ==
    ASSUME NEW CONSTANT trees, IsForest(trees), Evaluates(trees), Supports(trees),
           Comparable, ValidatesToMaps
    PROVE  Spec => []OptionalInputsAreSafe
<1>1. GateInv => OptionalInputsAreSafe
  <2> SUFFICES ASSUME GateInv, Asking, NEW k \in DOMAIN path.inputs.properties,
                      NEW s \in DOMAIN Spelling
               PROVE  Outcome(PresentAndEqual(k, s), context) =
                          [ok |-> TRUE,
                           value |-> k \in DOMAIN inputs.val /\ Equal(inputs.val[k], Str(s))]
    BY DEF OptionalInputsAreSafe
  <2>1. AskedAbout /\ FromOutside /\ step \in Serving
    BY DEF GateInv, Asking, Serving
  <2>2. PICK d \in Served : path.inputs = Closed(Documents[d].inputs)
    BY <2>1, DocumentsAssumption DEF FromOutside, Served
  <2>3. PICK r \in DOMAIN Arrivals : request = Arrivals[r]
    BY <2>1 DEF FromOutside
  <2>4. Remaining = Sent(Arrivals[r])
    BY <2>3 DEF Remaining, Sent
  <2>5. inputs.type = "map" /\ \A n \in DOMAIN inputs.val : ~IsError(inputs.val[n])
    BY <2>1, <2>2, <2>4 DEF AskedAbout, ValidatesToMaps
  <2>6. "input" \in DOMAIN context /\ context["input"] = inputs
    BY <2>1, ContextTells DEF AskedAbout
  <2>7. PresentAndEqual(k, s) \in trees /\ Allowed(PresentAndEqual(k, s))
    BY <2>2 DEF Supports
  <2>8. PICK facts, map : facts = context /\ map = inputs
    OBVIOUS
  <2>9. ValueOf(PresentAndEqual(k, s), facts) =
            Bool(k \in DOMAIN map.val /\ Equal(map.val[k], Str(s)))
    BY <2>5, <2>6, <2>7, <2>8, ValueOfPresentAndEqual
  <2>10. PICK b : b = (k \in DOMAIN map.val /\ Equal(map.val[k], Str(s)))
    OBVIOUS
  <2>11. b \in BOOLEAN
    BY <2>10
  <2>12. IsBool(Bool(b)) /\ Bool(b).val = b
    BY <2>11 DEF IsBool, Bool
  <2> QED
    BY <2>7, <2>8, <2>9, <2>10, <2>12 DEF Outcome, Judged
<1> QED
  BY <1>1, GateInvariance, PTL

-----------------------------------------------------------------------------
\* The evaluator never comes to a node that the allowlist should have refused.

\* What an expression may come to: a value, or the one kind of error.
Reached(values) == values \cup {Failure}

\* The values of Python there are: what the evaluator makes of values is one.
IsUniverse(values) ==
    /\ \A x \in values : ~IsError(x)
    /\ {Null, Bool(TRUE), Bool(FALSE)} \subseteq values
    /\ \A x \in values :
          /\ \A attr : Attribute(x, attr) \in Reached(values)
          /\ \A y \in values : Subscript(x, y) \in Reached(values)
          /\ \A op \in {"not", "-"} : Unary(op, x) \in Reached(values)
          /\ IsText(x) \/ IsCollection(x) \/ x.type = "map" => Whole(Size(x)) \in values
          /\ IsText(x) => /\ [x EXCEPT !.val = Lower(x.val)] \in values
                          /\ [x EXCEPT !.val = Upper(x.val)] \in values
    /\ \A kind \in {"list", "tuple", "set"}, xs \in Seq(values) : Display(kind, xs) \in Reached(values)

LEMMA ErrorsReached ==
    ASSUME NEW values, IsUniverse(values), NEW x \in Reached(values)
    PROVE  IF IsError(x) THEN x = Failure ELSE x \in values
  BY BoolCases DEF IsUniverse, Reached

LEMMA VerdictsReached ==
    ASSUME NEW values, IsUniverse(values)
    PROVE  /\ Failure \in Reached(values) /\ \A b \in BOOLEAN : Bool(b) \in Reached(values)
           /\ Verdicts \subseteq Reached(values)
  BY DEF IsUniverse, Reached, Verdicts

LEMMA ConnectReached ==
    ASSUME NEW values, IsUniverse(values), NEW op, NEW xs, DOMAIN xs \in SUBSET Nat,
           \A i \in DOMAIN xs : xs[i] \in Reached(values)
    PROVE  Connect(op, xs) \in Reached(values)
<1> DEFINE Ends(x) == IsError(x) \/ ~IsBool(x) \/ x.val = (op = "or")
           ends == {i \in DOMAIN xs : Ends(xs[i])}
           x == xs[FirstOf(ends)]
<1>1. Connect(op, xs) = IF ends = {} THEN Bool(op = "and")
                        ELSE IF IsError(x) \/ IsBool(x) THEN x ELSE Failure
  BY DEF Connect
<1>2. ends # {} => x \in Reached(values)
  <2>1. ends \in SUBSET Nat
    OBVIOUS
  <2> QED
    BY <2>1, FirstExists
<1>3. (op = "and") \in BOOLEAN
  OBVIOUS
<1> HIDE DEF ends, x
<1> QED
  BY <1>1, <1>2, <1>3, VerdictsReached

LEMMA ChainReached ==
    ASSUME NEW values, IsUniverse(values), NEW n \in Nat, n > 0,
           NEW ops, DOMAIN ops = 1..n, \A i \in 1..n : ops[i] \in Comparisons,
           NEW xs, \A i \in 1..n + 1 : xs[i] \in Reached(values)
    PROVE  Chain(ops, xs) \in Reached(values)
<1> DEFINE links == [i \in DOMAIN ops |-> Link(ops[i], xs[i], xs[i + 1])]
           ends == {i \in DOMAIN links : IsError(links[i]) \/ ~links[i].val}
<1>1. DOMAIN links = 1..n /\ Len(links) = n
  OBVIOUS
<1>2. ASSUME NEW i \in 1..n PROVE links[i] \in Reached(values)
  <2>1. i \in 1..n + 1 /\ i + 1 \in 1..n + 1
    OBVIOUS
  <2>2. Compare(ops[i], xs[i], xs[i + 1]) \in Reached(values)
    BY CompareVerdict, VerdictsReached
  <2> QED
    BY <2>1, <2>2 DEF Link
<1>3. Chain(ops, xs) = links[IF ends = {} THEN Len(links) ELSE FirstOf(ends)]
  BY DEF Chain, Settled
<1>4. ends # {} => FirstOf(ends) \in 1..n
  <2>1. ends \in SUBSET Nat
    BY <1>1
  <2>2. ends \subseteq 1..n
    BY <1>1
  <2> HIDE DEF ends
  <2> QED
    BY <2>1, <2>2, FirstExists
<1> HIDE DEF links, ends
<1> QED
  BY <1>1, <1>2, <1>3, <1>4

\* A helper with as many arguments as it takes.
LEMMA CallReached ==
    ASSUME NEW values, IsUniverse(values), NEW helper \in DOMAIN Arity, NEW args,
           args[1] \in values
    PROVE  Call(helper, args) \in Reached(values)
<1> DEFINE x == args[1]
<1>1. helper \in {"len", "lower", "upper", "startswith", "endswith", "matches", "any_of"}
  BY DEF Arity
<1>2. CASE helper = "len"
  BY <1>2 DEF Call, IsUniverse, Reached
<1>3. CASE helper \in {"lower", "upper"}
  BY <1>3 DEF Call, IsUniverse, Reached
<1>4. ASSUME NEW t, NEW atStart PROVE Affix(x, t, atStart) \in Reached(values)
  <2> DEFINE Fits(affix) == IF atStart THEN StartsWith(x.val, affix) ELSE EndsWith(x.val, affix)
  <2>1. (\E i \in DOMAIN Texts(t) : Fits(Texts(t)[i].val)) \in BOOLEAN
    OBVIOUS
  <2>2. Affix(x, t, atStart) = IF IsText(x) /\ AreTexts(t)
                               THEN Bool(\E i \in DOMAIN Texts(t) : Fits(Texts(t)[i].val))
                               ELSE Failure
    BY DEF Affix
  <2> HIDE DEF Fits
  <2> QED
    BY <2>1, <2>2, VerdictsReached
<1>5. CASE helper = "startswith"
  BY <1>4, <1>5 DEF Call
<1>6. CASE helper = "endswith"
  BY <1>4, <1>6 DEF Call
<1>7. CASE helper = "matches"
  <2>1. Call(helper, args) = Matches(x, args[2])
    BY <1>7 DEF Call
  <2>2. (x.val \in Languages[args[2].val]) \in BOOLEAN
    OBVIOUS
  <2>3. Matches(x, args[2]) \in {Failure, Bool(x.val \in Languages[args[2].val])}
    BY DEF Matches
  <2> QED
    BY <2>1, <2>2, <2>3, VerdictsReached
<1>8. CASE helper = "any_of"
  <2>1. Call(helper, args) = AnyOf(x, Tail(args))
    BY <1>8 DEF Call
  <2>2. PICK options : options = Tail(args)
    OBVIOUS
  <2>3. Has(options[1], x) \in BOOLEAN /\ (\E i \in DOMAIN options : Equal(options[i], x)) \in BOOLEAN
    BY DEF Has
  <2>4. AnyOf(x, options) \in {Bool(Has(options[1], x)),
                               Bool(\E i \in DOMAIN options : Equal(options[i], x))}
    BY DEF AnyOf
  <2> QED
    BY <2>1, <2>2, <2>3, <2>4, VerdictsReached
<1> QED
  BY <1>1, <1>2, <1>3, <1>5, <1>6, <1>7, <1>8

LEMMA ChildrenOf ==
    ASSUME NEW trees, IsForest(trees), NEW e \in trees, WellFormed(e)
    PROVE  /\ Children(e) \in Seq(trees)
           /\ e.node = "compare" =>
                 DOMAIN Children(e) = 1..Len(e.ops) + 1 /\ Len(e.ops) \in Nat /\ Len(e.ops) > 0
<1>1. CASE e.node = "compare"
  <2>1. Children(e) = <<e.left>> \o e.comparators
    BY <1>1 DEF Children
  <2>2. /\ e.left \in trees /\ e.comparators \in Seq(trees)
        /\ Len(e.ops) = Len(e.comparators) /\ Len(e.ops) > 0
    BY <1>1 DEF IsForest
  <2>3. <<e.left>> \in Seq(trees) /\ Len(<<e.left>>) = 1
    BY <2>2
  <2>4. /\ <<e.left>> \o e.comparators \in Seq(trees)
        /\ Len(<<e.left>> \o e.comparators) = 1 + Len(e.comparators)
    BY <2>2, <2>3, ConcatProperties
  <2>5. DOMAIN (<<e.left>> \o e.comparators) = 1..Len(e.comparators) + 1
    BY <2>2, Operands
  <2> QED
    BY <2>1, <2>2, <2>4, <2>5
<1>2. CASE e.node # "compare"
  <2>1. e.node \in {"constant", "name", "attribute", "subscript", "bool", "unary", "call", "display"}
    BY <1>2 DEF WellFormed
  <2>2. CASE e.node \in {"constant", "name"}
    BY <2>2 DEF Children
  <2>3. CASE e.node = "attribute"
    BY <2>3 DEF Children, IsForest
  <2>4. CASE e.node = "subscript"
    BY <2>4 DEF Children, IsForest
  <2>5. CASE e.node = "bool"
    BY <2>5 DEF Children, IsForest
  <2>6. CASE e.node = "unary"
    BY <2>6 DEF Children, IsForest
  <2>7. CASE e.node = "call"
    BY <2>7 DEF Children, IsForest
  <2>8. CASE e.node = "display"
    BY <2>8 DEF Children, IsForest
  <2> QED
    BY <1>2, <2>1, <2>2, <2>3, <2>4, <2>5, <2>6, <2>7, <2>8
<1> QED
  BY <1>1, <1>2

\* One node above values: the allowlist has refused what the evaluator does
\* not know.
LEMMA VisitReached ==
    ASSUME NEW trees, IsForest(trees), NEW e \in trees, WellFormed(e),
           NEW values, IsUniverse(values), e.node = "constant" => e.value \in values,
           NEW facts, \A n \in DOMAIN facts : facts[n] \in values,
           NEW xs, xs = [i \in DOMAIN xs |-> xs[i]], DOMAIN xs = DOMAIN Children(e), \A i \in DOMAIN xs : xs[i] \in Reached(values)
    PROVE  Visit(e, facts, xs) \in Reached(values)
<1> DEFINE errors == {i \in DOMAIN xs : IsError(xs[i])}
<1>1. /\ Children(e) \in Seq(trees) /\ DOMAIN xs = 1..Len(Children(e))
      /\ Len(Children(e)) \in Nat
  BY ChildrenOf
<1>2. errors # {} => xs[FirstOf(errors)] \in Reached(values)
  <2>1. errors \in SUBSET Nat
    BY <1>1
  <2> QED
    BY <2>1, FirstExists
<1>3. errors = {} => \A i \in DOMAIN xs : xs[i] \in values
  BY ErrorsReached
<1> HIDE DEF errors
<1>5. CASE e.node = "constant"
  BY <1>5 DEF Visit, Reached
<1>6. CASE e.node = "name"
  <2>1. \A id \in DOMAIN Literals : Literals[id] \in values
    <3>1. DOMAIN Literals = {"true", "false", "null"}
      BY DEF Literals
    <3>2. /\ Literals["true"] = Bool(TRUE) /\ Literals["false"] = Bool(FALSE)
          /\ Literals["null"] = Null
      BY DEF Literals
    <3>3. {Null, Bool(TRUE), Bool(FALSE)} \subseteq values
      BY DEF IsUniverse
    <3> QED
      BY <3>1, <3>2, <3>3
  <2> QED
    BY <1>6, <2>1 DEF Visit, Reached
<1>7. CASE e.node = "bool"
  <2>1. Visit(e, facts, xs) = Connect(e.op, xs)
    BY <1>7 DEF Visit, Combine
  <2>2. DOMAIN xs \in SUBSET Nat
    BY <1>1
  <2> QED
    BY <2>1, <2>2, ConnectReached
<1>8. CASE e.node = "compare"
  <2>1. Visit(e, facts, xs) = Chain(e.ops, xs)
    BY <1>8 DEF Visit, Combine
  <2>2. PICK n : n = Len(e.ops)
    OBVIOUS
  <2>3. DOMAIN xs = 1..n + 1 /\ n \in Nat /\ n > 0
    BY <1>8, <2>2, ChildrenOf
  <2>4. DOMAIN e.ops = 1..n /\ \A i \in 1..n : e.ops[i] \in Comparisons
    BY <1>8, <2>2 DEF WellFormed, IsForest
  <2> QED
    BY <2>1, <2>3, <2>4, ChainReached
<1>9. CASE e.node = "attribute"
  <2>1. Visit(e, facts, xs) = IF errors # {} THEN xs[FirstOf(errors)] ELSE Attribute(xs[1], e.attr)
    BY <1>9 DEF Visit, Combine, errors
  <2>2. 1 \in DOMAIN xs
    BY <1>1, <1>9 DEF Children
  <2>3. \A x \in values : \A attr : Attribute(x, attr) \in Reached(values)
    BY DEF IsUniverse
  <2> QED
    BY <1>2, <1>3, <2>1, <2>2, <2>3
<1>10. CASE e.node = "subscript"
  <2>1. Visit(e, facts, xs) = IF errors # {} THEN xs[FirstOf(errors)] ELSE Subscript(xs[1], xs[2])
    BY <1>10 DEF Visit, Combine, errors
  <2>2. 1 \in DOMAIN xs /\ 2 \in DOMAIN xs
    BY <1>1, <1>10 DEF Children
  <2> QED
    BY <1>2, <1>3, <2>1, <2>2 DEF IsUniverse
<1>11. CASE e.node = "unary"
  <2>1. Visit(e, facts, xs) = IF errors # {} THEN xs[FirstOf(errors)] ELSE Unary(e.op, xs[1])
    BY <1>11 DEF Visit, Combine, errors
  <2>2. 1 \in DOMAIN xs /\ e.op \in {"not", "-"}
    BY <1>1, <1>11 DEF Children, WellFormed
  <2> QED
    BY <1>2, <1>3, <2>1, <2>2 DEF IsUniverse
<1>12. CASE e.node = "call"
  <2>1. e.func \in DOMAIN Arity /\ Len(e.args) \in Arity[e.func]
    BY <1>12 DEF WellFormed
  <2>2. Visit(e, facts, xs) = IF errors # {} THEN xs[FirstOf(errors)] ELSE Call(e.func, xs)
    BY <1>12, <2>1 DEF Visit, Combine, errors
  <2>3. Len(e.args) \in Nat
    BY <1>12 DEF IsForest
  <2>4. Len(e.args) >= 1
    <3>1. DOMAIN Arity = {"len", "lower", "upper", "startswith", "endswith", "matches", "any_of"}
      BY DEF Arity
    <3>2. \A f \in {"len", "lower", "upper"} : Arity[f] = 1..1
      BY DEF Arity
    <3>3. \A f \in {"startswith", "endswith", "matches"} : Arity[f] = 2..2
      BY DEF Arity
    <3>4. Arity["any_of"] = 2..MaxNodes
      BY DEF Arity
    <3>5. CASE e.func \in {"len", "lower", "upper"}
      BY <2>1, <2>3, <3>2, <3>5
    <3>6. CASE e.func \in {"startswith", "endswith", "matches"}
      BY <2>1, <2>3, <3>3, <3>6
    <3>7. CASE e.func = "any_of"
      BY <2>1, <2>3, <3>4, <3>7, LimitsAssumption
    <3> QED
      BY <2>1, <3>1, <3>5, <3>6, <3>7
  <2>5. 1 \in DOMAIN xs
    BY <1>1, <1>12, <2>3, <2>4 DEF Children
  <2> QED
    BY <1>2, <1>3, <2>1, <2>2, <2>5, CallReached
<1>13. CASE e.node = "display"
  <2>1. Visit(e, facts, xs) = IF errors # {} THEN xs[FirstOf(errors)] ELSE Display(e.kind, xs)
    BY <1>13 DEF Visit, Combine, errors
  <2>2. e.kind \in {"list", "tuple", "set"}
    BY <1>13 DEF IsForest
  <2>4. errors = {} => xs \in Seq(values)
    BY <1>1, <1>3
  <2> QED
    BY <1>2, <2>1, <2>2, <2>4 DEF IsUniverse
<1>14. e.node \in {"constant", "name", "attribute", "subscript", "bool", "unary", "compare",
                   "call", "display"}
  BY DEF WellFormed
<1> QED
  BY <1>5, <1>6, <1>7, <1>8, <1>9, <1>10, <1>11, <1>12, <1>13, <1>14

LEMMA AllowedIsReached ==
    ASSUME NEW trees, IsForest(trees), Evaluates(trees), IsGrounded(trees), IsAllowlist(trees),
           NEW values, IsUniverse(values), HasConstants(values, trees),
           NEW facts, \A n \in DOMAIN facts : facts[n] \in values,
           NEW e \in trees, Allowed(e)
    PROVE  ValueOf(e, facts) \in Reached(values)
<1> DEFINE bad == {t \in trees : Allowed(t) /\ ValueOf(t, facts) \notin Reached(values)}
<1>1. PICK height \in [trees -> Nat] :
          \A t \in trees : \A i \in DOMAIN Children(t) : height[Children(t)[i]] < height[t]
  BY DEF IsGrounded
<1>2. ASSUME bad # {} PROVE FALSE
  <2> DEFINE heights == {height[t] : t \in bad}
  <2>1. heights \in SUBSET Nat /\ heights # {}
    BY <1>1, <1>2
  <2>2. PICK n \in heights : \A m \in heights : n <= m
    <3> HIDE DEF heights
    <3> QED
      BY <2>1, FirstExists
  <2>3. PICK t \in bad : height[t] = n
    OBVIOUS
  <2>4. WellFormed(t) /\ \A i \in DOMAIN Children(t) : Allowed(Children(t)[i])
    BY DEF IsAllowlist
  <2>5. Children(t) \in Seq(trees)
    BY <2>4, ChildrenOf
  <2>6. ASSUME NEW i \in DOMAIN Children(t)
        PROVE  ValueOf(Children(t)[i], facts) \in Reached(values)
    <3>1. Children(t)[i] \in trees /\ Allowed(Children(t)[i])
      BY <2>4, <2>5
    <3>2. height[Children(t)[i]] < height[t]
      BY <1>1
    <3>3. height[Children(t)[i]] \in Nat /\ height[t] \in Nat
      BY <1>1, <3>1
    <3>4. Children(t)[i] \notin bad
      BY <2>2, <2>3, <3>2, <3>3
    <3> QED
      BY <3>1, <3>4
  <2>7. PICK xs : xs = ValuesBelow(t, facts)
    OBVIOUS
  <2>8. /\ DOMAIN xs = DOMAIN Children(t) /\ xs = [i \in DOMAIN xs |-> xs[i]]
        /\ \A i \in DOMAIN xs : xs[i] \in Reached(values)
    BY <2>6, <2>7 DEF ValuesBelow
  <2>9. t.node = "constant" => t.value \in values
    BY <2>4 DEF HasConstants
  <2>10. Visit(t, facts, xs) \in Reached(values)
    BY <2>4, <2>8, <2>9, VisitReached
  <2>11. ValueOf(t, facts) = Visit(t, facts, xs)
    BY <2>7 DEF Evaluates
  <2> QED
    BY <2>10, <2>11
<1> QED
  BY <1>2

\* What policy is asked about is made of values.
KnowsFacts(values) ==
    /\ \A r \in DOMAIN Arrivals :
          {Str(Arrivals[r].requester), Bool(Arrivals[r].is_agent), Arrivals[r].on_behalf_of}
              \subseteq values
    /\ \A d \in Served :
          /\ Str(Documents[d].id) \in values
          /\ \A asked \in SUBSET DOMAIN Durations : Whole(Clamp(Documents[d], asked)) \in values
    /\ \A n \in Loads \cup Hours : Whole(n) \in values
    /\ \A d \in Served, r \in DOMAIN Arrivals :
          LET result == Validation(Closed(Documents[d].inputs), Sent(Arrivals[r]))
          IN ~Refused(result) => result.value \in values

LEMMA ContextIsKnown ==
    ASSUME NEW CONSTANT values, IsUniverse(values), KnowsFacts(values), ValidatesToMaps,
           GateInv, Asking
    PROVE  \A n \in DOMAIN context : context[n] \in values
<1>1. AskedAbout /\ FromOutside /\ step \in Serving
  BY DEF GateInv, Asking, Serving
<1>2. PICK d \in Served : path = [Documents[d] EXCEPT !.inputs = Closed(Documents[d].inputs)]
  BY <1>1 DEF FromOutside
<1>3. "inputs" \in DOMAIN Documents[d]
  BY DocumentsAssumption DEF Served
<1>4. /\ path.inputs = Closed(Documents[d].inputs) /\ path.id = Documents[d].id
      /\ path.default_ttl = Documents[d].default_ttl /\ path.max_ttl = Documents[d].max_ttl
  BY <1>2, <1>3
<1>5. PICK r \in DOMAIN Arrivals : request = Arrivals[r]
  BY <1>1 DEF FromOutside
<1>6. Remaining = Sent(Arrivals[r])
  BY <1>5 DEF Remaining, Sent
<1>7. /\ inputs \in values /\ inputs.type = "map"
      /\ \A n \in DOMAIN inputs.val : ~IsError(inputs.val[n])
  BY <1>1, <1>4, <1>6 DEF AskedAbout, ValidatesToMaps, KnowsFacts
<1>8. \A n \in DOMAIN inputs.val : inputs.val[n] \in values
  <2> TAKE n \in DOMAIN inputs.val
  <2>1. Attribute(inputs, n) = inputs.val[n]
    BY <1>7 DEF Attribute
  <2>2. \A x \in values : \A attr : Attribute(x, attr) \in Reached(values)
    BY DEF IsUniverse
  <2>3. inputs.val[n] \in Reached(values)
    BY <1>7, <2>1, <2>2
  <2> QED
    BY <1>7, <2>3, ErrorsReached
<1>9. Whole(ttl) \in values
  <2>1. ttl = Clamp(Documents[d], Asked) /\ Asked \in SUBSET DOMAIN Durations
    BY <1>1, <1>4 DEF AskedAbout, TtlIsValid, Clamp
  <2> QED
    BY <2>1 DEF KnowsFacts
<1>10. PICK live \in Loads, hour \in Hours : context = Context(inputs, ttl, live, hour)
  BY <1>1 DEF AskedAbout
<1>11. Whole(live) \in values /\ Whole(hour) \in values
  BY DEF KnowsFacts
<1>12. /\ Str(request.requester) \in values /\ Bool(request.is_agent) \in values
       /\ request.on_behalf_of \in values /\ Str(path.id) \in values
  BY <1>4, <1>5 DEF KnowsFacts
<1> DEFINE facts == [input |-> inputs, requester |-> Str(request.requester),
                     is_agent |-> Bool(request.is_agent), on_behalf_of |-> request.on_behalf_of,
                     golden_path |-> Str(path.id), ttl_seconds |-> Whole(ttl),
                     active_leases_for_requester |-> Whole(live), hour_utc |-> Whole(hour)]
           named == {"env"} \cap DOMAIN inputs.val
<1>13. \A n \in DOMAIN facts : facts[n] \in values
  BY <1>7, <1>9, <1>11, <1>12
<1>14. context = [n \in DOMAIN facts \cup named |-> IF n \in named THEN inputs.val[n] ELSE facts[n]]
  BY <1>10 DEF Context
<1>15. named \subseteq DOMAIN inputs.val
  OBVIOUS
<1> HIDE DEF facts, named
<1> QED
  BY <1>8, <1>13, <1>14, <1>15

\* ServedRulesAreKnown: the two lists of what is allowed agree.  Whatever the
\* catalog lets in, the evaluator knows every node of it, every comparison and
\* every helper, however deep: it never comes to its own internal error.
THEOREM ServedRulesAreKnownHolds ==
    ASSUME NEW CONSTANT trees, IsForest(trees), Evaluates(trees), IsGrounded(trees),
           IsAllowlist(trees), HasRules(trees),
           NEW CONSTANT values, IsUniverse(values), HasConstants(values, trees),
           KnowsFacts(values), ValidatesToMaps
    PROVE  Spec => []ServedRulesAreKnown
<1>1. GateInv => ServedRulesAreKnown
  <2> SUFFICES ASSUME GateInv, Asking, NEW i \in DOMAIN path.policy, path.policy[i].when # <<>>
               PROVE  ValueOf(path.policy[i].when[1], context) # Internal
    BY DEF ServedRulesAreKnown
  <2>1. PICK d \in Served : path.policy = Documents[d].policy
    BY DEF GateInv, FromOutside, Asking, Serving
  <2>2. PICK e, facts : e = path.policy[i].when[1] /\ facts = context
    OBVIOUS
  <2>3. e \in trees /\ Allowed(e)
    BY <2>1, <2>2 DEF HasRules, Served, Loadable, Compiles
  <2>4. \A n \in DOMAIN facts : facts[n] \in values
    BY <2>2, ContextIsKnown
  <2>5. ValueOf(e, facts) \in Reached(values)
    BY <2>3, <2>4, AllowedIsReached
  <2>6. Internal \notin Reached(values)
    <3>1. IsError(Internal) /\ Internal # Failure
      BY DEF Internal, Failure, Raised, IsError
    <3> QED
      BY <3>1, ErrorsReached
  <2> QED
    BY <2>2, <2>5, <2>6
<1> QED
  BY <1>1, GateInvariance, PTL

=============================================================================
