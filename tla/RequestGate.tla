----------------------------- MODULE RequestGate -----------------------------
(***************************************************************************)
(* What stands between a request and a row of the leases table: the        *)
(* catalog file (src/bailment/catalog/), the inputs and the duration       *)
(* (request_provision of src/bailment/engine/service.py), and the policy   *)
(* chain (src/bailment/policy/engine.py), rule after rule.                 *)
(*                                                                         *)
(* One request against one golden path.  Requests shows how several race.  *)
(***************************************************************************)
EXTENDS Operations, TLC

CONSTANTS
    Documents,      \* a sequence of catalog files
    Arrivals,       \* a sequence of requests
    Loads,          \* how many live leases the requester may hold
    Hours,          \* the hours of the day at which requests arrive
    Registered,     \* the providers of this deployment
    Durations,      \* the strings that are durations, with their seconds
    MIN_TTL_SECONDS,
    Allowed(_),       \* validate_expression: the rule is let in
    ValueOf(_, _),    \* an expression in a context; Expressions has both
    Validation(_, _)  \* validate_inputs: values against a schema; InputValidation has it

ASSUME TtlAssumption == MIN_TTL_SECONDS \in Nat /\ \A d \in DOMAIN Durations : Durations[d] > 0

\* What a rule may say, and a chain of them.
EFFECTS == {"allow", "deny", "require_approval"}
IsChain(rules) == /\ Len(rules) \in Nat /\ rules = [i \in 1..Len(rules) |-> rules[i]]
                  /\ \A i \in DOMAIN rules : rules[i].effect \in EFFECTS

ASSUME DocumentsAssumption ==
    \A d \in DOMAIN Documents :
        {"policy", "inputs"} \subseteq DOMAIN Documents[d] /\ IsChain(Documents[d].policy)

VARIABLES
    path,     \* the golden path
    request,  \* the call
    step,     \* how far it has come
    inputs,   \* as validated
    ttl,      \* as clamped
    context,  \* what policy may know
    traces,   \* what happened at each rule
    decision, \* of the chain, once there is one
    lease     \* the row

vars == <<path, request, step, inputs, ttl, context, traces, decision, lease>>

Map(val) == [type |-> "map", val |-> val]
Str(s) == [type |-> "str", val |-> s]

NoDecision == [effect |-> "none", rule |-> 0, approvers |-> <<>>]
NoLease == [state |-> "none", inputs |-> Map(<<>>), ttl |-> 0, approvers |-> <<>>, rule |-> 0]

Init ==
    /\ \E d \in DOMAIN Documents : path = Documents[d]
    /\ \E r \in DOMAIN Arrivals : request = Arrivals[r]
    /\ step = "file"
    /\ inputs = Map(<<>>) /\ ttl = 0 /\ context = <<>>
    /\ traces = <<>> /\ decision = NoDecision /\ lease = NoLease

-----------------------------------------------------------------------------
\* The catalog.

\* LeasePolicy._check_ordering.
TtlsOrdered(p) == p.default_ttl <= p.max_ttl /\ p.warn_before < p.default_ttl

\* GoldenPath._check_policy_has_default.
EndsInDefault(p) ==
    /\ p.policy # <<>> /\ Last(p.policy).when = <<>>
    /\ \A i \in 1..Len(p.policy) - 1 : p.policy[i].when # <<>>

\* _check_policy_expressions.
Compiles(p) == \A i \in DOMAIN p.policy : p.policy[i].when # <<>> => Allowed(p.policy[i].when[1])

\* _check_inputs_schema and _check_semantics.
DeclaresInputs(p) ==
    /\ p.inputs.type = {"object"} /\ "properties" \in DOMAIN p.inputs
    /\ "required" \in DOMAIN p.inputs => p.inputs.required \subseteq DOMAIN p.inputs.properties
NamesOutputsOnce(p) == IsInjective(p.outputs)

Loadable(p) == TtlsOrdered(p) /\ EndsInDefault(p) /\ Compiles(p)
               /\ DeclaresInputs(p) /\ NamesOutputsOnce(p)

\* An open schema is closed, not refused.
Closed(schema) == [additionalProperties |-> <<>>] @@ schema

\* load_catalog, at startup: a file is served as it was checked, or not at all.
Load ==
    /\ step = "file"
    /\ step' = IF Loadable(path) THEN "served" ELSE "unserved"
    /\ path' = IF Loadable(path) THEN [path EXCEPT !.inputs = Closed(path.inputs)] ELSE path
    /\ UNCHANGED <<request, inputs, ttl, context, traces, decision, lease>>

-----------------------------------------------------------------------------
\* The request.

\* _split_lease_arguments: `ttl` is no input of the path.
Embedded == IF "ttl" \in DOMAIN request.inputs.val THEN request.inputs.val["ttl"] ELSE Null
Remaining == Map([k \in DOMAIN request.inputs.val \ {"ttl"} |-> request.inputs.val[k]])
Asked == ({request.ttl} \cup (IF IsText(Embedded) THEN {Embedded.val} ELSE {})) \ {""}

TtlIsValid == /\ Embedded.type \in {"str", "null"}
              /\ Cardinality(Asked) <= 1 /\ Asked \subseteq DOMAIN Durations

\* clamp_ttl: never a refusal.
Clamp(p, asked) ==
    IF asked = {} THEN p.default_ttl
    ELSE LET seconds == Durations[CHOOSE d \in asked : TRUE]
         IN IF seconds > p.max_ttl THEN p.max_ttl
            ELSE IF seconds < MIN_TTL_SECONDS THEN MIN_TTL_SECONDS ELSE seconds

\* RequestContext.as_mapping: `env` is there when the request has it.
Context(values, seconds, live, hour) ==
    LET facts == [input |-> values, requester |-> Str(request.requester),
                  is_agent |-> Bool(request.is_agent), on_behalf_of |-> request.on_behalf_of,
                  golden_path |-> Str(path.id), ttl_seconds |-> Whole(seconds),
                  active_leases_for_requester |-> Whole(live), hour_utc |-> Whole(hour)]
        named == {"env"} \cap DOMAIN values.val
    IN [n \in DOMAIN facts \cup named |-> IF n \in named THEN values.val[n] ELSE facts[n]]

Refused(result) == result.problem \/ result.unusable

\* Up to the policy: everything that turns a request away without a row.
Answer(outcome) ==
    /\ step' = outcome
    /\ UNCHANGED <<path, request, inputs, ttl, context, traces, decision, lease>>

Receive ==
    /\ step = "served"
    /\ \E result \in {Validation(path.inputs, Remaining)} :
       LET valid == TtlIsValid /\ ~Refused(result) IN
       \/ ~path.enabled /\ Answer("not_found")
       \/ path.enabled /\ ~valid /\ Answer("invalid")
       \/ path.enabled /\ valid /\ path.provider \notin Registered /\ Answer("unavailable")
       \/ /\ path.enabled /\ valid /\ path.provider \in Registered
          /\ inputs' = result.value /\ ttl' = Clamp(path, Asked)
          /\ \E live \in Loads, hour \in Hours : context' = Context(inputs', ttl', live, hour)
          /\ step' = "deciding"
          /\ UNCHANGED <<path, request, traces, decision, lease>>

-----------------------------------------------------------------------------
\* PolicyEngine._walk.

Outcome(e, facts) == Judged(Allowed(e), ValueOf(e, facts))

Rule == path.policy[Len(traces) + 1]
OutcomeOf(rule) == IF rule.when = <<>> THEN [ok |-> TRUE, value |-> TRUE]
                                       ELSE Outcome(rule.when[1], context)
Deny(i) == [effect |-> "deny", rule |-> i, approvers |-> <<>>]

\* _decide: approvers mean nothing on another effect.
Decide(i, rule) ==
    [effect |-> rule.effect, rule |-> i,
     approvers |-> IF rule.effect = "require_approval" THEN rule.approvers ELSE <<>>]

Traced(outcome, decided) ==
    /\ traces' = Append(traces, outcome) /\ decision' = decided
    /\ UNCHANGED <<path, request, step, inputs, ttl, context, lease>>

AtRule == step = "deciding" /\ Len(traces) < Len(path.policy)
Open == decision = NoDecision

\* MUTANT of Broken: a rule that cannot be evaluated is passed over.
Overlooked(i, outcome) == Open /\ ~outcome.ok /\ Traced("error", NoDecision)

\* MUTANT of Pass: rules behind the one that decided are tried as well.
PassDecided(i, outcome) == outcome.ok /\ ~outcome.value /\ Traced("not_matched", decision)

Broken(i, outcome) == Open /\ ~outcome.ok /\ Traced("error", Deny(i))
Match(i, outcome) == Open /\ outcome.value /\ Traced("matched", Decide(i, Rule))
Pass(i, outcome) == Open /\ outcome.ok /\ ~outcome.value /\ Traced("not_matched", NoDecision)
LeaveOut(i, outcome) == ~Open /\ Traced("not_evaluated", decision)

Walk ==
    /\ AtRule
    /\ \E outcome \in {OutcomeOf(Rule)} :
          LET i == Len(traces) + 1 IN
          Broken(i, outcome) \/ Match(i, outcome) \/ Pass(i, outcome) \/ LeaveOut(i, outcome)

-----------------------------------------------------------------------------
\* The row.

\* MUTANT of Row: the inputs as they were sent.
RowAsSent(state) == [state |-> state, inputs |-> Remaining, ttl |-> ttl,
                     approvers |-> decision.approvers, rule |-> decision.rule]

Row(state) == [state |-> state, inputs |-> inputs, ttl |-> ttl,
               approvers |-> decision.approvers, rule |-> decision.rule]

\* _apply_decision: what is neither allowed nor left to a human is rejected.
Apply ==
    /\ step = "deciding" /\ Len(traces) = Len(path.policy)
    /\ lease' = Row(CASE decision.effect = "allow" -> "pending"
                      [] decision.effect = "require_approval" -> "awaiting_approval"
                      [] OTHER -> "rejected")
    /\ step' = "answered"
    /\ UNCHANGED <<path, request, inputs, ttl, context, traces, decision>>

Next == Load \/ Receive \/ Walk \/ Apply

Spec == Init /\ [][Next]_vars

-----------------------------------------------------------------------------

Answered == step = "answered"

\* The chain is about to be walked; what it is asked about stays as it is.
Asking == step = "deciding" /\ traces = <<>>

\* What the first rule that matches or cannot be evaluated does to the row.
RowFollows(outcomes) ==
    LET first == FirstOf({i \in DOMAIN outcomes : ~outcomes[i].ok \/ outcomes[i].value})
        effect == IF outcomes[first].ok THEN path.policy[first].effect ELSE "deny"
    IN lease.rule = first
       /\ lease.state = [allow |-> "pending", deny |-> "rejected",
                         require_approval |-> "awaiting_approval"][effect]

\* The chain means what its author reads: the first rule that matches decides,
\* and a rule that cannot be evaluated stops everybody who comes as far as it.
FirstMatchDecides ==
    Answered => RowFollows([i \in DOMAIN path.policy |-> OutcomeOf(path.policy[i])])

\* The trace the dashboard shows tells the story of the row: the rules before
\* the one that decided did not match, and none was tried after it.
TraceTellsWhy ==
    Answered => \A i \in DOMAIN traces :
        CASE i < lease.rule -> traces[i] = "not_matched"
          [] i = lease.rule -> traces[i] \in {"matched", "error"}
          [] i > lease.rule -> traces[i] = "not_evaluated"

\* A rule the catalog serves is one the evaluator knows how to evaluate: the
\* two lists of what is allowed agree.
ServedRulesAreKnown ==
    Asking => \A i \in DOMAIN path.policy :
        path.policy[i].when # <<>> => ValueOf(path.policy[i].when[1], context) # Internal

Connection(op, values) == [node |-> "bool", op |-> op, values |-> values]
Conjunction(values) == Connection("and", values)
Not(e) == [node |-> "unary", op |-> "not", operand |-> e]
Constant(value) == [node |-> "constant", value |-> value]
Name(id) == [node |-> "name", id |-> id]
Comparison(left, op, right) ==
    [node |-> "compare", left |-> left, ops |-> <<op>>, comparators |-> <<right>>]

\* "env" in input and input.env == "prod"
PresentAndEqual(k, s) ==
    LET field == [node |-> "attribute", value |-> Name("input"), attr |-> k]
    IN Conjunction(<<Comparison(Constant(Str(k)), "in", Name("input")),
                     Comparison(field, "==", Constant(Str(s)))>>)

\* The supported way to write a rule about an optional input never trips over
\* the request that leaves the input out, and is true of the ones that carry
\* the value.
OptionalInputsAreSafe ==
    Asking => \A k \in DOMAIN path.inputs.properties, s \in DOMAIN Spelling :
        LET holds == k \in DOMAIN inputs.val /\ Equal(inputs.val[k], Str(s))
        IN Outcome(PresentAndEqual(k, s), context) = [ok |-> TRUE, value |-> holds]

Dual(op) == IF op = "and" THEN "or" ELSE "and"

\* Other ways to write an expression, which a reader takes to mean the same.
Rewritings(e) ==
    LET operands == <<e.left>> \o e.comparators
        links == [i \in DOMAIN e.ops |-> Comparison(operands[i], e.ops[i], operands[i + 1])]
        options == [node |-> "display", kind |-> "list", elts |-> Tail(e.args)]
    IN
    CASE e.node = "bool" -> {Not(Connection(Dual(e.op), [i \in DOMAIN e.values |-> Not(e.values[i])]))}
      [] e.node = "compare" /\ Len(e.ops) > 1 -> {Conjunction(links)}
      [] e.node = "compare" /\ e.ops = <<"not in">> ->
            {Not(Comparison(e.left, "in", e.comparators[1]))}
      [] e.node = "call" /\ e.func = "any_of" /\ Len(e.args) > 2 ->
            {Comparison(e.args[1], "in", options)}
      [] OTHER -> {}

Agree(x, y) == IsError(x) = IsError(y) /\ (~IsError(x) => Equal(x, y))

\* De Morgan, the chained comparison as a conjunction, `not in` and any_of()
\* come to the same outcome, errors included.
RewritingsAgree ==
    Asking => \A i \in DOMAIN path.policy :
        path.policy[i].when # <<>> =>
        LET e == path.policy[i].when[1]
        IN \A other \in Rewritings(e) : Agree(ValueOf(e, context), ValueOf(other, context))

\* The row carries what policy was asked about, and what it carries would pass
\* the schema again and come back as it is: nothing was let in that the path
\* does not declare, no default is missing, none overruled the caller.
RowStandsTheSchema ==
    Answered =>
    \E again \in {Validation(path.inputs, lease.inputs)} :
    /\ ~Refused(again) /\ Equal(again.value, lease.inputs)
    /\ DOMAIN lease.inputs.val \subseteq DOMAIN path.inputs.properties
    /\ \A k \in DOMAIN Remaining.val :
          Remaining.val[k].type # "map" => Equal(lease.inputs.val[k], Remaining.val[k])

\* Policy saw what will happen: the row's duration and inputs.
PolicySawTheRow ==
    Answered => context["input"] = lease.inputs /\ context["ttl_seconds"].val = lease.ttl

=============================================================================
