---------------------------- MODULE MCRequestGate ----------------------------
(***************************************************************************)
(* RequestGate for TLC: rules put together from a few operands, in front   *)
(* of the rules of two golden paths, and requests on both sides of every   *)
(* limit of theirs.                                                        *)
(***************************************************************************)
EXTENDS RuleTrees, InputValidation

MCSpelling == ("" :> <<>>) @@ ("a" :> <<97>>) @@ ("A" :> <<65>>) @@ ("ab" :> <<97, 98>>) @@ ("aA" :> <<97, 65>>)
              @@ ("abc" :> <<97, 98, 99>>) @@ ("env" :> <<101, 110, 118>>)
              @@ ("A+" :> <<65, 43>>) @@ ("30s" :> <<51, 48, 115>>)
              @@ ("1m" :> <<49, 109>>) @@ ("2m" :> <<50, 109>>) @@ ("0s" :> <<48, 115>>)
MCUppercase == "a" :> "A"
MCLanguages == "A+" :> {"A"}
MCFound == "A+" :> {"A", "aA", "A+"}
MCDurations == ("30s" :> 30) @@ ("1m" :> 60) @@ ("2m" :> 120)

Unary_(op, x) == [node |-> "unary", op |-> op, operand |-> x]
Either(values) == Connection("or", values)
Among(kind, elts) == [node |-> "display", kind |-> kind, elts |-> elts]
Field(k) == [node |-> "attribute", value |-> Name("input"), attr |-> k]
Item(x, k) == [node |-> "subscript", value |-> x, slice |-> k]
Helper(func, args) == [node |-> "call", func |-> func, args |-> args]
Chained(x, op, y, op2, z) == [node |-> "compare", left |-> x, ops |-> <<op, op2>>,
                              comparators |-> <<y, z>>]

S(s) == Constant(Str(s))
N(n) == Constant(Whole(n))

Operands == <<
    Name("env"), Field("size"), Name("input"), Field("opts"), Item(Field("tags"), Unary_("-", N(1))),
    Field("tags"), S("a"), N(1), Name("true"), Name("null"),
    Among("set", <<S("a"), N(1), N(1)>>), Among("tuple", <<N(0), S("ab")>>),
    Helper("len", <<Field("tags")>>)
>>
Ops == <<"==", "!=", "<", ">=", "in", "not in", "is">>

Comparisons_ == [n \in 0..Len(Operands) * Len(Operands) * Len(Ops) - 1 |->
    LET k == Len(Operands)
    IN Comparison(Operands[(n % k) + 1], Ops[(n \div (k * k)) + 1], Operands[((n \div k) % k) + 1])]

\* Conditions that hold, do not hold, are broken, or depend on the request.
Conditions == <<
    Name("is_agent"), Comparison(Name("env"), "==", S("ab")), Name("typo"), S("a"),
    Comparison(Field("size"), "<=", N(1))
>>
Pairs == [n \in 0..Len(Conditions) * Len(Conditions) - 1 |->
    <<Conditions[(n % Len(Conditions)) + 1], Conditions[(n \div Len(Conditions)) + 1]>>]
Few == <<N(0), N(1), Name("hour_utc"), S("a"), Field("size")>>
Triples == [n \in 0..Len(Few) * Len(Few) * Len(Few) - 1 |->
    <<Few[(n % 5) + 1], Few[((n \div 5) % 5) + 1], Few[(n \div 25) + 1]>>]

Others == <<
    Item(Name("input"), S("env")), Item(Name("env"), N(0)), Item(N(1), N(0)),
    Item(Name("env"), [node |-> "slice"]), Unary_("-", S("a")), Unary_("~", N(1)),
    Comparison(Item(S("ab"), N(0)), "==", S("a")), Comparison(Item(S("ab"), N(2)), "==", S("a")),
    Comparison(Helper("upper", <<Name("env")>>), "==", S("A")),
    Comparison(Helper("lower", <<S("A")>>), "==", S("a")), Helper("lower", <<N(1)>>),
    Helper("startswith", <<Name("env"), Among("list", <<S("a"), S("abc")>>)>>),
    Helper("startswith", <<Name("env"), Among("list", <<S("a"), N(1)>>)>>),
    Helper("endswith", <<Name("env"), S("ab")>>), Helper("matches", <<S("A"), S("A+")>>),
    Helper("matches", <<S("abc"), S("A+")>>), Helper("matches", <<S("A"), S("ab")>>),
    Helper("matches", <<S("A"), S("env")>>), Helper("any_of", <<S("a")>>),
    Helper("any_of", <<Name("env"), S("a"), S("ab")>>), Helper("any_of", <<Name("env"), Field("tags")>>),
    Helper("eval", <<S("a")>>), Helper("len", <<Name("input")>>), Helper("len", <<N(1)>>),
    Name("__class__"), [Field("env") EXCEPT !.attr = "__class__"], [node |-> "lambda"],
    Constant([type |-> "bytes", val |-> 0]), Among("list", <<N(1), N(1), N(1), N(1)>>),
    Among("set", <<Among("list", <<N(1)>>)>>), Comparison(Field("tags"), "in", Among("set", <<N(1)>>)),
    Comparison(Among("set", <<N(1), N(0)>>), "<", Among("set", <<N(0), N(1), S("a")>>)),
    Comparison(Among("list", <<N(1), S("a")>>), "<", Among("list", <<N(1), N(2)>>)),
    Comparison(Among("tuple", <<N(1), N(2)>>), ">", Among("tuple", <<N(1), N(1)>>)),
    Unary_("not", Unary_("not", Unary_("not", Unary_("not", Name("is_agent"))))),
    Conjunction([i \in 1..13 |-> Name("is_agent")])
>>

C == Len(Operands) * Len(Operands) * Len(Ops)
P == Len(Conditions) * Len(Conditions)
T == Len(Few) * Len(Few) * Len(Few)
Expression(n) ==
    CASE n < C -> Comparisons_[n]
      [] n >= C /\ n < C + P -> Conjunction(Pairs[n - C])
      [] n >= C + P /\ n < C + 2 * P -> Either(Pairs[n - C - P])
      [] n >= C + 2 * P /\ n < C + 2 * P + T ->
            LET t == Triples[n - C - 2 * P] IN Chained(t[1], "<=", t[2], "<", t[3])
      [] n >= C + 2 * P + T -> Others[n - C - 2 * P - T + 1]
Expressions_ == C + 2 * P + T + Len(Others)

Rule_(when, effect, approvers) == [when |-> when, effect |-> effect, approvers |-> approvers]
Property(type, more) == more @@ [type |-> {type}]

\* The inputs of the path: an environment, a size, tags and nested options.
Inputs == [
    type |-> {"object"}, required |-> {"size"},
    properties |-> [
        env |-> Property("string", [enum |-> <<Str("ab"), Str("a")>>]),
        size |-> Property("integer", [minimum |-> 1, exclusiveMaximum |-> 3]),
        name |-> Property("string", [maxLength |-> 2, minLength |-> 1, default |-> Str("a")]),
        tags |-> Property("array", [uniqueItems |-> TRUE, maxItems |-> 2,
                                    items |-> Property("string", [title |-> "tag"])]),
        opts |-> Property("object", [
            default |-> Map(<<>>), additionalProperties |-> <<Property("boolean", <<>>)>>,
            properties |-> [step |-> Property("number", [multipleOf |-> 2,
                                                         default |-> Whole(2)])]])]]

Path(when) == [
    id |-> "path", enabled |-> TRUE, provider |-> "memory", outputs |-> <<"URL">>,
    default_ttl |-> 60, max_ttl |-> 90, warn_before |-> 10, inputs |-> Inputs,
    policy |-> <<Rule_(<<when>>, "require_approval", <<"boss">>),
                 Rule_(<<Comparison(Name("active_leases_for_requester"), ">=", N(1))>>, "deny", <<>>),
                 Rule_(<<>>, "allow", <<"boss">>)>>]

\* Files that are wrong, closed or short of something, and a path whose
\* ceiling lies below the shortest lease.
Plain == Path(Name("is_agent"))
Files == <<
    [Plain EXCEPT !.enabled = FALSE], [Plain EXCEPT !.provider = "unknown"],
    [Plain EXCEPT !.warn_before = 60], [Plain EXCEPT !.default_ttl = 120],
    [Plain EXCEPT !.outputs = <<"URL", "URL">>], [Plain EXCEPT !.inputs.required = {"siz"}],
    [Plain EXCEPT !.inputs.type = {"string"}], [Plain EXCEPT !.policy = SubSeq(@, 1, 2)],
    [Plain EXCEPT !.policy = Reverse(@)],
    [Plain EXCEPT !.inputs.properties.name = Property("string", [format |-> "host", oneOf |-> {}])],
    [Plain EXCEPT !.inputs.properties.name = Property("text", <<>>)],
    [Plain EXCEPT !.inputs.properties.name = Property("string", [pattern |-> "ab"])],
    [Plain EXCEPT !.inputs.properties.name = Property("string", "pattern" :> "A+" @@ "$comment" :> "x")],
    [Plain EXCEPT !.inputs.properties.name = Property("string", [default |-> Whole(1)])],
    [Plain EXCEPT !.default_ttl = 20, !.max_ttl = 30]
>>
MCDocuments == [n \in 1..Expressions_ + Len(Files) |->
    IF n <= Expressions_ THEN Path(Expression(n - 1)) ELSE Files[n - Expressions_]]
Request(values, duration) ==
    [requester |-> "a", is_agent |-> TRUE, on_behalf_of |-> Null, inputs |-> Map(values),
     ttl |-> duration]
List(vals) == [type |-> "list", val |-> vals]

MCArrivals == <<
    Request([size |-> Whole(1)], ""),
    [Request([size |-> Whole(2), env |-> Str("ab"), tags |-> List(<<Str("a"), Str("ab")>>)], "2m")
        EXCEPT !.is_agent = FALSE, !.on_behalf_of = Str("ab")],
    Request([size |-> Whole(1), env |-> Str("a"), name |-> Str("ab"), ttl |-> Str("30s"),
             opts |-> Map([fast |-> Bool(TRUE)])], "")
>>
Wrong == <<
    Request(<<>>, ""), Request([size |-> Whole(3)], ""), Request([size |-> Bool(TRUE)], ""),
    Request([size |-> Whole(1), siz |-> Whole(1)], ""),
    Request([size |-> Whole(1), name |-> Str("abc")], ""),
    Request([size |-> Whole(1), name |-> Str("")], ""),
    Request([size |-> Whole(1), name |-> Str("aA")], ""),
    Request([size |-> Whole(1), env |-> Str("abc")], ""),
    Request([size |-> Whole(1), tags |-> List(<<Str("a"), Str("a")>>)], ""),
    Request([size |-> Whole(1), tags |-> List(<<Str("a"), Whole(1)>>)], ""),
    Request([size |-> Whole(1), tags |-> List(<<Str("a"), Str("ab"), Str("abc")>>)], ""),
    Request([size |-> Whole(1), opts |-> Map([step |-> Whole(3)])], ""),
    Request([size |-> Whole(1), opts |-> Map([fast |-> Whole(0)])], ""),
    Request([size |-> Whole(1), ttl |-> Whole(60)], ""),
    Request([size |-> Whole(1), ttl |-> Str("1m")], "2m"),
    Request([size |-> Whole(1)], "0s")
>>
MCAllArrivals == MCArrivals \o Wrong

\* What GateProofs assumes holds of these rules and requests.
RECURSIVE Subtrees(_)
Subtrees(e) == {e} \cup UNION {Subtrees(Children(e)[i]) : i \in DOMAIN Children(e)}
Written == {Expression(n) : n \in 0..Expressions_ - 1}
Guards == {PresentAndEqual(k, s) : k \in DOMAIN Inputs.properties, s \in DOMAIN MCSpelling}
Trees == UNION {Subtrees(e) : e \in Written \cup Guards \cup UNION {Rewritings(e) : e \in Written}
                                  \cup {Comparison(Name("active_leases_for_requester"), ">=", N(1))}}

ASSUME RulesAreTrees ==
    IsForest(Trees) /\ IsAllowlist(Trees) /\ Covers(Trees) /\ Supports(Trees) /\ ValidatesToMaps

=============================================================================
