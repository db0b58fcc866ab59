----------------------------- MODULE Operations ------------------------------
(***************************************************************************)
(* The expression language of policy rules,                                *)
(* src/bailment/policy/evaluator.py, one node at a time: what a node may   *)
(* look like, and what becomes of the values of the nodes below it.        *)
(* Expressions puts the nodes together.                                    *)
(*                                                                         *)
(* A value carries its Python type; an exception is a value as well.       *)
(*   [type |-> "int", val |-> 3]                                           *)
(* A node of the syntax tree carries its class and the fields of it.       *)
(*   [node |-> "unary", op |-> "not", operand |-> ...]                     *)
(***************************************************************************)
EXTENDS Integers, Sequences, FiniteSets, SequencesExt

CONSTANTS
    Spelling,    \* the strings there are, with their code points
    Uppercase,   \* the strings with small letters, with their upper case
    Languages,   \* the regular expressions that compile, with what they match
    Dunder,      \* the names that start or end with two underscores
    MaxNodes, MaxElements, MaxPatternLength, MaxSubjectLength,
    Equal(_, _),     \* == of Python
    Ordering(_, _),  \* the set of how <, = and > find two values, {} if they raise
    HasHash(_)       \* hash() does not raise

ASSUME LimitsAssumption ==
    {MaxNodes, MaxElements, MaxPatternLength, MaxSubjectLength} \subseteq Nat

Raised(kind) == [type |-> "exception", val |-> kind]
Failure == Raised("ExpressionRuntimeError")
Internal == Raised("unvalidated")
Bool(b) == [type |-> "bool", val |-> b]
Whole(n) == [type |-> "int", val |-> n]
Null == [type |-> "null", val |-> 0]

\* A bool is equal to itself.
ASSUME EqualAssumption == \A b \in BOOLEAN : Equal(Bool(b), Bool(b))

IsError(x) == x.type = "exception"
IsNumber(x) == x.type \in {"bool", "int", "float"}
IsCollection(x) == x.type \in {"list", "tuple", "set"}
IsText(x) == x.type = "str"

\* _require_bool: there are two of them.
IsBool(x) == x.type = "bool" /\ x \in {Bool(TRUE), Bool(FALSE)}

\* True is 1 and False is 0 wherever Python compares.
Num(x) == IF x.type = "bool" THEN (IF x.val THEN 1 ELSE 0) ELSE x.val

Size(x) == CASE IsText(x) -> Len(Spelling[x.val])
             [] IsCollection(x) -> Len(x.val)
             [] x.type = "map" -> Cardinality(DOMAIN x.val)

Text(letters) == [type |-> "str",
                  val |-> CHOOSE s \in DOMAIN Spelling : Spelling[s] = letters]

-----------------------------------------------------------------------------
\* in, < and [] of Python, for the values of JSON, tuples and sets.

Has(x, item) == \E i \in DOMAIN x.val : Equal(x.val[i], item)

Within(inner, outer) ==
    \E i \in 1..Len(outer) - Len(inner) + 1 : inner = SubSeq(outer, i, i + Len(inner) - 1)

\* _contains.  A key of a map, a part of a string, or an element.
IsIn(container, needle) ==
    CASE container.type = "map" ->
            IF HasHash(needle) THEN Bool(IsText(needle) /\ needle.val \in DOMAIN container.val)
                                ELSE Failure
      [] IsText(container) ->
            IF IsText(needle) THEN Bool(Within(Spelling[needle.val], Spelling[container.val]))
                              ELSE Failure
      [] IsCollection(container) -> Bool(Has(container, needle))
      [] OTHER -> Failure

Negation(r) == IF IsError(r) THEN r ELSE Bool(~r.val)

\* _compare.
Admitted(op) == CASE op = "<" -> {"less"}
                  [] op = "<=" -> {"less", "same"}
                  [] op = ">" -> {"more"}
                  [] op = ">=" -> {"more", "same"}
Compare(op, x, y) ==
    LET Ordered(orders) == IF orders = {} THEN Failure ELSE Bool(orders \subseteq Admitted(op))
    IN CASE op \in {"==", "!="} -> Bool(Equal(x, y) = (op = "=="))
         [] op = "in" -> IsIn(y, x)
         [] op = "not in" -> Negation(IsIn(y, x))
         [] op \in {"<", "<=", ">", ">="} -> Ordered(Ordering(x, y))
         [] OTHER -> Internal

\* Dotted access: a key of a map, never an attribute of an object.
Attribute(target, attr) ==
    IF target.type = "map" /\ attr \in DOMAIN target.val THEN target.val[attr] ELSE Failure

Subscript(target, key) ==
    LET size == Size(target)
        at == IF key.val < 0 THEN size + key.val + 1 ELSE key.val + 1
    IN
    CASE target.type = "map" -> IF IsText(key) THEN Attribute(target, key.val) ELSE Failure
      [] target.type \in {"list", "tuple", "str"} ->
            IF key.type # "int" THEN Failure
            ELSE IF at \notin 1..size THEN Failure
            ELSE IF IsText(target) THEN Text(<<Spelling[target.val][at]>>)
            ELSE target.val[at]
      [] OTHER -> Failure

Unary(op, x) ==
    IF op = "not" THEN IF IsBool(x) THEN Bool(~x.val) ELSE Failure
                  ELSE IF x.type \in {"int", "float"} THEN [x EXCEPT !.val = -x.val] ELSE Failure

\* A tuple, list or set of values; a set of what can be hashed, once each.
Display(kind, values) ==
    LET first(i) == \A j \in 1..i - 1 : ~Equal(values[j], values[i])
        once == SelectSeq([i \in DOMAIN values |-> i], first)
    IN
    IF kind # "set" THEN [type |-> kind, val |-> values]
    ELSE IF \E i \in DOMAIN values : ~HasHash(values[i]) THEN Failure
    ELSE [type |-> "set", val |-> [i \in DOMAIN once |-> values[once[i]]]]

-----------------------------------------------------------------------------
\* The helpers.

Texts(x) == IF IsText(x) THEN <<x>> ELSE x.val
AreTexts(x) == IsText(x) \/ (IsCollection(x) /\ \A i \in DOMAIN x.val : IsText(x.val[i]))

StartsWith(s, t) == IsPrefix(Spelling[t], Spelling[s])
EndsWith(s, t) == IsSuffix(Spelling[t], Spelling[s])

Matches(s, pattern) ==
    IF /\ IsText(s) /\ IsText(pattern)
       /\ Size(pattern) <= MaxPatternLength /\ Size(s) <= MaxSubjectLength
       /\ pattern.val \in DOMAIN Languages
    THEN Bool(s.val \in Languages[pattern.val]) ELSE Failure

AnyOf(x, options) ==
    IF Len(options) = 1 /\ IsCollection(options[1]) THEN Bool(Has(options[1], x))
    ELSE Bool(\E i \in DOMAIN options : Equal(options[i], x))

Affix(s, t, atStart) ==
    LET Fits(affix) == IF atStart THEN StartsWith(s.val, affix) ELSE EndsWith(s.val, affix) IN
    IF IsText(s) /\ AreTexts(t)
    THEN Bool(\E i \in DOMAIN Texts(t) : Fits(Texts(t)[i].val)) ELSE Failure

Lower(s) == IF \E t \in DOMAIN Uppercase : Uppercase[t] = s
            THEN CHOOSE t \in DOMAIN Uppercase : Uppercase[t] = s ELSE s
Upper(s) == IF s \in DOMAIN Uppercase THEN Uppercase[s] ELSE s

Call(helper, args) ==
    LET x == args[1] IN
    CASE helper = "len" -> IF IsText(x) \/ IsCollection(x) \/ x.type = "map"
                           THEN Whole(Size(x)) ELSE Failure
      [] helper = "lower" -> IF IsText(x) THEN [x EXCEPT !.val = Lower(x.val)] ELSE Failure
      [] helper = "upper" -> IF IsText(x) THEN [x EXCEPT !.val = Upper(x.val)] ELSE Failure
      [] helper = "startswith" -> Affix(x, args[2], TRUE)
      [] helper = "endswith" -> Affix(x, args[2], FALSE)
      [] helper = "matches" -> Matches(x, args[2])
      [] helper = "any_of" -> AnyOf(x, Tail(args))
      [] OTHER -> Internal

-----------------------------------------------------------------------------
\* The grammar.

\* MUTANT of Comparisons: identity is let through.
AnyComparison == {"==", "!=", "<", "<=", ">", ">=", "in", "not in", "is"}

Comparisons == {"==", "!=", "<", "<=", ">", ">=", "in", "not in"}

\* _HELPER_ARITY, with a bound for the helper that takes any number.
Arity == [len |-> 1..1, lower |-> 1..1, upper |-> 1..1, startswith |-> 2..2,
          endswith |-> 2..2, matches |-> 2..2, any_of |-> 2..MaxNodes]

Literals == [true |-> Bool(TRUE), false |-> Bool(FALSE), null |-> Null]

\* The nodes below a node, in the order they are visited and evaluated.
Children(e) == CASE e.node = "attribute" -> <<e.value>>
                 [] e.node = "subscript" -> <<e.value, e.slice>>
                 [] e.node = "bool" -> e.values
                 [] e.node = "unary" -> <<e.operand>>
                 [] e.node = "compare" -> <<e.left>> \o e.comparators
                 [] e.node = "call" -> e.args
                 [] e.node = "display" -> e.elts
                 [] OTHER -> <<>>

\* What the allowlist asks of a node.  Everything else is refused.
WellFormed(e) ==
    CASE e.node = "constant" -> e.value.type \in {"str", "bool", "int", "float", "null"}
      [] e.node = "name" -> e.id \notin Dunder
      [] e.node = "attribute" -> e.attr \notin Dunder
      [] e.node = "subscript" -> e.slice.node # "slice"
      [] e.node = "bool" -> TRUE
      [] e.node = "unary" -> e.op \in {"not", "-"}
      [] e.node = "compare" -> \A i \in DOMAIN e.ops : e.ops[i] \in Comparisons
      [] e.node = "call" -> e.func \in DOMAIN Arity /\ Len(e.args) \in Arity[e.func]
      [] e.node = "display" -> Len(e.elts) <= MaxElements
      [] OTHER -> FALSE

-----------------------------------------------------------------------------
\* The evaluator.

FirstOf(numbers) == CHOOSE i \in numbers : \A j \in numbers : i <= j

\* MUTANT of Connect: every operand is looked at.
ConnectAll(op, values) ==
    IF \E i \in DOMAIN values : IsError(values[i]) \/ ~IsBool(values[i]) THEN Failure
    ELSE Bool(IF op = "and" THEN \A i \in DOMAIN values : values[i].val
                            ELSE \E i \in DOMAIN values : values[i].val)

\* `and` and `or`: the first operand that is an error, is no bool, or settles
\* the matter ends the evaluation.
Connect(op, values) ==
    LET Ends(x) == IsError(x) \/ ~IsBool(x) \/ x.val = (op = "or")
        ends == {i \in DOMAIN values : Ends(values[i])}
        x == values[FirstOf(ends)]
    IN IF ends = {} THEN Bool(op = "and")
       ELSE IF IsError(x) \/ IsBool(x) THEN x ELSE Failure

\* One link of a chain of comparisons, and what the chain comes to: its first
\* link that is an error or false, or else its last.
Link(op, x, y) == IF IsError(x) THEN x ELSE IF IsError(y) THEN y ELSE Compare(op, x, y)
Settled(links) ==
    LET ends == {i \in DOMAIN links : IsError(links[i]) \/ ~links[i].val}
    IN links[IF ends = {} THEN Len(links) ELSE FirstOf(ends)]

\* MUTANT of Chain: every link starts at the leftmost operand.
ChainFromFirst(ops, values) ==
    Settled([i \in DOMAIN ops |-> Link(ops[i], values[1], values[i + 1])])

Chain(ops, values) ==
    Settled([i \in DOMAIN ops |-> Link(ops[i], values[i], values[i + 1])])

\* A node above others, whose values or errors are known.
Combine(e, values) ==
    LET errors == {i \in DOMAIN values : IsError(values[i])} IN
    CASE e.node = "bool" -> Connect(e.op, values)
      [] e.node = "compare" -> Chain(e.ops, values)
      [] e.node = "call" /\ e.func \notin DOMAIN Arity -> Internal
      [] OTHER ->
            IF errors # {} THEN values[FirstOf(errors)]
            ELSE CASE e.node = "attribute" -> Attribute(values[1], e.attr)
                   [] e.node = "subscript" -> Subscript(values[1], values[2])
                   [] e.node = "unary" -> Unary(e.op, values[1])
                   [] e.node = "call" -> Call(e.func, values)
                   [] e.node = "display" -> Display(e.kind, values)
                   [] OTHER -> Internal

\* _eval: a node in a context, with the values of the nodes below it.
Visit(e, context, values) ==
    CASE e.node = "constant" -> e.value
      [] e.node = "name" /\ e.id \in DOMAIN Literals -> Literals[e.id]
      [] e.node = "name" /\ e.id \notin DOMAIN Literals ->
            IF e.id \in DOMAIN context THEN context[e.id] ELSE Failure
      [] OTHER -> Combine(e, values)

\* evaluate_expression: total, and never a guess at what is true.
Judged(accepted, value) ==
    IF accepted /\ IsBool(value) THEN [ok |-> TRUE, value |-> value.val]
                                  ELSE [ok |-> FALSE, value |-> FALSE]

=============================================================================
