----------------------------- MODULE Expressions -----------------------------
(***************************************************************************)
(* Whole values and whole expressions: equality, order and hashing of      *)
(* nested values as Python has them, the grammar of a rule and its         *)
(* evaluation from the leaves up, src/bailment/policy/evaluator.py.        *)
(***************************************************************************)
EXTENDS Operations

CONSTANT MaxDepth

-----------------------------------------------------------------------------
\* ==, < and hash() of Python, for the values of JSON, tuples and sets.

RECURSIVE Same(_, _)
Same(x, y) ==
    IF IsNumber(x) /\ IsNumber(y) THEN Num(x) = Num(y)
    ELSE IF x.type # y.type THEN FALSE
    ELSE CASE x.type = "set" ->
                /\ \A i \in DOMAIN x.val : \E j \in DOMAIN y.val : Same(x.val[i], y.val[j])
                /\ Len(x.val) = Len(y.val)
           [] x.type \in {"list", "tuple", "map"} ->
                /\ DOMAIN x.val = DOMAIN y.val
                /\ \A i \in DOMAIN x.val : Same(x.val[i], y.val[i])
           [] OTHER -> x.val = y.val

Numbers(m, n) == IF m < n THEN "less" ELSE IF m = n THEN "same" ELSE "more"

\* How two values are ordered; {} when they cannot be.
RECURSIVE Order(_, _)
Order(x, y) ==
    LET Sequences(s, t, Item(_)) ==
            LET short == IF Len(s) < Len(t) THEN Len(s) ELSE Len(t)
                differ == {i \in 1..short : ~Same(Item(s[i]), Item(t[i]))}
            IN IF differ = {} THEN {Numbers(Len(s), Len(t))}
               ELSE LET i == CHOOSE i \in differ : \A j \in differ : i <= j
                    IN Order(Item(s[i]), Item(t[i]))
        Value(item) == item
        Subset(s, t) == \A i \in DOMAIN s.val : \E j \in DOMAIN t.val : Same(t.val[j], s.val[i])
    IN
    CASE IsNumber(x) /\ IsNumber(y) -> {Numbers(Num(x), Num(y))}
      [] IsText(x) /\ IsText(y) -> Sequences(Spelling[x.val], Spelling[y.val], Whole)
      [] x.type = y.type /\ x.type \in {"list", "tuple"} -> Sequences(x.val, y.val, Value)
      [] x.type = "set" /\ y.type = "set" ->
            {IF Same(x, y) THEN "same" ELSE IF Subset(x, y) THEN "less"
             ELSE IF Subset(y, x) THEN "more" ELSE "neither"}
      [] OTHER -> {}

RECURSIVE Hashable(_)
Hashable(x) == /\ x.type \notin {"list", "map"}
               /\ x.type = "tuple" => \A i \in DOMAIN x.val : Hashable(x.val[i])

-----------------------------------------------------------------------------
\* The grammar.

RECURSIVE Lawful(_), Nodes(_), Depth(_)
Lawful(e) == WellFormed(e) /\ \A i \in DOMAIN Children(e) : Lawful(Children(e)[i])
Nodes(e) == FoldSeq(LAMBDA child, sum : sum + Nodes(child), 1, Children(e))
Depth(e) == FoldSeq(LAMBDA child, most : IF Depth(child) < most THEN most ELSE Depth(child) + 1,
                    0, Children(e))

\* validate_expression.  What does not parse is a node of no known class.
Accepts(e) == Lawful(e) /\ Nodes(e) <= MaxNodes /\ Depth(e) <= MaxDepth

-----------------------------------------------------------------------------
\* The evaluator.

RECURSIVE Eval(_, _)
Eval(e, context) ==
    Visit(e, context, [i \in DOMAIN Children(e) |-> Eval(Children(e)[i], context)])

=============================================================================
