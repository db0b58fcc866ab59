------------------------------ MODULE RuleTrees ------------------------------
(***************************************************************************)
(* What GateProofs takes the rules, the requests and the validator to be:  *)
(* rules are finite trees of the grammar, evaluated from the leaves up,    *)
(* and a validated request is a map.  A set of trees stands for Python's   *)
(* parser, so that these are facts about sets and no recursion; MCRequest- *)
(* Gate checks them of the rules and requests it is run with.              *)
(***************************************************************************)
EXTENDS RequestGate

\* Syntax trees as Python's parser makes them, with their subtrees.
IsForest(trees) ==
    \A e \in trees :
        /\ e.node = "bool" => e.op \in {"and", "or"} /\ e.values \in Seq(trees)
        /\ e.node = "unary" => e.operand \in trees
        /\ e.node = "compare" => /\ e.left \in trees /\ e.comparators \in Seq(trees)
                                 /\ e.ops \in Seq(STRING) /\ Len(e.ops) = Len(e.comparators)
                                 /\ Len(e.ops) > 0
        /\ e.node = "call" => e.args \in Seq(trees)
        /\ e.node = "display" => e.elts \in Seq(trees) /\ e.kind \in {"list", "tuple", "set"}
        /\ e.node = "attribute" => e.value \in trees
        /\ e.node = "subscript" => e.value \in trees /\ e.slice \in trees

\* A tree of finite height.
IsGrounded(trees) ==
    \E height \in [trees -> Nat] :
        \A e \in trees : \A i \in DOMAIN Children(e) : height[Children(e)[i]] < height[e]

\* What the nodes below a node come to.
ValuesBelow(e, facts) == [i \in DOMAIN Children(e) |-> ValueOf(Children(e)[i], facts)]

\* _eval works from the leaves up, as Eval is defined in Expressions.
Evaluates(trees) ==
    \A e \in trees : \A facts : ValueOf(e, facts) = Visit(e, facts, ValuesBelow(e, facts))

\* validate_expression has seen every node of what it lets in, as Lawful of
\* Expressions has.
IsAllowlist(trees) ==
    \A e \in trees :
        Allowed(e) => WellFormed(e) /\ \A i \in DOMAIN Children(e) : Allowed(Children(e)[i])

-----------------------------------------------------------------------------

\* The files that make it into the catalog.
Served == {d \in DOMAIN Documents : Loadable(Documents[d])}

\* The rules of the files are trees.
HasRules(trees) ==
    \A d \in Served : \A i \in DOMAIN Documents[d].policy :
        Documents[d].policy[i].when # <<>> => Documents[d].policy[i].when[1] \in trees

\* The rules of the files, and what a reader may write for them, are trees.
Covers(trees) ==
    /\ HasRules(trees)
    /\ \A d \in Served : \A i \in DOMAIN Documents[d].policy :
          LET when == Documents[d].policy[i].when
          IN when # <<>> => Rewritings(when[1]) \subseteq trees

\* The rule about an optional input is one the catalog lets in.
Supports(trees) ==
    \A d \in Served : \A k \in DOMAIN Closed(Documents[d].inputs).properties :
        \A s \in DOMAIN Spelling : PresentAndEqual(k, s) \in trees /\ Allowed(PresentAndEqual(k, s))

\* The literals of the rules are values.
HasConstants(values, trees) ==
    \A e \in trees : e.node = "constant" /\ WellFormed(e) => e.value \in values

-----------------------------------------------------------------------------

\* Remaining, of a given call.
Sent(call) == Map([k \in DOMAIN call.inputs.val \ {"ttl"} |-> call.inputs.val[k]])

\* What the validator makes of a request is a map of values.
ValidatesToMaps ==
    \A d \in Served, r \in DOMAIN Arrivals :
        LET result == Validation(Closed(Documents[d].inputs), Sent(Arrivals[r]))
        IN ~Refused(result) => /\ result.value.type = "map"
                               /\ \A n \in DOMAIN result.value.val : ~IsError(result.value.val[n])

\* Every name hashes, and == of two values comes to a bool.
Comparable == (\A s : HasHash(Str(s))) /\ (\A x, y : Equal(x, y) \in BOOLEAN)

=============================================================================
