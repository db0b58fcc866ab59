---------------------------- MODULE ProviderCalls ----------------------------
(***************************************************************************)
(* The calls of the Provider protocol (src/bailment/providers/base.py) and *)
(* the accounts at a vendor they are about: what may be asked and          *)
(* answered, and what one moment of an account has to say to a question.   *)
(***************************************************************************)
EXTENDS Naturals, FiniteSets

CONSTANTS
    Calls,    \* calls that the engine may have open at one time
    Ids,      \* the vendor's ids, numbers from 1
    Managed,  \* external_names: names with the managed prefix
    Others,   \* names without it
    NoName    \* no resource at this id

ASSUME IdsAssumption == Ids \subseteq Nat \ {0} /\ IsFiniteSet(Ids)
ASSUME NamesAssumption == Managed \cap Others = {} /\ NoName \notin Managed \cup Others

NoId == 0

Op == {"preflight", "create", "destroy", "exists", "list_managed"}

\* ref is the id in the provider_ref of the lease, if one was ever recorded.
Question == [op : Op, name : Managed, ref : Ids \cup {NoId}]

Idle == [op |-> "none", name |-> NoName, ref |-> NoId]

\* "retry" and "error" are ProviderError, retryable or not.
Answer(reply, ids) == [reply |-> reply, ids |-> ids]
NoAnswer == Answer("none", {})
Unhelpful == {Answer("retry", {}), Answer("error", {})}

\* Requests that nobody waits for any more, which the vendor may still handle.
Making(name) == <<"making", name>>
Removing(id) == <<"removing", id>>
Request == {Making(name) : name \in Managed} \cup {Removing(id) : id \in Ids}

Live(acc) == {i \in Ids : acc[i] # NoName}

\* The resources a question is about: those with the name, or the one recorded.
Subject(question, acc) ==
    IF question.ref = NoId THEN {i \in Ids : acc[i] = question.name}
                           ELSE {question.ref} \cap Live(acc)

\* What one moment of the account has to say to a question.
Moment(question, acc) ==
    LET subject == Subject(question, acc)
        absence == IF subject = {} THEN {<<"absent", NoId>>} ELSE {<<"there", NoId>>}
        carried == {<<"carried", i>> : i \in {j \in subject : acc[j] = question.name}}
        managed == {i \in Ids : acc[i] \in Managed}
    IN
    CASE question.op = "create" -> carried
      [] question.op = "destroy" -> absence \cup carried
      [] question.op = "exists" -> absence
      [] question.op = "list_managed" ->
           {<<"managed", i>> : i \in managed} \cup {<<"unmanaged", i>> : i \in Ids \ managed}
      [] OTHER -> {}

\* What a call about `after` has witnessed once the account is acc: one that has
\* just begun starts afresh (before is the question it was at until now).
Witnessing(before, seen, after, acc) ==
    IF after = Idle THEN {}
    ELSE Moment(after, acc) \cup (IF before = Idle THEN {} ELSE seen)

=============================================================================
