--------------------------- MODULE ProviderPromise ---------------------------
(***************************************************************************)
(* What the engine may rely on when it calls a provider: the Provider      *)
(* protocol of src/bailment/providers/base.py.  A call has a beginning and *)
(* an end, and other calls and people with console access act in between;  *)
(* what it answers must have been true at some moment of the call, and the *)
(* account changes only as an open call asks, as one asked before it gave  *)
(* up waiting, or as a human does.                                         *)
(***************************************************************************)
EXTENDS ProviderCalls

VARIABLES
    account,  \* the resources at the vendor: the name each id carries
    asked,    \* what each call was asked
    answers,  \* how it ended
    adrift,   \* what calls asked of the vendor and waited for no longer
    witness   \* what was the case at some moment of the call

vars == <<account, asked, answers, adrift, witness>>

Witnessed(c, kind) == {i \in Ids \cup {NoId} : <<kind, i>> \in witness[c]}

\* The answers a call may give, from what it could have seen.
MayAnswer(c) ==
    LET question == asked[c] IN
    Unhelpful \cup
    CASE question.op = "preflight" -> {Answer("ok", {})}
      [] question.op = "create" -> {Answer("ok", {i}) : i \in Witnessed(c, "carried")}
      [] question.op = "destroy" -> {Answer("ok", {}) : i \in Witnessed(c, "absent")}
      [] question.op = "exists" ->
           {Answer("gone", {}) : i \in Witnessed(c, "absent")}
           \cup {Answer("exists", {}) : i \in Witnessed(c, "there")}
           \cup {Answer("unknown", {})}
      [] question.op = "list_managed" ->
           \* every one that was there all along, and none that never was
           {Answer("ok", ids) : ids \in {s \in SUBSET Witnessed(c, "managed") :
                                            Ids \ Witnessed(c, "unmanaged") \subseteq s}}
      [] OTHER -> {}

Init ==
    /\ account = [i \in Ids |-> NoName]
    /\ asked = [c \in Calls |-> Idle]
    /\ answers = [c \in Calls |-> NoAnswer]
    /\ adrift = {}
    /\ witness = [c \in Calls |-> {}]

Open(c) == asked[c] # Idle

\* Every open call witnesses the account as a step leaves it.
Witness == witness' = [c \in Calls |-> Witnessing(asked[c], witness[c], asked'[c], account')]

\* A call that is not open is asked a question.
Ask(c) ==
    /\ ~Open(c) /\ UNCHANGED <<account, adrift>>
    /\ answers' = [answers EXCEPT ![c] = NoAnswer]
    /\ \E question \in Question : asked' = [asked EXCEPT ![c] = question]

\* What a call may leave behind: the request to make what it was asked for, or
\* to remove one it could see.
MayLeave(c) ==
    CASE asked[c].op = "create" -> {Making(asked[c].name)}
      [] asked[c].op = "destroy" -> {Removing(i) : i \in Witnessed(c, "carried")}
      [] OTHER -> {}
Leaves(c) == adrift' \in {adrift} \cup {adrift \cup {r} : r \in MayLeave(c)}

End(c) ==
    /\ Open(c) /\ UNCHANGED account
    /\ asked' = [asked EXCEPT ![c] = Idle]
    /\ \E answer \in MayAnswer(c) : answers' = [answers EXCEPT ![c] = answer]
    /\ Leaves(c)

\* The caller dies with its process.
Dies(c) ==
    /\ Open(c)
    /\ asked' = [asked EXCEPT ![c] = Idle]
    /\ UNCHANGED <<account, answers>>
    /\ Leaves(c)

\* It asks the vendor again without having heard of the last time.
AsksAgain(c) == UNCHANGED <<account, asked, answers>> /\ Open(c) /\ Leaves(c)

\* create: a resource with this name comes to be only where there is none.
Appear(i) ==
    /\ account[i] = NoName /\ UNCHANGED <<asked, answers, adrift>>
    /\ \E name \in Managed :
          /\ \/ \E c \in Calls : asked[c].op = "create" /\ asked[c].name = name
             \/ Making(name) \in adrift
          /\ \A j \in Ids : account[j] # name
          /\ account' = [account EXCEPT ![i] = name]

\* destroy: a resource goes only if it carried the name during the call.
Disappear(i) ==
    /\ account' = [account EXCEPT ![i] = NoName] /\ UNCHANGED <<asked, answers>>
    /\ \/ /\ \E c \in Calls : asked[c].op = "destroy" /\ i \in Witnessed(c, "carried")
          /\ UNCHANGED adrift
       \/ Removing(i) \in adrift /\ adrift' = adrift \ {Removing(i)}

\* People with console access make resources of their own, and take ours away
\* or rename them (for DNS records: edit the comment).
Console(i) ==
    /\ \/ account[i] = NoName /\ \E other \in Others : account' = [account EXCEPT ![i] = other]
       \/ account[i] \in Managed
          /\ \E name \in Others \cup {NoName} : account' = [account EXCEPT ![i] = name]
    /\ UNCHANGED <<asked, answers, adrift>>

Step ==
    \/ \E c \in Calls : Ask(c) \/ End(c) \/ Dies(c) \/ AsksAgain(c)
    \/ \E i \in Ids : Appear(i) \/ Disappear(i) \/ Console(i)

\* A step changes one of the four: TLC sees a stutter at once.
Next ==
    /\ <<account, asked, answers, adrift>>' # <<account, asked, answers, adrift>>
    /\ Step
    /\ Witness

Spec == Init /\ [][Next]_vars

=============================================================================
