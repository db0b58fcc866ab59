---------------------------- MODULE HttpProvider ----------------------------
(***************************************************************************)
(* HttpProvider of src/bailment/providers/base.py: one logical request of  *)
(* a provider call, sent up to MaxSends times.  The vendor handles it or   *)
(* not, and its reply arrives or not; the client cannot tell a request     *)
(* that was never handled from a reply that was lost, nor from one that is *)
(* handled once nobody waits for it.  Waiting between two sends is the     *)
(* time in which others act.                                               *)
(***************************************************************************)
EXTENDS ProviderCalls

CONSTANTS
    Vendors,   \* of "neon", "upstash", "cloudflare": those looked at
    MaxSends,  \* RetryPolicy.max_attempts, for each vendor
    PageSize,  \* entries of one page of a listing, for each vendor
    MaxPages,  \* _MAX_PAGES
    MaxAdrift, \* bound: requests, at one time, that a vendor may handle late;
               \* any other that nobody waits for is never handled
    Sheltered  \* vendors called one call at a time, whose answer to a POST
               \* always arrives, or which never handle it

ASSUME SendsAssumption ==
    /\ MaxSends \in [Vendors -> Nat \ {0}] /\ MaxPages \in Nat \ {0}
    /\ MaxAdrift \in [Vendors -> Nat]
ASSUME VendorsAssumption ==
    /\ Vendors \subseteq {"neon", "upstash", "cloudflare"} /\ Sheltered \subseteq Vendors
    /\ PageSize \in [Vendors -> Nat \ {0}]

VARIABLES
    vendor,  \* whose API this deployment talks to
    account, \* the resources there
    calls,   \* the provider calls of the engine
    adrift,  \* the requests nobody waits for that it may still handle
    witness  \* history: what each call could have seen (ProviderPromise)

vars == <<vendor, account, calls, adrift, witness>>

Promise == INSTANCE ProviderPromise WITH
    asked <- [c \in Calls |-> calls[c].question],
    answers <- [c \in Calls |-> calls[c].answer]

NoReply == [kind |-> "none", ids |-> {}, next |-> 0]
Reply(kind, ids, next) == [kind |-> kind, ids |-> ids, next |-> next]

\* step is the request a call is at; reply is on its way to it; id and seen are
\* what it has learned; cursor and pages are where a listing continues.
NoCall == [question |-> Idle, answer |-> NoAnswer, step |-> "none",
           sent |-> 0, reply |-> NoReply, id |-> NoId, cursor |-> NoId, pages |-> 0, seen |-> {}]

Ended(answer) == [NoCall EXCEPT !.answer = answer]
Answered(reply, ids) == Ended(Answer(reply, ids))

\* ProviderError leaves the call.  Only `exists` catches one, if retryable.
Raised(call, retryable) ==
    IF ~retryable THEN Answered("error", {})
    ELSE IF call.question.op = "exists" THEN Answered("unknown", {})
    ELSE Answered("retry", {})

\* The next request of the call.
GoesTo(call, step) == [call EXCEPT !.step = step, !.sent = 0, !.reply = NoReply,
                                   !.cursor = NoId, !.pages = 0, !.seen = {}]

Waiting(c) == calls[c].step # "none" /\ calls[c].reply = NoReply

\* MUTANTS of SentAgain: one send too many; a destroy that got no answer is
\* taken as done.
SentOnceMore(call) ==
    IF call.sent < MaxSends[vendor] THEN [call EXCEPT !.sent = @ + 1, !.reply = NoReply]
                                    ELSE Raised(call, TRUE)
TakenAsDone(call) ==
    IF call.question.op = "destroy" THEN Answered("ok", {}) ELSE Raised(call, TRUE)

\* The loop goes round, or the attempts are used up.
SentAgain(call) ==
    IF call.sent + 1 < MaxSends[vendor] THEN [call EXCEPT !.sent = @ + 1, !.reply = NoReply]
                                        ELSE Raised(call, TRUE)

Becomes(c, call) == calls' = [calls EXCEPT ![c] = call]

\* A retryable status or a failed connection: nothing was done.
TurnedAway(c) ==
    /\ Waiting(c)
    /\ Becomes(c, SentAgain(calls[c]))
    /\ UNCHANGED <<vendor, account, adrift>>

\* The request the client is at, once it no longer waits for it.  Reading again is
\* harmless.
Left(call) ==
    CASE call.step = "post" /\ vendor \notin Sheltered -> {Making(call.question.name)}
      [] call.step = "delete" -> {Removing(call.id)}
      [] OTHER -> {}

Leaves(c) ==
    LET now == adrift \cup Left(calls[c]) IN
    adrift' = IF Cardinality(now) <= MaxAdrift[vendor] THEN now ELSE adrift

\* No answer within the timeout, and the request is on its way still.
TimedOut(c) ==
    /\ Waiting(c)
    /\ Becomes(c, SentAgain(calls[c]))
    /\ Leaves(c)
    /\ UNCHANGED <<vendor, account>>

\* Retry-After beyond max_retry_after is left to the lease's own schedule.
Deferred(c) ==
    /\ Waiting(c)
    /\ Becomes(c, Raised(calls[c], TRUE))
    /\ UNCHANGED <<vendor, account, adrift>>

\* Any other status (a bad request, a revoked credential) or, on a 2xx, an
\* envelope that says success: false.
Refused(c) ==
    /\ Waiting(c)
    /\ Becomes(c, Raised(calls[c], FALSE))
    /\ UNCHANGED <<vendor, account, adrift>>

\* The request was handled and no reply arrives within the timeout.
ReplyLost(c) ==
    /\ calls[c].reply # NoReply
    /\ ~(vendor \in Sheltered /\ calls[c].step = "post")
    /\ Becomes(c, SentAgain(calls[c]))
    /\ UNCHANGED <<vendor, account, adrift>>

\* A reply that is not JSON, or lacks what the caller needs of it.
ReplyGarbled(c) ==
    /\ calls[c].reply # NoReply
    /\ Becomes(c, Raised(calls[c], FALSE))
    /\ UNCHANGED <<vendor, account, adrift>>

\* The caller is cancelled, or dies with its process.
CallerDies(c) ==
    /\ calls[c].step # "none"
    /\ Becomes(c, NoCall)
    /\ IF Waiting(c) THEN Leaves(c) ELSE UNCHANGED adrift
    /\ UNCHANGED <<vendor, account>>

HttpFaults(c) ==
    \/ TurnedAway(c) \/ TimedOut(c) \/ Deferred(c) \/ Refused(c)
    \/ ReplyLost(c) \/ ReplyGarbled(c) \/ CallerDies(c)

=============================================================================
