# Bailment in TLA+

Bailment is a broker that lends short-lived cloud resources ("leases") to agents
and people. A request is checked against a catalog, judged by a policy, possibly waits for a
human, is provisioned by a worker at some provider, and is destroyed when its time is up.
What makes it hard is that nothing is locked: API calls, worker processes, a
ticker and a reconciler read and write one lease table, each with a
SELECT ... COMMIT window of its own, around provider calls that may take minutes,
half-succeed, or never answer.

This directory holds models of that broker, their model-checking runs and machine-checked
proofs. Paths below are relative to the package `src/src/bailment/`.

## Inventory

| Part | Source | State it keeps | Operations | Module |
|---|---|---|---|---|
| State machine | `states.py` | none | the table of legal moves, `assert_transition` | LeaseStates |
| Storage | `models.py`, `db.py` | leases, approvals, bindings, audit events, reconcile runs | sessions: SELECT, changes in memory, UPDATE of changed columns | LeaseStore |
| Lease service | `engine/service.py` | none of its own | `request_provision`, `approve`, `reject`, `renew`, `revoke`, `retry_teardown`, `resolve_binding`, views | LeaseService, Requests, RequestGate, ServiceBroker |
| Lease clock | `engine/leases.py` | none of its own | `renew_lease`, `revoke_lease`; the ticker's `_warn`, `_expire`, `_queue_teardown`, `_expire_approvals` | LeaseTicker, LeaseService |
| Worker | `engine/worker.py` | the row in its session | `_claim`, `_provision`, `_activate`, `_roll_back`, `_deprovision`, `_release`, `_park`, `_orphan` | Worker |
| Reconciler | `engine/reconciler.py` | a snapshot for the length of a sweep | `_find_orphans`, `_maybe_destroy`, `_find_drift`, `_apply_drift` | Reconciler |
| Provider contract, HTTP client | `providers/base.py` | none | the five calls of the protocol; `_request` with its retries | ProviderCalls, ProviderPromise, HttpProvider, Provider |
| Vendors | `providers/neon.py`, `upstash.py`, `cloudflare.py` | the resources, outside the broker | `preflight`, `create`, `destroy`, `exists`, `list_managed` | VendorProviders |
| Memory provider | `providers/memory.py` | resources | the same, and hooks that make it fail | Provider |
| Policy | `policy/*.py` | none | the expression language; `evaluate`: first matching rule, default deny | Operations, Expressions, RequestGate |
| Catalog | `catalog/*.py` | the paths, loaded once | checks of a file | RequestGate |
| Input validation | `engine/validation.py` | none | `validate_inputs` | InputValidation |
| Service broker (OSB) | `osb/router.py` | none of its own | PUT, PATCH, DELETE, bind, last_operation | ServiceBroker, BrokerPolls |
| REST | `api/*.py` | none | passes on to the service | CreateLease of ServiceBroker, LeaseService |
| Process | `main.py` | the loops | `_start_engine` | Bailment |
| MCP, CLI, secrets, configuration, logging | `mcp/`, `cli.py`, `secrets.py`, `config.py`, `logging.py` | keys | translate calls, seal values, print | none |

The loops and the calls interact in only two ways: through rows of the lease table and
through resources at the provider. There are no messages and no callbacks between them.

The behaviours that make it hard, and what must hold about them:

* **Claims, not locks.** A worker takes a lease by one conditional UPDATE and may die,
  or be slow enough for its claim to be stolen. Two handlers must not work on one
  lease, and a crash must not refund the retry budget.
* **Write-ahead.** A create may happen without anybody learning of it. A lease recorded
  as RELEASED or FAILED must have nothing left at the provider.
* **Lost updates.** A session commits what it decided about a row that may have
  changed. Terminal states must be final, the approval gate must hold, and no lease may end
  up where no loop looks.
* **A sweep acts on old knowledge.** The reconciler compares a snapshot with a younger
  list and writes later still. It must not destroy what is in use, nor release what exists.
* **Requests that cannot tell.** A request to a vendor that got no answer may have been handled.
  A provider call is several requests, sent again on failure, while other calls and people at a
  console act: what it answers must have been true, and it must not make or destroy too much.
* **Names that outlive requests.** An idempotency key or an OSB instance id must lead to one
  lease, however calls race, and a platform that stops polling must have heard the truth.
* **A language in front.** What the catalog lets in, the policy must be able to evaluate, and
  the row must carry what policy was asked about.
* **Loops that must get there.** Requests settle, leases end, unanswered approvals lapse.

PROJECT.json lists these hazards one by one, at the line where each bites.

## Modules

    Deployment            parameters: who takes part, limits, what may happen
      LeaseStates         states.py
      LeaseStore          models.py, db.py, the clock
        Provider          the provider as the engine sees it
          Worker          engine/worker.py
          Reconciler      engine/reconciler.py
        LeaseService      engine/service.py, renew and revoke of engine/leases.py
        LeaseTicker       LeaseTicker of engine/leases.py
          Bailment        all of them together, the properties
            BrokerPolls   last_operation of osb/router.py, asked of the engine's rows
              MCBailment  symmetry for TLC
            BailmentTypes     proof: TypeOK
              LeaseProofs     proof: ApprovalGate, NothingStranded, OnlyTheLateRevive
              EngineProofs    proof: one life of a lease, verdicts (with BrokerPolls)
                ResourceProofs    proof: rows in use are backed; beside sweeps, the claim,
                                  the budget, released means gone, the living are spared

      LeaseStates
        Requests          request_provision of engine/service.py, for calls that race
          MCRequests      symmetry for TLC
          RequestsProofs  proof: the idempotency key, TypeOK
          ServiceBroker   osb/router.py on top of it, resolve_binding
            MCServiceBroker   symmetry for TLC
            BrokerProofs      proof: the same with the surfaces in front, accepted instances

    ProviderCalls         the questions and answers of the Provider protocol, providers/base.py
      ProviderPromise     what the protocol promises: abstract specification
      HttpProvider        HttpProvider of providers/base.py (INSTANCEs the promise)
        VendorProviders   neon.py, upstash.py, cloudflare.py: implement the promise
          MCVendorProviders   bounds and symmetry for TLC
          PromiseProofs       proof: the promise is kept, one resource of a name, TypeOK

    Operations            policy/evaluator.py, one node at a time
      Expressions         policy/evaluator.py, trees: the allowlist's limits and the recursion
        InputValidation   engine/validation.py
      RequestGate         catalog/, request_provision in front of the row, policy/engine.py
        RuleTrees         what the proofs take rules, requests and the validator to be
          MCRequestGate   with InputValidation: rules, files and requests for TLC
          GateProofs      proof: first match decides, the trace, the row as policy saw it,
                          rules that mean the same, optional inputs, known nodes

### The engine

**LeaseStore.** `rows` is the leases table. A timestamp is kept as what the code
compares it with: `claimed_at` is "stale or not" (over CLAIM_TTL), `next_attempt_at` is
none/due/later, `expires_at` is unset/ahead/near/past. `age` has the two times a sweep
compares with the grace period: "new" if `created_at` is within it, "young" if only `age_reference` (which is
`activated_at` once there is one) still is, "old" if neither. The clock actions move these. `View` is what a session loads and
`Flush` its commit: SQLAlchemy writes the columns whose value differs from the one
loaded, so a commit lands *column by column* on whatever the row has become. This pair
is the heart of the model; most of the findings below are instances of it.
An "approved" audit event is kept as membership in `approvals`, because
the approval gate is stated with it.

**Worker.** `at` is the await a handler stands at; `copy` is the row its session loaded.
In the code the move to PROVISIONING or DEPROVISIONING is made in memory and becomes
visible only with the commit at the end of the handler: `Mine` is the state of the copy.
Each provider call has two outcomes that the engine cannot tell apart (it
happened and then raised; it did not happen), so `CreateFails` and `DestroyFails` are
enabled on both sides of the effect. `Abandon` is a crash or an exception the handler does
not catch: the session rolls back, the claim stays.

**LeaseService.** A call is one action that SELECTs and checks (`CallBegins`) and one
that commits, or the client is gone (`CallAborts`). `request_provision` inserts a new
row and is one action. Its verdict, the result of the policy, is any of the three effects.

**LeaseTicker.** One pass is one session: `plan` is the loaded and the changed copy of each
row the four steps select, in their order, each step seeing the change of the one before
(the identity map, with `autoflush=False`). A pass that selects nothing is not a step.

**Reconciler.** One sweep over one provider: snapshot, list, destroy orphans when
armed, ask about each live lease, re-read, write. Everybody else may step in between. What a sweep may destroy
goes by the age of the resource, or, when the listing does not date it (`undated`), by that of its lease
(`PastGrace`), as in `_classify`.

**Bailment.** `Next` is the union. Two kinds of switch select an instance:

* `Events` says what the environment does: outages of the preflight, late creates,
  claims outlived, deletions in the console, the reconciler and its arming, listings without dates.
* The `overlap_*` events say whose short SELECT ... COMMIT window others may fall into. Without
  them the window is quiet: a step inside it excludes the steps of others. A worker's
  handler is always open to everybody, since it spans provider calls.

`RevocableIn` is the set of states in which the clients of an instance revoke. The code allows
all of them; the findings show what happens in those that the `engine` run leaves out, and
`overlap_lifecycle` has them all.

The leases of an instance share only the workers, since every row, approval and resource belongs
to one lease and no loop's guard mentions two. One lease with two workers therefore
shows every race on a row, and the runs use one. The proofs are for any number.

**BrokerPolls** asks what `last_operation` would answer about a row at any moment, for a
provision and for a deprovision. A poller hears a verdict once and then stops asking, so the two
properties relate that verdict to the rest of the lease's life.

### Requests and the service broker

**Requests.** Racing calls of `request_provision`, which LeaseService has as one action. A call
stops at each await: the look-up of its key (`Look`), the count for the policy (`Decide`),
the commit (`Commit`), and the second look-up of a call that lost (`Recover`). `Clashes` is
the unique constraint on (requester, idempotency_key). Everything that happens to a lease later
is one action, `Move`, any legal edge of the table. It stands beside Bailment and shares no
variables with it: a request is answered from the leases table alone. The policy is one rule, a
quota on live leases in front of "allow" and "require approval".

**ServiceBroker** puts the platform in front of it. A PUT looks the instance up, looks again whether
the name is taken by a lease out of its view, and only then calls `request_provision` with
the instance id as key; DELETE, PATCH and bind look up, check what they read, and
commit into whatever the row is by then. `born` is the order of `created_at`, because the look-up takes
the oldest row with the key, of whatever requester. `uses` is `access_count` of a lease's binding, read by a
request and written by it later, so that increments get lost as in the code.
A client may hang up between any two awaits. What the other surfaces ask of the service are
`CreateLease` (POST /leases) and `Move`.

### Providers

**ProviderPromise** says what the engine may rely on. A call has a beginning and an end;
`witness` collects what was the case at each moment of it, and its answer must be one of
these: "gone" only if there was a moment at which it was gone, a listing that holds what was there all
along and nothing that never was. The account changes only in three ways: a resource appears under
a name that nobody carries and a create asks for; one disappears that carried the name during a destroy; people at
a console create, rename and delete. The create or destroy is one that is open, or one that gave up waiting and left its
request with the vendor (`adrift`).

**HttpProvider** is `_request`: a request is sent up to `MaxSends` times; it is turned away, deferred by a
long Retry-After, refused, or handled, and then its reply arrives, is lost, or is garbled. A handled
request whose reply was lost looks to the caller exactly like one that never arrived, and like one that is still on its
way: a POST or DELETE that timed out (`TimedOut`) or whose caller died (`CallerDies`) is `adrift`, and the vendor may
handle it at any later moment (`HandleLate`), whatever the call, its next try or others have done meanwhile.

**VendorProviders** writes each call of each vendor as its requests, in order: `step` is the
request a call is at, `Handle` the vendor's side, `Receive` the provider's. The promise is
instantiated with `asked` and `answers` read off the call, and `KeepsPromise` is the refinement.

`Provider` is the coarser view of the same promise that the engine's modules use, with one resource
per lease and its create possibly late.

### What stands in front of a row

**Operations** has a node of the grammar (`WellFormed`) and what becomes of the values below it
(`Visit`), with exceptions as values. Values carry their Python type, so that `True == 1`, orders on
mixed types and unhashable members come out as they do in Python. **Expressions** puts the nodes
together: the allowlist (`Accepts`), the evaluator (`Eval`), and Python's equality, order and hashing of
nested values. Parsing is Python's; a source that does not parse, or parses to something else, is a
node of no known class.

**InputValidation** is `validate_inputs`: the value with its defaults filled in, whether there was a
problem, and whether the schema cannot be enforced at all. A schema's `pattern` may match anywhere in the value
(`re.search`, the constant `Found`), `matches()` of the policy language must match all of it (`fullmatch`,
`Languages`).

**RequestGate** takes one catalog file and one request from the file to the row: load, validate, clamp,
build the context, walk the chain rule by rule, and store.

Trees and schemas have no bounded depth, so Expressions and InputValidation use RECURSIVE operators, which
a module with a proof cannot reach. Operations and RequestGate therefore take what those define as operator
parameters (`Equal`, `Ordering`, `HasHash`, `Allowed`, `ValueOf`, `Validation`): `gate.cfg` gives them the
recursive definitions, and the proofs hold for whatever they are.

## Runs

| Run | Question | Answer |
|---|---|---|
| `engine` | With crashes, outages and stolen claims, fair loops, and revocation of leases no worker can have: is the claim exclusive, is a lease that a poller is told is gone really gone, is a usable one backed, is the budget kept, are the end and the answers to pollers final? Do requests settle, leases end, approvals lapse? | yes |
| `sweep` | Does an armed reconciler spare running leases, never release what exists, and strand none with what it concluded from an old snapshot? | yes |
| `overlap_lifecycle` | Can a lost update strand a lease or pass the gate, with every call in every state? Does anybody but a late commit write a closed lease? | no |
| `vendors` | Does each vendor's provider implement the promise under lost and garbled replies, retries, paging, consoles, dying callers, and requests handled after the caller gave up? | yes |
| `gate` | Does the chain mean what its author reads, does it only hold what can be evaluated, and does the row stand its own schema? | yes |
| `broker` | However PUT, DELETE, PATCH, bind and other surfaces race: one lease per name and owner, losers answered, accepted instances found? | yes |
| `revoke_of_claimed` | Is the end final when a PENDING lease in a worker's hands is revoked? | no, finding 1 |
| `retried_teardown` | Is a lease re-queued by an operator torn down? | no, finding 2 |
| `preflight_after_crash` | Is a FAILED lease gone when a worker died after its create? | no, finding 3 |
| `quota_burst` | Does a rule on `active_leases_for_requester` bound the leases of a requester? | no, finding 4 |
| `double_create` | Does one name stay with one resource at Upstash when replies get lost? | no, finding 5 |
| `undated_orphan` | Does a sweep spare what is younger than the grace period when a listing does not date it? | no, finding 6 |

### Bounds, and why they are enough

* **Bailment**: one lease, one or two workers, one call at a time beside the
  workers, the ticker and the reconciler, one renewal, one or two attempts (`MaxAttempts` = 2 is the
  least where "retry" and "give up" differ), and `MaxFaults` crashes or outages (two of them include a
  crash during the recovery from a crash).
* **VendorProviders**: two calls at a time of one managed name, two ids, one foreign name. The costly
  behaviours are shared out among the vendors, whose client is the same: Neon has pages of one entry and two pages,
  so that a listing has a second page and a limit, and one request adrift, POST or DELETE (`MaxAdrift`; what is left
  beyond that is never handled); Upstash has one adrift as well and two sends of a request (`MaxSends`; elsewhere
  one). `KeepsPromiseHolds` has any number of sends and requests adrift at each of them. The answer to a call
  depends on names only through "mine", "managed" and "not mine".
  Cloudflare's listing fits one page (see the limits below).
* **ServiceBroker**: three requests, a tenant and an operator, one name. A winner, a
  loser and a DELETE, or a tenant, an operator and a retry. A fourth repeats one of them.
* **RequestGate**: about 1400 rules (every comparison of thirteen operands with seven operators, pairs of
  conditions in both orders, chained comparisons of triples, each helper with right and wrong arguments, each
  limit of the grammar exceeded), each as the first rule of three; fifteen variants of the
  file, most of which must not load or must refuse everybody; eighteen requests on both
  sides of each limit of the schema. The limits themselves (nodes, depth, elements, lengths) are small
  constants of the run.
* Deadlock is not checked: with every lease closed or every call answered, nothing is left to do.

### What the passing runs rest on

* `engine` revokes only in AWAITING_APPROVAL, ACTIVE and EXPIRING, and no
  preflight is refused after a crash: findings 1 and 3 and the behaviours below say why. `ClaimExclusive` also
  needs handlers that do not outlive CLAIM_TTL (five minutes; each vendor client has a timeout).
* `GoneMeansGone` is about leases that ended RELEASED, REJECTED or FAILED. The last branch of `_deprovision_progress` says
  "gone" of a PENDING, AWAITING_APPROVAL or PROVISIONING one as well, which only a client can hear that polls for a
  deletion it never asked for, or one whose DELETE was overwritten by a worker (finding 1). It
  needs both premises of `engine`. A lease revoked while PENDING may have a create under way, is REJECTED, and
  is reported gone while its resource comes to be (finding 1 shows the
  same trace one step further).
* `sweep` opens the reconciler's own re-read ... commit window to everybody, lets resources vanish
  at the vendor and lets preflights fail. It still needs the revocations and the handlers of `engine`, and that a
  sweep is shorter than the grace period (ten minutes), a handler shorter than that (`AgesInOrder`), and listings that
  date what they list: finding 6 shows what happens without.
* `overlap_lifecycle` has no such premise, but one worker and one caller. That nobody is stranded and the gate is kept
  when a second worker steals the claim of a slow handler, or when a slow sweep joins in, is proved
  (`NothingStrandedHolds`, `ApprovalGateHolds`, `OnlyTheLateReviveHolds`) and not run.
* `vendors` shelters Upstash (`Sheltered`): its calls come one at a time, the reply to a POST arrives, and none is handled late.
  Upstash accepts a second database of one name, so the promise holds only then; `double_create` drops
  the shelter. Neon and Cloudflare, where the vendor refuses a second, are not sheltered.
* Time itself is abstract: an age flag may flip at any moment the assumptions allow.

### Fairness

`FairSpec` assumes what `run_forever` of the worker and of the ticker does: they come back every
interval, absorb every exception and go through all candidates; a provider call returns;
time passes. Nothing is assumed of clients, operators, faults or the reconciler. Fairness is
strong for steps that a quiet window disables: in the code nobody is held
up by somebody else's window, so a client that begins and aborts calls for ever starves
nobody. The end of a call needs only weak fairness. Faults are bounded by MaxFaults: a lease
whose every attempt crashes outside the budget is retried for ever, by design of the stale
claim (`BudgetKept` has that bound on its right-hand side).

## Findings

1. **A revoked PENDING lease comes back** (`revoke_of_claimed`). `revoke_lease` rejects
   without looking at the claim; the worker's commit writes ACTIVE over REJECTED.
2. **retry_teardown does nothing** (`retried_teardown`). The row stays ORPHANED, and no queue
   holds that state.
3. **A refused preflight after a crash hides a resource** (`preflight_after_crash`). The row is
   PENDING until the handler's commit, so the next attempt takes the no-rollback path.
4. **A burst passes the quota** (`quota_burst`). `count_live_leases` does not count PENDING, and
   a lease is PENDING until the worker commits after its create. No race is needed: two requests
   one after the other, before the first create returns, both see a count of zero.
5. **A create is sent twice** (`double_create`). The client repeats a POST whose reply was lost,
   below the look-up that makes `create` idempotent, and Upstash makes a second database of that name. From
   then on every look-up by name is ambiguous and refuses.
6. **A young resource is destroyed as an orphan** (`undated_orphan`). A resource without a date is aged by its
   lease, and a lease that waited long for its approval is old when its resource is new. A sweep fails that lease
   untried, a worker that had loaded it creates, and the next sweep destroys what was just created. The module's
   docstring promises that nothing younger than the grace period is flagged.

Things seen while modelling that no run states, since nothing in the repository says what should
happen or a finding above already shows the cause:

* Revoking a PROVISIONING lease (`queue_for_teardown`) clears the claim of the worker in the
  middle of its create, so that a second one may destroy meanwhile; and that worker's commit then writes ACTIVE
  over REVOKED. Both have the cause of finding 1.
* Where listings are dated, the first half of finding 6 remains: the grace period of a lease counts from
  `created_at`, so one that waited long for its approval is beyond it once approved, and a sweep that comes before
  a worker fails it untried, as destroyed outside the broker.
* The re-check of a sweep looks at the state of a row and not at its claim, so it can also conclude a lease
  claimed since the snapshot.
* `make_external_name` says that a name is looked up in the database before it is used, which no code does (a
  name has 32 bits of the id).
* `clamp_ttl` applies the ceiling before the 60 s floor, and the catalog accepts a `max_ttl` below 60 s: such a
  path grants 60 s, more than its ceiling, to whoever asks for less.
* A default that violates its own schema passes the catalog, and then every request that leaves the key out is
  refused. An input named `ttl` is always taken for the duration. Without `type`, an `enum` or a `const`
  accepts `true` for 1.
* A PUT whose own first try commits between its two look-ups is told 409, that the instance "belongs to
  another principal".
* A DELETE that overtakes its PUT is answered 410, and the PUT then creates an instance that lives to
  its deadline.
* Two uses of a binding that race may leave one mark in `access_count`, although `resolve_binding` says that every
  call is counted; each has an audit event of its own.

## Proofs

TLAPS checks these for every value of the constants.

* `TypeCorrectness` (module BailmentTypes): `Spec => []TypeOK`. The invariant behind it,
  `TypeInv`, is stronger in one respect: what a session holds is always something one could
  commit. A worker not idle holds a lease, and its copy is of a row that was inserted;
  a call under way has a lease; a pass of the ticker and a re-read of the reconciler hold
  copies of rows. Otherwise a commit would write a row at "no lease" or a copy that was never read.
* `ApprovalGateHolds` (module LeaseProofs): `Spec => []ApprovalGate`. `ApprovalGate` is not
  inductive: a stale copy could carry a lease past the gate. `GateInv` adds that everybody
  who remembers an unapproved lease from earlier remembers it untouched: a call on it can only be
  an approve, a reject or a revoke that saw it waiting; the ticker's changed copy is the loaded
  one or rejected; the snapshot has it absent, waiting or rejected, so the sweep does not ask
  about it. The proof then goes action by action. That a worker's commit can overwrite anything
  does no harm here, because a worker reaches only the lease it holds (lemma `HandlerReach`).
* `KeysNameOneLease`, `AnswersStayOwn`, `NoLoserRaises`, `RequestTypes` (module RequestsProofs).
  `KeyInv` has the unique constraint as a fact about the table (`OneRowPerKey`), and for every call
  what it holds: an answered call a row of its own requester and key, a staged call an id that
  nobody has inserted or staged, a call that lost a winner. It is inductive because rows
  are never deleted and never change their requester or key (`Kept`).
* `BrokerKeysNameOneLease`, `BrokerAnswersStayOwn`, `BrokerLosersAreAnswered` (module
  BrokerProofs): the same facts with the platform's requests in between. `BrokerInv` is `KeyInv` with the shapes
  of the broker's variables and one fact for each request (`RequestHolds`): past its look-up it remembers a lease
  that has a row. PATCH, DELETE and bind write a state and
  no owner or key, so the lemmas of RequestsProofs about `Kept` carry over.

* `AcceptedIsFoundHolds`, `BrokerTypes` (BrokerProofs). `FoundInv` ties `born` to the table: every row
  inserted or staged has one stamp, and no stamp is without a row (`BornInv`); a request that will write or was
  granted something remembers a row of its name (`Leads`), and one that asks the service asks what it was asked
  (`Asks`). Rows keep their names, so the rows of one name only grow while a loser's stamp is taken back, and
  the oldest of them is well defined.
* `NothingStrandedHolds` (module LeaseProofs): `Spec => []NothingStranded`, with every overlap allowed. A late
  commit may write any state that its session ever saw, so the invariant (`StrandInv`) speaks of the sessions: a call
  that closes an approval row saw the lease waiting, and a pass that writes EXPIRING found a deadline.
  Each step either moves a row into a state that is watched by itself or writes the deadline with it (`Moves`).
* `OnlyTheLateReviveHolds` (module LeaseProofs), again with every overlap, outlived claim and sweep allowed: a lease that
  has ended is written again only by the commit of a session that had loaded it while it was running. Finality as such
  (`TerminalIsFinal`) is false in the code, finding 1; this is what is left of it in every deployment. The
  invariant (`OpenInv`) is that each session which may commit a state, a handler past its claim, a call, a pass, a
  re-read with a conclusion, holds a copy of an open lease, and a handler that finds its lease closed goes nowhere.
* `LivesOneLifeHolds`, `ProvisionVerdictStandsHolds` (module EngineProofs), for every
  deployment that is `Undisturbed`. That is `Orderly` (no handler
  outlives its claim, calls and ticker passes commit what they read undisturbed, clients revoke no lease a worker may
  be holding), and no sweep runs. `EngineInv` says that every session still knows its row: a worker with
  a lease in hand has the claim of a row in the queue it took it from, and its copy is the row (`InHand`); a call is
  alone and its copy is the row (`CallCurrent`); a pass of the ticker is what the row now calls for (`PlanCurrent`).
  It follows that
  each step takes a lease one step along one life (`Life`): inserted, decided, claimed, tried, activated, renewed,
  expired, torn down. The verdicts of polls are read off that life with one more invariant, of
  what a row shows of its past (`LifeInv`).
* `UsableIsBackedHolds` (module ResourceProofs) adds the provider. `Traffic` says what a step may
  do there: a resource comes by the hand that is creating it, goes by the hand that is destroying it, and a handler
  stands behind a call only when the call did what it says. A row and its resource change in
  two steps, and `BackedInv` says which of them is ahead from the place of the handler in between.
* `ClaimExclusiveHolds`, `BudgetKeptHolds`, `ReleasedMeansGoneHolds`, `SweepSparesTheLivingHolds` (module
  ResourceProofs), for every deployment that is `Orderly`, so also beside sweeps, armed or not, whose own window
  anybody may fall into. There `InHand` is false: a sweep may close a lease under the hand that has it, and the hand, whose
  copy is older, may write it back to life. What is left is `SweptInv`: the hand is alone with the lease, which is
  claimed by it or closed (`AtWork`); a lease that was in use is never provisioned again (`UsedOnce`); a sweep
  intends to close only what it saw alive, and what it saw in use was in use (`Remembers`). From it:
  - the claim is exclusive, since a closed lease is in no queue;
  - the budget is kept (`SpentInv`): a lease in a queue has an attempt left, or one that a fault gave it, or is in a hand
    (`Budgeted`), and a handler knows the count of its lease even if it no longer knows its state (`Counted`);
  - what is recorded as released is gone (`FreedInv`): only a lease that was in use is called released by a
    sweep, and what the sweep found gone cannot be made anew, since no hand will provision it;
  - running leases are spared (`SparingInv`): a closed lease whose age is past the grace period is in no hand, so it
    stays closed (`Buried`), and a sweep condemns nothing else; a lease that a running sweep has seen or a hand holds
    does not come of that age meanwhile.

* `VendorTypes` (module PromiseProofs), with no premise: whatever a vendor answers, loses or garbles, a call that is
  open is at a request its operation has, and its reply is of a kind that request gets (`CallsTyped`).
* `KeepsPromiseHolds`, `OneResourceEachHolds` (module PromiseProofs): VendorProviders implements ProviderPromise, for any
  number of calls, resources, names, pages and sends. A call that has made two requests relies on what the first one told
  it, and by then that may no longer be so. The invariant is that everything a call has learned is in its witness or still the
  case (`Learned`): the ids it has seen were carried; the part of a listing it has passed held nothing it
  missed, or the name was absent at some moment; the id a destroy read carried the name. It survives what others do because
  of `NameStays`: with one resource to a name (`Unique`), and names that come to be only where nobody has them
  (`Settles`), either nobody had the name at some moment of the call or the same resource had it
  throughout. Then each step maps to a step of the promise (`Advances`, `CallAllowed`): a POST to `Appear`, a DELETE to
  `Disappear`, a reply that ends the call to `End` with an answer `Given` what was witnessed, and a request that
  changes nothing visible to a stutter. A request handled after its caller went is the same step of an account that the
  promise allows by its own `adrift`: what a call leaves with the vendor is what its witness lets it leave (`MayLeaveIt`),
  and a late POST or DELETE settles names as any other (`LateSettles`). The premise is `Listable`, and the run `vendors` meets it: Neon's listing fits the pages
  the client fetches (cut at `_MAX_PAGES`, a resource beyond is taken for absent), Cloudflare's fits one (its pages
  are numbered, and shift when a record goes), and calls to Upstash come one at a time and the answer to a POST
  arrives, or the POST is never handled (`NonePosted`; it accepts a name twice, and finding 5 shows what a lost answer
  does).

* `FirstMatchDecidesHolds`, `TraceTellsWhyHolds`, `PolicySawTheRowHolds` (module GateProofs), for every catalog,
  request, validator and evaluator. The properties speak of answered requests only, so the invariant (`GateInv`) tells what
  a walk knows on its way: either nothing has decided and every rule tried was passed, or the first rule that stops
  has decided and what follows was not tried (`Walked`); and the context the rules see is that of the inputs and the
  duration to be stored (`AskedAbout`), also after the file's schema was closed (`FromOutside`). That a walk ends with a
  decision needs the default which loading insists on.
* `RewritingsAgreeHolds`, `OptionalInputsAreSafeHolds`, `ServedRulesAreKnownHolds` (GateProofs) are about what the rules come
  to. Rules are a set of trees here (RuleTrees), and four facts stand for the recursion: children of trees
  are trees (`IsForest`); a tree comes to what its node makes of its children's values (`Evaluates`, how `Eval` is
  defined); the allowlist has looked at every node (`IsAllowlist`, how `Lawful` is defined); and heights are finite
  (`IsGrounded`, as trees of a parser are). The first two theorems compute the node at the top from any values below. One
  shows that a connective or a chain stops at the same operand, with the same error or bool, however it is written;
  the other that `and` does not look at `input.env` where `"env" in input` is false. The third goes by the heights: a
  node comes to a value or to the ordinary error if what is below it does (`IsUniverse`: the values are closed
  under the operations of the language, as Python's are). Here the operators, helpers and arities the allowlist accepts
  meet those the evaluator knows.

  MCRequestGate checks `IsForest`, `IsAllowlist` and the facts about requests (`Covers`, `Supports`, `ValidatesToMaps`) of the
  rules, files and requests of the run `gate` (`RulesAreTrees`), so that they are no empty premises. The others
  quantify over every value or context and are beyond TLC: `Evaluates` is the body of `Eval`, `Comparable` and `IsUniverse` are
  facts of Python's values.

`Undisturbed` is what the run `engine` has, `Orderly` what the run `sweep` has, and both are needed: with a sweep, or with
any one of the three events that `Orderly` leaves out, or with the revocation of PENDING or PROVISIONING leases, TLC breaks
most of the properties proved from them (findings 1 to 3 are instances). `BudgetKept` alone survives a handler that
outlives its claim on TLC's instances. Three theorems have a premise more. `UsableIsBacked` is false once somebody
deletes the resource at the vendor, `ReleasedMeansGone` after a create that lands when its handler is dead, and
`SweepSparesTheLiving` with a sweep that outlasts the grace period or a listing without dates (finding 6). No
other event breaks these two beside those `Orderly` excludes.

What else is assumed are the named assumptions of the modules: the null values are not members, bounds are natural
numbers, `MaxAttempts` is at least one (config.py refuses less), instances are keys and operators are requesters.

The proofs found two errors of the model, which no run could show. `ProvisionProgress` of BrokerPolls had a CASE
whose guards overlap; TLA+ leaves open which arm such a CASE takes, while TLC takes the first. It now
nests the alternatives like the `if`s of `_provision_progress`. And `AgesInOrder` of Bailment, which keeps
ages from advancing during a sweep, also kept a resource of some age from vanishing at the vendor meanwhile.

Model-checked only:

* `RowStandsTheSchema`. That a validated value passes its schema again is an induction over schemas and values inside the
  recursion of `ValidateValue`; a hypothesis about `Validation` strong enough to prove it would be the property itself.
* `TerminalIsFinal` and `GoneMeansGone`: what they need excludes most of what could break them in a deployment with
  a reconciler, late creates or free revocation, so they are left as what the run `engine` shows of its instance.
* Liveness (`RequestsSettle`, `LeasesEnd` and the like), which is beyond the prover in principle.
* What the findings refute, and `Eval`, `Accepts` and `ValidateInputs` as such: the proofs rest on the one equation of
  the evaluator and the one implication of the allowlist named above.

## Not modelled, and limits of what is

* **MCP, CLI, REST rendering**: they pass on to the lease service and render what it returns. Pagination and
  statistics only read.
* **Who may call what** (`Caller`, the admin token, visibility of views) appears only where it decides which
  lease a request finds.
* **Secrets, configuration, logging, metrics, redaction**: no state that the broker shares.
* **Start-up and shutdown** (`main.py`): the grace given to loops is covered by letting each loop die at
  every await.
* **Ticker batches**: the LIMIT of the SELECTs; the order in which a database returns rows without ORDER BY is not
  the code's to say.
* **Two renewals at once**: the runs on Bailment have one caller at a time.
* **Listings**: the cut at `_MAX_PAGES` is out of reach (Neon's bound in the run is never less than what
  the account holds). Cloudflare pages by number, so that a record can drop from a listing when one before it is
  deleted between two pages; `PageSize` gives it one page.
* **Requests adrift** are POSTs and DELETEs; a read handled late tells nobody anything.
* **Provider inputs** (regions, record types, connection URIs) only decide whether a check on the way passes; it
  may fail at any such point.
* **Schemas**: keywords whose own value has the wrong JSON type, and floats that are not whole numbers. Schemas in
  the run declare their types.
* **Policy**: `explain`, which nothing calls; the branches of `_walk` for a disabled path and for a chain without a
  default, which the service and the catalog keep out.
* **Broker refusals by the look of the body** (unknown plan, missing fields, a PATCH of parameters), the
  catalog document and `unbind`, which change nothing.

## Plan

Done: the engine and its composition; racing requests; the service broker; the providers against their
protocol; the request gate; proofs of the engine's types, approval gate, stranding, revival, claim, budget and life, of what its
rows say of the provider with and without sweeps, of requests and of the broker, that the providers implement
their protocol, and of the policy chain and its language.

Open: the two hazards of `engine/leases.py` without a property (a full batch of lapsed approvals, two renewals at once),
once the model has them, and theorems about both; `BudgetKept` for handlers that outlive their claims; and a proof
that a validated input stands its schema.
