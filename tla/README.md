# PriorSeal: TLA+ models, model checks and proofs

PriorSeal records what an agent was authorised to do *before* it does it, then
binds the transaction that follows to that authorisation and issues signed
receipts. This directory models the parts of it whose correctness depends on the
order in which concurrent, failing and repeated steps happen: the authorisation
log, the use cases that accept, observe and replay, the prepaid-credit meter, x402
payments on two rails, and the follow-up jobs. Each module translates the `.mts` sources (the `.mjs` files beside them are
generated twins); paths below are relative to the repository.

- [The system](#the-system)
- [Modules and the code they model](#modules-and-the-code-they-model)
- [Runs: what is checked](#runs-what-is-checked)
- [Bounds, and why they are enough](#bounds-and-why-they-are-enough)
- [Fairness](#fairness)
- [Proofs](#proofs)
- [What the models disagree with](#what-the-models-disagree-with)
- [What is not modelled](#what-is-not-modelled)
- [Plan](#plan)

To run a check or a proof, in this directory:

    tlc -workers 2 -config MCX402Delivery.cfg MCX402Delivery
    tlapm LedgerUsersProofs.tla

## The system

In production PriorSeal is a Cloudflare Worker over a D1 database, with a Queue
and a cron trigger for follow-up observations, and a second Worker whose Durable
Object coordinates HyperCore payments. As a Node server the same application runs
over PostgreSQL or over an in-process store. Two facts about these platforms shape
everything below:

- **D1 has no interactive transactions.** A store method is a series of awaited
  statements; each statement is atomic, and so is one `batch()`, and any number of
  requests interleave between them. The in-process store runs a method without
  awaiting anything, and the PostgreSQL store locks the rows it works on.
- **A Worker can be stopped at any await**, and nothing resumes what it was doing.

| Component | State it keeps | Operations | Interacts with | What is hard | What makes it correct |
|---|---|---|---|---|---|
| Agent meter store (in-process, PostgreSQL) | accounts, usage reservations, credit operations, credit-pack purchases | provision, create, revoke, credit, reserve, settle, authorise and settle a purchase | metered calls, paid delivery | replays and conflicting keys | credits are neither created nor lost; a settled row is final |
| Agent meter store (D1) | the same tables | the same methods, statement by statement | the same | batches whose guards are `changes()` and `EXISTS`; checks made before the batch | every statement is one method of the indivisible store or changes no table, except a grant that acts on a stale read; such a grant loses no credit |
| Metered Agent calls | the deployed configuration; per request, a reservation | authenticate, provision, reserve, run the handler, settle in `finally`; operator issue, credit, revoke | meter store, request deadline | retries under one key, redeployment, a deadline inside a tool call | credits are held only while a call needs them, and a served call pays |
| Authorization store and log (in-process) | hash-chained log, Merkle nodes, intents, acceptances | accept, save an intent, bind a transaction | accept and observe requests | one atomic step over four tables | log, index and acceptances agree; history is immutable |
| Authorization store and log (D1) | the same tables, with observations and receipts | `saveAcceptedAuthorization` and `saveObservationReceipt` statement by statement | the same | a receipt signed before the commit it describes; a batch that a missing row does not roll back; diagnosing a rejected batch | every answer is backed by the tables; it implements the store and the life cycle of the evidence |
| HyperCore payment coordinator | quotes, payments, action owners in Durable Object storage | quote, verify, settle | exchange, paid delivery | an irreversible external call between two transactions | one submission per quote; results are final |
| Observation jobs | job rows with leases, a queue of prompts | enqueue, claim, observe, save | cron trigger, queue, observers | lost prompts, overrun leases, stopped Workers | a job finishes, once, within its retry policy |
| x402 paid delivery and its ledger | per request, a captured response; the payment ledger | verify, run, settle, credit, deliver | facilitators, meter store | pending and lost answers, late handlers, failing ledger writes | nothing unpaid is delivered, nothing is charged unjustified, a charge leaves a trace |
| Execution observation, binding, receipts | observations by transaction, receipts | read, ask the chain, assess, classify, write binding, observation and receipt together | observers, log, jobs | a table read before the chain is asked and compared after; two transactions for one authorization | an authorization is consumed once, in the step that records its final observation and issues the receipt |
| Request idempotency | responses by scope and key, with an expiry | look for a replay before, reserve the response after | create, authorize, observe | overlapping requests under one key; a stop between the effect and its record | while a record lives, a key gives one answer to one request |
| Intent creation use case | none of its own | reserve the response, then save the intent | store | the record comes before the effect | an answered intent is stored, unless its saving failed |
| Authorization acceptance use case | none of its own | look for the record, obtain evidence, commit, reserve the response | store, witnesses | evidence that is not obtained; a retry after a stop | an answer is the stored record, whoever wrote it |
| Witness quorum, RFC 3161 timestamps | witness records | attest, count | external witnesses | partial answers | a quorum of distinct witnesses |
| Self-serve claim, pack catalogue | none of its own | create the account, find its credential, credit | meter store (four methods in a row) | a claim racing another, an operator's credit or an account of the same name | who is told a claim is credited has it on record, in an account of its own |
| Evidence archive | none | snapshot pages | store | a growing table | no entry skipped or repeated |
| Chain observers | none | ask the endpoints in turn | nodes | nodes that lag, fail or disagree | the first endpoint that shows a transaction mined decides |
| Receipts, bundles, key registry, verifiers | none | build, verify | - | - | stateless |
| HTTP and MCP interfaces, composition | rate-limit windows | route, parse | all | - | - |
| SDK, web console, examples, scripts, contracts | - | - | HTTP | - | - |

All rows down to the acceptance use case and the self-serve claim are modelled;
the chain observers in part (the EVM one). `PROJECT.json` lists each component with
what is left out of it, and the hazards of the code at the lines where they bite,
with the properties that would catch each, or the reason why none does.

### How the components meet

A request enters `src/interfaces/http/create-http-server.mts`. If its route is
metered, `agentMeter.authorize` reserves credits before dispatch and a `finally`
settles them after it (**MeteredCalls** over **AgentMeterStore**). If its route is
paid, the payment is verified, the handler's response is captured, the payment is
settled and only then is the response sent (**X402Delivery**, also over
**AgentMeterStore**, because a credit-pack checkout settles a purchase between the
payment and the delivery). A HyperCore payment is verified and settled by the
coordinator (**HypercoreCoordinator**).

The requests to create an intent, accept an authorization and observe an execution
(**UseCases**) follow one pattern: look for a response recorded under the
idempotency key; read what is needed; await the outside world; write in one store
method; record the response under the key, or take the one another request
recorded meanwhile. `createIntent` alone records its response *before* it writes.
The write of an accept request appends to the log (**AuthorizationStore**, which
`UseCases` extends; **D1AuthorizationStore**, over **MerkleLog**), that of an
observation binds the authorization and records its evidence (**D1EvidenceStore**, beside
the requests of **D1AuthorizationStore**). An observation that finds its transaction unfinished enqueues a job (**ObservationJobs**), which
later calls `observeExecution` again, without a key.

## Modules and the code they model

`PROJECT.json` maps every definition to its lines. Names follow the source where
TLA+ allows. Beside some definitions stands a **Variant**: the same definition
with a mistake such as a programmer could make (a dropped guard, a wrong order).
A Variant is used by no specification. It is what a property is tested with:
replacing the definition by it makes TLC report that property violated.

| Module | Models | State and actions |
|---|---|---|
| `AgentMeterStore` | the meter methods of `memory-store.mts` | four tables and `seeded`, a history of credits that no operation records; one action per method |
| `D1AgentMeterStore` | the same methods in `d1-store.mts`, and `selfserve-claim.mts` over them | extends `AgentMeterStore`, whose methods its statements implement; `pc[c]` is the next statement of request `c`, one action per statement or batch, `Crash` anywhere; `claimed` holds the accounts whose stored credential is the one a claim derives |
| `MeteredCalls` | `agent-meter.mts`, the metering in `create-http-server.mts` | extends `AgentMeterStore`; a call goes start, status, reserve, dispatch, settle; `Abandon` is the deadline of an MCP tool call firing before its reservation is known |
| `MerkleLog` | `merkle-log.mts` | operators only: appending nodes, required nodes, proofs, verification; recursion as recursive functions (`Width[k]` is the span of a subtree of level `k`) |
| `MerkleIndex` | appending entries with their nodes | a log and a node table, compared with a reference definition of the root |
| `AuthorizationStore` | the log and acceptance methods of `memory-store.mts` | `Accept`, `SaveIntent`, `Bind` |
| `D1AuthorizationStore` | `saveAcceptedAuthorization` in `d1-store.mts` and the constraints of the migrations | extends `AuthorizationStore`, whose `Spec` it implements; reads, draft, batch, diagnosis of a rejected batch, retry |
| `D1EvidenceStore` | `saveObservationReceipt` in `d1-store.mts`, `receipt-identity.mts` | extends `D1AuthorizationStore` with *savers*; the look for the receipt, the batch of update and guarded inserts, its diagnosis, one retry; the savers take the place of `OtherBinding`. Implements `AuthorizationStore` and `EvidenceLifecycle` |
| `HypercoreCoordinator` | `hypercore-x402/coordinator.mts`, the exchange client in `worker.mts` | one action per storage transaction; `Exchange` is the external call between the two transactions of `settle`; `Evict` |
| `X402Delivery` | the paid branch of `create-http-server.mts`, `x402-exact-evm.mts`, `x402-payment-ledger.mts` | extends `AgentMeterStore`; `pc[r]` is the stage of request `r`; facilitators and networks answer anything the code would read as an answer |
| `EvmObserver` | the endpoint loop of `evm-observer.mts` | operators only: what the endpoints say, and what the observer makes of it |
| `UseCases` | `create-intent.mts`, `authorize-intent.mts`, `observe-execution.mts`, `idempotency.mts`, and `saveObservationReceipt` and the idempotency methods of `memory-store.mts` | extends `AuthorizationStore`; `pc[r]` is what request `r` does next, `draft[r]` what it has computed, `reply[r]` its answer; one action per stretch of code between two awaits, `Stop` anywhere, `Tick` |
| `EvidenceLifecycle` | what `UseCases` promises about evidence | abstract specification: accepted once, consumed by one transaction with its final observation and receipt; `UseCases` and `D1EvidenceStore` implement it, each through a mapping `Lifecycle` |
| `ObservationJobs` | `enqueueJob`, `claimDueJobs`, `saveJob` in `d1-store.mts`, `observation-worker.mts`, the queue consumer and the cron handler | job rows with claim tokens, prompts, Workers; instants are abstracted to `ready` |

Identifiers that the code derives by hashing (usage, operation, purchase, ledger,
payment and entry identifiers) are represented by what is hashed, so that two are
equal exactly when their contents are. Where that is a hazard it shows: the
HyperCore payment identifier does not hash the payer, and neither does
`PaymentId`.

Simplifications worth knowing: in `MeteredCalls` an abandoned tool call's
background operation answers no one and changes nothing the meter keeps;
`X402Delivery` starts after the payment header was found, keeps of a ledger event
its type only, and takes a signed payment for one resource (the ledger identifier
hashes the resource URL too); `HypercoreCoordinator` has one network, price and
merchant, as production has.

Where a clock is read some awaits before its value is used, the model lets it have been
read then. `verify` and `settle` of the coordinator check an action's window
at `coordinator.mts:242`, wait for the signature to be recovered, and only then run
their transaction: `ReadTimes` is any instant up to `Latency` before the transaction at
which the quote existed. Nothing in the code bounds that wait, so `SubmissionTimely`, which
contains `Latency`, is as tight as that wait is short (one signature recovery and the
start of a transaction inside one object). `observeExecution` takes a receipt's issue time at `observe-execution.mts:116`,
before it verifies the receipt and saves it: `IssueTimes` is any instant from the
observation to the save.

In `UseCases`, checks that read no shared state and only refuse (parsing,
signatures, policies that need no evidence) are left out: a request that fails them
does nothing. A reverted transaction is assessed, bound and recorded as a confirmed
one is. The rule that decides whether a transaction is the authorised one
(`Executors`) is a constant, because it compares contents that never change. The
clock of the Worker and that of the database are one, and exact, as in the in-process
store that `UseCases` is written from. On D1 a record is looked up in milliseconds of
the Worker's clock but replaced in whole seconds of the database's (`d1-store.mts:407`):
one that expired less than a second ago can still be replayed, or refuse another request
under its key. `KeyedAnswersAgree` speaks of a record's life and says nothing of that
second. `saveObservationReceipt` is
one step there, as in the in-process store. An observation that is on record already is
appended to the list of its transaction again by the in-process store (`UseCases`) and
ignored by D1 (`D1EvidenceStore`); the life cycle allows either. In `D1EvidenceStore` a
save always has a receipt, and its caller has read the authorization it saves for, as
`observeExecution` does.

## Runs: what is checked

| Run | Shows | States |
|---|---|---|
| `calls` | Over the indivisible store, no order of calls (retried, sharing a key across routes, made through MCP with a deadline), purchases, redeployments and operator actions creates or loses a credit, seeds an account beyond its capacity, holds credits for no one, or changes a final row. A key that one call used is charged exactly when the call was served. | 186 424 |
| `d1_meter` | Every D1 statement is one method of the indivisible store or changes no table (refinement), except a grant batch that acts on a stale read; every provisioned credit is available or pinned by one reservation, and recorded credits reach the balance unless a revocation overtook a settlement; credits are held only for a live or stopped request, and are settled eventually; a claim answered as credited is on record in an account of its own. | 61 849 |
| `hypercore` | Each quote reaches the exchange at most once; a quote reported settled was executed; an action with an identifier of its own is sent for one quote, its payer's; a claim comes within a bound of the quote's expiry, up to the claiming request's own latency; results are final; a claim is recorded unless the object is evicted. | 532 869 |
| `merkle` | For every log of up to eight entries: the index holds exactly the complete subtrees with the right hashes, and every proof against every earlier checkpoint verifies against the reference root for its own entry and position, and for no other. | 511 |
| `d1_authorizations` | Accept requests and saves of evidence, beside each other: the D1 statements implement the indivisible store, for which the agreement of log, index, records and reservations is proved, and the life cycle of the evidence; every answer handed out is backed by the tables; a rejected batch is always explained, contention means that others progressed, no save ends in a database error, and every call that is not stopped is answered. | 219 439 |
| `jobs` | A finished job stays finished, active jobs of one observation are never two, attempts exceed the policy by no more than the leases lost, an enqueue fails only after two jobs ended meanwhile, and the cron trigger alone gets every job finished. | 225 237 |
| `x402` | Nothing is delivered after settlement, or credited, unpaid; nothing is charged without an authorisation on record and an answer; every charge whose requests were not stopped and whose writes did not fail can be reconciled from the ledger or from a kept purchase. | 254 612 |
| `usecases` | Overlapping requests, with and without keys, lagging endpoints and stopped processes: the use cases implement the life cycle of the evidence; every answer is backed by the tables; under a key one request has one answer; a reorganization is flagged unless its observer read before the observation it contradicts was there. | 112 543 |
| `calls_retry`, `calls_abandoned`, `d1_doublesettle`, `x402_late` | Counterexamples; see [below](#what-the-models-disagree-with). | |

Properties worth reading first: `UnsharedKeyCharged` and `HeldOnlyInHandler`
(`MeteredCalls`), `ImplementsStore` (`D1AgentMeterStore`), `ImplementsTables` and
`CallsAreJustified` (`D1EvidenceStore`), `SubmissionTimely` (`HypercoreCoordinator`),
`ImplementsLifecycle` and `KeyedAnswersAgree` (`UseCases`), `ChargedLeavesTrace`
(`X402Delivery`), `JobsFinish` (`ObservationJobs`).

Deadlock is not checked in any run: every model has a bounded script of requests
and simply stops when they are answered. That requests *do* get answered is
checked as liveness where the code's scheduling supports it.

## Bounds, and why they are enough

Every bound is a CONSTANT. Concurrent work is given by a set of *scripts*
(`Scripts`, `Loads`, `Scenarios`): the initial state chooses one, and it names the
requests that run together. A script is small, and each stands for one conflict
the tables can have.

- `calls`: one account (no method reads two), one key, three calls of which one is
  a retry (and a tool call) and one reuses the key for another route, one purchase,
  `MaxDeploys = 2` configuration changes (one to configure, one to change).
- `d1_meter`: six scripts of five requests: calls that compete for the last credits,
  an operator who credits twice under one key, a purchase settled once, one settled twice,
  one whose settlement is disturbed by a revocation and by a credit under its own key, and
  a transfer claimed twice. Two keys, two accounts, one pack; every interleaving of their
  statements, each stopped anywhere.
- `hypercore`: two quotes, four signed actions that share time, payer or chain in
  every way; `Lifetime = 1`, `Skew = 1`, `Latency = 1`, `MaxClock = 5`, which lets an
  action dated as late as possible be claimed as late as possible, by a request that took
  as long as possible: the bound of `SubmissionTimely` is reached, and one less fails.
- `merkle`: eight entries pass a power of two three times and contain every shape
  of incomplete tree up to depth three; two entry values, so that position matters.
- `d1_authorizations`: three requests, `MaxAttempts = 2` instead of 8: the loop
  body is the same in each round, and two let one request lose once and succeed and
  lose twice and give up. Five loads, one per unique constraint and one where only
  the sequence number is contended. Beside each load run two savers, chosen for the load (`MCSaves`): for two transactions of
  one authorization, for one receipt saved twice or issued again, for evidence of either of
  two authorizations, for evidence that is not final, for an intent alone.
- `usecases`: seven scripts of three requests and one key, each a conflict: one key
  for two requests, an identifier with two contents, a client order identifier used
  twice, two transactions for one authorization, two observers of one transaction, one of them
  under a key that a creation uses too.
  `MaxTime = 1` and `Retention = 1` let a record expire between any two steps. Two
  endpoints, each with five answers of which two name different blocks.
- `jobs`: `Limit = 2` attempts, `BatchSize = 2`, at most `MaxPrompts = 1` prompt per
  job outstanding (a second one wakes a Worker that finds nothing), up to three lost
  leases, three requests for one observation.
- `x402`: three requests; a payment presented twice beside another on the other
  rail, a checkout three times, checkouts on both rails for one account. A HyperCore
  amount is whole or has decimals, which decides whether the ledger takes it.

Where a property is also proved, the bounds do not matter.

## Fairness

Safety runs assume none. The liveness properties assume:

- `D1AgentMeterStore`, `D1EvidenceStore`: weak fairness of each request's, and each
  saver's, next statement. A Worker that is not stopped gets its statement executed; `Crash` is
  never forced and never excluded.
- `HypercoreCoordinator`: weak fairness of `Exchange` and `FinishSettle`: the
  exchange client aborts after ten seconds, so the awaited call always ends, and the
  object then runs the second transaction. `Evict` may take either away.
- `ObservationJobs`: weak fairness of each Worker's steps, of the cron trigger's
  claim, and of instants passing. **No fairness of `Deliver`**: a prompt may be lost,
  and nothing in the code depends on one.
- `MeteredCalls`, `X402Delivery`, `UseCases`, `MerkleIndex`: safety only. The code does not
  promise that a stopped request's credits or ledger events are ever completed.

## Proofs

Eight modules hold theorems that TLAPS checks for every value of the constants (any
number of requests, accounts, payments, quotes, keys, endpoints). The assumptions are the `ASSUME`s
of the modules (typing of the constant functions, that `None` is none of the
values, and that an account's sums are over finitely many keys), which TLC evaluates in the runs.

| Module | Theorems | Argument |
|---|---|---|
| `AgentMeterStoreProofs` | `TypeCorrect`, `Conserved`, `PurchasesMatch`, `LedgerFinal` | `MeterInv` = types and "a purchase is CREDITED exactly when its operation exists"; one lemma per method. Types alone are not inductive for the agreement, which needs that no operator operation has a purchase's reference. `Conserved`: a sum over rows (`ChargedTotal`, `OperationTotal`) changes by the change of the one row a method writes, see [below](#induction-without-its-theorem). |
| `LedgerUsersProofs`, metered calls | `CallsTypeCorrect`, `HeldInHandler`, `SeededBounded`, `UnsharedCharged`, `CallsConserveCredits`, `CallsLedgerFinal` | `CallsUseStore`: every step of a call is one ledger method or changes no table, so the ledger's invariants, `Conserved` included, carry over. `HeldOnlyInHandler` is inductive once the pc and the outcome of a call are related; `SeededInv` adds that what was seeded is within the provisioned total. `RowsFollow`: the row of a key that no other call has used yet says where its call is, at every stage, because a call touches the row of its own key only. |
| `LedgerUsersProofs`, paid delivery | `DeliveryTypeCorrect`, `NothingUnpaidEver`, `ChargesJustified`, `ChargesLeaveTrace`, `DeliveryConservesCredits`, `DeliveryLedgerFinal` | `StageInv` says what a request has behind it at each stage (authorised on record, answered, paid). It is inductive because nothing it rests on is taken back (`Kept`): events only grow, and an executed payment stays executed whatever a later answer says (`AnswerMeaning`). `SubmittedInv` and `CreditedInv` add what holds of payments no request is working on. `TraceInv`: a charged payment is in the hands of a request that is settling it until an outcome is on record or its purchase is kept. It needs `HypercoreSellsPacks` (what a whole HyperCore amount buys is a pack, as configured), without which it is not true, see [below](#what-the-models-disagree-with). |
| `D1AgentMeterStoreProofs` | `RequestsHold`, `D1TypeCorrect`, `D1ImplementsStore`, `ReservationsHeld`, `ClaimsCredited`, `CreditsNotMissing` | `RequestInv`: what a request has read is still there at its next statement, because accounts, operations and credited purchases do not go away (`Knows`); its place is in its own method (`Placed`); an operation of a purchase is written with its mark (`MarkedInv`). With it each statement is one method or a stutter, or a `StaleGrant`. `NoMissingCredit` is not an invariant of the methods alone, because a stale grant is none of them: `StaleGrants` shows that it may add the credits twice, or mark a revoked buyer's purchase without them, but never takes a credit away or records an operation whose credits an active account lacks. |
| `AuthorizationStoreProofs`, the store | `TypeCorrect`, `ReservationsUnique`, `LogChained`, `AcceptedLogged`, `HistoryImmutable`, `IndexSound` | `StoreInv`: the chain, records repeating their entries, typed intents, and `NodesInv`: the node index is a table of `Subtrees` of the log. `IndexSound` applies what is proved of such tables (next row) to the store's own log: an accept request never fails on the index, and every proof the store serves verifies. |
| `AuthorizationStoreProofs`, the Merkle index | `IndexComplete`, `ProofsVerified` | `Subtrees`: the table holds exactly the complete subtrees of the first n entries, each with the hash of its two halves, or of its entry. An append keeps it so (`SubtreesGrow`): the nodes it adds are those whose subtree ends with the new entry, none was there before, and each half it reads is (`HalvesStored`). Then, by induction on the size of a range: each node is the root of its range (`RootOfSubtree`), the nodes a proof reads are in the table (`CoverStored`, `VisitStored`), a range's hash from them is its root (`HashIsRoot`), the proof's path leads from the entry's leaf to the root along the entry's sides (`VisitProves`), two positions never have the same sides (`SidesTell`), and one path leads to one hash from one entry only (`PathTells`). The last two are what makes a proof good for one entry at one position. |
| `D1AuthorizationStoreProofs`, accept requests | `RequestsTypeCorrect`, `D1Implements`, `AcceptancesLogged`, `RefusalsJustified`, `AnswersJustified`, `FailuresExplained` | `DraftInv`: a draft whose sequence number is still free names the current head, because the log only grows; so a batch the constraints admit is exactly one `Accept`. `ReplyInv`: an answer rests on rows that are never removed. `ExplainInv`: a batch is rejected for a row that stays, so the reads that diagnose it, in whatever order others write, meet one of its reasons; what is left is a taken sequence number, and each of those is one more entry than the request had tries. |
| `D1AuthorizationStoreProofs`, with the savers | `EvidenceTypeCorrect`, `D1IndexSound`, `SaversAreObservers`, `SavesJustified`, `SavesSucceedOrRefuse`, `CallsJustified`, `CallsExplained`, `TablesImplemented` | A batch of a saver binds or changes nothing the requests read, so all of the above carries over to `D1EvidenceStore` (`SaversAreObservers`). `EvidenceInv`: a receipt found stays found, a batch that was rejected left the receipt to be found, and a final receipt stands only for the transaction its authorization is bound to; with it a batch that matched is one step of the life cycle, and every other statement a stutter. |
| `UseCasesProofs` | `UsesStore`, `UseCasesKeepHistory`, `UseCasesTypesCorrect`, `ReorgsFlagged`, `UseCasesImplementLifecycle`, `UseCasesEvidenced`, `AnswersBacked`, `KeyedAgree` | `StepUsesStore`: every step is a store method or leaves the store alone, so `StoreInv` carries over. `RequestsInv`: what a request has read is still there when it writes, because the tables only grow. With it every step is a step of the life cycle. `RepliesInv`: an answer, or a recorded response, rests on rows that are never removed, or on a request that promised to save. `EvidencedInv`: a receipt is backed as the answer it was issued for, and a binding has a final receipt, so bindings and final receipts determine each other. `KeysInv`: answers under a live record repeat it. |
| `ObservationJobsProofs` | `JobsInvHolds`, `JobsTypeCorrect`, `AttemptsAreBounded`, `JobsAdvance`, `RequestsDoCoalesce` | `JobsInv`: types, what a Worker holds at each stage, and `RowOK`: a running row whose lease has ended, or whose holder is gone, has cost a fault more than its attempts beyond the limit. The bound on attempts alone is not inductive, because the next claim of such a row has to be paid for already. `Advances` lists what a step may do to a row. `EnqueueOK`: a request sent round the loop has seen a row of its observation that has ended since, and one that gives up two. Assumes finitely many job keys. |
| `HypercoreCoordinatorProofs` | `InvariantHolds`, `TypeCorrect`, `OneSubmission`, `SettledIsExecuted`, `UnsharedOnce`, `ClaimIsTimely`, `Finality` | `CallsInv` ties the stage of a settlement to the state of its quote; `BindingInv` ties a payer/time key to the stored payment; `TimelyInv` bounds an action's date by the quote's expiry; the latency enters once, at the claim, because the quote's expiry is checked inside the transaction that binds the action. |

### Induction without its theorem

The library's induction theorems take an operator as a parameter, which the installed
provers cannot instantiate. The sums of the ledger and the recursive functions of the
Merkle log need induction all the same. Each is reached through a least
counterexample: a nonempty set of naturals has a least element (`LeastNumber`, and
`WFMin` with `NatLessThanWellFounded` for the sums), and

- a recursive function is what its equation says because the least number up to which
  there is no such function is shown to be none (`WidthsExist`, `ClimbsExist`);
- the six functions that split a range differ only in what they make of the values of
  the two parts, so `Join` lists that as data, one existence lemma (`JoinsExist`) serves
  all of them, and each gets its equation from it (`CoverEquation` to `ProofEquation`);
- what holds of a range when it holds of its parts holds of all (`RangeInduction`), with
  the statement given as the set of the ranges it holds of.

These functions take a range as one argument, a pair, because the SMT backend knows no
functions of several arguments; powers are written as `Width[k]` because it knows no law of
`^`.

Only model-checked, and why:

- liveness (`SettlementsFinish`, `ReservationsSettle`, `CallsAreAnswered`,
  `JobsFinish`): fairness and ENABLED are out of the prover's reach.

Every safety property the passing runs check is stated by a theorem.

## What the models disagree with

Four runs end in a counterexample to something the documentation says.

- **`d1_doublesettle`**, a purchase credited twice. Two requests settle one purchase
  on D1 and both read it before either batch. The second batch inserts nothing, but
  its balance statement asks only whether *an* operation with that identifier exists
  (`d1-store.mts:213`), and it does.
- **`x402_late`**, a resource delivered unpaid. The deadline answers 504 for a
  handler that goes on. Capturing ends, and while the `RESOURCE_WITHHELD` event is
  being written the handler ends: `respond` sends its 2xx body, and the 504 after it
  is dropped by `sendJson`. No settlement is asked for.
- **`calls_abandoned`**, credits reserved for ever. An MCP tool call is metered
  inside its deadline. If that fires while `authorize` is awaited, the `finally`
  that settles runs before there is a reservation.
- **`calls_retry`**, a call served for nothing. A retry finds the reservation its
  failed first attempt has released, is admitted, and settles nothing.

Smaller divergences met while modelling, which no run is spent on:

- `hypercore-x402-protocol.mts:289`: the payment identifier does not hash the payer, so
  a second payer's payment dated in the same millisecond overwrites the first one's
  (`coordinator.mts:143`), whose action can then be sent for two quotes
  (`docs/operations/hypercore-x402-facilitator.md:47-49`).
  `UnsharedActionSubmittedOnce` is checked, and proved, for the actions with an
  identifier of their own.
- `create-intent.mts:27`: the response is reserved before the intent is saved, which
  the comment at line 12 calls "one application operation". If the save is refused or
  the process stops, the key replays an intent that was never stored
  (`NeverSaved` is the case `AnswersAreBacked` excepts).
- `observe-execution.mts:81`: an observer that read before another one recorded an
  inclusion does not see it contradicted, and records no `REORGED`;
  `ReorgsAreFlagged` is what does hold.
- `observe-execution.mts:98`: only the last observation is compared, so one that is
  `PENDING` without a block makes the block known before it forgotten, and a later
  inclusion elsewhere is no reorganization.
- `observe-execution.mts:116`: the identifier of a receipt does not cover its issue
  time but its contents do. An observation whose receipt was issued in
  another second is refused with `RECEIPT_ID_CONFLICT` instead of answered
  (`ReceiptConflicts`).
- `agent-meter.mts:158`: an entry configured as `revoked` does not stop the calls of
  an account that exists already (`docs/product/agent-usage-model.md:184`).
- `d1-store.mts:239`: of two overlapping calls that reuse one key for two routes,
  both are admitted; a later one would be refused.
- `d1-store.mts:212`: a revocation between the account check and the batch leaves a
  purchase CREDITED, with its operation, without the credits. `Forfeits` is that case,
  the only one `NoMissingCredit` excepts; a grant that acts on such a stale read, or on an
  operation recorded since, is the one step `ImplementsStore` excepts (`StaleGrant`).
- `d1-store.mts:150`: raising a configured capacity after an operator credit adds
  less than the difference, because the provisioned total contains the credit.
- `agent-meter.mts:206`: the settlement of a credit pack refuses the HyperCore
  network, so a pack paid on that rail always ends as `CREDIT_PURCHASE_PENDING`
  (`CreditPack`); its purchase is kept, which is why `ChargedLeavesTrace` holds.
- `x402-payment-ledger.mts:113` and `:129-135`: a HyperCore amount with decimals can
  never be authorised on record, and a HyperCore settlement never gets its
  `SETTLEMENT_FAILED` or `DELIVERED` event (`Buildable`). For a whole-dollar
  HyperCore resource that is no pack, `ChargedLeavesTrace` would not hold; no
  configured route is one.
- `create-http-server.mts:536`: a settlement that is still pending after its retry is
  recorded as `SETTLEMENT_FAILED`, which `docs/runbooks/x402-staging.md:95` calls a
  terminal result; the payment may be executed later.
- `coordinator.mts:194`: `settle` does not check the quote's expiry again;
  `SubmissionTimely` is the bound that does hold, up to the time between the look at the
  clock (line 242) and the claim (line 177).
- `coordinator.mts:206`: an object evicted between submitting and recording leaves the
  quote SUBMITTING for ever; `SettlementsFinish` excepts it.
- `create-http-server.mts:586`: a request stopped between the settlement and the
  DELIVERED event leaves a charged payment without an outcome on record;
  `ChargedLeavesTrace` excepts it.

## What is not modelled

Parsing, formatting, signatures, hashing, TLS, authentication of merchants and
operators, rate limits, logging, discovery documents, the SDK and the web console:
they keep no shared state, or their failures are ordinary refusals. Facilitators
appear as the answers they may give, the EVM chain as what its endpoints may say;
the Solana and Hyperliquid observers are not distinguished from it, nor is the
fallback for account-abstraction transactions. PostgreSQL's row locks are taken for
what they promise. In `X402Delivery`, unpaid requests, the evidence bound to a
delivered response and operator refunds are left out; in `D1AuthorizationStore`,
the methods used only by stores without `saveAcceptedAuthorization`.

- The witness quorum and RFC 3161 timestamps verify signatures over one request's
  own evidence; to `UseCases` they are evidence that is obtained or not.
- The evidence archive reads pages of a log whose immutability is proved
  (`UseCasesKeepHistory`), and writes nothing.
- Receipts, bundles and verifiers are pure functions of signed documents.
- The contracts are reference code for tests; examples and scripts are clients.

The share of lines the models cover is small and will stay so: most lines of the
repository are generated verification bundles under `examples/`, `.mjs` twins of the
`.mts` sources, and document formats with their checks, which have no behaviour that
interleaves.

## Plan

What is left is one composition: the enqueue of a job with the observation that asks for it.
Today `ObservationJobs` says that a job is finished, and `UseCases` what the observation it
makes records.

`MeteredCalls` and `X402Delivery` both compose with the indivisible ledger; that the
D1 ledger implements it (up to stale grants) is what carries their results
to production. In the same way `UseCases` composes with the indivisible
log and the one-step write of evidence, which `D1EvidenceStore` implements.
Composing them with the D1 statements directly is not planned: the refinement is the
cheaper way to say it.
