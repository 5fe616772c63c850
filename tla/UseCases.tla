------------------------------ MODULE UseCases ------------------------------
(***************************************************************************)
(* The three use cases behind the HTTP interface, createIntent,            *)
(* authorizeIntent and observeExecution, run concurrently against one      *)
(* store, each possibly under an idempotency key.  A request reads, awaits *)
(* the outside world, writes and finally reserves its response under its   *)
(* key; anything may happen at each await, and its process may stop there. *)
(*                                                                         *)
(* The store is AuthorizationStore, with the tables of observations,       *)
(* receipts and idempotency records beside it.                             *)
(***************************************************************************)
EXTENDS AuthorizationStore

CONSTANTS
  Requests,   \* names of concurrent requests
  Scripts,    \* the sets of requests considered: a script maps a request to what it asks
  Keys,       \* idempotency keys
  Executors,  \* Executors[i]: transactions sent by the delegate of i with the authorised nonce
  Blocks,     \* blocks a transaction may be included in
  Endpoints,  \* the number of RPC endpoints of the chain
  Answers,    \* what an endpoint may say of a transaction
  Retention,  \* how long an idempotency record is kept
  MaxTime     \* bound on the clock

Observer == INSTANCE EvmObserver WITH Blocks <- Blocks, None <- None

Kinds == {"create", "authorize", "observe"}
Orders ==
  [kind : {"create"}, key : Keys \cup {None}, intent : Ids]
  \cup [kind : {"authorize"}, key : Keys \cup {None}, signed : Signed]
  \cup [kind : {"observe"}, key : Keys \cup {None}, authorization : Ids \cup {None}, tx : TxHashes]

ASSUME UseCaseAssumption ==
  /\ \A s \in Scripts : s \in [Requests -> Orders]
  /\ Executors \in [Ids -> SUBSET TxHashes]
  /\ None \notin Keys \cup Blocks \cup Ids /\ None \notin Nat
  /\ Answers \subseteq Observer!EndpointAnswers
  /\ Endpoints \in Nat /\ Retention \in Nat \ {0} /\ MaxTime \in Nat /\ 0..MaxTime \subseteq Times

VARIABLES
  now,          \* the clock
  idempotency,  \* idempotency[<<scope, key>>]: [request, response, expiresAt]
  history,      \* history[tx]: the stored observations of tx, oldest first
  receipts,     \* receipts[<<authorization, tx, observation>>]: its issue time
  script,       \* script[r]: what request r asks
  pc,           \* pc[r]: what r does next
  draft,        \* draft[r]: what r has computed so far
  reply         \* reply[r]: [response, expiresAt, at]: what r is answered, the expiry of the
                \* record it is answered under, or None, and when that was settled;
                \* a request without an answer is not in its domain

evidence == <<history, receipts>>
vars == <<log, nodes, intents, authorization, now, idempotency, history, receipts,
          script, pc, draft, reply>>

Kind(r) == script[r].kind
Key(r) == script[r].key
\* Variant: the operations share one scope of keys.
SlotShared(r) == <<"create", Key(r)>>
Slot(r) == <<Kind(r), Key(r)>>
\* The request hash: what r asks, apart from its key.
RequestHash(r) == [script[r] EXCEPT !.key = None]
Ended == {"answered", "refused", "stopped"}

UseCasesInit ==
  /\ Init
  /\ now = 0
  /\ idempotency = <<>>
  /\ history = [tx \in TxHashes |-> <<>>]
  /\ receipts = <<>>
  /\ script \in Scripts
  /\ pc = [r \in Requests |-> "start"]
  /\ draft = [r \in Requests |-> None]
  /\ reply = <<>>

Goto(r, label) == pc' = [pc EXCEPT ![r] = label]
Keep(r, value) == draft' = [draft EXCEPT ![r] = value]
Refuse(r) == Goto(r, "refused") /\ Keep(r, None) /\ UNCHANGED reply
Respond(r, response, expiresAt) ==
  reply' = Written([q \in {r} |-> [response |-> response, expiresAt |-> expiresAt, at |-> now]], reply)
Answer(r, response, expiresAt) ==
  Goto(r, "answered") /\ Respond(r, response, expiresAt) /\ Keep(r, None)
Continue(r, label, value) == Goto(r, label) /\ Keep(r, value) /\ UNCHANGED reply

-------------------------------------------------------------------------------
(* Idempotency: findIdempotentReplay and reserveIdempotentResponse *)

Live(slot) == slot \in DOMAIN idempotency /\ idempotency[slot].expiresAt > now
Keyed(r) == Key(r) # None /\ Live(Slot(r))
\* Variant: the request hash is not compared.
SameRequestUnchecked(r) == TRUE
SameRequest(r) == idempotency[Slot(r)].request = RequestHash(r)
\* A live record decides: its response is the answer, or the key was reused.
Replay(r) ==
  /\ Keyed(r)
  /\ \/ /\ SameRequest(r)
        /\ Answer(r, idempotency[Slot(r)].response, idempotency[Slot(r)].expiresAt)
     \/ ~SameRequest(r) /\ Refuse(r)

First == [create |-> "reserve", authorize |-> "check", observe |-> "read"]
\* What r knows when it goes on: the intent it builds, or the time it was asked at.
Opening(r) == IF Kind(r) = "create" THEN script[r].intent ELSE now

Start(r) ==
  /\ pc[r] = "start"
  /\ Replay(r) \/ (~Keyed(r) /\ Continue(r, First[Kind(r)], Opening(r)))
  /\ UNCHANGED <<storeVars, idempotency, evidence>>

Expiry(r) == IF Key(r) = None THEN None ELSE now + Retention
NextAfterReserve(r) == IF Kind(r) = "create" THEN "save" ELSE "answered"

\* reserveIdempotency: the response is recorded, unless a live record has one already,
\* which is the answer then.  Only createIntent has work left after that.
Reserve(r) ==
  /\ pc[r] = "reserve"
  /\ \/ Replay(r) /\ UNCHANGED idempotency
     \/ /\ ~Keyed(r)
        /\ idempotency' = IF Key(r) = None THEN idempotency
                          ELSE Written([slot \in {Slot(r)} |->
                                 [request |-> RequestHash(r), response |-> draft[r], expiresAt |-> Expiry(r)]],
                               idempotency)
        /\ Goto(r, NextAfterReserve(r))
        /\ Respond(r, draft[r], Expiry(r))
        /\ Keep(r, None)
  /\ UNCHANGED <<storeVars, evidence>>

-------------------------------------------------------------------------------
(* createIntent *)

SaveCreated(r) ==
  /\ Kind(r) = "create" /\ pc[r] = "save"
  /\ \/ SaveIntent(script[r].intent) /\ Continue(r, "answered", None)
     \/ IntentConflicts(script[r].intent) /\ Refuse(r) /\ UNCHANGED storeVars
  /\ UNCHANGED <<idempotency, evidence>>

-------------------------------------------------------------------------------
(* authorizeIntent *)

Asked(r) == Id[script[r].signed]
\* What an acceptance says, whatever its record was bound to since.
Acceptance(i) == [authorization[i] EXCEPT !.tx = None]

\* An accepted authorization is replayed from its record, without a key.
Check(r) ==
  /\ pc[r] = "check"
  /\ \/ Accepted(Asked(r)) /\ Answer(r, Acceptance(Asked(r)), None)
     \/ ~Accepted(Asked(r)) /\ CloidUsed(Asked(r)) /\ Refuse(r)
     \/ ~Accepted(Asked(r)) /\ ~CloidUsed(Asked(r)) /\ Continue(r, "commit", draft[r])
  /\ UNCHANGED <<storeVars, idempotency, evidence>>

\* The time stamp or the witness quorum that the policy asks for is not obtained.
EvidenceFails(r) ==
  /\ pc[r] = "commit"
  /\ Refuse(r)
  /\ UNCHANGED <<storeVars, idempotency, evidence>>

\* Variant: the response is the record this request would have written.
CommittedOwn(r) == Record(NextEntry(script[r].signed, draft[r]))
\* saveAcceptedAuthorization returns the stored record, whoever's it is.
Committed(r) ==
  IF Accepted(Asked(r)) THEN Acceptance(Asked(r)) ELSE Record(NextEntry(script[r].signed, draft[r]))

Commit(r) ==
  /\ pc[r] = "commit"
  /\ \/ Accepted(Asked(r)) /\ Continue(r, "reserve", Committed(r)) /\ UNCHANGED storeVars
     \/ Accept(script[r].signed, draft[r]) /\ Continue(r, "reserve", Committed(r))
     \/ ~Accepted(Asked(r)) /\ ~Acceptable(script[r].signed) /\ Refuse(r) /\ UNCHANGED storeVars
  /\ UNCHANGED <<idempotency, evidence>>

-------------------------------------------------------------------------------
(* observeExecution *)

Subject(r) == script[r].authorization
Tx(r) == script[r].tx

\* The authorization and the latest observation are read before the chain is asked;
\* draft[r] is the number of observations on record at that moment.
Read(r) ==
  /\ pc[r] = "read"
  /\ \/ Subject(r) # None /\ ~Accepted(Subject(r)) /\ Refuse(r)
     \/ (Subject(r) # None => Accepted(Subject(r))) /\ Continue(r, "observe", Len(history[Tx(r)]))
  /\ UNCHANGED <<storeVars, idempotency, evidence>>

\* Variant: a transaction that disappeared is not noticed.
detectReorgBlocks(previous, seen) ==
  previous.block # None /\ seen.block \notin {None, previous.block}
detectReorg(previous, seen) ==
  previous.block # None /\ (seen.status = "NOT_FOUND" \/ seen.block \notin {None, previous.block})

\* What r makes of an observation, given the one it read before.
Assessed(r, seen) ==
  LET previous == IF draft[r] = 0 THEN [block |-> None] ELSE history[Tx(r)][draft[r]].observation
      reorg == detectReorg(previous, seen)
  IN [status |-> IF reorg THEN "REORGED" ELSE seen.status, block |-> seen.block,
      replaced |-> IF reorg THEN previous.block ELSE None, at |-> now]

Sightings == {Observer!observeEvm(answers) : answers \in [1..Endpoints -> Answers]}

Observe(r) ==
  /\ pc[r] = "observe"
  /\ \E seen \in Sightings :
       IF seen = None THEN Refuse(r)
       ELSE Continue(r, "save", [observation |-> Assessed(r, seen), read |-> draft[r]])
  /\ UNCHANGED <<storeVars, idempotency, evidence>>

classifyAuthorizationAssociation(i, tx, observation) ==
  IF i = None THEN "NONE"
  ELSE IF observation.status \in {"NOT_FOUND", "REORGED"} \/ tx \notin Executors[i] THEN "UNRELATED"
  ELSE IF observation.status = "PENDING" THEN "CANDIDATE" ELSE "FINAL"

ReceiptId(r) == <<Subject(r), Tx(r), draft[r].observation>>
Claims(r) == classifyAuthorizationAssociation(Subject(r), Tx(r), draft[r].observation) = "FINAL"
\* The issue time is read between the observation and the save, and the awaits for
\* evidence and for the receipt's own verification lie around it.
IssueTimes(r) == draft[r].observation.at..now
\* assertReceiptIdentity: a receipt with this identifier says something else.  Its
\* identifier covers the observation, its contents the issue time as well.
ReceiptConflicts(r, issuedAt) ==
  ReceiptId(r) \in DOMAIN receipts /\ receipts[ReceiptId(r)] # issuedAt
\* Variant: only an unclaimed authorization is looked at, not the transaction.
ClaimRefusedNever(r) == FALSE
ClaimRefused(r) == Claims(r) /\ authorization[Subject(r)].tx \notin {None, Tx(r)}

\* saveObservationReceipt: binding, observation and receipt are written together.
SaveObserved(r) ==
  /\ Kind(r) = "observe" /\ pc[r] = "save"
  /\ \/ /\ ClaimRefused(r) \/ \E issuedAt \in IssueTimes(r) : ReceiptConflicts(r, issuedAt)
        /\ Refuse(r)
        /\ UNCHANGED <<storeVars, evidence>>
     \/ /\ ~ClaimRefused(r)
        /\ IF Claims(r) THEN authorization' = [authorization EXCEPT ![Subject(r)].tx = Tx(r)]
                        ELSE UNCHANGED authorization
        /\ history' = [history EXCEPT ![Tx(r)] = Append(@, draft[r])]
        /\ \E issuedAt \in IssueTimes(r) :
             /\ ~ReceiptConflicts(r, issuedAt)
             /\ receipts' = Written([id \in {ReceiptId(r)} |-> issuedAt], receipts)
        /\ Continue(r, "reserve", draft[r].observation)
        /\ UNCHANGED <<log, nodes, intents>>
  /\ UNCHANGED idempotency

-------------------------------------------------------------------------------

\* The process that serves r stops between two steps.
Stop(r) ==
  /\ pc[r] \notin Ended
  /\ Continue(r, "stopped", None)
  /\ UNCHANGED <<storeVars, idempotency, evidence>>

Tick ==
  /\ now < MaxTime
  /\ now' = now + 1
  /\ UNCHANGED <<storeVars, idempotency, evidence, pc, draft, reply>>

Step(r) ==
  \/ Start(r) \/ Reserve(r)
  \/ SaveCreated(r)
  \/ Check(r) \/ EvidenceFails(r) \/ Commit(r)
  \/ Read(r) \/ Observe(r) \/ SaveObserved(r)
  \/ Stop(r)

UseCasesNext ==
  /\ UNCHANGED script
  /\ \/ (\E r \in Requests : Step(r)) /\ UNCHANGED now
     \/ Tick

UseCasesSpec == UseCasesInit /\ [][UseCasesNext]_vars

-------------------------------------------------------------------------------
(* Properties *)

Status(i) == IF ~Accepted(i) THEN "ABSENT" ELSE IF authorization[i].tx = None THEN "ACCEPTED" ELSE "BOUND"

Lifecycle == INSTANCE EvidenceLifecycle WITH
  Authorizations <- Ids,
  Transactions <- TxHashes,
  Observations <- [status : Observer!Statuses, block : Blocks \cup {None},
                   replaced : Blocks \cup {None}, at : 0..MaxTime],
  status <- [i \in Ids |-> Status(i)],
  bound <- [i \in Ids |-> IF Accepted(i) THEN authorization[i].tx ELSE None],
  versions <- [tx \in TxHashes |-> [k \in DOMAIN history[tx] |-> history[tx][k].observation]],
  issued <- {[authorization |-> id[1], tx |-> id[2], observation |-> id[3],
              association |-> classifyAuthorizationAssociation(id[1], id[2], id[3])] :
             id \in DOMAIN receipts}

\* The use cases implement the life cycle of the evidence: whatever they interleave
\* with and wherever they stop, an authorization is consumed once, in the step that
\* records its final observation, and no observation or receipt is changed or lost.
ImplementsLifecycle == Lifecycle!LifecycleSpec

Answered(r) == pc[r] = "answered"

\* The type invariant of the tables and the request bookkeeping.
UseCasesTypeOK ==
  /\ TypeOK
  /\ now \in 0..MaxTime
  /\ pc \in [Requests -> Ended \cup {"start", "reserve", "save", "check", "commit", "read", "observe"}]
  /\ \A slot \in DOMAIN idempotency :
       slot \in Kinds \X Keys /\ idempotency[slot].expiresAt \in Nat /\ idempotency[slot].request.kind = slot[1]
  /\ \A tx \in TxHashes : \A k \in DOMAIN history[tx] : history[tx][k].read \in 0..(k - 1)

\* q reserved the answer of r but has not saved, or was refused, the intent it names.
NeverSaved(q, r) ==
  /\ q \in DOMAIN reply /\ reply[q].expiresAt = reply[r].expiresAt
  /\ Slot(q) = Slot(r) /\ RequestHash(q) = RequestHash(r)
  /\ pc[q] \in {"save", "refused", "stopped"}

\* Every answer handed out, replayed or not, is backed by the tables: an acceptance is
\* the stored one, whatever stopped between accepting it and answering; an observation
\* is on record with its receipt, and bound if it is final.  An intent is stored,
\* unless its answer was reserved by a request that has yet to save it or never will.
AnswersAreBacked ==
  \A r \in Requests : Answered(r) =>
    CASE Kind(r) = "create" ->
           \/ intents[IntentId[script[r].intent]] = IntentHash[script[r].intent]
           \/ \E q \in Requests : NeverSaved(q, r)
      [] Kind(r) = "authorize" ->
           Accepted(Asked(r)) /\ reply[r].response = Acceptance(Asked(r))
      [] Kind(r) = "observe" ->
           LET observation == reply[r].response
           IN /\ \E k \in DOMAIN history[Tx(r)] : history[Tx(r)][k].observation = observation
              /\ <<Subject(r), Tx(r), observation>> \in DOMAIN receipts
              /\ classifyAuthorizationAssociation(Subject(r), Tx(r), observation) = "FINAL" =>
                   authorization[Subject(r)].tx = Tx(r)

\* While the record one request was answered under lives, every other request under
\* the same key with the same content gets the same answer, and none with another
\* content is answered under the key, however the two overlap; and no answer comes
\* from a record that had expired.
AnsweredUnder(r, key) == Answered(r) /\ key # None /\ Key(r) = key /\ reply[r].expiresAt # None
KeyedAnswersAgree ==
  \A key \in Keys, r \in Requests : AnsweredUnder(r, key) =>
    /\ reply[r].at < reply[r].expiresAt
    /\ \A s \in Requests :
         Answered(s) /\ Slot(s) = Slot(r) /\ reply[s].at \in reply[r].at..(reply[r].expiresAt - 1) =>
           /\ RequestHash(s) = RequestHash(r) => reply[s].response = reply[r].response
           /\ AnsweredUnder(s, key) => RequestHash(s) = RequestHash(r)

\* After an inclusion, the transaction is gone or in another block.
Contradicts(later, earlier) ==
  earlier.block # None /\ (later.status = "NOT_FOUND" \/ later.block \notin {None, earlier.block})

\* An observation that contradicts the one recorded just before it is recorded as a
\* reorganization, unless its observer had read the table before that one was there.
ReorgsAreFlagged ==
  \A tx \in TxHashes : \A k \in DOMAIN history[tx] \ {1} :
    LET earlier == history[tx][k - 1].observation
        later == history[tx][k].observation
    IN Contradicts(later, earlier) /\ later.status # "REORGED" => history[tx][k].read < k - 1
===============================================================================
