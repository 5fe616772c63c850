---------------------- MODULE D1AuthorizationStoreProofs ----------------------
(***************************************************************************)
(* The D1 statement sequences implement the indivisible authorization      *)
(* store, for any number of requests, documents, append attempts and       *)
(* stopped Workers.  The step that matters is Commit: the batch's unique   *)
(* constraints say only that the drafted sequence number is still free,    *)
(* and DraftInv says that then nothing the draft was computed from has     *)
(* changed.                                                                *)
(***************************************************************************)
EXTENDS D1EvidenceStore, AuthorizationStoreProofs

Drafting == {"readNodes", "commit"}

\* A draft whose sequence number is the next one is the entry the store itself
\* would append, and its Merkle nodes are the ones the store would write.
DraftOK(r) ==
  /\ pc[r] \in Drafting =>
       /\ draft[r].sequence \in 1..Len(log) + 1
       /\ draft[r].sequence = Len(log) + 1 => draft[r] = NextEntry(Document(r), load[r].time)
  /\ (pc[r] = "commit" /\ draft[r].sequence = Len(log) + 1) =>
       addition[r] = merkleAppendNodes(draft[r].sequence, draft[r].entry, nodes)
DraftInv ==
  /\ load \in Loads
  /\ pc = [r \in Requests |-> pc[r]]
  /\ draft = [r \in Requests |-> draft[r]]
  /\ addition = [r \in Requests |-> addition[r]]
  /\ reply = [r \in Requests |-> reply[r]]
  /\ \A r \in Requests : DraftOK(r)

-------------------------------------------------------------------------------
(* Refinement *)

\* What a request presents is a signed document and an acceptance time.
LEMMA Loaded ==
  ASSUME load \in Loads, NEW r \in Requests
  PROVE  Document(r) \in Signed /\ load[r].time \in Times /\ IdOf(r) \in Ids
BY RequestAssumption DEF Document, IdOf, Ids

\* Requests start with no draft over the empty store.
LEMMA RequestsInitInv == RequestsInit => DraftInv
BY DEF RequestsInit, DraftInv, DraftOK, Drafting

\* A batch that commits appends exactly what the indivisible method would.
LEMMA CommitIsAccept ==
  ASSUME StoreInv, DraftInv, NEW r \in Requests, Commit(r)
  PROVE  /\ Accept(Document(r), load[r].time)
         /\ draft[r] = NextEntry(Document(r), load[r].time)
<1> DEFINE e == NextEntry(Document(r), load[r].time)
<1>1. pc[r] = "commit" /\ SequenceFree(r) /\ Acceptable(Document(r))
  BY DEF Commit, Committable, RecordAdmitted
<1>2. draft[r].sequence = Len(log) + 1
  <2>1. draft[r].sequence \in 1..Len(log) + 1 /\ DOMAIN log = 1..Len(log) /\ Len(log) \in Nat
    BY <1>1 DEF DraftInv, DraftOK, Drafting, StoreInv, ChainInv
  <2> QED
    BY <1>1, <2>1 DEF SequenceFree
<1>3. draft[r] = e
  BY <1>1, <1>2 DEF DraftInv, DraftOK, Drafting
<1>4. addition[r] = merkleAppendNodes(e.sequence, e.entry, nodes)
  BY <1>1, <1>2, <1>3 DEF DraftInv, DraftOK
<1> HIDE DEF e
<1>5. /\ log' = Append(log, e)
      /\ nodes' = Written(merkleAppendNodes(e.sequence, e.entry, nodes), nodes)
      /\ intents' = [intents EXCEPT ![IntentId[Id[Document(r)]]] = IntentHash[Id[Document(r)]]]
      /\ authorization' = Written([id \in {Id[Document(r)]} |-> Record(e)], authorization)
  BY <1>3, <1>4 DEF Commit, IdOf
<1> QED
  BY <1>1, <1>3, <1>5 DEF Accept, e

\* Every other statement of a request reads the tables or answers.
LEMMA StatementsRead ==
  ASSUME NEW r \in Requests, Step(r), ~Commit(r)
  PROVE  UNCHANGED storeVars
BY DEF Step, ReadSaved, ReadNonce, ReadCloid, ReadIntent, ReadLogged, InsertLogged, ReadWinner,
       ReadHead, ReadNodes, Reject, LostSaved, LostNonce, LostCloid, LostIntent, LostSequence,
       Lookup, Check, ReadOnly, storeVars

\* Every step of the requests is a step of the indivisible store or a stutter.
LEMMA StepImplements ==
  ASSUME StoreInv, DraftInv, [RequestsNext]_vars
  PROVE  [Next]_storeVars
<1>1. ASSUME NEW r \in Requests, Step(r) PROVE [Next]_storeVars
  <2>1. CASE Commit(r)
    BY <2>1, CommitIsAccept, Loaded DEF DraftInv, Next
  <2> QED
    BY <1>1, <2>1, StatementsRead
<1>2. ASSUME NEW r \in Requests, Crash(r) PROVE [Next]_storeVars
  BY <1>2 DEF Crash
<1>3. ASSUME NEW i \in Presented, OtherIntent(i) PROVE [Next]_storeVars
  BY <1>3, Loaded DEF OtherIntent, Presented, Next, DraftInv
<1>4. ASSUME NEW i \in Ids, NEW tx \in TxHashes, OtherBinding(i, tx) PROVE [Next]_storeVars
  BY <1>4 DEF OtherBinding, Next
<1>5. CASE UNCHANGED vars
  BY <1>5 DEF vars, storeVars
<1> QED
  BY <1>1, <1>2, <1>3, <1>4, <1>5 DEF RequestsNext

-------------------------------------------------------------------------------
(* Drafts stay good until their sequence number is taken *)

\* The store changes nothing a draft depends on unless the log grows.
LEMMA LogGrows ==
  ASSUME StoreInv, [Next]_storeVars
  PROVE  /\ Len(log) \in Nat /\ Len(log') \in Nat
         /\ \/ log' = log /\ nodes' = nodes
            \/ Len(log') = Len(log) + 1
<1>0. Len(log) \in Nat
  BY DEF StoreInv, ChainInv
<1>1. ASSUME NEW s \in Signed, NEW at \in Times, Accept(s, at) PROVE Len(log') = Len(log) + 1
  <2>1. AcceptWrites(s, at)
    BY <1>1, AcceptEffect
  <2> QED
    BY <2>1 DEF AcceptWrites
<1> QED
  BY <1>0, <1>1 DEF Next, SaveIntent, Bind, storeVars

\* A request that no statement of its own moves keeps its draft.
LEMMA IdleDraft ==
  ASSUME StoreInv, [Next]_storeVars, NEW r \in Requests, DraftOK(r), load' = load,
         pc'[r] = pc[r] \/ pc'[r] \notin Drafting,
         draft'[r] = draft[r], addition'[r] = addition[r]
  PROVE  DraftOK(r)'
<1>1. Document(r)' = Document(r)
  BY DEF Document
<1>2. log' = log => NextEntry(Document(r), load[r].time)' = NextEntry(Document(r), load[r].time)
  BY <1>1 DEF NextEntry, HeadHash, LogEntry, EntryHash
<1>3. (log' = log /\ nodes' = nodes) => DraftOK(r)'
  BY <1>2 DEF DraftOK, Drafting, merkleAppendNodes, LeftHalf, Levels, Ending
<1>4. Len(log') = Len(log) + 1 => DraftOK(r)'
  BY LogGrows DEF DraftOK, Drafting
<1> QED
  BY <1>3, <1>4, LogGrows

\* The head statement drafts the next entry.
LEMMA ReadHeadDraft ==
  ASSUME StoreInv, DraftInv, NEW r \in Requests, ReadHead(r), load' = load
  PROVE  DraftOK(r)'
<1> DEFINE e == NextEntry(Document(r), load[r].time)
<1>1. pc'[r] = "readNodes" /\ draft'[r] = e /\ log' = log
  BY DEF ReadHead, Goto, DraftInv, storeVars
<1>2. e.sequence = Len(log) + 1 /\ Len(log) \in Nat
  BY DEF NextEntry, LogEntry, StoreInv, ChainInv
<1>3. NextEntry(Document(r), load[r].time)' = e
  BY <1>1 DEF NextEntry, HeadHash, LogEntry, EntryHash, Document
<1> HIDE DEF e
<1> QED
  BY <1>1, <1>2, <1>3 DEF DraftOK, Drafting

\* The node statement computes the draft's nodes from the index as it is.
LEMMA ReadNodesDraft ==
  ASSUME StoreInv, DraftInv, NEW r \in Requests, ReadNodes(r), load' = load
  PROVE  DraftOK(r)'
<1>1. /\ draft'[r] = draft[r] /\ log' = log /\ nodes' = nodes /\ pc[r] = "readNodes"
      /\ pc'[r] \in {"commit", "failed"}
      /\ pc'[r] = "commit" =>
           addition'[r] = merkleAppendNodes(draft[r].sequence, draft[r].entry, nodes)
  BY DEF ReadNodes, Goto, DraftInv, storeVars
<1>2. NextEntry(Document(r), load[r].time)' = NextEntry(Document(r), load[r].time)
  BY <1>1 DEF NextEntry, HeadHash, LogEntry, EntryHash, Document
<1>3. merkleAppendNodes(draft[r].sequence, draft[r].entry, nodes)'
        = merkleAppendNodes(draft[r].sequence, draft[r].entry, nodes)
  BY <1>1 DEF merkleAppendNodes
<1>4. DraftOK(r)
  BY DEF DraftInv
<1> QED
  BY <1>1, <1>2, <1>3, <1>4 DEF DraftOK, Drafting

\* What one statement may change of the requests: only its own row.
LEMMA StepFrame ==
  ASSUME DraftInv, NEW r \in Requests, Step(r)
  PROVE  /\ pc' = [x \in Requests |-> pc'[x]] /\ draft' = [x \in Requests |-> draft'[x]]
         /\ addition' = [x \in Requests |-> addition'[x]] /\ reply' = [x \in Requests |-> reply'[x]]
         /\ \A x \in Requests \ {r} : /\ pc'[x] = pc[x] /\ draft'[x] = draft[x]
                                      /\ addition'[x] = addition[x] /\ reply'[x] = reply[x]
BY DEF DraftInv, Step, ReadSaved, ReadNonce, ReadCloid, ReadIntent, ReadLogged, InsertLogged,
       ReadWinner, ReadHead, ReadNodes, Commit, Reject, LostSaved, LostNonce, LostCloid, LostIntent,
       LostSequence, Lookup, Check, Return, Goto, ReadOnly, storeVars

\* No other statement of a request starts or changes a draft.
LEMMA OtherStatements ==
  ASSUME DraftInv, NEW r \in Requests, Step(r), ~ReadHead(r), ~ReadNodes(r)
  PROVE  draft'[r] = draft[r] /\ addition'[r] = addition[r] /\ pc'[r] \notin Drafting
BY DEF DraftInv, Step, ReadSaved, ReadNonce, ReadCloid, ReadIntent, ReadLogged, InsertLogged,
       ReadWinner, Commit, Reject, LostSaved, LostNonce, LostCloid, LostIntent,
       LostSequence, Lookup, Check, Return, Goto, ReadOnly, Drafting

\* Every step of the requests keeps the drafts good.
LEMMA DraftStep ==
  ASSUME StoreInv, DraftInv, [RequestsNext]_vars
  PROVE  DraftInv'
<1>1. [Next]_storeVars /\ load' = load
  BY StepImplements DEF RequestsNext, vars
<1>2. ASSUME NEW r \in Requests, Step(r) PROVE DraftInv'
  <2>1. ASSUME NEW x \in Requests \ {r} PROVE DraftOK(x)'
    BY <1>1, <1>2, <2>1, StepFrame, IdleDraft DEF DraftInv
  <2>2. DraftOK(r)'
    <3>1. CASE ReadHead(r)
      BY <1>1, <3>1, ReadHeadDraft
    <3>2. CASE ReadNodes(r)
      BY <1>1, <3>2, ReadNodesDraft
    <3>3. CASE ~ReadHead(r) /\ ~ReadNodes(r)
      <4>1. draft'[r] = draft[r] /\ addition'[r] = addition[r] /\ pc'[r] \notin Drafting
        BY <1>2, <3>3, OtherStatements
      <4>2. DraftOK(r)
        BY DEF DraftInv
      <4> QED
        BY <1>1, <4>1, <4>2, IdleDraft
    <3> QED
      BY <3>1, <3>2, <3>3
  <2> QED
    BY <1>1, <1>2, <2>1, <2>2, StepFrame DEF DraftInv
<1>3. ASSUME NEW r \in Requests, Crash(r) PROVE DraftInv'
  <2>1. /\ pc' = [x \in Requests |-> pc'[x]] /\ draft' = draft /\ addition' = addition /\ reply' = reply
        /\ \A x \in Requests : pc'[x] = pc[x] \/ pc'[x] \notin Drafting
    BY <1>3 DEF Crash, Goto, DraftInv, Drafting
  <2>2. \A x \in Requests : DraftOK(x)'
    BY <1>1, <2>1, IdleDraft DEF DraftInv
  <2> QED
    BY <1>1, <2>1, <2>2 DEF DraftInv
<1>4. ASSUME UNCHANGED requestVars PROVE DraftInv'
  <2>1. pc' = pc /\ draft' = draft /\ addition' = addition /\ reply' = reply
    BY <1>4 DEF requestVars
  <2>2. \A x \in Requests : DraftOK(x)'
    BY <1>1, <2>1, IdleDraft DEF DraftInv
  <2> QED
    BY <1>1, <2>1, <2>2 DEF DraftInv
<1> QED
  BY <1>2, <1>3, <1>4 DEF RequestsNext, OtherIntent, OtherBinding, vars, requestVars

\* The two invariants hold together: each step needs both.
LEMMA RequestsInvHold == RequestsSpec => [](StoreInv /\ DraftInv)
<1>1. RequestsInit => StoreInv /\ DraftInv
  BY StoreInit, RequestsInitInv DEF RequestsInit
<1>2. StoreInv /\ DraftInv /\ [RequestsNext]_vars => StoreInv' /\ DraftInv'
  BY StepImplements, StoreStep, DraftStep
<1> QED
  BY <1>1, <1>2, PTL DEF RequestsSpec

-------------------------------------------------------------------------------
(* Theorems *)

\* The concurrent D1 requests implement the indivisible store.
THEOREM D1Implements == RequestsSpec => ImplementsStore
<1>1. RequestsInit => Init
  BY DEF RequestsInit
<1>2. StoreInv /\ DraftInv /\ [RequestsNext]_vars => [Next]_storeVars
  BY StepImplements
<1> QED
  BY <1>1, <1>2, RequestsInvHold, PTL DEF RequestsSpec, ImplementsStore, Spec

\* The store's guarantees hold of the tables the concurrent requests write.
THEOREM D1Reservations == RequestsSpec => []ReservationsAreUnique
BY D1Implements, ReservationsUnique, PTL DEF ImplementsStore

\* Every accepted authorization is in the log, at the sequence and hash its record repeats.
THEOREM D1AcceptedLogged == RequestsSpec => []AcceptedIsLogged
BY D1Implements, AcceptedLogged, PTL DEF ImplementsStore

\* The Merkle index that concurrent requests extend is the complete one.
THEOREM D1IndexSound == RequestsSpec => []IndexIsSound
BY D1Implements, IndexSound, PTL DEF ImplementsStore

\* Log entries, nodes, acceptance facts and first bindings are never rewritten.
THEOREM D1HistoryImmutable == RequestsSpec => HistoryIsImmutable
BY D1Implements, HistoryImmutable, PTL DEF ImplementsStore

-------------------------------------------------------------------------------
(* Answers *)

\* A committed acceptance is one record of the store, up to its transaction.
Committed(i, record) ==
  /\ Id[record.signed] = i
  /\ record.sequence \in 1..Len(log)
  /\ Record(log[record.sequence]) = [record EXCEPT !.tx = None]
  /\ i \in DOMAIN authorization
  /\ authorization[i].sequence = record.sequence

ReplyOK(r) ==
  /\ reply[r].kind = "accepted" => Committed(IdOf(r), reply[r].record)
  /\ reply[r].kind = "nonceReused" => NonceUsed(IdOf(r))
  /\ reply[r].kind = "cloidReused" => CloidUsed(IdOf(r))
  /\ reply[r].kind = "duplicateIntent" => IntentConflicts(IdOf(r))
ReplyInv == \A r \in Requests : ReplyOK(r)

\* What the store never takes back.
LEMMA StoreKeeps ==
  ASSUME StoreInv, [Next]_storeVars
  PROVE  /\ \A k \in 1..Len(log) : k \in 1..Len(log') /\ log'[k] = log[k]
         /\ \A i \in DOMAIN authorization :
              i \in DOMAIN authorization' /\ authorization'[i].sequence = authorization[i].sequence
         /\ \A i \in Ids : IntentConflicts(i) => IntentConflicts(i)'
<1>0. IntentsTyped /\ Len(log) \in Nat
  BY DEF StoreInv, ChainInv
<1>1. ASSUME NEW s \in Signed, NEW at \in Times, Accept(s, at)
      PROVE  /\ \A k \in 1..Len(log) : k \in 1..Len(log') /\ log'[k] = log[k]
             /\ \A i \in DOMAIN authorization :
                  i \in DOMAIN authorization' /\ authorization'[i].sequence = authorization[i].sequence
             /\ \A i \in Ids : IntentConflicts(i) => IntentConflicts(i)'
  <2>1. AcceptWrites(s, at)
    BY <1>1, AcceptEffect
  <2>2. Id[s] \in Ids /\ intents[IntentId[Id[s]]] \in {None, IntentHash[Id[s]]}
    BY <1>1 DEF Ids, Accept, Acceptable, IntentConflicts
  <2>3. \A i \in Ids : IntentConflicts(i) => IntentConflicts(i)'
    BY <1>0, <1>1, <2>2, SignedAssumption DEF Accept, IntentConflicts, IntentsTyped, IntentIds
  <2> QED
    BY <1>0, <2>1, <2>3 DEF AcceptWrites
<1>2. ASSUME NEW j \in Ids, SaveIntent(j)
      PROVE  \A i \in Ids : IntentConflicts(i) => IntentConflicts(i)'
  BY <1>0, <1>2, SignedAssumption DEF SaveIntent, IntentConflicts, IntentsTyped, IntentIds
<1>3. ASSUME NEW j \in Ids, NEW tx \in TxHashes, Bind(j, tx)
      PROVE  \A i \in DOMAIN authorization :
               i \in DOMAIN authorization' /\ authorization'[i].sequence = authorization[i].sequence
  <2>1. BindWrites(j, tx)
    BY <1>3, BindEffect
  <2> QED
    BY <2>1 DEF BindWrites
<1> QED
  BY <1>0, <1>1, <1>2, <1>3 DEF Next, SaveIntent, Bind, IntentConflicts, storeVars

\* An answer that was justified stays justified.
LEMMA ReplyKept ==
  ASSUME StoreInv, [Next]_storeVars, load' = load, NEW r \in Requests, IdOf(r) \in Ids,
         ReplyOK(r), reply'[r] = reply[r]
  PROVE  ReplyOK(r)'
<1>1. IdOf(r)' = IdOf(r)
  BY DEF IdOf, Document
<1>2. \A i \in Ids : (NonceUsed(i) => NonceUsed(i)') /\ (CloidUsed(i) => CloidUsed(i)')
  BY StoreKeeps DEF NonceUsed, CloidUsed, Accepted
<1>3. Committed(IdOf(r), reply[r].record) => Committed(IdOf(r), reply[r].record)'
  <2> SUFFICES ASSUME Committed(IdOf(r), reply[r].record) PROVE Committed(IdOf(r), reply[r].record)'
    OBVIOUS
  <2>1. log'[reply[r].record.sequence] = log[reply[r].record.sequence]
    BY StoreKeeps DEF Committed
  <2>2. Record(log[reply[r].record.sequence])' = Record(log[reply[r].record.sequence])
    BY <2>1 DEF Record
  <2> QED
    BY <1>1, <2>1, <2>2, StoreKeeps DEF Committed
<1> QED
  BY <1>1, <1>2, <1>3, StoreKeeps DEF ReplyOK

\* The answer read from the tables, by the first lookup or by one after a lost batch.
LEMMA StoredIsCommitted ==
  ASSUME StoreInv, NEW i \in Ids, Accepted(i)
  PROVE  Committed(i, authorization[i])
<1> DEFINE n == authorization[i].sequence
<1>1. RecordInv(i) /\ i \in DOMAIN authorization
  BY DEF StoreInv, RecordsInv, Accepted
<1>2. authorization[i] = [signed |-> log[n].signed, sequence |-> log[n].sequence,
                          acceptedAt |-> log[n].acceptedAt, previous |-> log[n].previous,
                          tx |-> authorization[i].tx]
  BY <1>1 DEF RecordInv, Record
<1>3. Record(log[n]) = [authorization[i] EXCEPT !.tx = None] /\ authorization[i].signed = log[n].signed
  BY <1>2 DEF Record
<1> QED
  BY <1>1, <1>3 DEF RecordInv, Committed

\* A statement that answers does so with what the tables say.
LEMMA ReplyGiven ==
  ASSUME StoreInv, DraftInv, NEW r \in Requests, Step(r), load' = load, reply'[r] # reply[r]
  PROVE  ReplyOK(r)'
<1> DEFINE i == IdOf(r)
<1>0. i \in Ids /\ IdOf(r)' = i
  BY Loaded DEF DraftInv, IdOf, Document
<1>1. CASE Commit(r)
  <2> DEFINE e == NextEntry(Document(r), load[r].time)
  <2>1. Accept(Document(r), load[r].time) /\ Document(r) \in Signed /\ load[r].time \in Times
    BY <1>1, CommitIsAccept, Loaded DEF DraftInv
  <2>2. AcceptWrites(Document(r), load[r].time)
    BY <2>1, AcceptEffect
  <2>4. draft[r] = e
    BY <1>1, CommitIsAccept
  <2>5. reply'[r] = Reply("accepted", Record(e))
    BY <1>1, <2>4 DEF Commit, Return, DraftInv
  <2>6. /\ e.sequence = Len(log) + 1 /\ e.signed = Document(r) /\ log'[Len(log) + 1] = e
        /\ Len(log) + 1 \in 1..Len(log') /\ i \in DOMAIN authorization' /\ authorization'[i] = Record(e)
    BY <2>2 DEF AcceptWrites, IdOf
  <2> HIDE DEF e
  <2>7. /\ Record(e).sequence = Len(log) + 1 /\ Record(e).signed = Document(r)
        /\ [Record(e) EXCEPT !.tx = None] = Record(e)
    BY <2>6 DEF Record
  <2>8. /\ Id[Record(e).signed] = i
        /\ Record(e).sequence \in 1..Len(log')
        /\ Record(log'[Record(e).sequence]) = [Record(e) EXCEPT !.tx = None]
        /\ authorization'[i].sequence = Record(e).sequence
    BY <2>6, <2>7 DEF IdOf
  <2>9. reply'[r].kind = "accepted" /\ reply'[r].record = Record(e)
    BY <2>5 DEF Reply
  <2>10. Committed(IdOf(r), reply[r].record)'
    BY <1>0, <2>6, <2>8, <2>9 DEF Committed, Record
  <2> QED
    BY <2>9, <2>10 DEF ReplyOK
<1>2. CASE ~Commit(r)
  <2>1. UNCHANGED storeVars
    BY <1>2, StatementsRead
  <2>2. \/ Accepted(i) /\ reply'[r] = Reply("accepted", authorization[i])
        \/ NonceUsed(i) /\ reply'[r] = Reply("nonceReused", None)
        \/ CloidUsed(i) /\ reply'[r] = Reply("cloidReused", None)
        \/ IntentConflicts(i) /\ reply'[r] = Reply("duplicateIntent", None)
        \/ reply'[r] = Reply("contention", None)
    BY <1>2 DEF Step, ReadSaved, ReadNonce, ReadCloid, ReadIntent, ReadLogged, InsertLogged,
       ReadWinner, ReadHead, ReadNodes, Reject, LostSaved, LostNonce, LostCloid, LostIntent,
       LostSequence, Lookup, Check, Return, DraftInv
  <2>3. CASE Accepted(i) /\ reply'[r] = Reply("accepted", authorization[i])
    <3>1. reply'[r].kind = "accepted" /\ reply'[r].record = authorization[i]
      BY <2>3 DEF Reply
    <3>2. Committed(i, authorization[i])
      BY <1>0, <2>3, StoredIsCommitted
    <3>3. Committed(IdOf(r), reply[r].record)'
      BY <1>0, <2>1, <3>1, <3>2 DEF Committed, storeVars, Record
    <3> QED
      BY <3>1, <3>3 DEF ReplyOK
  <2>4. (NonceUsed(i) => NonceUsed(IdOf(r))') /\ (CloidUsed(i) => CloidUsed(IdOf(r))')
        /\ (IntentConflicts(i) => IntentConflicts(IdOf(r))')
    BY <1>0, <2>1 DEF storeVars, NonceUsed, CloidUsed, IntentConflicts, Accepted
  <2> QED
    BY <2>2, <2>3, <2>4 DEF ReplyOK, Reply
<1> QED
  BY <1>1, <1>2

\* Every step of the requests keeps the answers justified.
LEMMA ReplyStep ==
  ASSUME StoreInv, DraftInv, ReplyInv, [RequestsNext]_vars
  PROVE  ReplyInv'
<1>1. [Next]_storeVars /\ load' = load
  BY StepImplements DEF RequestsNext, vars
<1>2. ASSUME NEW x \in Requests, reply'[x] = reply[x] PROVE ReplyOK(x)'
  BY <1>1, <1>2, Loaded, ReplyKept DEF ReplyInv, DraftInv
<1>3. ASSUME NEW r \in Requests, Step(r) PROVE ReplyInv'
  <2> SUFFICES ASSUME NEW x \in Requests PROVE ReplyOK(x)'
    BY DEF ReplyInv
  <2>1. CASE x = r /\ reply'[r] # reply[r]
    BY <1>1, <1>3, <2>1, ReplyGiven
  <2>2. CASE ~(x = r /\ reply'[r] # reply[r])
    BY <1>2, <1>3, <2>2, StepFrame
  <2> QED
    BY <2>1, <2>2
<1>4. ASSUME reply' = reply PROVE ReplyInv'
  BY <1>2, <1>4 DEF ReplyInv
<1> QED
  BY <1>3, <1>4 DEF RequestsNext, Crash, OtherIntent, OtherBinding, requestVars, vars

\* Every answer given is backed by the tables.
LEMMA ReplyInvHolds == RequestsSpec => [](StoreInv /\ ReplyInv)
<1>1. RequestsInit => ReplyInv
  BY DEF RequestsInit, ReplyInv, ReplyOK, Reply
<1>2. StoreInv /\ DraftInv /\ ReplyInv /\ [RequestsNext]_vars => ReplyInv'
  BY ReplyStep
<1> QED
  BY <1>1, <1>2, RequestsInvHold, PTL DEF RequestsSpec

\* Every acceptance a caller holds names a committed log entry of its own authorization.
THEOREM AcceptancesLogged == RequestsSpec => []AcceptancesAreLogged
<1>1. StoreInv /\ ReplyInv => AcceptancesAreLogged
  <2> SUFFICES ASSUME StoreInv, ReplyInv, NEW r \in Requests, reply[r].kind = "accepted"
               PROVE  Committed(IdOf(r), reply[r].record) /\ DOMAIN log = 1..Len(log)
    BY DEF AcceptancesAreLogged, Committed
  <2> QED
    BY DEF ReplyInv, ReplyOK, StoreInv, ChainInv
<1> QED
  BY <1>1, ReplyInvHolds, PTL

\* Every refusal stays justified by the tables.
THEOREM RefusalsJustified == RequestsSpec => []RefusalsAreJustified
<1>1. ReplyInv => RefusalsAreJustified
  BY DEF ReplyInv, ReplyOK, RefusalsAreJustified
<1> QED
  BY <1>1, ReplyInvHolds, PTL

\* Every answer a caller holds is backed by the tables.
THEOREM AnswersJustified == RequestsSpec => []AnswersAreJustified
<1>1. AcceptancesAreLogged /\ RefusalsAreJustified => AnswersAreJustified
  BY DEF AnswersAreJustified
<1> QED
  BY <1>1, AcceptancesLogged, RefusalsJustified, PTL

-------------------------------------------------------------------------------
(* Rejected batches *)

Lost == {"lostSaved", "lostNonce", "lostCloid", "lostIntent", "lostSequence"}
Refusals == {"nonceReused", "cloidReused", "duplicateIntent", "contention"}

\* The sequence number a request drafted has been taken by another entry.
Taken(r) == draft[r].sequence \in 1..Len(log)

\* What a request knows of a rejected batch: its sequence number was taken, or one of
\* the refusals it has not looked for yet is due.
Diagnosed(r) ==
  LET i == IdOf(r)
  IN /\ pc[r] = "lostSaved" =>
          Taken(r) \/ Accepted(i) \/ NonceUsed(i) \/ CloidUsed(i) \/ IntentConflicts(i)
     /\ pc[r] = "lostNonce" => Taken(r) \/ NonceUsed(i) \/ CloidUsed(i) \/ IntentConflicts(i)
     /\ pc[r] = "lostCloid" => Taken(r) \/ CloidUsed(i) \/ IntentConflicts(i)
     /\ pc[r] = "lostIntent" => Taken(r) \/ IntentConflicts(i)
     /\ pc[r] = "lostSequence" => Taken(r)
     /\ pc[r] = "readWinner" => Accepted(i)

\* Every attempt a request spends is an entry that another one appended: its drafts
\* have growing sequence numbers.
AttemptsOK(r) ==
  /\ attempts[r] \in 0..MaxAttempts /\ attempts[r] <= Len(log)
  /\ pc[r] # "done" => attempts[r] < MaxAttempts
  /\ pc[r] \in Drafting \cup Lost => draft[r].sequence \in Nat /\ attempts[r] < draft[r].sequence
  /\ reply[r].kind = "contention" => Len(log) >= MaxAttempts

Explained(r) ==
  /\ Diagnosed(r)
  /\ AttemptsOK(r)
  /\ pc[r] # "failed"
  /\ draft[r] = None \/ draft[r].signed = Document(r)
  /\ reply[r].kind \in {"none", "accepted"} \cup Refusals
ExplainInv == attempts = [r \in Requests |-> attempts[r]] /\ \A r \in Requests : Explained(r)

\* What a request knows stays true while others commit.
LEMMA ExplanationLasts ==
  ASSUME StoreInv, [Next]_storeVars, load' = load, NEW r \in Requests, IdOf(r) \in Ids, Explained(r),
         pc'[r] = pc[r] \/ (pc'[r] = "crashed" /\ pc[r] # "done"),
         draft'[r] = draft[r], attempts'[r] = attempts[r], reply'[r] = reply[r]
  PROVE  Explained(r)'
<1>1. IdOf(r)' = IdOf(r) /\ Document(r)' = Document(r)
  BY DEF IdOf, Document
<1>2. /\ Accepted(IdOf(r)) => Accepted(IdOf(r))'
      /\ NonceUsed(IdOf(r)) => NonceUsed(IdOf(r))'
      /\ CloidUsed(IdOf(r)) => CloidUsed(IdOf(r))'
      /\ IntentConflicts(IdOf(r)) => IntentConflicts(IdOf(r))'
  BY <1>1, StoreKeeps DEF Accepted, NonceUsed, CloidUsed
<1>3. Len(log) \in Nat /\ Len(log') \in Nat /\ Len(log) <= Len(log')
  BY LogGrows
<1>4. Taken(r) => Taken(r)'
  BY <1>3 DEF Taken
<1>5. Diagnosed(r)'
  BY <1>1, <1>2, <1>4 DEF Explained, Diagnosed
<1>6. AttemptsOK(r)'
  BY <1>3, RequestAssumption DEF Explained, AttemptsOK, Drafting, Lost
<1> QED
  BY <1>1, <1>5, <1>6 DEF Explained

\* The next draft finds every node it is computed from: the index is complete.
LEMMA NodesReadable ==
  ASSUME StoreInv, NEW s \in 1..Len(log) + 1
  PROVE  LeftHalves(s) \subseteq DOMAIN nodes
<1> DEFINE n == Len(log)
           hashes == Hashes
<1>1. n \in Nat /\ s \in Nat \ {0} /\ s <= n + 1 /\ Subtrees(hashes, n, nodes)
  BY DEF StoreInv, ChainInv, NodesInv
<1> HIDE DEF n, hashes
<1> QED
  BY <1>1, HalvesStored DEF LeftHalves

\* A batch is rejected because its sequence number was taken or its record is refused:
\* an unlogged document's nodes collide with none.
LEMMA RejectionExplained ==
  ASSUME StoreInv, DraftInv, NEW r \in Requests, Reject(r)
  PROVE  LET i == IdOf(r)
         IN Taken(r) \/ Accepted(i) \/ NonceUsed(i) \/ CloidUsed(i) \/ IntentConflicts(i)
<1> SUFFICES ASSUME ~Taken(r), Acceptable(Document(r)) PROVE FALSE
  BY DEF Acceptable, IdOf
<1>1. pc[r] = "commit" /\ ~SequenceFree(r)
  BY DEF Reject, Committable, RecordAdmitted
<1>2. Len(log) \in Nat /\ DOMAIN log = 1..Len(log)
  BY DEF StoreInv, ChainInv
<1>3. draft[r].sequence = Len(log) + 1
  BY <1>1, <1>2 DEF DraftInv, DraftOK, Drafting, Taken
<1>4. ~InLog(Document(r))
  BY <1>2 DEF StoreInv, ChainInv, InLog, Acceptable
<1>5. DOMAIN addition[r] \cap DOMAIN nodes = {}
  <2> DEFINE m == Len(log) + 1
             h == draft[r].entry
  <2>1. addition[r] = merkleAppendNodes(m, h, nodes)
    BY <1>1, <1>3 DEF DraftInv, DraftOK
  <2> DEFINE n == Len(log)
             hashes == Hashes
  <2>2. n \in Nat /\ m \in Nat \ {0} /\ m > n /\ Subtrees(hashes, n, nodes)
    BY <1>2 DEF StoreInv, NodesInv
  <2> HIDE DEF m, h, n, hashes
  <2>3. Completes(addition[r], m, h, nodes)
    BY <2>1, <2>2, AppendedNodes
  <2>4. \A k \in Levels(m) : Ending(m, k) \notin DOMAIN nodes
    BY <2>2, AddedAreNew
  <2> QED
    BY <2>3, <2>4 DEF Completes
<1> QED
  BY <1>1, <1>2, <1>3, <1>4, <1>5 DEF SequenceFree

\* A statement leaves its request with an explanation.
LEMMA StatementExplained ==
  ASSUME StoreInv, DraftInv, ExplainInv, NEW r \in Requests, Step(r), load' = load
  PROVE  Explained(r)' /\ attempts' = [x \in Requests |-> attempts'[x]]
         /\ \A x \in Requests \ {r} : attempts'[x] = attempts[x]
<1> DEFINE i == IdOf(r)
<1>1. /\ Explained(r) /\ DraftOK(r) /\ IdOf(r)' = i /\ Document(r)' = Document(r) /\ i \in Ids
      /\ Len(log) \in Nat /\ DOMAIN log = 1..Len(log) /\ MaxAttempts \in Nat \ {0}
  BY Loaded, RequestAssumption DEF ExplainInv, DraftInv, IdOf, Document, StoreInv, ChainInv
<1>2. attempts' = [x \in Requests |-> attempts'[x]] /\ \A x \in Requests \ {r} : attempts'[x] = attempts[x]
  BY DEF ExplainInv, Step, ReadSaved, ReadNonce, ReadCloid, ReadIntent, ReadLogged, InsertLogged,
       ReadWinner, ReadHead, ReadNodes, Commit, Reject, LostSaved, LostNonce, LostCloid, LostIntent,
       LostSequence, Lookup, Check, ReadOnly
<1>3. CASE Commit(r)
  <2>1. /\ pc[r] = "commit" /\ pc'[r] = "done" /\ reply'[r].kind = "accepted"
        /\ draft'[r] = draft[r] /\ attempts'[r] = attempts[r]
    BY <1>3 DEF Commit, Return, Goto, Reply, DraftInv
  <2>2. Accept(Document(r), load[r].time) /\ Document(r) \in Signed /\ load[r].time \in Times
    BY <1>3, CommitIsAccept, Loaded DEF DraftInv
  <2>3. Len(log') = Len(log) + 1
    BY <2>2, AcceptEffect DEF AcceptWrites
  <2>4. Diagnosed(r)'
    BY <2>1 DEF Diagnosed
  <2>5. AttemptsOK(r)'
    BY <1>1, <2>1, <2>3 DEF Explained, AttemptsOK, Drafting, Lost
  <2> QED
    BY <1>1, <1>2, <2>1, <2>4, <2>5 DEF Explained
<1>4. CASE ~Commit(r)
  <2>1. UNCHANGED storeVars
    BY <1>4, StatementsRead
  <2>2. /\ Accepted(IdOf(r))' = Accepted(i) /\ NonceUsed(IdOf(r))' = NonceUsed(i)
        /\ CloidUsed(IdOf(r))' = CloidUsed(i) /\ IntentConflicts(IdOf(r))' = IntentConflicts(i)
        /\ Len(log)' = Len(log)
    BY <1>1, <2>1 DEF storeVars, Accepted, NonceUsed, CloidUsed, IntentConflicts
  <2>3. CASE ReadHead(r)
    <3>1. /\ pc[r] = "readHead" /\ pc'[r] = "readNodes" /\ attempts'[r] = attempts[r] /\ reply'[r] = reply[r]
          /\ draft'[r] = NextEntry(Document(r), load[r].time)
      BY <2>3 DEF ReadHead, Goto, DraftInv
    <3>2. draft'[r].sequence = Len(log) + 1 /\ draft'[r].signed = Document(r)
      BY <3>1 DEF NextEntry, LogEntry
    <3> QED
      BY <1>1, <1>2, <2>2, <3>1, <3>2 DEF Explained, Diagnosed, AttemptsOK, Drafting, Lost
  <2>4. CASE LostSequence(r)
    <3>1. /\ pc[r] = "lostSequence" /\ draft'[r] = draft[r] /\ Taken(r)
          /\ attempts'[r] = attempts[r] + 1
          /\ \/ attempts[r] + 1 < MaxAttempts /\ pc'[r] = "readHead" /\ reply'[r] = reply[r]
             \/ ~(attempts[r] + 1 < MaxAttempts) /\ pc'[r] = "done" /\ reply'[r].kind = "contention"
      BY <1>1, <2>4 DEF LostSequence, Goto, Return, Reply, DraftInv, ExplainInv, Explained, Diagnosed, Taken
    <3>2. attempts[r] \in 0..MaxAttempts /\ attempts[r] < MaxAttempts /\ attempts[r] + 1 <= Len(log)
      BY <1>1, <3>1 DEF Explained, AttemptsOK, Taken, Lost
    <3>3. Diagnosed(r)'
      BY <3>1 DEF Diagnosed
    <3>4. AttemptsOK(r)'
      BY <1>1, <2>2, <3>1, <3>2 DEF Explained, AttemptsOK, Drafting, Lost
    <3> QED
      BY <1>1, <1>2, <3>1, <3>3, <3>4 DEF Explained, Refusals
  <2>5. CASE ~ReadHead(r) /\ ~LostSequence(r)
    <3>1. draft'[r] = draft[r] /\ attempts'[r] = attempts[r]
      BY <1>4, <2>5 DEF Step, ReadSaved, ReadNonce, ReadCloid, ReadIntent, ReadLogged, InsertLogged,
           ReadWinner, ReadNodes, Reject, LostSaved, LostNonce, LostCloid, LostIntent, Lookup, Check, ReadOnly
    <3>2. \/ pc'[r] = "done" /\ reply'[r].kind \in {"accepted"} \cup (Refusals \ {"contention"})
          \/ reply'[r] = reply[r] /\ pc'[r] \notin Drafting \cup Lost \cup {"failed", "readWinner", "done"}
          \/ reply'[r] = reply[r] /\ pc'[r] = "readWinner" /\ Accepted(i)
          \/ reply'[r] = reply[r] /\ pc[r] = "readNodes" /\ pc'[r] = "commit"
          \/ reply'[r] = reply[r] /\ Reject(r) /\ pc'[r] = "lostSaved"
          \/ reply'[r] = reply[r] /\ pc[r] = "lostSaved" /\ ~Accepted(i) /\ pc'[r] = "lostNonce"
          \/ reply'[r] = reply[r] /\ pc[r] = "lostNonce" /\ ~NonceUsed(i) /\ pc'[r] = "lostCloid"
          \/ reply'[r] = reply[r] /\ pc[r] = "lostCloid" /\ ~CloidUsed(i) /\ pc'[r] = "lostIntent"
          \/ reply'[r] = reply[r] /\ pc[r] = "lostIntent" /\ ~IntentConflicts(i) /\ pc'[r] = "lostSequence"
      <4>1. CASE ReadSaved(r) \/ ReadNonce(r) \/ ReadCloid(r) \/ ReadIntent(r)
        BY <4>1 DEF ReadSaved, ReadNonce, ReadCloid, ReadIntent, Lookup, Check, Return, Reply, Goto,
                    DraftInv, Refusals, Drafting, Lost
      <4>2. CASE ReadLogged(r) \/ InsertLogged(r)
        BY <4>2 DEF ReadLogged, InsertLogged, Goto, DraftInv, Drafting, Lost
      <4>3. CASE ReadWinner(r)
        BY <1>1, <4>3 DEF ReadWinner, Lookup, Return, Reply, Goto, DraftInv, Explained, Diagnosed
      <4>4. CASE ReadNodes(r)
        <5>1. pc[r] = "readNodes" /\ draft[r].sequence \in 1..Len(log) + 1
          BY <1>1, <4>4 DEF ReadNodes, DraftOK, Drafting
        <5>2. LeftHalves(draft[r].sequence) \subseteq DOMAIN nodes
          BY <5>1, NodesReadable
        <5> QED
          BY <4>4, <5>2 DEF ReadNodes, Goto, DraftInv
      <4>5. CASE Reject(r)
        BY <4>5 DEF Reject, Goto, DraftInv
      <4>6. CASE LostSaved(r) \/ LostNonce(r) \/ LostCloid(r) \/ LostIntent(r)
        BY <4>6 DEF LostSaved, LostNonce, LostCloid, LostIntent, Lookup, Check, Return, Reply, Goto,
                    DraftInv, Refusals
      <4> QED
        BY <1>4, <2>5, <4>1, <4>2, <4>3, <4>4, <4>5, <4>6 DEF Step
    <3>3. Taken(r)' = Taken(r)
      BY <2>2, <3>1 DEF Taken
    <3>4. Diagnosed(r)'
      BY <1>1, <2>2, <3>2, <3>3, RejectionExplained DEF Explained, Diagnosed, Drafting, Lost
    <3>5. AttemptsOK(r)'
      <4>1. pc[r] # "done"
        BY DEF Step, ReadSaved, ReadNonce, ReadCloid, ReadIntent, ReadLogged, InsertLogged, ReadWinner,
           ReadHead, ReadNodes, Commit, Reject, LostSaved, LostNonce, LostCloid, LostIntent,
           LostSequence, Lookup, Check
      <4>2. /\ attempts[r] \in 0..MaxAttempts /\ attempts[r] <= Len(log) /\ attempts[r] < MaxAttempts
            /\ reply[r].kind = "contention" => Len(log) >= MaxAttempts
            /\ pc[r] \in Drafting \cup Lost => draft[r].sequence \in Nat /\ attempts[r] < draft[r].sequence
        BY <1>1, <4>1 DEF Explained, AttemptsOK
      <4>3. reply'[r].kind = "contention" => reply[r].kind = "contention"
        BY <3>2 DEF Refusals
      <4>4. pc'[r] \in Drafting \cup Lost => pc[r] \in Drafting \cup Lost
        BY <3>2 DEF Drafting, Lost, Reject
      <4> QED
        BY <2>2, <3>1, <4>2, <4>3, <4>4 DEF AttemptsOK
    <3>6. pc'[r] # "failed" /\ reply'[r].kind \in {"none", "accepted"} \cup Refusals
      BY <1>1, <3>2 DEF Explained, Lost, Drafting
    <3> QED
      BY <1>1, <1>2, <3>1, <3>4, <3>5, <3>6 DEF Explained
  <2> QED
    BY <2>3, <2>4, <2>5
<1> QED
  BY <1>2, <1>3, <1>4

\* Every step of the requests keeps them explained.
LEMMA ExplainStep ==
  ASSUME StoreInv, DraftInv, ExplainInv, [RequestsNext]_vars
  PROVE  ExplainInv'
<1>1. [Next]_storeVars /\ load' = load
  BY StepImplements DEF RequestsNext, vars
<1>2. ASSUME NEW x \in Requests, pc'[x] = pc[x] \/ (pc'[x] = "crashed" /\ pc[x] # "done"),
             draft'[x] = draft[x], attempts'[x] = attempts[x], reply'[x] = reply[x]
      PROVE  Explained(x)'
  <2>1. Explained(x) /\ IdOf(x) \in Ids
    BY Loaded DEF ExplainInv, DraftInv
  <2> QED
    BY <1>1, <1>2, <2>1, ExplanationLasts
<1>3. ASSUME NEW r \in Requests, Step(r) PROVE ExplainInv'
  <2>1. /\ Explained(r)' /\ attempts' = [x \in Requests |-> attempts'[x]]
        /\ \A x \in Requests \ {r} : attempts'[x] = attempts[x]
    BY <1>1, <1>3, StatementExplained
  <2>2. \A x \in Requests \ {r} : pc'[x] = pc[x] /\ draft'[x] = draft[x] /\ reply'[x] = reply[x]
    BY <1>3, StepFrame
  <2> QED
    BY <1>2, <2>1, <2>2 DEF ExplainInv
<1>4. ASSUME NEW r \in Requests, Crash(r) PROVE ExplainInv'
  <2>1. /\ draft' = draft /\ attempts' = attempts /\ reply' = reply
        /\ \A x \in Requests : pc'[x] = pc[x] \/ (pc'[x] = "crashed" /\ pc[x] # "done")
    BY <1>4 DEF Crash, Goto, DraftInv
  <2> QED
    BY <1>2, <2>1 DEF ExplainInv
<1>5. ASSUME pc' = pc, draft' = draft, attempts' = attempts, reply' = reply PROVE ExplainInv'
  BY <1>2, <1>5 DEF ExplainInv
<1> QED
  BY <1>3, <1>4, <1>5 DEF RequestsNext, OtherIntent, OtherBinding, requestVars, vars

\* Whatever a request does next, what it knows explains it.
LEMMA ExplainInvHolds == RequestsSpec => []ExplainInv
<1>1. RequestsInit => ExplainInv
  BY RequestAssumption
     DEF RequestsInit, Init, ExplainInv, Explained, Diagnosed, AttemptsOK, Drafting, Lost, Reply
<1>2. StoreInv /\ DraftInv /\ ExplainInv /\ [RequestsNext]_vars => ExplainInv'
  BY ExplainStep
<1> QED
  BY <1>1, <1>2, RequestsInvHold, PTL DEF RequestsSpec

\* The tables and the bookkeeping of the requests keep their types.
THEOREM RequestsTypeCorrect == RequestsSpec => []RequestsTypeOK
<1>1. TypeOK /\ ExplainInv => RequestsTypeOK
  BY DEF ExplainInv, Explained, AttemptsOK, Refusals, RequestsTypeOK
<1> QED
  BY <1>1, D1Implements, TypeCorrect, ExplainInvHolds, PTL DEF ImplementsStore

\* No request ends in a rethrown database error or finds the Merkle index incomplete,
\* and one gives up for contention only if the log grew on each of its attempts.
THEOREM FailuresExplained == RequestsSpec => []FailuresAreExplained
<1>1. ExplainInv => FailuresAreExplained
  BY DEF ExplainInv, Explained, AttemptsOK, FailuresAreExplained
<1> QED
  BY <1>1, ExplainInvHolds, PTL

-------------------------------------------------------------------------------
(* Savers *)

SaveLabels == Ends \cup {"readReceipt", "batch", "readRefused", "readLost"}
EvidenceTypes ==
  /\ save \in [Savers -> [authorization : Ids \cup {None}, tx : TxHashes,
                          observation : Observations, issuedAt : Times]]
  /\ saver \in [Savers -> [at : SaveLabels, known : BOOLEAN, attempt : 0..1]]
  /\ history \in [TxHashes -> Seq(Observations)]
  /\ DOMAIN receipts \subseteq EvidenceIds

\* What a saver presents.
LEMMA Presents ==
  ASSUME EvidenceTypes, NEW s \in Savers
  PROVE  /\ Tx(s) \in TxHashes /\ Tx(s) # None /\ Observation(s) \in Observations
         /\ Subject(s) \in Ids \cup {None} /\ ReceiptId(s) \in EvidenceIds
         /\ Claims(s) => Subject(s) \in Ids /\ Observation(s).status \in {"CONFIRMED", "REVERTED"}
<1>1. save[s] \in [authorization : Ids \cup {None}, tx : TxHashes, observation : Observations, issuedAt : Times]
  BY DEF EvidenceTypes
<1>2. Tx(s) \in TxHashes /\ Observation(s) \in Observations /\ Subject(s) \in Ids \cup {None}
  BY <1>1 DEF Tx, Observation, Subject
<1>3. ReceiptId(s) \in EvidenceIds
  BY <1>2 DEF ReceiptId, EvidenceIds
<1>4. ASSUME Claims(s) PROVE Subject(s) \in Ids /\ Observation(s).status \in {"CONFIRMED", "REVERTED"}
  <2>1. ReceiptId(s) \in Ids \X TxHashes \X Observations /\ ReceiptId(s)[3].status \in {"CONFIRMED", "REVERTED"}
    BY <1>4, SaveAssumption DEF Claims
  <2> QED
    BY <2>1 DEF ReceiptId
<1> QED
  BY <1>2, <1>3, <1>4, SignedAssumption

\* The statements of a saver other than its batch change its own row only.
LEMMA SaverReads ==
  ASSUME NEW s \in Savers, SaveStep(s), ~SaveBatch(s)
  PROVE  UNCHANGED <<storeVars, evidence>>
BY DEF SaveStep, ReadReceipt, RejectSave, ReadRefused, ReadLost

\* A saver changes its own row only.
LEMMA SaverFrame ==
  ASSUME EvidenceTypes, NEW s \in Savers, SaveStep(s) \/ SaverCrash(s)
  PROVE  /\ saver' \in [Savers -> [at : SaveLabels, known : BOOLEAN, attempt : 0..1]]
         /\ \A x \in Savers \ {s} : saver'[x] = saver[x]
<1> DEFINE Rows == [at : SaveLabels, known : BOOLEAN, attempt : 0..1]
<1>1. saver \in [Savers -> Rows]
  BY DEF EvidenceTypes
<1>2. PICK row \in Rows : saver' = [saver EXCEPT ![s] = row]
  <2>1. saver[s] \in Rows
    BY <1>1
  <2>2. \A label \in SaveLabels : [saver[s] EXCEPT !.at = label] \in Rows
    BY <2>1
  <2>3. /\ \A b \in BOOLEAN : [saver[s] EXCEPT !.at = "batch", !.known = b] \in Rows
        /\ [saver[s] EXCEPT !.at = "readReceipt", !.attempt = 1] \in Rows
        /\ Stored(s) \in BOOLEAN
    <3>1. \A b \in BOOLEAN : [saver[s] EXCEPT !.at = "batch", !.known = b] \in Rows
      BY <2>1 DEF SaveLabels
    <3>2. [saver[s] EXCEPT !.at = "readReceipt", !.attempt = 1] \in Rows
      <4>1. \A n \in 0..1 : [saver[s] EXCEPT !.at = "readReceipt", !.attempt = n] \in Rows
        BY <2>1 DEF SaveLabels
      <4>2. 1 \in 0..1
        OBVIOUS
      <4> QED
        BY <4>1, <4>2
    <3>3. Stored(s) \in BOOLEAN
      BY DEF Stored
    <3> QED
      BY <3>1, <3>2, <3>3
  <2>4. \/ \E label \in SaveLabels : saver' = [saver EXCEPT ![s] = [saver[s] EXCEPT !.at = label]]
        \/ saver' = [saver EXCEPT ![s] = [saver[s] EXCEPT !.at = "batch", !.known = Stored(s)]]
        \/ saver' = [saver EXCEPT ![s] = [saver[s] EXCEPT !.at = "readReceipt", !.attempt = 1]]
    BY DEF SaveStep, ReadReceipt, SaveBatch, RejectSave, ReadRefused, ReadLost, SaverCrash,
           Proceed, SaveLabels, Ends
  <2> QED
    BY <2>2, <2>3, <2>4
<1> QED
  BY <1>1, <1>2

\* A batch appends its observation, unless it is there.
LEMMA AddedEffect ==
  ASSUME NEW past \in Seq(Observations), NEW o \in Observations
  PROVE  /\ Added(past, o) \in Seq(Observations)
         /\ \A k \in DOMAIN past : k \in DOMAIN Added(past, o) /\ Added(past, o)[k] = past[k]
         /\ \E k \in DOMAIN Added(past, o) : Added(past, o)[k] = o
<1>1. CASE \E k \in DOMAIN past : past[k] = o
  BY <1>1 DEF Added
<1>2. CASE ~\E k \in DOMAIN past : past[k] = o
  <2>1. Added(past, o) = Append(past, o)
    BY <1>2 DEF Added
  <2> QED
    BY <2>1
<1> QED
  BY <1>1, <1>2

\* A batch that matched wrote observation and receipt; one that did not wrote nothing.
LEMMA BatchEffect ==
  ASSUME EvidenceTypes, NEW s \in Savers, SaveBatch(s)
  PROVE  /\ log' = log /\ nodes' = nodes /\ intents' = intents
         /\ ~Matched(s) => UNCHANGED <<authorization, history, receipts>>
         /\ Matched(s) =>
              /\ history' = [history EXCEPT ![Tx(s)] = Added(@, Observation(s))]
              /\ receipts' = IF saver[s].known THEN receipts
                             ELSE Written([id \in {ReceiptId(s)} |-> save[s].issuedAt], receipts)
         /\ (Claims(s) /\ Matched(s) /\ authorization[Subject(s)].tx = None) => Bind(Subject(s), Tx(s))
         /\ ~(Claims(s) /\ Matched(s) /\ authorization[Subject(s)].tx = None) => authorization' = authorization
BY DEF SaveBatch, Inserts, Binds, evidence, Bind, Bindable, Matched

\* The types of the evidence are kept.
LEMMA EvidenceTypesStep ==
  ASSUME EvidenceTypes, [EvidenceNext]_evidenceVars
  PROVE  EvidenceTypes'
<1>1. ASSUME UNCHANGED <<history, receipts, save, saver>> PROVE EvidenceTypes'
  BY <1>1 DEF EvidenceTypes
<1>2. ASSUME NEW s \in Savers, SaveStep(s) \/ SaverCrash(s), save' = save PROVE EvidenceTypes'
  <2>1. history' \in [TxHashes -> Seq(Observations)] /\ DOMAIN receipts' \subseteq EvidenceIds
    <3>1. CASE SaveBatch(s) /\ Matched(s)
      <4>1. history' = [history EXCEPT ![Tx(s)] = Added(@, Observation(s))]
        BY <3>1, BatchEffect
      <4>2. Added(history[Tx(s)], Observation(s)) \in Seq(Observations)
        BY Presents, AddedEffect DEF EvidenceTypes
      <4>3. history' \in [TxHashes -> Seq(Observations)]
        BY <4>1, <4>2, Presents DEF EvidenceTypes
      <4>4. DOMAIN receipts' \subseteq EvidenceIds
        <5>1. receipts' = receipts \/ receipts' = Written([id \in {ReceiptId(s)} |-> save[s].issuedAt], receipts)
          BY <3>1, BatchEffect
        <5> QED
          BY <5>1, Presents DEF EvidenceTypes, Written
      <4> QED
        BY <4>3, <4>4
    <3>2. CASE ~(SaveBatch(s) /\ Matched(s))
      BY <1>2, <3>2, BatchEffect, SaverReads DEF EvidenceTypes, SaverCrash, evidence
    <3> QED
      BY <3>1, <3>2
  <2> QED
    BY <1>2, <2>1, SaverFrame DEF EvidenceTypes
<1> QED
  BY <1>1, <1>2 DEF EvidenceNext, AcceptStep, ObserveStep, evidenceVars

\* The types of the evidence hold.
LEMMA EvidenceTypesHold == EvidenceSpec => []EvidenceTypes
<1>1. EvidenceInit => EvidenceTypes
  <2> SUFFICES ASSUME EvidenceInit PROVE EvidenceTypes
    OBVIOUS
  <2>1. load \in Loads /\ save \in Saves[load]
    BY DEF EvidenceInit, RequestsInit
  <2>2. save \in [Savers -> [authorization : Ids \cup {None}, tx : TxHashes,
                            observation : Observations, issuedAt : Times]]
    BY <2>1, SaveAssumption
  <2> QED
    BY <2>2 DEF EvidenceInit, EvidenceTypes, SaveLabels
<1> QED
  BY <1>1, EvidenceTypesStep, PTL DEF EvidenceSpec

\* To the requests, a batch that binds is a binding by another, and nothing else shows.
LEMMA SaversAreOthers ==
  ASSUME EvidenceTypes, [EvidenceNext]_evidenceVars
  PROVE  [RequestsNext]_vars
<1>1. ASSUME NEW s \in Savers, ObserveStep(s) PROVE [RequestsNext]_vars
  <2>1. CASE SaveBatch(s)
    <3>1. CASE Claims(s) /\ Matched(s) /\ authorization[Subject(s)].tx = None
      <4>1. Bind(Subject(s), Tx(s)) /\ Subject(s) \in Ids /\ Tx(s) \in TxHashes
        BY <2>1, <3>1, BatchEffect, Presents
      <4>2. OtherBinding(Subject(s), Tx(s)) /\ UNCHANGED load
        BY <1>1, <4>1 DEF OtherBinding, ObserveStep, requestVars
      <4> QED
        BY <4>1, <4>2 DEF RequestsNext
    <3>2. CASE ~(Claims(s) /\ Matched(s) /\ authorization[Subject(s)].tx = None)
      BY <1>1, <2>1, <3>2, BatchEffect DEF ObserveStep, vars
    <3> QED
      BY <3>1, <3>2
  <2>2. CASE ~SaveBatch(s)
    BY <1>1, <2>2, SaverReads DEF ObserveStep, vars, storeVars
  <2> QED
    BY <2>1, <2>2
<1>2. ASSUME NEW s \in Savers, SaverCrash(s), UNCHANGED <<load, pc, draft, addition, attempts, reply, save>>
      PROVE  [RequestsNext]_vars
  BY <1>2 DEF SaverCrash, vars, storeVars
<1>3. CASE UNCHANGED evidenceVars
  BY <1>3 DEF evidenceVars, vars
<1>4. ASSUME NEW r \in Requests, AcceptStep(r) PROVE [RequestsNext]_vars
  BY <1>4 DEF AcceptStep, RequestsNext
<1>5. ASSUME (\E r \in Requests : Crash(r)) \/ (\E i \in Presented : OtherIntent(i)), UNCHANGED load
      PROVE  [RequestsNext]_vars
  BY <1>5 DEF RequestsNext
<1> QED
  BY <1>1, <1>2, <1>3, <1>4, <1>5 DEF EvidenceNext

\* So the requests beside the savers are the requests beside any other observers.
THEOREM SaversAreObservers == EvidenceSpec => RequestsSpec
<1>1. EvidenceInit => RequestsInit
  BY DEF EvidenceInit
<1>2. EvidenceTypes /\ [EvidenceNext]_evidenceVars => [RequestsNext]_vars
  BY SaversAreOthers
<1> QED
  BY <1>1, <1>2, EvidenceTypesHold, PTL DEF EvidenceSpec, RequestsSpec

-------------------------------------------------------------------------------
(* What saves leave *)

Noted(s) == \E k \in DOMAIN history[Tx(s)] : history[Tx(s)][k] = Observation(s)
\* The receipt on record is the one s presents.
Own(s) == Stored(s) /\ receipts[ReceiptId(s)] = save[s].issuedAt
\* Another transaction has consumed the authorization s claims.
Elsewhere(s) == Claims(s) /\ Accepted(Subject(s)) /\ authorization[Subject(s)].tx \notin {None, Tx(s)}

\* What a saver knows at each of its statements.
SaveOK(s) ==
  /\ saver[s].at # "readReceipt" => Subject(s) = None \/ Accepted(Subject(s))
  /\ saver[s].known => Own(s)
  /\ saver[s].attempt = 1 => Stored(s) /\ (saver[s].at = "batch" => saver[s].known)
  /\ saver[s].at = "readLost" => saver[s].attempt = 0 /\ Stored(s)
  /\ saver[s].at = "saved" => Noted(s) /\ Own(s) /\ (Claims(s) => authorization[Subject(s)].tx = Tx(s))
  /\ saver[s].at \in {"readRefused", "alreadyUsed"} => Elsewhere(s)
  /\ saver[s].at = "receiptConflict" => Stored(s) /\ ~Own(s)
  /\ saver[s].at \notin {"failed", "notFound"}

\* A receipt describes a recorded observation, and a final one the transaction that
\* consumed its authorization.
ReceiptOK(id) ==
  /\ \E k \in DOMAIN history[id[2]] : history[id[2]][k] = id[3]
  /\ id \in Finals => Accepted(id[1]) /\ authorization[id[1]].tx = id[2]

EvidenceInv == (\A s \in Savers : SaveOK(s)) /\ (\A id \in DOMAIN receipts : ReceiptOK(id))

\* The evidence is only added to, and a binding stays.
Grown ==
  /\ \A i \in DOMAIN authorization :
       /\ i \in DOMAIN authorization'
       /\ authorization[i].tx # None => authorization'[i].tx = authorization[i].tx
  /\ \A tx \in TxHashes : \A k \in DOMAIN history[tx] :
       k \in DOMAIN history'[tx] /\ history'[tx][k] = history[tx][k]
  /\ \A id \in DOMAIN receipts : id \in DOMAIN receipts' /\ receipts'[id] = receipts[id]

\* No step of the store takes a binding back.
LEMMA BindingsStay ==
  ASSUME StoreInv, [Next]_storeVars
  PROVE  \A i \in DOMAIN authorization :
           /\ i \in DOMAIN authorization'
           /\ authorization[i].tx # None => authorization'[i].tx = authorization[i].tx
<1>1. ASSUME NEW s \in Signed, NEW at \in Times, Accept(s, at)
      PROVE  \A i \in DOMAIN authorization : i \in DOMAIN authorization' /\ authorization'[i] = authorization[i]
  <2>1. AcceptWrites(s, at)
    BY <1>1, AcceptEffect
  <2> QED
    BY <2>1 DEF AcceptWrites
<1>2. ASSUME NEW j \in Ids, NEW tx \in TxHashes, Bind(j, tx)
      PROVE  \A i \in DOMAIN authorization :
               /\ i \in DOMAIN authorization'
               /\ authorization[i].tx # None => authorization'[i].tx = authorization[i].tx
  <2>1. BindWrites(j, tx)
    BY <1>2, BindEffect
  <2> QED
    BY <2>1 DEF BindWrites
<1>3. ASSUME NEW j \in Ids, SaveIntent(j) PROVE authorization' = authorization
  BY <1>3 DEF SaveIntent
<1> QED
  BY <1>1, <1>2, <1>3 DEF Next, storeVars

\* The evidence grows in every step.
LEMMA EvidenceGrows ==
  ASSUME StoreInv, DraftInv, EvidenceTypes, [EvidenceNext]_evidenceVars
  PROVE  Grown
<1>1. \A i \in DOMAIN authorization :
        /\ i \in DOMAIN authorization'
        /\ authorization[i].tx # None => authorization'[i].tx = authorization[i].tx
  BY SaversAreOthers, StepImplements, BindingsStay
<1>2. ASSUME NEW s \in Savers, SaveBatch(s), Matched(s) PROVE Grown
  <2>1. /\ history' = [history EXCEPT ![Tx(s)] = Added(@, Observation(s))]
        /\ receipts' = IF saver[s].known THEN receipts
                       ELSE Written([id \in {ReceiptId(s)} |-> save[s].issuedAt], receipts)
    BY <1>2, BatchEffect
  <2>2. history[Tx(s)] \in Seq(Observations) /\ Tx(s) \in TxHashes /\ Observation(s) \in Observations
    BY Presents DEF EvidenceTypes
  <2>3. \A tx \in TxHashes : \A k \in DOMAIN history[tx] :
          k \in DOMAIN history'[tx] /\ history'[tx][k] = history[tx][k]
    BY <2>1, <2>2, AddedEffect DEF EvidenceTypes
  <2>4. \A id \in DOMAIN receipts : id \in DOMAIN receipts' /\ receipts'[id] = receipts[id]
    <3>1. CASE saver[s].known
      BY <2>1, <3>1
    <3>2. CASE ~saver[s].known
      <4>1. ReceiptId(s) \notin DOMAIN receipts
        BY <1>2, <3>2 DEF SaveBatch, Rejected, Inserts, Stored
      <4> QED
        BY <2>1, <3>2, <4>1 DEF Written
    <3> QED
      BY <3>1, <3>2
  <2> QED
    BY <1>1, <2>3, <2>4 DEF Grown
<1>3. CASE UNCHANGED evidence
  BY <1>1, <1>3 DEF Grown, evidence
<1>4. (\E s \in Savers : SaveBatch(s) /\ Matched(s)) \/ UNCHANGED evidence
  BY SaverReads, BatchEffect DEF EvidenceNext, AcceptStep, ObserveStep, SaverCrash, evidence, evidenceVars
<1> QED
  BY <1>2, <1>3, <1>4

\* What was on record stays on record for a saver that does not move.
LEMMA SaveStays ==
  ASSUME EvidenceTypes, Grown, save' = save, NEW s \in Savers, SaveOK(s)
  PROVE  /\ Tx(s)' = Tx(s) /\ Subject(s)' = Subject(s) /\ Observation(s)' = Observation(s)
         /\ ReceiptId(s)' = ReceiptId(s) /\ Claims(s)' = Claims(s)
         /\ Accepted(Subject(s)) => Accepted(Subject(s))'
         /\ Stored(s) => Stored(s)' /\ receipts'[ReceiptId(s)] = receipts[ReceiptId(s)]
         /\ Own(s) => Own(s)'
         /\ Stored(s) /\ ~Own(s) => ~Own(s)'
         /\ Noted(s) => Noted(s)'
         /\ Elsewhere(s) => Elsewhere(s)'
         /\ (Claims(s) /\ Accepted(Subject(s)) /\ authorization[Subject(s)].tx = Tx(s)) =>
              authorization'[Subject(s)].tx = Tx(s)
         /\ saver'[s] = saver[s] => SaveOK(s)'
<1>1. /\ Tx(s)' = Tx(s) /\ Subject(s)' = Subject(s) /\ Observation(s)' = Observation(s)
      /\ ReceiptId(s)' = ReceiptId(s) /\ Claims(s)' = Claims(s)
  BY DEF Tx, Subject, Observation, ReceiptId, Claims
<1>2. Accepted(Subject(s)) => Accepted(Subject(s))'
  BY <1>1 DEF Accepted, Grown
<1>3. Stored(s) => Stored(s)' /\ receipts'[ReceiptId(s)] = receipts[ReceiptId(s)]
  BY <1>1 DEF Stored, Grown
<1>4. (Own(s) => Own(s)') /\ (Stored(s) /\ ~Own(s) => ~Own(s)')
  BY <1>1, <1>3 DEF Own
<1>5. Noted(s) => Noted(s)'
  BY <1>1, Presents DEF Noted, Grown
<1>6. Elsewhere(s) => Elsewhere(s)'
  BY <1>1 DEF Elsewhere, Accepted, Grown
<1>7. (Claims(s) /\ Accepted(Subject(s)) /\ authorization[Subject(s)].tx = Tx(s)) =>
        authorization'[Subject(s)].tx = Tx(s)
  BY <1>1, Presents DEF Accepted, Grown
<1>8. ASSUME saver'[s] = saver[s] PROVE SaveOK(s)'
  <2>1. Claims(s) => Subject(s) # None
    BY Presents, SaveAssumption
  <2> QED
    BY <1>1, <1>2, <1>3, <1>4, <1>5, <1>6, <1>7, <1>8, <2>1 DEF SaveOK
<1> QED
  BY <1>1, <1>2, <1>3, <1>4, <1>5, <1>6, <1>7, <1>8

\* A receipt on record stays justified.
LEMMA ReceiptStays ==
  ASSUME EvidenceTypes, Grown, NEW id \in DOMAIN receipts, ReceiptOK(id)
  PROVE  ReceiptOK(id)'
<1>1. id \in EvidenceIds
  BY DEF EvidenceTypes
<1>2. id[2] \in TxHashes /\ id[2] # None
  BY <1>1, SignedAssumption DEF EvidenceIds
<1> QED
  BY <1>2 DEF ReceiptOK, Grown, Accepted

\* A batch leaves what its answer says: everything, or nothing.
LEMMA BatchMoves ==
  ASSUME StoreInv, EvidenceTypes, EvidenceInv, Grown, save' = save, NEW s \in Savers, SaveBatch(s)
  PROVE  /\ SaveOK(s)'
         /\ Matched(s) => ReceiptOK(ReceiptId(s))'
<1>1. /\ SaveOK(s) /\ saver[s].at = "batch"
      /\ saver'[s] = [saver[s] EXCEPT !.at = IF Matched(s) THEN "saved" ELSE "readRefused"]
  BY DEF EvidenceInv, SaveBatch, Proceed, EvidenceTypes
<1>2. /\ Subject(s) = None \/ Accepted(Subject(s))
      /\ saver[s].known => Own(s)
      /\ saver[s].attempt = 1 => Stored(s)
  BY <1>1 DEF SaveOK
<1>3. Claims(s) => Subject(s) # None /\ Accepted(Subject(s))
  BY <1>2, Presents, SaveAssumption
<1>4. saver[s] \in [at : SaveLabels, known : BOOLEAN, attempt : 0..1]
  BY DEF EvidenceTypes
<1>5. CASE Matched(s)
  <2>1. saver'[s].at = "saved" /\ saver'[s].known = saver[s].known /\ saver'[s].attempt = saver[s].attempt
    BY <1>1, <1>4, <1>5
  <2>2. /\ history' = [history EXCEPT ![Tx(s)] = Added(@, Observation(s))]
        /\ receipts' = IF saver[s].known THEN receipts
                       ELSE Written([id \in {ReceiptId(s)} |-> save[s].issuedAt], receipts)
    BY <1>5, BatchEffect
  <2>3. Noted(s)'
    <3>1. history'[Tx(s)] = Added(history[Tx(s)], Observation(s)) /\ history[Tx(s)] \in Seq(Observations)
      BY <2>2, Presents DEF EvidenceTypes
    <3>2. \E k \in DOMAIN history'[Tx(s)] : history'[Tx(s)][k] = Observation(s)
      BY <3>1, Presents, AddedEffect
    <3>3. Tx(s)' = Tx(s) /\ Observation(s)' = Observation(s)
      BY <1>1, SaveStays
    <3> HIDE DEF Tx, Observation
    <3> QED
      BY <3>2, <3>3 DEF Noted
  <2>4. Own(s)'
    <3>1. CASE saver[s].known
      BY <1>1, <1>2, <3>1, SaveStays
    <3>2. CASE ~saver[s].known
      BY <1>1, <2>2, <3>2, SaveStays DEF Own, Stored, Written
    <3> QED
      BY <3>1, <3>2
  <2>5. Claims(s) => authorization'[Subject(s)].tx = Tx(s)
    <3>1. CASE Claims(s) /\ authorization[Subject(s)].tx = None
      <4>1. Bind(Subject(s), Tx(s)) /\ Subject(s) \in Ids /\ Tx(s) \in TxHashes
        BY <1>5, <3>1, BatchEffect, Presents
      <4>2. BindWrites(Subject(s), Tx(s))
        BY <4>1, BindEffect
      <4> QED
        BY <4>2 DEF BindWrites
    <3>2. CASE Claims(s) /\ authorization[Subject(s)].tx # None
      <4>1. authorization[Subject(s)].tx = Tx(s)
        BY <1>5, <3>2 DEF Matched
      <4> QED
        BY <1>1, <1>3, <3>2, <4>1, SaveStays
    <3> QED
      BY <3>1, <3>2
  <2>6. (Claims(s) => Subject(s) # None /\ Accepted(Subject(s)))' /\ (Subject(s) = None \/ Accepted(Subject(s)))'
    BY <1>1, <1>2, <1>3, SaveStays
  <2>7. SaveOK(s)'
    <3>1. (Claims(s) => authorization[Subject(s)].tx = Tx(s))'
      BY <1>1, <2>5, SaveStays
    <3> QED
      BY <2>1, <2>3, <2>4, <2>6, <3>1 DEF SaveOK, Own
  <2>8. ReceiptOK(ReceiptId(s))'
    <3>1. ReceiptId(s)[1] = Subject(s) /\ ReceiptId(s)[2] = Tx(s) /\ ReceiptId(s)[3] = Observation(s)
      BY DEF ReceiptId
    <3>2. \E k \in DOMAIN history'[Tx(s)] : history'[Tx(s)][k] = Observation(s)
      BY <1>1, <2>3, SaveStays DEF Noted
    <3>3. ReceiptId(s) \in Finals => Accepted(Subject(s))' /\ authorization'[Subject(s)].tx = Tx(s)
      BY <1>1, <1>3, <2>5, SaveStays DEF Claims
    <3>4. ReceiptId(s)' = ReceiptId(s) /\ Subject(s)' = Subject(s)
      BY <1>1, SaveStays
    <3> HIDE DEF ReceiptId, Subject, Tx, Observation
    <3> QED
      BY <3>1, <3>2, <3>3, <3>4 DEF ReceiptOK, Accepted
  <2> QED
    BY <2>7, <2>8
<1>6. CASE ~Matched(s)
  <2>1. saver'[s].at = "readRefused" /\ saver'[s].known = saver[s].known /\ saver'[s].attempt = saver[s].attempt
    BY <1>1, <1>4, <1>6
  <2>2. Elsewhere(s)
    BY <1>3, <1>6 DEF Matched, Elsewhere
  <2> QED
    BY <1>1, <1>2, <1>6, <2>1, <2>2, SaveStays DEF SaveOK
<1> QED
  BY <1>5, <1>6

\* The other statements of a saver, and its stop, know what they know.
LEMMA ReadMoves ==
  ASSUME EvidenceTypes, EvidenceInv, Grown, save' = save, NEW s \in Savers,
         (SaveStep(s) /\ ~SaveBatch(s)) \/ SaverCrash(s)
  PROVE  SaveOK(s)'
<1>1. SaveOK(s) /\ saver[s] \in [at : SaveLabels, known : BOOLEAN, attempt : 0..1]
  BY DEF EvidenceInv, EvidenceTypes
<1>2. UNCHANGED <<storeVars, evidence>>
  BY SaverReads DEF SaverCrash
<1>3. /\ Own(s)' = Own(s) /\ Stored(s)' = Stored(s) /\ Noted(s)' = Noted(s) /\ Elsewhere(s)' = Elsewhere(s)
      /\ Claims(s)' = Claims(s) /\ Accepted(Subject(s))' = Accepted(Subject(s)) /\ Subject(s)' = Subject(s)
  BY <1>2 DEF Own, Stored, Noted, Elsewhere, Claims, Accepted, Subject, Tx, Observation, ReceiptId, evidence, storeVars
<1>4. CASE ReadReceipt(s)
  <2>1. /\ saver[s].at = "readReceipt"
        /\ Subject(s) # None => Accepted(Subject(s))
        /\ \/ ReceiptDiffers(s) /\ saver'[s] = [saver[s] EXCEPT !.at = "receiptConflict"]
           \/ ~ReceiptDiffers(s) /\ saver'[s] = [saver[s] EXCEPT !.at = "batch", !.known = Stored(s)]
    BY <1>4 DEF ReadReceipt, Proceed, EvidenceTypes
  <2>2. CASE ReceiptDiffers(s) /\ saver'[s] = [saver[s] EXCEPT !.at = "receiptConflict"]
    BY <1>1, <1>3, <2>1, <2>2 DEF SaveOK, ReceiptDiffers, Own
  <2>3. CASE ~ReceiptDiffers(s) /\ saver'[s] = [saver[s] EXCEPT !.at = "batch", !.known = Stored(s)]
    <3>1. saver'[s].at = "batch" /\ saver'[s].known = Stored(s) /\ saver'[s].attempt = saver[s].attempt
      BY <1>1, <2>3
    <3>2. Stored(s) => Own(s)
      BY <2>3 DEF ReceiptDiffers, Own
    <3> QED
      BY <1>1, <1>3, <2>1, <3>1, <3>2 DEF SaveOK
  <2> QED
    BY <2>1, <2>2, <2>3
<1>5. CASE RejectSave(s)
  <2>1. /\ saver[s].at = "batch" /\ ~saver[s].known /\ Stored(s)
        /\ saver'[s] = [saver[s] EXCEPT !.at = "readLost"]
    BY <1>5 DEF RejectSave, Rejected, Proceed, EvidenceTypes
  <2>2. saver[s].attempt = 0
    BY <1>1, <2>1 DEF SaveOK
  <2> QED
    BY <1>1, <1>3, <2>1, <2>2 DEF SaveOK
<1>6. CASE ReadRefused(s)
  <2>1. Elsewhere(s) /\ saver[s].at = "readRefused"
    BY <1>1, <1>6 DEF ReadRefused, SaveOK
  <2>2. saver'[s] = [saver[s] EXCEPT !.at = "alreadyUsed"]
    BY <1>6, <2>1 DEF ReadRefused, Proceed, EvidenceTypes, Elsewhere
  <2> QED
    BY <1>1, <1>3, <2>1, <2>2 DEF SaveOK
<1>7. CASE ReadLost(s)
  <2>1. Retries(s) /\ saver[s].at = "readLost" /\ Stored(s)
    BY <1>1, <1>7 DEF ReadLost, Retries, SaveOK
  <2>2. saver'[s] = [saver[s] EXCEPT !.at = "readReceipt", !.attempt = 1]
    BY <1>7, <2>1 DEF ReadLost, EvidenceTypes
  <2> QED
    BY <1>1, <1>3, <2>1, <2>2 DEF SaveOK
<1>8. CASE SaverCrash(s)
  <2>1. saver[s].at # "readReceipt" /\ saver'[s] = [saver[s] EXCEPT !.at = "crashed"]
    BY <1>8 DEF SaverCrash, Proceed, EvidenceTypes
  <2> QED
    BY <1>1, <1>3, <2>1 DEF SaveOK
<1> QED
  BY <1>4, <1>5, <1>6, <1>7, <1>8 DEF SaveStep

\* Every step keeps what savers know and receipts say.
LEMMA EvidenceStep ==
  ASSUME StoreInv, DraftInv, EvidenceTypes, EvidenceInv, [EvidenceNext]_evidenceVars
  PROVE  EvidenceInv'
<1>1. Grown /\ save' = save
  BY EvidenceGrows DEF EvidenceNext, AcceptStep, ObserveStep, evidenceVars
<1>2. \A id \in DOMAIN receipts : ReceiptOK(id)'
  BY <1>1, ReceiptStays DEF EvidenceInv
<1>3. ASSUME NEW x \in Savers, saver'[x] = saver[x] PROVE SaveOK(x)'
  BY <1>1, <1>3, SaveStays DEF EvidenceInv
<1>4. ASSUME NEW s \in Savers, SaveStep(s) \/ SaverCrash(s) PROVE EvidenceInv'
  <2>1. \A x \in Savers : SaveOK(x)'
    BY <1>1, <1>3, <1>4, SaverFrame, BatchMoves, ReadMoves
  <2>2. \A id \in DOMAIN receipts' \ DOMAIN receipts : id = ReceiptId(s) /\ SaveBatch(s) /\ Matched(s)
    <3>1. CASE SaveBatch(s) /\ Matched(s)
      <4>1. receipts' = receipts \/ receipts' = Written([id \in {ReceiptId(s)} |-> save[s].issuedAt], receipts)
        BY <3>1, BatchEffect
      <4> QED
        BY <3>1, <4>1 DEF Written
    <3>2. CASE ~(SaveBatch(s) /\ Matched(s))
      <4>1. receipts' = receipts
        BY <1>4, <3>2, BatchEffect, SaverReads DEF SaverCrash, evidence
      <4> QED
        BY <4>1
    <3> QED
      BY <3>1, <3>2
  <2>3. (SaveBatch(s) /\ Matched(s)) => ReceiptOK(ReceiptId(s))'
    BY <1>1, BatchMoves
  <2>4. ReceiptId(s)' = ReceiptId(s)
    BY <1>1 DEF ReceiptId, Subject, Tx, Observation
  <2>5. ASSUME NEW id \in DOMAIN receipts' PROVE ReceiptOK(id)'
    <3>1. CASE id \in DOMAIN receipts
      BY <1>2, <3>1
    <3>2. CASE id \notin DOMAIN receipts
      BY <2>2, <2>3, <2>4, <3>2 DEF ReceiptOK
    <3> QED
      BY <3>1, <3>2
  <2> QED
    BY <2>1, <2>5 DEF EvidenceInv
<1>5. CASE UNCHANGED <<saver, receipts>>
  BY <1>2, <1>3, <1>5 DEF EvidenceInv
<1> QED
  BY <1>4, <1>5 DEF EvidenceNext, AcceptStep, ObserveStep, evidenceVars

\* The evidence invariant holds beside those of the store and the requests.
LEMMA EvidenceInvHolds == EvidenceSpec => [](StoreInv /\ EvidenceTypes /\ EvidenceInv)
<1>1. EvidenceInit => EvidenceInv
  BY DEF EvidenceInit, EvidenceInv, SaveOK
<1>2. StoreInv /\ DraftInv /\ EvidenceTypes /\ EvidenceInv /\ [EvidenceNext]_evidenceVars => EvidenceInv'
  BY EvidenceStep
<1> QED
  BY <1>1, <1>2, EvidenceTypesHold, SaversAreObservers, RequestsInvHold, PTL DEF EvidenceSpec

-------------------------------------------------------------------------------
(* Theorems about evidence *)

\* Every save that was answered left what its answer says.
THEOREM SavesJustified == EvidenceSpec => []SavesAreJustified
<1>1. StoreInv /\ EvidenceTypes /\ EvidenceInv => SavesAreJustified
  <2> SUFFICES ASSUME EvidenceTypes, EvidenceInv, NEW s \in Savers
               PROVE  /\ saver[s].at = "saved" =>
                           Noted(s) /\ Own(s) /\ (Claims(s) => authorization[Subject(s)].tx = Tx(s))
                      /\ saver[s].at = "alreadyUsed" =>
                           authorization[Subject(s)].tx \notin {None, Tx(s)} /\ ~Stored(s)
                      /\ saver[s].at = "receiptConflict" => Stored(s) /\ ~Own(s)
    BY DEF SavesAreJustified, Noted, Own
  <2>1. SaveOK(s)
    BY DEF EvidenceInv
  <2>2. Elsewhere(s) => ~Stored(s)
    <3>1. Elsewhere(s) /\ Stored(s) => ReceiptOK(ReceiptId(s))
      BY DEF EvidenceInv, Stored
    <3>2. ReceiptId(s)[1] = Subject(s) /\ ReceiptId(s)[2] = Tx(s)
      BY DEF ReceiptId
    <3> QED
      BY <3>1, <3>2 DEF Elsewhere, Claims, ReceiptOK
  <2> QED
    BY <2>1, <2>2 DEF SaveOK, Elsewhere
<1> QED
  BY <1>1, EvidenceInvHolds, PTL

\* A save is never answered with a database error or a missing authorization: what
\* another Worker inserted meanwhile is found by the one retry.
THEOREM SavesSucceedOrRefuse == EvidenceSpec => []SavesNeverFail
<1>1. StoreInv /\ EvidenceTypes /\ EvidenceInv => SavesNeverFail
  BY DEF SavesNeverFail, EvidenceInv, SaveOK
<1> QED
  BY <1>1, EvidenceInvHolds, PTL

\* Every answer, of an acceptance or of a save, is backed by the tables.
THEOREM CallsJustified == EvidenceSpec => []CallsAreJustified
<1>1. AnswersAreJustified /\ SavesAreJustified => CallsAreJustified
  BY DEF CallsAreJustified
<1> QED
  BY <1>1, SaversAreObservers, AnswersJustified, SavesJustified, PTL

\* No call, of either kind, ends in a database error.
THEOREM CallsExplained == EvidenceSpec => []CallsAreExplained
<1>1. FailuresAreExplained /\ SavesNeverFail => CallsAreExplained
  BY DEF CallsAreExplained
<1> QED
  BY <1>1, SaversAreObservers, FailuresExplained, SavesSucceedOrRefuse, PTL

\* The tables of the evidence and the bookkeeping of the savers keep their types.
THEOREM EvidenceTypeCorrect == EvidenceSpec => []EvidenceTypeOK
<1>1. RequestsTypeOK /\ EvidenceTypes => EvidenceTypeOK
  <2> SUFFICES ASSUME EvidenceTypes
               PROVE  \A tx \in TxHashes : \A k \in DOMAIN history[tx] : history[tx][k] \in Observations
    BY DEF EvidenceTypes, EvidenceTypeOK, SaveLabels
  <2> QED
    BY DEF EvidenceTypes
<1> QED
  BY <1>1, SaversAreObservers, RequestsTypeCorrect, EvidenceTypesHold, PTL

-------------------------------------------------------------------------------
(* The life cycle *)

\* The receipt an identifier stands for, and what an authorization is bound to.
Receipt(id) == [authorization |-> id[1], tx |-> id[2], observation |-> id[3],
                association |-> IF id \in Finals THEN "FINAL" ELSE "UNRELATED"]
Bound(i) == IF Accepted(i) THEN authorization[i].tx ELSE None

\* A batch that matched records its observation and its receipt, again or anew.
LEMMA BatchRecords ==
  ASSUME EvidenceTypes, EvidenceInv, NEW s \in Savers, SaveBatch(s), Matched(s), save' = save,
         NEW i, i = Subject(s), NEW tx, tx = Tx(s), NEW observation, observation = Observation(s),
         NEW association, association = IF Claims(s) THEN "FINAL" ELSE "UNRELATED"
  PROVE  /\ Lifecycle!Adds(tx, observation) \/ Lifecycle!Has(tx, observation)
         /\ Lifecycle!Record(i, tx, observation, association)
<1>1. /\ history' = [history EXCEPT ![tx] = Added(@, observation)]
      /\ receipts' = receipts \/ receipts' = Written([id \in {ReceiptId(s)} |-> save[s].issuedAt], receipts)
      /\ saver[s].known => receipts' = receipts
      /\ ~saver[s].known => receipts' = Written([id \in {ReceiptId(s)} |-> save[s].issuedAt], receipts)
  BY BatchEffect
<1>2. Lifecycle!Adds(tx, observation) \/ Lifecycle!Has(tx, observation)
  <2>1. CASE \E k \in DOMAIN history[tx] : history[tx][k] = observation
    <3>1. history' = [history EXCEPT ![tx] = history[tx]]
      BY <1>1, <2>1 DEF Added
    <3>2. history' = history
      BY <3>1 DEF EvidenceTypes
    <3> QED
      BY <2>1, <3>2 DEF Lifecycle!Has
  <2>2. CASE ~\E k \in DOMAIN history[tx] : history[tx][k] = observation
    <3>1. history' = [history EXCEPT ![tx] = Append(history[tx], observation)]
      BY <1>1, <2>2 DEF Added
    <3> QED
      BY <3>1 DEF Lifecycle!Adds
  <2> QED
    BY <2>1, <2>2
<1>3. ReceiptId(s) \in DOMAIN receipts' /\ DOMAIN receipts' = DOMAIN receipts \cup {ReceiptId(s)}
  <2>1. saver[s].known => Stored(s)
    BY DEF EvidenceInv, SaveOK, Own
  <2> QED
    BY <1>1, <2>1 DEF Stored, Written
<1>4. {Receipt(id) : id \in DOMAIN receipts'} = {Receipt(id) : id \in DOMAIN receipts} \cup {Receipt(ReceiptId(s))}
  BY <1>3
<1>5. Receipt(ReceiptId(s)) = [authorization |-> i, tx |-> tx, observation |-> observation,
                               association |-> association]
  BY DEF Receipt, ReceiptId, Claims
<1> QED
  BY <1>2, <1>4, <1>5 DEF Lifecycle!Record, Receipt

\* A batch that matched is one step of the life cycle.
LEMMA BatchIsEvidence ==
  ASSUME StoreInv, EvidenceTypes, EvidenceInv, Grown, NEW s \in Savers, SaveBatch(s), Matched(s), save' = save
  PROVE  Lifecycle!LifecycleNext
<1>1. PICK i, tx, observation, association :
        /\ i = Subject(s) /\ tx = Tx(s) /\ observation = Observation(s)
        /\ association = IF Claims(s) THEN "FINAL" ELSE "UNRELATED"
  OBVIOUS
<1>2. /\ tx \in TxHashes /\ tx # None /\ i \in Ids \cup {None} /\ observation \in Observations
      /\ Claims(s) => i \in Ids /\ observation.status \in {"CONFIRMED", "REVERTED"}
  BY <1>1, Presents
<1>3. /\ Lifecycle!Adds(tx, observation) \/ Lifecycle!Has(tx, observation)
      /\ Lifecycle!Record(i, tx, observation, association)
  BY <1>1, BatchRecords
<1>4. CASE Claims(s)
  <2>1. Accepted(i) /\ authorization[i].tx \in {None, tx} /\ i \in Ids
    BY <1>1, <1>2, <1>4 DEF Matched
  <2>2. Status(i) = "ACCEPTED" \/ Bound(i) = tx
    BY <2>1 DEF Status, Bound
  <2>3. ASSUME NEW j \in Ids
        PROVE  /\ Status(j)' = IF j = i THEN "BOUND" ELSE Status(j)
               /\ Bound(j)' = IF j = i THEN tx ELSE Bound(j)
    <3>1. CASE authorization[i].tx = None
      <4>1. Bind(i, tx)
        BY <1>1, <1>4, <3>1, BatchEffect
      <4>2. BindWrites(i, tx)
        BY <1>2, <2>1, <4>1, BindEffect
      <4>3. tx # None
        BY <1>2
      <4>4. /\ i \in DOMAIN authorization' /\ authorization'[i].tx = tx
            /\ DOMAIN authorization' = DOMAIN authorization
            /\ j # i /\ j \in DOMAIN authorization => authorization'[j] = authorization[j]
        BY <4>2 DEF BindWrites
      <4>5. CASE j = i
        BY <4>3, <4>4, <4>5 DEF Status, Bound, Accepted
      <4>6. CASE j # i
        BY <4>4, <4>6 DEF Status, Bound, Accepted
      <4> QED
        BY <4>5, <4>6
    <3>2. CASE authorization[i].tx = tx
      <4>1. authorization' = authorization
        BY <1>1, <1>2, <3>2, BatchEffect
      <4> QED
        BY <1>2, <2>1, <3>2, <4>1 DEF Status, Bound, Accepted
    <3> QED
      BY <2>1, <3>1, <3>2
  <2>4. /\ [j \in Ids |-> Status(j)'] = [[j \in Ids |-> Status(j)] EXCEPT ![i] = "BOUND"]
        /\ [j \in Ids |-> Bound(j)'] = [[j \in Ids |-> Bound(j)] EXCEPT ![i] = tx]
    BY <2>1, <2>3
  <2>5. Lifecycle!Record(i, tx, observation, "FINAL")
    BY <1>1, <1>3, <1>4
  <2>6. Lifecycle!Consume(i, tx, observation)
    BY <1>2, <1>4, <2>1, <2>2, <2>4, <2>5 DEF Lifecycle!Consume, Lifecycle!FinalStatuses, Bound
  <2> QED
    BY <1>2, <1>3, <2>1, <2>6 DEF Lifecycle!LifecycleNext
<1>5. CASE ~Claims(s)
  <2>1. authorization' = authorization /\ association = "UNRELATED"
    BY <1>1, <1>5, BatchEffect
  <2>2. Lifecycle!RecordEvidence(i, tx, observation, association)
    BY <1>3, <2>1 DEF Lifecycle!RecordEvidence, Status, Accepted
  <2> QED
    BY <1>2, <1>3, <2>1, <2>2 DEF Lifecycle!LifecycleNext
<1> QED
  BY <1>4, <1>5

\* A commit is the acceptance of its authorization.
LEMMA CommitIsAcceptance ==
  ASSUME StoreInv, NEW d \in Signed, NEW at \in Times, Accept(d, at), UNCHANGED evidence
  PROVE  Lifecycle!AcceptAuthorization(Id[d])
<1> DEFINE i == Id[d]
<1>1. AcceptWrites(d, at)
  BY AcceptEffect
<1>2. i \in Ids /\ ~Accepted(i) /\ authorization'[i].tx = None
  BY <1>1 DEF AcceptWrites, Record, Accepted
<1>3. \A j \in Ids : Status(j)' = IF j = i THEN "ACCEPTED" ELSE Status(j)
  BY <1>1, <1>2 DEF AcceptWrites, Status, Accepted
<1>4. \A j \in Ids : Bound(j)' = Bound(j)
  BY <1>1, <1>2 DEF AcceptWrites, Bound, Accepted
<1> HIDE DEF i
<1>5. [j \in Ids |-> Status(j)'] = [[j \in Ids |-> Status(j)] EXCEPT ![i] = "ACCEPTED"]
  BY <1>2, <1>3
<1>6. Status(i) = "ABSENT"
  BY <1>2 DEF Status
<1>7. Lifecycle!AcceptAuthorization(i)
  BY <1>2, <1>4, <1>5, <1>6 DEF Lifecycle!AcceptAuthorization, Bound, evidence
<1> QED
  BY <1>7 DEF i

\* Every step is one step of the life cycle or a stutter.
LEMMA EvidenceStepImplements ==
  ASSUME StoreInv, DraftInv, EvidenceTypes, EvidenceInv, [EvidenceNext]_evidenceVars
  PROVE  [Lifecycle!LifecycleNext]_(Lifecycle!lifecycleVars)
<1>1. Grown /\ save' = save
  BY EvidenceGrows DEF EvidenceNext, AcceptStep, ObserveStep, evidenceVars
<1>2. ASSUME UNCHANGED <<authorization, evidence>> PROVE UNCHANGED Lifecycle!lifecycleVars
  BY <1>2 DEF Lifecycle!lifecycleVars, evidence, Status, Accepted
<1>3. ASSUME NEW r \in Requests, AcceptStep(r) PROVE [Lifecycle!LifecycleNext]_(Lifecycle!lifecycleVars)
  <2>1. Step(r) /\ UNCHANGED evidence
    BY <1>3 DEF AcceptStep, evidence
  <2>2. CASE Commit(r)
    <3>1. Document(r) \in Signed /\ load[r].time \in Times /\ IdOf(r) \in Ids
      BY Loaded DEF DraftInv
    <3>2. Lifecycle!AcceptAuthorization(IdOf(r))
      BY <2>1, <2>2, <3>1, CommitIsAccept, CommitIsAcceptance DEF IdOf
    <3> QED
      BY <3>1, <3>2 DEF Lifecycle!LifecycleNext
  <2>3. CASE ~Commit(r)
    BY <1>2, <2>1, <2>3, StatementsRead DEF storeVars
  <2> QED
    BY <2>2, <2>3
<1>4. ASSUME NEW s \in Savers, SaveStep(s) PROVE [Lifecycle!LifecycleNext]_(Lifecycle!lifecycleVars)
  <2>1. CASE SaveBatch(s) /\ Matched(s)
    BY <1>1, <2>1, BatchIsEvidence
  <2>2. CASE ~(SaveBatch(s) /\ Matched(s))
    BY <1>2, <1>4, <2>2, BatchEffect, SaverReads DEF storeVars, evidence
  <2> QED
    BY <2>1, <2>2
<1>5. ASSUME (\E s \in Savers : SaverCrash(s)) \/ UNCHANGED evidenceVars
      PROVE  UNCHANGED <<authorization, evidence>>
  BY <1>5 DEF SaverCrash, storeVars, evidenceVars, evidence
<1>6. ASSUME (\E r \in Requests : Crash(r)) \/ (\E i \in Presented : OtherIntent(i)),
             UNCHANGED <<load, history, receipts, save, saver>>
      PROVE  UNCHANGED <<authorization, evidence>>
  BY <1>6 DEF Crash, OtherIntent, SaveIntent, storeVars, evidence
<1> QED
  BY <1>2, <1>3, <1>4, <1>5, <1>6 DEF EvidenceNext, ObserveStep

\* The statements of both kinds of calls implement the indivisible store and the life
\* cycle of the evidence.
THEOREM TablesImplemented == EvidenceSpec => ImplementsTables
<1>1. EvidenceSpec => ImplementsStore
  BY SaversAreObservers, D1Implements
<1>2. EvidenceInit => Lifecycle!LifecycleInit
  BY DEF EvidenceInit, RequestsInit, Init, Lifecycle!LifecycleInit, Status, Accepted
<1>3. StoreInv /\ DraftInv /\ EvidenceTypes /\ EvidenceInv /\ [EvidenceNext]_evidenceVars
        => [Lifecycle!LifecycleNext]_(Lifecycle!lifecycleVars)
  BY EvidenceStepImplements
<1>4. EvidenceSpec => Lifecycle!LifecycleSpec
  BY <1>2, <1>3, EvidenceInvHolds, SaversAreObservers, RequestsInvHold, PTL
     DEF EvidenceSpec, Lifecycle!LifecycleSpec
<1> QED
  BY <1>1, <1>4 DEF ImplementsTables, ImplementsLifecycle
===============================================================================
