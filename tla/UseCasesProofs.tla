---------------------------- MODULE UseCasesProofs ----------------------------
(***************************************************************************)
(* The use cases, proved for any number of requests, keys, endpoints and   *)
(* transactions: they use the store only through its methods, they         *)
(* implement the life cycle of the evidence, reorganizations are flagged,  *)
(* and what they answer is backed by the tables.                           *)
(*                                                                         *)
(* The invariant says what a request knows at each await: the observations *)
(* it has read are still there, in the places where it read them, and what *)
(* it made of the chain's answer agrees with the one it compared it with.  *)
(***************************************************************************)
EXTENDS UseCases, AuthorizationStoreProofs, WellFoundedInduction

Observations == [status : Observer!Statuses, block : Blocks \cup {None},
                 replaced : Blocks \cup {None}, at : 0..MaxTime]
Recorded == [observation : Observations, read : Nat]

\* What was made of the chain's answer agrees with the observation it was compared with.
Sound(entry, past) ==
  entry.read > 0 /\ Contradicts(entry.observation, past[entry.read].observation)
    => entry.observation.status = "REORGED"

HistoryInv(tx) ==
  /\ history[tx] \in Seq(Recorded)
  /\ \A k \in 1..Len(history[tx]) : history[tx][k].read \in 0..(k - 1) /\ Sound(history[tx][k], history[tx])

DraftInv(r) ==
  /\ pc[r] \in {"check", "commit"} => Kind(r) = "authorize" /\ draft[r] \in Times
  /\ pc[r] \in {"read", "observe"} => Kind(r) = "observe"
  /\ Kind(r) = "observe" /\ pc[r] \in {"observe", "save"} => Subject(r) \in DOMAIN authorization \cup {None}
  /\ pc[r] = "observe" => draft[r] \in 0..Len(history[Tx(r)])
  /\ Kind(r) = "observe" /\ pc[r] = "save" =>
       /\ draft[r] \in Recorded
       /\ draft[r].read \in 0..Len(history[Tx(r)])
       /\ Sound(draft[r], history[Tx(r)])

RequestsInv ==
  /\ script \in Scripts
  /\ now \in 0..MaxTime
  /\ pc = [r \in Requests |-> pc[r]]
  /\ draft = [r \in Requests |-> draft[r]]
  /\ history = [tx \in TxHashes |-> history[tx]]
  /\ authorization = [i \in DOMAIN authorization |-> authorization[i]]
  /\ \A tx \in TxHashes : HistoryInv(tx)
  /\ \A r \in Requests : DraftInv(r)

-------------------------------------------------------------------------------
(* Operators *)

\* A request asks for what its kind asks for.
LEMMA Ordered ==
  ASSUME script \in Scripts, NEW r \in Requests
  PROVE  /\ Kind(r) \in Kinds
         /\ Kind(r) = "create" => script[r].intent \in Ids
         /\ Kind(r) = "authorize" => script[r].signed \in Signed /\ Asked(r) \in Ids
         /\ Kind(r) = "observe" => Subject(r) \in Ids \cup {None} /\ Tx(r) \in TxHashes
<1>1. script[r] \in Orders
  BY UseCaseAssumption
<1>2. CASE script[r] \in [kind : {"create"}, key : Keys \cup {None}, intent : Ids]
  BY <1>2 DEF Kind, Kinds
<1>3. CASE script[r] \in [kind : {"authorize"}, key : Keys \cup {None}, signed : Signed]
  BY <1>3 DEF Kind, Kinds, Asked, Ids
<1>4. CASE script[r] \in [kind : {"observe"}, key : Keys \cup {None},
                          authorization : Ids \cup {None}, tx : TxHashes]
  BY <1>4 DEF Kind, Kinds, Subject, Tx
<1> QED
  BY <1>1, <1>2, <1>3, <1>4 DEF Orders

\* Of the endpoints that show a transaction mined there is a first.
LEMMA FirstMined ==
  ASSUME NEW answers \in [1..Endpoints -> Answers],
         \E k \in DOMAIN answers : Observer!Mined(answers[k])
  PROVE  /\ Observer!FirstMinedOf(answers) \in 1..Endpoints
         /\ Observer!Mined(answers[Observer!FirstMinedOf(answers)])
<1> DEFINE T == {k \in 1..Endpoints : Observer!Mined(answers[k])}
<1>1. T \subseteq Nat /\ T # {}
  OBVIOUS
<1>2. PICK k \in T : \A j \in T : ~(<<j, k>> \in OpToRel(<, Nat))
  BY <1>1, NatLessThanWellFounded, WFMin
<1>3. \A j \in T : ~(j < k)
  BY <1>1, <1>2 DEF OpToRel
<1>4. \A j \in 1..(k - 1) : ~Observer!Mined(answers[j])
  BY <1>1, <1>3, UseCaseAssumption
<1>5. \E first \in DOMAIN answers :
        Observer!Mined(answers[first]) /\ \A j \in 1..(first - 1) : ~Observer!Mined(answers[j])
  BY <1>4
<1> HIDE DEF T
<1> QED
  BY <1>5 DEF Observer!FirstMinedOf

\* What is seen of a transaction has a status and perhaps a block, or nothing is.
LEMMA Sighting ==
  ASSUME NEW seen \in Sightings, seen # None
  PROVE  seen \in [status : Observer!Statuses, block : Blocks \cup {None}]
<1>1. PICK answers \in [1..Endpoints -> Answers] : seen = Observer!observeEvm(answers)
  BY DEF Sightings
<1>2. CASE \E k \in DOMAIN answers : Observer!Mined(answers[k])
  <2> DEFINE answer == answers[Observer!FirstMinedOf(answers)]
  <2>1. answer \in Observer!EndpointAnswers /\ answer.block # None
    BY <1>2, FirstMined, UseCaseAssumption DEF Observer!Mined
  <2>2. seen = Observer!Observation(Observer!MinedStatus[answer.kind], answer.block)
    BY <1>1, <1>2 DEF Observer!observeEvm
  <2>3. answer.kind \in {"reverted", "successful", "shallow", "orphaned"} /\ answer.block \in Blocks
    BY <2>1 DEF Observer!EndpointAnswers
  <2> HIDE DEF answer
  <2>4. Observer!MinedStatus[answer.kind] \in Observer!Statuses
    BY <2>3 DEF Observer!MinedStatus, Observer!Statuses
  <2> QED
    BY <2>2, <2>3, <2>4 DEF Observer!Observation
<1>3. CASE ~\E k \in DOMAIN answers : Observer!Mined(answers[k])
  BY <1>1, <1>3 DEF Observer!observeEvm, Observer!Observation, Observer!Statuses
<1> QED
  BY <1>2, <1>3

\* A recorded final association comes with a final status.
LEMMA FinalStatus ==
  ASSUME NEW i, NEW tx, NEW observation \in Observations,
         classifyAuthorizationAssociation(i, tx, observation) = "FINAL"
  PROVE  i # None /\ observation.status \in {"CONFIRMED", "REVERTED"}
BY DEF classifyAuthorizationAssociation, Observations, Observer!Statuses

-------------------------------------------------------------------------------
(* What every step leaves in place *)

\* The tables only grow: no acceptance and no observation is taken back.
Grown ==
  /\ DOMAIN authorization \subseteq DOMAIN authorization'
  /\ \A tx \in TxHashes :
       /\ Len(history'[tx]) \in Nat /\ Len(history[tx]) <= Len(history'[tx])
       /\ \A k \in 1..Len(history[tx]) : history'[tx][k] = history[tx][k]

\* A step of one request moves no other.
LEMMA OthersKept ==
  ASSUME RequestsInv, NEW r \in Requests, Step(r)
  PROVE  /\ \A q \in Requests : q # r => pc'[q] = pc[q] /\ draft'[q] = draft[q]
         /\ pc' = [q \in Requests |-> pc'[q]] /\ draft' = [q \in Requests |-> draft'[q]]
<1>1. \E label, value : Goto(r, label) /\ Keep(r, value)
  BY DEF Step, Start, Reserve, Replay, SaveCreated, Check, EvidenceFails, Commit, Read, Observe,
         SaveObserved, Stop, Refuse, Answer, Continue
<1> QED
  BY <1>1 DEF Goto, Keep, RequestsInv

\* A request that does not move keeps what it knows.
LEMMA IdleDraft ==
  ASSUME RequestsInv, Grown, NEW r \in Requests, UNCHANGED script,
         pc'[r] = pc[r], draft'[r] = draft[r]
  PROVE  DraftInv(r)'
<1>1. DraftInv(r) /\ Kind(r)' = Kind(r) /\ Subject(r)' = Subject(r) /\ Tx(r)' = Tx(r)
  BY DEF RequestsInv, Kind, Subject, Tx
<1>2. CASE Kind(r) = "observe"
  <2> DEFINE tx == Tx(r)
  <2>1. tx \in TxHashes /\ Len(history[tx]) \in Nat
    BY <1>2, Ordered DEF RequestsInv, HistoryInv
  <2>2. /\ Len(history'[tx]) \in Nat /\ Len(history[tx]) <= Len(history'[tx])
        /\ \A k \in 1..Len(history[tx]) : history'[tx][k] = history[tx][k]
    BY <2>1 DEF Grown
  <2>3. ASSUME pc[r] = "save"
        PROVE  draft[r].read \in 0..Len(history'[tx]) /\ Sound(draft[r], history'[tx])
    <3>1. draft[r].read \in 0..Len(history[tx]) /\ Sound(draft[r], history[tx])
      BY <1>1, <1>2, <2>3 DEF DraftInv
    <3>2. draft[r].read > 0 => history'[tx][draft[r].read] = history[tx][draft[r].read]
      BY <2>1, <2>2, <3>1
    <3> QED
      BY <2>1, <2>2, <3>1, <3>2 DEF Sound
  <2>4. pc[r] = "observe" => draft[r] \in 0..Len(history'[tx])
    BY <1>1, <2>1, <2>2 DEF DraftInv
  <2>5. DOMAIN authorization \subseteq DOMAIN authorization'
    BY DEF Grown
  <2> QED
    BY <1>1, <1>2, <2>3, <2>4, <2>5 DEF DraftInv
<1>3. CASE Kind(r) # "observe"
  BY <1>1, <1>3 DEF DraftInv
<1> QED
  BY <1>2, <1>3

\* A request that has ended, or goes on to reserve its answer, has nothing to keep.
LEMMA DoneDraft ==
  ASSUME RequestsInv, NEW r \in Requests, UNCHANGED script,
         \/ pc'[r] \in Ended \cup {"reserve"}
         \/ Kind(r) = "create" /\ pc'[r] = "save"
  PROVE  DraftInv(r)'
BY DEF DraftInv, Ended, Kind

-------------------------------------------------------------------------------
(* The steps of one request *)

\* A request that is not replayed starts with the time, or its intent.
LEMMA StartDraft ==
  ASSUME RequestsInv, NEW r \in Requests, Start(r), UNCHANGED script
  PROVE  DraftInv(r)'
<1>1. CASE Replay(r)
  BY <1>1, DoneDraft DEF Replay, Answer, Refuse, Goto, Ended, RequestsInv
<1>2. CASE Continue(r, First[Kind(r)], Opening(r))
  <2>1. pc'[r] = First[Kind(r)] /\ draft'[r] = Opening(r) /\ Kind(r)' = Kind(r)
    BY <1>2 DEF Continue, Goto, Keep, RequestsInv, Kind
  <2>2. Kind(r) \in Kinds /\ now \in Times
    BY Ordered, UseCaseAssumption DEF RequestsInv
  <2> QED
    BY <2>1, <2>2 DEF DraftInv, First, Opening, Kinds
<1> QED
  BY <1>1, <1>2 DEF Start

\* Only createIntent has something left to do once its answer is reserved.
LEMMA ReserveDraft ==
  ASSUME RequestsInv, NEW r \in Requests, Reserve(r), UNCHANGED script
  PROVE  DraftInv(r)'
<1>1. pc'[r] \in Ended \/ pc'[r] = NextAfterReserve(r)
  BY DEF Reserve, Replay, Answer, Refuse, Goto, RequestsInv, Ended
<1> QED
  BY <1>1, DoneDraft DEF NextAfterReserve, Ended

\* authorizeIntent keeps the time it was asked at until it commits.
LEMMA AuthorizeDraft ==
  ASSUME RequestsInv, NEW r \in Requests, Check(r) \/ EvidenceFails(r) \/ Commit(r), UNCHANGED script
  PROVE  DraftInv(r)'
<1>1. \/ pc'[r] \in Ended \cup {"reserve"}
      \/ pc[r] = "check" /\ pc'[r] = "commit" /\ draft'[r] = draft[r]
  BY DEF Check, EvidenceFails, Commit, Answer, Refuse, Continue, Goto, Keep, RequestsInv, Ended
<1>2. CASE pc[r] = "check" /\ pc'[r] = "commit" /\ draft'[r] = draft[r]
  BY <1>2 DEF RequestsInv, DraftInv, Kind
<1> QED
  BY <1>1, <1>2, DoneDraft

\* The observation that is read is on record.
LEMMA ReadDraft ==
  ASSUME RequestsInv, NEW r \in Requests, Read(r), UNCHANGED script
  PROVE  DraftInv(r)'
<1>1. CASE Refuse(r)
  BY <1>1, DoneDraft DEF Refuse, Goto, RequestsInv, Ended
<1>2. CASE /\ Subject(r) # None => Accepted(Subject(r))
           /\ Continue(r, "observe", Len(history[Tx(r)]))
  <2>1. pc'[r] = "observe" /\ draft'[r] = Len(history[Tx(r)])
    BY <1>2 DEF Continue, Goto, Keep, RequestsInv
  <2>2. Kind(r) = "observe" /\ Tx(r) \in TxHashes
    BY Ordered DEF Read, RequestsInv, DraftInv
  <2>3. Len(history[Tx(r)]) \in Nat
    BY <2>2 DEF RequestsInv, HistoryInv
  <2>4. authorization' = authorization /\ history' = history
    BY DEF Read, storeVars, evidence
  <2> QED
    BY <1>2, <2>1, <2>2, <2>3, <2>4 DEF DraftInv, Accepted, Kind, Subject, Tx
<1> QED
  BY <1>1, <1>2 DEF Read

\* An observation is compared with the one that was read.
LEMMA ObserveDraft ==
  ASSUME RequestsInv, NEW r \in Requests, Observe(r), UNCHANGED script
  PROVE  DraftInv(r)'
<1>1. PICK seen \in Sightings :
        IF seen = None THEN Refuse(r)
        ELSE Continue(r, "save", [observation |-> Assessed(r, seen), read |-> draft[r]])
  BY DEF Observe
<1>2. CASE seen = None
  BY <1>1, <1>2, DoneDraft DEF Refuse, Goto, RequestsInv, Ended
<1>3. CASE seen # None
  <2> DEFINE past == history[Tx(r)]
             entry == [observation |-> Assessed(r, seen), read |-> draft[r]]
  <2>1. pc'[r] = "save" /\ draft'[r] = entry
    BY <1>1, <1>3 DEF Continue, Goto, Keep, RequestsInv
  <2>2. Kind(r) = "observe" /\ Tx(r) \in TxHashes /\ draft[r] \in 0..Len(past)
    BY Ordered DEF Observe, RequestsInv, DraftInv
  <2>3. past \in Seq(Recorded)
    BY <2>2 DEF RequestsInv, HistoryInv
  <2>4. seen \in [status : Observer!Statuses, block : Blocks \cup {None}]
    BY <1>3, Sighting
  <2>5. draft[r] # 0 => past[draft[r]].observation \in Observations
    <3> HIDE DEF past
    <3> SUFFICES ASSUME draft[r] # 0 PROVE past[draft[r]].observation \in Observations
      OBVIOUS
    <3>1. draft[r] \in 1..Len(past)
      BY <2>2, <2>3
    <3>2. past[draft[r]] \in Recorded
      BY <2>3, <3>1
    <3> QED
      BY <3>2 DEF Recorded
  <2>6. entry \in Recorded
    <3>1. Assessed(r, seen) \in Observations
      <4> DEFINE previous == IF draft[r] = 0 THEN [block |-> None] ELSE past[draft[r]].observation
                 reorg == detectReorg(previous, seen)
      <4>1. previous.block \in Blocks \cup {None}
        BY <2>5 DEF Observations
      <4>2. Assessed(r, seen) = [status |-> IF reorg THEN "REORGED" ELSE seen.status, block |-> seen.block,
                                 replaced |-> IF reorg THEN previous.block ELSE None, at |-> now]
        BY DEF Assessed
      <4>3. now \in 0..MaxTime /\ "REORGED" \in Observer!Statuses
        BY DEF RequestsInv, Observer!Statuses
      <4> HIDE DEF previous, reorg
      <4> QED
        BY <2>4, <4>1, <4>2, <4>3 DEF Observations
    <3> QED
      BY <2>2, <3>1 DEF Recorded
  <2>7. Sound(entry, past)
    <3> SUFFICES ASSUME draft[r] > 0, Contradicts(Assessed(r, seen), past[draft[r]].observation)
                 PROVE  Assessed(r, seen).status = "REORGED"
      BY DEF Sound
    <3> DEFINE previous == past[draft[r]].observation
    <3>1. previous = IF draft[r] = 0 THEN [block |-> None] ELSE past[draft[r]].observation
      BY <2>2
    <3>2. /\ Assessed(r, seen).status = IF detectReorg(previous, seen) THEN "REORGED" ELSE seen.status
          /\ Assessed(r, seen).block = seen.block
      BY <3>1 DEF Assessed
    <3>3. ~detectReorg(previous, seen) => ~Contradicts(Assessed(r, seen), previous)
      BY <3>2 DEF detectReorg, Contradicts
    <3> HIDE DEF previous
    <3> QED
      BY <3>2, <3>3 DEF previous
  <2>8. /\ authorization' = authorization /\ history' = history
        /\ Kind(r)' = Kind(r) /\ Subject(r)' = Subject(r) /\ Tx(r)' = Tx(r)
    BY DEF Observe, storeVars, evidence, Kind, Subject, Tx
  <2>9. Subject(r) \in DOMAIN authorization \cup {None}
    BY <2>2 DEF Observe, RequestsInv, DraftInv
  <2> HIDE DEF past, entry
  <2>10. entry.read = draft[r]
    BY DEF entry
  <2> QED
    BY <2>1, <2>2, <2>6, <2>7, <2>8, <2>9, <2>10 DEF DraftInv, past
<1> QED
  BY <1>2, <1>3

-------------------------------------------------------------------------------
(* Recording an observation *)

\* What saveObservationReceipt writes for r.
SaveWrites(r) ==
  /\ IF Claims(r) THEN authorization' = [authorization EXCEPT ![Subject(r)].tx = Tx(r)]
                  ELSE UNCHANGED authorization
  /\ history' = [history EXCEPT ![Tx(r)] = Append(@, draft[r])]
  /\ \E issuedAt \in IssueTimes(r) :
       receipts' = Written([id \in {ReceiptId(r)} |-> issuedAt], receipts)
  /\ UNCHANGED <<log, nodes, intents>>
  /\ ~ClaimRefused(r)
  /\ pc'[r] = "reserve"

\* A request refused at the end writes nothing.
LEMMA SaveEffect ==
  ASSUME RequestsInv, NEW r \in Requests, SaveObserved(r)
  PROVE  /\ Kind(r) = "observe" /\ Tx(r) \in TxHashes /\ Subject(r) \in Ids \cup {None}
         /\ draft[r] \in Recorded /\ draft[r].observation \in Observations
         /\ history[Tx(r)] \in Seq(Recorded)
         /\ draft[r].read \in 0..Len(history[Tx(r)]) /\ Sound(draft[r], history[Tx(r)])
         /\ \/ SaveWrites(r)
            \/ UNCHANGED <<storeVars, evidence>> /\ pc'[r] = "refused"
<1>1. Kind(r) = "observe" /\ pc[r] = "save"
  BY DEF SaveObserved
<1>2. Tx(r) \in TxHashes /\ Subject(r) \in Ids \cup {None}
  BY <1>1, Ordered DEF RequestsInv
<1>3. draft[r] \in Recorded /\ draft[r].read \in 0..Len(history[Tx(r)]) /\ Sound(draft[r], history[Tx(r)])
  BY <1>1 DEF RequestsInv, DraftInv
<1>4. history[Tx(r)] \in Seq(Recorded)
  BY <1>2 DEF RequestsInv, HistoryInv
<1>5. SaveWrites(r) \/ (UNCHANGED <<storeVars, evidence>> /\ pc'[r] = "refused")
  BY DEF SaveObserved, SaveWrites, Refuse, Continue, Goto, RequestsInv
<1> QED
  BY <1>1, <1>2, <1>3, <1>4, <1>5 DEF Recorded

\* A final observation is of an authorization that was accepted and not bound elsewhere.
LEMMA ClaimEffect ==
  ASSUME RequestsInv, StoreInv, NEW r \in Requests, SaveObserved(r), SaveWrites(r), Claims(r)
  PROVE  /\ Subject(r) \in Ids /\ Accepted(Subject(r))
         /\ draft[r].observation.status \in {"CONFIRMED", "REVERTED"}
         /\ \/ Bind(Subject(r), Tx(r))
            \/ authorization[Subject(r)].tx = Tx(r) /\ authorization' = authorization
<1> DEFINE i == Subject(r)
<1>1. draft[r].observation \in Observations /\ i \in Ids \cup {None}
  BY SaveEffect
<1>2. i # None /\ draft[r].observation.status \in {"CONFIRMED", "REVERTED"}
  BY <1>1, FinalStatus DEF Claims
<1>3. i \in Ids /\ Accepted(i)
  BY <1>1, <1>2 DEF SaveObserved, RequestsInv, DraftInv, Accepted
<1>4. authorization' = [authorization EXCEPT ![i].tx = Tx(r)] /\ UNCHANGED <<log, nodes, intents>>
  BY DEF SaveWrites
<1>5. authorization[i].tx \in {None, Tx(r)}
  BY DEF SaveWrites, ClaimRefused
<1>6. CASE authorization[i].tx = None
  BY <1>2, <1>3, <1>4, <1>6 DEF Bind, Bindable
<1>7. CASE authorization[i].tx = Tx(r)
  <2>1. authorization[i] = [Record(log[authorization[i].sequence]) EXCEPT !.tx = authorization[i].tx]
    BY <1>3 DEF StoreInv, RecordsInv, RecordInv, Accepted
  <2>2. [authorization[i] EXCEPT !.tx = Tx(r)] = authorization[i]
    BY <1>7, <2>1 DEF Record
  <2>3. authorization = [j \in DOMAIN authorization |-> authorization[j]]
    BY DEF RequestsInv
  <2> HIDE DEF i
  <2>4. authorization' = authorization
    BY <1>3, <1>4, <2>2, <2>3 DEF Accepted
  <2> QED
    BY <1>2, <1>3, <1>7, <2>4 DEF i
<1> QED
  BY <1>5, <1>6, <1>7

\* The history of one transaction gains one entry that agrees with what it was compared with.
LEMMA SaveHistory ==
  ASSUME RequestsInv, NEW r \in Requests, SaveObserved(r), SaveWrites(r)
  PROVE  /\ history' = [tx \in TxHashes |-> history'[tx]]
         /\ \A tx \in TxHashes : HistoryInv(tx)'
         /\ \A tx \in TxHashes \ {Tx(r)} : history'[tx] = history[tx]
         /\ history'[Tx(r)] = Append(history[Tx(r)], draft[r])
<1> DEFINE past == history[Tx(r)]
           n == Len(past)
<1>1. /\ Tx(r) \in TxHashes /\ past \in Seq(Recorded) /\ draft[r] \in Recorded
      /\ draft[r].read \in 0..n /\ Sound(draft[r], past)
  BY SaveEffect
<1>2. /\ history' = [tx \in TxHashes |-> history'[tx]]
      /\ history'[Tx(r)] = Append(past, draft[r])
      /\ \A tx \in TxHashes \ {Tx(r)} : history'[tx] = history[tx]
  BY <1>1 DEF SaveWrites, RequestsInv
<1>3. ASSUME NEW tx \in TxHashes, tx = Tx(r) PROVE HistoryInv(tx)'
  <2> DEFINE later == Append(past, draft[r])
  <2>0. HistoryInv(Tx(r))
    BY <1>1 DEF RequestsInv
  <2> HIDE DEF past
  <2>1. later \in Seq(Recorded) /\ Len(later) = n + 1 /\ n \in Nat
    BY <1>1
  <2>2. (\A k \in 1..n : later[k] = past[k]) /\ later[n + 1] = draft[r]
    BY <1>1
  <2> HIDE DEF later
  <2>3. ASSUME NEW k \in 1..(n + 1) PROVE later[k].read \in 0..(k - 1) /\ Sound(later[k], later)
    <3>1. CASE k = n + 1
      <4>1. draft[r].read > 0 => later[draft[r].read] = past[draft[r].read]
        BY <1>1, <2>1, <2>2
      <4> QED
        BY <1>1, <2>1, <2>2, <3>1, <4>1 DEF Sound
    <3>2. CASE k \in 1..n
      <4>1. past[k].read \in 0..(k - 1) /\ Sound(past[k], past)
        BY <2>0, <3>2 DEF HistoryInv, past
      <4>2. past[k].read > 0 => later[past[k].read] = past[past[k].read]
        BY <2>1, <2>2, <3>2, <4>1
      <4> QED
        BY <2>2, <3>2, <4>1, <4>2 DEF Sound
    <3> QED
      BY <2>1, <3>1, <3>2
  <2>4. history'[Tx(r)] = later
    BY <1>2 DEF later, past
  <2> QED
    BY <2>1, <2>3, <2>4, <1>3 DEF HistoryInv
<1>4. ASSUME NEW tx \in TxHashes \ {Tx(r)} PROVE HistoryInv(tx)'
  BY <1>2 DEF RequestsInv, HistoryInv
<1> QED
  BY <1>2, <1>3, <1>4

-------------------------------------------------------------------------------
(* Every step *)

\* The steps of a request other than the store's own methods read the tables.
LEMMA StepsRead ==
  ASSUME NEW r \in Requests, Step(r), ~SaveCreated(r), ~Commit(r), ~SaveObserved(r)
  PROVE  UNCHANGED <<storeVars, evidence>>
BY DEF Step, Start, Reserve, Check, EvidenceFails, Read, Observe, Stop

\* Every step of the use cases is one method of the store or leaves it alone.
LEMMA StepUsesStore ==
  ASSUME RequestsInv, StoreInv, [UseCasesNext]_vars
  PROVE  [Next]_storeVars
<1>1. ASSUME NEW r \in Requests, Step(r) PROVE [Next]_storeVars
  <2>1. CASE SaveCreated(r)
    BY <2>1, Ordered DEF SaveCreated, RequestsInv, Next, storeVars
  <2>2. CASE Commit(r)
    <3>1. Kind(r) = "authorize" /\ draft[r] \in Times
      BY <2>2 DEF Commit, RequestsInv, DraftInv
    <3> QED
      BY <2>2, <3>1, Ordered DEF Commit, RequestsInv, Next
  <2>3. CASE SaveObserved(r)
    <3>1. CASE SaveWrites(r) /\ Claims(r)
      <4>1. Tx(r) \in TxHashes
        BY <2>3, SaveEffect
      <4>2. UNCHANGED <<log, nodes, intents>>
        BY <3>1 DEF SaveWrites
      <4> QED
        BY <2>3, <3>1, <4>1, <4>2, ClaimEffect DEF Next, storeVars
    <3>2. CASE SaveWrites(r) /\ ~Claims(r)
      BY <3>2 DEF SaveWrites, storeVars
    <3> QED
      BY <2>3, <3>1, <3>2, SaveEffect
  <2> QED
    BY <1>1, <2>1, <2>2, <2>3, StepsRead
<1>2. CASE Tick
  BY <1>2 DEF Tick
<1>3. CASE UNCHANGED vars
  BY <1>3 DEF vars, storeVars
<1> QED
  BY <1>1, <1>2, <1>3 DEF UseCasesNext

\* No method of the store takes an acceptance back.
LEMMA AcceptancesStay ==
  ASSUME StoreInv, [Next]_storeVars,
         authorization = [i \in DOMAIN authorization |-> authorization[i]]
  PROVE  /\ DOMAIN authorization \subseteq DOMAIN authorization'
         /\ authorization' = [i \in DOMAIN authorization' |-> authorization'[i]]
<1>1. ASSUME NEW s \in Signed, NEW at \in Times, Accept(s, at)
      PROVE  DOMAIN authorization \subseteq DOMAIN authorization'
  <2>1. AcceptWrites(s, at)
    BY <1>1, AcceptEffect
  <2> QED
    BY <2>1 DEF AcceptWrites
<1>2. ASSUME NEW s \in Signed, NEW at \in Times, Accept(s, at)
      PROVE  authorization' = [i \in DOMAIN authorization' |-> authorization'[i]]
  BY <1>2 DEF Accept, Written
<1>3. ASSUME NEW i \in Ids, NEW tx \in TxHashes, Bind(i, tx)
      PROVE  /\ DOMAIN authorization' = DOMAIN authorization
             /\ authorization' = [j \in DOMAIN authorization' |-> authorization'[j]]
  BY <1>3 DEF Bind
<1> QED
  BY <1>1, <1>2, <1>3 DEF Next, SaveIntent, storeVars

\* The tables only grow, and the histories stay in order.
LEMMA StepGrows ==
  ASSUME RequestsInv, StoreInv, [UseCasesNext]_vars
  PROVE  /\ Grown
         /\ authorization' = [i \in DOMAIN authorization' |-> authorization'[i]]
         /\ history' = [tx \in TxHashes |-> history'[tx]]
         /\ \A tx \in TxHashes : HistoryInv(tx)'
<1>1. /\ DOMAIN authorization \subseteq DOMAIN authorization'
      /\ authorization' = [i \in DOMAIN authorization' |-> authorization'[i]]
  BY StepUsesStore, AcceptancesStay DEF RequestsInv
<1>2. \A tx \in TxHashes : Len(history[tx]) \in Nat
  BY DEF RequestsInv, HistoryInv
<1>3. CASE history' = history
  BY <1>1, <1>2, <1>3 DEF Grown, RequestsInv, HistoryInv
<1>4. ASSUME NEW r \in Requests, SaveObserved(r), SaveWrites(r)
      PROVE  /\ history' = [tx \in TxHashes |-> history'[tx]]
             /\ \A tx \in TxHashes : HistoryInv(tx)' /\ Len(history'[tx]) \in Nat
             /\ \A tx \in TxHashes :
                  /\ Len(history[tx]) <= Len(history'[tx])
                  /\ \A k \in 1..Len(history[tx]) : history'[tx][k] = history[tx][k]
  <2>1. /\ history[Tx(r)] \in Seq(Recorded) /\ draft[r] \in Recorded
        /\ history'[Tx(r)] = Append(history[Tx(r)], draft[r])
        /\ \A tx \in TxHashes \ {Tx(r)} : history'[tx] = history[tx]
    BY <1>4, SaveEffect, SaveHistory
  <2>2. /\ Len(history'[Tx(r)]) \in Nat /\ Len(history[Tx(r)]) <= Len(history'[Tx(r)])
        /\ \A k \in 1..Len(history[Tx(r)]) : history'[Tx(r)][k] = history[Tx(r)][k]
    <3> DEFINE past == history[Tx(r)]
               later == history'[Tx(r)]
    <3>1. past \in Seq(Recorded) /\ later = Append(past, draft[r])
      BY <2>1
    <3> HIDE DEF past, later
    <3>2. /\ Len(later) \in Nat /\ Len(past) <= Len(later)
          /\ \A k \in 1..Len(past) : later[k] = past[k]
      BY <3>1
    <3> QED
      BY <3>2 DEF past, later
  <2> QED
    BY <1>2, <1>4, <2>1, <2>2, SaveHistory
<1>5. \/ history' = history
      \/ \E r \in Requests : SaveObserved(r) /\ SaveWrites(r)
  <2>1. ASSUME NEW r \in Requests, Step(r)
        PROVE  history' = history \/ (SaveObserved(r) /\ SaveWrites(r))
    <3>1. CASE SaveCreated(r) \/ Commit(r)
      BY <3>1 DEF SaveCreated, Commit, evidence
    <3>2. CASE SaveObserved(r)
      BY <3>2, SaveEffect DEF evidence
    <3> QED
      BY <2>1, <3>1, <3>2, StepsRead DEF evidence
  <2> QED
    BY <2>1 DEF UseCasesNext, Tick, evidence, vars
<1> QED
  BY <1>1, <1>3, <1>4, <1>5 DEF Grown

\* The initial state knows nothing.
LEMMA RequestsInitInv == UseCasesInit => RequestsInv /\ StoreInv
<1> SUFFICES ASSUME UseCasesInit PROVE RequestsInv /\ StoreInv
  OBVIOUS
<1>1. \A tx \in TxHashes : HistoryInv(tx)
  BY DEF UseCasesInit, HistoryInv
<1>2. \A r \in Requests : DraftInv(r)
  BY DEF UseCasesInit, DraftInv
<1>3. authorization = [i \in DOMAIN authorization |-> authorization[i]]
  BY DEF UseCasesInit, Init
<1> QED
  BY <1>1, <1>2, <1>3, StoreInit, UseCaseAssumption DEF UseCasesInit, RequestsInv

\* What every request knows stays true, whoever moves.
LEMMA RequestsStep ==
  RequestsInv /\ StoreInv /\ [UseCasesNext]_vars => RequestsInv' /\ StoreInv'
<1> SUFFICES ASSUME RequestsInv, StoreInv, [UseCasesNext]_vars PROVE RequestsInv' /\ StoreInv'
  OBVIOUS
<1>1. StoreInv'
  BY StepUsesStore, StoreStep
<1>2. script' = script /\ now' \in 0..MaxTime
  BY UseCaseAssumption DEF UseCasesNext, Tick, vars, RequestsInv
<1>3. /\ pc' = [q \in Requests |-> pc'[q]] /\ draft' = [q \in Requests |-> draft'[q]]
      /\ \A q \in Requests : DraftInv(q)'
  <2>1. ASSUME NEW r \in Requests, Step(r)
        PROVE  /\ pc' = [q \in Requests |-> pc'[q]] /\ draft' = [q \in Requests |-> draft'[q]]
               /\ \A q \in Requests : DraftInv(q)'
    <3>1. /\ \A q \in Requests : q # r => pc'[q] = pc[q] /\ draft'[q] = draft[q]
          /\ pc' = [q \in Requests |-> pc'[q]] /\ draft' = [q \in Requests |-> draft'[q]]
      BY <2>1, OthersKept
    <3>2. \A q \in Requests : q # r => DraftInv(q)'
      BY <1>2, <3>1, IdleDraft, StepGrows
    <3>3. ASSUME SaveCreated(r) \/ Stop(r) PROVE DraftInv(r)'
      BY <1>2, <3>3, DoneDraft DEF SaveCreated, Stop, Refuse, Continue, Goto, Ended, RequestsInv
    <3>4. ASSUME SaveObserved(r) PROVE DraftInv(r)'
      BY <1>2, <3>4, DoneDraft, SaveEffect DEF SaveWrites, Ended
    <3>5. DraftInv(r)'
      BY <1>2, <2>1, <3>3, <3>4, StartDraft, ReserveDraft, AuthorizeDraft, ReadDraft, ObserveDraft
         DEF Step
    <3> QED
      BY <3>1, <3>2, <3>5
  <2>2. ASSUME pc' = pc, draft' = draft
        PROVE  /\ pc' = [q \in Requests |-> pc'[q]] /\ draft' = [q \in Requests |-> draft'[q]]
               /\ \A q \in Requests : DraftInv(q)'
    <3>1. \A q \in Requests : DraftInv(q)'
      BY <1>2, <2>2, IdleDraft, StepGrows
    <3>2. pc = [q \in Requests |-> pc[q]] /\ draft = [q \in Requests |-> draft[q]]
      BY DEF RequestsInv
    <3> QED
      BY <2>2, <3>1, <3>2
  <2>3. (\E r \in Requests : Step(r)) \/ (pc' = pc /\ draft' = draft)
    BY DEF UseCasesNext, Tick, vars
  <2> QED
    BY <2>1, <2>2, <2>3
<1> QED
  BY <1>1, <1>2, <1>3, StepGrows DEF RequestsInv

\* What every request knows is true in every reachable state.
LEMMA RequestsInvHolds == UseCasesSpec => [](RequestsInv /\ StoreInv)
<1> QED
  BY RequestsInitInv, RequestsStep, PTL DEF UseCasesSpec

-------------------------------------------------------------------------------
(* Theorems *)

\* The concurrent use cases, with whatever processes stop, use the store only
\* through its methods: every behaviour is one of the indivisible store.
THEOREM UsesStore == UseCasesSpec => Spec
<1>1. UseCasesInit => Init
  BY DEF UseCasesInit
<1>2. RequestsInv /\ StoreInv /\ [UseCasesNext]_vars => [Next]_storeVars
  BY StepUsesStore
<1> QED
  BY <1>1, <1>2, RequestsInvHolds, PTL DEF UseCasesSpec, Spec

\* So the log, the Merkle nodes, the acceptances and the first binding of each
\* authorization are final under them, and reservations stay unique.
THEOREM UseCasesKeepHistory == UseCasesSpec => HistoryIsImmutable /\ []ReservationsAreUnique
<1> QED
  BY UsesStore, HistoryImmutable, ReservationsUnique, PTL

\* An observation that contradicts the one recorded just before it is recorded as a
\* reorganization, unless its observer had read the table before that one was there.
THEOREM ReorgsFlagged == UseCasesSpec => []ReorgsAreFlagged
<1>1. RequestsInv => ReorgsAreFlagged
  <2> SUFFICES ASSUME RequestsInv, NEW tx \in TxHashes, NEW k \in DOMAIN history[tx] \ {1},
                      Contradicts(history[tx][k].observation, history[tx][k - 1].observation),
                      history[tx][k].observation.status # "REORGED"
               PROVE  history[tx][k].read < k - 1
    BY DEF ReorgsAreFlagged
  <2>1. k \in 2..Len(history[tx])
    BY DEF RequestsInv, HistoryInv
  <2>2. history[tx][k].read \in 0..(k - 1) /\ Sound(history[tx][k], history[tx])
    BY <2>1 DEF RequestsInv, HistoryInv
  <2>3. history[tx][k].read # k - 1
    BY <2>1, <2>2 DEF Sound
  <2> QED
    BY <2>1, <2>2, <2>3
<1> QED
  BY <1>1, RequestsInvHolds, PTL

-------------------------------------------------------------------------------
(* The life cycle of the evidence *)

\* What the observations of tx say, and the receipt an identifier stands for.
Versions(tx) == [k \in DOMAIN history[tx] |-> history[tx][k].observation]
Receipt(id) == [authorization |-> id[1], tx |-> id[2], observation |-> id[3],
                association |-> classifyAuthorizationAssociation(id[1], id[2], id[3])]
Association(r) == classifyAuthorizationAssociation(Subject(r), Tx(r), draft[r].observation)

\* What a sequence of entries says grows by what the new entry says.
LEMMA AppendedObservation ==
  ASSUME NEW past \in Seq(Recorded), NEW entry \in Recorded
  PROVE  LET later == Append(past, entry)
             said == [k \in DOMAIN past |-> past[k].observation]
         IN [k \in DOMAIN later |-> later[k].observation] = Append(said, entry.observation)
<1> DEFINE later == Append(past, entry)
           said == [k \in DOMAIN past |-> past[k].observation]
           n == Len(past)
<1>1. n \in Nat /\ DOMAIN past = 1..n /\ DOMAIN later = 1..(n + 1)
  OBVIOUS
<1>2. said \in Seq(Observations) /\ Len(said) = n
  <2>1. \A k \in 1..n : past[k] \in Recorded
    BY <1>1
  <2>2. \A k \in 1..n : past[k].observation \in Observations
    BY <2>1 DEF Recorded
  <2> QED
    BY <1>1, <2>2
<1>3. (\A k \in 1..n : later[k] = past[k]) /\ later[n + 1] = entry /\ entry.observation \in Observations
  BY <1>1 DEF Recorded
<1> DEFINE longer == Append(said, entry.observation)
<1>4. /\ longer \in Seq(Observations) /\ Len(longer) = n + 1
      /\ \A k \in 1..n : longer[k] = said[k]
      /\ longer[n + 1] = entry.observation
  <2> HIDE DEF said
  <2> QED
    BY <1>1, <1>2, <1>3
<1>5. \A k \in 1..n : said[k] = past[k].observation
  BY <1>1
<1>6. longer = [k \in 1..(n + 1) |-> longer[k]]
  <2> HIDE DEF longer
  <2> QED
    BY <1>4
<1>7. \A k \in 1..(n + 1) : longer[k] = later[k].observation
  <2> HIDE DEF longer, later, said
  <2> QED
    BY <1>1, <1>3, <1>4, <1>5
<1>8. [k \in DOMAIN later |-> later[k].observation] = longer
  <2> HIDE DEF longer, later, said
  <2> QED
    BY <1>1, <1>6, <1>7
<1> QED
  BY <1>8

\* The observation and its receipt are recorded in one step.
LEMMA SaveRecords ==
  ASSUME RequestsInv, NEW r \in Requests, SaveObserved(r), SaveWrites(r),
         NEW i, i = Subject(r), NEW tx, tx = Tx(r), NEW observation, observation = draft[r].observation,
         NEW association, association = Association(r)
  PROVE  /\ Lifecycle!Adds(tx, observation)
         /\ Lifecycle!Record(i, tx, observation, association)
<1>1. /\ tx \in TxHashes /\ history[tx] \in Seq(Recorded) /\ draft[r] \in Recorded
      /\ history'[tx] = Append(history[tx], draft[r])
      /\ \A t \in TxHashes \ {tx} : history'[t] = history[t]
  BY SaveEffect, SaveHistory
<1>2. ASSUME NEW t \in TxHashes
      PROVE  /\ t = tx => Versions(t)' = Append(Versions(t), observation)
             /\ t # tx => Versions(t)' = Versions(t)
  <2>1. CASE t # tx
    BY <1>1, <2>1 DEF Versions
  <2>2. CASE t = tx
    <3>1. history[t] \in Seq(Recorded) /\ history'[t] = Append(history[t], draft[r])
      BY <1>1, <2>2
    <3>2. LET later == Append(history[t], draft[r])
          IN [k \in DOMAIN later |-> later[k].observation] = Append(Versions(t), observation)
      BY <1>1, <3>1, AppendedObservation DEF Versions
    <3>3. Versions(t)' = [k \in DOMAIN history'[t] |-> history'[t][k].observation]
      BY DEF Versions
    <3> QED
      BY <2>2, <3>1, <3>2, <3>3
  <2> QED
    BY <2>1, <2>2
<1>3. [t \in TxHashes |-> Versions(t)'] =
        [[t \in TxHashes |-> Versions(t)] EXCEPT ![tx] = Append(@, observation)]
  BY <1>1, <1>2
<1>4. {Receipt(id) : id \in DOMAIN receipts'} = {Receipt(id) : id \in DOMAIN receipts} \cup {Receipt(ReceiptId(r))}
  BY DEF SaveWrites, Written
<1>5. Receipt(ReceiptId(r)) = [authorization |-> i, tx |-> tx, observation |-> observation,
                               association |-> association]
  BY DEF Receipt, ReceiptId, Association
<1>6. \A t \in TxHashes : [k \in DOMAIN history[t] |-> history[t][k].observation] = Versions(t)
  BY DEF Versions
<1>7. \A t \in TxHashes : [k \in DOMAIN history'[t] |-> history'[t][k].observation] = Versions(t)'
  BY DEF Versions
<1>8. Lifecycle!Adds(tx, observation)
  BY <1>3, <1>6, <1>7 DEF Lifecycle!Adds, Versions
<1> QED
  BY <1>4, <1>5, <1>8 DEF Lifecycle!Record, Receipt

\* The transaction that consumed an authorization.
Bound(i) == IF Accepted(i) THEN authorization[i].tx ELSE None

\* A final observation consumes its authorization, unless it has done so before.
LEMMA ClaimConsumes ==
  ASSUME RequestsInv, StoreInv, NEW r \in Requests, SaveObserved(r), SaveWrites(r), Claims(r),
         NEW i, i = Subject(r), NEW tx, tx = Tx(r), NEW observation, observation = draft[r].observation
  PROVE  Lifecycle!Consume(i, tx, observation)
<1>1. /\ i \in Ids /\ Accepted(i) /\ observation.status \in {"CONFIRMED", "REVERTED"}
      /\ Bind(i, tx) \/ (authorization[i].tx = tx /\ authorization' = authorization)
  BY ClaimEffect
<1>2. tx \in TxHashes /\ tx # None
  BY SaveEffect, SignedAssumption
<1>3. Lifecycle!Record(i, tx, observation, "FINAL")
  BY SaveRecords DEF Claims, Association
<1>4. Status(i) = "ACCEPTED" \/ Bound(i) = tx
  BY <1>1 DEF Status, Bound, Bind, Bindable
<1>5. ASSUME NEW j \in Ids
      PROVE  /\ Status(j)' = IF j = i THEN "BOUND" ELSE Status(j)
             /\ Bound(j)' = IF j = i THEN tx ELSE Bound(j)
  <2>1. CASE Bind(i, tx)
    <3>1. BindWrites(i, tx)
      BY <1>1, <1>2, <2>1, BindEffect
    <3> QED
      BY <1>2, <3>1 DEF BindWrites, Status, Bound, Accepted
  <2>2. CASE authorization[i].tx = tx /\ authorization' = authorization
    <3> QED
      BY <1>1, <1>2, <2>2 DEF Status, Bound, Accepted
  <2> QED
    BY <1>1, <2>1, <2>2
<1>6. /\ [j \in Ids |-> Status(j)'] = [[j \in Ids |-> Status(j)] EXCEPT ![i] = "BOUND"]
      /\ [j \in Ids |-> Bound(j)'] = [[j \in Ids |-> Bound(j)] EXCEPT ![i] = tx]
  BY <1>1, <1>5
<1> QED
  BY <1>1, <1>3, <1>4, <1>6 DEF Lifecycle!Consume, Lifecycle!FinalStatuses, Bound

\* The step that records an observation of r is a step of the life cycle.
LEMMA SaveIsEvidence ==
  ASSUME RequestsInv, StoreInv, NEW r \in Requests, SaveObserved(r), SaveWrites(r)
  PROVE  Lifecycle!LifecycleNext
<1>1. PICK i, tx, observation, association :
        /\ i = Subject(r) /\ tx = Tx(r) /\ observation = draft[r].observation
        /\ association = Association(r)
  OBVIOUS
<1>2. tx \in TxHashes /\ i \in Ids \cup {None} /\ observation \in Observations
  BY <1>1, SaveEffect
<1>3. /\ Lifecycle!Adds(tx, observation)
      /\ Lifecycle!Record(i, tx, observation, association)
  BY <1>1, SaveRecords
<1>4. \/ /\ association \in {"CANDIDATE", "UNRELATED", "NONE"}
         /\ Lifecycle!RecordEvidence(i, tx, observation, association)
      \/ i \in Ids /\ Lifecycle!Consume(i, tx, observation)
  <2>1. CASE Claims(r)
    BY <1>1, <2>1, ClaimConsumes, ClaimEffect
  <2>2. CASE ~Claims(r)
    <3>1. association \in {"CANDIDATE", "UNRELATED", "NONE"}
      BY <1>1, <2>2 DEF Claims, Association, classifyAuthorizationAssociation
    <3>2. authorization' = authorization
      BY <2>2 DEF SaveWrites
    <3> QED
      BY <1>3, <3>1, <3>2 DEF Lifecycle!RecordEvidence, Status, Accepted
  <2> QED
    BY <2>1, <2>2
<1> QED
  BY <1>2, <1>3, <1>4 DEF Lifecycle!LifecycleNext, Observations

\* A commit that accepts an authorization is its acceptance in the life cycle.
LEMMA CommitIsAcceptance ==
  ASSUME RequestsInv, StoreInv, NEW s \in Signed, NEW at \in Times, Accept(s, at), UNCHANGED evidence
  PROVE  Lifecycle!AcceptAuthorization(Id[s])
<1> DEFINE i == Id[s]
<1>1. AcceptWrites(s, at)
  BY AcceptEffect
<1>2. i \in Ids /\ ~Accepted(i) /\ authorization'[i].tx = None
  BY <1>1 DEF AcceptWrites, Record, Accepted
<1>3. \A j \in Ids : Status(j)' = IF j = i THEN "ACCEPTED" ELSE Status(j)
  BY <1>1, <1>2 DEF AcceptWrites, Status, Accepted
<1>4. \A j \in Ids : Bound(j)' = Bound(j)
  BY <1>1, <1>2 DEF AcceptWrites, Bound, Accepted
<1> HIDE DEF i
<1>5. [j \in Ids |-> Status(j)'] = [[j \in Ids |-> Status(j)] EXCEPT ![i] = "ACCEPTED"]
  BY <1>2, <1>3
<1>6. Status(i) = "ABSENT"
  BY <1>2 DEF Status
<1>7. Lifecycle!AcceptAuthorization(i)
  BY <1>2, <1>4, <1>5, <1>6 DEF Lifecycle!AcceptAuthorization, Bound, evidence
<1> QED
  BY <1>7 DEF i

\* A step that leaves acceptances and evidence alone is a stutter of the life cycle.
LEMMA IdleEvidence ==
  ASSUME UNCHANGED <<authorization, evidence>>
  PROVE  UNCHANGED Lifecycle!lifecycleVars
BY DEF Lifecycle!lifecycleVars, evidence, Status, Accepted

\* Every step of the use cases is one step of the life cycle or a stutter.
LEMMA StepImplementsLifecycle ==
  ASSUME RequestsInv, StoreInv, [UseCasesNext]_vars
  PROVE  [Lifecycle!LifecycleNext]_(Lifecycle!lifecycleVars)
<1>1. ASSUME NEW r \in Requests, Step(r) PROVE [Lifecycle!LifecycleNext]_(Lifecycle!lifecycleVars)
  <2>1. CASE SaveCreated(r)
    BY <2>1, IdleEvidence DEF SaveCreated, SaveIntent, storeVars
  <2>2. CASE Commit(r)
    <3>1. Kind(r) = "authorize" /\ draft[r] \in Times
      BY <2>2 DEF Commit, RequestsInv, DraftInv
    <3>2. script[r].signed \in Signed /\ Id[script[r].signed] \in Ids
      BY <3>1, Ordered DEF RequestsInv, Asked
    <3>3. UNCHANGED evidence /\ (UNCHANGED storeVars \/ Accept(script[r].signed, draft[r]))
      BY <2>2 DEF Commit
    <3>4. UNCHANGED storeVars => UNCHANGED authorization
      BY DEF storeVars
    <3> QED
      BY <3>1, <3>2, <3>3, <3>4, CommitIsAcceptance, IdleEvidence DEF Lifecycle!LifecycleNext
  <2>3. CASE SaveObserved(r)
    <3>1. UNCHANGED storeVars => UNCHANGED authorization
      BY DEF storeVars
    <3> QED
      BY <2>3, <3>1, SaveEffect, SaveIsEvidence, IdleEvidence
  <2>4. CASE ~SaveCreated(r) /\ ~Commit(r) /\ ~SaveObserved(r)
    BY <1>1, <2>4, StepsRead, IdleEvidence DEF storeVars
  <2> QED
    BY <2>1, <2>2, <2>3, <2>4
<1>2. CASE Tick \/ UNCHANGED vars
  BY <1>2, IdleEvidence DEF Tick, vars, storeVars, evidence
<1> QED
  BY <1>1, <1>2 DEF UseCasesNext

\* The use cases implement the life cycle of the evidence.
THEOREM UseCasesImplementLifecycle == UseCasesSpec => ImplementsLifecycle
<1>1. UseCasesInit => Lifecycle!LifecycleInit
  BY DEF UseCasesInit, Init, Lifecycle!LifecycleInit, Status, Accepted
<1>2. RequestsInv /\ StoreInv /\ [UseCasesNext]_vars => [Lifecycle!LifecycleNext]_(Lifecycle!lifecycleVars)
  BY StepImplementsLifecycle
<1> QED
  BY <1>1, <1>2, RequestsInvHolds, PTL DEF UseCasesSpec, ImplementsLifecycle, Lifecycle!LifecycleSpec

-------------------------------------------------------------------------------
(* What answers rest on *)

Labels == Ended \cup {"start", "reserve", "save", "check", "commit", "read", "observe"}

\* What the tables say for an answer to an order.
Backs(order, response) ==
  /\ order.kind = "authorize" => Accepted(Id[order.signed]) /\ response = Acceptance(Id[order.signed])
  /\ order.kind = "observe" =>
       /\ order.tx \in TxHashes
       /\ \E k \in 1..Len(history[order.tx]) : history[order.tx][k].observation = response
       /\ <<order.authorization, order.tx, response>> \in DOMAIN receipts
       /\ classifyAuthorizationAssociation(order.authorization, order.tx, response) = "FINAL" =>
            Accepted(order.authorization) /\ authorization[order.authorization].tx = order.tx

\* An intent is stored, or the request that reserved its answer has not saved it.
Stored(i) == intents[IntentId[i]] = IntentHash[i]
Unsaved(q, slot, order, expiresAt) ==
  /\ q \in DOMAIN reply /\ reply[q].expiresAt = expiresAt
  /\ Slot(q) = slot /\ RequestHash(q) = order
  /\ pc[q] \in {"save", "refused", "stopped"}
Promised(slot, order, expiresAt) ==
  Stored(order.intent) \/ \E q \in Requests : Unsaved(q, slot, order, expiresAt)

RecordOK(slot) ==
  /\ slot \in Kinds \X Keys
  /\ \E r \in Requests : Slot(r) = slot /\ idempotency[slot].request = RequestHash(r)
  /\ idempotency[slot].expiresAt \in Nat
  /\ Backs(idempotency[slot].request, idempotency[slot].response)
  /\ slot[1] = "create" => Promised(slot, idempotency[slot].request, idempotency[slot].expiresAt)

AnswerOK(r) ==
  /\ pc[r] \in Labels
  /\ pc[r] = "reserve" => Backs(RequestHash(r), draft[r])
  /\ Kind(r) = "create" /\ pc[r] = "save" => r \in DOMAIN reply
  /\ Answered(r) =>
       /\ r \in DOMAIN reply /\ Backs(RequestHash(r), reply[r].response)
       /\ Kind(r) = "create" => Promised(Slot(r), RequestHash(r), reply[r].expiresAt)

RepliesInv ==
  /\ \A slot \in DOMAIN idempotency : RecordOK(slot)
  /\ \A r \in Requests : AnswerOK(r)

\* The request hash keeps what a request asks.
LEMMA Hashed ==
  ASSUME script \in Scripts, NEW r \in Requests
  PROVE  /\ RequestHash(r).kind = Kind(r)
         /\ Kind(r) = "create" => RequestHash(r).intent = script[r].intent /\ script[r].intent \in Ids
         /\ Kind(r) = "authorize" => RequestHash(r).signed = script[r].signed
         /\ Kind(r) = "observe" => RequestHash(r).authorization = Subject(r) /\ RequestHash(r).tx = Tx(r)
         /\ Key(r) \in Keys \cup {None}
<1>1. script[r] \in Orders
  BY UseCaseAssumption
<1>2. CASE script[r] \in [kind : {"create"}, key : Keys \cup {None}, intent : Ids]
  BY <1>2 DEF RequestHash, Kind, Key
<1>3. CASE script[r] \in [kind : {"authorize"}, key : Keys \cup {None}, signed : Signed]
  BY <1>3 DEF RequestHash, Kind, Key
<1>4. CASE script[r] \in [kind : {"observe"}, key : Keys \cup {None},
                          authorization : Ids \cup {None}, tx : TxHashes]
  BY <1>4 DEF RequestHash, Kind, Key, Subject, Tx
<1> QED
  BY <1>1, <1>2, <1>3, <1>4 DEF Orders

\* An acceptance, a first binding and a stored intent are never replaced.
LEMMA RowsStay ==
  ASSUME StoreInv, [Next]_storeVars
  PROVE  /\ \A i \in DOMAIN authorization :
              /\ i \in DOMAIN authorization' /\ Acceptance(i)' = Acceptance(i)
              /\ authorization[i].tx # None => authorization'[i].tx = authorization[i].tx
         /\ \A i \in Ids : Stored(i) => Stored(i)'
<1>1. ASSUME NEW s \in Signed, NEW at \in Times, Accept(s, at)
      PROVE  \A i \in DOMAIN authorization : i \in DOMAIN authorization' /\ authorization'[i] = authorization[i]
  <2>1. AcceptWrites(s, at)
    BY <1>1, AcceptEffect
  <2> QED
    BY <2>1 DEF AcceptWrites
<1>2. ASSUME NEW i \in Ids, NEW tx \in TxHashes, Bind(i, tx)
      PROVE  \A j \in DOMAIN authorization :
               /\ j \in DOMAIN authorization' /\ Acceptance(j)' = Acceptance(j)
               /\ authorization[j].tx # None => authorization'[j].tx = authorization[j].tx
  <2>1. BindWrites(i, tx)
    BY <1>2, BindEffect
  <2>2. [authorization'[i] EXCEPT !.tx = None] = [authorization[i] EXCEPT !.tx = None]
    BY <2>1 DEF BindWrites, Record
  <2> QED
    BY <2>1, <2>2 DEF BindWrites, Acceptance
<1>3. ASSUME NEW s \in Signed, NEW at \in Times, Accept(s, at), NEW i \in Ids, Stored(i) PROVE Stored(i)'
  <2>1. intents' = [intents EXCEPT ![IntentId[Id[s]]] = IntentHash[Id[s]]]
    BY <1>3 DEF Accept
  <2>2. intents[IntentId[Id[s]]] \in {None, IntentHash[Id[s]]} /\ IntentHash[i] # None
    BY <1>3, SignedAssumption DEF Accept, Acceptable, IntentConflicts
  <2> QED
    BY <1>3, <2>1, <2>2 DEF Stored, StoreInv, IntentsTyped, IntentIds
<1>4. ASSUME NEW j \in Ids, SaveIntent(j), NEW i \in Ids, Stored(i) PROVE Stored(i)'
  <2>1. intents' = [intents EXCEPT ![IntentId[j]] = IntentHash[j]]
    BY <1>4 DEF SaveIntent
  <2>2. intents[IntentId[j]] \in {None, IntentHash[j]} /\ IntentHash[i] # None
    BY <1>4, SignedAssumption DEF SaveIntent, IntentConflicts
  <2> QED
    BY <1>4, <2>1, <2>2 DEF Stored, StoreInv, IntentsTyped, IntentIds
<1> QED
  BY <1>1, <1>2, <1>3, <1>4 DEF Next, SaveIntent, Bind, storeVars, Acceptance, Stored

\* What backs an answer stays.
LEMMA BacksStay ==
  ASSUME RequestsInv, StoreInv, [UseCasesNext]_vars, NEW order, NEW response, Backs(order, response)
  PROVE  Backs(order, response)'
<1>1. [Next]_storeVars /\ Grown
  BY StepUsesStore, StepGrows
<1>2. CASE order.kind = "authorize"
  <2>1. Id[order.signed] \in DOMAIN authorization
    BY <1>2 DEF Backs, Accepted
  <2>2. Accepted(Id[order.signed])' /\ Acceptance(Id[order.signed])' = Acceptance(Id[order.signed])
    BY <1>1, <2>1, RowsStay DEF Accepted
  <2> QED
    BY <1>2, <2>2 DEF Backs
<1>3. CASE order.kind = "observe"
  <2>1. DOMAIN receipts \subseteq DOMAIN receipts'
    <3>1. ASSUME NEW r \in Requests, Step(r) PROVE DOMAIN receipts \subseteq DOMAIN receipts'
      <4>1. CASE SaveObserved(r)
        BY <4>1, SaveEffect DEF SaveWrites, Written, evidence
      <4>2. CASE SaveCreated(r) \/ Commit(r)
        BY <4>2 DEF SaveCreated, Commit, evidence
      <4> QED
        BY <3>1, <4>1, <4>2, StepsRead DEF evidence
    <3> QED
      BY <3>1 DEF UseCasesNext, Tick, vars, evidence
  <2>2. PICK k \in 1..Len(history[order.tx]) : history[order.tx][k].observation = response
    BY <1>3 DEF Backs
  <2>3. order.tx \in TxHashes /\ Len(history[order.tx]) \in Nat
    BY <1>3 DEF Backs, RequestsInv, HistoryInv
  <2>4. k \in 1..Len(history'[order.tx]) /\ history'[order.tx][k].observation = response
    BY <1>1, <2>2, <2>3 DEF Grown
  <2>5. ASSUME classifyAuthorizationAssociation(order.authorization, order.tx, response) = "FINAL"
        PROVE  Accepted(order.authorization)' /\ authorization'[order.authorization].tx = order.tx
    BY <1>1, <1>3, <2>3, <2>5, RowsStay, SignedAssumption DEF Backs, Accepted
  <2> QED
    BY <1>3, <2>1, <2>3, <2>4, <2>5 DEF Backs, classifyAuthorizationAssociation
<1> QED
  BY <1>2, <1>3 DEF Backs

-------------------------------------------------------------------------------
(* Answers and idempotency records *)

\* A step leaves replies and records alone, but for r's own.
LEMMA RepliesWritten ==
  ASSUME NEW r \in Requests, Step(r)
  PROVE  /\ DOMAIN reply \subseteq DOMAIN reply'
         /\ \A q : q # r => (q \in DOMAIN reply' <=> q \in DOMAIN reply)
         /\ \A q \in DOMAIN reply : q # r => reply'[q] = reply[q]
         /\ pc[r] \notin {"start", "reserve", "check"} => reply' = reply
<1>1. \/ reply' = reply
      \/ /\ \E response, expiresAt : Respond(r, response, expiresAt)
         /\ pc[r] \in {"start", "reserve", "check"}
  BY DEF Step, Start, Reserve, Replay, SaveCreated, Check, EvidenceFails, Commit, Read, Observe,
         SaveObserved, Stop, Refuse, Answer, Continue
<1> QED
  BY <1>1 DEF Respond, Written

\* A reserved but unsaved intent is saved, or stays unsaved.
LEMMA PromiseStays ==
  ASSUME RequestsInv, StoreInv, [UseCasesNext]_vars, NEW slot, NEW order, NEW expiresAt,
         slot[1] = "create", order.intent \in Ids, Promised(slot, order, expiresAt)
  PROVE  Promised(slot, order, expiresAt)'
<1>1. CASE Stored(order.intent)
  BY <1>1, StepUsesStore, RowsStay DEF Promised
<1>2. ASSUME NEW q \in Requests, Unsaved(q, slot, order, expiresAt)
      PROVE  Promised(slot, order, expiresAt)'
  <2>0. script' = script /\ Slot(q)' = Slot(q) /\ RequestHash(q)' = RequestHash(q)
    BY DEF UseCasesNext, vars, Slot, Kind, Key, RequestHash
  <2>1. Kind(q) = "create" /\ pc[q] \in {"save", "refused", "stopped"}
    BY <1>2 DEF Unsaved, Slot
  <2>2. CASE pc'[q] = pc[q] /\ q \in DOMAIN reply' /\ reply'[q] = reply[q]
    BY <1>2, <2>0, <2>2 DEF Unsaved, Promised
  <2>3. CASE Step(q)
    <3>1. reply' = reply
      BY <2>1, <2>3, RepliesWritten
    <3>2. SaveCreated(q) \/ Stop(q)
      BY <2>1, <2>3 DEF Step, Start, Reserve, SaveCreated, Check, EvidenceFails, Commit, Read, Observe,
                        SaveObserved, Stop
    <3>3. \/ pc'[q] \in {"refused", "stopped"}
          \/ SaveIntent(script[q].intent)
      BY <3>2 DEF SaveCreated, Stop, Refuse, Continue, Goto, RequestsInv
    <3>4. CASE pc'[q] \in {"refused", "stopped"}
      BY <1>2, <2>0, <3>1, <3>4 DEF Unsaved, Promised
    <3>5. CASE SaveIntent(script[q].intent)
      <4>1. order.intent = script[q].intent
        BY <1>2, <2>1, Hashed DEF Unsaved, RequestsInv
      <4>2. Stored(order.intent)'
        BY <3>5, <4>1 DEF SaveIntent, Stored, StoreInv, IntentsTyped, IntentIds
      <4> QED
        BY <4>2 DEF Promised
    <3> QED
      BY <3>3, <3>4, <3>5
  <2>4. ASSUME NEW r \in Requests, Step(r), r # q
        PROVE  pc'[q] = pc[q] /\ q \in DOMAIN reply' /\ reply'[q] = reply[q]
    BY <1>2, <2>4, OthersKept, RepliesWritten DEF Unsaved
  <2>5. CASE UNCHANGED <<pc, reply>>
    BY <1>2, <2>2, <2>5 DEF Unsaved
  <2> QED
    BY <2>2, <2>3, <2>4, <2>5 DEF UseCasesNext, Tick, vars
<1> QED
  BY <1>1, <1>2 DEF Promised

\* A request that does not move keeps its answer and what backs it.
LEMMA IdleAnswer ==
  ASSUME RequestsInv, StoreInv, [UseCasesNext]_vars, NEW q \in Requests, AnswerOK(q),
         pc'[q] = pc[q], draft'[q] = draft[q],
         q \in DOMAIN reply => q \in DOMAIN reply' /\ reply'[q] = reply[q]
  PROVE  AnswerOK(q)'
<1>1. PICK slot, order, value, answer :
        slot = Slot(q) /\ order = RequestHash(q) /\ value = draft[q] /\ answer = reply[q]
  OBVIOUS
<1>2. /\ Slot(q)' = slot /\ RequestHash(q)' = order /\ Kind(q)' = Kind(q)
      /\ slot[1] = Kind(q)
  BY <1>1 DEF UseCasesNext, vars, Slot, Kind, Key, RequestHash
<1>3. pc[q] = "reserve" => Backs(order, value)'
  BY <1>1, BacksStay DEF AnswerOK
<1>4. ASSUME Answered(q)
      PROVE  /\ q \in DOMAIN reply' /\ Backs(order, answer.response)'
             /\ Kind(q) = "create" => Promised(slot, order, answer.expiresAt)'
  <2>1. q \in DOMAIN reply' /\ Backs(order, answer.response)'
    BY <1>1, <1>4, BacksStay DEF AnswerOK
  <2>2. ASSUME Kind(q) = "create" PROVE Promised(slot, order, answer.expiresAt)'
    <3>1. Promised(slot, order, answer.expiresAt)
      BY <1>1, <1>4, <2>2 DEF AnswerOK
    <3>2. slot[1] = "create" /\ order.intent \in Ids
      BY <1>1, <1>2, <2>2, Hashed DEF RequestsInv
    <3> QED
      BY <3>1, <3>2, PromiseStays
  <2> QED
    BY <2>1, <2>2
<1>5. (pc[q] = "reserve" => Backs(RequestHash(q), draft[q])')
  BY <1>1, <1>2, <1>3 DEF Backs
<1>6. ASSUME Answered(q)
      PROVE  /\ q \in DOMAIN reply' /\ Backs(RequestHash(q), reply[q].response)'
             /\ Kind(q) = "create" => Promised(Slot(q), RequestHash(q), reply[q].expiresAt)'
  <2>1. reply'[q] = answer
    BY <1>1, <1>6 DEF AnswerOK
  <2> QED
    BY <1>2, <1>4, <1>6, <2>1 DEF Backs, Promised, Unsaved
<1> QED
  BY <1>2, <1>5, <1>6 DEF AnswerOK, Answered

\* Nothing is owed by a request that has ended without an answer.
LEMMA EndedAnswer ==
  ASSUME NEW r \in Requests, pc'[r] \in Labels \ {"reserve", "answered", "save"}
  PROVE  AnswerOK(r)'
BY DEF AnswerOK, Answered

\* A replayed answer is backed as its record was.
LEMMA ReplayAnswer ==
  ASSUME RequestsInv, StoreInv, RepliesInv, [UseCasesNext]_vars, NEW r \in Requests, Replay(r)
  PROVE  AnswerOK(r)'
<1>1. CASE Refuse(r)
  BY <1>1, EndedAnswer DEF Refuse, Goto, RequestsInv, Labels, Ended
<1>2. CASE SameRequest(r) /\ Answer(r, idempotency[Slot(r)].response, idempotency[Slot(r)].expiresAt)
  <2>1. PICK slot, order, response, expiresAt :
          /\ slot = Slot(r) /\ order = RequestHash(r)
          /\ response = idempotency[slot].response /\ expiresAt = idempotency[slot].expiresAt
    OBVIOUS
  <2>2. RecordOK(slot) /\ idempotency[slot].request = order
    BY <1>2, <2>1 DEF Replay, Keyed, Live, SameRequest, RepliesInv
  <2>3. Backs(order, response)'
    BY <2>1, <2>2, BacksStay DEF RecordOK
  <2>4. slot[1] = Kind(r)
    BY <2>1 DEF Slot
  <2>5. Kind(r) = "create" => Promised(slot, order, expiresAt)'
    BY <2>1, <2>2, <2>4, Hashed, PromiseStays DEF RecordOK, RequestsInv
  <2>6. /\ pc'[r] = "answered" /\ r \in DOMAIN reply'
        /\ reply'[r].response = response /\ reply'[r].expiresAt = expiresAt
    BY <1>2, <2>1 DEF Answer, Goto, Respond, Written, RequestsInv
  <2>7. Slot(r)' = slot /\ RequestHash(r)' = order /\ Kind(r)' = Kind(r)
    BY <2>1 DEF UseCasesNext, vars, Slot, Kind, Key, RequestHash
  <2>8. Backs(RequestHash(r), reply[r].response)'
    BY <2>3, <2>6, <2>7 DEF Backs
  <2>9. Kind(r) = "create" => Promised(Slot(r), RequestHash(r), reply[r].expiresAt)'
    BY <2>5, <2>6, <2>7 DEF Promised, Unsaved
  <2> QED
    BY <2>6, <2>7, <2>8, <2>9 DEF AnswerOK, Answered, Labels, Ended
<1> QED
  BY <1>1, <1>2 DEF Replay

\* What a fresh reservation answers was backed when it was computed.
LEMMA ReserveAnswer ==
  ASSUME RequestsInv, StoreInv, RepliesInv, [UseCasesNext]_vars, NEW r \in Requests, Reserve(r)
  PROVE  AnswerOK(r)'
<1>1. CASE ~Replay(r)
  <2>1. PICK order, response : order = RequestHash(r) /\ response = draft[r]
    OBVIOUS
  <2>2. Backs(order, response)'
    BY <2>1, BacksStay DEF Reserve, RepliesInv, AnswerOK
  <2>3. /\ pc'[r] = NextAfterReserve(r) /\ r \in DOMAIN reply' /\ reply'[r].response = response
    BY <1>1, <2>1 DEF Reserve, Goto, Respond, Written, RequestsInv
  <2>4. RequestHash(r)' = order /\ Kind(r)' = Kind(r)
    BY <2>1 DEF UseCasesNext, vars, Kind, RequestHash
  <2>5. Backs(RequestHash(r), reply[r].response)'
    BY <2>2, <2>3, <2>4 DEF Backs
  <2> QED
    BY <2>3, <2>4, <2>5 DEF AnswerOK, Answered, Labels, Ended, NextAfterReserve
<1> QED
  BY <1>1, ReplayAnswer

\* A saved intent is stored when it is answered.
LEMMA CreateAnswer ==
  ASSUME RequestsInv, StoreInv, RepliesInv, [UseCasesNext]_vars, NEW r \in Requests, SaveCreated(r)
  PROVE  AnswerOK(r)'
<1>1. CASE Refuse(r)
  BY <1>1, EndedAnswer DEF Refuse, Goto, RequestsInv, Labels, Ended
<1>2. CASE SaveIntent(script[r].intent) /\ Continue(r, "answered", None)
  <2>1. /\ Kind(r) = "create" /\ r \in DOMAIN reply /\ script[r].intent \in Ids
        /\ RequestHash(r).intent = script[r].intent /\ RequestHash(r).kind = "create"
    BY Hashed DEF SaveCreated, RepliesInv, AnswerOK, RequestsInv
  <2>2. pc'[r] = "answered" /\ reply' = reply
    BY <1>2 DEF Continue, Goto, RequestsInv
  <2>3. RequestHash(r)' = RequestHash(r) /\ Kind(r)' = Kind(r)
    BY DEF UseCasesNext, vars, Kind, RequestHash
  <2>4. intents'[IntentId[script[r].intent]] = IntentHash[script[r].intent]
    BY <1>2, <2>1 DEF SaveIntent, StoreInv, IntentsTyped, IntentIds
  <2>5. Promised(Slot(r), RequestHash(r), reply[r].expiresAt)'
    BY <2>1, <2>3, <2>4 DEF Promised, Stored
  <2>6. Backs(RequestHash(r), reply[r].response)'
    BY <2>1, <2>3 DEF Backs
  <2> QED
    BY <2>1, <2>2, <2>3, <2>5, <2>6 DEF AnswerOK, Answered, Labels, Ended
<1> QED
  BY <1>1, <1>2 DEF SaveCreated

\* authorizeIntent answers and reserves the stored acceptance.
LEMMA AuthorizeAnswer ==
  ASSUME RequestsInv, StoreInv, RepliesInv, [UseCasesNext]_vars, NEW r \in Requests,
         Check(r) \/ EvidenceFails(r) \/ Commit(r)
  PROVE  AnswerOK(r)'
<1> DEFINE i == Asked(r)
<1>1. Kind(r) = "authorize" /\ script[r].signed \in Signed /\ draft[r] \in Times
  BY Ordered DEF Check, EvidenceFails, Commit, RequestsInv, DraftInv
<1>2. /\ RequestHash(r)' = RequestHash(r) /\ Kind(r)' = Kind(r)
      /\ RequestHash(r).kind = "authorize" /\ Id[RequestHash(r).signed] = i
  BY <1>1, Hashed DEF UseCasesNext, vars, Kind, RequestHash, RequestsInv, Asked
<1>3. CASE pc'[r] \in {"refused", "commit"}
  BY <1>3, EndedAnswer DEF Labels, Ended
<1>4. CASE Check(r) /\ Accepted(i) /\ Answer(r, Acceptance(i), None)
  <2>1. /\ pc'[r] = "answered" /\ r \in DOMAIN reply' /\ reply'[r].response = Acceptance(i)
        /\ authorization' = authorization
    BY <1>4 DEF Check, Answer, Goto, Respond, Written, RequestsInv, storeVars
  <2>2. Backs(RequestHash(r), reply[r].response)'
    BY <1>2, <1>4, <2>1 DEF Backs, Accepted, Acceptance
  <2> QED
    BY <1>1, <1>2, <2>1, <2>2 DEF AnswerOK, Answered, Labels, Ended
<1>5. CASE Commit(r) /\ Continue(r, "reserve", Committed(r)) /\ Accepted(i) /\ UNCHANGED storeVars
  <2>1. pc'[r] = "reserve" /\ draft'[r] = Acceptance(i) /\ authorization' = authorization
    BY <1>5 DEF Continue, Goto, Keep, Committed, RequestsInv, storeVars
  <2>2. Backs(RequestHash(r), draft[r])'
    BY <1>2, <1>5, <2>1 DEF Backs, Accepted, Acceptance
  <2> QED
    BY <1>1, <1>2, <2>1, <2>2 DEF AnswerOK, Answered, Labels, Ended
<1>6. CASE Commit(r) /\ Continue(r, "reserve", Committed(r)) /\ Accept(script[r].signed, draft[r])
  <2> DEFINE e == NextEntry(script[r].signed, draft[r])
  <2>1. AcceptWrites(script[r].signed, draft[r])
    BY <1>1, <1>6, AcceptEffect
  <2>2. i \in DOMAIN authorization' /\ authorization'[i] = Record(e) /\ ~Accepted(i)
    BY <2>1 DEF AcceptWrites, Asked, Accepted
  <2>3. pc'[r] = "reserve" /\ draft'[r] = Record(e)
    BY <1>6, <2>2 DEF Continue, Goto, Keep, Committed, RequestsInv
  <2>4. [Record(e) EXCEPT !.tx = None] = Record(e)
    BY DEF Record
  <2> HIDE DEF e
  <2>5. Backs(RequestHash(r), draft[r])'
    BY <1>2, <2>2, <2>3, <2>4 DEF Backs, Accepted, Acceptance
  <2> QED
    BY <1>1, <1>2, <2>3, <2>5 DEF AnswerOK, Answered, Labels, Ended
<1>7. \/ pc'[r] \in {"refused", "commit"}
      \/ Check(r) /\ Accepted(i) /\ Answer(r, Acceptance(i), None)
      \/ Commit(r) /\ Continue(r, "reserve", Committed(r)) /\ Accepted(i) /\ UNCHANGED storeVars
      \/ Commit(r) /\ Continue(r, "reserve", Committed(r)) /\ Accept(script[r].signed, draft[r])
  BY DEF Check, EvidenceFails, Commit, Refuse, Continue, Goto, RequestsInv
<1> QED
  BY <1>3, <1>4, <1>5, <1>6, <1>7

\* observeExecution reserves the observation it has recorded, with its receipt.
LEMMA ObserveAnswer ==
  ASSUME RequestsInv, StoreInv, RepliesInv, [UseCasesNext]_vars, NEW r \in Requests, SaveObserved(r)
  PROVE  AnswerOK(r)'
<1>1. CASE pc'[r] = "refused"
  BY <1>1, EndedAnswer DEF Labels, Ended
<1>2. CASE SaveWrites(r)
  <2>1. PICK i, tx, observation : i = Subject(r) /\ tx = Tx(r) /\ observation = draft[r].observation
    OBVIOUS
  <2>2. /\ Kind(r) = "observe" /\ tx \in TxHashes /\ draft[r] \in Recorded
        /\ history[tx] \in Seq(Recorded) /\ history'[tx] = Append(history[tx], draft[r])
    BY <1>2, <2>1, SaveEffect, SaveHistory
  <2>3. \E k \in 1..Len(history'[tx]) : history'[tx][k].observation = observation
    <3> DEFINE past == history[tx]
    <3>1. past \in Seq(Recorded) /\ history'[tx] = Append(past, draft[r])
      BY <2>2
    <3> HIDE DEF past
    <3>2. /\ Len(past) + 1 \in 1..Len(history'[tx]) /\ history'[tx][Len(past) + 1] = draft[r]
      BY <2>2, <3>1
    <3> QED
      BY <2>1, <3>2
  <2>4. <<i, tx, observation>> \in DOMAIN receipts'
    BY <1>2, <2>1 DEF SaveWrites, Written, ReceiptId
  <2>5. ASSUME classifyAuthorizationAssociation(i, tx, observation) = "FINAL"
        PROVE  i \in DOMAIN authorization' /\ authorization'[i].tx = tx
    <3>1. Claims(r)
      BY <2>1, <2>5 DEF Claims
    <3>2. i \in Ids /\ Accepted(i)
          /\ (Bind(i, tx) \/ (authorization[i].tx = tx /\ authorization' = authorization))
      BY <1>2, <2>1, <3>1, ClaimEffect
    <3>3. Bind(i, tx) => BindWrites(i, tx)
      BY <2>2, <3>2, BindEffect
    <3> QED
      BY <3>2, <3>3 DEF BindWrites, Accepted
  <2>6. pc'[r] = "reserve" /\ draft'[r] = observation
    BY <1>2, <2>1 DEF SaveObserved, SaveWrites, Refuse, Continue, Goto, Keep, RequestsInv
  <2>7. /\ RequestHash(r)' = RequestHash(r) /\ Kind(r)' = Kind(r) /\ RequestHash(r).kind = "observe"
        /\ RequestHash(r).authorization = i /\ RequestHash(r).tx = tx
    BY <2>1, <2>2, Hashed DEF UseCasesNext, vars, Kind, RequestHash, RequestsInv
  <2>8. Backs(RequestHash(r), draft[r])'
    BY <2>2, <2>3, <2>4, <2>5, <2>6, <2>7 DEF Backs, Accepted, classifyAuthorizationAssociation
  <2> QED
    BY <2>2, <2>6, <2>7, <2>8 DEF AnswerOK, Answered, Labels, Ended
<1> QED
  BY <1>1, <1>2, SaveEffect


\* A record that is not replaced stays backed.
LEMMA RecordStays ==
  ASSUME RequestsInv, StoreInv, [UseCasesNext]_vars, NEW slot \in DOMAIN idempotency, RecordOK(slot),
         slot \in DOMAIN idempotency', idempotency'[slot] = idempotency[slot]
  PROVE  RecordOK(slot)'
<1>1. PICK record : record = idempotency[slot]
  OBVIOUS
<1>2. PICK r \in Requests : Slot(r) = slot /\ record.request = RequestHash(r)
  BY <1>1 DEF RecordOK
<1>3. Slot(r)' = slot /\ RequestHash(r)' = record.request
  BY <1>2 DEF UseCasesNext, vars, Slot, Kind, Key, RequestHash
<1>4. Backs(record.request, record.response)'
  BY <1>1, BacksStay DEF RecordOK
<1>5. ASSUME slot[1] = "create" PROVE Promised(slot, record.request, record.expiresAt)'
  <2>1. Promised(slot, record.request, record.expiresAt)
    BY <1>1, <1>5 DEF RecordOK
  <2>2. record.request.intent \in Ids
    BY <1>2, <1>5, Hashed DEF Slot, RequestsInv
  <2> QED
    BY <1>5, <2>1, <2>2, PromiseStays
<1>6. Backs(idempotency[slot].request, idempotency[slot].response)'
  BY <1>1, <1>4 DEF Backs
<1>7. slot[1] = "create" => Promised(slot, idempotency[slot].request, idempotency[slot].expiresAt)'
  BY <1>1, <1>5 DEF Promised, Unsaved
<1> QED
  BY <1>1, <1>3, <1>6, <1>7 DEF RecordOK

\* A fresh reservation records the answer that r is given.
LEMMA FreshRecord ==
  ASSUME RequestsInv, StoreInv, RepliesInv, [UseCasesNext]_vars, NEW r \in Requests,
         Reserve(r), ~Keyed(r), Key(r) # None, NEW slot, slot = Slot(r),
         idempotency'[slot] = [request |-> RequestHash(r), response |-> draft[r], expiresAt |-> Expiry(r)]
  PROVE  RecordOK(slot)'
<1>1. PICK order, response, expiresAt :
        order = RequestHash(r) /\ response = draft[r] /\ expiresAt = Expiry(r)
  OBVIOUS
<1>2. /\ slot \in Kinds \X Keys /\ slot[1] = Kind(r) /\ expiresAt \in Nat
  BY <1>1, Ordered, Hashed, UseCaseAssumption DEF RequestsInv, Slot, Expiry
<1>3. /\ Slot(r)' = slot /\ RequestHash(r)' = order
      /\ idempotency'[slot].request = order /\ idempotency'[slot].response = response
      /\ idempotency'[slot].expiresAt = expiresAt
  BY <1>1 DEF UseCasesNext, vars, Slot, Kind, Key, RequestHash
<1>4. Backs(order, response)'
  BY <1>1, BacksStay DEF Reserve, RepliesInv, AnswerOK
<1>5. ASSUME slot[1] = "create" PROVE Promised(slot, order, expiresAt)'
  <2>1. /\ pc'[r] = "save" /\ r \in DOMAIN reply' /\ reply'[r].expiresAt = expiresAt
    BY <1>1, <1>2, <1>5 DEF Reserve, Replay, NextAfterReserve, Goto, Respond, Written, RequestsInv
  <2> QED
    BY <1>3, <2>1 DEF Promised, Unsaved
<1>6. Backs(idempotency[slot].request, idempotency[slot].response)'
  BY <1>3, <1>4 DEF Backs
<1>7. slot[1] = "create" => Promised(slot, idempotency[slot].request, idempotency[slot].expiresAt)'
  BY <1>3, <1>5 DEF Promised, Unsaved
<1> QED
  BY <1>2, <1>3, <1>6, <1>7 DEF RecordOK

\* Only a reservation writes a record, its own.
LEMMA RecordsWritten ==
  ASSUME [UseCasesNext]_vars, NEW slot \in DOMAIN idempotency'
  PROVE  \/ slot \in DOMAIN idempotency /\ idempotency'[slot] = idempotency[slot]
         \/ \E r \in Requests :
              /\ Reserve(r) /\ ~Keyed(r) /\ Key(r) # None /\ slot = Slot(r)
              /\ idempotency'[slot] = [request |-> RequestHash(r), response |-> draft[r], expiresAt |-> Expiry(r)]
<1>1. ASSUME NEW r \in Requests, Step(r), ~Reserve(r) PROVE idempotency' = idempotency
  BY <1>1 DEF Step, Start, SaveCreated, Check, EvidenceFails, Commit, Read, Observe, SaveObserved, Stop
<1>2. ASSUME NEW r \in Requests, Reserve(r), Replay(r) \/ Key(r) = None
      PROVE  idempotency' = idempotency
  BY <1>2 DEF Reserve, Replay
<1>3. ASSUME NEW r \in Requests, Reserve(r), ~Replay(r), Key(r) # None
      PROVE  /\ ~Keyed(r)
             /\ slot \in DOMAIN idempotency \/ slot = Slot(r)
             /\ slot # Slot(r) => idempotency'[slot] = idempotency[slot]
             /\ slot = Slot(r) =>
                  idempotency'[slot] = [request |-> RequestHash(r), response |-> draft[r], expiresAt |-> Expiry(r)]
  BY <1>3 DEF Reserve, Written
<1> QED
  BY <1>1, <1>2, <1>3 DEF UseCasesNext, Tick, vars


\* A request that has only begun, or has only read, owes nothing yet.
LEMMA BeginAnswer ==
  ASSUME RequestsInv, StoreInv, RepliesInv, [UseCasesNext]_vars, NEW r \in Requests,
         Start(r) \/ Read(r) \/ Observe(r) \/ Stop(r)
  PROVE  AnswerOK(r)'
<1>1. CASE Start(r) /\ Replay(r)
  BY <1>1, ReplayAnswer
<1>2. CASE pc'[r] \in Labels \ {"reserve", "answered", "save"}
  BY <1>2, EndedAnswer
<1>3. /\ RequestHash(r)' = RequestHash(r) /\ Kind(r)' = Kind(r)
      /\ RequestHash(r).kind = Kind(r) /\ Kind(r) \in Kinds
  BY Hashed, Ordered DEF UseCasesNext, vars, Kind, RequestHash, RequestsInv
<1>4. CASE Kind(r) = "create" /\ pc'[r] = "reserve"
  <2>1. Backs(RequestHash(r), draft[r])'
    BY <1>3, <1>4 DEF Backs
  <2> QED
    BY <1>4, <2>1 DEF AnswerOK, Answered, Labels, Ended
<1>5. CASE Kind(r) = "observe" /\ pc'[r] = "save"
  BY <1>3, <1>5 DEF AnswerOK, Answered, Labels, Ended
<1>6. CASE Start(r) /\ ~Replay(r)
  <2>1. pc'[r] = First[Kind(r)]
    BY <1>6 DEF Start, Continue, Goto, RequestsInv
  <2>2. pc'[r] \in {"check", "read"} \/ (Kind(r) = "create" /\ pc'[r] = "reserve")
    BY <1>3, <2>1 DEF First, Kinds
  <2> QED
    BY <1>2, <1>4, <2>2 DEF Labels, Ended
<1>7. CASE Read(r) \/ Observe(r) \/ Stop(r)
  <2>1. pc[r] = "observe" => Kind(r) = "observe"
    BY DEF RequestsInv, DraftInv
  <2>2. pc'[r] \in {"refused", "observe", "stopped"} \/ (Kind(r) = "observe" /\ pc'[r] = "save")
    BY <1>7, <2>1 DEF Read, Observe, Stop, Refuse, Continue, Goto, RequestsInv
  <2> QED
    BY <1>2, <1>5, <2>2 DEF Labels, Ended
<1> QED
  BY <1>1, <1>6, <1>7

\* Whoever moves, records and answers stay backed.
LEMMA RepliesStep ==
  RequestsInv /\ StoreInv /\ RepliesInv /\ [UseCasesNext]_vars => RepliesInv'
<1> SUFFICES ASSUME RequestsInv, StoreInv, RepliesInv, [UseCasesNext]_vars PROVE RepliesInv'
  OBVIOUS
<1>1. ASSUME NEW slot \in DOMAIN idempotency' PROVE RecordOK(slot)'
  BY <1>1, RecordsWritten, RecordStays, FreshRecord DEF RepliesInv
<1>2. ASSUME NEW r \in Requests, Step(r), NEW q \in Requests PROVE AnswerOK(q)'
  <2>1. CASE q = r
    BY <1>2, <2>1, BeginAnswer, ReserveAnswer, CreateAnswer, AuthorizeAnswer, ObserveAnswer DEF Step
  <2>2. CASE q # r
    <3>1. pc'[q] = pc[q] /\ draft'[q] = draft[q]
      BY <1>2, <2>2, OthersKept
    <3>2. q \in DOMAIN reply => q \in DOMAIN reply' /\ reply'[q] = reply[q]
      BY <1>2, <2>2, RepliesWritten
    <3> QED
      BY <3>1, <3>2, IdleAnswer DEF RepliesInv
  <2> QED
    BY <2>1, <2>2
<1>3. ASSUME UNCHANGED <<pc, draft, reply>>, NEW q \in Requests PROVE AnswerOK(q)'
  BY <1>3, IdleAnswer DEF RepliesInv
<1>4. (\E r \in Requests : Step(r)) \/ UNCHANGED <<pc, draft, reply>>
  BY DEF UseCasesNext, Tick, vars
<1> QED
  BY <1>1, <1>2, <1>3, <1>4 DEF RepliesInv

\* Every answer and every record is backed in every reachable state.
LEMMA RepliesInvHolds == UseCasesSpec => [](RequestsInv /\ StoreInv /\ RepliesInv)
<1>1. UseCasesInit => RepliesInv
  BY DEF UseCasesInit, RepliesInv, AnswerOK, Answered, Labels, Ended
<1> QED
  BY <1>1, RequestsInvHolds, RepliesStep, PTL DEF UseCasesSpec

\* The tables and the bookkeeping of the requests keep their types.
THEOREM UseCasesTypesCorrect == UseCasesSpec => []UseCasesTypeOK
<1>1. []TypeOK /\ [](RequestsInv /\ StoreInv /\ RepliesInv) => []UseCasesTypeOK
  <2>1. ASSUME TypeOK, RequestsInv, RepliesInv PROVE UseCasesTypeOK
    <3>1. pc \in [Requests -> Labels]
      BY <2>1 DEF RequestsInv, RepliesInv, AnswerOK
    <3>2. ASSUME NEW slot \in DOMAIN idempotency
          PROVE  /\ slot \in Kinds \X Keys /\ idempotency[slot].expiresAt \in Nat
                 /\ idempotency[slot].request.kind = slot[1]
      BY <2>1, Hashed DEF RepliesInv, RecordOK, RequestsInv, Slot
    <3>3. ASSUME NEW tx \in TxHashes, NEW k \in DOMAIN history[tx] PROVE history[tx][k].read \in 0..(k - 1)
      <4>1. HistoryInv(tx)
        BY <2>1 DEF RequestsInv
      <4>2. DOMAIN history[tx] = 1..Len(history[tx])
        BY <4>1 DEF HistoryInv
      <4> QED
        BY <4>1, <4>2 DEF HistoryInv
    <3>4. now \in 0..MaxTime
      BY <2>1 DEF RequestsInv
    <3> QED
      BY <2>1, <3>1, <3>2, <3>3, <3>4 DEF UseCasesTypeOK, Labels
  <2> QED
    BY <2>1, PTL
<1> QED
  BY <1>1, UsesStore, TypeCorrect, RepliesInvHolds, PTL

\* Every answer, replayed or not, is backed by what the tables say, wherever other
\* requests stand or have stopped.
THEOREM AnswersBacked == UseCasesSpec => []AnswersAreBacked
<1>1. RequestsInv /\ RepliesInv => AnswersAreBacked
  <2> SUFFICES ASSUME RequestsInv, RepliesInv, NEW r \in Requests, Answered(r)
               PROVE  CASE Kind(r) = "create" ->
                             \/ intents[IntentId[script[r].intent]] = IntentHash[script[r].intent]
                             \/ \E q \in Requests : NeverSaved(q, r)
                        [] Kind(r) = "authorize" ->
                             Accepted(Asked(r)) /\ reply[r].response = Acceptance(Asked(r))
                        [] Kind(r) = "observe" ->
                             LET observation == reply[r].response
                             IN /\ \E k \in DOMAIN history[Tx(r)] : history[Tx(r)][k].observation = observation
                                /\ <<Subject(r), Tx(r), observation>> \in DOMAIN receipts
                                /\ classifyAuthorizationAssociation(Subject(r), Tx(r), observation) = "FINAL" =>
                                     authorization[Subject(r)].tx = Tx(r)
    BY DEF AnswersAreBacked
  <2>1. /\ Kind(r) \in Kinds /\ Backs(RequestHash(r), reply[r].response)
        /\ Kind(r) = "create" => Promised(Slot(r), RequestHash(r), reply[r].expiresAt)
    BY Ordered DEF RequestsInv, RepliesInv, AnswerOK
  <2>2. CASE Kind(r) = "create"
    <3>1. Stored(script[r].intent) \/ \E q \in Requests : NeverSaved(q, r)
      BY <2>1, <2>2, Hashed DEF Promised, Unsaved, NeverSaved, RequestsInv
    <3> QED
      BY <2>2, <3>1 DEF Stored
  <2>3. CASE Kind(r) = "authorize"
    BY <2>1, <2>3, Hashed DEF Backs, RequestsInv, Asked
  <2>4. CASE Kind(r) = "observe"
    <3>1. Len(history[Tx(r)]) \in Nat /\ DOMAIN history[Tx(r)] = 1..Len(history[Tx(r)])
      BY <2>4, Ordered DEF RequestsInv, HistoryInv
    <3> QED
      BY <2>1, <2>4, <3>1, Hashed DEF Backs, RequestsInv
  <2> QED
    BY <2>1, <2>2, <2>3, <2>4 DEF Kinds
<1> QED
  BY <1>1, RepliesInvHolds, PTL

-------------------------------------------------------------------------------
(* Bindings and receipts *)

\* A receipt stands for what an answer to its order would say, and a bound
\* authorization has a final one.
ObserveOrder(id) == [kind |-> "observe", authorization |-> id[1], tx |-> id[2]]
ReceiptBacked(id) ==
  /\ id = <<id[1], id[2], id[3]>> /\ id[3] \in Observations
  /\ Backs(ObserveOrder(id), id[3])
BindingBacked(i) ==
  Accepted(i) /\ authorization[i].tx # None =>
    \E observation \in Observations :
      /\ <<i, authorization[i].tx, observation>> \in DOMAIN receipts
      /\ classifyAuthorizationAssociation(i, authorization[i].tx, observation) = "FINAL"

EvidencedInv ==
  /\ \A id \in DOMAIN receipts : ReceiptBacked(id)
  /\ \A i \in Ids : BindingBacked(i)

\* Receipts are only added, each by the request that records its observation.
LEMMA ReceiptsWritten ==
  ASSUME RequestsInv, [UseCasesNext]_vars
  PROVE  /\ DOMAIN receipts \subseteq DOMAIN receipts'
         /\ \A id \in DOMAIN receipts' \ DOMAIN receipts :
              \E r \in Requests : SaveObserved(r) /\ SaveWrites(r) /\ id = ReceiptId(r)
<1>1. ASSUME NEW r \in Requests, Step(r), receipts' # receipts
      PROVE  SaveObserved(r) /\ SaveWrites(r)
  BY <1>1, StepsRead, SaveEffect DEF SaveCreated, Commit, evidence
<1>2. ASSUME NEW r \in Requests, SaveWrites(r) PROVE DOMAIN receipts' = DOMAIN receipts \cup {ReceiptId(r)}
  BY <1>2 DEF SaveWrites, Written
<1> QED
  BY <1>1, <1>2 DEF UseCasesNext, Tick, vars, evidence

\* A binding is made by the request that records a final observation of it.
LEMMA BindingsWritten ==
  ASSUME RequestsInv, StoreInv, [UseCasesNext]_vars, NEW i \in Ids,
         Accepted(i)', authorization'[i].tx # None
  PROVE  \/ Accepted(i) /\ authorization[i].tx = authorization'[i].tx
         \/ \E r \in Requests :
              /\ SaveObserved(r) /\ SaveWrites(r) /\ Claims(r)
              /\ i = Subject(r) /\ authorization'[i].tx = Tx(r)
<1>1. CASE authorization' = authorization
  BY <1>1 DEF Accepted
<1>2. ASSUME NEW s \in Signed, NEW at \in Times, Accept(s, at)
      PROVE  Accepted(i) /\ authorization[i].tx = authorization'[i].tx
  <2>1. AcceptWrites(s, at)
    BY <1>2, AcceptEffect
  <2> QED
    BY <2>1 DEF AcceptWrites, Accepted, Record
<1>3. ASSUME NEW r \in Requests, SaveObserved(r), SaveWrites(r), Claims(r)
      PROVE  \/ Accepted(i) /\ authorization[i].tx = authorization'[i].tx
             \/ i = Subject(r) /\ authorization'[i].tx = Tx(r)
  <2>1. /\ Subject(r) \in Ids /\ Accepted(Subject(r)) /\ Tx(r) \in TxHashes
        /\ Bind(Subject(r), Tx(r)) \/ authorization' = authorization
    BY <1>3, ClaimEffect, SaveEffect
  <2>2. CASE Bind(Subject(r), Tx(r))
    <3>1. BindWrites(Subject(r), Tx(r))
      BY <2>1, <2>2, BindEffect
    <3> QED
      BY <3>1 DEF BindWrites, Accepted
  <2> QED
    BY <2>1, <2>2 DEF Accepted
<1>4. ASSUME NEW r \in Requests, Step(r)
      PROVE  \/ authorization' = authorization
             \/ SaveObserved(r) /\ SaveWrites(r) /\ Claims(r)
             \/ \E s \in Signed, at \in Times : Accept(s, at)
  <2>1. CASE SaveCreated(r)
    BY <2>1 DEF SaveCreated, SaveIntent, storeVars
  <2>2. CASE Commit(r)
    <3>1. script[r].signed \in Signed /\ draft[r] \in Times
      BY <2>2, Ordered DEF Commit, RequestsInv, DraftInv
    <3> QED
      BY <2>2, <3>1 DEF Commit, storeVars
  <2>3. CASE SaveObserved(r)
    BY <2>3, SaveEffect DEF SaveWrites, storeVars
  <2> QED
    BY <1>4, <2>1, <2>2, <2>3, StepsRead DEF storeVars
<1> QED
  BY <1>1, <1>2, <1>3, <1>4 DEF UseCasesNext, Tick, vars, storeVars

\* Every step keeps receipts and bindings in agreement.
LEMMA EvidencedStep ==
  RequestsInv /\ StoreInv /\ RepliesInv /\ EvidencedInv /\ [UseCasesNext]_vars => EvidencedInv'
<1> SUFFICES ASSUME RequestsInv, StoreInv, RepliesInv, EvidencedInv, [UseCasesNext]_vars
             PROVE  EvidencedInv'
  OBVIOUS
<1>1. ASSUME NEW id \in DOMAIN receipts' PROVE ReceiptBacked(id)'
  <2>1. CASE id \in DOMAIN receipts
    <3>1. ReceiptBacked(id)
      BY <2>1 DEF EvidencedInv
    <3>2. PICK order, response : order = ObserveOrder(id) /\ response = id[3]
      OBVIOUS
    <3>3. Backs(order, response)'
      BY <3>1, <3>2, BacksStay DEF ReceiptBacked
    <3> QED
      BY <3>1, <3>2, <3>3 DEF ReceiptBacked, Backs, ObserveOrder
  <2>2. ASSUME NEW r \in Requests, SaveObserved(r), SaveWrites(r), id = ReceiptId(r)
        PROVE  ReceiptBacked(id)'
    <3>1. /\ AnswerOK(r)' /\ pc'[r] = "reserve"
          /\ Kind(r) = "observe" /\ draft[r].observation \in Observations
      BY <2>2, ObserveAnswer, SaveEffect DEF SaveWrites
    <3>2. draft'[r] = draft[r].observation
      BY <2>2, <3>1 DEF SaveObserved, Refuse, Continue, Goto, Keep, RequestsInv
    <3>3. /\ RequestHash(r)' = RequestHash(r) /\ RequestHash(r).kind = "observe"
          /\ RequestHash(r).authorization = Subject(r) /\ RequestHash(r).tx = Tx(r)
      BY <3>1, Hashed DEF UseCasesNext, vars, RequestHash, RequestsInv
    <3>4. Backs(RequestHash(r), draft[r])'
      BY <3>1 DEF AnswerOK
    <3>5. id[1] = Subject(r) /\ id[2] = Tx(r) /\ id[3] = draft[r].observation
      BY <2>2 DEF ReceiptId
    <3>6. Backs(ObserveOrder(id), id[3])'
      BY <3>2, <3>3, <3>4, <3>5 DEF Backs, ObserveOrder
    <3> QED
      BY <2>2, <3>1, <3>5, <3>6 DEF ReceiptBacked, ReceiptId
  <2> QED
    BY <2>1, <2>2, ReceiptsWritten
<1>2. ASSUME NEW i \in Ids, Accepted(i)', authorization'[i].tx # None
      PROVE  \E observation \in Observations :
               /\ <<i, authorization'[i].tx, observation>> \in DOMAIN receipts'
               /\ classifyAuthorizationAssociation(i, authorization'[i].tx, observation) = "FINAL"
  <2>1. CASE Accepted(i) /\ authorization[i].tx = authorization'[i].tx
    BY <1>2, <2>1, ReceiptsWritten DEF EvidencedInv, BindingBacked
  <2>2. ASSUME NEW r \in Requests, SaveObserved(r), SaveWrites(r), Claims(r),
               i = Subject(r), authorization'[i].tx = Tx(r)
        PROVE  \E observation \in Observations :
                 /\ <<i, authorization'[i].tx, observation>> \in DOMAIN receipts'
                 /\ classifyAuthorizationAssociation(i, authorization'[i].tx, observation) = "FINAL"
    <3>1. draft[r].observation \in Observations
      BY <2>2, SaveEffect
    <3>2. <<i, Tx(r), draft[r].observation>> \in DOMAIN receipts'
      BY <2>2 DEF SaveWrites, Written, ReceiptId
    <3> QED
      BY <2>2, <3>1, <3>2 DEF Claims
  <2> QED
    BY <1>2, <2>1, <2>2, BindingsWritten
<1>3. ASSUME NEW i \in Ids PROVE BindingBacked(i)'
  BY <1>2 DEF BindingBacked, classifyAuthorizationAssociation
<1> QED
  BY <1>1, <1>3 DEF EvidencedInv

\* An authorization is bound exactly when a final receipt says so, and every
\* receipt describes a recorded observation, whatever requests interleave or stop.
THEOREM UseCasesEvidenced == UseCasesSpec => []Lifecycle!BindingsAreEvidenced
<1>1. UseCasesInit => EvidencedInv
  BY DEF UseCasesInit, Init, EvidencedInv, BindingBacked, Accepted
<1>2. RequestsInv /\ StoreInv /\ EvidencedInv => Lifecycle!BindingsAreEvidenced
  <2> SUFFICES ASSUME RequestsInv, StoreInv, EvidencedInv PROVE Lifecycle!BindingsAreEvidenced
    OBVIOUS
  <2>1. ASSUME NEW i \in Ids, Status(i) = "BOUND"
        PROVE  \E id \in DOMAIN receipts :
                 /\ Receipt(id).authorization = i /\ Receipt(id).tx = Bound(i)
                 /\ Receipt(id).association = "FINAL"
    <3>1. Accepted(i) /\ authorization[i].tx # None /\ Bound(i) = authorization[i].tx
      BY <2>1 DEF Status, Bound
    <3> QED
      BY <3>1 DEF EvidencedInv, BindingBacked, Receipt
  <2>2. ASSUME NEW id \in DOMAIN receipts
        PROVE  /\ Receipt(id).tx \in TxHashes
               /\ \E k \in DOMAIN Versions(id[2]) : Versions(id[2])[k] = Receipt(id).observation
               /\ Receipt(id).association = "FINAL" =>
                    /\ Receipt(id).observation.status \in {"CONFIRMED", "REVERTED"}
                    /\ Receipt(id).authorization \in Ids
                    /\ Status(Receipt(id).authorization) = "BOUND"
                    /\ Bound(Receipt(id).authorization) = Receipt(id).tx
    <3>1. /\ id[2] \in TxHashes /\ id[3] \in Observations
          /\ \E k \in 1..Len(history[id[2]]) : history[id[2]][k].observation = id[3]
          /\ classifyAuthorizationAssociation(id[1], id[2], id[3]) = "FINAL" =>
               Accepted(id[1]) /\ authorization[id[1]].tx = id[2]
      BY <2>2 DEF EvidencedInv, ReceiptBacked, Backs, ObserveOrder
    <3>2. DOMAIN history[id[2]] = 1..Len(history[id[2]])
      BY <3>1 DEF RequestsInv, HistoryInv
    <3>3. \E k \in DOMAIN Versions(id[2]) : Versions(id[2])[k] = id[3]
      BY <3>1, <3>2 DEF Versions
    <3>4. ASSUME classifyAuthorizationAssociation(id[1], id[2], id[3]) = "FINAL"
          PROVE  /\ id[3].status \in {"CONFIRMED", "REVERTED"}
                 /\ id[1] \in Ids /\ Status(id[1]) = "BOUND" /\ Bound(id[1]) = id[2]
      <4>1. id[3].status \in {"CONFIRMED", "REVERTED"}
        BY <3>1, <3>4, FinalStatus
      <4>2. id[1] \in Ids
        BY <3>1, <3>4 DEF Accepted, StoreInv, RecordsInv, RecordInv
      <4>3. id[2] # None
        BY <3>1, SignedAssumption
      <4> QED
        BY <3>1, <3>4, <4>1, <4>2, <4>3 DEF Status, Bound
    <3> QED
      BY <3>1, <3>3, <3>4 DEF Receipt
  <2>3. {Receipt(id) : id \in DOMAIN receipts} =
          {[authorization |-> id[1], tx |-> id[2], observation |-> id[3],
            association |-> classifyAuthorizationAssociation(id[1], id[2], id[3])] : id \in DOMAIN receipts}
    BY DEF Receipt
  <2> DEFINE issued == {Receipt(id) : id \in DOMAIN receipts}
             statusOf == [i \in Ids |-> Status(i)]
             boundOf == [i \in Ids |-> Bound(i)]
             versionsOf == [tx \in TxHashes |-> Versions(tx)]
  <2>4. \A i \in Ids : statusOf[i] = "BOUND" =>
          \E receipt \in issued :
            receipt.authorization = i /\ receipt.tx = boundOf[i] /\ receipt.association = "FINAL"
    BY <2>1
  <2>5. \A receipt \in issued :
          /\ \E k \in DOMAIN versionsOf[receipt.tx] : versionsOf[receipt.tx][k] = receipt.observation
          /\ receipt.association = "FINAL" =>
               /\ receipt.observation.status \in {"CONFIRMED", "REVERTED"}
               /\ statusOf[receipt.authorization] = "BOUND"
               /\ boundOf[receipt.authorization] = receipt.tx
    <3> SUFFICES ASSUME NEW id \in DOMAIN receipts
                 PROVE  LET receipt == Receipt(id) IN
                        /\ \E k \in DOMAIN versionsOf[receipt.tx] : versionsOf[receipt.tx][k] = receipt.observation
                        /\ receipt.association = "FINAL" =>
                             /\ receipt.observation.status \in {"CONFIRMED", "REVERTED"}
                             /\ statusOf[receipt.authorization] = "BOUND"
                             /\ boundOf[receipt.authorization] = receipt.tx
      OBVIOUS
    <3>1. Receipt(id).tx = id[2]
      BY DEF Receipt
    <3> QED
      BY <2>2, <3>1
  <2> QED
    BY <2>3, <2>4, <2>5 DEF Lifecycle!BindingsAreEvidenced, Lifecycle!FinalStatuses, Bound, Versions, Receipt
<1> QED
  BY <1>1, <1>2, EvidencedStep, RepliesInvHolds, PTL DEF UseCasesSpec

-------------------------------------------------------------------------------
(* Keys *)

\* The answer of r is its record's while that lives; only an acceptance that was
\* found stored is answered without a record under a key.
Settled(r) ==
  /\ reply[r].at \in Nat /\ reply[r].at <= now
  /\ reply[r].expiresAt # None =>
       /\ Key(r) # None /\ reply[r].expiresAt \in Nat /\ reply[r].at < reply[r].expiresAt
       /\ now < reply[r].expiresAt =>
            /\ Slot(r) \in DOMAIN idempotency
            /\ idempotency[Slot(r)].request = RequestHash(r)
            /\ idempotency[Slot(r)].response = reply[r].response
            /\ idempotency[Slot(r)].expiresAt = reply[r].expiresAt
  /\ reply[r].expiresAt = None /\ Key(r) # None => Kind(r) = "authorize" /\ pc[r] = "answered"

\* The answer of s, given while the record r was answered under lived, is r's.
Agrees(s, r) ==
  reply[r].expiresAt # None /\ Slot(s) = Slot(r) /\ reply[s].at \in reply[r].at..(reply[r].expiresAt - 1) =>
    /\ RequestHash(s) = RequestHash(r) => reply[s].response = reply[r].response
    /\ reply[s].expiresAt # None => RequestHash(s) = RequestHash(r)

KeysInv ==
  \A r \in Requests \cap DOMAIN reply :
    Settled(r) /\ \A s \in Requests \cap DOMAIN reply : Agrees(s, r)

\* How a step answers: from a live record, under a new one, or from a stored acceptance.
FromRecord(r, response, expiresAt) ==
  /\ Keyed(r) /\ SameRequest(r) /\ idempotency' = idempotency
  /\ response = idempotency[Slot(r)].response /\ expiresAt = idempotency[Slot(r)].expiresAt
Anew(r, response, expiresAt) ==
  /\ Reserve(r) /\ ~Keyed(r) /\ response = draft[r] /\ expiresAt = Expiry(r)
  /\ Key(r) # None =>
       /\ Slot(r) \in DOMAIN idempotency'
       /\ idempotency'[Slot(r)] = [request |-> RequestHash(r), response |-> response, expiresAt |-> expiresAt]
FromAcceptance(r, response, expiresAt) ==
  /\ Check(r) /\ Accepted(Asked(r)) /\ response = Acceptance(Asked(r)) /\ expiresAt = None
  /\ pc'[r] = "answered"

\* A step that gives an answer gives it in one of the three ways.
LEMMA AnswerGiven ==
  ASSUME RequestsInv, NEW r \in Requests, Step(r), reply' # reply
  PROVE  \E response, expiresAt :
           /\ r \in DOMAIN reply' /\ DOMAIN reply' \subseteq DOMAIN reply \cup {r}
           /\ reply'[r] = [response |-> response, expiresAt |-> expiresAt, at |-> now]
           /\ \/ FromRecord(r, response, expiresAt)
              \/ Anew(r, response, expiresAt)
              \/ FromAcceptance(r, response, expiresAt)
<1>1. \E response, expiresAt :
        /\ Respond(r, response, expiresAt)
        /\ \/ FromRecord(r, response, expiresAt)
           \/ Anew(r, response, expiresAt)
           \/ FromAcceptance(r, response, expiresAt)
  <2>1. ASSUME Replay(r), idempotency' = idempotency
        PROVE  \E response, expiresAt : Respond(r, response, expiresAt) /\ FromRecord(r, response, expiresAt)
    BY <2>1 DEF Replay, Answer, Refuse, FromRecord
  <2>2. CASE Start(r)
    BY <2>1, <2>2 DEF Start, Continue
  <2>3. CASE Reserve(r)
    <3>1. CASE Replay(r) /\ UNCHANGED idempotency
      BY <2>1, <3>1
    <3>2. CASE ~(Replay(r) /\ UNCHANGED idempotency)
      <4>1. /\ ~Keyed(r) /\ Respond(r, draft[r], Expiry(r))
            /\ Key(r) # None =>
                 idempotency' = Written([slot \in {Slot(r)} |-> [request |-> RequestHash(r),
                                          response |-> draft[r], expiresAt |-> Expiry(r)]], idempotency)
        BY <2>3, <3>2 DEF Reserve
      <4>2. Anew(r, draft[r], Expiry(r))
        BY <2>3, <4>1 DEF Anew, Written
      <4> QED
        BY <4>1, <4>2
    <3> QED
      BY <3>1, <3>2
  <2>4. CASE Check(r)
    <3>1. Answer(r, Acceptance(Asked(r)), None) /\ Accepted(Asked(r))
      BY <2>4 DEF Check, Refuse, Continue
    <3>2. pc'[r] = "answered"
      BY <3>1 DEF Answer, Goto, RequestsInv
    <3> QED
      BY <2>4, <3>1, <3>2 DEF Answer, FromAcceptance
  <2> QED
    BY <2>2, <2>3, <2>4 DEF Step, SaveCreated, EvidenceFails, Commit, Read, Observe, SaveObserved, Stop,
                            Refuse, Continue
<1> QED
  BY <1>1 DEF Respond, Written

\* A settled answer stays settled when its request does not answer again.
LEMMA SettledStays ==
  ASSUME RequestsInv, RepliesInv, [UseCasesNext]_vars, NEW q \in Requests \cap DOMAIN reply, Settled(q),
         reply'[q] = reply[q]
  PROVE  Settled(q)'
<1>1. /\ now \in Nat /\ now' \in Nat /\ now <= now'
      /\ Slot(q)' = Slot(q) /\ Key(q)' = Key(q) /\ Kind(q)' = Kind(q) /\ RequestHash(q)' = RequestHash(q)
  BY UseCaseAssumption DEF UseCasesNext, Tick, vars, RequestsInv, Slot, Key, Kind, RequestHash
<1>2. pc[q] = "answered" => pc'[q] = "answered"
  <2>1. ASSUME pc[q] = "answered", NEW r \in Requests, Step(r) PROVE r # q
    BY <2>1 DEF Step, Start, Reserve, SaveCreated, Check, EvidenceFails, Commit, Read, Observe,
                SaveObserved, Stop, Ended
  <2> QED
    BY <2>1, OthersKept DEF UseCasesNext, Tick, vars
<1>3. ASSUME reply[q].expiresAt # None, now < reply[q].expiresAt
      PROVE  /\ Slot(q) \in DOMAIN idempotency'
             /\ idempotency'[Slot(q)] = idempotency[Slot(q)]
  <2>1. Live(Slot(q)) /\ Slot(q) \in DOMAIN idempotency
    BY <1>1, <1>3 DEF Settled, Live
  <2>2. Slot(q) \in DOMAIN idempotency'
    <3>1. ASSUME NEW r \in Requests, Step(r) PROVE DOMAIN idempotency \subseteq DOMAIN idempotency'
      BY <3>1 DEF Step, Start, Reserve, SaveCreated, Check, EvidenceFails, Commit, Read, Observe,
                  SaveObserved, Stop, Written
    <3> QED
      BY <2>1, <3>1 DEF UseCasesNext, Tick, vars
  <2>3. ASSUME NEW r \in Requests, ~Keyed(r), Key(r) # None PROVE Slot(q) # Slot(r)
    BY <2>1, <2>3 DEF Keyed
  <2> QED
    BY <2>2, <2>3, RecordsWritten
<1>4. reply[q].expiresAt # None => reply[q].expiresAt \in Nat
  BY DEF Settled
<1> QED
  BY <1>1, <1>2, <1>3, <1>4 DEF Settled


\* The answer that a step gives is settled.
LEMMA AnswerSettles ==
  ASSUME RequestsInv, RepliesInv, [UseCasesNext]_vars, UNCHANGED now, NEW r \in Requests,
         NEW response, NEW expiresAt,
         reply'[r] = [response |-> response, expiresAt |-> expiresAt, at |-> now],
         FromRecord(r, response, expiresAt) \/ Anew(r, response, expiresAt)
           \/ FromAcceptance(r, response, expiresAt)
  PROVE  Settled(r)'
<1>1. /\ now \in Nat /\ Kind(r) \in Kinds
      /\ Slot(r)' = Slot(r) /\ Key(r)' = Key(r) /\ Kind(r)' = Kind(r) /\ RequestHash(r)' = RequestHash(r)
  BY UseCaseAssumption, Ordered DEF UseCasesNext, vars, RequestsInv, Slot, Key, Kind, RequestHash
<1>2. CASE FromRecord(r, response, expiresAt)
  <2>1. /\ Key(r) # None /\ Slot(r) \in DOMAIN idempotency /\ expiresAt > now
        /\ expiresAt = idempotency[Slot(r)].expiresAt /\ response = idempotency[Slot(r)].response
        /\ idempotency[Slot(r)].request = RequestHash(r) /\ idempotency' = idempotency
    BY <1>2 DEF FromRecord, Keyed, Live, SameRequest
  <2>2. expiresAt \in Nat
    BY <2>1 DEF RepliesInv, RecordOK
  <2>3. expiresAt # None
    BY <2>2, UseCaseAssumption
  <2> QED
    BY <1>1, <2>1, <2>2, <2>3 DEF Settled
<1>3. CASE Anew(r, response, expiresAt)
  BY <1>1, <1>3, UseCaseAssumption DEF Anew, Expiry, Settled
<1>4. CASE FromAcceptance(r, response, expiresAt)
  <2>1. Kind(r) = "authorize"
    BY <1>4 DEF FromAcceptance, Check, RequestsInv, DraftInv
  <2> QED
    BY <1>1, <1>4, <2>1 DEF FromAcceptance, Settled
<1> QED
  BY <1>2, <1>3, <1>4


\* The answer of r, given in this step, agrees with every other under its key.
LEMMA AnswerAgrees ==
  ASSUME RequestsInv, RepliesInv, KeysInv, [UseCasesNext]_vars, UNCHANGED now,
         NEW r \in Requests, NEW response, NEW expiresAt,
         reply'[r] = [response |-> response, expiresAt |-> expiresAt, at |-> now],
         FromRecord(r, response, expiresAt) \/ Anew(r, response, expiresAt)
           \/ FromAcceptance(r, response, expiresAt),
         NEW q \in Requests \cap DOMAIN reply, q # r, reply'[q] = reply[q]
  PROVE  Agrees(r, q)' /\ Agrees(q, r)'
<1>1. /\ now \in Nat /\ UNCHANGED <<Slot(r), Slot(q), RequestHash(r), RequestHash(q)>>
  BY UseCaseAssumption DEF UseCasesNext, vars, RequestsInv, Slot, Key, Kind, RequestHash
<1>2. Settled(q)
  BY DEF KeysInv
\* What a stored acceptance answers, under any record or none.
<1>3. ASSUME Kind(r) = "authorize"
      PROVE  response = Acceptance(Asked(r))
  <2>1. /\ RequestHash(r).kind = "authorize" /\ Id[RequestHash(r).signed] = Asked(r)
    BY <1>3, Hashed DEF RequestsInv, Asked
  <2>2. CASE FromRecord(r, response, expiresAt)
    BY <2>1, <2>2 DEF FromRecord, Keyed, Live, SameRequest, RepliesInv, RecordOK, Backs
  <2>3. CASE Anew(r, response, expiresAt)
    BY <2>1, <2>3 DEF Anew, Reserve, RepliesInv, AnswerOK, Backs
  <2>4. CASE FromAcceptance(r, response, expiresAt)
    BY <2>4 DEF FromAcceptance
  <2> QED
    BY <2>2, <2>3, <2>4
\* While the record of q lives, r answers from it.
<1>4. ASSUME reply[q].expiresAt # None, Slot(r) = Slot(q), now < reply[q].expiresAt
      PROVE  /\ RequestHash(r) = RequestHash(q) => response = reply[q].response
             /\ expiresAt # None => RequestHash(r) = RequestHash(q)
  <2>1. /\ Live(Slot(q)) /\ Key(q) # None /\ Key(r) = Key(q) /\ Kind(r) = Kind(q)
        /\ idempotency[Slot(q)].request = RequestHash(q)
        /\ idempotency[Slot(q)].response = reply[q].response
        /\ Slot(q) \in DOMAIN idempotency
    BY <1>1, <1>2, <1>4 DEF Settled, Live, Slot
  <2>2. Keyed(r)
    BY <1>4, <2>1 DEF Keyed
  <2>3. CASE FromRecord(r, response, expiresAt)
    BY <1>4, <2>1, <2>3 DEF FromRecord, SameRequest
  <2>4. CASE FromAcceptance(r, response, expiresAt)
    <3>1. Kind(r) = "authorize" /\ expiresAt = None
      BY <2>4 DEF FromAcceptance, Check, RequestsInv, DraftInv
    <3>2. ASSUME RequestHash(r) = RequestHash(q) PROVE response = reply[q].response
      <4>1. /\ RequestHash(r).kind = "authorize" /\ Id[RequestHash(r).signed] = Asked(r)
        BY <3>1, Hashed DEF RequestsInv, Asked
      <4>2. Backs(RequestHash(r), reply[q].response)
        BY <2>1, <3>2 DEF RepliesInv, RecordOK
      <4> QED
        BY <1>3, <3>1, <4>1, <4>2 DEF Backs
    <3> QED
      BY <3>1, <3>2
  <2>5. ~Anew(r, response, expiresAt)
    BY <2>2 DEF Anew
  <2> QED
    BY <2>3, <2>4, <2>5
<1>5. Agrees(r, q)'
  BY <1>1, <1>2, <1>4 DEF Agrees, Settled
\* q answered before r, so at the same time, if it answered while the record of r lives.
<1>6. ASSUME expiresAt # None, Slot(q) = Slot(r), reply[q].at \in now..(expiresAt - 1)
      PROVE  /\ RequestHash(q) = RequestHash(r) => reply[q].response = response
             /\ reply[q].expiresAt # None => RequestHash(q) = RequestHash(r)
  <2>1. reply[q].at = now
    BY <1>1, <1>2, <1>6 DEF Settled
  <2>2. CASE reply[q].expiresAt # None
    <3>1. now < reply[q].expiresAt
      BY <1>2, <2>1, <2>2 DEF Settled
    <3> QED
      BY <1>4, <1>6, <2>2, <3>1
  <2>3. CASE reply[q].expiresAt = None
    <3>1. Key(r) # None
      BY <1>6 DEF FromRecord, Keyed, Anew, Expiry, FromAcceptance
    <3>2. Kind(q) = "authorize" /\ Kind(r) = "authorize" /\ pc[q] = "answered"
      BY <1>2, <1>6, <2>3, <3>1 DEF Settled, Slot
    <3>3. ASSUME RequestHash(q) = RequestHash(r) PROVE reply[q].response = response
      <4>1. /\ RequestHash(r).kind = "authorize" /\ Id[RequestHash(r).signed] = Asked(r)
        BY <3>2, Hashed DEF RequestsInv, Asked
      <4>2. Backs(RequestHash(q), reply[q].response)
        BY <3>2 DEF RepliesInv, AnswerOK, Answered
      <4> QED
        BY <1>3, <3>2, <3>3, <4>1, <4>2 DEF Backs
    <3> QED
      BY <2>3, <3>3
  <2> QED
    BY <2>2, <2>3
<1>7. Agrees(q, r)'
  BY <1>1, <1>6 DEF Agrees
<1> QED
  BY <1>5, <1>7


\* Answers under one key agree after every step.
LEMMA KeysStep ==
  RequestsInv /\ RepliesInv /\ KeysInv /\ [UseCasesNext]_vars => KeysInv'
<1> SUFFICES ASSUME RequestsInv, RepliesInv, KeysInv, [UseCasesNext]_vars PROVE KeysInv'
  OBVIOUS
<1>0. ASSUME NEW q \in Requests \cap DOMAIN reply, NEW s \in Requests \cap DOMAIN reply,
             reply'[q] = reply[q], reply'[s] = reply[s]
      PROVE  Agrees(s, q)'
  <2>1. Agrees(s, q)
    BY DEF KeysInv
  <2>2. UNCHANGED <<Slot(q), Slot(s), RequestHash(q), RequestHash(s)>>
    BY DEF UseCasesNext, vars, Slot, Key, Kind, RequestHash
  <2> QED
    BY <1>0, <2>1, <2>2 DEF Agrees
<1>1. CASE reply' = reply
  BY <1>0, <1>1, SettledStays DEF KeysInv
<1>2. ASSUME NEW r \in Requests, Step(r), UNCHANGED now, reply' # reply PROVE KeysInv'
  <2>1. PICK response, expiresAt :
          /\ r \in DOMAIN reply' /\ DOMAIN reply' \subseteq DOMAIN reply \cup {r}
          /\ reply'[r] = [response |-> response, expiresAt |-> expiresAt, at |-> now]
          /\ \/ FromRecord(r, response, expiresAt)
             \/ Anew(r, response, expiresAt)
             \/ FromAcceptance(r, response, expiresAt)
    BY <1>2, AnswerGiven
  <2>2. \A q \in DOMAIN reply : q # r => reply'[q] = reply[q]
    BY <1>2, RepliesWritten
  <2>3. Settled(r)'
    BY <1>2, <2>1, AnswerSettles
  <2>4. Agrees(r, r)'
    BY DEF Agrees
  <2>5. \A q \in Requests \cap DOMAIN reply : q # r => Settled(q)' /\ Agrees(r, q)' /\ Agrees(q, r)'
    BY <1>2, <2>1, <2>2, SettledStays, AnswerAgrees DEF KeysInv
  <2> QED
    BY <1>0, <2>1, <2>2, <2>3, <2>4, <2>5 DEF KeysInv
<1> QED
  BY <1>1, <1>2 DEF UseCasesNext, Tick, vars

\* Requests under one key agree while the record that one was answered under lives,
\* however they overlap, and none is answered from a record that had expired.
THEOREM KeyedAgree == UseCasesSpec => []KeyedAnswersAgree
<1>1. UseCasesInit => KeysInv
  BY DEF UseCasesInit, KeysInv
<1>2. RequestsInv /\ RepliesInv /\ KeysInv => KeyedAnswersAgree
  <2> SUFFICES ASSUME RequestsInv, RepliesInv, KeysInv, NEW key \in Keys, NEW r \in Requests,
                      AnsweredUnder(r, key)
               PROVE  /\ reply[r].at < reply[r].expiresAt
                      /\ \A s \in Requests :
                           Answered(s) /\ Slot(s) = Slot(r)
                             /\ reply[s].at \in reply[r].at..(reply[r].expiresAt - 1) =>
                               /\ RequestHash(s) = RequestHash(r) => reply[s].response = reply[r].response
                               /\ AnsweredUnder(s, key) => RequestHash(s) = RequestHash(r)
    BY DEF KeyedAnswersAgree
  <2>1. \A s \in Requests : Answered(s) => s \in DOMAIN reply
    BY DEF RepliesInv, AnswerOK
  <2>2. r \in DOMAIN reply /\ Settled(r) /\ reply[r].expiresAt # None
    BY <2>1 DEF AnsweredUnder, KeysInv
  <2>3. \A s \in Requests : Answered(s) => Agrees(s, r)
    BY <2>1, <2>2 DEF KeysInv
  <2> QED
    BY <2>2, <2>3 DEF Settled, Agrees, AnsweredUnder
<1> QED
  BY <1>1, <1>2, KeysStep, RepliesInvHolds, PTL DEF UseCasesSpec
=============================================================================
