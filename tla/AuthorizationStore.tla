-------------------------- MODULE AuthorizationStore --------------------------
(***************************************************************************)
(* What the authorization store promises: an append-only hash-chained log  *)
(* of accepted authorizations with its Merkle index, and one record per    *)
(* accepted authorization that at most one transaction is bound to.  Every *)
(* method is one indivisible action, as in the in-process store.           *)
(*                                                                         *)
(* An authorization identifier is the hash of the authorised content; the  *)
(* log stores the hash of the whole signed document, so the same content   *)
(* under two signatures is two log values and one identifier.              *)
(***************************************************************************)
EXTENDS MerkleLog

CONSTANTS
  Signed,      \* signed authorization documents
  Id,          \* Id[s]: authorization identifier
  Nonce,       \* Nonce[id]: authorization nonce
  Cloid,       \* Cloid[id]: reserved Hyperliquid client order identifier, or None
  IntentId,    \* IntentId[id]: the identifier of the authorised intent
  IntentHash,  \* IntentHash[id]: the hash of the authorised intent
  Times,       \* acceptance times
  TxHashes,    \* transactions an authorization may be bound to
  None

Ids == {Id[s] : s \in Signed}
IntentIds == {IntentId[i] : i \in Ids}

ASSUME SignedAssumption ==
  /\ Signed \subseteq DOMAIN Id
  /\ Ids \subseteq DOMAIN Nonce /\ Ids \subseteq DOMAIN Cloid
  /\ Ids \subseteq DOMAIN IntentId /\ Ids \subseteq DOMAIN IntentHash
  /\ None \notin TxHashes /\ \A i \in Ids : IntentHash[i] # None

VARIABLES
  log,           \* authorizationLog: [sequence, signed, acceptedAt, previous, entry]
  nodes,         \* the stored Merkle nodes
  intents,       \* intents[i]: the hash of the stored intent with identifier i
  authorization  \* the accepted authorizations: i :> [signed, sequence, acceptedAt, previous, tx]

storeVars == <<log, nodes, intents, authorization>>

Init ==
  /\ log = <<>>
  /\ nodes = <<>>
  /\ intents = [i \in IntentIds |-> None]
  /\ authorization = <<>>

EntryHash(sequence, s, at, previous) == <<sequence, s, at, previous>>
HeadHash == IF log = <<>> THEN None ELSE Last(log).entry
LogEntry(sequence, s, at, previous) ==
  [sequence |-> sequence, signed |-> s, acceptedAt |-> at, previous |-> previous,
   entry |-> EntryHash(sequence, s, at, previous)]
\* createRecord: the record carries the signed acceptance of its log entry.
Record(entry) ==
  [signed |-> entry.signed, sequence |-> entry.sequence, acceptedAt |-> entry.acceptedAt,
   previous |-> entry.previous, tx |-> None]

Accepted(i) == i \in DOMAIN authorization
NonceUsed(i) == \E j \in Ids : Accepted(j) /\ Nonce[j] = Nonce[i]
CloidUsed(i) == Cloid[i] # None /\ \E j \in Ids : Accepted(j) /\ Cloid[j] = Cloid[i]
IntentConflicts(i) == intents[IntentId[i]] \notin {None, IntentHash[i]}
InLog(s) == \E k \in DOMAIN log : log[k].signed = s

Acceptable(s) ==
  LET i == Id[s] IN ~Accepted(i) /\ ~NonceUsed(i) /\ ~CloidUsed(i) /\ ~IntentConflicts(i)

\* Variant: the new entry names its predecessor's leaf hash.
NextEntryUnhashed(s, at) ==
  LogEntry(Len(log) + 1, s, at, IF log = <<>> THEN None ELSE merkleLeafHash(HeadHash))
NextEntry(s, at) == LogEntry(Len(log) + 1, s, at, HeadHash)

\* saveAcceptedAuthorization: log entry, Merkle nodes, intent and record are written
\* together.  A known identifier returns its record and changes nothing, so a
\* document that is already logged never reaches this point.
Accept(s, at) ==
  LET i == Id[s]
      entry == NextEntry(s, at)
  IN /\ Acceptable(s)
     /\ log' = Append(log, entry)
     /\ nodes' = Written(merkleAppendNodes(entry.sequence, entry.entry, nodes), nodes)
     /\ intents' = [intents EXCEPT ![IntentId[i]] = IntentHash[i]]
     /\ authorization' = Written([id \in {i} |-> Record(entry)], authorization)

\* saveIntent: an intent created without an authorization.
SaveIntent(i) ==
  /\ ~IntentConflicts(i)
  /\ intents' = [intents EXCEPT ![IntentId[i]] = IntentHash[i]]
  /\ UNCHANGED <<log, nodes, authorization>>

Bindable(i) == Accepted(i) /\ authorization[i].tx = None

\* claimAuthorization and bindAuthorization: bind the first transaction; binding
\* the same one again succeeds and changes nothing, another one is refused.
Bind(i, tx) ==
  /\ Bindable(i)
  /\ authorization' = [authorization EXCEPT ![i].tx = tx]
  /\ UNCHANGED <<log, nodes, intents>>

Next ==
  \/ \E s \in Signed, at \in Times : Accept(s, at)
  \/ \E i \in Ids : SaveIntent(i)
  \/ \E i \in Ids, tx \in TxHashes : Bind(i, tx)

Spec == Init /\ [][Next]_storeVars

-------------------------------------------------------------------------------
(* Properties *)

\* The type invariant of the store's tables.
TypeOK ==
  /\ \A k \in DOMAIN log :
       log[k] \in [sequence : Nat, signed : Signed, acceptedAt : Times,
                   previous : {None} \cup {log[j].entry : j \in DOMAIN log}, entry : {log[k].entry}]
  /\ intents \in [IntentIds -> {IntentHash[i] : i \in Ids} \cup {None}]
  /\ DOMAIN authorization \subseteq Ids
  /\ \A i \in Ids : Accepted(i) => authorization[i].tx \in TxHashes \cup {None}

\* The log is one contiguous hash chain, and holds each document at most once.
LogIsChained ==
  \A k \in DOMAIN log :
    /\ log[k] = LogEntry(k, log[k].signed, log[k].acceptedAt, IF k = 1 THEN None ELSE log[k - 1].entry)
    /\ \A j \in DOMAIN log : Id[log[j].signed] = Id[log[k].signed] => j = k

\* The accepted authorizations and the log agree: every record carries the log
\* entry of its own document, every log entry has its record, and the intent
\* the record authorises is the one stored.
AcceptedIsLogged ==
  /\ \A i \in Ids : Accepted(i) =>
       /\ Id[authorization[i].signed] = i
       /\ authorization[i].sequence \in DOMAIN log
       /\ Record(log[authorization[i].sequence]) = [authorization[i] EXCEPT !.tx = None]
       /\ intents[IntentId[i]] = IntentHash[i]
  /\ \A k \in DOMAIN log : Accepted(Id[log[k].signed])

\* No two accepted authorizations share a nonce or a client order identifier.
ReservationsAreUnique ==
  \A i, j \in Ids : (Accepted(i) /\ Accepted(j) /\ i # j) =>
    Nonce[i] # Nonce[j] /\ (Cloid[i] # None => Cloid[i] # Cloid[j])

\* The log only grows, a stored node is never rewritten, and an authorization
\* keeps its acceptance and the first transaction it was bound to.
HistoryIsImmutable ==
  [][ /\ IsPrefix(log, log')
      /\ \A node \in DOMAIN nodes : node \in DOMAIN nodes' /\ nodes'[node] = nodes[node]
      /\ \A i \in Ids : Accepted(i) =>
           /\ Accepted(i)'
           /\ \/ authorization'[i] = authorization[i]
              \/ /\ authorization[i].tx = None
                 /\ [authorization'[i] EXCEPT !.tx = None] = authorization[i]
    ]_storeVars
===============================================================================
