------------------------ MODULE D1AuthorizationStore ------------------------
(***************************************************************************)
(* Accepting authorizations on Cloudflare D1.  A request reads the tables  *)
(* in a series of awaited statements, drafts the next log entry from the   *)
(* head it saw (the acceptance receipt inside the record is signed over    *)
(* that entry), and commits entry, Merkle nodes, intent and record in one  *)
(* batch whose unique constraints reject it if anything it relied on has   *)
(* changed.  A rejected batch is diagnosed by further reads and, if only   *)
(* its sequence number was taken, drafted again.                           *)
(*                                                                         *)
(* The tables are those of AuthorizationStore, whose specification Spec is *)
(* what the requests implement.                                            *)
(***************************************************************************)
EXTENDS AuthorizationStore

CONSTANTS
  Requests,     \* concurrent accept requests
  Loads,        \* Loads: what they may present; load[r] is [document, time], the signed
                \* document and the acceptance time computed on its arrival
  MaxAttempts   \* append attempts per request

ASSUME RequestAssumption ==
  /\ \A load \in Loads : load \in [Requests -> [document : Signed, time : Times]]
  /\ MaxAttempts \in Nat \ {0}

VARIABLES
  load,      \* what the requests of this behaviour present
  pc,        \* pc[r]: the statement request r runs next
  draft,     \* draft[r]: the log entry r wants to append, or None
  addition,  \* addition[r]: the Merkle nodes r computed for its draft
  attempts,  \* attempts[r]: append attempts that were rejected
  reply      \* reply[r]: [kind, record] returned to r

vars == <<log, nodes, intents, authorization, load, pc, draft, addition, attempts, reply>>

Document(r) == load[r].document
IdOf(r) == Id[Document(r)]
Reply(kind, record) == [kind |-> kind, record |-> record]

RequestsInit ==
  /\ Init
  /\ load \in Loads
  /\ pc = [r \in Requests |-> "readSaved"]
  /\ draft = [r \in Requests |-> None]
  /\ addition = [r \in Requests |-> <<>>]
  /\ attempts = [r \in Requests |-> 0]
  /\ reply = [r \in Requests |-> Reply("none", None)]

Goto(r, label) == pc' = [pc EXCEPT ![r] = label]
Return(r, kind, record) == Goto(r, "done") /\ reply' = [reply EXCEPT ![r] = Reply(kind, record)]
ReadOnly == UNCHANGED <<log, nodes, intents, authorization, draft, addition, attempts>>

\* A statement that reads one condition: refuse the request, or go on.
Check(r, label, condition, kind, next) ==
  /\ pc[r] = label
  /\ \/ condition /\ Return(r, kind, None)
     \/ ~condition /\ Goto(r, next) /\ UNCHANGED reply
  /\ ReadOnly

\* getAuthorization: a stored record is the answer.
Lookup(r, label, next) ==
  /\ pc[r] = label
  /\ \/ Accepted(IdOf(r)) /\ Return(r, "accepted", authorization[IdOf(r)])
     \/ ~Accepted(IdOf(r)) /\ Goto(r, next) /\ UNCHANGED reply
  /\ ReadOnly

-------------------------------------------------------------------------------
(* Before the append *)

ReadSaved(r) == Lookup(r, "readSaved", "readNonce")
ReadNonce(r) == Check(r, "readNonce", NonceUsed(IdOf(r)), "nonceReused", "readCloid")
ReadCloid(r) == Check(r, "readCloid", CloidUsed(IdOf(r)), "cloidReused", "readIntent")
ReadIntent(r) == Check(r, "readIntent", IntentConflicts(IdOf(r)), "duplicateIntent", "readLogged")

\* A document that is logged by now gets its record inserted under that entry.
ReadLogged(r) ==
  /\ pc[r] = "readLogged"
  /\ Goto(r, IF InLog(Document(r)) THEN "insertLogged" ELSE "readHead")
  /\ UNCHANGED <<storeVars, draft, addition, attempts, reply>>

\* The entry was committed together with its record, whose identifier rejects the insert.
InsertLogged(r) ==
  /\ pc[r] = "insertLogged"
  /\ Accepted(IdOf(r))
  /\ Goto(r, "readWinner")
  /\ UNCHANGED <<storeVars, draft, addition, attempts, reply>>
ReadWinner(r) == Lookup(r, "readWinner", "failed")

-------------------------------------------------------------------------------
(* The append *)

ReadHead(r) ==
  /\ pc[r] = "readHead"
  /\ draft' = [draft EXCEPT ![r] = NextEntry(Document(r), load[r].time)]
  /\ Goto(r, "readNodes")
  /\ UNCHANGED <<storeVars, addition, attempts, reply>>

\* merkleStatements: one batch reads the left halves, then the new nodes are computed.
ReadNodes(r) ==
  LET entry == draft[r]
      readable == LeftHalves(entry.sequence) \subseteq DOMAIN nodes
  IN /\ pc[r] = "readNodes"
     /\ addition' = [addition EXCEPT ![r] =
          IF readable THEN merkleAppendNodes(entry.sequence, entry.entry, nodes) ELSE <<>>]
     /\ Goto(r, IF readable THEN "commit" ELSE "failed")
     /\ UNCHANGED <<storeVars, draft, attempts, reply>>

\* Variant: the sequence number is not unique.
SequenceFreeUnchecked(r) == ~InLog(Document(r))
\* The unique constraints of the log and of the node index.
SequenceFree(r) ==
  /\ draft[r].sequence \notin DOMAIN log
  /\ ~InLog(Document(r))
  /\ DOMAIN addition[r] \cap DOMAIN nodes = {}
\* Variant: neither the nonce nor the client order identifier is a unique column.
RecordAdmittedLoose(r) == ~Accepted(IdOf(r)) /\ ~IntentConflicts(IdOf(r))
\* The unique columns of the record, and its reference to the stored intent: the
\* intent insert does nothing on a conflicting hash, so the reference dangles.
RecordAdmitted(r) == Acceptable(Document(r))
Committable(r) == SequenceFree(r) /\ RecordAdmitted(r)

Commit(r) ==
  LET i == IdOf(r)
      record == Record(draft[r])
  IN /\ pc[r] = "commit"
     /\ Committable(r)
     /\ log' = Append(log, draft[r])
     /\ nodes' = Written(addition[r], nodes)
     /\ intents' = [intents EXCEPT ![IntentId[i]] = IntentHash[i]]
     /\ authorization' = Written([id \in {i} |-> record], authorization)
     /\ Return(r, "accepted", record)
     /\ UNCHANGED <<draft, addition, attempts>>

\* The batch is rolled back as a whole.
Reject(r) ==
  /\ pc[r] = "commit"
  /\ ~Committable(r)
  /\ Goto(r, "lostSaved")
  /\ UNCHANGED <<storeVars, draft, addition, attempts, reply>>

-------------------------------------------------------------------------------
(* After a rejected batch *)

LostSaved(r) == Lookup(r, "lostSaved", "lostNonce")
\* Variant: the client order identifier is not looked at.
LostCloidSkipped(r) == Check(r, "lostCloid", FALSE, "cloidReused", "lostIntent")
LostNonce(r) == Check(r, "lostNonce", NonceUsed(IdOf(r)), "nonceReused", "lostCloid")
LostCloid(r) == Check(r, "lostCloid", CloidUsed(IdOf(r)), "cloidReused", "lostIntent")
LostIntent(r) == Check(r, "lostIntent", IntentConflicts(IdOf(r)), "duplicateIntent", "lostSequence")

\* Variant: the rejected draft is committed again.
LostSequenceSameDraft(r) ==
  /\ pc[r] = "lostSequence"
  /\ Goto(r, "commit")
  /\ UNCHANGED <<storeVars, draft, addition, attempts, reply>>

\* A taken sequence number is the only reason to try again.
LostSequence(r) ==
  /\ pc[r] = "lostSequence"
  /\ IF draft[r].sequence \notin DOMAIN log
     THEN Goto(r, "failed") /\ UNCHANGED <<attempts, reply>>
     ELSE /\ attempts' = [attempts EXCEPT ![r] = @ + 1]
          /\ IF attempts[r] + 1 < MaxAttempts
             THEN Goto(r, "readHead") /\ UNCHANGED reply
             ELSE Return(r, "contention", None)
  /\ UNCHANGED <<storeVars, draft, addition>>

-------------------------------------------------------------------------------
(* Other requests, and the loss of a Worker *)

requestVars == <<pc, draft, addition, attempts, reply>>
\* Other requests create the intents that are about to be authorised.
Presented == {IdOf(r) : r \in Requests}
OtherIntent(i) == SaveIntent(i) /\ UNCHANGED requestVars
OtherBinding(i, tx) == Bind(i, tx) /\ UNCHANGED requestVars

Crash(r) ==
  /\ pc[r] \notin {"done", "failed", "crashed"}
  /\ Goto(r, "crashed")
  /\ UNCHANGED <<storeVars, draft, addition, attempts, reply>>

Step(r) ==
  \/ ReadSaved(r) \/ ReadNonce(r) \/ ReadCloid(r) \/ ReadIntent(r)
  \/ ReadLogged(r) \/ InsertLogged(r) \/ ReadWinner(r)
  \/ ReadHead(r) \/ ReadNodes(r) \/ Commit(r) \/ Reject(r)
  \/ LostSaved(r) \/ LostNonce(r) \/ LostCloid(r) \/ LostIntent(r) \/ LostSequence(r)

RequestsNext ==
  /\ \/ \E r \in Requests : Step(r) \/ Crash(r)
     \/ \E i \in Presented : OtherIntent(i)
     \/ \E i \in Ids, tx \in TxHashes : OtherBinding(i, tx)
  /\ UNCHANGED load

RequestsSpec == RequestsInit /\ [][RequestsNext]_vars

-------------------------------------------------------------------------------
(* Properties *)

\* The type invariant of the tables and the request bookkeeping.
RequestsTypeOK ==
  /\ TypeOK
  /\ attempts \in [Requests -> 0..MaxAttempts]
  /\ \A r \in Requests :
       /\ draft[r] = None \/ draft[r].signed = Document(r)
       /\ reply[r].kind \in {"none", "accepted", "nonceReused", "cloidReused",
                             "duplicateIntent", "contention"}

\* The D1 statement sequences implement the indivisible store methods: with the
\* identity as refinement mapping, a request that commits is one Accept.
ImplementsStore == Spec

\* An acceptance names a committed log entry of the caller's own authorization.
AcceptancesAreLogged ==
  \A r \in Requests : reply[r].kind = "accepted" =>
    LET record == reply[r].record
    IN /\ Id[record.signed] = IdOf(r)
       /\ record.sequence \in DOMAIN log
       /\ Record(log[record.sequence]) = [record EXCEPT !.tx = None]
       /\ authorization[IdOf(r)].sequence = record.sequence

\* A refused nonce or client order identifier is held by an accepted
\* authorization; a refused intent differs from the stored one.
RefusalsAreJustified ==
  \A r \in Requests :
    /\ reply[r].kind = "nonceReused" => NonceUsed(IdOf(r))
    /\ reply[r].kind = "cloidReused" => CloidUsed(IdOf(r))
    /\ reply[r].kind = "duplicateIntent" => IntentConflicts(IdOf(r))

\* Every answer handed to a caller is backed by the tables, and stays so.  The
\* acceptance receipt was signed before the batch commits, yet none of a rejected
\* draft ever gets out; a refusal, found after the batch was rejected, is the truth.
AnswersAreJustified == AcceptancesAreLogged /\ RefusalsAreJustified

\* A rejected batch is always explained: no request ends in a rethrown database
\* error or finds the Merkle index incomplete, whatever commits interleave; and
\* one gives up for contention only if the log grew on each of its attempts.
FailuresAreExplained ==
  \A r \in Requests :
    /\ pc[r] # "failed"
    /\ reply[r].kind = "contention" => Len(log) >= MaxAttempts
===============================================================================
