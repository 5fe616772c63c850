--------------------------- MODULE D1EvidenceStore ---------------------------
(***************************************************************************)
(* Recording evidence on Cloudflare D1 while authorizations are accepted.  *)
(* saveObservationReceipt looks for the receipt it is about to write, then *)
(* binds the authorization and inserts observation and receipt in one      *)
(* batch.  An update that matches no row does not roll a batch back, so    *)
(* the inserts carry a guard of their own; a receipt that another Worker   *)
(* inserted meanwhile does, and the call looks again, once.                *)
(*                                                                         *)
(* The requests of D1AuthorizationStore run beside the savers; what they   *)
(* know of them is OtherBinding.                                           *)
(***************************************************************************)
EXTENDS D1AuthorizationStore

CONSTANTS
  Savers,        \* concurrent calls of saveObservationReceipt
  Observations,  \* what may be observed of a transaction, each with a status
  Finals,        \* the <<authorization, transaction, observation>> that claim
  Saves          \* Saves[load]: what the savers may present beside load; save[s] is
                 \* [authorization, tx, observation, issuedAt]

EvidenceIds == (Ids \cup {None}) \X TxHashes \X Observations

ASSUME SaveAssumption ==
  /\ Saves \in [Loads -> SUBSET [Savers -> [authorization : Ids \cup {None}, tx : TxHashes,
                                           observation : Observations, issuedAt : Times]]]
  /\ Finals \subseteq Ids \X TxHashes \X Observations
  /\ \A id \in Finals : id[3].status \in {"CONFIRMED", "REVERTED"}
  /\ None \notin Ids

VARIABLES
  history,   \* history[tx]: the distinct observations of tx, oldest first
  receipts,  \* receipts[<<authorization, tx, observation>>]: its issue time
  save,      \* what the savers of this behaviour present
  saver      \* saver[s]: [at, known, attempt]: the statement s runs next, whether it
             \* found its receipt, and how many of its batches were rejected

evidence == <<history, receipts>>
evidenceVars == <<log, nodes, intents, authorization, load, pc, draft, addition, attempts, reply,
                  history, receipts, save, saver>>

EvidenceInit ==
  /\ RequestsInit
  /\ history = [tx \in TxHashes |-> <<>>]
  /\ receipts = <<>>
  /\ save \in Saves[load]
  /\ saver = [s \in Savers |-> [at |-> "readReceipt", known |-> FALSE, attempt |-> 0]]

Subject(s) == save[s].authorization
Tx(s) == save[s].tx
Observation(s) == save[s].observation
ReceiptId(s) == <<Subject(s), Tx(s), Observation(s)>>
Claims(s) == ReceiptId(s) \in Finals
Stored(s) == ReceiptId(s) \in DOMAIN receipts
Ends == {"saved", "alreadyUsed", "notFound", "receiptConflict", "failed", "crashed"}

Proceed(s, label) == saver' = [saver EXCEPT ![s].at = label]

-------------------------------------------------------------------------------
(* saveObservationReceipt *)

\* Variant: a stored receipt is taken for the one to be written.
ReceiptDiffersUnchecked(s) == FALSE
\* assertReceiptIdentity: the identifier covers the observation, not the issue time.
ReceiptDiffers(s) == Stored(s) /\ receipts[ReceiptId(s)] # save[s].issuedAt

\* The caller has read the authorization it observes for.
ReadReceipt(s) ==
  /\ saver[s].at = "readReceipt"
  /\ Subject(s) # None => Accepted(Subject(s))
  /\ \/ ReceiptDiffers(s) /\ Proceed(s, "receiptConflict")
     \/ ~ReceiptDiffers(s) /\ saver' = [saver EXCEPT ![s].at = "batch", ![s].known = Stored(s)]
  /\ UNCHANGED <<storeVars, evidence>>

\* The update of the authorization finds a row to bind, or one bound to the same transaction.
Matched(s) ==
  Claims(s) => Accepted(Subject(s)) /\ authorization[Subject(s)].tx \in {None, Tx(s)}
\* Variant: the inserts follow the update whatever it matched.
InsertsAlways(s) == TRUE
\* The guard of the inserts: the row is bound to the transaction by now.
Inserts(s) == Matched(s)
\* Only the receipt's identifier makes a batch fail; the observation is inserted once.
Rejected(s) == Inserts(s) /\ ~saver[s].known /\ Stored(s)
Binds(s) == Claims(s) /\ Matched(s) /\ authorization[Subject(s)].tx = None
Added(observations, o) ==
  IF \E k \in DOMAIN observations : observations[k] = o THEN observations ELSE Append(observations, o)

SaveBatch(s) ==
  /\ saver[s].at = "batch"
  /\ ~Rejected(s)
  /\ authorization' = IF Binds(s) THEN [authorization EXCEPT ![Subject(s)].tx = Tx(s)] ELSE authorization
  /\ \/ /\ Inserts(s)
        /\ history' = [history EXCEPT ![Tx(s)] = Added(@, Observation(s))]
        /\ receipts' = IF saver[s].known THEN receipts
                       ELSE Written([id \in {ReceiptId(s)} |-> save[s].issuedAt], receipts)
     \/ ~Inserts(s) /\ UNCHANGED evidence
  /\ Proceed(s, IF Matched(s) THEN "saved" ELSE "readRefused")
  /\ UNCHANGED <<log, nodes, intents>>

RejectSave(s) ==
  /\ saver[s].at = "batch"
  /\ Rejected(s)
  /\ Proceed(s, "readLost")
  /\ UNCHANGED <<storeVars, evidence>>

ReadRefused(s) ==
  /\ saver[s].at = "readRefused"
  /\ Proceed(s, IF Accepted(Subject(s)) THEN "alreadyUsed" ELSE "notFound")
  /\ UNCHANGED <<storeVars, evidence>>

\* Variant: a rejected batch is not tried again.
RetriesNever(s) == FALSE
\* One retry, if the receipt is there now.
Retries(s) == saver[s].attempt = 0 /\ Stored(s)
ReadLost(s) ==
  /\ saver[s].at = "readLost"
  /\ \/ Retries(s) /\ saver' = [saver EXCEPT ![s].at = "readReceipt", ![s].attempt = 1]
     \/ ~Retries(s) /\ Proceed(s, "failed")
  /\ UNCHANGED <<storeVars, evidence>>

\* The Worker stops after its first statement.
SaverCrash(s) ==
  /\ saver[s].at \notin Ends \cup {"readReceipt"}
  /\ Proceed(s, "crashed")
  /\ UNCHANGED <<storeVars, evidence>>

SaveStep(s) == ReadReceipt(s) \/ SaveBatch(s) \/ RejectSave(s) \/ ReadRefused(s) \/ ReadLost(s)

-------------------------------------------------------------------------------

AcceptStep(r) == Step(r) /\ UNCHANGED <<load, history, receipts, save, saver>>
ObserveStep(s) == SaveStep(s) /\ UNCHANGED <<load, pc, draft, addition, attempts, reply, save>>

EvidenceNext ==
  \/ \E r \in Requests : AcceptStep(r)
  \/ /\ \/ \E r \in Requests : Crash(r)
        \/ \E i \in Presented : OtherIntent(i)
     /\ UNCHANGED <<load, history, receipts, save, saver>>
  \/ \E s \in Savers : ObserveStep(s)
  \/ \E s \in Savers : SaverCrash(s) /\ UNCHANGED <<load, pc, draft, addition, attempts, reply, save>>

EvidenceSpec == EvidenceInit /\ [][EvidenceNext]_evidenceVars
\* A Worker that is not stopped gets its next statement executed.
FairSpec ==
  /\ EvidenceSpec
  /\ \A r \in Requests : WF_evidenceVars(AcceptStep(r))
  /\ \A s \in Savers : WF_evidenceVars(ObserveStep(s))

-------------------------------------------------------------------------------
(* Properties *)

\* The type invariant of the tables and of both kinds of calls.
EvidenceTypeOK ==
  /\ RequestsTypeOK
  /\ DOMAIN receipts \subseteq EvidenceIds
  /\ \A tx \in TxHashes : \A k \in DOMAIN history[tx] : history[tx][k] \in Observations
  /\ saver \in [Savers -> [at : Ends \cup {"readReceipt", "batch", "readRefused", "readLost"},
                           known : BOOLEAN, attempt : 0..1]]

\* A save that succeeded left its observation, its own receipt and its binding, which
\* no later call takes away; one that was refused left nothing, because its
\* authorization was bound to another transaction, or its receipt issued otherwise.
SavesAreJustified ==
  \A s \in Savers :
    /\ saver[s].at = "saved" =>
         /\ \E k \in DOMAIN history[Tx(s)] : history[Tx(s)][k] = Observation(s)
         /\ Stored(s) /\ receipts[ReceiptId(s)] = save[s].issuedAt
         /\ Claims(s) => authorization[Subject(s)].tx = Tx(s)
    /\ saver[s].at = "alreadyUsed" =>
         authorization[Subject(s)].tx \notin {None, Tx(s)} /\ ~Stored(s)
    /\ saver[s].at = "receiptConflict" => Stored(s) /\ receipts[ReceiptId(s)] # save[s].issuedAt

\* Every answer, of an acceptance or of a save, is backed by the tables and stays so.
CallsAreJustified == AnswersAreJustified /\ SavesAreJustified

\* One retry is enough for a save that lost its receipt to another Worker, and an
\* authorization that was observed for is there when the refusal is diagnosed.
SavesNeverFail == \A s \in Savers : saver[s].at \notin {"failed", "notFound"}

\* No call ends in a rethrown database error: a rejected batch of either kind is
\* always explained.
CallsAreExplained == FailuresAreExplained /\ SavesNeverFail

Status(i) == IF ~Accepted(i) THEN "ABSENT" ELSE IF authorization[i].tx = None THEN "ACCEPTED" ELSE "BOUND"
Lifecycle == INSTANCE EvidenceLifecycle WITH
  Authorizations <- Ids,
  Transactions <- TxHashes,
  status <- [i \in Ids |-> Status(i)],
  bound <- [i \in Ids |-> IF Accepted(i) THEN authorization[i].tx ELSE None],
  versions <- history,
  issued <- {[authorization |-> id[1], tx |-> id[2], observation |-> id[3],
              association |-> IF id \in Finals THEN "FINAL" ELSE "UNRELATED"] : id \in DOMAIN receipts}
ImplementsLifecycle == Lifecycle!LifecycleSpec

\* The statement sequences implement the indivisible store, and with it the life
\* cycle of the evidence: an authorization is consumed once, in the batch that
\* records its final observation and issues its receipt.
ImplementsTables == ImplementsStore /\ ImplementsLifecycle

\* Sooner or later every call whose Worker is not lost has been answered.
CallsAreAnswered ==
  <>[](/\ \A r \in Requests : pc[r] \in {"done", "crashed"}
       /\ \A s \in Savers : (Subject(s) # None => Accepted(Subject(s))) => saver[s].at \in Ends)
===============================================================================
