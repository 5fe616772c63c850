-------------------------- MODULE EvidenceLifecycle --------------------------
(***************************************************************************)
(* What the evidence of an authorization goes through, whoever works on it *)
(* and whatever fails: it is accepted once and consumed by at most one     *)
(* transaction, in the same step that records the final observation and    *)
(* issues its receipt; observations accumulate, and receipts stay as they  *)
(* were issued.                                                            *)
(***************************************************************************)
EXTENDS Naturals, Sequences

CONSTANTS
  Authorizations,  \* authorization identifiers
  Transactions,    \* transaction hashes
  Observations,    \* what may be observed of a transaction, each with a status
  None

VARIABLES
  status,    \* status[i]: "ABSENT", "ACCEPTED" or "BOUND"
  bound,     \* bound[i]: the transaction that consumed i, or None
  versions,  \* versions[tx]: the recorded observations of tx, oldest first
  issued     \* the receipts: [authorization, tx, observation, association]

lifecycleVars == <<status, bound, versions, issued>>

FinalStatuses == {"CONFIRMED", "REVERTED"}

LifecycleInit ==
  /\ status = [i \in Authorizations |-> "ABSENT"]
  /\ bound = [i \in Authorizations |-> None]
  /\ versions = [tx \in Transactions |-> <<>>]
  /\ issued = {}

AcceptAuthorization(i) ==
  /\ status[i] = "ABSENT"
  /\ status' = [status EXCEPT ![i] = "ACCEPTED"]
  /\ UNCHANGED <<bound, versions, issued>>

Adds(tx, observation) == versions' = [versions EXCEPT ![tx] = Append(@, observation)]
Has(tx, observation) ==
  versions' = versions /\ \E k \in DOMAIN versions[tx] : versions[tx][k] = observation
\* One observation of tx is recorded, or was, and a receipt for it stands, for
\* authorization i or, if i is None, for an intent alone.
Record(i, tx, observation, association) ==
  /\ Adds(tx, observation) \/ Has(tx, observation)
  /\ issued' = issued \cup {[authorization |-> i, tx |-> tx, observation |-> observation,
                             association |-> association]}

RecordEvidence(i, tx, observation, association) ==
  /\ association # "FINAL"
  /\ Record(i, tx, observation, association)
  /\ UNCHANGED <<status, bound>>

Consume(i, tx, observation) ==
  /\ observation.status \in FinalStatuses
  /\ status[i] = "ACCEPTED" \/ bound[i] = tx
  /\ Record(i, tx, observation, "FINAL")
  /\ status' = [status EXCEPT ![i] = "BOUND"]
  /\ bound' = [bound EXCEPT ![i] = tx]

LifecycleNext ==
  \/ \E i \in Authorizations : AcceptAuthorization(i)
  \/ \E tx \in Transactions : \E observation \in {o \in Observations : Adds(tx, o) \/ Has(tx, o)} :
       \/ \E i \in Authorizations \cup {None}, association \in {"CANDIDATE", "UNRELATED", "NONE"} :
            RecordEvidence(i, tx, observation, association)
       \/ \E i \in Authorizations : Consume(i, tx, observation)

LifecycleSpec == LifecycleInit /\ [][LifecycleNext]_lifecycleVars

-------------------------------------------------------------------------------
(* Properties *)

\* An authorization is bound exactly when a final receipt says so: its final
\* receipts are all for the transaction it is bound to, and a bound one has a
\* final receipt, whose observation is on record.
BindingsAreEvidenced ==
  /\ \A i \in Authorizations : status[i] = "BOUND" =>
       \E receipt \in issued :
         receipt.authorization = i /\ receipt.tx = bound[i] /\ receipt.association = "FINAL"
  /\ \A receipt \in issued :
       /\ \E k \in DOMAIN versions[receipt.tx] : versions[receipt.tx][k] = receipt.observation
       /\ receipt.association = "FINAL" =>
            /\ receipt.observation.status \in FinalStatuses
            /\ status[receipt.authorization] = "BOUND"
            /\ bound[receipt.authorization] = receipt.tx
===============================================================================
