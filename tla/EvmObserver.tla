----------------------------- MODULE EvmObserver -----------------------------
(***************************************************************************)
(* observeEvm: the configured RPC endpoints are asked one after the other  *)
(* for a transaction.  The first that shows it mined decides; endpoints    *)
(* that fail are skipped; if none shows it mined the answer is what the    *)
(* others left behind.  An endpoint's answers are external: any of them    *)
(* may lag, fail or follow another fork.                                   *)
(***************************************************************************)
EXTENDS Naturals, FiniteSets

CONSTANTS Blocks, None

\* What one endpoint says: an error (or evidence that fails a consistency check),
\* no such transaction, a transaction without a receipt, or a receipt in a block
\* that is final as required, not final yet, or not canonical at its height.
EndpointAnswers ==
  [kind : {"error", "missing", "unmined"}, block : {None}]
  \cup [kind : {"reverted", "successful", "shallow", "orphaned"}, block : Blocks]

Observation(status, block) == [status |-> status, block |-> block]
Statuses == {"NOT_FOUND", "PENDING", "CONFIRMED", "REVERTED", "REORGED"}

Mined(answer) == answer.block # None
MinedStatus ==
  [reverted |-> "REVERTED", successful |-> "CONFIRMED", shallow |-> "PENDING", orphaned |-> "REORGED"]

FirstMinedOf(answers) ==
  CHOOSE k \in DOMAIN answers : Mined(answers[k]) /\ \A j \in 1..(k - 1) : ~Mined(answers[j])
SomeSay(answers, kind) == \E k \in DOMAIN answers : answers[k].kind = kind

\* The whole loop; None when every endpoint failed.
observeEvm(answers) ==
  IF \E k \in DOMAIN answers : Mined(answers[k])
  THEN LET answer == answers[FirstMinedOf(answers)]
       IN Observation(MinedStatus[answer.kind], answer.block)
  ELSE IF SomeSay(answers, "unmined") THEN Observation("PENDING", None)
  ELSE IF SomeSay(answers, "missing") THEN Observation("NOT_FOUND", None)
  ELSE None
===============================================================================
