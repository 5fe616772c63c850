----------------------------- MODULE X402Delivery -----------------------------
(***************************************************************************)
(* Paid GET delivery over x402: a request presents a signed payment, the   *)
(* facilitator verifies it, the handler runs, the payment is settled, and  *)
(* only then is the captured response delivered.  A credit-pack checkout   *)
(* is such a GET; its handler authorises a purchase in the prepaid-credit  *)
(* ledger (module AgentMeterStore), which is settled between the payment   *)
(* and the delivery.  Each exit writes an event to the payment ledger.     *)
(*                                                                         *)
(* Requests without a payment header are answered 402 and change nothing;  *)
(* they are left out.  The facilitators and the payment networks are       *)
(* external: what they may answer is taken from how the code reads it.     *)
(***************************************************************************)
EXTENDS AgentMeterStore

CONSTANTS
  Payments,  \* signed payments, each for one resource: a payment-ledger identifier
  Rail,      \* Rail[p]: "standard", or "hypercore" for native HyperCore USDC
  Whole,     \* Whole[p]: whether the amount has no decimals, in the unit of its rail
  Requests,  \* HTTP requests made during the behaviour
  Loads      \* the assignments of payments to requests that are explored

\* A credit-pack purchase identifier is derived from the payment-ledger identifier.
ASSUME PaymentAssumption ==
  /\ Purchases \subseteq Payments
  /\ Rail \in [Payments -> {"standard", "hypercore"}]
  /\ Whole \in [Payments -> BOOLEAN]
  /\ Loads \subseteq [Requests -> Payments]

VARIABLES
  payment,   \* payment[p]: what the payment network did with p
  presents,  \* presents[r]: the payment request r carries
  stage,     \* stage[r]: what r does next
  response,  \* response[r]: the answer r has sent
  events,    \* events[p]: the types of the payment-ledger events recorded for p
  handled,   \* requests whose handler answered 2xx
  late,      \* requests whose handler goes on after the request deadline
  unwritten  \* history: payments for which a store write failed

localVars == <<presents, stage, response, handled>>
deliveryVars == <<payment, presents, stage, response, events, handled, late, unwritten>>
x402Vars == <<storeVars, deliveryVars>>

DeliveryInit ==
  /\ Init
  /\ payment = [p \in Payments |-> "unspent"]
  /\ presents \in Loads
  /\ stage = [r \in Requests |-> "start"]
  /\ response = [r \in Requests |-> "none"]
  /\ events = [p \in Payments |-> {}]
  /\ handled = {}
  /\ late = {}
  /\ unwritten = {}

Enter(r, label) == stage' = [stage EXCEPT ![r] = label] /\ UNCHANGED response

\* sendJson: a response that was sent is not sent again.
Send(r, status) == response' = [response EXCEPT ![r] = IF @ = "none" THEN status ELSE @]
Answer(r, status) == stage' = [stage EXCEPT ![r] = "done"] /\ Send(r, status)

-------------------------------------------------------------------------------
(* The payment ledger *)

\* buildX402PaymentLedgerEvent refuses a requirement with a decimal amount, and
\* a settlement whose transaction is not one of an EVM chain or of Solana: every
\* settlement of the HyperCore rail.
Buildable(p, type) ==
  Rail[p] = "standard" \/ (Whole[p] /\ type \notin {"SETTLEMENT_FAILED", "DELIVERED"})

Append(p, type) ==
  /\ Buildable(p, type)
  /\ events' = [events EXCEPT ![p] = @ \cup {type}]
  /\ UNCHANGED unwritten

\* The event cannot be built, or the store is unavailable.
AppendFails(p, type) ==
  /\ unwritten' = IF Buildable(p, type) THEN unwritten \cup {p} ELSE unwritten
  /\ UNCHANGED events

AppendTried(p, type) == Append(p, type) \/ AppendFails(p, type)

-------------------------------------------------------------------------------
(* The facilitators *)

\* verify: a standard facilitator accepts what is not executed yet; the HyperCore
\* coordinator also accepts a payment it has already submitted.
Verifiable(p) == Rail[p] = "hypercore" \/ payment[p] # "executed"

\* settle: what the facilitator may answer, and what becomes of the payment.  A
\* lost answer (an error, a timeout or the request deadline) says nothing.
SettleAnswers(p) ==
  [answer : {"success"}, becomes : {"executed"}]
  \cup [answer : {"failed"}, becomes : {payment[p]}]
  \cup (IF payment[p] = "executed" THEN {} ELSE [answer : {"pending"}, becomes : {"pending"}])
  \cup [answer : {"lost"}, becomes : IF payment[p] = "executed" THEN {"executed"}
                                     ELSE {payment[p], "pending", "executed"}]

\* A submitted payment is executed or dropped by its network.
Confirm(p) ==
  /\ payment[p] = "pending"
  /\ payment' \in {[payment EXCEPT ![p] = "executed"], [payment EXCEPT ![p] = "unspent"]}
  /\ UNCHANGED <<storeVars, localVars, events, late, unwritten>>

-------------------------------------------------------------------------------
(* One paid request *)

\* Rate limit and verification; the payment is authorised, or the request is
\* refused (400, 402, 429, 503) with nothing recorded.
Prepare(r) ==
  /\ stage[r] = "start"
  /\ \/ Verifiable(presents[r]) /\ Enter(r, "authorize")
     \/ Answer(r, "refused")
  /\ UNCHANGED <<storeVars, payment, presents, events, handled, late, unwritten>>

\* Variant: a failed PAYMENT_AUTHORIZED write does not stop the request.
AuthorizeLenient(r) ==
  /\ stage[r] = "authorize"
  /\ AppendTried(presents[r], "PAYMENT_AUTHORIZED")
  /\ Enter(r, "handler")
  /\ UNCHANGED <<storeVars, payment, presents, handled, late>>

\* PAYMENT_AUTHORIZED must be recorded before the handler runs.
Authorize(r) ==
  LET p == presents[r]
  IN /\ stage[r] = "authorize"
     /\ \/ Append(p, "PAYMENT_AUTHORIZED") /\ Enter(r, "handler")
        \/ AppendFails(p, "PAYMENT_AUTHORIZED") /\ Answer(r, "unavailable")
     /\ UNCHANGED <<storeVars, payment, presents, handled, late>>

\* A checkout's handler first checks the account.
CheckAccount(r) ==
  LET p == presents[r]
  IN /\ stage[r] = "handler"
     /\ p \in Purchases
     /\ \/ Active(PurchaseAccount[p]) /\ Enter(r, "purchase")
        \/ Enter(r, "withhold")
     /\ UNCHANGED <<storeVars, payment, presents, events, handled, late, unwritten>>

AtHandler(r) == stage[r] = IF presents[r] \in Purchases THEN "purchase" ELSE "handler"

\* What a handler does before it answers 2xx: a checkout authorises its purchase,
\* or finds it authorised; an ordinary resource changes nothing here.
HandlerWork(r) ==
  LET p == presents[r]
  IN \/ p \in Purchases /\ AuthorizePurchase(p)
     \/ (p \in Purchases => ~Unauthorized(p)) /\ UNCHANGED storeVars

\* The handler answers within the request deadline; the answer is captured.
Handle(r) ==
  /\ AtHandler(r)
  /\ HandlerWork(r)
  /\ handled' = handled \cup {r}
  /\ Enter(r, "settle")
  /\ UNCHANGED <<payment, presents, events, late, unwritten>>

\* The handler fails, or the deadline answers 504 for a handler that goes on.
HandlerFails(r) ==
  /\ AtHandler(r)
  /\ late' \in {late, late \cup {r}}
  /\ Enter(r, "withhold")
  /\ UNCHANGED <<storeVars, payment, presents, events, handled, unwritten>>

\* A handler ends after the deadline.  Capturing is over, so its answer is sent,
\* unless the 504 was sent before it.
LateHandler(r) ==
  /\ r \in late
  /\ late' = late \ {r}
  /\ HandlerWork(r)
  /\ Send(r, "late")
  /\ UNCHANGED <<payment, presents, stage, events, handled, unwritten>>

Withhold(r) ==
  /\ stage[r] = "withhold"
  /\ AppendTried(presents[r], "RESOURCE_WITHHELD")
  /\ Answer(r, "withheld")
  /\ UNCHANGED <<storeVars, payment, presents, handled, late>>

\* Variant: an answer that is not terminal is taken for a settlement.
VerdictOptimistic(r, answer) ==
  CASE answer \in {"success", "pending"} -> IF presents[r] \in Purchases THEN "credit" ELSE "deliver"
    [] answer = "failed" -> "fail"
    [] OTHER -> "unknown"

\* Variant: an answer that is not one of the two expected ones is passed on.
VerdictUnmapped(r, answer) ==
  CASE answer = "success" -> IF presents[r] \in Purchases THEN "credit" ELSE "deliver"
    [] answer = "failed" -> "fail"
    [] OTHER -> answer

\* Where the request goes once its settlement is decided.
Verdict(r, answer) ==
  CASE answer = "success" -> IF presents[r] \in Purchases THEN "credit" ELSE "deliver"
    [] answer \in {"failed", "pending"} -> "fail"
    [] OTHER -> "unknown"

\* settle: on the standard rail an unsuccessful answer that is still pending is
\* asked for once more.
Settle(r) ==
  LET p == presents[r]
  IN /\ stage[r] = "settle"
     /\ \E s \in SettleAnswers(p) :
          /\ payment' = [payment EXCEPT ![p] = s.becomes]
          /\ Enter(r, IF s.answer = "pending" /\ Rail[p] = "standard"
                     THEN "retry" ELSE Verdict(r, s.answer))
     /\ UNCHANGED <<storeVars, presents, events, handled, late, unwritten>>

\* The second attempt; if its answer is lost the first one stands.
Retry(r) ==
  LET p == presents[r]
  IN /\ stage[r] = "retry"
     /\ \E s \in SettleAnswers(p) :
          /\ payment' = [payment EXCEPT ![p] = s.becomes]
          /\ Enter(r, Verdict(r, IF s.answer = "lost" THEN "pending" ELSE s.answer))
     /\ UNCHANGED <<storeVars, presents, events, handled, late, unwritten>>

RecordFailure(r) ==
  /\ stage[r] = "fail"
  /\ AppendTried(presents[r], "SETTLEMENT_FAILED")
  /\ Answer(r, "paymentFailed")
  /\ UNCHANGED <<storeVars, payment, presents, handled, late>>

\* Variant: an unknown settlement is answered without an event.
RecordUnknownSilent(r) ==
  /\ stage[r] = "unknown"
  /\ Answer(r, "unavailable")
  /\ UNCHANGED <<storeVars, payment, presents, events, handled, late, unwritten>>

RecordUnknown(r) ==
  /\ stage[r] = "unknown"
  /\ AppendTried(presents[r], "SETTLEMENT_UNKNOWN")
  /\ Answer(r, "unavailable")
  /\ UNCHANGED <<storeVars, payment, presents, handled, late>>

\* settleX402CreditPack credits the account or replays; a HyperCore network, a
\* revoked account or an unavailable store leaves the purchase to an operator.
CreditPack(r) ==
  LET p == presents[r]
      replay == purchase[p] = "CREDITED" /\ Active(PurchaseAccount[p])
  IN /\ stage[r] = "credit"
     /\ \/ /\ Rail[p] = "standard"
           /\ SettlePurchase(p) \/ (replay /\ UNCHANGED storeVars)
           /\ Enter(r, "deliver")
           /\ UNCHANGED unwritten
        \/ /\ Rail[p] = "hypercore" \/ ~Active(PurchaseAccount[p])
           /\ Answer(r, "creditPending")
           /\ UNCHANGED <<storeVars, unwritten>>
        \/ /\ unwritten' = unwritten \cup {p}
           /\ Answer(r, "creditPending")
           /\ UNCHANGED storeVars
     /\ UNCHANGED <<payment, presents, events, handled, late>>

\* The evidence is bound and the delivery recorded; neither failure withholds the response.
Deliver(r) ==
  /\ stage[r] = "deliver"
  /\ AppendTried(presents[r], "DELIVERED")
  /\ Answer(r, "delivered")
  /\ UNCHANGED <<storeVars, payment, presents, handled, late>>

\* The process stops; the handler it was running goes with it.
Crash(r) ==
  /\ stage[r] \notin {"start", "done", "crashed"}
  /\ Enter(r, "crashed")
  /\ late' = late \ {r}
  /\ UNCHANGED <<storeVars, payment, presents, events, handled, unwritten>>

RevokeBuyer(a) == Revoke(a) /\ UNCHANGED deliveryVars

RequestStep(r) ==
  \/ Prepare(r) \/ Authorize(r) \/ CheckAccount(r) \/ Handle(r) \/ HandlerFails(r)
  \/ LateHandler(r) \/ Withhold(r) \/ Settle(r) \/ Retry(r) \/ RecordFailure(r) \/ RecordUnknown(r)
  \/ CreditPack(r) \/ Deliver(r) \/ Crash(r)

DeliveryNext ==
  \/ \E r \in Requests : RequestStep(r)
  \/ \E p \in Payments : Confirm(p)
  \/ \E a \in Accounts : RevokeBuyer(a)

DeliverySpec == DeliveryInit /\ [][DeliveryNext]_x402Vars

-------------------------------------------------------------------------------
(* Properties *)

Labels == {"start", "authorize", "handler", "purchase", "withhold", "settle", "retry", "credit",
           "deliver", "fail", "unknown", "done", "crashed"}
Answers == {"none", "refused", "unavailable", "withheld", "late", "paymentFailed", "creditPending", "delivered"}
EventTypes == {"PAYMENT_AUTHORIZED", "RESOURCE_WITHHELD", "SETTLEMENT_FAILED", "SETTLEMENT_UNKNOWN",
               "DELIVERED"}

\* The type invariant of paid delivery and the ledger under it.
DeliveryTypeOK ==
  /\ TypeOK
  /\ payment \in [Payments -> {"unspent", "pending", "executed"}]
  /\ presents \in [Requests -> Payments]
  /\ stage \in [Requests -> Labels]
  /\ response \in [Requests -> Answers]
  /\ events \in [Payments -> SUBSET EventTypes]
  /\ handled \subseteq Requests
  /\ late \subseteq Requests
  /\ unwritten \subseteq Payments

Presenting(p) == {r \in Requests : presents[r] = p}

\* Nothing is delivered after its settlement or credited before its payment was
\* executed: no pending answer, retry or replayed request gives a resource away.
NothingUnpaid ==
  /\ \A r \in Requests : response[r] \in {"delivered", "creditPending"} => payment[presents[r]] = "executed"
  /\ \A p \in Purchases : purchase[p] = "CREDITED" => payment[p] = "executed"

\* A payment that may have been charged was authorised on record and bought an
\* answer some handler had given, whatever writes failed and processes stopped.
ChargesAreJustified ==
  \A p \in Payments : payment[p] # "unspent" =>
    /\ "PAYMENT_AUTHORIZED" \in events[p]
    /\ \E r \in handled : presents[r] = p

Outcomes == {"SETTLEMENT_FAILED", "SETTLEMENT_UNKNOWN", "DELIVERED"}

\* A charge can be reconciled: once every request of a charged payment is over,
\* none was stopped and no write failed, an outcome is on record, and a purchase
\* that was not credited is kept.
ChargedLeavesTrace ==
  \A p \in Payments :
    (payment[p] = "executed" /\ p \notin unwritten /\ \A r \in Presenting(p) : stage[r] = "done")
    => (p \in Purchases /\ purchase[p] = "AUTHORIZED") \/ events[p] \cap Outcomes # {}

\* A resource that was withheld is not delivered: whatever answer a buyer gets from
\* the protected handler was paid for, the ones of late handlers included.
ServedIsPaid ==
  \A r \in Requests : response[r] \in {"delivered", "late"} => payment[presents[r]] = "executed"
===============================================================================
