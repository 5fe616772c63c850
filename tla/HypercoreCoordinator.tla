------------------------- MODULE HypercoreCoordinator -------------------------
(***************************************************************************)
(* The HyperCore x402 payment coordinator: one Durable Object that binds a *)
(* signed usdSend action to a payment quote, submits it to the Hyperliquid *)
(* exchange and records what came of it.                                   *)
(*                                                                         *)
(* Every store.transaction of the code is one action (a transaction that   *)
(* throws is rolled back, so it changes nothing and is a stutter here).    *)
(* Between the transaction that claims a quote and the one that records    *)
(* the exchange's answer the coordinator waits for the network: other      *)
(* requests run, time passes, or the object is evicted.  Before either     *)
(* transaction of verify and settle a request reads the clock, checks the  *)
(* action's window with it, and waits for the signature to be recovered:   *)
(* it may run its transaction up to Latency later.                         *)
(*                                                                         *)
(* All quotes have the same network, price and payee, so the typed-data    *)
(* hash that serves as payment identifier is a function of the action's    *)
(* time and signature chain.  The merchant check is a request filter and   *)
(* is left out: a request here is one of the merchant that owns the quote. *)
(***************************************************************************)
EXTENDS Naturals

CONSTANTS
  Quotes,    \* quote identifiers
  Actions,   \* signed usdSend actions presented as payments
  Payer,     \* Payer[a]: the account that signed a
  Time,      \* Time[a]: the action's millisecond timestamp, also its nonce
  Chain,     \* Chain[a]: the chain identifier in the typed-data domain a was signed under
  Lifetime,  \* maxTimeoutSeconds of every quote
  Skew,      \* how far in the future an action's timestamp may lie
  Latency,   \* the longest time from a request's look at the clock to its transaction
  MaxClock,  \* bound on time
  None       \* an absent record, identifier, action or payer

ASSUME TimeAssumption ==
  /\ Time \in [Actions -> Nat]
  /\ Lifetime \in Nat /\ Skew \in Nat /\ Latency \in Nat /\ MaxClock \in Nat
ASSUME NoneAssumption ==
  /\ None \notin Nat /\ None \notin Actions
  /\ None \notin [quote : Quotes, action : Actions]
  /\ \A a \in Actions : None # <<Chain[a], Time[a]>>

VARIABLES
  clock,       \* the coordinator's clock
  quote,       \* quote[q]: [state, expiresAt, payment, payer]
  payment,     \* payment[i]: the quote and the action stored under payment identifier i
  actionOwner, \* actionOwner[k]: the payment identifier that consumed the payer/time key k
  call,        \* call[q]: the settlement of q that reached the exchange client
  attempts,    \* history: attempts[q] is how often an action was sent to the exchange for q
  submittedAt, \* history: submittedAt[q] is when q was claimed for submission
  applied      \* the actions the exchange has executed (external)

vars == <<clock, quote, payment, actionOwner, call, attempts, submittedAt, applied>>

\* The payer is not part of the typed data, so two payers' actions can share an identifier.
PaymentId(a) == <<Chain[a], Time[a]>>
PaymentIds == {PaymentId(a) : a \in Actions}
ActionKey(a) == <<Payer[a], Time[a]>>
ActionKeys == {ActionKey(a) : a \in Actions}

States == {"absent", "QUOTED", "VERIFIED", "SUBMITTING", "SUBMITTED", "SUBMIT_UNKNOWN", "REJECTED"}
Quote(state, expires, pid, payer) ==
  [state |-> state, expiresAt |-> expires, payment |-> pid, payer |-> payer]
\* What the exchange client has done for one settlement.
Call(stage, a) == [stage |-> stage, action |-> a]

Init ==
  /\ clock = 0
  /\ quote = [q \in Quotes |-> Quote("absent", 0, None, None)]
  /\ payment = [i \in PaymentIds |-> None]
  /\ actionOwner = [k \in ActionKeys |-> None]
  /\ call = [q \in Quotes |-> Call("idle", None)]
  /\ attempts = [q \in Quotes |-> 0]
  /\ submittedAt = [q \in Quotes |-> 0]
  /\ applied = {}

Tick ==
  /\ clock < MaxClock
  /\ clock' = clock + 1
  /\ UNCHANGED <<quote, payment, actionOwner, call, attempts, submittedAt, applied>>

CreateQuote(q) ==
  /\ quote[q].state = "absent"
  /\ quote' = [quote EXCEPT ![q] = Quote("QUOTED", clock + Lifetime, None, None)]
  /\ UNCHANGED <<clock, payment, actionOwner, call, attempts, submittedAt, applied>>

\* When a request for q that runs its transaction now may have read the clock: up
\* to Latency ago, and after it had found the quote.
ReadTimes(q) == {t \in 0..clock : clock <= t + Latency /\ quote[q].expiresAt <= t + Lifetime}

\* verifyHypercorePayment: the signed action was inside the settlement window when
\* the request read the clock.
\* Variant: an action may be dated in the future.
InWindowFuture(q, a) == \E t \in ReadTimes(q) : t <= Time[a] + Lifetime
InWindow(q, a) == \E t \in ReadTimes(q) : t <= Time[a] + Lifetime /\ Time[a] <= t + Skew

\* Variant: the payer/time key is not checked.
ActionAvailableUnchecked(q, a) == TRUE
\* The payer/time key is free, or consumed by this payment for this quote.
ActionAvailable(q, a) ==
  LET owner == actionOwner[ActionKey(a)]
  IN owner = None \/ (owner = PaymentId(a) /\ payment[owner].quote = q)

\* Variant: a quote that has left QUOTED can be bound again.
VerifiableAgain(q) == quote[q].state # "absent" /\ clock <= quote[q].expiresAt
Verifiable(q) == quote[q].state = "QUOTED" /\ clock <= quote[q].expiresAt

\* verify: binds an action to a quote that is still open; an already bound quote is not changed.
Verify(q, a) ==
  /\ InWindow(q, a)
  /\ Verifiable(q)
  /\ ActionAvailable(q, a)
  /\ quote' = [quote EXCEPT ![q] = Quote("VERIFIED", @.expiresAt, PaymentId(a), Payer[a])]
  /\ payment' = [payment EXCEPT ![PaymentId(a)] = [quote |-> q, action |-> a]]
  /\ actionOwner' = [actionOwner EXCEPT ![ActionKey(a)] = PaymentId(a)]
  /\ UNCHANGED <<clock, call, attempts, submittedAt, applied>>

\* Variant: a settlement whose result is unknown is retried.
ClaimableUnknown(q) == quote[q].state \in {"VERIFIED", "SUBMIT_UNKNOWN"}
Claimable(q) == quote[q].state = "VERIFIED"

\* settle, first transaction: claim a verified quote and load the stored payment.
\* In any other state the call only reports what is recorded.
BeginSettle(q, a) ==
  /\ InWindow(q, a)
  /\ payment[PaymentId(a)] # None
  /\ quote[q].payment = PaymentId(a)
  /\ Claimable(q)
  /\ quote' = [quote EXCEPT ![q].state = "SUBMITTING"]
  /\ call' = [call EXCEPT ![q] = Call("sending", payment[PaymentId(a)].action)]
  /\ submittedAt' = [submittedAt EXCEPT ![q] = clock]
  /\ UNCHANGED <<clock, payment, actionOwner, attempts, applied>>

\* The exchange executes an action at most once (external), and its answer may
\* be lost: a timeout, a non-2xx status and an unreadable body all throw.
Exchange(q) ==
  /\ call[q].stage = "sending"
  /\ attempts' = [attempts EXCEPT ![q] = @ + 1]
  /\ \/ /\ call[q].action \notin applied
        /\ applied' = applied \cup {call[q].action}
        /\ call' = [call EXCEPT ![q].stage = "ok"]
     \/ /\ applied' = applied
        /\ call' = [call EXCEPT ![q].stage = "refused"]
     \/ /\ applied' \in {applied, applied \cup {call[q].action}}
        /\ call' = [call EXCEPT ![q].stage = "lost"]
  /\ UNCHANGED <<clock, quote, payment, actionOwner, submittedAt>>

\* Variants: an unspecified state for a lost answer, and a lost answer taken for success.
RecordedUntyped == [ok |-> "SUBMITTED", refused |-> "REJECTED", lost |-> "UNKNOWN"]
RecordedOptimistic == [ok |-> "SUBMITTED", refused |-> "REJECTED", lost |-> "SUBMITTED"]
\* Variant: an answer that never came is not handled.
RecordedAnswers == [ok |-> "SUBMITTED", refused |-> "REJECTED"]
Recorded == [ok |-> "SUBMITTED", refused |-> "REJECTED", lost |-> "SUBMIT_UNKNOWN"]

\* settle, last transaction: record the answer, or that there is none; if the
\* transaction that records an answer fails, the result is unknown as well.
FinishSettle(q) ==
  /\ call[q].stage \in DOMAIN Recorded
  /\ \E result \in {Recorded[call[q].stage], "SUBMIT_UNKNOWN"} :
       quote' = [quote EXCEPT ![q].state = result]
  /\ call' = [call EXCEPT ![q].stage = "closed"]
  /\ UNCHANGED <<clock, payment, actionOwner, attempts, submittedAt, applied>>

\* The object is evicted while a settlement is outstanding: nothing more is recorded for it.
Evict(q) ==
  /\ call[q].stage \notin {"idle", "closed"}
  /\ call' = [call EXCEPT ![q].stage = "closed"]
  /\ UNCHANGED <<clock, quote, payment, actionOwner, attempts, submittedAt, applied>>

Next ==
  \/ Tick
  \/ \E q \in Quotes :
       \/ CreateQuote(q) \/ Exchange(q) \/ FinishSettle(q) \/ Evict(q)
       \/ \E a \in Actions : Verify(q, a) \/ BeginSettle(q, a)

Spec == Init /\ [][Next]_vars

\* The exchange client aborts after ten seconds, so a claimed settlement always
\* gets an answer or an error, and the object then runs its last transaction.
FairSpec == Spec /\ \A q \in Quotes : WF_vars(Exchange(q)) /\ WF_vars(FinishSettle(q))

-------------------------------------------------------------------------------
(* Properties *)

Stages == {"idle", "sending", "ok", "refused", "lost", "closed"}

\* The type invariant of the coordinator's storage and its outstanding calls.
TypeOK ==
  /\ clock \in Nat
  /\ quote \in [Quotes -> [state : States, expiresAt : Nat, payment : PaymentIds \cup {None},
                           payer : {Payer[a] : a \in Actions} \cup {None}]]
  /\ payment \in [PaymentIds -> [quote : Quotes, action : Actions] \cup {None}]
  /\ actionOwner \in [ActionKeys -> PaymentIds \cup {None}]
  /\ call \in [Quotes -> [stage : Stages, action : Actions \cup {None}]]
  /\ attempts \in [Quotes -> Nat]
  /\ submittedAt \in [Quotes -> Nat]
  /\ applied \subseteq Actions

\* No endpoint retries a submission: whatever settle calls, lost answers and
\* evictions follow each other, at most one request per quote reaches the exchange.
QuoteSubmittedOnce == \A q \in Quotes : attempts[q] <= 1

\* A quote is reported as settled only if the exchange executed the action that
\* was sent for it.
SubmittedIsExecuted ==
  \A q \in Quotes : quote[q].state = "SUBMITTED" => call[q].action \in applied

Sent(q, a) == attempts[q] > 0 /\ call[q].action = a
Unshared(a) == \A b \in Actions : PaymentId(b) = PaymentId(a) => b = a

\* Among the actions whose payment identifier no other action has, a payer's
\* timestamp reaches the exchange for one quote only, whatever chain the action
\* was signed under, and that quote is bound to the payer who signed it.
UnsharedActionSubmittedOnce ==
  \A a \in Actions, q \in Quotes :
    (Unshared(a) /\ Sent(q, a)) =>
      /\ quote[q].payer = Payer[a]
      /\ \A b \in Actions, r \in Quotes :
           (Unshared(b) /\ ActionKey(b) = ActionKey(a) /\ Sent(r, b)) => r = q

\* A recorded result is final, and a claimed quote never becomes payable again.
KeepsResults ==
  \A q \in Quotes :
    /\ quote[q].state \in {"SUBMITTED", "SUBMIT_UNKNOWN", "REJECTED"} => quote'[q] = quote[q]
    /\ quote[q].state = "SUBMITTING" => quote'[q].state \notin {"absent", "QUOTED", "VERIFIED"}
ResultsAreFinal == [][KeepsResults]_vars

\* A claim outlives the quote's expiry by no more than the settlement window of
\* an action that was dated as late as verify allows, and the time the claiming
\* request took from its look at the clock: expiry is checked when an action is
\* bound and never again, only the action's own window is.
SubmissionTimely ==
  \A q \in Quotes :
    attempts[q] > 0 => submittedAt[q] <= quote[q].expiresAt + Skew + Lifetime + Latency

Evicted(q) == call[q].stage = "closed"

\* Every claimed settlement is eventually recorded, unless the object was evicted.
SettlementsFinish ==
  \A q \in Quotes :
    quote[q].state = "SUBMITTING" ~>
      quote[q].state \in {"SUBMITTED", "SUBMIT_UNKNOWN", "REJECTED"} \/ Evicted(q)
===============================================================================
