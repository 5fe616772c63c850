---------------------- MODULE HypercoreCoordinatorProofs ----------------------
(***************************************************************************)
(* The coordinator's safety properties, proved for any quotes, actions,    *)
(* lifetimes and clock bound.  The inductive invariant has two parts:      *)
(* CallsInv ties the state of a quote to the progress of its outstanding   *)
(* settlement, BindingInv ties a bound quote to the payment record and the *)
(* payer/time key that were written with it.                               *)
(***************************************************************************)
EXTENDS HypercoreCoordinator, TLAPS

Open == {"absent", "QUOTED"}

\* Progress of the settlement of q against the recorded state of q.
CallInv(q) ==
  /\ call[q].stage = "idle" =>
       attempts[q] = 0 /\ quote[q].state \in {"absent", "QUOTED", "VERIFIED"}
  /\ call[q].stage = "sending" => attempts[q] = 0
  /\ call[q].stage \in {"sending", "ok", "refused", "lost"} => quote[q].state = "SUBMITTING"
  /\ call[q].stage = "closed" =>
       quote[q].state \in {"SUBMITTING", "SUBMITTED", "SUBMIT_UNKNOWN", "REJECTED"}
  /\ attempts[q] <= 1
  /\ (call[q].stage = "ok" \/ quote[q].state = "SUBMITTED") => call[q].action \in applied
CallsInv == \A q \in Quotes : CallInv(q)

\* A quote carries a payment identifier exactly when it is no longer open.
OpenIffUnbound == \A q \in Quotes : quote[q].state \in Open <=> quote[q].payment = None

\* A stored action is filed under its own payment identifier.
PaymentsKeyed == \A i \in PaymentIds : payment[i] # None => PaymentId(payment[i].action) = i

\* The record that an unshared action bound is still the one stored for its quote.
UnsharedBinding ==
  \A q \in Quotes, a \in Actions :
    (Unshared(a) /\ quote[q].payment = PaymentId(a)) =>
      /\ payment[PaymentId(a)] = [quote |-> q, action |-> a]
      /\ actionOwner[ActionKey(a)] = PaymentId(a)
      /\ quote[q].payer = Payer[a]

\* The action in the exchange client is one filed under the quote's payment identifier.
CallsBound ==
  \A q \in Quotes :
    call[q].stage # "idle" =>
      call[q].action \in Actions /\ PaymentId(call[q].action) = quote[q].payment

BindingInv == OpenIffUnbound /\ PaymentsKeyed /\ UnsharedBinding /\ CallsBound

IInv == TypeOK /\ CallsInv /\ BindingInv

-------------------------------------------------------------------------------
(* The initial state *)

\* What the exchange client answered determines what may be recorded.
LEMMA RecordedValue ==
  /\ DOMAIN Recorded = {"ok", "refused", "lost"}
  /\ Recorded["ok"] = "SUBMITTED" /\ Recorded["refused"] = "REJECTED"
  /\ Recorded["lost"] = "SUBMIT_UNKNOWN"
BY DEF Recorded

\* A settlement that is answered, or gets no answer, is recorded with one result.
LEMMA FinishRecords ==
  ASSUME NEW q \in Quotes, FinishSettle(q)
  PROVE  /\ call[q].stage \in {"ok", "refused", "lost"}
         /\ \E result \in {"SUBMITTED", "REJECTED", "SUBMIT_UNKNOWN"} :
              quote' = [quote EXCEPT ![q].state = result]
<1>1. /\ call[q].stage \in DOMAIN Recorded
      /\ \E result \in {Recorded[call[q].stage], "SUBMIT_UNKNOWN"} :
           quote' = [quote EXCEPT ![q].state = result]
  BY DEF FinishSettle
<1>2. call[q].stage \in {"ok", "refused", "lost"}
  BY <1>1, RecordedValue
<1>3. Recorded[call[q].stage] \in {"SUBMITTED", "REJECTED", "SUBMIT_UNKNOWN"}
  BY <1>2, RecordedValue
<1> QED
  BY <1>1, <1>2, <1>3

QuoteRecords == [state : States, expiresAt : Nat, payment : PaymentIds \cup {None},
                 payer : {Payer[a] : a \in Actions} \cup {None}]
CallRecords == [stage : Stages, action : Actions \cup {None}]

\* A quote that changes its state stays a quote.
LEMMA StateTyped ==
  ASSUME quote \in [Quotes -> QuoteRecords], NEW q \in Quotes, NEW state \in States,
         quote' = [quote EXCEPT ![q].state = state]
  PROVE  quote' \in [Quotes -> QuoteRecords]
<1>1. quote[q] \in QuoteRecords
  OBVIOUS
<1>2. [quote[q] EXCEPT !.state = state] \in QuoteRecords
  BY <1>1 DEF QuoteRecords
<1> QED
  BY <1>2

\* A call that changes its stage stays a call.
LEMMA StageTyped ==
  ASSUME call \in [Quotes -> CallRecords], NEW q \in Quotes, NEW stage \in Stages,
         call' = [call EXCEPT ![q].stage = stage]
  PROVE  call' \in [Quotes -> CallRecords]
<1>1. call[q] \in CallRecords
  OBVIOUS
<1>2. [call[q] EXCEPT !.stage = stage] \in CallRecords
  BY <1>1 DEF CallRecords
<1> QED
  BY <1>2

\* The coordinator starts with empty storage, which satisfies the invariant.
LEMMA InitInvariant == Init => IInv
<1> SUFFICES ASSUME Init PROVE IInv
  OBVIOUS
<1> USE DEF Init
<1>1. \A i \in PaymentIds : i # None
  BY NoneAssumption DEF PaymentIds, PaymentId
<1>2. TypeOK
  BY DEF TypeOK, Quote, Call, States, Stages
<1>3. CallsInv
  <2> SUFFICES ASSUME NEW q \in Quotes PROVE CallInv(q)
    BY DEF CallsInv
  <2>1. call[q].stage = "idle" /\ attempts[q] = 0 /\ quote[q].state = "absent"
    BY DEF Quote, Call
  <2> HIDE DEF Init
  <2> QED
    BY <2>1 DEF CallInv
<1>4. BindingInv
  <2>1. \A a \in Actions : PaymentId(a) # None
    BY <1>1, NoneAssumption DEF PaymentIds
  <2> QED
    BY <2>1 DEF BindingInv, OpenIffUnbound, PaymentsKeyed, UnsharedBinding, CallsBound,
                Quote, Call, Open
<1> QED
  BY <1>2, <1>3, <1>4 DEF IInv

-------------------------------------------------------------------------------
(* One lemma per conjunct of the invariant, one step per action *)

\* Every action keeps the types of the coordinator's storage and calls.
LEMMA TypeStep == IInv /\ [Next]_vars => TypeOK'
<1> SUFFICES ASSUME TypeOK, BindingInv, [Next]_vars PROVE TypeOK'
  BY DEF IInv
<1> USE TimeAssumption DEF TypeOK
<1>1. CASE Tick
  BY <1>1 DEF Tick
<1>2. ASSUME NEW q \in Quotes, CreateQuote(q) PROVE TypeOK'
  BY <1>2 DEF CreateQuote, Quote, States
<1>3. ASSUME NEW q \in Quotes, Exchange(q) PROVE TypeOK'
  <2>1. attempts' \in [Quotes -> Nat]
    BY <1>3 DEF Exchange
  <2>2. call[q].action \in Actions
    BY <1>3 DEF Exchange, BindingInv, CallsBound
  <2>3. applied' \subseteq Actions
    BY <1>3, <2>2 DEF Exchange
  <2>4. call' \in [Quotes -> CallRecords]
    <3>1. PICK stage \in {"ok", "refused", "lost"} : call' = [call EXCEPT ![q].stage = stage]
      BY <1>3 DEF Exchange
    <3>2. call \in [Quotes -> CallRecords]
      BY DEF CallRecords
    <3> QED
      BY <3>1, <3>2, StageTyped DEF Stages
  <2>5. UNCHANGED <<clock, quote, payment, actionOwner, submittedAt>>
    BY <1>3 DEF Exchange
  <2> HIDE DEF TypeOK
  <2>6. /\ clock' \in Nat /\ submittedAt' \in [Quotes -> Nat]
        /\ payment' \in [PaymentIds -> [quote : Quotes, action : Actions] \cup {None}]
        /\ actionOwner' \in [ActionKeys -> PaymentIds \cup {None}]
    BY <2>5 DEF TypeOK
  <2>7. quote' \in [Quotes -> [state : States, expiresAt : Nat, payment : PaymentIds \cup {None},
                               payer : {Payer[a] : a \in Actions} \cup {None}]]
    BY <2>5 DEF TypeOK
  <2> QED
    BY <2>1, <2>3, <2>4, <2>6, <2>7 DEF TypeOK, CallRecords
<1>4. ASSUME NEW q \in Quotes, FinishSettle(q) PROVE TypeOK'
  <2>1. PICK result \in {"SUBMITTED", "REJECTED", "SUBMIT_UNKNOWN"} :
          quote' = [quote EXCEPT ![q].state = result]
    BY <1>4, FinishRecords
  <2>2. quote \in [Quotes -> QuoteRecords] /\ call \in [Quotes -> CallRecords]
    BY DEF QuoteRecords, CallRecords
  <2>3. result \in States /\ "closed" \in Stages
    BY DEF States, Stages
  <2> HIDE DEF TypeOK
  <2>4. quote' \in [Quotes -> QuoteRecords]
    BY <2>1, <2>2, <2>3, StateTyped
  <2>5. call' \in [Quotes -> CallRecords]
    BY <1>4, <2>2, <2>3, StageTyped DEF FinishSettle
  <2> QED
    BY <1>4, <2>4, <2>5 DEF FinishSettle, TypeOK, QuoteRecords, CallRecords
<1>5. ASSUME NEW q \in Quotes, Evict(q) PROVE TypeOK'
  BY <1>5 DEF Evict, Stages
<1>6. ASSUME NEW q \in Quotes, NEW a \in Actions, Verify(q, a) PROVE TypeOK'
  <2>1. PaymentId(a) \in PaymentIds /\ ActionKey(a) \in ActionKeys
    BY DEF PaymentIds, ActionKeys
  <2> QED
    BY <1>6, <2>1 DEF Verify, Verifiable, Quote, States
<1>7. ASSUME NEW q \in Quotes, NEW a \in Actions, BeginSettle(q, a) PROVE TypeOK'
  <2>1. PaymentId(a) \in PaymentIds
    BY DEF PaymentIds
  <2>2. payment[PaymentId(a)].action \in Actions
    BY <1>7, <2>1 DEF BeginSettle, Claimable
  <2>3. call' \in [Quotes -> [stage : Stages, action : Actions \cup {None}]]
    BY <1>7, <2>2 DEF BeginSettle, Claimable, Call, Stages
  <2>4. quote' \in [Quotes -> QuoteRecords]
    <3>1. quote' = [quote EXCEPT ![q].state = "SUBMITTING"]
      BY <1>7 DEF BeginSettle
    <3>2. quote \in [Quotes -> QuoteRecords] /\ "SUBMITTING" \in States
      BY DEF QuoteRecords, States
    <3> QED
      BY <3>1, <3>2, StateTyped
  <2>5. submittedAt' \in [Quotes -> Nat] /\ UNCHANGED <<clock, payment, actionOwner, attempts, applied>>
    BY <1>7 DEF BeginSettle, Claimable
  <2> HIDE DEF TypeOK
  <2>6. /\ clock' \in Nat /\ attempts' \in [Quotes -> Nat] /\ applied' \subseteq Actions
        /\ payment' \in [PaymentIds -> [quote : Quotes, action : Actions] \cup {None}]
        /\ actionOwner' \in [ActionKeys -> PaymentIds \cup {None}]
    BY <2>5 DEF TypeOK
  <2> QED
    BY <2>3, <2>4, <2>5, <2>6 DEF TypeOK, QuoteRecords
<1>8. CASE UNCHANGED vars
  BY <1>8 DEF vars
<1> QED
  BY <1>1, <1>2, <1>3, <1>4, <1>5, <1>6, <1>7, <1>8 DEF Next

\* Every action keeps the settlement progress of every quote.
LEMMA CallsStep == IInv /\ [Next]_vars => CallsInv'
<1> SUFFICES ASSUME TypeOK, CallsInv, [Next]_vars, NEW r \in Quotes PROVE CallInv(r)'
  BY DEF IInv, CallsInv
<1>0. CallInv(r)
  BY DEF CallsInv
<1>u. ASSUME UNCHANGED <<call, attempts, applied, quote>> PROVE CallInv(r)'
  BY <1>0, <1>u DEF CallInv
<1>1. CASE Tick
  BY <1>1, <1>u DEF Tick
<1>2. ASSUME NEW q \in Quotes, CreateQuote(q) PROVE CallInv(r)'
  BY <1>0, <1>2 DEF CreateQuote, Quote, CallInv, TypeOK
<1>3. ASSUME NEW q \in Quotes, Exchange(q) PROVE CallInv(r)'
  <2>1. CASE r = q
    <3>1. call[r].stage = "sending" /\ attempts[r] = 0 /\ quote[r].state = "SUBMITTING"
      BY <1>0, <1>3, <2>1 DEF Exchange, CallInv
    <3>2. attempts'[r] = 1 /\ quote'[r].state = "SUBMITTING"
      BY <1>3, <2>1, <3>1 DEF Exchange, TypeOK
    <3>3. call'[r].action = call[r].action /\ call'[r].stage \in {"ok", "refused", "lost"}
      BY <1>3, <2>1 DEF Exchange, TypeOK
    <3>4. call'[r].stage = "ok" => call'[r].action \in applied'
      BY <1>3, <2>1, <3>3 DEF Exchange, TypeOK
    <3> QED
      BY <3>2, <3>3, <3>4 DEF CallInv
  <2>2. CASE r # q
    <3>1. call'[r] = call[r] /\ attempts'[r] = attempts[r] /\ quote' = quote
      BY <1>3, <2>2 DEF Exchange, TypeOK
    <3>2. applied \subseteq applied'
      BY <1>3 DEF Exchange
    <3> QED
      BY <1>0, <3>1, <3>2 DEF CallInv
  <2> QED
    BY <2>1, <2>2
<1>4. ASSUME NEW q \in Quotes, FinishSettle(q) PROVE CallInv(r)'
  <2>1. PICK result \in {Recorded[call[q].stage], "SUBMIT_UNKNOWN"} :
          quote' = [quote EXCEPT ![q].state = result]
    BY <1>4 DEF FinishSettle
  <2>2. CASE r = q
    <3>1. call[r].stage \in {"ok", "refused", "lost"}
      BY <1>4, <2>2, RecordedValue DEF FinishSettle
    <3>2. call'[r].stage = "closed" /\ call'[r].action = call[r].action
      BY <1>4, <2>2 DEF FinishSettle, TypeOK
    <3>3. quote'[r].state = result
      BY <2>1, <2>2 DEF TypeOK
    <3>4. /\ result \in {"SUBMITTED", "REJECTED", "SUBMIT_UNKNOWN"}
          /\ result = "SUBMITTED" => call[r].stage = "ok"
      BY <2>1, <2>2, <3>1, RecordedValue
    <3>5. attempts' = attempts /\ applied' = applied
      BY <1>4 DEF FinishSettle
    <3> QED
      BY <1>0, <3>1, <3>2, <3>3, <3>4, <3>5 DEF CallInv
  <2>3. CASE r # q
    <3>1. call'[r] = call[r] /\ quote'[r] = quote[r] /\ attempts' = attempts /\ applied' = applied
      BY <1>4, <2>1, <2>3 DEF FinishSettle, TypeOK
    <3> QED
      BY <1>0, <3>1 DEF CallInv
  <2> QED
    BY <2>2, <2>3
<1>5. ASSUME NEW q \in Quotes, Evict(q) PROVE CallInv(r)'
  <2>1. quote' = quote /\ attempts' = attempts /\ applied' = applied
    BY <1>5 DEF Evict
  <2>2. r # q => call'[r] = call[r]
    BY <1>5 DEF Evict, TypeOK
  <2>3. r = q => /\ call[r].stage \in {"sending", "ok", "refused", "lost"}
                 /\ call'[r].stage = "closed" /\ call'[r].action = call[r].action
    BY <1>5 DEF Evict, TypeOK, Stages
  <2> QED
    BY <1>0, <2>1, <2>2, <2>3 DEF CallInv
<1>6. ASSUME NEW q \in Quotes, NEW a \in Actions, Verify(q, a) PROVE CallInv(r)'
  <2>1. call' = call /\ attempts' = attempts /\ applied' = applied
    BY <1>6 DEF Verify
  <2>2. r # q => quote'[r] = quote[r]
    BY <1>6 DEF Verify, Verifiable, TypeOK
  <2>3. r = q => quote[r].state = "QUOTED" /\ quote'[r].state = "VERIFIED"
    BY <1>6 DEF Verify, Verifiable, Quote, TypeOK
  <2> QED
    BY <1>0, <2>1, <2>2, <2>3 DEF CallInv
<1>7. ASSUME NEW q \in Quotes, NEW a \in Actions, BeginSettle(q, a) PROVE CallInv(r)'
  <2>1. attempts' = attempts /\ applied' = applied
    BY <1>7 DEF BeginSettle, Claimable
  <2>2. r # q => quote'[r] = quote[r] /\ call'[r] = call[r]
    BY <1>7 DEF BeginSettle, Claimable, TypeOK
  <2>3. r = q => /\ quote[r].state = "VERIFIED" /\ quote'[r].state = "SUBMITTING"
                 /\ call'[r].stage = "sending"
    BY <1>7 DEF BeginSettle, Claimable, Call, TypeOK
  <2>4. quote[r].state = "VERIFIED" => attempts[r] = 0
    BY <1>0 DEF CallInv, TypeOK, Stages
  <2> QED
    BY <1>0, <2>1, <2>2, <2>3, <2>4 DEF CallInv
<1>8. CASE UNCHANGED vars
  BY <1>8, <1>u DEF vars
<1> QED
  BY <1>1, <1>2, <1>3, <1>4, <1>5, <1>6, <1>7, <1>8 DEF Next

\* Verification binds only a free payer/time key, so it never takes the record
\* of another quote's unshared action.
LEMMA VerifyKeepsBinding ==
  ASSUME NEW q \in Quotes, NEW a \in Actions, TypeOK, BindingInv, Verify(q, a)
  PROVE  UnsharedBinding'
<1> SUFFICES ASSUME NEW r \in Quotes, NEW b \in Actions,
                    Unshared(b), quote'[r].payment = PaymentId(b)
             PROVE  /\ payment'[PaymentId(b)] = [quote |-> r, action |-> b]
                    /\ actionOwner'[ActionKey(b)] = PaymentId(b)
                    /\ quote'[r].payer = Payer[b]
  BY DEF UnsharedBinding
<1>0. /\ PaymentId(a) \in PaymentIds /\ PaymentId(b) \in PaymentIds
      /\ ActionKey(a) \in ActionKeys /\ ActionKey(b) \in ActionKeys
  BY DEF PaymentIds, ActionKeys
<1>1. CASE r = q
  <2>1. quote'[r].payment = PaymentId(a) /\ quote'[r].payer = Payer[a]
    BY <1>1 DEF Verify, Verifiable, Quote, TypeOK
  <2>2. a = b
    BY <2>1 DEF Unshared
  <2> QED
    BY <1>0, <1>1, <2>1, <2>2 DEF Verify, Verifiable, TypeOK
<1>2. CASE r # q
  <2>1. quote'[r] = quote[r]
    BY <1>2 DEF Verify, Verifiable, TypeOK
  <2>2. /\ payment[PaymentId(b)] = [quote |-> r, action |-> b]
        /\ actionOwner[ActionKey(b)] = PaymentId(b)
        /\ quote[r].payer = Payer[b]
    BY <2>1 DEF BindingInv, UnsharedBinding
  <2>0. payment[PaymentId(b)].quote = r /\ PaymentId(b) # None
    BY <2>2, NoneAssumption DEF PaymentId
  <2>3. a # b
    BY <1>2, <2>0, <2>2 DEF Verify, ActionAvailable
  <2>4. PaymentId(a) # PaymentId(b)
    BY <2>3 DEF Unshared
  <2>5. ActionKey(a) # ActionKey(b)
    BY <2>2, <2>4, NoneAssumption DEF Verify, Verifiable, ActionAvailable, PaymentId
  <2> QED
    BY <1>0, <2>1, <2>2, <2>4, <2>5 DEF Verify, Verifiable, TypeOK
<1> QED
  BY <1>1, <1>2

\* A step that leaves the stored bindings alone keeps what relates them.
LEMMA BindingFrame ==
  ASSUME BindingInv, payment' = payment, actionOwner' = actionOwner,
         \A r \in Quotes : /\ quote'[r].payment = quote[r].payment
                           /\ quote'[r].payer = quote[r].payer
                           /\ quote'[r].state \in Open <=> quote[r].state \in Open
  PROVE  OpenIffUnbound' /\ PaymentsKeyed' /\ UnsharedBinding'
BY DEF BindingInv, OpenIffUnbound, PaymentsKeyed, UnsharedBinding

\* Every action keeps what is stored with a bound quote.
LEMMA BindingStep == IInv /\ [Next]_vars => BindingInv'
<1> SUFFICES ASSUME TypeOK, CallsInv, BindingInv, [Next]_vars PROVE BindingInv'
  BY DEF IInv
<1>1. CASE Tick
  BY <1>1 DEF Tick, BindingInv, OpenIffUnbound, PaymentsKeyed, UnsharedBinding, CallsBound
<1>2. ASSUME NEW q \in Quotes, CreateQuote(q) PROVE BindingInv'
  <2>1. call' = call /\ payment' = payment /\ actionOwner' = actionOwner
    BY <1>2 DEF CreateQuote
  <2>2. /\ quote[q].state = "absent" /\ quote'[q].state = "QUOTED"
        /\ quote[q].payment = None /\ quote'[q].payment = None
    BY <1>2 DEF CreateQuote, Quote, TypeOK, BindingInv, OpenIffUnbound, Open
  <2>3. \A r \in Quotes : r # q => quote'[r] = quote[r]
    BY <1>2 DEF CreateQuote, TypeOK
  <2>4. \A b \in Actions : PaymentId(b) # None
    BY NoneAssumption DEF PaymentId
  <2> QED
    BY <2>1, <2>2, <2>3, <2>4
       DEF BindingInv, OpenIffUnbound, PaymentsKeyed, UnsharedBinding, CallsBound, Open
<1>3. ASSUME NEW q \in Quotes, Exchange(q) PROVE BindingInv'
  <2>1. quote' = quote /\ payment' = payment /\ actionOwner' = actionOwner
    BY <1>3 DEF Exchange
  <2>2. OpenIffUnbound' /\ PaymentsKeyed' /\ UnsharedBinding'
    BY <2>1, BindingFrame
  <2>3. call[q].stage # "idle" /\ \A r \in Quotes : call'[r].action = call[r].action
    BY <1>3 DEF Exchange, TypeOK
  <2>4. \A r \in Quotes : r # q => call'[r] = call[r]
    BY <1>3 DEF Exchange, TypeOK
  <2>5. CallsBound
    BY DEF BindingInv
  <2>6. ASSUME NEW r \in Quotes, call'[r].stage # "idle" PROVE call[r].stage # "idle"
    BY <2>3, <2>4, <2>6
  <2>7. CallsBound'
    BY <2>1, <2>3, <2>5, <2>6 DEF CallsBound
  <2> QED
    BY <2>2, <2>7 DEF BindingInv
<1>4. ASSUME NEW q \in Quotes, FinishSettle(q) PROVE BindingInv'
  <2>1. call[q].stage \in {"ok", "refused", "lost"}
    BY <1>4, FinishRecords
  <2>2. PICK result \in {"SUBMITTED", "REJECTED", "SUBMIT_UNKNOWN"} :
          quote' = [quote EXCEPT ![q].state = result]
    BY <1>4, FinishRecords
  <2>3. quote[q].state = "SUBMITTING"
    BY <2>1 DEF CallsInv, CallInv
  <2>4. \A r \in Quotes : /\ quote'[r].payment = quote[r].payment
                          /\ quote'[r].payer = quote[r].payer
    BY <2>2 DEF TypeOK
  <2>5. quote'[q].state = result /\ \A r \in Quotes : r # q => quote'[r] = quote[r]
    BY <2>2 DEF TypeOK
  <2>6. payment' = payment /\ actionOwner' = actionOwner
    BY <1>4 DEF FinishSettle
  <2>7. \A r \in Quotes : quote'[r].state \in Open <=> quote[r].state \in Open
    BY <2>3, <2>5 DEF Open
  <2>8. OpenIffUnbound' /\ PaymentsKeyed' /\ UnsharedBinding'
    BY <2>4, <2>6, <2>7, BindingFrame
  <2>9. \A r \in Quotes : call'[r].action = call[r].action
    BY <1>4 DEF FinishSettle, TypeOK
  <2>10. \A r \in Quotes : r # q => call'[r] = call[r]
    BY <1>4 DEF FinishSettle, TypeOK
  <2> QED
    BY <2>1, <2>4, <2>8, <2>9, <2>10 DEF BindingInv, CallsBound
<1>5. ASSUME NEW q \in Quotes, Evict(q) PROVE BindingInv'
  <2>1. quote' = quote /\ payment' = payment /\ actionOwner' = actionOwner
    BY <1>5 DEF Evict
  <2>2. OpenIffUnbound' /\ PaymentsKeyed' /\ UnsharedBinding'
    BY <2>1, BindingFrame
  <2>3. call[q].stage # "idle" /\ \A r \in Quotes : call'[r].action = call[r].action
    BY <1>5 DEF Evict, TypeOK
  <2>4. \A r \in Quotes : r # q => call'[r] = call[r]
    BY <1>5 DEF Evict, TypeOK
  <2> QED
    BY <2>1, <2>2, <2>3, <2>4 DEF BindingInv, CallsBound
<1>6. ASSUME NEW q \in Quotes, NEW a \in Actions, Verify(q, a) PROVE BindingInv'
  <2>0. PaymentId(a) # None
    BY NoneAssumption DEF PaymentId
  <2>1. /\ quote[q].state = "QUOTED" /\ quote'[q].state = "VERIFIED"
        /\ quote'[q].payment = PaymentId(a) /\ call' = call
    BY <1>6 DEF Verify, Verifiable, Quote, TypeOK
  <2>2. \A r \in Quotes : r # q => quote'[r] = quote[r]
    BY <1>6 DEF Verify, Verifiable, TypeOK
  <2>3. OpenIffUnbound'
    BY <2>0, <2>1, <2>2 DEF BindingInv, OpenIffUnbound, Open
  <2>4. PaymentsKeyed'
    BY <1>6 DEF Verify, Verifiable, TypeOK, BindingInv, PaymentsKeyed
  <2>5. UnsharedBinding'
    BY <1>6, VerifyKeepsBinding
  <2>6. call[q].stage = "idle"
    BY <2>1 DEF CallsInv, CallInv, TypeOK, Stages
  <2>7. CallsBound'
    BY <2>1, <2>2, <2>6 DEF BindingInv, CallsBound
  <2> QED
    BY <2>3, <2>4, <2>5, <2>7 DEF BindingInv
<1>7. ASSUME NEW q \in Quotes, NEW a \in Actions, BeginSettle(q, a) PROVE BindingInv'
  <2>1. payment' = payment /\ actionOwner' = actionOwner
    BY <1>7 DEF BeginSettle, Claimable
  <2>2. /\ quote[q].state = "VERIFIED" /\ quote'[q].state = "SUBMITTING"
        /\ quote[q].payment = PaymentId(a) /\ quote'[q].payment = PaymentId(a)
        /\ quote'[q].payer = quote[q].payer
    BY <1>7 DEF BeginSettle, Claimable, TypeOK
  <2>3. \A r \in Quotes : r # q => quote'[r] = quote[r] /\ call'[r] = call[r]
    BY <1>7 DEF BeginSettle, Claimable, TypeOK
  <2>4. OpenIffUnbound' /\ PaymentsKeyed' /\ UnsharedBinding'
    BY <2>1, <2>2, <2>3, BindingFrame DEF Open
  <2>5. call'[q].action = payment[PaymentId(a)].action
    BY <1>7 DEF BeginSettle, Claimable, Call, TypeOK
  <2>6. PaymentId(a) \in PaymentIds /\ payment[PaymentId(a)] # None
    BY <1>7 DEF BeginSettle, Claimable, PaymentIds
  <2>7. /\ PaymentId(payment[PaymentId(a)].action) = PaymentId(a)
        /\ payment[PaymentId(a)].action \in Actions
    BY <2>6 DEF BindingInv, PaymentsKeyed, TypeOK
  <2> QED
    BY <2>2, <2>3, <2>4, <2>5, <2>7 DEF BindingInv, CallsBound
<1>8. CASE UNCHANGED vars
  BY <1>8 DEF vars, BindingInv, OpenIffUnbound, PaymentsKeyed, UnsharedBinding, CallsBound
<1> QED
  BY <1>1, <1>2, <1>3, <1>4, <1>5, <1>6, <1>7, <1>8 DEF Next

\* The invariant holds in every reachable state.
THEOREM InvariantHolds == Spec => []IInv
<1>1. IInv /\ [Next]_vars => IInv'
  BY TypeStep, CallsStep, BindingStep DEF IInv
<1> QED
  BY InitInvariant, <1>1, PTL DEF Spec

-------------------------------------------------------------------------------
(* The properties *)

\* Type correctness of the coordinator.
THEOREM TypeCorrect == Spec => []TypeOK
<1>1. IInv => TypeOK
  BY DEF IInv
<1> QED
  BY <1>1, InvariantHolds, PTL

\* No quote causes a second request to the exchange, however settle calls,
\* lost answers and evictions follow each other.
THEOREM OneSubmission == Spec => []QuoteSubmittedOnce
<1>1. IInv => QuoteSubmittedOnce
  BY DEF IInv, CallsInv, CallInv, QuoteSubmittedOnce
<1> QED
  BY <1>1, InvariantHolds, PTL

\* A quote reported as SUBMITTED was paid by an action the exchange executed.
THEOREM SettledIsExecuted == Spec => []SubmittedIsExecuted
<1>1. IInv => SubmittedIsExecuted
  BY DEF IInv, CallsInv, CallInv, SubmittedIsExecuted
<1> QED
  BY <1>1, InvariantHolds, PTL

\* Among actions with an identifier of their own, a payer's timestamp is sent for
\* one quote only, the one bound to the payer who signed it.
THEOREM UnsharedOnce == Spec => []UnsharedActionSubmittedOnce
<1>1. IInv => UnsharedActionSubmittedOnce
  <2> SUFFICES ASSUME IInv, NEW a \in Actions, NEW q \in Quotes, Unshared(a), Sent(q, a),
                      NEW b \in Actions, NEW r \in Quotes, Unshared(b)
               PROVE  /\ quote[q].payer = Payer[a]
                      /\ ActionKey(b) = ActionKey(a) /\ Sent(r, b) => r = q
    BY DEF UnsharedActionSubmittedOnce
  <2>1. ASSUME NEW c \in Actions, NEW o \in Quotes, Unshared(c), Sent(o, c)
        PROVE  /\ payment[PaymentId(c)].quote = o
               /\ actionOwner[ActionKey(c)] = PaymentId(c)
               /\ quote[o].payer = Payer[c]
    <3>1. call[o].stage # "idle"
      BY <2>1 DEF IInv, CallsInv, CallInv, Sent
    <3>2. quote[o].payment = PaymentId(c)
      BY <2>1, <3>1 DEF IInv, BindingInv, CallsBound, Sent
    <3>3. /\ payment[PaymentId(c)] = [quote |-> o, action |-> c]
          /\ actionOwner[ActionKey(c)] = PaymentId(c)
          /\ quote[o].payer = Payer[c]
      BY <2>1, <3>2 DEF IInv, BindingInv, UnsharedBinding
    <3> QED
      BY <3>3
  <2>2. quote[q].payer = Payer[a]
    BY <2>1
  <2>3. ASSUME ActionKey(b) = ActionKey(a), Sent(r, b) PROVE r = q
    <3>1. PaymentId(a) = PaymentId(b)
      BY <2>1, <2>3
    <3> QED
      BY <2>1, <2>3, <3>1
  <2> QED
    BY <2>2, <2>3
<1> QED
  BY <1>1, InvariantHolds, PTL

\* A recorded result is final and a claimed quote never becomes payable again.
THEOREM Finality == Spec => ResultsAreFinal
<1>1. IInv /\ [Next]_vars => [KeepsResults]_vars
  <2> SUFFICES ASSUME TypeOK, CallsInv, [Next]_vars PROVE KeepsResults
    BY DEF IInv
  <2>0. ASSUME quote' = quote PROVE KeepsResults
    BY <2>0 DEF KeepsResults
  <2>1. CASE Tick
    BY <2>0, <2>1 DEF Tick
  <2>2. ASSUME NEW q \in Quotes, CreateQuote(q) PROVE KeepsResults
    <3>1. quote[q].state = "absent" /\ \A r \in Quotes : r # q => quote'[r] = quote[r]
      BY <2>2 DEF CreateQuote, TypeOK
    <3> QED
      BY <3>1 DEF KeepsResults
  <2>3. ASSUME NEW q \in Quotes, Exchange(q) PROVE KeepsResults
    BY <2>0, <2>3 DEF Exchange
  <2>4. ASSUME NEW q \in Quotes, FinishSettle(q) PROVE KeepsResults
    <3>1. call[q].stage \in {"ok", "refused", "lost"}
      BY <2>4, FinishRecords
    <3>2. quote[q].state = "SUBMITTING"
      BY <3>1 DEF CallsInv, CallInv
    <3>3. PICK result \in {"SUBMITTED", "REJECTED", "SUBMIT_UNKNOWN"} :
            quote' = [quote EXCEPT ![q].state = result]
      BY <2>4, FinishRecords
    <3>4. quote'[q].state = result /\ \A r \in Quotes : r # q => quote'[r] = quote[r]
      BY <3>3 DEF TypeOK
    <3> QED
      BY <3>2, <3>4 DEF KeepsResults
  <2>5. ASSUME NEW q \in Quotes, Evict(q) PROVE KeepsResults
    BY <2>0, <2>5 DEF Evict
  <2>6. ASSUME NEW q \in Quotes, NEW a \in Actions, Verify(q, a) PROVE KeepsResults
    BY <2>6 DEF Verify, Verifiable, TypeOK, KeepsResults
  <2>7. ASSUME NEW q \in Quotes, NEW a \in Actions, BeginSettle(q, a) PROVE KeepsResults
    <3>1. quote[q].state = "VERIFIED" /\ quote'[q].state = "SUBMITTING"
      BY <2>7 DEF BeginSettle, Claimable, TypeOK
    <3>2. \A r \in Quotes : r # q => quote'[r] = quote[r]
      BY <2>7 DEF BeginSettle, Claimable, TypeOK
    <3> QED
      BY <3>1, <3>2 DEF KeepsResults
  <2>8. CASE UNCHANGED vars
    BY <2>0, <2>8 DEF vars
  <2> QED
    BY <2>1, <2>2, <2>3, <2>4, <2>5, <2>6, <2>7, <2>8 DEF Next
<1> QED
  BY <1>1, InvariantHolds, PTL DEF Spec, ResultsAreFinal

-------------------------------------------------------------------------------
(* How late a claim can be *)

\* A bound action is dated at most Skew after the quote's expiry, and a claim was
\* made inside the window of the action it is for.
TimelyAction(q) ==
  \A a \in Actions : quote[q].payment = PaymentId(a) => Time[a] <= quote[q].expiresAt + Skew
TimelyClaim(q) ==
  call[q].stage # "idle" => submittedAt[q] <= quote[q].expiresAt + Skew + Lifetime + Latency
TimelyInv == \A q \in Quotes : TimelyAction(q) /\ TimelyClaim(q)

\* Every action keeps the bounds on the times of actions and claims.
LEMMA TimelyStep == IInv /\ TimelyInv /\ [Next]_vars => TimelyInv'
<1> SUFFICES ASSUME TypeOK, CallsInv, TimelyInv, [Next]_vars, NEW r \in Quotes
             PROVE  TimelyAction(r)' /\ TimelyClaim(r)'
  BY DEF IInv, TimelyInv
<1>0. TimelyAction(r) /\ TimelyClaim(r)
  BY DEF TimelyInv
<1>u. ASSUME quote'[r].payment = quote[r].payment, quote'[r].expiresAt = quote[r].expiresAt,
             submittedAt'[r] = submittedAt[r], call[r].stage = "idle" => call'[r].stage = "idle"
      PROVE  TimelyAction(r)' /\ TimelyClaim(r)'
  BY <1>0, <1>u DEF TimelyAction, TimelyClaim
<1>1. CASE Tick
  BY <1>1, <1>u DEF Tick
<1>2. ASSUME NEW q \in Quotes, CreateQuote(q) PROVE TimelyAction(r)' /\ TimelyClaim(r)'
  <2>1. CASE r = q
    <3>1. quote'[r].payment = None /\ call' = call /\ quote[r].state = "absent"
      BY <1>2, <2>1 DEF CreateQuote, Quote, TypeOK
    <3>2. call[r].stage = "idle"
      BY <3>1 DEF CallsInv, CallInv, TypeOK, Stages
    <3>3. \A b \in Actions : PaymentId(b) # None
      BY NoneAssumption DEF PaymentId
    <3> QED
      BY <3>1, <3>2, <3>3 DEF TimelyAction, TimelyClaim
  <2>2. CASE r # q
    BY <1>2, <2>2, <1>u DEF CreateQuote, TypeOK
  <2> QED
    BY <2>1, <2>2
<1>3. ASSUME NEW q \in Quotes, Exchange(q) PROVE TimelyAction(r)' /\ TimelyClaim(r)'
  <2>1. call[r].stage = "idle" => call'[r].stage = "idle"
    BY <1>3 DEF Exchange, TypeOK
  <2> QED
    BY <1>3, <2>1, <1>u DEF Exchange
<1>4. ASSUME NEW q \in Quotes, FinishSettle(q) PROVE TimelyAction(r)' /\ TimelyClaim(r)'
  <2>1. PICK result : quote' = [quote EXCEPT ![q].state = result]
    BY <1>4 DEF FinishSettle
  <2>2. quote'[r].payment = quote[r].payment /\ quote'[r].expiresAt = quote[r].expiresAt
    BY <2>1 DEF TypeOK
  <2>3. call[r].stage = "idle" => call'[r].stage = "idle"
    BY <1>4, RecordedValue DEF FinishSettle, TypeOK
  <2> QED
    BY <1>4, <2>2, <2>3, <1>u DEF FinishSettle
<1>5. ASSUME NEW q \in Quotes, Evict(q) PROVE TimelyAction(r)' /\ TimelyClaim(r)'
  <2>1. call[r].stage = "idle" => call'[r].stage = "idle"
    BY <1>5 DEF Evict, TypeOK
  <2> QED
    BY <1>5, <2>1, <1>u DEF Evict
<1>6. ASSUME NEW q \in Quotes, NEW a \in Actions, Verify(q, a)
      PROVE  TimelyAction(r)' /\ TimelyClaim(r)'
  <2>1. CASE r = q
    <3>1. /\ quote'[r].payment = PaymentId(a) /\ quote'[r].expiresAt = quote[r].expiresAt
          /\ quote[r].state = "QUOTED" /\ clock <= quote[r].expiresAt
          /\ call' = call /\ submittedAt' = submittedAt
      BY <1>6, <2>1 DEF Verify, Verifiable, Quote, TypeOK
    <3>2. Time[a] <= quote[r].expiresAt + Skew
      <4>1. PICK t \in ReadTimes(r) : Time[a] <= t + Skew
        BY <1>6, <2>1 DEF Verify, InWindow
      <4>2. t \in Nat /\ t <= clock
        BY <4>1 DEF ReadTimes, TypeOK
      <4> QED
        BY <3>1, <4>1, <4>2, TimeAssumption DEF TypeOK
    <3>3. \A b \in Actions : PaymentId(a) = PaymentId(b) => Time[b] = Time[a]
      BY DEF PaymentId
    <3> QED
      BY <1>0, <3>1, <3>2, <3>3 DEF TimelyAction, TimelyClaim
  <2>2. CASE r # q
    BY <1>6, <2>2, <1>u DEF Verify, Verifiable, TypeOK
  <2> QED
    BY <2>1, <2>2
<1>7. ASSUME NEW q \in Quotes, NEW a \in Actions, BeginSettle(q, a)
      PROVE  TimelyAction(r)' /\ TimelyClaim(r)'
  <2>1. CASE r = q
    <3>1. /\ quote'[r].payment = quote[r].payment /\ quote'[r].expiresAt = quote[r].expiresAt
          /\ quote[r].payment = PaymentId(a) /\ submittedAt'[r] = clock
      BY <1>7, <2>1 DEF BeginSettle, Claimable, TypeOK
    <3>2. Time[a] <= quote[r].expiresAt + Skew
      BY <1>0, <3>1 DEF TimelyAction
    <3>3. clock <= quote[r].expiresAt + Skew + Lifetime + Latency
      <4>1. PICK t \in ReadTimes(r) : t <= Time[a] + Lifetime
        BY <1>7, <2>1 DEF BeginSettle, InWindow
      <4>2. t \in Nat /\ clock <= t + Latency
        BY <4>1 DEF ReadTimes, TypeOK
      <4> QED
        BY <3>2, <4>1, <4>2, TimeAssumption DEF TypeOK
    <3> QED
      BY <1>0, <3>1, <3>3 DEF TimelyAction, TimelyClaim
  <2>2. CASE r # q
    BY <1>7, <2>2, <1>u DEF BeginSettle, Claimable, TypeOK
  <2> QED
    BY <2>1, <2>2
<1>8. CASE UNCHANGED vars
  BY <1>8, <1>u DEF vars
<1> QED
  BY <1>1, <1>2, <1>3, <1>4, <1>5, <1>6, <1>7, <1>8 DEF Next

\* A quote is claimed for submission at most Skew + Lifetime + Latency after it
\* expired, for any lifetimes, clock skews, latencies and numbers of quotes.
THEOREM ClaimIsTimely == Spec => []SubmissionTimely
<1>1. Init => TimelyInv
  <2>1. \A a \in Actions : PaymentId(a) # None
    BY NoneAssumption DEF PaymentId
  <2> SUFFICES ASSUME Init, NEW q \in Quotes PROVE TimelyAction(q) /\ TimelyClaim(q)
    BY DEF TimelyInv
  <2>2. quote[q].payment = None /\ call[q].stage = "idle"
    BY DEF Init, Quote, Call
  <2> QED
    BY <2>1, <2>2 DEF TimelyAction, TimelyClaim
<1>2. Spec => []TimelyInv
  BY <1>1, TimelyStep, InvariantHolds, PTL DEF Spec
<1>3. IInv /\ TimelyInv => SubmissionTimely
  BY DEF IInv, CallsInv, CallInv, TypeOK, Stages, TimelyInv, TimelyClaim, SubmissionTimely
<1> QED
  BY <1>2, <1>3, InvariantHolds, PTL

===============================================================================
