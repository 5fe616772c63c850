--------------------------- MODULE LedgerUsersProofs ---------------------------
(***************************************************************************)
(* The two users of the in-process ledger: metered calls and x402 paid     *)
(* delivery.  Neither writes a table itself: every step of either is one   *)
(* ledger method or changes no table, so that what is proved of the ledger *)
(* holds of both.                                                          *)
(*                                                                         *)
(* Metered calls, for any calls, keys, routes, configurations and operator *)
(* actions: credits are held only for a call in its handler, and an        *)
(* account is never seeded beyond the capacity configured for it.          *)
(*                                                                         *)
(* Paid delivery, for any payments, rails, requests and accounts: nothing  *)
(* is delivered or credited before its payment was executed, no payment is *)
(* charged that was not authorised on record for an answer some handler    *)
(* gave, and no charge is without a trace.                                 *)
(***************************************************************************)
EXTENDS MeteredCalls, X402Delivery, AgentMeterStoreProofs

-------------------------------------------------------------------------------
(* METERED CALLS *)


\* The entries a configuration may carry, and the responses a settled call has sent.
DeployedInv == deployed \in [Accounts -> [credits : Seeds, status : {"active", "revoked"}] \cup {NotConfigured}]

PcInv ==
  /\ pc \in [Calls -> {"start", "status", "reserve", "dispatch", "settle", "done"}]
  /\ outcome \in [Calls -> {"none", "unauthorized", "conflict", "exhausted", "served", "failed"}]
  /\ \A c \in Calls : pc[c] = "settle" => outcome[c] \in {"served", "failed"}
  /\ \A c \in abandoned : pc[c] \notin {"dispatch", "settle"}

\* What an account was seeded with is within its provisioned total, which an
\* absent account does not have.
SeededInv ==
  /\ applied \in [Accounts -> Nat]
  /\ \A a \in Accounts :
       /\ seeded[a] <= account[a].provisioned /\ seeded[a] <= applied[a]
       /\ ~Exists(a) => account[a].provisioned = 0

LayerInv == DeployedInv /\ PcInv

-------------------------------------------------------------------------------
(* The call layer uses the ledger *)

\* Every step of the call layer is one ledger method or changes no table.
LEMMA CallsUseStore ==
  ASSUME LayerInv, [CallsNext]_vars
  PROVE  [Next]_storeVars
<1>1. ASSUME NEW c \in Calls, Authenticate(c) PROVE [Next]_storeVars
  <2>1. CASE deployed[CallAccount[c]] = NotConfigured
    BY <1>1, <2>1 DEF Authenticate
  <2>2. CASE deployed[CallAccount[c]] # NotConfigured
    <3>1. /\ deployed[CallAccount[c]].credits \in Seeds
          /\ deployed[CallAccount[c]].status \in {"active", "revoked"}
      BY <2>2, CallAssumption DEF LayerInv, DeployedInv
    <3> QED
      BY <1>1, <2>2, <3>1, CallAssumption DEF Authenticate, Next
  <2> QED
    BY <2>1, <2>2
<1>2. ASSUME NEW c \in Calls, CheckStatus(c) \/ Dispatch(c) \/ Abandon(c) PROVE [Next]_storeVars
  BY <1>2 DEF CheckStatus, Dispatch, Abandon
<1>3. ASSUME NEW c \in Calls, ReserveCall(c) PROVE [Next]_storeVars
  BY <1>3, CallAssumption DEF ReserveCall, Next
<1>4. ASSUME NEW c \in Calls, SettleCall(c) PROVE [Next]_storeVars
  BY <1>4, CallAssumption DEF SettleCall, Settlement, Next
<1>5. ASSUME NEW a \in Accounts, NEW n \in Seeds, NEW s \in {"active", "revoked"}, Deploy(a, n, s)
      PROVE  [Next]_storeVars
  BY <1>5 DEF Deploy
<1>6. ASSUME NEW a \in Accounts, NEW n \in Seeds, Issue(a, n) PROVE [Next]_storeVars
  BY <1>6 DEF Issue, Next
<1>7. ASSUME NEW a \in Accounts, NEW k \in RequestKeys, NEW n \in Grants, OperatorCredit(a, k, n)
      PROVE  [Next]_storeVars
  BY <1>7 DEF OperatorCredit, Next, References
<1>8. ASSUME NEW a \in Accounts, OperatorRevoke(a) PROVE [Next]_storeVars
  BY <1>8 DEF OperatorRevoke, Next
<1>9. ASSUME NEW p \in Purchases, AcceptBuyer(p) \/ AuthorizePack(p) \/ SettlePack(p)
      PROVE  [Next]_storeVars
  BY <1>9 DEF AcceptBuyer, AuthorizePack, SettlePack, Next
<1>10. CASE UNCHANGED vars
  BY <1>10 DEF vars, storeVars
<1> QED
  BY <1>1, <1>2, <1>3, <1>4, <1>5, <1>6, <1>7, <1>8, <1>9, <1>10 DEF CallsNext, CallStep

\* No configuration, and no call begun.
LEMMA LayerInit == CallsInit => LayerInv
BY DEF CallsInit, LayerInv, DeployedInv, PcInv

Responses == {"none", "unauthorized", "conflict", "exhausted", "served", "failed"}

\* A answered changes the outcome of its own call only, and of no abandoned one.
LEMMA RespondOutcome ==
  ASSUME NEW c \in Calls, NEW answered \in Responses, outcome \in [Calls -> Responses],
         Respond(c, answered)
  PROVE  /\ outcome' \in [Calls -> Responses]
         /\ \A d \in Calls : d # c => outcome'[d] = outcome[d]
         /\ c \notin abandoned => outcome'[c] = answered
<1>1. CASE c \in abandoned
  BY <1>1 DEF Respond
<1>2. CASE c \notin abandoned
  BY <1>2 DEF Respond
<1> QED
  BY <1>1, <1>2

\* The call layer keeps its own types.
LEMMA LayerStep == LayerInv /\ [CallsNext]_vars => LayerInv'
<1> SUFFICES ASSUME LayerInv, [CallsNext]_vars PROVE LayerInv'
  OBVIOUS
<1>1. ASSUME NEW c \in Calls, CallStep(c) PROVE LayerInv'
  <2> DEFINE Moved(label) == pc' = [pc EXCEPT ![c] = label] /\ abandoned' = abandoned
  <2>0. outcome \in [Calls -> Responses] /\ deployed' = deployed
    BY <1>1 DEF LayerInv, PcInv, Responses, CallStep, Authenticate, CheckStatus, ReserveCall, Dispatch,
                SettleCall, Abandon
  <2>1. ASSUME NEW label \in {"status", "reserve", "done"}, Moved(label), outcome' \in [Calls -> Responses],
               \A d \in Calls : d # c => outcome'[d] = outcome[d]
        PROVE  LayerInv'
    BY <2>0, <2>1 DEF LayerInv, DeployedInv, PcInv, Responses
  <2>2. CASE Authenticate(c)
    BY <2>0, <2>1, <2>2 DEF Authenticate, Goto
  <2>3. CASE CheckStatus(c)
    BY <2>0, <2>1, <2>3, RespondOutcome DEF CheckStatus, Goto, Responses
  <2>4. CASE ReserveCall(c)
    <3>1. \/ Moved("done") /\ (outcome' = outcome \/ Respond(c, "conflict") \/ Respond(c, "exhausted"))
          \/ Moved("dispatch") /\ outcome' = outcome /\ c \notin abandoned
      BY <2>4 DEF ReserveCall, Goto
    <3>2. CASE Moved("dispatch") /\ outcome' = outcome /\ c \notin abandoned
      BY <2>0, <3>2 DEF LayerInv, DeployedInv, PcInv
    <3> QED
      BY <2>0, <2>1, <3>1, <3>2, RespondOutcome DEF Responses
  <2>5. CASE Dispatch(c)
    <3>1. PICK answered \in {"served", "failed"} : Respond(c, answered)
      BY <2>5 DEF Dispatch
    <3>2. /\ Moved("settle") /\ c \notin abandoned
          /\ outcome' \in [Calls -> Responses] /\ outcome'[c] = answered
          /\ \A d \in Calls : d # c => outcome'[d] = outcome[d]
      BY <2>0, <2>5, <3>1, RespondOutcome DEF Dispatch, Goto, LayerInv, PcInv, Responses
    <3> QED
      BY <2>0, <3>1, <3>2 DEF LayerInv, DeployedInv, PcInv, Responses
  <2>6. CASE SettleCall(c)
    BY <2>0, <2>1, <2>6 DEF SettleCall, Goto
  <2>7. CASE Abandon(c)
    <3>1. /\ pc' = pc /\ abandoned' = abandoned \cup {c} /\ pc[c] \notin {"dispatch", "settle"}
          /\ outcome' \in [Calls -> Responses]
          /\ \A d \in Calls : d # c => outcome'[d] = outcome[d]
      BY <2>0, <2>7, RespondOutcome DEF Abandon, Responses
    <3> QED
      BY <2>0, <3>1 DEF LayerInv, DeployedInv, PcInv, Responses
  <2> QED
    BY <1>1, <2>2, <2>3, <2>4, <2>5, <2>6, <2>7 DEF CallStep
<1>2. ASSUME NEW a \in Accounts, NEW n \in Seeds, NEW s \in {"active", "revoked"}, Deploy(a, n, s)
      PROVE  LayerInv'
  BY <1>2 DEF LayerInv, DeployedInv, PcInv, Deploy
<1>3. ASSUME UNCHANGED <<deployed, pc, outcome, abandoned>> PROVE LayerInv'
  BY <1>3 DEF LayerInv, DeployedInv, PcInv
<1> QED
  BY <1>1, <1>2, <1>3 DEF CallsNext, Issue, OperatorCredit, OperatorRevoke, AcceptBuyer, AuthorizePack,
                          SettlePack, callVars, vars

\* Layer and ledger invariants hold of every behaviour of the call layer.
LEMMA CallsInvHold == CallsSpec => [](LayerInv /\ MeterInv)
<1>1. CallsInit => LayerInv /\ MeterInv
  BY LayerInit, MeterInit DEF CallsInit
<1>2. LayerInv /\ MeterInv /\ [CallsNext]_vars => LayerInv' /\ MeterInv'
  BY LayerStep, CallsUseStore, MeterStep
<1> QED
  BY <1>1, <1>2, PTL DEF CallsSpec

\* The call layer's tables and variables keep their types.
THEOREM CallsTypeCorrect == CallsSpec => []CallsTypeOK
<1> DEFINE Sets == configurable \subseteq Accounts /\ buying \subseteq Purchases /\ abandoned \subseteq ToolCalls
<1>1. CallsInit => Sets
  BY DEF CallsInit
<1>2. Sets /\ [CallsNext]_vars => Sets'
  BY DEF CallsNext, CallStep, Authenticate, CheckStatus, ReserveCall, Dispatch, SettleCall, Abandon, Deploy,
         Issue, OperatorCredit, OperatorRevoke, AcceptBuyer, AuthorizePack, SettlePack, callVars, vars
<1>3. LayerInv /\ MeterInv /\ Sets => CallsTypeOK
  <2>1. [credits : Seeds, status : {"active", "revoked"}] \cup {NotConfigured}
          \subseteq [credits : Nat, status : {"none", "active", "revoked"}]
    <3>1. [credits : Seeds, status : {"active", "revoked"}]
            \subseteq [credits : Nat, status : {"none", "active", "revoked"}]
      BY AmountsAssumption
    <3>2. NotConfigured \in [credits : Nat, status : {"none", "active", "revoked"}]
      BY DEF NotConfigured
    <3> QED
      BY <3>1, <3>2
  <2>2. DeployedInv => deployed \in [Accounts -> [credits : Nat, status : {"none", "active", "revoked"}]]
    BY <2>1 DEF DeployedInv
  <2> QED
    BY <2>2 DEF LayerInv, MeterInv, PcInv, CallsTypeOK
<1> HIDE DEF Sets
<1> QED
  BY <1>1, <1>2, <1>3, CallsInvHold, PTL DEF CallsSpec

-------------------------------------------------------------------------------
(* Holding credits *)

\* A row that is held after a step was held before it, unless a call reserved it.
LEMMA HeldStep ==
  ASSUME LayerInv, MeterInv, HeldOnlyInHandler, [CallsNext]_vars
  PROVE  HeldOnlyInHandler'
<1> SUFFICES ASSUME NEW a \in Accounts, NEW k \in RequestKeys, usage'[a][k].state = "RESERVED"
             PROVE  \E c \in Calls : CallAccount[c] = a /\ CallKey[c] = k /\ (InHandler(c) \/ c \in abandoned)'
  BY DEF HeldOnlyInHandler
<1> DEFINE Holder(c) == CallAccount[c] = a /\ CallKey[c] = k /\ (InHandler(c) \/ c \in abandoned)
<1>0. usage[a][k].state = "RESERVED" => \E c \in Calls : Holder(c)
  BY DEF HeldOnlyInHandler
<1>1. ASSUME UNCHANGED <<usage, pc, abandoned>> PROVE \E c \in Calls : Holder(c)'
  BY <1>0, <1>1 DEF InHandler
<1>2. ASSUME NEW d \in Calls, Authenticate(d) \/ CheckStatus(d) \/ Dispatch(d) \/ Abandon(d)
      PROVE  \E c \in Calls : Holder(c)'
  <2>1. usage' = usage
    BY <1>2 DEF Authenticate, CheckStatus, Dispatch, Abandon, Provision, storeVars
  <2>2. \A c \in Calls : (InHandler(c) => InHandler(c)') /\ (c \in abandoned => c \in abandoned')
    BY <1>2 DEF Authenticate, CheckStatus, Dispatch, Abandon, Goto, InHandler, LayerInv, PcInv
  <2> QED
    BY <1>0, <2>1, <2>2
<1>3. ASSUME NEW d \in Calls, ReserveCall(d) PROVE \E c \in Calls : Holder(c)'
  <2> DEFINE Taken == /\ CallAccount[d] = a /\ CallKey[d] = k
                      /\ Goto(d, IF d \in abandoned THEN "done" ELSE "dispatch") /\ abandoned' = abandoned
  <2>1. \A c \in Calls : (InHandler(c) => InHandler(c)') /\ (c \in abandoned => c \in abandoned')
    BY <1>3 DEF ReserveCall, Goto, InHandler, LayerInv, PcInv
  <2>2. CASE Taken
    BY <2>2 DEF Goto, InHandler, LayerInv, PcInv
  <2>3. CASE usage'[a][k] = usage[a][k]
    BY <1>0, <2>1, <2>3
  <2>4. Taken \/ usage'[a][k] = usage[a][k]
    BY <1>3, CallAssumption DEF ReserveCall, Reserve, storeVars, MeterInv, TypeOK
  <2> QED
    BY <2>2, <2>3, <2>4
<1>4. ASSUME NEW d \in Calls, SettleCall(d) PROVE \E c \in Calls : Holder(c)'
  <2>1. CASE CallAccount[d] = a /\ CallKey[d] = k
    <3>1. CASE SettleUsage(a, k, Settlement(outcome[d]))
      <4>1. usage'[a][k].state = Settlement(outcome[d])
        BY <3>1 DEF SettleUsage, Unsettled, NoUsage, UsageRows, MeterInv, TypeOK
      <4> QED
        BY <4>1 DEF Settlement
    <3>2. CASE ~Unsettled(a, k) /\ UNCHANGED storeVars
      BY <3>2 DEF Unsettled, storeVars
    <3> QED
      BY <1>4, <2>1, <3>1, <3>2 DEF SettleCall
  <2>2. CASE ~(CallAccount[d] = a /\ CallKey[d] = k)
    <3>1. usage'[a][k] = usage[a][k]
      <4>1. CASE SettleUsage(CallAccount[d], CallKey[d], Settlement(outcome[d]))
        <5> DEFINE b == CallAccount[d]
                   j == CallKey[d]
                   row == [usage[b][j] EXCEPT !.state = Settlement(outcome[d])]
        <5>1. b \in Accounts /\ j \in RequestKeys /\ (b # a \/ j # k)
          BY <2>2, CallAssumption
        <5>2. usage' = [usage EXCEPT ![b] = [usage[b] EXCEPT ![j] = row]]
          BY <4>1 DEF SettleUsage
        <5>3. usage \in [Accounts -> [RequestKeys -> UsageRows \cup {NoUsage}]]
          BY DEF MeterInv, TypeOK
        <5> HIDE DEF b, j, row
        <5> QED
          BY <5>1, <5>2, <5>3
      <4>2. CASE UNCHANGED storeVars
        BY <4>2 DEF storeVars
      <4> QED
        BY <1>4, <4>1, <4>2 DEF SettleCall
    <3>2. \A c \in Calls \ {d} : (InHandler(c) => InHandler(c)') /\ (c \in abandoned => c \in abandoned')
      BY <1>4 DEF SettleCall, Goto, InHandler, LayerInv, PcInv
    <3> QED
      BY <1>0, <2>2, <3>1, <3>2
  <2> QED
    BY <2>1, <2>2
<1> QED
  BY <1>1, <1>2, <1>3, <1>4 DEF CallsNext, CallStep, Deploy, Issue, OperatorCredit, OperatorRevoke,
     AcceptBuyer, AuthorizePack, SettlePack, Create, Credit, Revoke, AuthorizePurchase, SettlePurchase,
     callVars, vars, storeVars

\* Credits are held only while a call that uses the key is in its handler or was
\* answered by its deadline, for any calls, keys, routes and operator actions.
THEOREM HeldInHandler == CallsSpec => []HeldOnlyInHandler
<1>1. CallsInit => HeldOnlyInHandler
  BY DEF CallsInit, Init, HeldOnlyInHandler, NoUsage
<1>2. HeldOnlyInHandler /\ LayerInv /\ MeterInv /\ [CallsNext]_vars => HeldOnlyInHandler'
  BY HeldStep
<1> QED
  BY <1>1, <1>2, CallsInvHold, PTL DEF CallsSpec

-------------------------------------------------------------------------------
(* Seeded capacity *)

\* A row that keeps its existence and does not shrink stays within its bounds.
LEMMA SeededKept ==
  ASSUME MeterInv, SeededInv, MeterInv', seeded' = seeded, applied' = applied,
         \A a \in Accounts : /\ account'[a].provisioned >= account[a].provisioned
                             /\ (account'[a].status = "absent") =>
                                  /\ account[a].status = "absent"
                                  /\ account'[a].provisioned = account[a].provisioned
  PROVE  SeededInv'
BY DEF SeededInv, MeterInv, TypeOK, Exists

\* A ledger method other than a provisioning or an issue changes no seeded total.
LEMMA MethodKeepsSeeds ==
  ASSUME MeterInv, SeededInv, MeterInv', applied' = applied,
         \/ \E a \in Accounts :
              \/ Revoke(a)
              \/ \E k \in RequestKeys, n \in Grants, reference \in References : Credit(a, k, n, reference)
              \/ \E k \in RequestKeys, r \in Routes : Reserve(a, k, r)
              \/ \E k \in RequestKeys, o \in {"CONSUMED", "RELEASED"} : SettleUsage(a, k, o)
         \/ \E p \in Purchases : AuthorizePurchase(p) \/ SettlePurchase(p)
         \/ UNCHANGED storeVars
  PROVE  SeededInv'
<1> DEFINE Grown == /\ seeded' = seeded
                    /\ \A b \in Accounts :
                         /\ account'[b].provisioned >= account[b].provisioned
                         /\ (account'[b].status = "absent") =>
                              /\ account[b].status = "absent"
                              /\ account'[b].provisioned = account[b].provisioned
<1>0. account \in [Accounts -> [status : {"absent", "active", "revoked"}, provisioned : Nat, remaining : Nat]]
  BY DEF MeterInv, TypeOK
<1>1. ASSUME NEW a \in Accounts, Revoke(a) PROVE Grown
  BY <1>0, <1>1 DEF Revoke
<1>2. ASSUME NEW a \in Accounts, NEW k \in RequestKeys, NEW n \in Grants, NEW reference \in References,
             Credit(a, k, n, reference)
      PROVE  Grown
  BY <1>0, <1>2, AmountsAssumption DEF Credit, Credited, Exists
<1>3. ASSUME NEW a \in Accounts, NEW k \in RequestKeys, NEW r \in Routes, Reserve(a, k, r) PROVE Grown
  BY <1>0, <1>3 DEF Reserve, Affordable, Active
<1>4. ASSUME NEW a \in Accounts, NEW k \in RequestKeys, NEW o \in {"CONSUMED", "RELEASED"},
             SettleUsage(a, k, o)
      PROVE  Grown
  <2> DEFINE row == [account[a] EXCEPT !.remaining = @ + Price[usage[a][k].route]]
  <2>1. account' = account \/ account' = [account EXCEPT ![a] = row]
    BY <1>4 DEF SettleUsage
  <2>2. row.status = account[a].status /\ row.provisioned = account[a].provisioned
    BY <1>0
  <2> HIDE DEF row
  <2> QED
    BY <1>0, <1>4, <2>1, <2>2 DEF SettleUsage
<1>5. ASSUME NEW p \in Purchases, AuthorizePurchase(p) PROVE Grown
  BY <1>0, <1>5 DEF AuthorizePurchase
<1>6. ASSUME NEW p \in Purchases, SettlePurchase(p) PROVE Grown
  BY <1>0, <1>6, PackRow DEF SettlePurchase, Credited, Active
<1>7. ASSUME UNCHANGED storeVars PROVE Grown
  BY <1>0, <1>7 DEF storeVars
<1>8. Grown
  BY <1>1, <1>2, <1>3, <1>4, <1>5, <1>6, <1>7
<1> QED
  BY <1>8, SeededKept
\* A provisioning raises the total to the configured capacity and no further.
LEMMA ProvisionSeeds ==
  ASSUME MeterInv, SeededInv, MeterInv', NEW a \in Accounts, NEW n \in Nat,
         NEW s \in {"active", "revoked"}, Provision(a, n, s),
         applied' = [applied EXCEPT ![a] = Larger(@, n)]
  PROVE  SeededInv'
<1> DEFINE added == IF Exists(a) THEN TopUp(n, account[a].provisioned) ELSE n
           row == IF Exists(a) THEN Credited(account[a], added) ELSE NewAccount(n, s)
<1>0. /\ account \in [Accounts -> [status : {"absent", "active", "revoked"}, provisioned : Nat, remaining : Nat]]
      /\ seeded \in [Accounts -> Nat] /\ applied \in [Accounts -> Nat]
  BY DEF MeterInv, TypeOK, SeededInv
<1>1. account' = [account EXCEPT ![a] = row] /\ seeded' = [seeded EXCEPT ![a] = seeded[a] + added]
  BY DEF Provision
<1>2. added \in Nat /\ (Exists(a) /\ n > account[a].provisioned => account[a].provisioned + added = n)
      /\ (Exists(a) /\ n <= account[a].provisioned => added = 0) /\ (~Exists(a) => added = n)
  BY <1>0, TopUpAmount
<1>3. row.status # "absent" /\ row.provisioned = account[a].provisioned + added
  <2> HIDE DEF added
  <2>1. CASE Exists(a)
    BY <1>0, <1>2, <2>1, CreditedRow DEF Exists
  <2>2. CASE ~Exists(a)
    BY <1>0, <1>2, <2>2 DEF NewAccount, SeededInv
  <2> QED
    BY <2>1, <2>2
<1>4. seeded[a] <= account[a].provisioned /\ seeded[a] <= applied[a]
      /\ (~Exists(a) => account[a].provisioned = 0)
  BY DEF SeededInv
<1>5. seeded[a] + added <= Larger(applied[a], n) /\ Larger(applied[a], n) \in Nat
  <2> HIDE DEF added
  <2> QED
    BY <1>0, <1>2, <1>4 DEF Larger
<1> HIDE DEF added, row
<1> QED
  BY <1>0, <1>1, <1>2, <1>3, <1>4, <1>5 DEF SeededInv, Exists

\* An issue seeds an account that had nothing.
LEMMA CreateSeeds ==
  ASSUME MeterInv, SeededInv, MeterInv', NEW a \in Accounts, NEW n \in Nat, Create(a, n),
         applied' = [applied EXCEPT ![a] = Larger(@, n)]
  PROVE  SeededInv'
<1>0. /\ account \in [Accounts -> [status : {"absent", "active", "revoked"}, provisioned : Nat, remaining : Nat]]
      /\ seeded \in [Accounts -> Nat] /\ applied \in [Accounts -> Nat]
  BY DEF MeterInv, TypeOK, SeededInv
<1>1. seeded[a] = 0
  BY <1>0 DEF SeededInv, Create
<1>2. Larger(applied[a], n) \in Nat /\ n <= Larger(applied[a], n)
  BY <1>0 DEF Larger
<1> QED
  BY <1>0, <1>1, <1>2 DEF SeededInv, Create, NewAccount, Exists

\* Every step of the call layer keeps the seeded totals within their bounds.
LEMMA SeededStep ==
  ASSUME LayerInv, MeterInv, SeededInv, [CallsNext]_vars
  PROVE  SeededInv'
<1>0. MeterInv'
  BY CallsUseStore, MeterStep
<1>1. ASSUME NEW c \in Calls, Authenticate(c) PROVE SeededInv'
  <2>1. CASE deployed[CallAccount[c]] = NotConfigured
    BY <1>0, <1>1, <2>1, MethodKeepsSeeds DEF Authenticate, storeVars
  <2>2. CASE deployed[CallAccount[c]] # NotConfigured
    <3>1. /\ deployed[CallAccount[c]].credits \in Nat
          /\ deployed[CallAccount[c]].status \in {"active", "revoked"}
          /\ CallAccount[c] \in Accounts
      BY <2>2, CallAssumption, AmountsAssumption DEF LayerInv, DeployedInv
    <3> QED
      BY <1>0, <1>1, <2>2, <3>1, ProvisionSeeds DEF Authenticate
  <2> QED
    BY <2>1, <2>2
<1>2. ASSUME NEW c \in Calls, CheckStatus(c) \/ Dispatch(c) \/ Abandon(c) PROVE SeededInv'
  BY <1>0, <1>2, MethodKeepsSeeds DEF CheckStatus, Dispatch, Abandon, storeVars
<1>3. ASSUME NEW c \in Calls, ReserveCall(c) PROVE SeededInv'
  BY <1>0, <1>3, CallAssumption, MethodKeepsSeeds DEF ReserveCall
<1>4. ASSUME NEW c \in Calls, SettleCall(c) PROVE SeededInv'
  BY <1>0, <1>4, CallAssumption, MethodKeepsSeeds DEF SettleCall, Settlement
<1>5. ASSUME NEW a \in Accounts, NEW n \in Seeds, NEW s \in {"active", "revoked"}, Deploy(a, n, s)
      PROVE  SeededInv'
  BY <1>0, <1>5, MethodKeepsSeeds DEF Deploy
<1>6. ASSUME NEW a \in Accounts, NEW n \in Seeds, Issue(a, n) PROVE SeededInv'
  BY <1>0, <1>6, CreateSeeds, AmountsAssumption DEF Issue
<1>7. ASSUME NEW a \in Accounts, NEW k \in RequestKeys, NEW n \in Grants, OperatorCredit(a, k, n)
      PROVE  SeededInv'
  BY <1>0, <1>7, MethodKeepsSeeds DEF OperatorCredit, References, callVars
<1>8. ASSUME NEW a \in Accounts, OperatorRevoke(a) PROVE SeededInv'
  BY <1>0, <1>8, MethodKeepsSeeds DEF OperatorRevoke, callVars
<1>9. ASSUME NEW p \in Purchases, AcceptBuyer(p) \/ AuthorizePack(p) \/ SettlePack(p)
      PROVE  SeededInv'
  BY <1>0, <1>9, MethodKeepsSeeds DEF AcceptBuyer, AuthorizePack, SettlePack, callVars
<1>10. CASE UNCHANGED vars
  BY <1>0, <1>10, MethodKeepsSeeds DEF vars, callVars
<1> QED
  BY <1>1, <1>2, <1>3, <1>4, <1>5, <1>6, <1>7, <1>8, <1>9, <1>10 DEF CallsNext, CallStep

\* Redeployments and concurrent calls never seed an account beyond the highest
\* capacity configured or issued for it.
THEOREM SeededBounded == CallsSpec => []SeededAtMostApplied
<1>1. CallsInit => SeededInv
  <2> SUFFICES ASSUME CallsInit PROVE SeededInv
    OBVIOUS
  <2>1. \A a \in Accounts : OpeningCredits(a) \in Nat
    BY OpeningAssumption DEF OpeningCredits
  <2>2. \A a \in Accounts : /\ OpeningAccount(a).provisioned = OpeningCredits(a)
                            /\ OpeningAccount(a).status = "absent" => OpeningCredits(a) = 0
    BY DEF OpeningAccount, OpeningCredits, NewAccount, NoAccount
  <2> QED
    BY <2>1, <2>2 DEF CallsInit, Init, SeededInv, Exists
<1>2. SeededInv /\ LayerInv /\ MeterInv /\ [CallsNext]_vars => SeededInv'
  BY SeededStep
<1>3. SeededInv => SeededAtMostApplied
  BY DEF SeededInv, SeededAtMostApplied
<1> QED
  BY <1>1, <1>2, <1>3, CallsInvHold, PTL DEF CallsSpec

-------------------------------------------------------------------------------
(* Keys that one call uses *)

\* No other call has begun under the key of c.
Alone(c) ==
  \A d \in Calls \ {c} : CallAccount[d] = CallAccount[c] /\ CallKey[d] = CallKey[c] => pc[d] = "start"

\* The row of a key that only c uses follows c: absent, held, then settled by its answered.
RowFollows(c) ==
  /\ pc[c] \in {"start", "status", "reserve"} => UsageOf(c) = NoUsage
  /\ InHandler(c) => UsageOf(c).state = "RESERVED"
  /\ pc[c] = "done" /\ outcome[c] \in {"served", "failed"} =>
       UsageOf(c).state = Settlement(outcome[c])

RowsFollow == \A c \in Calls : c \notin abandoned /\ Alone(c) => RowFollows(c)

\* A call touches the row of its own key only.
LEMMA OtherRowsStay ==
  ASSUME MeterInv, NEW d \in Calls, CallStep(d), NEW a \in Accounts, NEW k \in RequestKeys,
         ~(CallAccount[d] = a /\ CallKey[d] = k)
  PROVE  usage'[a][k] = usage[a][k]
<1> DEFINE b == CallAccount[d]
           j == CallKey[d]
<1>1. /\ b \in Accounts /\ j \in RequestKeys /\ (b # a \/ j # k)
      /\ usage \in [Accounts -> [RequestKeys -> UsageRows \cup {NoUsage}]]
  BY CallAssumption DEF MeterInv, TypeOK
<1>2. ASSUME NEW row, usage' = [usage EXCEPT ![b] = [usage[b] EXCEPT ![j] = row]]
      PROVE  usage'[a][k] = usage[a][k]
  <2> HIDE DEF b, j
  <2> QED
    BY <1>1, <1>2
<1>3. CASE Reserve(b, j, CallRoute[d])
  BY <1>2, <1>3 DEF Reserve
<1>4. CASE SettleUsage(b, j, Settlement(outcome[d]))
  BY <1>2, <1>4 DEF SettleUsage
<1>5. CASE usage' = usage
  BY <1>5
<1> QED
  BY <1>3, <1>4, <1>5 DEF CallStep, Authenticate, CheckStatus, ReserveCall, Dispatch, SettleCall, Abandon,
                          Provision, storeVars

\* The step of a call that is alone under its key.
LEMMA OwnRowFollows ==
  ASSUME LayerInv, MeterInv, NEW c \in Calls, CallStep(c), RowFollows(c), c \notin abandoned, c \notin abandoned'
  PROVE  RowFollows(c)'
<1> DEFINE a == CallAccount[c]
           k == CallKey[c]
<1>1. /\ a \in Accounts /\ k \in RequestKeys
      /\ usage \in [Accounts -> [RequestKeys -> UsageRows \cup {NoUsage}]]
      /\ pc \in [Calls -> {"start", "status", "reserve", "dispatch", "settle", "done"}]
      /\ outcome \in [Calls -> Responses]
      /\ pc[c] = "settle" => outcome[c] \in {"served", "failed"}
  BY CallAssumption DEF MeterInv, TypeOK, LayerInv, PcInv, Responses
<1>2. ASSUME NEW answered \in Responses, Respond(c, answered) PROVE outcome'[c] = answered
  BY <1>1, <1>2, RespondOutcome
<1>3. CASE Authenticate(c)
  <2>1. pc[c] = "start" /\ pc'[c] = "status" /\ usage' = usage
    BY <1>1, <1>3 DEF Authenticate, Goto, Provision, storeVars
  <2> QED
    BY <2>1 DEF RowFollows, UsageOf, InHandler
<1>4. CASE CheckStatus(c)
  <2>1. /\ pc[c] = "status" /\ usage' = usage
        /\ pc'[c] = "reserve" \/ (pc'[c] = "done" /\ Respond(c, "unauthorized"))
    BY <1>1, <1>4 DEF CheckStatus, Goto, storeVars
  <2> QED
    BY <1>2, <2>1 DEF RowFollows, UsageOf, InHandler, Responses
<1>5. CASE ReserveCall(c)
  <2>1. pc[c] = "reserve" /\ usage[a][k] = NoUsage
    BY <1>5 DEF ReserveCall, RowFollows, UsageOf
  <2>2. \/ Reserve(a, k, CallRoute[c]) /\ pc'[c] = "dispatch"
        \/ pc'[c] = "done" /\ Respond(c, "exhausted")
    BY <1>1, <1>5, <2>1 DEF ReserveCall, Goto
  <2>3. CASE Reserve(a, k, CallRoute[c]) /\ pc'[c] = "dispatch"
    <3>1. usage'[a][k].state = "RESERVED"
      BY <1>1, <2>3 DEF Reserve
    <3> QED
      BY <2>3, <3>1 DEF RowFollows, UsageOf, InHandler
  <2>4. CASE pc'[c] = "done" /\ Respond(c, "exhausted")
    BY <1>2, <2>4 DEF RowFollows, InHandler, Responses
  <2> QED
    BY <2>2, <2>3, <2>4
<1>6. CASE Dispatch(c)
  <2>1. pc[c] = "dispatch" /\ pc'[c] = "settle" /\ usage' = usage
    BY <1>1, <1>6 DEF Dispatch, Goto, storeVars
  <2> QED
    BY <2>1 DEF RowFollows, UsageOf, InHandler
<1>7. CASE SettleCall(c)
  <2>1. pc[c] = "settle" /\ pc'[c] = "done" /\ outcome' = outcome /\ usage[a][k].state = "RESERVED"
    BY <1>1, <1>7 DEF SettleCall, Goto, RowFollows, UsageOf, InHandler
  <2>2. SettleUsage(a, k, Settlement(outcome[c]))
    BY <1>7, <2>1 DEF SettleCall, Unsettled
  <2>3. usage'[a][k].state = Settlement(outcome[c])
    BY <1>1, <2>1, <2>2 DEF SettleUsage, NoUsage, UsageRows
  <2> QED
    BY <2>1, <2>3 DEF RowFollows, UsageOf, InHandler, Settlement
<1>8. CASE Abandon(c)
  BY <1>8 DEF Abandon
<1> QED
  BY <1>3, <1>4, <1>5, <1>6, <1>7, <1>8 DEF CallStep

LEMMA RowsFollowStep ==
  ASSUME LayerInv, MeterInv, RowsFollow, [CallsNext]_vars
  PROVE  RowsFollow'
<1> SUFFICES ASSUME NEW c \in Calls, c \notin abandoned', Alone(c)' PROVE RowFollows(c)'
  BY DEF RowsFollow
<1>1. ASSUME UNCHANGED <<usage, pc, outcome, abandoned>> PROVE RowFollows(c)'
  <2>1. RowFollows(c)
    BY <1>1 DEF RowsFollow, Alone
  <2> QED
    BY <1>1, <2>1 DEF RowFollows, UsageOf, InHandler, Settlement
<1>2. ASSUME NEW d \in Calls, CallStep(d) PROVE RowFollows(c)'
  <2>1. /\ pc \in [Calls -> {"start", "status", "reserve", "dispatch", "settle", "done"}]
        /\ outcome \in [Calls -> Responses]
    BY DEF LayerInv, PcInv, Responses
  <2>2. /\ \A e \in Calls : e # d => pc'[e] = pc[e] /\ (e \in abandoned' <=> e \in abandoned)
        /\ abandoned \subseteq abandoned'
        /\ pc'[d] # "start" \/ (pc' = pc /\ usage' = usage)
    BY <1>2, <2>1 DEF CallStep, Authenticate, CheckStatus, ReserveCall, Dispatch, SettleCall, Abandon, Goto,
                      storeVars
  <2>3. \A e \in Calls : e # d => outcome'[e] = outcome[e]
    <3>1. outcome' = outcome \/ \E answered \in Responses : Respond(d, answered)
      BY <1>2 DEF CallStep, Authenticate, CheckStatus, ReserveCall, Dispatch, SettleCall, Abandon, Responses
    <3> QED
      BY <2>1, <3>1, RespondOutcome
  <2>4. c \notin abandoned /\ Alone(c)
    BY <2>1, <2>2 DEF Alone
  <2>5. RowFollows(c)
    BY <2>4 DEF RowsFollow
  <2>6. CASE c = d
    BY <1>2, <2>4, <2>5, <2>6, OwnRowFollows
  <2>7. CASE c # d
    <3>1. UsageOf(c)' = UsageOf(c)
      <4>1. CASE CallAccount[d] = CallAccount[c] /\ CallKey[d] = CallKey[c]
        <5>1. pc'[d] = "start"
          BY <2>7, <4>1 DEF Alone
        <5> QED
          BY <2>2, <5>1 DEF UsageOf
      <4>2. CASE ~(CallAccount[d] = CallAccount[c] /\ CallKey[d] = CallKey[c])
        BY <1>2, <4>2, OtherRowsStay, CallAssumption DEF UsageOf
      <4> QED
        BY <4>1, <4>2
    <3> QED
      BY <2>2, <2>3, <2>5, <2>7, <3>1 DEF RowFollows, InHandler
  <2> QED
    BY <2>6, <2>7
<1> QED
  BY <1>1, <1>2 DEF CallsNext, Deploy, Issue, OperatorCredit, OperatorRevoke, AcceptBuyer, AuthorizePack,
     SettlePack, Create, Credit, Revoke, AuthorizePurchase, SettlePurchase, callVars, vars, storeVars

\* A key that only one call used is charged exactly when that call was served,
\* whatever other calls, operators and redeployments do.
THEOREM UnsharedCharged == CallsSpec => []UnsharedKeyCharged
<1>1. CallsInit => RowsFollow
  BY CallAssumption DEF CallsInit, Init, RowsFollow, RowFollows, UsageOf, InHandler
<1>2. RowsFollow /\ LayerInv /\ MeterInv /\ [CallsNext]_vars => RowsFollow'
  BY RowsFollowStep
<1>3. RowsFollow => UnsharedKeyCharged
  BY DEF RowsFollow, RowFollows, Alone, UnsharedKeyCharged, Settlement
<1> QED
  BY <1>1, <1>2, <1>3, CallsInvHold, PTL DEF CallsSpec

-------------------------------------------------------------------------------
(* What the ledger promises holds for the calls *)

\* Calls, redeployments, operators and purchases neither create nor lose a credit.
THEOREM CallsConserveCredits == CallsSpec => []CreditsConserved
<1>1. CallsInit => LedgerInv
  BY LedgerInit DEF CallsInit
<1>2. LedgerInv /\ LayerInv /\ [CallsNext]_vars => LedgerInv'
  BY CallsUseStore, LedgerStep
<1> QED
  BY <1>1, <1>2, LedgerConserves, CallsInvHold, PTL DEF CallsSpec

\* A settled usage row, a credit operation, a credited purchase and a
\* revocation are final whatever calls, redeployments and operators do.
THEOREM CallsLedgerFinal == CallsSpec => LedgerIsFinal
<1>1. LayerInv /\ MeterInv /\ [CallsNext]_vars => [RowsKept]_storeVars
  BY CallsUseStore, StepKeepsRows DEF MeterInv
<1> QED
  BY <1>1, CallsInvHold, PTL DEF CallsSpec, LedgerIsFinal, RowsKept

-------------------------------------------------------------------------------
(* PAID DELIVERY *)


\* The types of the delivery layer.
LayerTypes ==
  /\ payment \in [Payments -> {"unspent", "pending", "executed"}]
  /\ presents \in [Requests -> Payments]
  /\ stage \in [Requests -> Labels]
  /\ response \in [Requests -> Answers]
  /\ events \in [Payments -> SUBSET EventTypes]
  /\ handled \subseteq Requests
  /\ late \subseteq Requests
  /\ unwritten \subseteq Payments

Authorised == {"handler", "purchase", "withhold", "settle", "retry", "credit", "deliver", "fail", "unknown"}
Answered == {"settle", "retry", "credit", "deliver", "fail", "unknown"}

\* What a request has behind it at each stage.
StageOK(r) ==
  LET p == presents[r]
  IN /\ stage[r] \in Authorised \/ r \in handled => "PAYMENT_AUTHORIZED" \in events[p]
     /\ stage[r] \in Answered => r \in handled
     /\ stage[r] = "credit" => p \in Purchases
     /\ stage[r] \in {"credit", "deliver"} \/ response[r] \in {"delivered", "creditPending"}
        => payment[p] = "executed"

StageInv == \A r \in Requests : StageOK(r)

\* A payment that was submitted was submitted for an answer.
SubmittedInv == \A p \in Payments : payment[p] # "unspent" => \E r \in handled : presents[r] = p

CreditedInv == \A p \in Purchases : purchase[p] = "CREDITED" => payment[p] = "executed"

DeliveryInv == LayerTypes /\ StageInv /\ SubmittedInv /\ CreditedInv

-------------------------------------------------------------------------------
(* The delivery layer uses the ledger *)

\* Every step of the delivery layer is one ledger method or changes no table.
LEMMA DeliveryUsesStore ==
  ASSUME DeliveryInv, [DeliveryNext]_x402Vars
  PROVE  [Next]_storeVars
<1>1. ASSUME NEW r \in Requests, Handle(r) \/ LateHandler(r) PROVE [Next]_storeVars
  BY <1>1 DEF Handle, LateHandler, HandlerWork, Next
<1>2. ASSUME NEW r \in Requests, CreditPack(r) PROVE [Next]_storeVars
  <2>1. presents[r] \in Purchases
    BY <1>2 DEF DeliveryInv, StageInv, StageOK, CreditPack
  <2> QED
    BY <1>2, <2>1 DEF CreditPack, Next
<1>3. ASSUME NEW r \in Requests, RequestStep(r), ~Handle(r), ~LateHandler(r), ~CreditPack(r)
      PROVE  UNCHANGED storeVars
  BY <1>3 DEF RequestStep, Prepare, Authorize, CheckAccount, HandlerFails, Withhold, Settle, Retry,
              RecordFailure, RecordUnknown, Deliver, Crash
<1>4. ASSUME NEW p \in Payments, Confirm(p) PROVE UNCHANGED storeVars
  BY <1>4 DEF Confirm
<1>5. ASSUME NEW a \in Accounts, RevokeBuyer(a) PROVE [Next]_storeVars
  BY <1>5 DEF RevokeBuyer, Next
<1>6. CASE UNCHANGED x402Vars
  BY <1>6 DEF x402Vars, storeVars
<1> QED
  BY <1>1, <1>2, <1>3, <1>4, <1>5, <1>6 DEF DeliveryNext

-------------------------------------------------------------------------------
(* What only grows *)

\* A settlement answer keeps what was executed, and success means executed.
LEMMA AnswerMeaning ==
  ASSUME NEW p \in Payments, payment[p] \in {"unspent", "pending", "executed"}, NEW s \in SettleAnswers(p)
  PROVE  /\ s.answer \in {"success", "failed", "pending", "lost"}
         /\ s.becomes \in {"unspent", "pending", "executed"}
         /\ payment[p] = "executed" => s.becomes = "executed"
         /\ s.answer = "success" => s.becomes = "executed"
BY DEF SettleAnswers

\* Appending an event, or failing to, keeps the types and the events of every payment.
LEMMA EventsGrow ==
  ASSUME LayerTypes, NEW p \in Payments, NEW type \in EventTypes,
         Append(p, type) \/ AppendFails(p, type)
  PROVE  /\ events' \in [Payments -> SUBSET EventTypes]
         /\ unwritten' \subseteq Payments
         /\ \A q \in Payments : events[q] \subseteq events'[q]
         /\ Append(p, type) => type \in events'[p]
BY DEF LayerTypes, Append, AppendFails

\* What a request relies on is never taken back.
Kept ==
  /\ presents' = presents
  /\ handled \subseteq handled'
  /\ \A p \in Payments : events[p] \subseteq events'[p]
  /\ \A p \in Payments : payment[p] = "executed" => payment'[p] = "executed"

\* Sending a response keeps the types, and adds no other response than the one sent.
LEMMA SendMeaning ==
  ASSUME LayerTypes, NEW r \in Requests, NEW status \in Answers, Send(r, status)
  PROVE  /\ response' \in [Requests -> Answers]
         /\ \A x \in Requests : x # r => response'[x] = response[x]
         /\ response'[r] \in {response[r], status}
BY DEF LayerTypes, Send

\* A request moves to a label: the other requests stay where they are.
LEMMA EnterMeaning ==
  ASSUME LayerTypes, NEW r \in Requests, NEW label \in Labels, stage' = [stage EXCEPT ![r] = label]
  PROVE  /\ stage' \in [Requests -> Labels]
         /\ \A x \in Requests : x # r => stage'[x] = stage[x]
         /\ stage'[r] = label
BY DEF LayerTypes

\* The steps of a request that only append an event and answer.
Recording(r, from, type, status) ==
  /\ stage[r] = from
  /\ AppendTried(presents[r], type)
  /\ Answer(r, status)
  /\ UNCHANGED <<storeVars, payment, presents, handled, late>>

\* The next stage of the request that moves follows from what is kept.
LEMMA StagesStay ==
  ASSUME DeliveryInv, Kept, NEW r \in Requests, StageOK(r)',
         \A x \in Requests : x # r => stage'[x] = stage[x] /\ response'[x] = response[x] /\ (x \in handled' => x \in handled)
  PROVE  StageInv'
<1> SUFFICES ASSUME NEW x \in Requests PROVE StageOK(x)'
  BY DEF StageInv
<1>1. CASE x = r
  BY <1>1
<1>2. CASE x # r
  <2>1. StageOK(x) /\ presents[x] \in Payments
    BY DEF DeliveryInv, StageInv, LayerTypes
  <2> QED
    BY <1>2, <2>1 DEF StageOK, Kept
<1> QED
  BY <1>1, <1>2

\* No payment changes, and no request loses its answer: submitted stays submitted for an answer.
LEMMA SubmittedStays ==
  ASSUME DeliveryInv, Kept, \A p \in Payments : payment'[p] # "unspent" => payment[p] # "unspent"
  PROVE  SubmittedInv'
BY DEF DeliveryInv, SubmittedInv, Kept

\* A credited purchase was credited before, or its payment was executed.
LEMMA CreditedStays ==
  ASSUME DeliveryInv, Kept,
         \A p \in Purchases : purchase'[p] = "CREDITED" => purchase[p] = "CREDITED" \/ payment[p] = "executed"
  PROVE  CreditedInv'
BY PaymentAssumption DEF DeliveryInv, CreditedInv, Kept

-------------------------------------------------------------------------------
(* The steps *)

\* Recording an outcome keeps everything the later stages rely on.
LEMMA RecordingStep ==
  ASSUME DeliveryInv, NEW r \in Requests, NEW from \in Authorised, NEW type \in EventTypes,
         NEW status \in Answers, Recording(r, from, type, status),
         status \in {"delivered", "creditPending"} => from \in {"credit", "deliver"}
  PROVE  DeliveryInv'
<1>1. /\ LayerTypes /\ presents[r] \in Payments
      /\ Append(presents[r], type) \/ AppendFails(presents[r], type)
  BY DEF DeliveryInv, LayerTypes, Recording, AppendTried
<1>2. /\ events' \in [Payments -> SUBSET EventTypes] /\ unwritten' \subseteq Payments
      /\ \A q \in Payments : events[q] \subseteq events'[q]
  BY <1>1, EventsGrow
<1>3. /\ response' \in [Requests -> Answers]
      /\ \A x \in Requests : x # r => response'[x] = response[x]
      /\ response'[r] \in {response[r], status}
  BY <1>1, SendMeaning DEF Recording, Answer
<1>4. /\ stage' \in [Requests -> Labels]
      /\ \A x \in Requests : x # r => stage'[x] = stage[x]
      /\ stage'[r] = "done"
  BY <1>1, EnterMeaning DEF Recording, Answer, Labels
<1>5. LayerTypes'
  BY <1>1, <1>2, <1>3, <1>4 DEF LayerTypes, Recording
<1>6. Kept
  BY <1>2 DEF Recording, Kept
<1>7. StageOK(r)'
  <2>1. StageOK(r) /\ stage[r] = from /\ payment' = payment /\ handled' = handled /\ presents' = presents
    BY DEF DeliveryInv, StageInv, Recording
  <2>2. "PAYMENT_AUTHORIZED" \in events[presents[r]]
    BY <2>1 DEF StageOK
  <2>3. response'[r] \in {"delivered", "creditPending"} => payment[presents[r]] = "executed"
    BY <1>3, <2>1 DEF StageOK
  <2> QED
    BY <1>1, <1>2, <1>4, <2>1, <2>2, <2>3 DEF StageOK, Authorised, Answered
<1>8. StageInv'
  BY <1>3, <1>4, <1>6, <1>7, StagesStay DEF Recording
<1>9. SubmittedInv' /\ CreditedInv'
  BY <1>6, SubmittedStays, CreditedStays DEF Recording, storeVars, DeliveryInv, CreditedInv
<1> QED
  BY <1>5, <1>8, <1>9 DEF DeliveryInv

\* A step of one request that changes no payment: the label it goes to and the
\* response it sends must be ones it has the grounds for.
LEMMA MoveStep ==
  ASSUME DeliveryInv, NEW r \in Requests, NEW label \in Labels, NEW status \in Answers,
         stage' = [stage EXCEPT ![r] = label],
         response' = response \/ Send(r, status),
         presents' = presents, payment' = payment,
         events' \in [Payments -> SUBSET EventTypes],
         \A p \in Payments : events[p] \subseteq events'[p],
         handled' \in {handled, handled \cup {r}},
         late' \subseteq Requests, unwritten' \subseteq Payments,
         \A p \in Purchases : purchase'[p] = "CREDITED" => purchase[p] = "CREDITED" \/ payment[p] = "executed",
         label \in Authorised \/ r \in handled' => "PAYMENT_AUTHORIZED" \in events'[presents[r]],
         label \in Answered => r \in handled',
         label = "credit" => presents[r] \in Purchases,
         label \in {"credit", "deliver"} \/ status \in {"delivered", "creditPending"}
         => payment[presents[r]] = "executed"
  PROVE  DeliveryInv'
<1>1. LayerTypes /\ StageOK(r)
  BY DEF DeliveryInv, StageInv
<1>2. /\ response' \in [Requests -> Answers]
      /\ \A x \in Requests : x # r => response'[x] = response[x]
      /\ response'[r] \in {response[r], status}
  <2>1. CASE response' = response
    BY <1>1, <2>1 DEF LayerTypes
  <2>2. CASE Send(r, status)
    BY <1>1, <2>2, SendMeaning
  <2> QED
    BY <2>1, <2>2
<1>3. /\ stage' \in [Requests -> Labels]
      /\ \A x \in Requests : x # r => stage'[x] = stage[x]
      /\ stage'[r] = label
  BY <1>1, EnterMeaning
<1>4. LayerTypes'
  BY <1>1, <1>2, <1>3 DEF LayerTypes
<1>5. Kept
  BY DEF Kept
<1>6. StageOK(r)'
  BY <1>1, <1>2, <1>3 DEF StageOK
<1>7. StageInv'
  BY <1>2, <1>3, <1>5, <1>6, StagesStay
<1>8. SubmittedInv' /\ CreditedInv'
  BY <1>5, SubmittedStays, CreditedStays
<1> QED
  BY <1>4, <1>7, <1>8 DEF DeliveryInv

\* A settlement request: the payment becomes what the answer says, and the request
\* goes where the verdict sends it.
LEMMA SettlingStep ==
  ASSUME DeliveryInv, NEW r \in Requests, stage[r] \in {"settle", "retry"},
         NEW s \in SettleAnswers(presents[r]), NEW label \in {"retry", "credit", "deliver", "fail", "unknown"},
         label = "credit" => presents[r] \in Purchases,
         label \in {"credit", "deliver"} => s.answer = "success",
         payment' = [payment EXCEPT ![presents[r]] = s.becomes],
         stage' = [stage EXCEPT ![r] = label],
         UNCHANGED <<storeVars, presents, response, events, handled, late, unwritten>>
  PROVE  DeliveryInv'
<1> DEFINE p == presents[r]
<1>1. LayerTypes /\ StageOK(r) /\ p \in Payments
  BY DEF DeliveryInv, StageInv, LayerTypes
<1>2. /\ s.becomes \in {"unspent", "pending", "executed"}
      /\ payment[p] = "executed" => s.becomes = "executed"
      /\ s.answer = "success" => s.becomes = "executed"
  BY <1>1, AnswerMeaning DEF LayerTypes
<1>3. /\ payment' \in [Payments -> {"unspent", "pending", "executed"}]
      /\ payment'[p] = s.becomes
      /\ \A q \in Payments : q # p => payment'[q] = payment[q]
  BY <1>1, <1>2 DEF LayerTypes
<1>4. /\ stage' \in [Requests -> Labels]
      /\ \A x \in Requests : x # r => stage'[x] = stage[x]
      /\ stage'[r] = label
  BY <1>1, EnterMeaning DEF Labels
<1>5. LayerTypes'
  BY <1>1, <1>3, <1>4 DEF LayerTypes
<1>6. Kept
  BY <1>2, <1>3 DEF Kept
<1>7. r \in handled
  BY <1>1 DEF StageOK, Answered
<1>8. StageOK(r)'
  BY <1>1, <1>2, <1>3, <1>4, <1>7 DEF StageOK
<1>9. StageInv'
  BY <1>4, <1>6, <1>8, StagesStay
<1>10. SubmittedInv'
  BY <1>3, <1>7 DEF DeliveryInv, SubmittedInv
<1>11. CreditedInv'
  BY <1>6, CreditedStays DEF storeVars
<1> QED
  BY <1>5, <1>9, <1>10, <1>11 DEF DeliveryInv

\* Credits come from settling a purchase only.
LEMMA PurchaseChange ==
  ASSUME MeterInv, NEW p \in Purchases, AuthorizePurchase(p) \/ SettlePurchase(p)
  PROVE  \A q \in Purchases : purchase'[q] = "CREDITED" =>
           purchase[q] = "CREDITED" \/ (q = p /\ SettlePurchase(p))
BY DEF MeterInv, TypeOK, AuthorizePurchase, SettlePurchase

LEMMA WorkCreditsNothing ==
  ASSUME MeterInv, DeliveryInv, NEW r \in Requests, HandlerWork(r)
  PROVE  \A q \in Purchases : purchase'[q] = "CREDITED" => purchase[q] = "CREDITED"
<1>1. CASE UNCHANGED storeVars
  BY <1>1 DEF storeVars
<1>2. CASE presents[r] \in Purchases /\ AuthorizePurchase(presents[r])
  BY <1>2 DEF MeterInv, TypeOK, AuthorizePurchase
<1> QED
  BY <1>1, <1>2 DEF HandlerWork

\* Every step of a request keeps the invariant.
LEMMA RequestKeeps ==
  ASSUME DeliveryInv, MeterInv, NEW r \in Requests, RequestStep(r)
  PROVE  DeliveryInv'
<1> DEFINE p == presents[r]
<1>1. /\ LayerTypes /\ StageOK(r) /\ p \in Payments
      /\ stage[r] \in Authorised => "PAYMENT_AUTHORIZED" \in events[p]
      /\ r \in handled => "PAYMENT_AUTHORIZED" \in events[p]
  BY DEF DeliveryInv, StageInv, StageOK, LayerTypes
<1>2. /\ events \in [Payments -> SUBSET EventTypes]
      /\ late \subseteq Requests /\ unwritten \subseteq Payments
  BY <1>1 DEF LayerTypes
<1>3. CASE Prepare(r)
  <2>1. PICK label \in {"authorize", "done"}, status \in {"refused"} :
          /\ stage' = [stage EXCEPT ![r] = label]
          /\ response' = response \/ Send(r, status)
    BY <1>3 DEF Prepare, Enter, Answer
  <2>2. UNCHANGED <<purchase, payment, presents, events, handled, late, unwritten>>
    BY <1>3 DEF Prepare, storeVars
  <2>3. /\ label \in Labels /\ label \notin Authorised /\ label \notin Answered
        /\ label \notin {"credit", "deliver"}
        /\ status \in Answers /\ status \notin {"delivered", "creditPending"}
    BY DEF Labels, Answers, Authorised, Answered
  <2> HIDE DEF p
  <2>4. r \in handled => "PAYMENT_AUTHORIZED" \in events[presents[r]]
    BY <1>1 DEF p
  <2> QED
    BY <1>2, <2>1, <2>2, <2>3, <2>4, MoveStep
<1>4. CASE Authorize(r)
  <2>1. CASE Append(p, "PAYMENT_AUTHORIZED") /\ Enter(r, "handler")
    <3>1. /\ events' \in [Payments -> SUBSET EventTypes] /\ unwritten' \subseteq Payments
          /\ \A q \in Payments : events[q] \subseteq events'[q]
          /\ "PAYMENT_AUTHORIZED" \in events'[p]
      BY <1>1, <2>1, EventsGrow DEF EventTypes
    <3>2. stage' = [stage EXCEPT ![r] = "handler"] /\ response' = response
      BY <2>1 DEF Enter
    <3> QED
      BY <1>2, <1>4, <3>1, <3>2, MoveStep DEF Authorize, storeVars, Labels, Answers, Answered
  <2>2. CASE AppendFails(p, "PAYMENT_AUTHORIZED") /\ Answer(r, "unavailable")
    <3>1. unwritten' \subseteq Payments /\ events' = events
      BY <1>1, <2>2, EventsGrow DEF EventTypes, AppendFails
    <3>2. stage' = [stage EXCEPT ![r] = "done"] /\ Send(r, "unavailable")
      BY <2>2 DEF Answer
    <3> QED
      BY <1>1, <1>2, <1>4, <3>1, <3>2, MoveStep
         DEF Authorize, storeVars, Labels, Answers, Authorised, Answered
  <2> QED
    BY <1>4, <2>1, <2>2 DEF Authorize
<1>5. CASE CheckAccount(r)
  <2>1. PICK label \in {"purchase", "withhold"} : stage' = [stage EXCEPT ![r] = label] /\ response' = response
    BY <1>5 DEF CheckAccount, Enter
  <2>2. "PAYMENT_AUTHORIZED" \in events[p]
    BY <1>1, <1>5 DEF CheckAccount, Authorised
  <2> QED
    BY <1>2, <1>5, <2>1, <2>2, MoveStep DEF CheckAccount, storeVars, Labels, Answers, Authorised, Answered
<1>6. CASE Handle(r)
  <2>1. \A q \in Purchases : purchase'[q] = "CREDITED" => purchase[q] = "CREDITED"
    BY <1>6, WorkCreditsNothing DEF Handle
  <2>2. "PAYMENT_AUTHORIZED" \in events[p]
    BY <1>1, <1>6 DEF Handle, AtHandler, Authorised
  <2>3. stage' = [stage EXCEPT ![r] = "settle"] /\ response' = response
    BY <1>6 DEF Handle, Enter
  <2> QED
    BY <1>2, <1>6, <2>1, <2>2, <2>3, MoveStep DEF Handle, Labels, Answers, Authorised, Answered
<1>7. CASE HandlerFails(r)
  <2>1. "PAYMENT_AUTHORIZED" \in events[p]
    BY <1>1, <1>7 DEF HandlerFails, AtHandler, Authorised
  <2>2. stage' = [stage EXCEPT ![r] = "withhold"] /\ response' = response /\ late' \subseteq Requests
    BY <1>2, <1>7 DEF HandlerFails, Enter
  <2> QED
    BY <1>2, <1>7, <2>1, <2>2, MoveStep DEF HandlerFails, storeVars, Labels, Answers, Authorised, Answered
<1>8. CASE LateHandler(r)
  <2>1. \A q \in Purchases : purchase'[q] = "CREDITED" => purchase[q] = "CREDITED"
    BY <1>8, WorkCreditsNothing DEF LateHandler
  <2>2. stage[r] \in Labels /\ stage' = [stage EXCEPT ![r] = stage[r]]
    BY <1>1, <1>8 DEF LateHandler, LayerTypes
  <2>3. /\ presents' = presents /\ payment' = payment /\ events' = events /\ handled' = handled
        /\ unwritten' = unwritten /\ late' \subseteq Requests /\ Send(r, "late")
    BY <1>2, <1>8 DEF LateHandler
  <2>4. /\ stage[r] \in Answered => r \in handled
        /\ stage[r] = "credit" => p \in Purchases
        /\ stage[r] \in {"credit", "deliver"} => payment[p] = "executed"
    BY <1>1 DEF StageOK
  <2> QED
    BY <1>1, <1>2, <2>1, <2>2, <2>3, <2>4, MoveStep DEF Answers
<1>9. CASE Withhold(r) \/ RecordFailure(r) \/ RecordUnknown(r) \/ Deliver(r)
  <2>1. PICK from \in {"withhold", "fail", "unknown", "deliver"}, type \in EventTypes, status \in Answers :
          Recording(r, from, type, status) /\ (status \in {"delivered", "creditPending"} => from = "deliver")
    BY <1>9 DEF Withhold, RecordFailure, RecordUnknown, Deliver, Recording, EventTypes, Answers
  <2> QED
    BY <2>1, RecordingStep DEF Authorised
<1>10. CASE Settle(r) \/ Retry(r)
  <2>1. PICK s \in SettleAnswers(p) :
          /\ payment' = [payment EXCEPT ![p] = s.becomes]
          /\ \/ Enter(r, IF s.answer = "pending" /\ Rail[p] = "standard"
                        THEN "retry" ELSE Verdict(r, s.answer))
             \/ Enter(r, Verdict(r, IF s.answer = "lost" THEN "pending" ELSE s.answer))
    BY <1>10 DEF Settle, Retry
  <2>2. s.answer \in {"success", "failed", "pending", "lost"}
    BY <1>1, AnswerMeaning DEF LayerTypes
  <2>3. ASSUME NEW answer \in {"success", "failed", "pending", "lost"}
        PROVE  /\ Verdict(r, answer) \in {"credit", "deliver", "fail", "unknown"}
               /\ Verdict(r, answer) = "credit" => p \in Purchases
               /\ Verdict(r, answer) \in {"credit", "deliver"} => answer = "success"
    BY DEF Verdict
  <2>4. PICK label \in {"retry", "credit", "deliver", "fail", "unknown"} :
          /\ stage' = [stage EXCEPT ![r] = label] /\ response' = response
          /\ label = "credit" => p \in Purchases
          /\ label \in {"credit", "deliver"} => s.answer = "success"
    BY <2>1, <2>2, <2>3 DEF Enter
  <2>5. /\ stage[r] \in {"settle", "retry"}
        /\ UNCHANGED <<storeVars, presents, response, events, handled, late, unwritten>>
    BY <1>10, <2>4 DEF Settle, Retry
  <2> QED
    BY <2>1, <2>4, <2>5, SettlingStep
<1>11. CASE CreditPack(r)
  <2>1. p \in Purchases /\ payment[p] = "executed" /\ r \in handled
    BY <1>1, <1>11 DEF CreditPack, StageOK, Answered
  <2>2. \A q \in Purchases : purchase'[q] = "CREDITED" => purchase[q] = "CREDITED" \/ payment[q] = "executed"
    <3>1. CASE SettlePurchase(p)
      BY <2>1, <3>1, PurchaseChange
    <3>2. CASE UNCHANGED storeVars
      BY <3>2 DEF storeVars
    <3> QED
      BY <1>11, <3>1, <3>2 DEF CreditPack
  <2>3. PICK label \in {"deliver", "done"} :
          /\ stage' = [stage EXCEPT ![r] = label]
          /\ response' = response \/ Send(r, "creditPending")
    BY <1>11 DEF CreditPack, Enter, Answer
  <2>4. /\ presents' = presents /\ payment' = payment /\ events' = events /\ handled' = handled
        /\ late' = late /\ unwritten' \subseteq Payments
    BY <1>1, <1>2, <1>11 DEF CreditPack
  <2> QED
    BY <1>1, <1>2, <2>1, <2>2, <2>3, <2>4, MoveStep DEF Labels, Answers
<1>12. CASE Crash(r)
  <2>1. stage' = [stage EXCEPT ![r] = "crashed"] /\ response' = response /\ late' \subseteq Requests
    BY <1>2, <1>12 DEF Crash, Enter
  <2> QED
    BY <1>1, <1>2, <1>12, <2>1, MoveStep DEF Crash, storeVars, Labels, Answers, Authorised, Answered
<1> QED
  BY <1>3, <1>4, <1>5, <1>6, <1>7, <1>8, <1>9, <1>10, <1>11, <1>12 DEF RequestStep

\* A payment that its network executes or drops was submitted for an answer.
LEMMA ConfirmKeeps ==
  ASSUME DeliveryInv, NEW p \in Payments, Confirm(p)
  PROVE  DeliveryInv'
<1>1. /\ LayerTypes /\ payment[p] = "pending"
      /\ UNCHANGED <<storeVars, presents, stage, response, handled, events, late, unwritten>>
  BY DEF DeliveryInv, Confirm, localVars
<1>2. /\ payment' \in [Payments -> {"unspent", "pending", "executed"}]
      /\ \A q \in Payments : q # p => payment'[q] = payment[q]
  BY <1>1 DEF Confirm, LayerTypes
<1>3. LayerTypes'
  BY <1>1, <1>2 DEF LayerTypes
<1>4. Kept
  BY <1>1, <1>2 DEF Kept
<1>5. StageInv'
  <2> SUFFICES ASSUME NEW x \in Requests PROVE StageOK(x)'
    BY DEF StageInv
  <2>1. StageOK(x) /\ presents[x] \in Payments
    BY <1>1 DEF DeliveryInv, StageInv, LayerTypes
  <2> QED
    BY <1>1, <1>4, <2>1 DEF StageOK, Kept
<1>6. SubmittedInv'
  BY <1>1, <1>2, <1>4, SubmittedStays
<1>7. CreditedInv'
  BY <1>1, <1>4, CreditedStays DEF storeVars
<1> QED
  BY <1>3, <1>5, <1>6, <1>7 DEF DeliveryInv

LEMMA DeliveryStep == DeliveryInv /\ MeterInv /\ [DeliveryNext]_x402Vars => DeliveryInv'
<1> SUFFICES ASSUME DeliveryInv, MeterInv, [DeliveryNext]_x402Vars PROVE DeliveryInv'
  OBVIOUS
<1>1. ASSUME UNCHANGED deliveryVars, \A q \in Purchases : purchase'[q] = purchase[q]
      PROVE  DeliveryInv'
  BY <1>1 DEF deliveryVars, DeliveryInv, LayerTypes, StageInv, StageOK, SubmittedInv, CreditedInv
<1>2. CASE UNCHANGED x402Vars
  BY <1>1, <1>2 DEF x402Vars, storeVars
<1>3. ASSUME NEW a \in Accounts, RevokeBuyer(a) PROVE DeliveryInv'
  BY <1>1, <1>3 DEF RevokeBuyer, Revoke
<1> QED
  BY <1>2, <1>3, RequestKeeps, ConfirmKeeps DEF DeliveryNext

\* The delivery invariant holds of every behaviour, with the ledger's.
THEOREM DeliveryInvHolds == DeliverySpec => [](DeliveryInv /\ MeterInv)
<1>1. DeliveryInit => DeliveryInv /\ MeterInv
  <2> SUFFICES ASSUME DeliveryInit PROVE DeliveryInv /\ MeterInv
    OBVIOUS
  <2>1. MeterInv
    BY MeterInit DEF DeliveryInit
  <2>2. LayerTypes
    BY PaymentAssumption DEF DeliveryInit, LayerTypes, Labels, Answers
  <2>3. StageInv /\ SubmittedInv /\ CreditedInv
    BY PaymentAssumption
       DEF DeliveryInit, Init, StageInv, StageOK, SubmittedInv, CreditedInv, Authorised, Answered
  <2> QED
    BY <2>1, <2>2, <2>3 DEF DeliveryInv
<1>2. DeliveryInv /\ MeterInv /\ [DeliveryNext]_x402Vars => DeliveryInv' /\ MeterInv'
  BY DeliveryStep, DeliveryUsesStore, MeterStep
<1> QED
  BY <1>1, <1>2, PTL DEF DeliverySpec

-------------------------------------------------------------------------------
(* Theorems *)

\* Paid delivery and the ledger under it keep their types.
THEOREM DeliveryTypeCorrect == DeliverySpec => []DeliveryTypeOK
<1>1. DeliveryInv /\ MeterInv => DeliveryTypeOK
  BY DEF DeliveryInv, MeterInv, LayerTypes, DeliveryTypeOK
<1> QED
  BY <1>1, DeliveryInvHolds, PTL

\* Nothing is delivered after settlement, or credited, before its payment was executed.
THEOREM NothingUnpaidEver == DeliverySpec => []NothingUnpaid
<1>1. DeliveryInv => NothingUnpaid
  BY DEF DeliveryInv, StageInv, StageOK, CreditedInv, NothingUnpaid
<1> QED
  BY <1>1, DeliveryInvHolds, PTL

\* Every charge was authorised on record and bought an answer.
THEOREM ChargesJustified == DeliverySpec => []ChargesAreJustified
<1>1. DeliveryInv => ChargesAreJustified
  <2> SUFFICES ASSUME DeliveryInv, NEW p \in Payments, payment[p] # "unspent"
               PROVE  "PAYMENT_AUTHORIZED" \in events[p] /\ \E r \in handled : presents[r] = p
    BY DEF ChargesAreJustified
  <2>1. PICK r \in handled : presents[r] = p
    BY DEF DeliveryInv, SubmittedInv
  <2>2. r \in Requests
    BY DEF DeliveryInv, LayerTypes
  <2> QED
    BY <2>1, <2>2 DEF DeliveryInv, StageInv, StageOK
<1> QED
  BY <1>1, DeliveryInvHolds, PTL

\* Packs that are sold are credited as their operations say.
THEOREM DeliveryConservesCredits == DeliverySpec => []CreditsConserved
<1>1. DeliveryInit => LedgerInv
  BY LedgerInit DEF DeliveryInit
<1>2. LedgerInv /\ DeliveryInv /\ [DeliveryNext]_x402Vars => LedgerInv'
  BY DeliveryUsesStore, LedgerStep
<1> QED
  BY <1>1, <1>2, LedgerConserves, DeliveryInvHolds, PTL DEF DeliverySpec

\* Rows of the ledger stay final while packs are sold.
THEOREM DeliveryLedgerFinal == DeliverySpec => LedgerIsFinal
<1>1. DeliveryInv /\ MeterInv /\ [DeliveryNext]_x402Vars => [RowsKept]_storeVars
  BY DeliveryUsesStore, StepKeepsRows DEF MeterInv
<1> QED
  BY <1>1, DeliveryInvHolds, PTL DEF DeliverySpec, LedgerIsFinal, RowsKept

-------------------------------------------------------------------------------
(* Reconciliation *)

\* What a whole HyperCore amount buys is a credit pack, as the configured routes have
\* it: the payment ledger can record no outcome of another purchase on that rail.
HypercoreSellsPacks == \A p \in Payments : Rail[p] = "hypercore" /\ Whole[p] => p \in Purchases

Marked(p) == p \in unwritten \/ events[p] \cap Outcomes # {}
Settling == {"retry", "credit", "deliver", "fail", "unknown", "crashed"}
\* A request that presents p is past its settlement, or was stopped.
AtWork(p) == \E r \in Requests : presents[r] = p /\ stage[r] \in Settling
Delivering(p) == \E r \in Requests : presents[r] = p /\ stage[r] \in {"deliver", "crashed"}
Pending(p) == p \in Purchases /\ purchase[p] = "AUTHORIZED"
OnLedger(p) == Rail[p] = "standard" \/ Whole[p]

\* A charge is always in somebody's hands until it is on record.
TraceInv ==
  /\ \A p \in Payments : "PAYMENT_AUTHORIZED" \in events[p] => OnLedger(p)
  /\ \A r \in handled : presents[r] \in Purchases => purchase[presents[r]] # "none"
  /\ \A r \in Requests : stage[r] = "deliver" => Rail[presents[r]] = "standard"
  /\ \A p \in Purchases : purchase[p] = "CREDITED" => Rail[p] = "standard" /\ (Marked(p) \/ Delivering(p))
  /\ \A p \in Payments : payment[p] # "unspent" => Marked(p) \/ AtWork(p) \/ Pending(p)

\* A step of one request hands a charge on, or leaves it on record.
LEMMA TraceMove ==
  ASSUME DeliveryInv, TraceInv, Kept, NEW r \in Requests,
         \A x \in Requests : x # r => stage'[x] = stage[x],
         unwritten \subseteq unwritten',
         \A p \in Payments : "PAYMENT_AUTHORIZED" \in events'[p] /\ "PAYMENT_AUTHORIZED" \notin events[p] => OnLedger(p),
         \A x \in handled' \ handled : presents[x] \in Purchases => purchase'[presents[x]] # "none",
         handled' \subseteq Requests,
         \A p \in Purchases : purchase'[p] \in {"none", "AUTHORIZED", "CREDITED"}
                              /\ (purchase[p] # "none" => purchase'[p] # "none"),
         \A p \in Purchases : purchase'[p] = "CREDITED" /\ purchase[p] # "CREDITED" =>
           p = presents[r] /\ Rail[p] = "standard" /\ stage'[r] = "deliver",
         stage'[r] = "deliver" => Rail[presents[r]] = "standard",
         stage[r] \in {"deliver", "crashed"} => stage'[r] \in {"deliver", "crashed"} \/ Marked(presents[r])',
         stage[r] \in Settling =>
           stage'[r] \in Settling \/ Marked(presents[r])' \/ AtWork(presents[r])' \/ Pending(presents[r])',
         \A p \in Payments : payment'[p] # "unspent" /\ payment[p] = "unspent" =>
           p = presents[r] /\ stage'[r] \in Settling
  PROVE  TraceInv'
<1>1. /\ presents' = presents /\ presents \in [Requests -> Payments]
      /\ \A p \in Payments : Marked(p) => Marked(p)'
  BY DEF DeliveryInv, LayerTypes, Kept, Marked
<1>2. \A p \in Payments : Delivering(p) => Delivering(p)' \/ Marked(p)'
  BY <1>1 DEF Delivering
<1>3. \A p \in Payments : AtWork(p) => AtWork(p)' \/ Marked(p)' \/ Pending(p)'
  BY <1>1 DEF AtWork
<1>4. (\A p \in Payments : "PAYMENT_AUTHORIZED" \in events[p] => OnLedger(p))'
  BY DEF TraceInv, OnLedger
<1>5. (\A x \in handled : presents[x] \in Purchases => purchase[presents[x]] # "none")'
  <2> SUFFICES ASSUME NEW x \in handled', presents[x] \in Purchases PROVE purchase'[presents[x]] # "none"
    BY <1>1
  <2>1. CASE x \in handled
    BY <2>1 DEF TraceInv
  <2>2. CASE x \notin handled
    BY <2>2
  <2> QED
    BY <2>1, <2>2
<1>6. (\A x \in Requests : stage[x] = "deliver" => Rail[presents[x]] = "standard")'
  BY <1>1 DEF TraceInv
<1>7. (\A p \in Purchases : purchase[p] = "CREDITED" => Rail[p] = "standard" /\ (Marked(p) \/ Delivering(p)))'
  <2> SUFFICES ASSUME NEW p \in Purchases, purchase'[p] = "CREDITED"
               PROVE  Rail[p] = "standard" /\ (Marked(p)' \/ Delivering(p)')
    OBVIOUS
  <2>1. p \in Payments
    BY PaymentAssumption
  <2>2. CASE purchase[p] = "CREDITED"
    BY <1>1, <1>2, <2>1, <2>2 DEF TraceInv
  <2>3. CASE purchase[p] # "CREDITED"
    BY <1>1, <2>3 DEF Delivering
  <2> QED
    BY <2>2, <2>3
<1>8. (\A p \in Payments : payment[p] # "unspent" => Marked(p) \/ AtWork(p) \/ Pending(p))'
  <2> SUFFICES ASSUME NEW p \in Payments, payment'[p] # "unspent"
               PROVE  Marked(p)' \/ AtWork(p)' \/ Pending(p)'
    OBVIOUS
  <2>1. CASE payment[p] = "unspent"
    BY <1>1, <2>1 DEF AtWork
  <2>2. CASE Pending(p)
    <3>1. CASE purchase'[p] = "CREDITED"
      BY <1>1, <2>2, <3>1 DEF Pending, AtWork, Settling
    <3>2. CASE purchase'[p] # "CREDITED"
      BY <2>2, <3>2 DEF Pending
    <3> QED
      BY <3>1, <3>2
  <2>3. CASE Marked(p) \/ AtWork(p)
    BY <1>1, <1>3, <2>3
  <2> QED
    BY <2>1, <2>2, <2>3 DEF TraceInv
<1> QED
  BY <1>4, <1>5, <1>6, <1>7, <1>8 DEF TraceInv

\* The tables of purchases, step by step: a purchase once authorised stays known.
LEMMA PurchasesStay ==
  ASSUME MeterInv, DeliveryInv, NEW r \in Requests, RequestStep(r)
  PROVE  /\ \A p \in Purchases : purchase'[p] \in {"none", "AUTHORIZED", "CREDITED"}
                                 /\ (purchase[p] # "none" => purchase'[p] # "none")
         /\ \A p \in Purchases : purchase'[p] = "CREDITED" /\ purchase[p] # "CREDITED" =>
              p = presents[r] /\ Rail[p] = "standard" /\ stage'[r] = "deliver"
<1>1. purchase \in [Purchases -> {"none", "AUTHORIZED", "CREDITED"}]
  BY DEF MeterInv, TypeOK
<1>2. ASSUME UNCHANGED storeVars PROVE purchase' = purchase
  BY <1>2 DEF storeVars
<1>3. ASSUME NEW p \in Purchases, AuthorizePurchase(p)
      PROVE  purchase' = [purchase EXCEPT ![p] = "AUTHORIZED"] /\ purchase[p] = "none"
  BY <1>3 DEF AuthorizePurchase, Unauthorized
<1>4. CASE Handle(r) \/ LateHandler(r)
  <2>1. purchase' = purchase
        \/ \E p \in Purchases : purchase' = [purchase EXCEPT ![p] = "AUTHORIZED"] /\ purchase[p] = "none"
    BY <1>2, <1>3, <1>4 DEF Handle, LateHandler, HandlerWork
  <2> QED
    BY <1>1, <2>1
<1>5. CASE CreditPack(r)
  <2>1. presents[r] \in Purchases
    BY <1>5 DEF DeliveryInv, StageInv, StageOK, CreditPack
  <2>2. \/ purchase' = purchase
        \/ /\ purchase' = [purchase EXCEPT ![presents[r]] = "CREDITED"]
           /\ Rail[presents[r]] = "standard" /\ stage' = [stage EXCEPT ![r] = "deliver"]
    BY <1>2, <1>5 DEF CreditPack, SettlePurchase, Enter
  <2> QED
    BY <1>1, <2>1, <2>2 DEF DeliveryInv, LayerTypes
<1>6. CASE ~Handle(r) /\ ~LateHandler(r) /\ ~CreditPack(r)
  <2>1. UNCHANGED storeVars
    BY <1>6 DEF RequestStep, Prepare, Authorize, CheckAccount, HandlerFails, Withhold, Settle, Retry,
                RecordFailure, RecordUnknown, Deliver, Crash
  <2> QED
    BY <1>1, <1>2, <2>1
<1> QED
  BY <1>4, <1>5, <1>6

\* An outcome that is tried on a ledger that takes it is on record, or its write failed.
LEMMA OutcomeMarks ==
  ASSUME LayerTypes, NEW p \in Payments, NEW type \in Outcomes, AppendTried(p, type), Buildable(p, type)
  PROVE  Marked(p)'
BY DEF LayerTypes, AppendTried, Append, AppendFails, Marked

\* Every step of a request keeps the invariant.
LEMMA TraceStep ==
  ASSUME HypercoreSellsPacks, DeliveryInv, MeterInv, TraceInv, NEW r \in Requests, RequestStep(r)
  PROVE  TraceInv'
<1> DEFINE p == presents[r]
<1>1. LayerTypes /\ StageOK(r) /\ p \in Payments
  BY DEF DeliveryInv, StageInv, LayerTypes
<1>2. /\ \A q \in Purchases : purchase'[q] \in {"none", "AUTHORIZED", "CREDITED"}
                              /\ (purchase[q] # "none" => purchase'[q] # "none")
      /\ \A q \in Purchases : purchase'[q] = "CREDITED" /\ purchase[q] # "CREDITED" =>
           q = p /\ Rail[q] = "standard" /\ stage'[r] = "deliver"
  BY PurchasesStay
\* What was handled and paid for is on the ledger, and not sold out of reach of it.
<1>3. r \in handled => /\ OnLedger(p)
                       /\ p \in Purchases => purchase[p] # "none"
                       /\ Rail[p] = "hypercore" => p \in Purchases /\ purchase[p] = "AUTHORIZED"
  <2> SUFFICES ASSUME r \in handled
               PROVE  /\ OnLedger(p)
                      /\ p \in Purchases => purchase[p] # "none"
                      /\ Rail[p] = "hypercore" => p \in Purchases /\ purchase[p] = "AUTHORIZED"
    OBVIOUS
  <2>1. OnLedger(p) /\ (p \in Purchases => purchase[p] # "none")
    BY <1>1 DEF StageOK, TraceInv
  <2>2. Rail[p] = "hypercore" => p \in Purchases
    BY <1>1, <2>1 DEF OnLedger, HypercoreSellsPacks
  <2>3. Rail[p] = "hypercore" /\ p \in Purchases => purchase[p] # "CREDITED"
    BY DEF TraceInv
  <2> QED
    BY <2>1, <2>2, <2>3 DEF MeterInv, TypeOK
<1>4. Rail[p] \in {"standard", "hypercore"}
  BY <1>1, PaymentAssumption
<1>5. ASSUME NEW label \in Labels, stage' = [stage EXCEPT ![r] = label]
      PROVE  stage'[r] = label /\ \A x \in Requests : x # r => stage'[x] = stage[x]
  BY <1>1, <1>5, EnterMeaning
<1>6. CASE Prepare(r) \/ CheckAccount(r) \/ HandlerFails(r) \/ Crash(r)
  <2>1. PICK label \in {"authorize", "done", "purchase", "withhold", "crashed"} :
          /\ stage' = [stage EXCEPT ![r] = label]
          /\ stage[r] \in Settling => label = "crashed"
    BY <1>6 DEF Prepare, CheckAccount, HandlerFails, AtHandler, Crash, Enter, Answer, Settling
  <2>2. UNCHANGED <<payment, presents, events, handled, unwritten>>
    BY <1>6 DEF Prepare, CheckAccount, HandlerFails, Crash
  <2>3. stage'[r] = label /\ \A x \in Requests : x # r => stage'[x] = stage[x]
    BY <1>5, <2>1 DEF Labels
  <2>4. Kept
    BY <2>2 DEF Kept
  <2> QED
    BY <1>1, <1>2, <2>1, <2>2, <2>3, <2>4, TraceMove DEF Settling, LayerTypes
<1>7. CASE Authorize(r)
  <2>1. PICK label \in {"handler", "done"} : stage' = [stage EXCEPT ![r] = label]
    BY <1>7 DEF Authorize, Enter, Answer
  <2>2. stage'[r] = label /\ \A x \in Requests : x # r => stage'[x] = stage[x]
    BY <1>5, <2>1 DEF Labels
  <2>3. UNCHANGED <<payment, presents, handled>> /\ stage[r] = "authorize"
    BY <1>7 DEF Authorize
  <2>4. AppendTried(p, "PAYMENT_AUTHORIZED")
    BY <1>7 DEF Authorize, AppendTried
  <2>5. /\ \A q \in Payments : events[q] \subseteq events'[q]
        /\ unwritten \subseteq unwritten'
        /\ \A q \in Payments : "PAYMENT_AUTHORIZED" \in events'[q] /\ "PAYMENT_AUTHORIZED" \notin events[q] =>
             OnLedger(q)
    BY <1>1, <2>4 DEF LayerTypes, AppendTried, Append, AppendFails, Buildable, OnLedger
  <2>6. Kept
    BY <2>3, <2>5 DEF Kept
  <2> QED
    BY <1>1, <1>2, <2>2, <2>3, <2>5, <2>6, TraceMove DEF Settling, LayerTypes
<1>8. CASE Handle(r)
  <2>1. stage'[r] = "settle" /\ (\A x \in Requests : x # r => stage'[x] = stage[x]) /\ stage[r] \in {"purchase", "handler"}
    BY <1>5, <1>8 DEF Handle, AtHandler, Enter, Labels
  <2>2. UNCHANGED <<payment, presents, events, unwritten>> /\ handled' = handled \cup {r}
    BY <1>8 DEF Handle
  <2>3. p \in Purchases => purchase'[p] # "none"
    BY <1>2, <1>8 DEF Handle, HandlerWork, AuthorizePurchase, Unauthorized, storeVars, MeterInv, TypeOK
  <2>4. Kept
    BY <2>2 DEF Kept
  <2> QED
    BY <1>1, <1>2, <2>1, <2>2, <2>3, <2>4, TraceMove DEF Settling, LayerTypes
<1>9. CASE LateHandler(r)
  <2>1. UNCHANGED <<payment, presents, stage, events, handled, unwritten>>
    BY <1>9 DEF LateHandler
  <2>2. Kept
    BY <2>1 DEF Kept
  <2>3. stage[r] = "deliver" => Rail[p] = "standard"
    BY DEF TraceInv
  <2> QED
    BY <1>1, <1>2, <2>1, <2>2, <2>3, TraceMove DEF LayerTypes
<1>10. CASE Withhold(r) \/ RecordFailure(r) \/ RecordUnknown(r) \/ Deliver(r)
  <2>1. /\ stage' = [stage EXCEPT ![r] = "done"]
        /\ UNCHANGED <<payment, presents, handled>>
        /\ stage[r] \in {"withhold", "fail", "unknown", "deliver"}
    BY <1>10 DEF Withhold, RecordFailure, RecordUnknown, Deliver, Answer
  <2>2. stage'[r] = "done" /\ \A x \in Requests : x # r => stage'[x] = stage[x]
    BY <1>5, <2>1 DEF Labels
  <2>3. PICK type \in EventTypes \ {"PAYMENT_AUTHORIZED"} :
          /\ AppendTried(p, type)
          /\ stage[r] # "withhold" => type \in Outcomes
          /\ type = "SETTLEMENT_FAILED" => stage[r] = "fail"
          /\ type = "DELIVERED" => stage[r] = "deliver"
          /\ stage[r] = "deliver" => type = "DELIVERED"
    BY <1>10 DEF Withhold, RecordFailure, RecordUnknown, Deliver, EventTypes, Outcomes
  <2>4. /\ \A q \in Payments : events[q] \subseteq events'[q]
        /\ unwritten \subseteq unwritten'
        /\ \A q \in Payments : "PAYMENT_AUTHORIZED" \in events'[q] => "PAYMENT_AUTHORIZED" \in events[q]
    BY <1>1, <2>3 DEF LayerTypes, AppendTried, Append, AppendFails
  <2>5. Kept
    BY <2>1, <2>4 DEF Kept
  <2>6. purchase' = purchase
    BY <1>10 DEF Withhold, RecordFailure, RecordUnknown, Deliver, storeVars
  <2>7. ASSUME stage[r] \in Settling PROVE Marked(p)' \/ (stage[r] = "fail" /\ Pending(p)')
    <3>1. r \in handled /\ type \in Outcomes
      BY <1>1, <2>1, <2>3, <2>7 DEF StageOK, Answered, Settling
    <3>2. CASE Rail[p] = "standard" \/ stage[r] = "unknown"
      <4>1. Buildable(p, type)
        BY <1>3, <2>3, <3>1, <3>2 DEF Buildable, OnLedger
      <4> QED
        BY <1>1, <2>1, <2>3, <3>1, <4>1, OutcomeMarks
    <3>3. CASE Rail[p] = "hypercore" /\ stage[r] = "fail"
      BY <1>3, <2>1, <2>6, <3>1, <3>3 DEF Pending
    <3>4. stage[r] = "deliver" => Rail[p] = "standard"
      BY DEF TraceInv
    <3> QED
      BY <1>4, <2>1, <2>7, <3>2, <3>3, <3>4 DEF Settling
  <2> QED
    BY <1>1, <1>2, <2>1, <2>2, <2>4, <2>5, <2>7, TraceMove DEF Settling, LayerTypes
<1>11. CASE Settle(r) \/ Retry(r)
  <2>1. PICK s \in SettleAnswers(p) :
          /\ payment' = [payment EXCEPT ![p] = s.becomes]
          /\ \/ Enter(r, IF s.answer = "pending" /\ Rail[p] = "standard" THEN "retry" ELSE Verdict(r, s.answer))
             \/ Enter(r, Verdict(r, IF s.answer = "lost" THEN "pending" ELSE s.answer))
    BY <1>11 DEF Settle, Retry
  <2>2. /\ s.answer \in {"success", "failed", "pending", "lost"}
        /\ payment[p] = "executed" => s.becomes = "executed"
    BY <1>1, AnswerMeaning DEF LayerTypes
  <2>3. PICK label \in {"retry", "credit", "deliver", "fail", "unknown"} :
          stage' = [stage EXCEPT ![r] = label] /\ (label = "deliver" => p \notin Purchases)
    BY <2>1, <2>2 DEF Enter, Verdict
  <2>4. stage'[r] = label /\ \A x \in Requests : x # r => stage'[x] = stage[x]
    BY <1>5, <2>3 DEF Labels
  <2>5. UNCHANGED <<presents, events, handled, unwritten>> /\ stage[r] \in {"settle", "retry"}
    BY <1>11 DEF Settle, Retry
  <2>6. r \in handled
    BY <1>1, <2>5 DEF StageOK, Answered
  <2>7. Kept
    BY <1>1, <2>1, <2>2, <2>5 DEF Kept, LayerTypes
  <2>8. \A q \in Payments : q # p => payment'[q] = payment[q]
    BY <1>1, <2>1 DEF LayerTypes
  <2> QED
    BY <1>1, <1>2, <1>3, <1>4, <2>3, <2>4, <2>5, <2>6, <2>7, <2>8, TraceMove DEF Settling, LayerTypes
<1>12. CASE CreditPack(r)
  <2>1. PICK label \in {"deliver", "done"} : stage' = [stage EXCEPT ![r] = label]
    BY <1>12 DEF CreditPack, Enter, Answer
  <2>2. stage'[r] = label /\ \A x \in Requests : x # r => stage'[x] = stage[x]
    BY <1>5, <2>1 DEF Labels
  <2>3. /\ UNCHANGED <<payment, presents, events, handled>> /\ stage[r] = "credit"
        /\ unwritten' \in {unwritten, unwritten \cup {p}}
    BY <1>12 DEF CreditPack
  <2>4. r \in handled /\ p \in Purchases
    BY <1>1, <2>3 DEF StageOK, Answered
  <2>5. Kept
    BY <2>3 DEF Kept
  <2>6. label = "deliver" => Rail[p] = "standard"
    <3>1. CASE Rail[p] = "hypercore"
      <4>1. ~(Rail[p] = "standard")
        BY <3>1
      <4>2. stage' = [stage EXCEPT ![r] = "done"]
        BY <1>12, <4>1 DEF CreditPack, Answer
      <4> QED
        BY <1>1, <2>2, <4>2 DEF LayerTypes
    <3> QED
      BY <1>4, <3>1
  <2>7. ASSUME label = "done" PROVE Marked(p)' \/ AtWork(p)' \/ Pending(p)'
    <3>1. purchase'[p] # "none"
      BY <1>2, <1>3, <2>4
    <3>2. CASE purchase'[p] = "AUTHORIZED"
      BY <2>3, <2>4, <3>2 DEF Pending
    <3>3. CASE purchase'[p] = "CREDITED"
      <4>1. purchase[p] = "CREDITED"
        BY <1>2, <2>2, <2>4, <2>7, <3>3
      <4>2. Marked(p) \/ Delivering(p)
        BY <2>4, <4>1 DEF TraceInv
      <4>3. Marked(p) => Marked(p)'
        BY <2>3 DEF Marked
      <4>4. Delivering(p) => AtWork(p)'
        BY <2>2, <2>3 DEF Delivering, AtWork, Settling
      <4> QED
        BY <4>2, <4>3, <4>4
    <3> QED
      BY <1>2, <2>4, <3>1, <3>2, <3>3
  <2> QED
    BY <1>1, <1>2, <2>2, <2>3, <2>4, <2>5, <2>6, <2>7, TraceMove DEF Settling, LayerTypes
<1> QED
  BY <1>6, <1>7, <1>8, <1>9, <1>10, <1>11, <1>12 DEF RequestStep

\* Every charge can be reconciled, once nobody works on it any more: an outcome is on
\* record, or a purchase is kept, unless a process stopped or a write failed.
THEOREM ChargesLeaveTrace == DeliverySpec => [](HypercoreSellsPacks => ChargedLeavesTrace)
<1>1. ASSUME DeliveryInit PROVE TraceInv
  BY <1>1, PaymentAssumption DEF DeliveryInit, Init, TraceInv
<1>2. ASSUME HypercoreSellsPacks, DeliveryInv, MeterInv, TraceInv, [DeliveryNext]_x402Vars PROVE TraceInv'
  <2>1. ASSUME UNCHANGED deliveryVars, \A q \in Purchases : purchase'[q] = purchase[q]
        PROVE  TraceInv'
    <3>1. UNCHANGED <<payment, presents, stage, events, handled, unwritten>>
      BY <2>1 DEF deliveryVars
    <3>2. \A p \in Payments : /\ Marked(p)' = Marked(p) /\ AtWork(p)' = AtWork(p)
                             /\ Delivering(p)' = Delivering(p) /\ (Pending(p)' <=> Pending(p))
                             /\ OnLedger(p)' = OnLedger(p)
      BY <2>1, <3>1 DEF Marked, AtWork, Delivering, Pending, OnLedger
    <3> QED
      BY <1>2, <2>1, <3>1, <3>2, PaymentAssumption DEF TraceInv
  <2>2. ASSUME NEW p \in Payments, Confirm(p) PROVE TraceInv'
    <3>1. UNCHANGED <<presents, stage, events, handled, unwritten, purchase>>
      BY <2>2 DEF Confirm, storeVars, localVars
    <3>2. \A q \in Payments : payment'[q] # "unspent" => payment[q] # "unspent"
      BY <1>2, <2>2 DEF Confirm, DeliveryInv, LayerTypes
    <3>3. \A q \in Payments : /\ Marked(q)' = Marked(q) /\ AtWork(q)' = AtWork(q)
                             /\ Delivering(q)' = Delivering(q) /\ Pending(q)' = Pending(q)
                             /\ OnLedger(q)' = OnLedger(q)
      BY <3>1 DEF Marked, AtWork, Delivering, Pending, OnLedger
    <3> QED
      BY <1>2, <3>1, <3>2, <3>3, PaymentAssumption DEF TraceInv
  <2>3. ASSUME NEW a \in Accounts, RevokeBuyer(a) PROVE TraceInv'
    BY <2>1, <2>3 DEF RevokeBuyer, Revoke
  <2>4. CASE UNCHANGED x402Vars
    BY <2>1, <2>4 DEF x402Vars, storeVars
  <2> QED
    BY <1>2, <2>2, <2>3, <2>4, TraceStep DEF DeliveryNext
<1>3. DeliveryInv /\ TraceInv => ChargedLeavesTrace
  <2> SUFFICES ASSUME DeliveryInv, TraceInv, NEW p \in Payments, payment[p] = "executed", p \notin unwritten,
                      \A r \in Presenting(p) : stage[r] = "done"
               PROVE  (p \in Purchases /\ purchase[p] = "AUTHORIZED") \/ events[p] \cap Outcomes # {}
    BY DEF ChargedLeavesTrace
  <2>1. ~AtWork(p)
    BY DEF AtWork, Presenting, Settling
  <2> QED
    BY <2>1 DEF TraceInv, Marked, Pending
<1>4. (HypercoreSellsPacks => TraceInv) /\ DeliveryInv /\ MeterInv /\ [DeliveryNext]_x402Vars
      => (HypercoreSellsPacks => TraceInv)'
  BY <1>2 DEF HypercoreSellsPacks
<1> QED
  BY <1>1, <1>3, <1>4, DeliveryInvHolds, PTL DEF DeliverySpec

===============================================================================
