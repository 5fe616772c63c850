----------------------------- MODULE MeteredCalls -----------------------------
(***************************************************************************)
(* Metered Agent calls over the prepaid-credit ledger.  A call presents a  *)
(* credential; a configured account is provisioned on every call, its      *)
(* status is read back, the route's price is reserved under the request's  *)
(* idempotency key, the handler runs, and the reservation is settled in a  *)
(* `finally`.  Each of these is one awaited store method, so calls,        *)
(* credit-pack purchases, operator actions and redeployments interleave    *)
(* between them.                                                           *)
(***************************************************************************)
EXTENDS AgentMeterStore

CONSTANTS
  Calls,        \* HTTP or MCP calls made during the behaviour
  CallAccount,  \* CallAccount[c]: the account whose credential c presents
  CallKey,      \* CallKey[c]: its idempotency-key header
  CallRoute,    \* CallRoute[c]: the metered route it addresses
  ToolCalls,    \* the calls made through an MCP tool, which meters them inside the request deadline
  MaxDeploys    \* bound on the number of configuration changes

ASSUME CallAssumption ==
  \A c \in Calls :
    CallAccount[c] \in Accounts /\ CallKey[c] \in RequestKeys /\ CallRoute[c] \in Routes
ASSUME ToolAssumption == ToolCalls \subseteq Calls

VARIABLES
  configurable, \* accounts whose credential the configuration may list; the others are issued
  deployed,  \* deployed[a]: the account's entry in the meter configuration in force
  deploys,   \* configuration changes so far (bounded)
  pc,        \* pc[c]: what call c does next
  buying,    \* purchases whose credential has been accepted
  outcome,   \* outcome[c]: the response c has sent
  abandoned, \* tool calls answered by the request deadline before their reservation was known
  applied    \* history: the highest configured or issued capacity that reached the store for a

callVars == <<configurable, deployed, deploys, pc, buying, outcome, abandoned, applied>>
vars == <<storeVars, callVars>>

NotConfigured == [credits |-> 0, status |-> "none"]
Larger(m, n) == IF m > n THEN m ELSE n

CallsInit ==
  /\ Init
  /\ configurable \in SUBSET Accounts
  /\ deployed = [a \in Accounts |-> NotConfigured]
  /\ deploys = 0
  /\ pc = [c \in Calls |-> "start"]
  /\ buying = {}
  /\ outcome = [c \in Calls |-> "none"]
  /\ abandoned = {}
  /\ applied = seeded

Goto(c, label) == pc' = [pc EXCEPT ![c] = label]
\* The response to an abandoned call has been sent; what its handler answers later goes nowhere.
Respond(c, response) ==
  outcome' = IF c \in abandoned THEN outcome ELSE [outcome EXCEPT ![c] = response]

-------------------------------------------------------------------------------
(* The operator *)

\* A deployment changes the account's entry; the store is not touched.
Deploy(a, credits, status) ==
  /\ a \in configurable
  /\ deploys < MaxDeploys
  /\ deploys' = deploys + 1
  /\ deployed' = [deployed EXCEPT ![a] = [credits |-> credits, status |-> status]]
  /\ UNCHANGED <<storeVars, configurable, pc, buying, outcome, abandoned, applied>>

\* issue: the credential is freshly drawn, so no configuration lists it.
Issue(a, credits) ==
  /\ a \notin configurable
  /\ Create(a, credits)
  /\ applied' = [applied EXCEPT ![a] = Larger(@, credits)]
  /\ UNCHANGED <<configurable, deployed, deploys, pc, buying, outcome, abandoned>>

OperatorCredit(a, k, credits) == Credit(a, k, credits, "operator") /\ UNCHANGED callVars
OperatorRevoke(a) == Revoke(a) /\ UNCHANGED callVars

-------------------------------------------------------------------------------
(* A credit-pack purchase *)

\* requireAccount, before the purchase is authorised.
AcceptBuyer(p) ==
  /\ p \notin buying
  /\ Active(PurchaseAccount[p])
  /\ buying' = buying \cup {p}
  /\ UNCHANGED <<storeVars, configurable, deployed, deploys, pc, outcome, abandoned, applied>>

\* The account may have been revoked since its credential was accepted.
AuthorizePack(p) == p \in buying /\ AuthorizePurchase(p) /\ UNCHANGED callVars
SettlePack(p) == SettlePurchase(p) /\ UNCHANGED callVars

-------------------------------------------------------------------------------
(* One metered call *)

\* accountFor: a configured account is provisioned before its state is read.
Authenticate(c) ==
  LET a == CallAccount[c]
      entry == deployed[a]
  IN /\ pc[c] = "start"
     /\ IF entry = NotConfigured
        THEN UNCHANGED <<storeVars, applied>>
        ELSE /\ Provision(a, entry.credits, entry.status)
             /\ applied' = [applied EXCEPT ![a] = Larger(@, entry.credits)]
     /\ Goto(c, "status")
     /\ UNCHANGED <<configurable, deployed, deploys, buying, outcome, abandoned>>

\* requireAccount: the stored status decides, the configured one does not.
CheckStatus(c) ==
  /\ pc[c] = "status"
  /\ IF Active(CallAccount[c])
     THEN Goto(c, "reserve") /\ UNCHANGED outcome
     ELSE Goto(c, "done") /\ Respond(c, "unauthorized")
  /\ UNCHANGED <<storeVars, configurable, deployed, deploys, buying, abandoned, applied>>

\* authorize: a replayed reservation admits the call whatever its state is.  An
\* abandoned call runs its operation too, but the `finally` that settles has
\* already run.
ReserveCall(c) ==
  LET a == CallAccount[c]
      row == usage[a][CallKey[c]]
      route == CallRoute[c]
      granted == IF c \in abandoned THEN "done" ELSE "dispatch"
  IN /\ pc[c] = "reserve"
     /\ \/ /\ row # NoUsage /\ row.route = route
           /\ Goto(c, granted)
           /\ UNCHANGED <<storeVars, outcome>>
        \/ /\ row = NoUsage /\ Affordable(a, route)
           /\ Reserve(a, CallKey[c], route)
           /\ Goto(c, granted)
           /\ UNCHANGED outcome
        \/ /\ row # NoUsage /\ row.route # route
           /\ Goto(c, "done") /\ Respond(c, "conflict")
           /\ UNCHANGED storeVars
        \/ /\ row = NoUsage /\ ~Affordable(a, route)
           /\ Goto(c, "done") /\ Respond(c, "exhausted")
           /\ UNCHANGED storeVars
     /\ UNCHANGED <<configurable, deployed, deploys, buying, abandoned, applied>>

\* The request deadline of a tool call fires while the tool is still authorising
\* the call: the request is answered, its `finally` knows no reservation, and the
\* tool goes on in the background.
Abandon(c) ==
  /\ c \in ToolCalls \ abandoned
  /\ pc[c] \in {"start", "status", "reserve"}
  /\ abandoned' = abandoned \cup {c}
  /\ Respond(c, "failed")
  /\ UNCHANGED <<storeVars, configurable, deployed, deploys, pc, buying, applied>>

\* The handler answers 2xx, or fails, is answered by the deadline or aborted.
Dispatch(c) ==
  /\ pc[c] = "dispatch"
  /\ \E response \in {"served", "failed"} : Respond(c, response)
  /\ Goto(c, "settle")
  /\ UNCHANGED <<storeVars, configurable, deployed, deploys, buying, abandoned, applied>>

\* Variant: the reservation is consumed whatever the handler answered.
SettlementConsumed(response) == "CONSUMED"
Settlement(response) == IF response = "served" THEN "CONSUMED" ELSE "RELEASED"

\* Variant: only a successful response is settled, there is no `finally`.
SettleServed(c) ==
  /\ pc[c] = "settle"
  /\ \/ outcome[c] = "served" /\ SettleUsage(CallAccount[c], CallKey[c], "CONSUMED")
     \/ outcome[c] = "failed" /\ UNCHANGED storeVars
  /\ Goto(c, "done")
  /\ UNCHANGED <<configurable, deployed, deploys, buying, outcome, abandoned, applied>>

\* finally: settle the reservation by the response; a settled row stays as it is.
SettleCall(c) ==
  LET a == CallAccount[c]
  IN /\ pc[c] = "settle"
     /\ \/ SettleUsage(a, CallKey[c], Settlement(outcome[c]))
        \/ ~Unsettled(a, CallKey[c]) /\ UNCHANGED storeVars
     /\ Goto(c, "done")
     /\ UNCHANGED <<configurable, deployed, deploys, buying, outcome, abandoned, applied>>

CallStep(c) == Authenticate(c) \/ CheckStatus(c) \/ ReserveCall(c) \/ Dispatch(c) \/ SettleCall(c) \/ Abandon(c)

CallsNext ==
  \/ \E c \in Calls : CallStep(c)
  \/ \E a \in Accounts :
       \/ \E n \in Seeds, s \in {"active", "revoked"} : Deploy(a, n, s)
       \/ \E n \in Seeds : Issue(a, n)
       \/ \E k \in RequestKeys, n \in Grants : OperatorCredit(a, k, n)
       \/ OperatorRevoke(a)
  \/ \E p \in Purchases : AcceptBuyer(p) \/ AuthorizePack(p) \/ SettlePack(p)

CallsSpec == CallsInit /\ [][CallsNext]_vars

-------------------------------------------------------------------------------
(* Properties *)

\* The type invariant of the call layer.
CallsTypeOK ==
  /\ TypeOK
  /\ configurable \subseteq Accounts
  /\ deployed \in [Accounts -> [credits : Nat, status : {"none", "active", "revoked"}]]
  /\ pc \in [Calls -> {"start", "status", "reserve", "dispatch", "settle", "done"}]
  /\ buying \subseteq Purchases
  /\ abandoned \subseteq ToolCalls
  /\ outcome \in [Calls -> {"none", "unauthorized", "conflict", "exhausted", "served", "failed"}]

InHandler(c) == pc[c] \in {"dispatch", "settle"}
UsageOf(c) == usage[CallAccount[c]][CallKey[c]]

\* Credits are held only while a call that uses the key is between its
\* reservation and its settlement, or for a call whose deadline fired while it
\* was reserving, whatever retries and operator actions overlap.
HeldOnlyInHandler ==
  \A a \in Accounts, k \in RequestKeys :
    usage[a][k].state = "RESERVED" =>
      \E c \in Calls : CallAccount[c] = a /\ CallKey[c] = k /\ (InHandler(c) \/ c \in abandoned)

\* Redeployments and concurrent calls never seed an account beyond the highest
\* capacity configured or issued for it.
SeededAtMostApplied == \A a \in Accounts : seeded[a] <= applied[a]

\* A key that only one call used is charged exactly when that call was served.
UnsharedKeyCharged ==
  \A c \in Calls :
    (/\ pc[c] = "done" /\ outcome[c] \in {"served", "failed"} /\ c \notin abandoned
     /\ \A d \in Calls \ {c} : CallAccount[d] = CallAccount[c] /\ CallKey[d] = CallKey[c] => pc[d] = "start")
    => UsageOf(c).state = IF outcome[c] = "served" THEN "CONSUMED" ELSE "RELEASED"

\* The documented meaning of a metered call: a successful response consumes
\* the credits of its key.
ServedIsConsumed ==
  \A c \in Calls : (pc[c] = "done" /\ outcome[c] = "served") => UsageOf(c).state = "CONSUMED"

\* The documented meaning of a failed metered call: its reservation is released,
\* so nothing stays reserved once every call of the key is over.
FailedIsReleased ==
  \A c \in Calls :
    (/\ pc[c] = "done" /\ outcome[c] = "failed"
     /\ \A d \in Calls : CallAccount[d] = CallAccount[c] /\ CallKey[d] = CallKey[c] => ~InHandler(d))
    => UsageOf(c).state # "RESERVED"
===============================================================================
