--------------------------- MODULE AgentMeterStore ---------------------------
(***************************************************************************)
(* The prepaid-credit ledger as the in-process store keeps it: four tables *)
(* (accounts, usage reservations, credit operations, x402 credit-pack      *)
(* purchases) and one indivisible action per store method.  The PostgreSQL *)
(* store runs the same methods as serialised transactions; what Cloudflare *)
(* D1 does instead is module D1AgentMeterStore.                            *)
(*                                                                         *)
(* Amounts are numbers of service credits.  A usage row is identified by   *)
(* (account, request key), a credit operation likewise: the usage and      *)
(* operation identifiers of the code are hashes of exactly that pair.      *)
(***************************************************************************)
EXTENDS Naturals, FiniteSets, Functions

CONSTANTS
  Accounts,         \* account identifiers
  RequestKeys,      \* idempotency keys a client or an operator may send
  Routes,           \* metered routes
  Price,            \* Price[route]: credits one call of the route costs
  Purchases,        \* x402 credit-pack purchase identifiers
  PurchaseAccount,  \* PurchaseAccount[p]: the account p was authorised for
  PackCredits,      \* PackCredits[p]: the credits p buys
  Opening,          \* Opening[a]: credits of an account issued before the behaviour starts
  Seeds,            \* provisioned-credit values a configuration may carry
  Grants            \* credit amounts an operator may grant

ASSUME PriceAssumption == Price \in [Routes -> Nat \ {0}]
ASSUME PackAssumption ==
  /\ PurchaseAccount \in [Purchases -> Accounts]
  /\ PackCredits \in [Purchases -> Nat \ {0}]
ASSUME OpeningAssumption == DOMAIN Opening \subseteq Accounts /\ \A a \in DOMAIN Opening : Opening[a] \in Nat
ASSUME AmountsAssumption == Seeds \subseteq Nat /\ Grants \subseteq Nat \ {0}
\* The rows of an account are summed: they are as many as the keys anybody used.
ASSUME KeysAssumption == IsFiniteSet(RequestKeys) /\ IsFiniteSet(Purchases)

VARIABLES
  account,    \* account[a]: [status, provisioned, remaining]
  usage,      \* usage[a][k]: [state, route]
  operation,  \* operation[a][k]: [credits, reference]; x402 operations are keyed by their purchase
  purchase,   \* purchase[p]: "none", "AUTHORIZED" or "CREDITED"
  seeded      \* history: credits granted to a by configuration or issue, outside any credit operation

tables == <<account, usage, operation, purchase>>
storeVars == <<account, usage, operation, purchase, seeded>>

NoAccount == [status |-> "absent", provisioned |-> 0, remaining |-> 0]
NoUsage == [state |-> "none", route |-> "none"]
NoOperation == [credits |-> 0, reference |-> "none"]
\* An x402 settlement uses the request key x402-pack-<purchaseId>; it is represented by the purchase.
OperationKeys == RequestKeys \cup Purchases

NewAccount(credits, status) ==
  [status |-> status, provisioned |-> credits, remaining |-> credits]
OpeningCredits(a) == IF a \in DOMAIN Opening THEN Opening[a] ELSE 0
OpeningAccount(a) == IF a \in DOMAIN Opening THEN NewAccount(Opening[a], "active") ELSE NoAccount

Init ==
  /\ account = [a \in Accounts |-> OpeningAccount(a)]
  /\ usage = [a \in Accounts |-> [k \in RequestKeys |-> NoUsage]]
  /\ operation = [a \in Accounts |-> [k \in OperationKeys |-> NoOperation]]
  /\ purchase = [p \in Purchases |-> "none"]
  /\ seeded = [a \in Accounts |-> OpeningCredits(a)]

Exists(a) == account[a].status # "absent"
Active(a) == account[a].status = "active"
Credited(row, credits) ==
  [status |-> row.status,
   provisioned |-> row.provisioned + credits, remaining |-> row.remaining + credits]

-------------------------------------------------------------------------------
(* Accounts *)

\* Variant: the difference is added even when it is negative.
TopUpSigned(credits, provisioned) == credits - provisioned
\* Variant: the whole allocation is added again.
TopUpWhole(credits, provisioned) == credits

\* What a configured allocation adds to an account whose provisioned total is `provisioned`.
TopUp(credits, provisioned) ==
  IF credits > provisioned THEN credits - provisioned ELSE 0

\* provisionAgentMeterAccount: insert, or raise the provisioned total; never touches the status.
Provision(a, credits, status) ==
  LET added == IF Exists(a) THEN TopUp(credits, account[a].provisioned) ELSE credits
  IN /\ account' = [account EXCEPT ![a] =
                      IF Exists(a) THEN Credited(@, added) ELSE NewAccount(credits, status)]
     /\ seeded' = [seeded EXCEPT ![a] = @ + added]
     /\ UNCHANGED <<usage, operation, purchase>>

\* createAgentMeterAccount: operator issue; refuses an existing account.
Create(a, credits) ==
  /\ ~Exists(a)
  /\ account' = [account EXCEPT ![a] = NewAccount(credits, "active")]
  /\ seeded' = [seeded EXCEPT ![a] = @ + credits]
  /\ UNCHANGED <<usage, operation, purchase>>

Revoke(a) ==
  /\ Exists(a)
  /\ account' = [account EXCEPT ![a].status = "revoked"]
  /\ UNCHANGED <<usage, operation, purchase, seeded>>

\* Variant: a request key that already has an operation is not detected.
UnusedUnchecked(a, k) == TRUE
Unused(a, k) == operation[a][k] = NoOperation

\* Who credits an account: an operator, or an agent that claims a transfer of its own.
References == {"operator", "claim"}

\* creditAgentMeterAccount: a replayed or conflicting request key changes nothing.
Credit(a, k, credits, reference) ==
  /\ Exists(a)
  /\ Unused(a, k)
  /\ account' = [account EXCEPT ![a] = Credited(@, credits)]
  /\ operation' = [operation EXCEPT ![a][k] = [credits |-> credits, reference |-> reference]]
  /\ UNCHANGED <<usage, purchase, seeded>>

-------------------------------------------------------------------------------
(* Metered calls *)

Affordable(a, route) == Active(a) /\ account[a].remaining >= Price[route]

\* reserveAgentUsage for a request key that has no row yet; every other outcome changes nothing.
Reserve(a, k, route) ==
  /\ usage[a][k] = NoUsage
  /\ Affordable(a, route)
  /\ account' = [account EXCEPT ![a].remaining = @ - Price[route]]
  /\ usage' = [usage EXCEPT ![a][k] = [state |-> "RESERVED", route |-> route]]
  /\ UNCHANGED <<operation, purchase, seeded>>

\* Variant: a settled row is settled again.
UnsettledUnchecked(a, k) == usage[a][k] # NoUsage
Unsettled(a, k) == usage[a][k].state = "RESERVED"

\* settleAgentUsage: only the first settlement of a reservation counts.
SettleUsage(a, k, outcome) ==
  /\ Unsettled(a, k)
  /\ usage' = [usage EXCEPT ![a][k].state = outcome]
  /\ account' = IF outcome = "RELEASED"
                THEN [account EXCEPT ![a].remaining = @ + Price[usage[a][k].route]]
                ELSE account
  /\ UNCHANGED <<operation, purchase, seeded>>

-------------------------------------------------------------------------------
(* Credit-pack purchases *)

\* Variant: authorising again resets the row.
UnauthorizedUnchecked(p) == TRUE
Unauthorized(p) == purchase[p] = "none"

AuthorizePurchase(p) ==
  /\ Unauthorized(p)
  /\ Exists(PurchaseAccount[p])
  /\ purchase' = [purchase EXCEPT ![p] = "AUTHORIZED"]
  /\ UNCHANGED <<account, usage, operation, seeded>>

PackOperation(p) == [credits |-> PackCredits[p], reference |-> "x402"]

\* settleX402CreditPurchase: credit the account and mark the purchase in one step.
SettlePurchase(p) ==
  LET a == PurchaseAccount[p]
  IN /\ purchase[p] = "AUTHORIZED"
     /\ Active(a)
     /\ Unused(a, p)
     /\ account' = [account EXCEPT ![a] = Credited(@, PackCredits[p])]
     /\ operation' = [operation EXCEPT ![a][p] = PackOperation(p)]
     /\ purchase' = [purchase EXCEPT ![p] = "CREDITED"]
     /\ UNCHANGED <<usage, seeded>>

Next ==
  \/ \E a \in Accounts :
       \/ \E c \in Seeds, s \in {"active", "revoked"} : Provision(a, c, s)
       \/ \E c \in Seeds \cup {0} : Create(a, c)
       \/ Revoke(a)
       \/ \E k \in RequestKeys, c \in Grants, reference \in References : Credit(a, k, c, reference)
       \/ \E k \in RequestKeys, r \in Routes : Reserve(a, k, r)
       \/ \E k \in RequestKeys, o \in {"CONSUMED", "RELEASED"} : SettleUsage(a, k, o)
  \/ \E p \in Purchases : AuthorizePurchase(p) \/ SettlePurchase(p)

Spec == Init /\ [][Next]_storeVars

-------------------------------------------------------------------------------
(* Properties *)

UsageRows == [state : {"RESERVED", "CONSUMED", "RELEASED"}, route : Routes]
OperationRows == [credits : Nat \ {0}, reference : References \cup {"x402"}]

\* The type invariant of the four tables.
TypeOK ==
  /\ account \in [Accounts -> [status : {"absent", "active", "revoked"}, provisioned : Nat, remaining : Nat]]
  /\ usage \in [Accounts -> [RequestKeys -> UsageRows \cup {NoUsage}]]
  /\ operation \in [Accounts -> [OperationKeys -> OperationRows \cup {NoOperation}]]
  /\ purchase \in [Purchases -> {"none", "AUTHORIZED", "CREDITED"}]
  /\ seeded \in [Accounts -> Nat]

Charged(a) == {k \in RequestKeys : usage[a][k].state \in {"RESERVED", "CONSUMED"}}
ChargedTotal(a) == SumFunction([k \in Charged(a) |-> Price[usage[a][k].route]])
OperationTotal(a) == SumFunction([k \in OperationKeys |-> operation[a][k].credits])

\* Every provisioned credit is either still available or pinned by exactly one
\* reservation that is held or consumed: reservations, releases, top-ups and
\* revocations in any order neither create nor lose a credit.  And every credit was
\* either seeded or is recorded by exactly one credit operation, so a replayed
\* operator credit or purchase settlement never grants twice, and no operation is
\* recorded without its grant.
CreditsConserved ==
  \A a \in Accounts :
    /\ account[a].provisioned = account[a].remaining + ChargedTotal(a)
    /\ account[a].provisioned = seeded[a] + OperationTotal(a)

\* A purchase is CREDITED exactly when its credit operation exists.
PurchaseMatchesOperation ==
  \A p \in Purchases :
    (purchase[p] = "CREDITED") <=> (operation[PurchaseAccount[p]][p] = PackOperation(p))

\* A settled usage row, a credit operation, a credited purchase and a
\* revocation are final: later calls with the same identifiers change nothing.
LedgerIsFinal ==
  [][ /\ \A a \in Accounts, k \in RequestKeys :
           usage[a][k].state \in {"CONSUMED", "RELEASED"} => usage'[a][k] = usage[a][k]
      /\ \A a \in Accounts, k \in OperationKeys :
           operation[a][k] # NoOperation => operation'[a][k] = operation[a][k]
      /\ \A p \in Purchases : purchase[p] = "CREDITED" => purchase'[p] = "CREDITED"
      /\ \A a \in Accounts : account[a].status = "revoked" => account'[a].status = "revoked"
    ]_storeVars
===============================================================================
