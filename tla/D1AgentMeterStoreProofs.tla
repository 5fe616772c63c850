------------------------ MODULE D1AgentMeterStoreProofs ------------------------
(***************************************************************************)
(* The ledger on D1, proved for any scripts of requests, accounts, keys,   *)
(* prices, packs and grants, and for Workers stopped between any two       *)
(* statements: every statement is one method of the in-process store or    *)
(* changes no table, except a grant batch that acts on a stale read; and   *)
(* what such a batch does to the credits is bounded.                       *)
(***************************************************************************)
EXTENDS D1AgentMeterStore, AgentMeterStoreProofs

\* The statements of each method, in any order.
Statements ==
  [metered |-> {"readUsage", "debit", "readBack", "dispatch", "consume", "release"},
   credit |-> {"readOperation", "readAccount", "credit", "readCredit"},
   authorize |-> {"readPurchase", "readBuyer", "insertPurchase"},
   settle |-> {"readAuthorized", "readActive", "readGrant", "mark", "grant", "readSettled"},
   provision |-> {"upsert"}, revoke |-> {"revoke"}, create |-> {"insert"},
   claim |-> {"readClaimant", "insertClaimant", "findCredential", "readState",
              "readOperation", "readAccount", "credit", "readCredit"}]

\* A request that is neither over nor stopped is at a statement of its own method.
Placed(c) ==
  pc[c] # "done" =>
    c \in DOMAIN script /\ (pc[c] = "crashed" \/ pc[c] \in Statements[script[c].op])
PcInv == script \in Scripts /\ pc \in [Calls -> Places] /\ \A c \in Calls : Placed(c)

\* What request c knows from what it has read: the rows it rests on do not go away.
Knows(c) ==
  /\ pc[c] = "credit" => Exists(script[c].account)
  /\ pc[c] \in {"insertPurchase", "readGrant", "grant"} => Exists(PurchaseAccount[script[c].purchase])
  /\ pc[c] = "mark" => GrantOperation(script[c].purchase) = PackOperation(script[c].purchase)
  /\ /\ c \in DOMAIN script /\ script[c].op = "claim"
     /\ pc[c] \in {"readState", "readOperation", "readAccount", "credit", "readCredit"}
     => script[c].account \in claimed
KnownInv == \A c \in Calls : Knows(c)

\* The operation of a purchase and its mark are written by one batch.
MarkedInv == \A p \in Purchases : GrantOperation(p) = PackOperation(p) => purchase[p] = "CREDITED"

ReplyInv ==
  /\ claimed \subseteq {a \in Accounts : Exists(a)}
  /\ seen \in [Calls -> {"none", "AUTHORIZED", "CREDITED"}]
  /\ reply \in [Calls -> Replies]

RequestInv == TypeOK /\ PcInv /\ KnownInv /\ MarkedInv /\ ReplyInv

-------------------------------------------------------------------------------
(* Requests *)

\* The parameters of a request are those of its method.
LEMMA RequestForm ==
  ASSUME NEW s \in Requests
  PROVE  /\ s.op \in {"metered", "credit", "claim", "authorize", "settle", "provision", "create", "revoke"}
         /\ s.op = "metered" => s.account \in Accounts /\ s.key \in RequestKeys /\ s.route \in Routes
         /\ s.op \in {"credit", "claim"} =>
              s.account \in Accounts /\ s.key \in RequestKeys /\ s.credits \in Grants /\ s.reference \in References
         /\ s.op \in {"authorize", "settle"} => s.purchase \in Purchases
         /\ s.op = "provision" => s.account \in Accounts /\ s.credits \in Seeds /\ s.status \in {"active", "revoked"}
         /\ s.op = "create" => s.account \in Accounts /\ s.credits \in Seeds
         /\ s.op = "revoke" => s.account \in Accounts
BY DEF Requests

\* The statement a request is at tells its method.
LEMMA AtStatement ==
  ASSUME PcInv, NEW c \in Calls
  PROVE  /\ pc[c] # "done" => c \in DOMAIN script /\ script[c] \in Requests
         /\ pc[c] \in Statements["metered"] => script[c].op = "metered"
         /\ pc[c] \in Statements["credit"] => script[c].op \in {"credit", "claim"}
         /\ pc[c] \in Statements["authorize"] => script[c].op = "authorize"
         /\ pc[c] \in Statements["settle"] => script[c].op = "settle"
         /\ pc[c] = "upsert" => script[c].op = "provision"
         /\ pc[c] = "revoke" => script[c].op = "revoke"
         /\ pc[c] = "insert" => script[c].op = "create"
         /\ pc[c] \in {"readClaimant", "insertClaimant", "findCredential", "readState"} => script[c].op = "claim"
<1>1. pc[c] # "done" => c \in DOMAIN script /\ script[c] \in Requests
  BY ScriptsAssumption DEF PcInv, Placed
<1> QED
  BY <1>1, RequestForm DEF PcInv, Placed, Statements

-------------------------------------------------------------------------------
(* The statements use the store *)

Covered == Next \/ UNCHANGED storeVars \/ \E c \in Calls : StaleGrant(c)

\* A debit is a reservation, a settlement is a settlement; the rest are reads.
LEMMA MeteredUses ==
  ASSUME RequestInv, NEW c \in Calls, MeteredStatements(c)
  PROVE  Covered
<1>1. pc[c] \in Statements["metered"]
  BY DEF MeteredStatements, ReadUsage, Debit, ReadBack, Dispatch, SettleStatement, Statements
<1>2. script[c].account \in Accounts /\ script[c].key \in RequestKeys /\ script[c].route \in Routes
  BY <1>1, AtStatement, RequestForm DEF RequestInv, Statements
<1>3. CASE ReadUsage(c) \/ ReadBack(c) \/ Dispatch(c)
  BY <1>3 DEF ReadUsage, ReadBack, Dispatch, Covered
<1>4. CASE Debit(c)
  <2>1. CASE Debits(script[c])
    <3>1. Reserve(script[c].account, script[c].key, script[c].route)
      BY <1>4, <2>1 DEF Debit, Debits, Reserve, Affordable, Active
    <3> QED
      BY <1>2, <3>1 DEF Covered, Next
  <2>2. CASE ~Debits(script[c])
    BY <1>4, <2>2 DEF Debit, Covered, storeVars
  <2> QED
    BY <2>1, <2>2
<1>5. CASE SettleStatement(c)
  <2>1. CASE Unsettled(script[c].account, script[c].key)
    <3>1. \E o \in {"CONSUMED", "RELEASED"} : SettleUsage(script[c].account, script[c].key, o)
      BY <1>5, <2>1 DEF SettleStatement, SettleUsage, Unsettled
    <3> QED
      BY <1>2, <3>1 DEF Covered, Next
  <2>2. CASE ~Unsettled(script[c].account, script[c].key)
    BY <1>5, <2>2 DEF SettleStatement, Unsettled, Covered, storeVars
  <2> QED
    BY <2>1, <2>2
<1> QED
  BY <1>3, <1>4, <1>5 DEF MeteredStatements

\* The credit batch is one credit, or nothing when the row is there.
LEMMA CreditUses ==
  ASSUME RequestInv, NEW c \in Calls, CreditStatements(c)
  PROVE  Covered
<1>1. pc[c] \in Statements["credit"]
  BY DEF CreditStatements, ReadOperation, ReadAccount, CreditBatch, ReadCredit, Statements
<1>2. /\ script[c].account \in Accounts /\ script[c].key \in RequestKeys /\ script[c].credits \in Grants
      /\ script[c].reference \in References
  BY <1>1, AtStatement, RequestForm DEF RequestInv, Statements
<1>3. CASE ReadOperation(c) \/ ReadAccount(c) \/ ReadCredit(c)
  BY <1>3 DEF ReadOperation, ReadAccount, ReadCredit, Covered
<1>4. CASE CreditBatch(c)
  <2>1. CASE CreditInserts(script[c])
    <3>1. Exists(script[c].account)
      BY <1>4 DEF CreditBatch, RequestInv, KnownInv, Knows
    <3>2. Credit(script[c].account, script[c].key, script[c].credits, script[c].reference)
      BY <1>4, <2>1, <3>1 DEF CreditBatch, CreditInserts, Credit, Unused
    <3> QED
      BY <1>2, <3>2 DEF Covered, Next
  <2>2. CASE ~CreditInserts(script[c])
    BY <1>4, <2>2 DEF CreditBatch, Covered, storeVars
  <2> QED
    BY <2>1, <2>2
<1> QED
  BY <1>3, <1>4 DEF CreditStatements

\* The insert is one authorisation, or nothing when the row is there.
LEMMA AuthorizeUses ==
  ASSUME RequestInv, NEW c \in Calls, AuthorizeStatements(c)
  PROVE  Covered
<1>1. pc[c] \in Statements["authorize"]
  BY DEF AuthorizeStatements, ReadPurchase, ReadBuyer, InsertPurchase, Statements
<1>2. script[c].purchase \in Purchases
  BY <1>1, AtStatement, RequestForm DEF RequestInv, Statements
<1>3. CASE ReadPurchase(c) \/ ReadBuyer(c)
  BY <1>3 DEF ReadPurchase, ReadBuyer, Covered
<1>4. CASE InsertPurchase(c)
  <2>1. CASE purchase[script[c].purchase] = "none"
    <3>1. AuthorizePurchase(script[c].purchase)
      BY <1>4, <2>1 DEF InsertPurchase, AuthorizePurchase, Unauthorized, RequestInv, KnownInv, Knows
    <3> QED
      BY <1>2, <3>1 DEF Covered, Next
  <2>2. CASE purchase[script[c].purchase] # "none"
    BY <1>4, <2>2 DEF InsertPurchase, Covered, storeVars
  <2> QED
    BY <2>1, <2>2
<1> QED
  BY <1>3, <1>4 DEF AuthorizeStatements

\* A grant batch that finds what it read is the settlement of the store.
LEMMA SettleUses ==
  ASSUME RequestInv, NEW c \in Calls, SettleStatements(c)
  PROVE  Covered
<1> DEFINE p == script[c].purchase
           a == PurchaseAccount[p]
<1>1. pc[c] \in Statements["settle"]
  BY DEF SettleStatements, ReadAuthorized, ReadActive, ReadGrant, MarkCredited, GrantBatch, ReadSettled, Statements
<1>2. p \in Purchases /\ a \in Accounts
  BY <1>1, AtStatement, RequestForm, PackRow DEF RequestInv, Statements
<1>3. CASE ReadAuthorized(c) \/ ReadActive(c) \/ ReadGrant(c) \/ ReadSettled(c)
  BY <1>3 DEF ReadAuthorized, ReadActive, ReadGrant, ReadSettled, Covered
<1>4. CASE MarkCredited(c)
  <2>1. purchase[p] = "CREDITED"
    BY <1>2, <1>4 DEF MarkCredited, RequestInv, KnownInv, Knows, MarkedInv
  <2> QED
    BY <1>4, <2>1 DEF MarkCredited, Covered, storeVars
<1>5. CASE GrantBatch(c)
  <2>1. CASE account[a].status = "revoked" \/ GrantOperation(p) # NoOperation
    BY <1>5, <2>1 DEF StaleGrant, Covered
  <2>2. CASE account[a].status # "revoked" /\ GrantOperation(p) = NoOperation
    <3>1. account[a].status = "active"
      BY <1>2, <1>5, <2>2 DEF GrantBatch, RequestInv, KnownInv, Knows, Exists, TypeOK
    <3>2. CASE purchase[p] = "AUTHORIZED"
      <4>1. SettlePurchase(p)
        BY <1>5, <2>2, <3>1, <3>2
           DEF GrantBatch, GrantInserts, GrantCredits, GrantMarks, GrantRecorded, SettlePurchase, Active, Unused,
               GrantOperation
      <4> QED
        BY <1>2, <4>1 DEF Covered, Next
    <3>3. CASE purchase[p] # "AUTHORIZED"
      BY <1>5, <2>2, <3>3
         DEF GrantBatch, GrantInserts, GrantCredits, GrantMarks, GrantRecorded, Covered, storeVars
    <3> QED
      BY <3>2, <3>3
  <2> QED
    BY <2>1, <2>2
<1> QED
  BY <1>3, <1>4, <1>5 DEF SettleStatements

\* Claims and the single-statement methods.
LEMMA OthersUse ==
  ASSUME RequestInv, NEW c \in Calls,
         ClaimStatements(c) \/ Upsert(c) \/ InsertStatement(c) \/ RevokeStatement(c) \/ Crash(c)
  PROVE  Covered
<1>1. CASE ReadClaimant(c) \/ FindCredential(c) \/ ReadClaimantState(c) \/ Crash(c)
  BY <1>1 DEF ReadClaimant, FindCredential, ReadClaimantState, Crash, Covered
<1>2. CASE InsertClaimant(c)
  <2>1. script[c].account \in Accounts
    BY <1>2, AtStatement, RequestForm DEF InsertClaimant, RequestInv
  <2>2. Create(script[c].account, 0) \/ UNCHANGED storeVars
    BY <1>2 DEF InsertClaimant, Inserts, Create, Exists, storeVars
  <2> QED
    BY <2>1, <2>2 DEF Covered, Next
<1>3. CASE InsertStatement(c)
  <2>1. script[c].account \in Accounts /\ script[c].credits \in Seeds
    BY <1>3, AtStatement, RequestForm DEF InsertStatement, RequestInv
  <2>2. Create(script[c].account, script[c].credits) \/ UNCHANGED storeVars
    BY <1>3 DEF InsertStatement, Inserts, Create, Exists, storeVars
  <2> QED
    BY <2>1, <2>2 DEF Covered, Next
<1>4. CASE Upsert(c)
  <2>1. /\ script[c].account \in Accounts /\ script[c].credits \in Seeds
        /\ script[c].status \in {"active", "revoked"}
    BY <1>4, AtStatement, RequestForm DEF Upsert, RequestInv
  <2> QED
    BY <1>4, <2>1 DEF Upsert, Covered, Next
<1>5. CASE RevokeStatement(c)
  <2>1. script[c].account \in Accounts
    BY <1>5, AtStatement, RequestForm DEF RevokeStatement, RequestInv
  <2>2. Revoke(script[c].account) \/ UNCHANGED storeVars
    BY <1>5 DEF RevokeStatement, Revoke, Exists, storeVars
  <2> QED
    BY <2>1, <2>2 DEF Covered, Next
<1> QED
  BY <1>1, <1>2, <1>3, <1>4, <1>5 DEF ClaimStatements

\* Every statement is one store method, changes no table, or is a stale grant.
LEMMA D1UsesStore ==
  ASSUME RequestInv, [D1Next]_vars
  PROVE  Covered
<1>1. CASE UNCHANGED vars
  BY <1>1 DEF vars, Covered
<1>2. ASSUME NEW c \in Calls, CallStep(c) \/ Crash(c) PROVE Covered
  BY <1>2, MeteredUses, CreditUses, AuthorizeUses, SettleUses, OthersUse DEF CallStep
<1> QED
  BY <1>1, <1>2 DEF D1Next

-------------------------------------------------------------------------------
(* What lasts *)

\* A stale grant credits an active account, or records its operation against a revoked one.
LEMMA StaleEffects ==
  ASSUME RequestInv, NEW c \in Calls, StaleGrant(c)
  PROVE  \E p \in Purchases :
           /\ usage' = usage /\ seeded' = seeded
           /\ purchase' \in {purchase, [purchase EXCEPT ![p] = "CREDITED"]}
           /\ \/ /\ Active(PurchaseAccount[p]) /\ GrantOperation(p) # NoOperation
                 /\ account' = [account EXCEPT ![PurchaseAccount[p]] = Credited(@, PackCredits[p])]
                 /\ operation' = operation
              \/ account' = account /\ operation' = operation
              \/ /\ account[PurchaseAccount[p]].status = "revoked" /\ GrantOperation(p) = NoOperation
                 /\ account' = account
                 /\ operation' = [operation EXCEPT ![PurchaseAccount[p]][p] = PackOperation(p)]
                 /\ purchase'[p] = "CREDITED"
<1> DEFINE p == script[c].purchase
           a == PurchaseAccount[p]
<1>1. pc[c] \in Statements["settle"]
  BY DEF StaleGrant, GrantBatch, Statements
<1>2. p \in Purchases /\ a \in Accounts
  BY <1>1, AtStatement, RequestForm, PackRow DEF RequestInv, Statements
<1>3. /\ operation' = IF GrantInserts(p) THEN [operation EXCEPT ![a][p] = PackOperation(p)] ELSE operation
      /\ account' = IF GrantCredits(p) THEN [account EXCEPT ![a] = Credited(@, PackCredits[p])] ELSE account
      /\ purchase' = IF GrantMarks(p) THEN [purchase EXCEPT ![p] = "CREDITED"] ELSE purchase
      /\ usage' = usage /\ seeded' = seeded
      /\ account[a].status = "revoked" \/ GrantOperation(p) # NoOperation
  BY DEF StaleGrant, GrantBatch
<1>4. CASE GrantOperation(p) # NoOperation
  <2>1. operation' = operation
    BY <1>3, <1>4 DEF GrantInserts
  <2>2. account' = account \/ (Active(a) /\ account' = [account EXCEPT ![a] = Credited(@, PackCredits[p])])
    BY <1>3 DEF GrantCredits, Active
  <2> QED
    BY <1>2, <1>3, <1>4, <2>1, <2>2
<1>5. CASE GrantOperation(p) = NoOperation
  <2>1. account[a].status = "revoked" /\ account' = account
    BY <1>3, <1>5 DEF GrantCredits
  <2>2. CASE GrantInserts(p)
    <3>1. purchase' = [purchase EXCEPT ![p] = "CREDITED"]
      BY <1>3, <2>2 DEF GrantInserts, GrantMarks, GrantRecorded
    <3>2. purchase'[p] = "CREDITED"
      BY <1>2, <3>1 DEF RequestInv, TypeOK
    <3> QED
      BY <1>2, <1>3, <1>5, <2>1, <2>2, <3>1, <3>2
  <2>3. CASE ~GrantInserts(p)
    BY <1>2, <1>3, <2>1, <2>3
  <2> QED
    BY <2>2, <2>3
<1> QED
  BY <1>4, <1>5

\* What no statement of any request undoes.
Lasting ==
  /\ TypeOK' /\ MarkedInv'
  /\ \A a \in Accounts : Exists(a) => Exists(a)'
  /\ \A a \in Accounts, k \in OperationKeys :
       operation[a][k] # NoOperation => operation'[a][k] = operation[a][k]

\* A stale grant undoes none of it.
LEMMA StaleLasts ==
  ASSUME RequestInv, NEW c \in Calls, StaleGrant(c)
  PROVE  Lasting
<1>1. PICK p \in Purchases :
        /\ usage' = usage /\ seeded' = seeded
        /\ purchase' \in {purchase, [purchase EXCEPT ![p] = "CREDITED"]}
        /\ \/ /\ Active(PurchaseAccount[p]) /\ GrantOperation(p) # NoOperation
              /\ account' = [account EXCEPT ![PurchaseAccount[p]] = Credited(@, PackCredits[p])]
              /\ operation' = operation
           \/ account' = account /\ operation' = operation
           \/ /\ account[PurchaseAccount[p]].status = "revoked" /\ GrantOperation(p) = NoOperation
              /\ account' = account
              /\ operation' = [operation EXCEPT ![PurchaseAccount[p]][p] = PackOperation(p)]
              /\ purchase'[p] = "CREDITED"
  BY StaleEffects
<1> DEFINE a == PurchaseAccount[p]
<1>2. TypeOK
  BY DEF RequestInv
<1>3. a \in Accounts /\ p \in OperationKeys /\ PackOperation(p) \in OperationRows /\ PackCredits[p] \in Nat
  BY PackRow
<1>4. /\ account' \in [Accounts -> [status : {"absent", "active", "revoked"}, provisioned : Nat, remaining : Nat]]
      /\ \A b \in Accounts : Exists(b) => Exists(b)'
  <2>1. account \in [Accounts -> [status : {"absent", "active", "revoked"}, provisioned : Nat, remaining : Nat]]
    BY <1>2 DEF TypeOK
  <2>2. CASE account' = account
    BY <2>1, <2>2 DEF Exists
  <2>3. CASE account' = [account EXCEPT ![a] = Credited(account[a], PackCredits[p])]
    <3>1. /\ Credited(account[a], PackCredits[p])
               \in [status : {"absent", "active", "revoked"}, provisioned : Nat, remaining : Nat]
          /\ Credited(account[a], PackCredits[p]).status = account[a].status
      BY <1>3, <2>1, CreditedRow
    <3> QED
      BY <1>3, <2>1, <2>3, <3>1 DEF Exists
  <2> QED
    BY <1>1, <2>2, <2>3
<1>5. /\ operation' \in [Accounts -> [OperationKeys -> OperationRows \cup {NoOperation}]]
      /\ \A b \in Accounts, k \in OperationKeys :
           operation[b][k] # NoOperation => operation'[b][k] = operation[b][k]
  <2>1. operation \in [Accounts -> [OperationKeys -> OperationRows \cup {NoOperation}]]
    BY <1>2 DEF TypeOK
  <2>2. CASE operation' = operation
    BY <2>1, <2>2
  <2>3. CASE operation' = [operation EXCEPT ![a][p] = PackOperation(p)] /\ operation[a][p] = NoOperation
    BY <1>3, <2>1, <2>3
  <2> QED
    BY <1>1, <2>2, <2>3 DEF GrantOperation
<1>6. /\ purchase' \in [Purchases -> {"none", "AUTHORIZED", "CREDITED"}]
      /\ \A q \in Purchases : purchase[q] = "CREDITED" => purchase'[q] = "CREDITED"
  BY <1>1, <1>2 DEF TypeOK
<1>7. TypeOK'
  BY <1>1, <1>2, <1>4, <1>5, <1>6 DEF TypeOK
<1>8. ASSUME NEW q \in Purchases, GrantOperation(q)' = PackOperation(q) PROVE purchase'[q] = "CREDITED"
  <2>1. PurchaseAccount[q] \in Accounts /\ q \in OperationKeys
    BY PackRow
  <2>2. CASE operation' = operation
    BY <1>6, <1>8, <2>2 DEF GrantOperation, RequestInv, MarkedInv
  <2>3. CASE operation' = [operation EXCEPT ![a][p] = PackOperation(p)] /\ purchase'[p] = "CREDITED"
    <3>1. q # p => GrantOperation(q)' = GrantOperation(q)
      BY <1>2, <1>3, <2>1, <2>3 DEF GrantOperation, TypeOK
    <3> QED
      BY <1>6, <1>8, <2>3, <3>1 DEF RequestInv, MarkedInv
  <2> QED
    BY <1>1, <2>2, <2>3
<1> QED
  BY <1>4, <1>5, <1>7, <1>8 DEF Lasting, MarkedInv, PackOperation

\* No method removes an account.
LEMMA MethodsKeepAccounts ==
  ASSUME TypeOK, Next
  PROVE  \A a \in Accounts : Exists(a) => Exists(a)'
<1>1. ASSUME NEW a \in Accounts, NEW n \in Nat, NEW s \in {"active", "revoked"}, Provision(a, n, s)
      PROVE  \A b \in Accounts : Exists(b) => Exists(b)'
  BY <1>1 DEF Provision, Exists, Credited, TypeOK
<1>2. ASSUME NEW a \in Accounts, NEW n \in Nat, Create(a, n) PROVE \A b \in Accounts : Exists(b) => Exists(b)'
  BY <1>2 DEF Create, Exists, TypeOK
<1>3. ASSUME NEW a \in Accounts, Revoke(a) PROVE \A b \in Accounts : Exists(b) => Exists(b)'
  BY <1>3 DEF Revoke, Exists, TypeOK
<1>4. ASSUME NEW a \in Accounts, NEW k \in RequestKeys, NEW n \in Nat, NEW reference \in References,
             Credit(a, k, n, reference)
      PROVE  \A b \in Accounts : Exists(b) => Exists(b)'
  BY <1>4 DEF Credit, Credited, Exists, TypeOK
<1>5. ASSUME NEW a \in Accounts, NEW k \in RequestKeys, NEW route \in Routes, Reserve(a, k, route)
      PROVE  \A b \in Accounts : Exists(b) => Exists(b)'
  BY <1>5 DEF Reserve, Exists, TypeOK
<1>6. ASSUME NEW a \in Accounts, NEW k \in RequestKeys, NEW outcome \in {"CONSUMED", "RELEASED"},
             SettleUsage(a, k, outcome)
      PROVE  \A b \in Accounts : Exists(b) => Exists(b)'
  BY <1>6 DEF SettleUsage, Exists, TypeOK
<1>7. ASSUME NEW p \in Purchases, AuthorizePurchase(p) PROVE \A b \in Accounts : Exists(b) => Exists(b)'
  BY <1>7 DEF AuthorizePurchase, Exists, TypeOK
<1>8. ASSUME NEW p \in Purchases, SettlePurchase(p) PROVE \A b \in Accounts : Exists(b) => Exists(b)'
  BY <1>8, PackRow DEF SettlePurchase, Credited, Exists, TypeOK
<1> QED
  BY <1>1, <1>2, <1>3, <1>4, <1>5, <1>6, <1>7, <1>8, AmountsAssumption DEF Next

\* A method that records the operation of a purchase marks the purchase.
LEMMA MethodsMark ==
  ASSUME TypeOK, MarkedInv, Next
  PROVE  MarkedInv'
<1>1. RowsKept
  BY StepKeepsRows
<1>2. ASSUME NEW q \in Purchases, GrantOperation(q)' = PackOperation(q) PROVE purchase'[q] = "CREDITED"
  <2>1. PurchaseAccount[q] \in Accounts /\ q \in OperationKeys
    BY PackRow
  <2>2. CASE operation' = operation
    BY <1>1, <1>2, <2>2 DEF GrantOperation, MarkedInv, RowsKept
  <2>3. ASSUME NEW a \in Accounts, NEW k \in RequestKeys, NEW n \in Grants, NEW reference \in References,
               Credit(a, k, n, reference)
        PROVE  purchase'[q] = "CREDITED"
    <3>1. GrantOperation(q)' = GrantOperation(q) \/ GrantOperation(q)' = [credits |-> n, reference |-> reference]
      BY <2>1, <2>3 DEF Credit, GrantOperation, TypeOK
    <3>2. [credits |-> n, reference |-> reference] # PackOperation(q)
      BY DEF PackOperation, References
    <3> QED
      BY <1>1, <1>2, <3>1, <3>2 DEF MarkedInv, RowsKept
  <2>4. ASSUME NEW p \in Purchases, SettlePurchase(p) PROVE purchase'[q] = "CREDITED"
    <3>1. CASE p = q
      BY <2>4, <3>1 DEF SettlePurchase, TypeOK
    <3>2. CASE p # q
      <4>1. GrantOperation(q)' = GrantOperation(q)
        BY <2>1, <2>4, <3>2, PackRow DEF SettlePurchase, GrantOperation, TypeOK
      <4> QED
        BY <1>1, <1>2, <4>1 DEF MarkedInv, RowsKept
    <3> QED
      BY <3>1, <3>2
  <2> QED
    BY <2>2, <2>3, <2>4 DEF Next, Provision, Create, Revoke, Reserve, SettleUsage, AuthorizePurchase
<1> QED
  BY <1>2 DEF MarkedInv, PackOperation

\* Nor does any statement.
LEMMA CoveredLasts ==
  ASSUME RequestInv, Covered
  PROVE  Lasting
<1>1. CASE Next
  <2>1. TypeOK' /\ RowsKept
    BY <1>1, TypesStep, StepKeepsRows DEF RequestInv
  <2>2. MarkedInv' /\ \A a \in Accounts : Exists(a) => Exists(a)'
    BY <1>1, MethodsKeepAccounts, MethodsMark DEF RequestInv
  <2> QED
    BY <2>1, <2>2 DEF Lasting, RowsKept
<1>2. CASE UNCHANGED storeVars
  <2>1. TypeOK'
    BY <1>2, TypesStep DEF RequestInv
  <2>2. MarkedInv'
    BY <1>2 DEF storeVars, RequestInv, MarkedInv, GrantOperation, PackOperation
  <2> QED
    BY <1>2, <2>1, <2>2 DEF Lasting, storeVars, Exists
<1> QED
  BY <1>1, <1>2, StaleLasts DEF Covered

-------------------------------------------------------------------------------
(* Requests keep their place and what they know *)

\* A step of request c that leaves the others alone.
Aside(c) ==
  /\ script' = script
  /\ \A d \in Calls \ {c} : pc'[d] = pc[d] /\ seen'[d] = seen[d] /\ reply'[d] = reply[d]
  /\ claimed \subseteq claimed'

Reached(c) ==
  /\ pc' \in [Calls -> Places] /\ Placed(c)' /\ Knows(c)' /\ ReplyInv'

\* What the other requests know outlasts a step of c.
LEMMA StepKeepsRequests ==
  ASSUME RequestInv, NEW c \in Calls, Lasting, Aside(c), Reached(c)
  PROVE  RequestInv'
<1>1. ASSUME NEW d \in Calls, d # c PROVE Placed(d)' /\ Knows(d)'
  <2>1. pc'[d] = pc[d] /\ script' = script /\ claimed \subseteq claimed' /\ Placed(d) /\ Knows(d)
    BY <1>1 DEF Aside, RequestInv, PcInv, KnownInv
  <2>2. Placed(d)'
    BY <2>1 DEF Placed
  <2>3. CASE pc[d] \in Statements["credit"] \cup Statements["claim"]
    <3>1. script[d].account \in Accounts
      <4>1. script[d] \in Requests /\ script[d].op \in {"credit", "claim"}
        BY <2>1, <2>3, ScriptsAssumption DEF Placed, Statements, RequestInv, PcInv, Requests
      <4> QED
        BY <4>1, RequestForm
    <3> QED
      BY <2>1, <2>2, <2>3, <3>1 DEF Knows, Lasting, Statements
  <2>4. CASE pc[d] \in {"insertPurchase", "readGrant", "grant", "mark"}
    <3>1. script[d].purchase \in Purchases
      <4>1. script[d] \in Requests /\ script[d].op \in {"authorize", "settle"}
        BY <2>1, <2>4, ScriptsAssumption DEF Placed, Statements, RequestInv, PcInv, Requests
      <4> QED
        BY <4>1, RequestForm
    <3>2. /\ PurchaseAccount[script[d].purchase] \in Accounts /\ script[d].purchase \in OperationKeys
          /\ PackOperation(script[d].purchase) # NoOperation
      BY <3>1, PackRow
    <3> QED
      BY <2>1, <2>2, <2>4, <3>1, <3>2 DEF Knows, Lasting, GrantOperation, PackOperation
  <2> QED
    BY <2>1, <2>2, <2>3, <2>4 DEF Knows, Statements
<1>2. script' \in Scripts
  BY DEF Aside, RequestInv, PcInv
<1> QED
  BY <1>1, <1>2 DEF RequestInv, Lasting, PcInv, KnownInv, Reached

\* A statement of c writes the place, the knowledge and the reply of c only.
LEMMA OwnStatement ==
  ASSUME RequestInv, NEW c \in Calls, Lasting, UNCHANGED <<script, claimed>>,
         NEW label \in Places, pc' = [pc EXCEPT ![c] = label],
         reply' = reply \/ \E r \in Replies : reply' = [reply EXCEPT ![c] = r],
         seen' = seen \/ \E s \in {"none", "AUTHORIZED", "CREDITED"} : seen' = [seen EXCEPT ![c] = s]
  PROVE  Aside(c) /\ ReplyInv' /\ pc' \in [Calls -> Places]
<1>1. pc' \in [Calls -> Places] /\ \A d \in Calls \ {c} : pc'[d] = pc[d]
  BY DEF RequestInv, PcInv
<1>2. reply' \in [Calls -> Replies] /\ \A d \in Calls \ {c} : reply'[d] = reply[d]
  <2>1. reply \in [Calls -> Replies]
    BY DEF RequestInv, ReplyInv
  <2> QED
    BY <2>1
<1>3. seen' \in [Calls -> {"none", "AUTHORIZED", "CREDITED"}] /\ \A d \in Calls \ {c} : seen'[d] = seen[d]
  <2>1. seen \in [Calls -> {"none", "AUTHORIZED", "CREDITED"}]
    BY DEF RequestInv, ReplyInv
  <2> QED
    BY <2>1
<1>4. claimed' \subseteq {a \in Accounts : Exists(a)'}
  BY DEF RequestInv, ReplyInv, Lasting
<1> QED
  BY <1>1, <1>2, <1>3, <1>4 DEF Aside, ReplyInv, Replies

\* Every statement leaves its request at a statement of the same method, knowing what that one needs.
LEMMA MeteredReach ==
  ASSUME RequestInv, NEW c \in Calls, Lasting, UNCHANGED script, MeteredStatements(c)
  PROVE  Aside(c) /\ Reached(c)
<1>1. pc[c] \in Statements["metered"] /\ c \in DOMAIN script /\ script[c].op = "metered"
  <2>1. pc[c] \in Statements["metered"]
    BY DEF MeteredStatements, ReadUsage, Debit, ReadBack, Dispatch, SettleStatement, Statements
  <2> QED
    BY <2>1, AtStatement DEF RequestInv, Statements
<1>2. \E label \in {"debit", "dispatch", "readBack", "consume", "release", "done"} : pc' = [pc EXCEPT ![c] = label]
  BY DEF MeteredStatements, ReadUsage, Debit, ReadBack, Dispatch, SettleStatement, Goto, Return
<1>3. \E r \in {"conflict", "granted", "insufficient"} : reply' = reply \/ reply' = [reply EXCEPT ![c] = r]
  BY DEF MeteredStatements, ReadUsage, Debit, ReadBack, Dispatch, SettleStatement, Answer, Return
<1>4. claimed' = claimed /\ seen' = seen
  BY DEF MeteredStatements, ReadUsage, Debit, ReadBack, Dispatch, SettleStatement
<1>5. Aside(c) /\ ReplyInv' /\ pc' \in [Calls -> Places]
  <2>1. PICK label \in {"debit", "dispatch", "readBack", "consume", "release", "done"} : pc' = [pc EXCEPT ![c] = label]
    BY <1>2
  <2>3. label \in Places
    BY DEF Places
  <2>2. reply' = reply \/ \E r \in Replies : reply' = [reply EXCEPT ![c] = r]
    BY <1>3 DEF Replies
  <2> QED
    BY <1>4, <2>1, <2>2, <2>3, OwnStatement
<1>6. Placed(c)' /\ Knows(c)'
  BY <1>1, <1>2 DEF RequestInv, PcInv, Placed, Knows, Statements
<1> QED
  BY <1>5, <1>6 DEF Reached

LEMMA CreditReach ==
  ASSUME RequestInv, NEW c \in Calls, Lasting, UNCHANGED script, CreditStatements(c)
  PROVE  Aside(c) /\ Reached(c)
<1>1. pc[c] \in Statements["credit"] /\ c \in DOMAIN script /\ script[c].op \in {"credit", "claim"}
  <2>1. pc[c] \in Statements["credit"]
    BY DEF CreditStatements, ReadOperation, ReadAccount, CreditBatch, ReadCredit, Statements
  <2> QED
    BY <2>1, AtStatement DEF RequestInv, Statements
<1>2. /\ \E label \in {"readAccount", "credit", "readCredit", "done"} : pc' = [pc EXCEPT ![c] = label]
      /\ pc'[c] = "credit" => account' = account /\ Exists(script[c].account)
  BY DEF CreditStatements, ReadOperation, ReadAccount, CreditBatch, ReadCredit, Goto, Return, Exists, storeVars, RequestInv, PcInv
<1>3. \E r \in {"conflict", "credited", "unavailable"} : reply' = reply \/ reply' = [reply EXCEPT ![c] = r]
  BY DEF CreditStatements, ReadOperation, ReadAccount, CreditBatch, ReadCredit, Answer, Return
<1>4. claimed' = claimed /\ seen' = seen
  BY DEF CreditStatements, ReadOperation, ReadAccount, CreditBatch, ReadCredit
<1>5. Aside(c) /\ ReplyInv' /\ pc' \in [Calls -> Places]
  <2>1. PICK label \in {"readAccount", "credit", "readCredit", "done"} : pc' = [pc EXCEPT ![c] = label]
    BY <1>2
  <2>3. label \in Places
    BY DEF Places
  <2>2. reply' = reply \/ \E r \in Replies : reply' = [reply EXCEPT ![c] = r]
    BY <1>3 DEF Replies
  <2> QED
    BY <1>4, <2>1, <2>2, <2>3, OwnStatement
<1>6. script[c].op = "claim" => script[c].account \in claimed
  BY <1>1 DEF RequestInv, KnownInv, Knows, Statements
<1>7. Placed(c)'
  BY <1>1, <1>2 DEF RequestInv, PcInv, Placed, Statements
<1>8. Knows(c)'
  BY <1>1, <1>2, <1>4, <1>6 DEF RequestInv, PcInv, Knows, Statements, Exists
<1> QED
  BY <1>5, <1>7, <1>8 DEF Reached

LEMMA AuthorizeReach ==
  ASSUME RequestInv, NEW c \in Calls, Lasting, UNCHANGED script, AuthorizeStatements(c)
  PROVE  Aside(c) /\ Reached(c)
<1>1. pc[c] \in Statements["authorize"] /\ c \in DOMAIN script /\ script[c].op = "authorize"
  <2>1. pc[c] \in Statements["authorize"]
    BY DEF AuthorizeStatements, ReadPurchase, ReadBuyer, InsertPurchase, Statements
  <2> QED
    BY <2>1, AtStatement DEF RequestInv, Statements
<1>2. /\ \E label \in {"readBuyer", "insertPurchase", "done"} : pc' = [pc EXCEPT ![c] = label]
      /\ pc'[c] = "insertPurchase" => account' = account /\ Exists(PurchaseAccount[script[c].purchase])
  BY DEF AuthorizeStatements, ReadPurchase, ReadBuyer, InsertPurchase, Goto, Return, Exists, storeVars, RequestInv, PcInv
<1>3. \E r \in {"authorized", "unavailable"} : reply' = reply \/ reply' = [reply EXCEPT ![c] = r]
  BY DEF AuthorizeStatements, ReadPurchase, ReadBuyer, InsertPurchase, Answer, Return
<1>4. claimed' = claimed /\ seen' = seen
  BY DEF AuthorizeStatements, ReadPurchase, ReadBuyer, InsertPurchase
<1>5. Aside(c) /\ ReplyInv' /\ pc' \in [Calls -> Places]
  <2>1. PICK label \in {"readBuyer", "insertPurchase", "done"} : pc' = [pc EXCEPT ![c] = label]
    BY <1>2
  <2>3. label \in Places
    BY DEF Places
  <2>2. reply' = reply \/ \E r \in Replies : reply' = [reply EXCEPT ![c] = r]
    BY <1>3 DEF Replies
  <2> QED
    BY <1>4, <2>1, <2>2, <2>3, OwnStatement
<1>6. Placed(c)'
  BY <1>1, <1>2 DEF RequestInv, PcInv, Placed, Statements
<1>7. Knows(c)'
  BY <1>1, <1>2 DEF RequestInv, PcInv, Knows, Statements, Exists
<1> QED
  BY <1>5, <1>6, <1>7 DEF Reached

LEMMA SettleReach ==
  ASSUME RequestInv, NEW c \in Calls, Lasting, UNCHANGED script, SettleStatements(c)
  PROVE  Aside(c) /\ Reached(c)
<1> DEFINE p == script[c].purchase
<1>1. pc[c] \in Statements["settle"] /\ c \in DOMAIN script /\ script[c].op = "settle" /\ p \in Purchases
  <2>1. pc[c] \in Statements["settle"]
    BY DEF SettleStatements, ReadAuthorized, ReadActive, ReadGrant, MarkCredited, GrantBatch, ReadSettled, Statements
  <2> QED
    BY <2>1, AtStatement, RequestForm DEF RequestInv, Statements
<1>2. /\ \E label \in {"readActive", "readGrant", "mark", "grant", "readSettled", "done"} :
           pc' = [pc EXCEPT ![c] = label]
      /\ pc'[c] = "readGrant" => account' = account /\ Active(PurchaseAccount[p])
      /\ pc'[c] = "grant" => account' = account /\ pc[c] = "readGrant"
      /\ pc'[c] = "mark" => operation' = operation /\ GrantOperation(p) = PackOperation(p)
  BY DEF SettleStatements, ReadAuthorized, ReadActive, ReadGrant, MarkCredited, GrantBatch, ReadSettled,
         Goto, Return, Active, GrantOperation, storeVars, RequestInv, PcInv
<1>3. \E r \in {"conflict", "settled", "unavailable"} : reply' = reply \/ reply' = [reply EXCEPT ![c] = r]
  BY DEF SettleStatements, ReadAuthorized, ReadActive, ReadGrant, MarkCredited, GrantBatch, ReadSettled,
         Answer, Return
<1>4. claimed' = claimed /\ (seen' = seen \/ seen' = [seen EXCEPT ![c] = purchase[p]])
  BY DEF SettleStatements, ReadAuthorized, ReadActive, ReadGrant, MarkCredited, GrantBatch, ReadSettled
<1>5. purchase[p] \in {"none", "AUTHORIZED", "CREDITED"}
  BY <1>1 DEF RequestInv, TypeOK
<1>6. Aside(c) /\ ReplyInv' /\ pc' \in [Calls -> Places]
  <2>1. PICK label \in {"readActive", "readGrant", "mark", "grant", "readSettled", "done"} : pc' = [pc EXCEPT ![c] = label]
    BY <1>2
  <2>3. label \in Places
    BY DEF Places
  <2>2. reply' = reply \/ \E r \in Replies : reply' = [reply EXCEPT ![c] = r]
    BY <1>3 DEF Replies
  <2> QED
    <3>1. seen' = seen \/ \E s \in {"none", "AUTHORIZED", "CREDITED"} : seen' = [seen EXCEPT ![c] = s]
      BY <1>4, <1>5
    <3> QED
      BY <1>4, <2>1, <2>2, <2>3, <3>1, OwnStatement
<1>7. Placed(c)'
  BY <1>1, <1>2 DEF RequestInv, PcInv, Placed, Statements
<1>8. Exists(PurchaseAccount[p]) \/ pc[c] # "readGrant"
  BY DEF RequestInv, KnownInv, Knows
<1>9. Knows(c)'
  BY <1>1, <1>2, <1>8 DEF RequestInv, PcInv, Knows, Statements, Exists, Active, GrantOperation, PackOperation
<1> QED
  BY <1>6, <1>7, <1>9 DEF Reached

LEMMA ClaimReach ==
  ASSUME RequestInv, NEW c \in Calls, Lasting, UNCHANGED script, ClaimStatements(c)
  PROVE  Aside(c) /\ Reached(c)
<1> DEFINE a == script[c].account
<1>1. /\ pc[c] \in {"readClaimant", "insertClaimant", "findCredential", "readState"}
      /\ c \in DOMAIN script /\ script[c].op = "claim" /\ a \in Accounts
  <2>1. pc[c] \in {"readClaimant", "insertClaimant", "findCredential", "readState"}
    BY DEF ClaimStatements, ReadClaimant, InsertClaimant, FindCredential, ReadClaimantState
  <2> QED
    BY <2>1, AtStatement, RequestForm DEF RequestInv
<1>2. PICK label \in {"insertClaimant", "findCredential", "readState", "readOperation", "done"} :
        pc' = [pc EXCEPT ![c] = label]
  BY DEF ClaimStatements, ReadClaimant, InsertClaimant, FindCredential, ReadClaimantState, Goto, Return
<1>3. \E r \in {"conflict", "unavailable"} : reply' = reply \/ reply' = [reply EXCEPT ![c] = r]
  BY DEF ClaimStatements, ReadClaimant, InsertClaimant, FindCredential, ReadClaimantState, Answer, Return
<1>4. /\ seen' = seen
      /\ claimed' = claimed \/ (claimed' = claimed \cup {a} /\ Exists(a)')
  <2>1. CASE InsertClaimant(c) /\ account[a].status = "absent"
    <3>1. account' = [account EXCEPT ![a] = NewAccount(0, "active")] /\ claimed' = claimed \cup {a} /\ seen' = seen
      BY <2>1 DEF InsertClaimant, Inserts
    <3>2. account'[a].status = "active"
      BY <1>1, <3>1 DEF NewAccount, RequestInv, TypeOK
    <3> QED
      BY <3>1, <3>2 DEF Exists
  <2> QED
    BY <2>1 DEF ClaimStatements, ReadClaimant, InsertClaimant, FindCredential, ReadClaimantState
<1>5. ReplyInv' /\ Aside(c) /\ pc' \in [Calls -> Places]
  <2>1. pc' \in [Calls -> Places] /\ \A d \in Calls \ {c} : pc'[d] = pc[d]
    BY <1>2 DEF RequestInv, PcInv, Places
  <2>2. reply' \in [Calls -> Replies] /\ \A d \in Calls \ {c} : reply'[d] = reply[d]
    <3>1. reply \in [Calls -> Replies]
      BY DEF RequestInv, ReplyInv
    <3> QED
      BY <1>3, <3>1 DEF Replies
  <2>3. claimed' \subseteq {b \in Accounts : Exists(b)'}
    BY <1>1, <1>4 DEF RequestInv, ReplyInv, Lasting
  <2> QED
    BY <1>4, <2>1, <2>2, <2>3 DEF Aside, ReplyInv, RequestInv
<1>6. pc'[c] = label
  BY <1>2 DEF RequestInv, PcInv
<1>7. Placed(c)'
  BY <1>1, <1>2, <1>6 DEF Placed, Statements
<1>8. label \in {"readState", "readOperation"} => a \in claimed'
  <2>1. CASE label = "readOperation"
    <3>1. pc[c] = "readState" /\ claimed' = claimed
      BY <1>6, <2>1 DEF ClaimStatements, ReadClaimant, InsertClaimant, FindCredential, ReadClaimantState, Goto, Return,
                        RequestInv, PcInv
    <3> QED
      BY <1>1, <3>1 DEF RequestInv, KnownInv, Knows
  <2>2. CASE label = "readState"
    BY <1>6, <2>2 DEF ClaimStatements, ReadClaimant, InsertClaimant, FindCredential, ReadClaimantState, Goto, Return,
                      HasCredential, RequestInv, PcInv
  <2> QED
    BY <2>1, <2>2
<1>9. Knows(c)'
  BY <1>1, <1>6, <1>8 DEF Knows, Aside
<1> QED
  BY <1>5, <1>7, <1>9 DEF Reached

\* A single-statement method returns, and a Worker that is stopped does nothing more.
LEMMA OthersReach ==
  ASSUME RequestInv, NEW c \in Calls, Lasting, UNCHANGED script,
         Upsert(c) \/ InsertStatement(c) \/ RevokeStatement(c) \/ Crash(c)
  PROVE  Aside(c) /\ Reached(c)
<1>1. c \in DOMAIN script
  BY AtStatement DEF Upsert, InsertStatement, RevokeStatement, Crash, RequestInv
<1>2. PICK label \in {"done", "crashed"} : pc' = [pc EXCEPT ![c] = label]
  BY DEF Upsert, InsertStatement, RevokeStatement, Crash, Goto, Return
<1>3. \E r \in {"ok", "conflict"} : reply' = reply \/ reply' = [reply EXCEPT ![c] = r]
  BY DEF Upsert, InsertStatement, RevokeStatement, Crash, Answer, Return
<1>4. claimed' = claimed /\ seen' = seen
  BY DEF Upsert, InsertStatement, RevokeStatement, Crash
<1>5. Aside(c) /\ ReplyInv' /\ pc' \in [Calls -> Places]
  <2>1. label \in Places
    BY DEF Places
  <2>2. reply' = reply \/ \E r \in Replies : reply' = [reply EXCEPT ![c] = r]
    BY <1>3 DEF Replies
  <2> QED
    BY <1>2, <1>4, <2>1, <2>2, OwnStatement
<1>6. pc'[c] \in {"done", "crashed"}
  BY <1>2 DEF RequestInv, PcInv
<1>7. Placed(c)' /\ Knows(c)'
  BY <1>1, <1>6 DEF Placed, Knows
<1> QED
  BY <1>5, <1>7 DEF Reached

\* So does a step of any request.
LEMMA StepReaches ==
  ASSUME RequestInv, NEW c \in Calls, CallStep(c) \/ Crash(c), UNCHANGED script
  PROVE  Lasting /\ Aside(c) /\ Reached(c)
<1>1. Lasting
  BY D1UsesStore, CoveredLasts DEF D1Next
<1> QED
  BY <1>1, MeteredReach, CreditReach, AuthorizeReach, SettleReach, ClaimReach, OthersReach DEF CallStep

\* The requests and what they rest on are kept by every step, and hold at the start.
LEMMA RequestStep == RequestInv /\ [D1Next]_vars => RequestInv'
<1> SUFFICES ASSUME RequestInv, [D1Next]_vars PROVE RequestInv'
  OBVIOUS
<1>1. Lasting
  BY D1UsesStore, CoveredLasts
<1>2. CASE UNCHANGED vars
  <2>1. TypeOK' /\ MarkedInv'
    BY <1>1 DEF Lasting
  <2>2. PcInv' /\ KnownInv' /\ ReplyInv'
    BY <1>2 DEF vars, storeVars, RequestInv, PcInv, Placed, KnownInv, Knows, ReplyInv, Exists, GrantOperation,
                PackOperation
  <2> QED
    BY <2>1, <2>2 DEF RequestInv
<1>3. ASSUME NEW c \in Calls, CallStep(c) \/ Crash(c), UNCHANGED script PROVE RequestInv'
  BY <1>3, StepReaches, StepKeepsRequests
<1> QED
  BY <1>2, <1>3 DEF D1Next

LEMMA RequestsInit == D1Init => RequestInv
<1> SUFFICES ASSUME D1Init PROVE RequestInv
  OBVIOUS
<1>1. TypeOK
  BY TypesInit DEF D1Init
<1>2. ASSUME NEW p \in Purchases PROVE GrantOperation(p) # PackOperation(p)
  BY <1>2, PackRow DEF D1Init, Init, GrantOperation
<1>3. ASSUME NEW c \in Calls
      PROVE  /\ pc[c] \in Places /\ Placed(c) /\ Knows(c)
  <2>1. pc[c] = IF c \in DOMAIN script THEN FirstStatement[script[c].op] ELSE "done"
    BY DEF D1Init
  <2>2. CASE c \in DOMAIN script
    <3>1. script[c].op \in {"metered", "credit", "claim", "authorize", "settle", "provision", "create", "revoke"}
      BY <2>2, ScriptsAssumption, RequestForm DEF D1Init
    <3> QED
      BY <2>1, <2>2, <3>1 DEF FirstStatement, Placed, Knows, Statements, Places
  <2>3. CASE c \notin DOMAIN script
    BY <2>1, <2>3 DEF Placed, Knows, Places
  <2> QED
    BY <2>2, <2>3
<1>4. pc \in [Calls -> Places]
  BY <1>3 DEF D1Init
<1> QED
  BY <1>1, <1>2, <1>3, <1>4 DEF RequestInv, PcInv, KnownInv, MarkedInv, ReplyInv, Replies, D1Init

\* Every request is at a statement of its method, and what it has read outlasts its awaits.
THEOREM RequestsHold == D1Spec => []RequestInv
BY RequestsInit, RequestStep, PTL DEF D1Spec

\* The tables and the bookkeeping of every request are well formed.
THEOREM D1TypeCorrect == D1Spec => []D1TypeOK
<1>1. RequestInv => D1TypeOK
  BY DEF RequestInv, PcInv, ReplyInv, D1TypeOK, Exists
<1> QED
  BY <1>1, RequestsHold, PTL

\* The statements of concurrent, stopped and repeated requests implement the
\* indivisible methods, except for grant batches that act on a stale read.
THEOREM D1ImplementsStore == D1Spec => ImplementsStore
<1>1. RequestInv /\ [D1Next]_vars => [Next \/ \E c \in Calls : StaleGrant(c)]_storeVars
  BY D1UsesStore DEF Covered
<1>2. D1Init => Init
  BY DEF D1Init
<1> QED
  BY <1>1, <1>2, RequestsHold, PTL DEF D1Spec, ImplementsStore

-------------------------------------------------------------------------------
(* Reservations are held by a request *)

\* Only the statements of metered requests write usage rows, and what they do to one row.
LEMMA UsageWritten ==
  ASSUME RequestInv, NEW c \in Calls, CallStep(c) \/ Crash(c), UNCHANGED script,
         NEW a \in Accounts, NEW k \in RequestKeys, usage'[a][k].state = "RESERVED"
  PROVE  /\ usage[a][k].state # "RESERVED" => c \in Callers(a, k) /\ InFlight(c)'
         /\ usage[a][k].state = "RESERVED" /\ c \in Callers(a, k) /\ (InFlight(c) \/ pc[c] = "crashed")
              => InFlight(c)' \/ pc'[c] = "crashed"
<1>0. usage'[a][k].state = "RESERVED"
  OBVIOUS
<1>1. CASE MeteredStatements(c)
  <2>1. pc[c] \in Statements["metered"]
    BY <1>1 DEF MeteredStatements, ReadUsage, Debit, ReadBack, Dispatch, SettleStatement, Statements
  <2>2. /\ c \in DOMAIN script /\ script[c].op = "metered"
        /\ script[c].account \in Accounts /\ script[c].key \in RequestKeys
    BY <2>1, AtStatement, RequestForm DEF RequestInv, Statements
  <2>3. usage[a] \in [RequestKeys -> UsageRows \cup {NoUsage}] /\ usage \in [Accounts -> [RequestKeys -> UsageRows \cup {NoUsage}]]
    BY DEF RequestInv, TypeOK
  <2>4. pc \in [Calls -> Places]
    BY DEF RequestInv, PcInv
  <2>5. CASE ReadUsage(c) \/ Dispatch(c)
    BY <2>4, <2>5 DEF ReadUsage, Dispatch, InFlight, Goto, Return, storeVars
  <2>6. CASE Debit(c)
    <3>1. pc'[c] = "readBack"
      BY <2>4, <2>6 DEF Debit, Goto
    <3> DEFINE row == [state |-> "RESERVED", route |-> script[c].route]
    <3>2. usage' = usage \/ usage' = [usage EXCEPT ![script[c].account][script[c].key] = row]
      BY <2>6 DEF Debit
    <3>3. usage[a][k].state # "RESERVED" => script[c].account = a /\ script[c].key = k
      <4>1. SUFFICES ASSUME usage[a][k].state # "RESERVED", script[c].account # a \/ script[c].key # k
                     PROVE  usage'[a][k] = usage[a][k]
        BY <1>0
      <4> HIDE DEF row
      <4> QED
        BY <2>2, <2>3, <3>2, <4>1
    <3> QED
      BY <2>2, <3>1, <3>3 DEF InFlight, Callers
  <2>7. CASE ReadBack(c)
    BY <2>4, <2>7 DEF ReadBack, InFlight, Goto, Return, Callers, storeVars, NoUsage
  <2>8. CASE SettleStatement(c)
    <3> DEFINE b == script[c].account
               j == script[c].key
               row == [usage[b][j] EXCEPT !.state = IF pc[c] = "consume" THEN "CONSUMED" ELSE "RELEASED"]
    <3>1. CASE usage[b][j].state # "RESERVED"
      BY <1>0, <2>8, <3>1 DEF SettleStatement, Callers
    <3>2. CASE usage[b][j].state = "RESERVED"
      <4>1. usage' = [usage EXCEPT ![b][j] = row]
        BY <2>8, <3>2 DEF SettleStatement
      <4>2. row.state # "RESERVED"
        <5>1. usage[b][j] \in UsageRows
          BY <2>2, <2>3, <3>2 DEF NoUsage
        <5> QED
          BY <5>1 DEF UsageRows
      <4>3. b # a \/ j # k
        <5> HIDE DEF row
        <5> QED
          BY <1>0, <2>2, <2>3, <4>1, <4>2
      <4>4. usage'[a][k] = usage[a][k]
        <5> HIDE DEF row
        <5> QED
          BY <2>2, <2>3, <4>1, <4>3
      <4> QED
        BY <1>0, <4>3, <4>4 DEF Callers
    <3> QED
      BY <3>1, <3>2
  <2> QED
    BY <1>1, <2>5, <2>6, <2>7, <2>8 DEF MeteredStatements
<1>2. CASE Crash(c)
  BY <1>2 DEF Crash, Goto, storeVars, RequestInv, PcInv
<1>3. CASE ~MeteredStatements(c) /\ ~Crash(c)
  <2>1. usage' = usage /\ ~InFlight(c) /\ pc[c] # "crashed"
    BY <1>3 DEF CallStep, CreditStatements, AuthorizeStatements, SettleStatements, ClaimStatements,
                ReadOperation, ReadAccount, CreditBatch, ReadCredit, ReadPurchase, ReadBuyer, InsertPurchase,
                ReadAuthorized, ReadActive, ReadGrant, MarkCredited, GrantBatch, ReadSettled,
                ReadClaimant, InsertClaimant, FindCredential, ReadClaimantState,
                Upsert, Provision, InsertStatement, RevokeStatement, InFlight, storeVars
  <2> QED
    BY <2>1
<1> QED
  BY <1>1, <1>2, <1>3

\* Whoever holds a reservation holds it on, or stops.
LEMMA HeldStep == RequestInv /\ HeldByLiveCall /\ [D1Next]_vars => HeldByLiveCall'
<1> SUFFICES ASSUME RequestInv, HeldByLiveCall, [D1Next]_vars PROVE HeldByLiveCall'
  OBVIOUS
<1>1. CASE UNCHANGED vars
  BY <1>1 DEF vars, storeVars, HeldByLiveCall, Callers, InFlight
<1>2. ASSUME NEW c \in Calls, CallStep(c) \/ Crash(c), UNCHANGED script,
             NEW a \in Accounts, NEW k \in RequestKeys, usage'[a][k].state = "RESERVED"
      PROVE  \E d \in Callers(a, k)' : InFlight(d)' \/ pc'[d] = "crashed"
  <2>1. Callers(a, k)' = Callers(a, k)
    BY <1>2 DEF Callers
  <2>2. CASE usage[a][k].state # "RESERVED"
    BY <1>2, <2>1, <2>2, UsageWritten
  <2>3. CASE usage[a][k].state = "RESERVED"
    <3>1. PICK d \in Callers(a, k) : InFlight(d) \/ pc[d] = "crashed"
      BY <2>3 DEF HeldByLiveCall
    <3>2. d \in Calls
      BY ScriptsAssumption DEF Callers, RequestInv, PcInv
    <3>3. CASE d = c
      BY <1>2, <2>1, <2>3, <3>1, <3>3, UsageWritten
    <3>4. CASE d # c
      <4>1. pc'[d] = pc[d]
        BY <1>2, <3>2, <3>4, StepReaches DEF Aside
      <4> QED
        BY <2>1, <3>1, <4>1 DEF InFlight
    <3> QED
      BY <3>3, <3>4
  <2> QED
    BY <2>2, <2>3
<1>3. CASE D1Next
  BY <1>2, <1>3 DEF D1Next, HeldByLiveCall
<1> QED
  BY <1>1, <1>3

\* Credits stay reserved only for a request that is running or was stopped.
THEOREM ReservationsHeld == D1Spec => []HeldByLiveCall
<1>1. D1Init => HeldByLiveCall
  BY DEF D1Init, Init, HeldByLiveCall, NoUsage
<1>2. RequestInv /\ HeldByLiveCall /\ [D1Next]_vars => HeldByLiveCall'
  BY HeldStep
<1> QED
  BY <1>1, <1>2, RequestsHold, PTL DEF D1Spec

-------------------------------------------------------------------------------
(* Claims *)

\* Who is told that a claim is credited has read its own row, in an account it claimed.
LEMMA CreditedReply ==
  ASSUME RequestInv, NEW c \in Calls, CallStep(c) \/ Crash(c), UNCHANGED script,
         c \in DOMAIN script, script[c].op = "claim", reply'[c] = "credited", reply[c] # "credited"
  PROVE  /\ script[c].account \in claimed
         /\ SameOperation(operation[script[c].account][script[c].key], script[c])
<1>1. CASE CreditStatements(c)
  <2>1. reply \in [Calls -> Replies]
    BY DEF RequestInv, ReplyInv
  <2>2. /\ pc[c] \in {"readOperation", "readCredit"}
        /\ SameOperation(operation[script[c].account][script[c].key], script[c])
    BY <1>1, <2>1 DEF CreditStatements, ReadOperation, ReadAccount, CreditBatch, ReadCredit, Return, Answer
  <2> QED
    BY <2>2 DEF RequestInv, KnownInv, Knows
<1>2. CASE ~CreditStatements(c)
  <2> DEFINE Other == \E r \in Replies \ {"credited"} : reply' = reply \/ reply' = [reply EXCEPT ![c] = r]
  <2>1. MeteredStatements(c) \/ AuthorizeStatements(c) => Other
    BY DEF MeteredStatements, AuthorizeStatements, ReadUsage, Debit, ReadBack, Dispatch, SettleStatement,
                ReadPurchase, ReadBuyer, InsertPurchase, Return, Answer, Replies
  <2>2. SettleStatements(c) => Other
    BY DEF SettleStatements, ReadAuthorized, ReadActive, ReadGrant, MarkCredited, GrantBatch, ReadSettled,
                Return, Answer, Replies
  <2>3. ClaimStatements(c) \/ Upsert(c) \/ InsertStatement(c) \/ RevokeStatement(c) \/ Crash(c) => Other
    BY DEF ClaimStatements, ReadClaimant, InsertClaimant, FindCredential, ReadClaimantState,
                Upsert, InsertStatement, RevokeStatement, Crash, Return, Answer, Replies
  <2>4. Other
    BY <1>2, <2>1, <2>2, <2>3 DEF CallStep
  <2> QED
    BY <2>4 DEF RequestInv, ReplyInv
<1> QED
  BY <1>1, <1>2

\* What a credited claim was told stays true.
LEMMA ClaimsStep == RequestInv /\ ClaimsAreCredited /\ [D1Next]_vars => ClaimsAreCredited'
<1> SUFFICES ASSUME RequestInv, ClaimsAreCredited, [D1Next]_vars PROVE ClaimsAreCredited'
  OBVIOUS
<1>1. CASE UNCHANGED vars
  BY <1>1 DEF vars, storeVars, ClaimsAreCredited
<1>2. ASSUME NEW c \in Calls, CallStep(c) \/ Crash(c), UNCHANGED script,
             NEW d \in DOMAIN script, script[d].op = "claim", reply'[d] = "credited"
      PROVE  /\ script[d].account \in claimed'
             /\ operation'[script[d].account][script[d].key]
                  = [credits |-> script[d].credits, reference |-> script[d].reference]
  <2> DEFINE row == [credits |-> script[d].credits, reference |-> script[d].reference]
  <2>1. d \in Calls /\ script[d] \in Requests
    BY ScriptsAssumption DEF RequestInv, PcInv
  <2>2. /\ script[d].account \in Accounts /\ script[d].key \in OperationKeys /\ script[d].credits \in Grants
    BY <1>2, <2>1, RequestForm DEF OperationKeys
  <2>3. script[d].account \in claimed /\ operation[script[d].account][script[d].key] = row
    <3>1. CASE reply[d] = "credited"
      BY <1>2, <3>1 DEF ClaimsAreCredited
    <3>2. CASE reply[d] # "credited"
      <4>1. d = c
        BY <1>2, <2>1, <3>2, StepReaches DEF Aside
      <4> QED
        BY <1>2, <3>2, <4>1, CreditedReply DEF SameOperation
    <3> QED
      BY <3>1, <3>2
  <2>4. row # NoOperation
    BY <2>2, AmountsAssumption DEF NoOperation
  <2> QED
    BY <1>2, <2>2, <2>3, <2>4, StepReaches DEF Lasting, Aside
<1>3. CASE D1Next
  BY <1>2, <1>3 DEF D1Next, ClaimsAreCredited
<1> QED
  BY <1>1, <1>3

\* Who is told that a claim is credited has its transfer on record in its own account.
THEOREM ClaimsCredited == D1Spec => []ClaimsAreCredited
<1>1. D1Init => ClaimsAreCredited
  <2> SUFFICES ASSUME D1Init PROVE ClaimsAreCredited
    OBVIOUS
  <2>1. \A c \in Calls : reply[c] = "none"
    BY DEF D1Init
  <2>2. DOMAIN script \subseteq Calls
    BY ScriptsAssumption DEF D1Init
  <2> QED
    BY <2>1, <2>2 DEF ClaimsAreCredited
<1>2. RequestInv /\ ClaimsAreCredited /\ [D1Next]_vars => ClaimsAreCredited'
  BY ClaimsStep
<1> QED
  BY <1>1, <1>2, RequestsHold, PTL DEF D1Spec

-------------------------------------------------------------------------------
(* Credits *)

\* The balance of an account is sound, and no grant is missing unless it is forfeited.
Granted(a) == ~Forfeits(a) => account[a].provisioned >= seeded[a] + OperationTotal(a)
GrantsInv == RequestInv /\ \A a \in Accounts : Sound(a) /\ Granted(a)

\* A method provisions what it grants, and forfeits nothing back.
LEMMA MethodGrants ==
  ASSUME GrantsInv, [Next]_storeVars
  PROVE  \A a \in Accounts : Sound(a)' /\ Granted(a)'
<1>1. TypeOK /\ LedgerOK
  BY DEF GrantsInv, RequestInv, LedgerOK
<1>2. LedgerKept
  BY <1>1, MethodLedger
<1>3. ASSUME NEW a \in Accounts, ~Forfeits(a)' PROVE ~Forfeits(a)
  <2>1. CASE Next
    BY <1>1, <1>3, <2>1, StepKeepsRows DEF RowsKept, Forfeits
  <2>2. CASE UNCHANGED storeVars
    BY <1>3, <2>2 DEF storeVars, Forfeits
  <2> QED
    BY <2>1, <2>2
<1>4. ASSUME NEW a \in Accounts, ~Forfeits(a)' PROVE account'[a].provisioned >= seeded'[a] + OperationTotal(a)'
  <2>1. /\ account[a].provisioned \in Nat /\ account'[a].provisioned \in Nat
        /\ seeded[a] + OperationTotal(a) \in Nat /\ seeded'[a] + OperationTotal(a)' \in Nat
    BY <1>1, <1>2, GrantsTyped, TotalsTyped DEF LedgerKept, LedgerOK, TypeOK
  <2>2. account[a].provisioned >= seeded[a] + OperationTotal(a)
    BY <1>3, <1>4 DEF GrantsInv, Granted
  <2>3. account'[a].provisioned + (seeded[a] + OperationTotal(a))
          = account[a].provisioned + (seeded'[a] + OperationTotal(a)')
    BY <1>2 DEF LedgerKept, GrantedIsProvisioned
  <2> QED
    BY <2>1, <2>2, <2>3
<1> QED
  BY <1>2, <1>4 DEF LedgerKept, LedgerOK, Granted

\* A stale grant credits an account once more than its operations say, or records the
\* operation of a purchase of a revoked account, which is forfeited.
LEMMA StaleGrants ==
  ASSUME GrantsInv, NEW c \in Calls, StaleGrant(c)
  PROVE  \A a \in Accounts : Sound(a)' /\ Granted(a)'
<1>1. PICK p \in Purchases :
        /\ usage' = usage /\ seeded' = seeded
        /\ purchase' \in {purchase, [purchase EXCEPT ![p] = "CREDITED"]}
        /\ \/ /\ Active(PurchaseAccount[p]) /\ GrantOperation(p) # NoOperation
              /\ account' = [account EXCEPT ![PurchaseAccount[p]] = Credited(@, PackCredits[p])]
              /\ operation' = operation
           \/ account' = account /\ operation' = operation
           \/ /\ account[PurchaseAccount[p]].status = "revoked" /\ GrantOperation(p) = NoOperation
              /\ account' = account
              /\ operation' = [operation EXCEPT ![PurchaseAccount[p]][p] = PackOperation(p)]
              /\ purchase'[p] = "CREDITED"
  BY StaleEffects DEF GrantsInv
<1> DEFINE b == PurchaseAccount[p]
           n == PackCredits[p]
<1>2. TypeOK /\ b \in Accounts /\ n \in Nat
  BY PackRow DEF GrantsInv, RequestInv
<1>3. \A q \in Purchases : purchase[q] = "CREDITED" => purchase'[q] = "CREDITED"
  BY <1>1, <1>2 DEF TypeOK
<1>4. ASSUME NEW a \in Accounts,
             account'[a] = account[a] \/ (Exists(a) /\ account'[a] = Credited(account[a], n)),
             operation'[a] = operation[a]
      PROVE  Sound(a)' /\ Granted(a)'
  <2>1. /\ account[a] \in [status : {"absent", "active", "revoked"}, provisioned : Nat, remaining : Nat]
        /\ seeded[a] \in Nat
    BY <1>2 DEF TypeOK
  <2>2. PICK m \in {0, n} : /\ account'[a].status = account[a].status
                            /\ account'[a].provisioned = account[a].provisioned + m
                            /\ account'[a].remaining = account[a].remaining + m
                            /\ m = 0 \/ Exists(a)
    <3>1. CASE account'[a] = account[a]
      <4>1. /\ account[a].provisioned = account[a].provisioned + 0
            /\ account[a].remaining = account[a].remaining + 0
        BY <2>1
      <4> QED
        BY <3>1, <4>1
    <3>2. CASE Exists(a) /\ account'[a] = Credited(account[a], n)
      <4>1. /\ Credited(account[a], n).status = account[a].status
            /\ Credited(account[a], n).provisioned = account[a].provisioned + n
            /\ Credited(account[a], n).remaining = account[a].remaining + n
        BY DEF Credited
      <4> HIDE DEF n
      <4> QED
        BY <3>2, <4>1
    <3> QED
      BY <1>4, <3>1, <3>2
  <2>3. ChargedTotal(a)' = ChargedTotal(a) /\ OperationTotal(a)' = OperationTotal(a)
    BY <1>1, <1>4, TotalsKept
  <2>4. ChargedTotal(a) \in Nat /\ OperationTotal(a) \in Nat
    BY <1>2, TotalsTyped
  <2>5. account[a].provisioned = account[a].remaining + ChargedTotal(a)
    BY DEF GrantsInv, Sound, Balanced
  <2>6. Balanced(a)'
    <3>1. account'[a].provisioned = account'[a].remaining + ChargedTotal(a)
      BY <1>2, <2>1, <2>2, <2>4, <2>5
    <3> QED
      BY <2>3, <3>1 DEF Balanced
  <2>7. AbsentIsEmpty(a)'
    <3>1. SUFFICES ASSUME account'[a].status = "absent" PROVE account'[a].provisioned = 0
      BY DEF AbsentIsEmpty
    <3>2. m = 0 /\ account[a].provisioned = 0
      BY <2>2, <3>1 DEF Exists, GrantsInv, Sound, AbsentIsEmpty
    <3> QED
      BY <2>2, <3>2
  <2>8. ASSUME ~Forfeits(a)' PROVE account'[a].provisioned >= seeded'[a] + OperationTotal(a)'
    <3>1. ~Forfeits(a)
      BY <1>3, <2>2, <2>8 DEF Forfeits
    <3>2. account[a].provisioned >= seeded[a] + OperationTotal(a)
      BY <3>1 DEF GrantsInv, Granted
    <3>3. account[a].provisioned + m >= seeded[a] + OperationTotal(a)
      BY <1>2, <2>1, <2>4, <3>2
    <3> QED
      BY <1>1, <2>2, <2>3, <3>3
  <2> QED
    BY <2>6, <2>7, <2>8 DEF Sound, Granted
<1>5. CASE operation' = operation
  <2>1. \A a \in Accounts : account'[a] = account[a] \/ (Exists(a) /\ account'[a] = Credited(account[a], n))
    <3>1. CASE account' = account
      BY <3>1
    <3>2. CASE Active(b) /\ account' = [account EXCEPT ![b] = Credited(@, n)]
      BY <1>2, <3>2 DEF TypeOK, Active, Exists
    <3> QED
      BY <1>1, <3>1, <3>2
  <2> QED
    BY <1>4, <1>5, <2>1
<1>6. CASE /\ account[b].status = "revoked" /\ account' = account
           /\ operation' = [operation EXCEPT ![b][p] = PackOperation(p)] /\ purchase'[p] = "CREDITED"
  <2>1. \A a \in Accounts \ {b} : Sound(a)' /\ Granted(a)'
    <3>1. \A a \in Accounts \ {b} : operation'[a] = operation[a]
      BY <1>2, <1>6 DEF TypeOK
    <3> QED
      BY <1>4, <1>6, <3>1
  <2>2. Granted(b)'
    BY <1>6 DEF Granted, Forfeits
  <2>3. Sound(b)'
    <3>1. ChargedTotal(b)' = ChargedTotal(b)
      BY <1>1, TotalsKept
    <3> QED
      BY <1>2, <1>6, <3>1 DEF GrantsInv, Sound, Balanced, AbsentIsEmpty
  <2> QED
    BY <2>1, <2>2, <2>3
<1> QED
  BY <1>1, <1>5, <1>6

\* Every step keeps the balances sound and the grants provisioned.
LEMMA GrantsStep == GrantsInv /\ [D1Next]_vars => GrantsInv'
<1> SUFFICES ASSUME GrantsInv, [D1Next]_vars PROVE GrantsInv'
  OBVIOUS
<1>1. RequestInv' /\ Covered
  BY RequestStep, D1UsesStore DEF GrantsInv
<1>2. \A a \in Accounts : Sound(a)' /\ Granted(a)'
  BY <1>1, MethodGrants, StaleGrants DEF Covered
<1> QED
  BY <1>1, <1>2 DEF GrantsInv

\* At the start every provisioned credit is a seed.
LEMMA GrantsInit == D1Init => GrantsInv
<1> SUFFICES ASSUME D1Init PROVE GrantsInv
  OBVIOUS
<1>1. RequestInv /\ LedgerInv
  BY RequestsInit, LedgerInit DEF D1Init
<1>2. ASSUME NEW a \in Accounts PROVE account[a].provisioned >= seeded[a] + OperationTotal(a)
  <2>1. account[a].provisioned = seeded[a] + OperationTotal(a) /\ account[a].provisioned \in Nat
    BY <1>1 DEF LedgerInv, LedgerOK, Recorded, TypeOK
  <2> QED
    BY <2>1
<1> QED
  BY <1>1, <1>2 DEF GrantsInv, Granted, LedgerInv, LedgerOK

\* No debit, settlement or stale grant loses a credit, unless the account was revoked
\* beside the settlement of a purchase of its own.
THEOREM CreditsNotMissing == D1Spec => []NoMissingCredit
<1>1. GrantsInv => NoMissingCredit
  BY DEF GrantsInv, Sound, Balanced, Granted, NoMissingCredit
<1> QED
  BY <1>1, GrantsInit, GrantsStep, PTL DEF D1Spec

===============================================================================
