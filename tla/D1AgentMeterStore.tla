-------------------------- MODULE D1AgentMeterStore --------------------------
(***************************************************************************)
(* The prepaid-credit ledger on Cloudflare D1.  D1 has no interactive      *)
(* transactions: a store method is a series of awaited statements, each    *)
(* atomic on its own, and only the statements of one batch() are atomic    *)
(* together.  Concurrent Worker requests interleave at every await, and a  *)
(* Worker may be stopped between any two of them.                          *)
(*                                                                         *)
(* A behaviour serves the requests of one script: script[c] says which     *)
(* store methods call c runs.  One action is one statement or one batch.   *)
(* A self-serve claim is the one use case here that runs several methods.  *)
(***************************************************************************)
EXTENDS AgentMeterStore

CONSTANTS
  Calls,     \* names of concurrent requests
  Scripts    \* the sets of requests considered: a script maps a call to its method and parameters

\* What one request asks of the store.
Requests ==
  [op : {"metered"}, account : Accounts, key : RequestKeys, route : Routes]
  \cup [op : {"credit", "claim"}, account : Accounts, key : RequestKeys, credits : Grants, reference : References]
  \cup [op : {"authorize", "settle"}, purchase : Purchases]
  \cup [op : {"provision"}, account : Accounts, credits : Seeds, status : {"active", "revoked"}]
  \cup [op : {"create"}, account : Accounts, credits : Seeds]
  \cup [op : {"revoke"}, account : Accounts]

ASSUME ScriptsAssumption ==
  \A s \in Scripts : DOMAIN s \subseteq Calls /\ \A c \in DOMAIN s : s[c] \in Requests

VARIABLES
  claimed, \* the accounts whose stored credential is the one a claim derives
  script,  \* the requests of this behaviour
  pc,      \* pc[c]: the statement call c runs next
  seen,    \* seen[c]: the purchase state c read before its last await
  reply    \* reply[c]: what the store method returned to c

vars == <<storeVars, claimed, script, pc, seen, reply>>

FirstStatement ==
  [metered |-> "readUsage", credit |-> "readOperation", authorize |-> "readPurchase",
   settle |-> "readAuthorized", provision |-> "upsert", revoke |-> "revoke", create |-> "insert",
   claim |-> "readClaimant"]

D1Init ==
  /\ Init
  /\ claimed = {}
  /\ script \in Scripts
  /\ pc = [c \in Calls |-> IF c \in DOMAIN script THEN FirstStatement[script[c].op] ELSE "done"]
  /\ seen = [c \in Calls |-> "none"]
  /\ reply = [c \in Calls |-> "none"]

Goto(c, label) == pc' = [pc EXCEPT ![c] = label]
Answer(c, r) == reply' = [reply EXCEPT ![c] = r]
Return(c, r) == Goto(c, "done") /\ Answer(c, r)

-------------------------------------------------------------------------------
(* reserveAgentUsage and settleAgentUsage, as a metered request calls them *)

ReadUsage(c) ==
  LET s == script[c]
      row == usage[s.account][s.key]
  IN /\ pc[c] = "readUsage"
     /\ IF row = NoUsage
        THEN Goto(c, "debit") /\ UNCHANGED reply
        ELSE IF row.route # s.route
             THEN Return(c, "conflict")
             ELSE Goto(c, "dispatch") /\ Answer(c, "granted")
     /\ UNCHANGED <<storeVars, claimed, seen>>

\* Variant: the debit does not check the balance.
DebitsOverdraft(s) ==
  account[s.account].status = "active" /\ usage[s.account][s.key] = NoUsage
Debits(s) ==
  /\ account[s.account].status = "active"
  /\ account[s.account].remaining >= Price[s.route]
  /\ usage[s.account][s.key] = NoUsage

\* One batch: the guarded debit, then the insert that runs only if changes()=1.
Debit(c) ==
  LET s == script[c]
  IN /\ pc[c] = "debit"
     /\ IF Debits(s)
        THEN /\ account' = [account EXCEPT ![s.account].remaining = @ - Price[s.route]]
             /\ usage' = [usage EXCEPT ![s.account][s.key] = [state |-> "RESERVED", route |-> s.route]]
        ELSE UNCHANGED <<account, usage>>
     /\ Goto(c, "readBack")
     /\ UNCHANGED <<operation, purchase, seeded, claimed, seen, reply>>

\* Variant: the balance that is left decides, not the row.
ReadBackBalance(c) ==
  LET s == script[c]
  IN /\ pc[c] = "readBack"
     /\ IF account[s.account].remaining < Price[s.route]
        THEN Return(c, "insufficient")
        ELSE Goto(c, "dispatch") /\ Answer(c, "granted")
     /\ UNCHANGED <<storeVars, claimed, seen>>

\* The row of the key is returned whichever request inserted it.
ReadBack(c) ==
  LET s == script[c]
  IN /\ pc[c] = "readBack"
     /\ IF usage[s.account][s.key] = NoUsage
        THEN Return(c, "insufficient")
        ELSE Goto(c, "dispatch") /\ Answer(c, "granted")
     /\ UNCHANGED <<storeVars, claimed, seen>>

\* Variant: a failed handler is not settled.
DispatchNoFinally(c) ==
  /\ pc[c] = "dispatch"
  /\ \E label \in {"consume", "done"} : Goto(c, label)
  /\ UNCHANGED <<storeVars, claimed, seen, reply>>

\* The handler runs; a 2xx response settles as CONSUMED, anything else as RELEASED.
Dispatch(c) ==
  /\ pc[c] = "dispatch"
  /\ \E label \in {"consume", "release"} : Goto(c, label)
  /\ UNCHANGED <<storeVars, claimed, seen, reply>>

SettleStatement(c) ==
  LET s == script[c]
      row == usage[s.account][s.key]
  IN /\ pc[c] \in {"consume", "release"}
     /\ IF row.state # "RESERVED"
        THEN UNCHANGED <<account, usage>>
        ELSE IF pc[c] = "consume"
             THEN /\ usage' = [usage EXCEPT ![s.account][s.key].state = "CONSUMED"]
                  /\ UNCHANGED account
             ELSE /\ usage' = [usage EXCEPT ![s.account][s.key].state = "RELEASED"]
                  /\ account' = [account EXCEPT ![s.account].remaining = @ + Price[row.route]]
     /\ Goto(c, "done")
     /\ UNCHANGED <<operation, purchase, seeded, claimed, seen, reply>>

-------------------------------------------------------------------------------
(* creditAgentMeterAccount *)

SameOperation(row, s) == row = [credits |-> s.credits, reference |-> s.reference]

ReadOperation(c) ==
  LET s == script[c]
      row == operation[s.account][s.key]
  IN /\ pc[c] = "readOperation"
     /\ IF row = NoOperation
        THEN Goto(c, "readAccount") /\ UNCHANGED reply
        ELSE Return(c, IF SameOperation(row, s) THEN "credited" ELSE "conflict")
     /\ UNCHANGED <<storeVars, claimed, seen>>

ReadAccount(c) ==
  /\ pc[c] = "readAccount"
  /\ IF account[script[c].account].status = "absent"
     THEN Return(c, "unavailable")
     ELSE Goto(c, "credit") /\ UNCHANGED reply
  /\ UNCHANGED <<storeVars, claimed, seen>>

\* Variant: the credit does not depend on the insert.
CreditInsertsAgain(s) == TRUE
CreditInserts(s) == operation[s.account][s.key] = NoOperation

\* One batch: insert the operation or do nothing, then credit only if changes()=1.
CreditBatch(c) ==
  LET s == script[c]
  IN /\ pc[c] = "credit"
     /\ IF CreditInserts(s)
        THEN /\ operation' = [operation EXCEPT ![s.account][s.key] =
                                [credits |-> s.credits, reference |-> s.reference]]
             /\ account' = [account EXCEPT ![s.account] = Credited(@, s.credits)]
        ELSE UNCHANGED <<operation, account>>
     /\ Goto(c, "readCredit")
     /\ UNCHANGED <<usage, purchase, seeded, claimed, seen, reply>>

ReadCredit(c) ==
  LET s == script[c]
  IN /\ pc[c] = "readCredit"
     /\ Return(c, IF SameOperation(operation[s.account][s.key], s) THEN "credited" ELSE "conflict")
     /\ UNCHANGED <<storeVars, claimed, seen>>

-------------------------------------------------------------------------------
(* authorizeX402CreditPurchase *)

ReadPurchase(c) ==
  /\ pc[c] = "readPurchase"
  /\ IF purchase[script[c].purchase] # "none"
     THEN Return(c, "authorized")
     ELSE Goto(c, "readBuyer") /\ UNCHANGED reply
  /\ UNCHANGED <<storeVars, claimed, seen>>

ReadBuyer(c) ==
  /\ pc[c] = "readBuyer"
  /\ IF account[PurchaseAccount[script[c].purchase]].status = "absent"
     THEN Return(c, "unavailable")
     ELSE Goto(c, "insertPurchase") /\ UNCHANGED reply
  /\ UNCHANGED <<storeVars, claimed, seen>>

\* INSERT ... ON CONFLICT DO NOTHING, then the row is read back.
InsertPurchase(c) ==
  LET p == script[c].purchase
  IN /\ pc[c] = "insertPurchase"
     /\ purchase' = IF purchase[p] = "none" THEN [purchase EXCEPT ![p] = "AUTHORIZED"] ELSE purchase
     /\ Return(c, "authorized")
     /\ UNCHANGED <<account, usage, operation, seeded, claimed, seen>>

-------------------------------------------------------------------------------
(* settleX402CreditPurchase *)

\* The row is read once; its state is not read again before the account is credited.
ReadAuthorized(c) ==
  LET p == script[c].purchase
  IN /\ pc[c] = "readAuthorized"
     /\ seen' = [seen EXCEPT ![c] = purchase[p]]
     /\ IF purchase[p] = "none"
        THEN Return(c, "unavailable")
        ELSE Goto(c, "readActive") /\ UNCHANGED reply
     /\ UNCHANGED <<storeVars, claimed>>

ReadActive(c) ==
  LET a == PurchaseAccount[script[c].purchase]
  IN /\ pc[c] = "readActive"
     /\ IF account[a].status # "active" THEN Return(c, "unavailable")
        ELSE IF seen[c] = "CREDITED" THEN Return(c, "settled")
        ELSE Goto(c, "readGrant") /\ UNCHANGED reply
     /\ UNCHANGED <<storeVars, claimed, seen>>

\* An operator may have used the request key of the purchase.
ReadGrant(c) ==
  LET p == script[c].purchase
      row == operation[PurchaseAccount[p]][p]
  IN /\ pc[c] = "readGrant"
     /\ IF row \notin {NoOperation, PackOperation(p)}
        THEN Return(c, "conflict")
        ELSE Goto(c, IF row = NoOperation THEN "grant" ELSE "mark") /\ UNCHANGED reply
     /\ UNCHANGED <<storeVars, claimed, seen>>

\* The recovery path: the operation exists, only the purchase row is updated.
MarkCredited(c) ==
  LET p == script[c].purchase
  IN /\ pc[c] = "mark"
     /\ purchase' = IF purchase[p] = "AUTHORIZED" THEN [purchase EXCEPT ![p] = "CREDITED"] ELSE purchase
     /\ Goto(c, "readSettled")
     /\ UNCHANGED <<account, usage, operation, seeded, claimed, seen, reply>>

GrantOperation(p) == operation[PurchaseAccount[p]][p]
GrantInserts(p) == purchase[p] = "AUTHORIZED" /\ GrantOperation(p) = NoOperation
GrantRecorded(p) == GrantInserts(p) \/ GrantOperation(p) # NoOperation
\* Variant: the credit is ordered before the insert.
GrantCreditsFirst(p) ==
  account[PurchaseAccount[p]].status = "active" /\ GrantOperation(p) # NoOperation
GrantCredits(p) == account[PurchaseAccount[p]].status = "active" /\ GrantRecorded(p)
GrantMarks(p) == purchase[p] = "AUTHORIZED" /\ GrantRecorded(p)

\* One batch of three statements: insert the operation if the purchase is still
\* AUTHORIZED; credit the account if it is active and an operation with this
\* identifier exists; mark the purchase if an operation exists.  The identifier
\* is a hash of (account, request key), the same in every attempt, so the second
\* statement cannot tell this attempt's operation from an earlier one's.
GrantBatch(c) ==
  LET p == script[c].purchase
      a == PurchaseAccount[p]
  IN /\ pc[c] = "grant"
     /\ operation' = IF GrantInserts(p) THEN [operation EXCEPT ![a][p] = PackOperation(p)] ELSE operation
     /\ account' = IF GrantCredits(p)
                   THEN [account EXCEPT ![a] = Credited(@, PackCredits[p])]
                   ELSE account
     /\ purchase' = IF GrantMarks(p) THEN [purchase EXCEPT ![p] = "CREDITED"] ELSE purchase
     /\ Goto(c, "readSettled")
     /\ UNCHANGED <<usage, seeded, claimed, seen, reply>>

ReadSettled(c) ==
  LET p == script[c].purchase
  IN /\ pc[c] = "readSettled"
     /\ Return(c, IF purchase[p] # "CREDITED" \/ GrantOperation(p) = NoOperation THEN "unavailable"
                  ELSE IF GrantOperation(p) = PackOperation(p) THEN "settled" ELSE "conflict")
     /\ UNCHANGED <<storeVars, claimed, seen>>

-------------------------------------------------------------------------------
(* The self-serve claim, up to the credit operation it ends in *)

\* createAgentMeterAccount: one INSERT ... ON CONFLICT DO NOTHING.
Inserts(a, credits) ==
  IF account[a].status # "absent" THEN UNCHANGED <<account, seeded>>
  ELSE /\ account' = [account EXCEPT ![a] = NewAccount(credits, "active")]
       /\ seeded' = [seeded EXCEPT ![a] = @ + credits]

ReadClaimant(c) ==
  /\ pc[c] = "readClaimant"
  /\ Goto(c, IF account[script[c].account].status = "absent" THEN "insertClaimant" ELSE "findCredential")
  /\ UNCHANGED <<storeVars, claimed, seen, reply>>

\* The account is created with no credits under the derived credential.
InsertClaimant(c) ==
  LET a == script[c].account
  IN /\ pc[c] = "insertClaimant"
     /\ Inserts(a, 0)
     /\ claimed' = IF account[a].status = "absent" THEN claimed \cup {a} ELSE claimed
     /\ Goto(c, IF account[a].status = "absent" THEN "readState" ELSE "findCredential")
     /\ UNCHANGED <<usage, operation, purchase, seen, reply>>

\* Variant: any account of that name will do.
CredentialUnchecked(a) == account[a].status # "absent"
HasCredential(a) == a \in claimed

FindCredential(c) ==
  /\ pc[c] = "findCredential"
  /\ IF HasCredential(script[c].account)
     THEN Goto(c, "readState") /\ UNCHANGED reply
     ELSE Return(c, "conflict")
  /\ UNCHANGED <<storeVars, claimed, seen>>

ReadClaimantState(c) ==
  /\ pc[c] = "readState"
  /\ IF account[script[c].account].status = "active"
     THEN Goto(c, "readOperation") /\ UNCHANGED reply
     ELSE Return(c, "unavailable")
  /\ UNCHANGED <<storeVars, claimed, seen>>

-------------------------------------------------------------------------------
(* Single-statement methods, and the loss of a Worker *)

\* provisionAgentMeterAccount: one INSERT ... ON CONFLICT DO UPDATE.
Upsert(c) ==
  LET s == script[c]
  IN /\ pc[c] = "upsert"
     /\ Provision(s.account, s.credits, s.status)
     /\ Return(c, "ok")
     /\ UNCHANGED <<claimed, seen>>

\* An operator issues an account, under a credential drawn for it.
InsertStatement(c) ==
  LET s == script[c]
  IN /\ pc[c] = "insert"
     /\ Inserts(s.account, s.credits)
     /\ Return(c, IF account[s.account].status = "absent" THEN "ok" ELSE "conflict")
     /\ UNCHANGED <<usage, operation, purchase, claimed, seen>>

RevokeStatement(c) ==
  LET a == script[c].account
  IN /\ pc[c] = "revoke"
     /\ account' = IF account[a].status = "absent" THEN account
                   ELSE [account EXCEPT ![a].status = "revoked"]
     /\ Return(c, "ok")
     /\ UNCHANGED <<usage, operation, purchase, seeded, claimed, seen>>

Crash(c) ==
  /\ pc[c] \notin {"done", "crashed"}
  /\ Goto(c, "crashed")
  /\ UNCHANGED <<storeVars, claimed, seen, reply>>

MeteredStatements(c) ==
  ReadUsage(c) \/ Debit(c) \/ ReadBack(c) \/ Dispatch(c) \/ SettleStatement(c)
CreditStatements(c) ==
  ReadOperation(c) \/ ReadAccount(c) \/ CreditBatch(c) \/ ReadCredit(c)
AuthorizeStatements(c) ==
  ReadPurchase(c) \/ ReadBuyer(c) \/ InsertPurchase(c)
SettleStatements(c) ==
  \/ ReadAuthorized(c) \/ ReadActive(c) \/ ReadGrant(c)
  \/ MarkCredited(c) \/ GrantBatch(c) \/ ReadSettled(c)

ClaimStatements(c) ==
  ReadClaimant(c) \/ InsertClaimant(c) \/ FindCredential(c) \/ ReadClaimantState(c)

CallStep(c) ==
  MeteredStatements(c) \/ CreditStatements(c) \/ AuthorizeStatements(c) \/ SettleStatements(c)
  \/ ClaimStatements(c) \/ Upsert(c) \/ InsertStatement(c) \/ RevokeStatement(c)

D1Next == (\E c \in Calls : CallStep(c) \/ Crash(c)) /\ UNCHANGED script

D1Spec == D1Init /\ [][D1Next]_vars
\* A request that is not stopped gets its next statement executed.
FairSpec == D1Spec /\ \A c \in Calls : WF_vars(CallStep(c) /\ UNCHANGED script)

-------------------------------------------------------------------------------
(* Properties *)

\* The statement a call runs next, or how it ended.
Places ==
  {"readUsage", "debit", "readBack", "dispatch", "consume", "release",
   "readOperation", "readAccount", "credit", "readCredit",
   "readPurchase", "readBuyer", "insertPurchase",
   "readAuthorized", "readActive", "readGrant", "mark", "grant", "readSettled",
   "readClaimant", "insertClaimant", "findCredential", "readState",
   "upsert", "insert", "revoke", "done", "crashed"}
Replies == {"none", "granted", "conflict", "insufficient", "credited", "unavailable", "authorized", "settled", "ok"}

\* The type invariant: the tables and the per-call bookkeeping.
D1TypeOK ==
  /\ TypeOK
  /\ claimed \subseteq {a \in Accounts : account[a].status # "absent"}
  /\ pc \in [Calls -> Places]
  /\ seen \in [Calls -> {"none", "AUTHORIZED", "CREDITED"}]
  /\ reply \in [Calls -> Replies]

\* The grant batch of c acts on what it read before: since then its account was
\* revoked, or the operation it wants to insert was recorded.
StaleGrant(c) ==
  LET p == script[c].purchase
  IN /\ GrantBatch(c)
     /\ account[PurchaseAccount[p]].status = "revoked" \/ GrantOperation(p) # NoOperation

\* The D1 statement sequences implement the indivisible methods of the
\* in-process store: every statement is one store method or changes no table,
\* except a grant batch that acts on a stale read.
ImplementsStore == Init /\ [][Next \/ \E c \in Calls : StaleGrant(c)]_storeVars

\* The two halves of "the credits of an account are exactly its seed and its
\* recorded operations": no balance increase without an operation of its own ...
NoUnrecordedGrant ==
  \A a \in Accounts : account[a].provisioned <= seeded[a] + OperationTotal(a)

\* A revoked account a purchase of which is marked as credited.
Forfeits(a) ==
  /\ account[a].status = "revoked"
  /\ \E p \in Purchases : PurchaseAccount[p] = a /\ purchase[p] = "CREDITED"

\* ... and no recorded operation whose credits never reached the balance, unless the
\* account was revoked beside the settlement of a purchase.  Even then every provisioned
\* credit is available or pinned by one reservation: debits and settlements that compete
\* for a balance, are repeated or are lost between two statements move no credit twice.
NoMissingCredit ==
  \A a \in Accounts :
    /\ account[a].provisioned = account[a].remaining + ChargedTotal(a)
    /\ ~Forfeits(a) => account[a].provisioned >= seeded[a] + OperationTotal(a)

Callers(a, k) ==
  {c \in DOMAIN script : script[c].op = "metered" /\ script[c].account = a /\ script[c].key = k}
InFlight(c) == pc[c] \in {"readBack", "dispatch", "consume", "release"}

\* However claims of one transfer overlap with each other, with the operator's own
\* top-up under the same key and with an account issued or revoked meanwhile: who is
\* told that a claim is credited has its transfer on record, with its own amount and
\* reference, in an account it holds the credential of.
ClaimsAreCredited ==
  \A c \in DOMAIN script : script[c].op = "claim" /\ reply[c] = "credited" =>
    LET s == script[c]
    IN s.account \in claimed /\ operation[s.account][s.key] = [credits |-> s.credits, reference |-> s.reference]

\* Credits stay reserved only for a request that is still running or whose
\* Worker was stopped: no interleaving of requests that share a key strands them.
HeldByLiveCall ==
  \A a \in Accounts, k \in RequestKeys :
    usage[a][k].state = "RESERVED" =>
      \E c \in Callers(a, k) : InFlight(c) \/ pc[c] = "crashed"

\* Every reservation is eventually consumed or released, unless a Worker that
\* served its key was lost.
ReservationsSettle ==
  \A a \in Accounts, k \in RequestKeys :
    usage[a][k].state = "RESERVED" ~>
      \/ usage[a][k].state \in {"CONSUMED", "RELEASED"}
      \/ \E c \in Callers(a, k) : pc[c] = "crashed"
===============================================================================
