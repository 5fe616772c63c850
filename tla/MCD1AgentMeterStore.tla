------------------------- MODULE MCD1AgentMeterStore -------------------------
(* TLC instances of the D1 ledger.  Each script is one set of concurrent      *)
(* Worker requests against the account "a", or against an account "b" that is *)
(* not there yet.  "pack" is a purchase and, like any string, a request key.  *)
EXTENDS D1AgentMeterStore

MCPrice == [accept |-> 1, observe |-> 2]
MCPurchaseAccount == [pack |-> "a"]
MCPackCredits == [pack |-> 2]
MCOpening == [a |-> 2]

metered(key, route) == [op |-> "metered", account |-> "a", key |-> key, route |-> route]
credit(credits) == [op |-> "credit", account |-> "a", key |-> "k1", credits |-> credits, reference |-> "operator"]
provision(credits) == [op |-> "provision", account |-> "a", credits |-> credits, status |-> "active"]
revoke == [op |-> "revoke", account |-> "a"]
\* One transfer, claimed by its payer or credited by the operator.
transfer == [op |-> "claim", account |-> "b", key |-> "k1", credits |-> 2, reference |-> "claim"]
byHand == [transfer EXCEPT !.op = "credit", !.reference = "operator"]
authorizePack == [op |-> "authorize", purchase |-> "pack"]
settlePack == [op |-> "settle", purchase |-> "pack"]

\* A retried request and a second request compete for the last credits while
\* an operator credits and revokes the account.
Metered ==
  [retry1 |-> metered("k1", "accept"), retry2 |-> metered("k1", "accept"), other |-> metered("pack", "observe"),
   credit1 |-> credit(1), revoke |-> revoke]

\* An operator credits twice under one key, tops up and revokes while a call spends.
Operated ==
  [credit1 |-> credit(1), credit2 |-> credit(2), topUp |-> provision(3), revoke |-> revoke,
   other |-> metered("pack", "observe")]

\* A purchase authorised twice and settled once, with an operator credit and a
\* call that spends what was bought.
Purchased ==
  [authorize1 |-> authorizePack, authorize2 |-> authorizePack, settle1 |-> settlePack,
   credit1 |-> credit(1), other |-> metered("pack", "observe")]

\* A purchase settled twice while the account is credited and topped up.
SettledTwice ==
  [authorize1 |-> authorizePack, settle1 |-> settlePack, settle2 |-> settlePack,
   credit1 |-> credit(1), topUp |-> provision(3)]

\* A transfer claimed twice while the operator credits it by hand, issues an account
\* of the same name, or revokes it.
Claimed ==
  [claim1 |-> transfer, claim2 |-> transfer, credit1 |-> byHand,
   issue |-> [op |-> "create", account |-> "b", credits |-> 3],
   revoke |-> [revoke EXCEPT !.account = "b"]]

\* A purchase settled while its account is revoked, and while the operator credits the
\* account under the request key of the purchase.
Disturbed ==
  [authorize1 |-> authorizePack, settle1 |-> settlePack, credit1 |-> [credit(1) EXCEPT !.key = "pack"],
   revoke |-> revoke, topUp |-> provision(3)]

MCScripts == {Claimed, Metered, Operated, Purchased, SettledTwice, Disturbed}

\* A purchase settled twice.
DoubleSettle == {[authorize1 |-> authorizePack, settle1 |-> settlePack, settle2 |-> settlePack]}
===============================================================================
