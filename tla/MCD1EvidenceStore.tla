-------------------------- MODULE MCD1EvidenceStore --------------------------
(* TLC instance of the D1 authorization and evidence store.  "pay" is signed  *)
(* twice and "reuse" takes its nonce; "order1" and "order2" reserve one       *)
(* client order identifier; "edit" has the intent identifier of "pay" and     *)
(* another intent.                                                            *)
EXTENDS D1EvidenceStore

MCId == [payA |-> "pay", payB |-> "pay", reuse |-> "reuse", order1 |-> "order1",
         order2 |-> "order2", edit |-> "edit", free |-> "free"]
MCNonce == [pay |-> 1, reuse |-> 1, order1 |-> 2, order2 |-> 3, edit |-> 4, free |-> 5]
MCCloid == [pay |-> None, reuse |-> None, order1 |-> "c", order2 |-> "c", edit |-> None, free |-> None]
MCIntentId == [pay |-> "i1", reuse |-> "i2", order1 |-> "i3", order2 |-> "i4", edit |-> "i1", free |-> "i5"]
MCIntentHash == [pay |-> "h1", reuse |-> "h2", order1 |-> "h3", order2 |-> "h4", edit |-> "h1b", free |-> "h5"]

Load(d1, d2, d3) == [r1 |-> [document |-> d1, time |-> 1], r2 |-> [document |-> d2, time |-> 2],
                     r3 |-> [document |-> d3, time |-> 1]]

Retried == Load("payA", "payA", "payB")     \* one authorization, retried and signed again
Reused == Load("payA", "payB", "reuse")     \* another one takes its nonce
Orders == Load("order1", "order2", "payA")  \* two orders with one client order identifier
Edited == Load("payA", "payA", "edit")      \* an edited intent
Crowded == Load("payA", "order1", "free")   \* requests that compete for the next sequence number only
MCLoads == {Retried, Reused, Orders, Edited, Crowded}

Final == [status |-> "CONFIRMED"]
Open == [status |-> "PENDING"]
MCObservations == {Final, Open}
MCFinals == {"pay"} \X {"t1", "t2"} \X {Final}
Seen(i, tx, observation, at) == [authorization |-> i, tx |-> tx, observation |-> observation, issuedAt |-> at]
Pair(first, second) == [s1 |-> first, s2 |-> second]
Paid == Seen("pay", "t1", Final, 1)
\* Evidence that is not final; a save for an authorization that nobody accepts is never made.
Unasked == Seen("reuse", "t1", Open, 1)
MCSaves == [l \in MCLoads |->
  CASE l = Retried -> {Pair(Paid, Seen("pay", "t2", Final, 1)),     \* two transactions compete
                       Pair(Paid, Paid),                            \* one receipt, saved twice
                       Pair(Paid, Seen("pay", "t1", Final, 2))}     \* one receipt, issued again
    [] l = Reused -> {Pair(Paid, Unasked)}                          \* evidence of either authorization
    [] l = Edited -> {Pair(Unasked, Seen(None, "t1", Final, 1))}    \* evidence of an intent alone
    [] OTHER -> {Pair(Unasked, Unasked)}]
===============================================================================
