----------------------------- MODULE MCUseCases -----------------------------
(* TLC instance of the use cases.  "pay" and "edit" carry one intent         *)
(* identifier and two intents; "order" and "again" share a client order      *)
(* identifier.                                                               *)
EXTENDS UseCases

MCId == [payA |-> "pay", payB |-> "pay", edit |-> "edit",
         order |-> "order", again |-> "again"]
MCNonce == [pay |-> 1, edit |-> 2, order |-> 3, again |-> 4]
MCCloid == [pay |-> None, edit |-> None, order |-> "c1", again |-> "c1"]
MCIntentId == [pay |-> "i1", edit |-> "i1", order |-> "i2", again |-> "i3"]
MCIntentHash == [pay |-> "h1", edit |-> "h1b", order |-> "h2", again |-> "h3"]
MCExecutors == [i \in {"pay", "edit", "order", "again"} |-> IF i = "pay" THEN {"t1", "t2"} ELSE {}]

create(key, i) == [kind |-> "create", key |-> key, intent |-> i]
authorize(key, s) == [kind |-> "authorize", key |-> key, signed |-> s]
observe(key, i, tx) == [kind |-> "observe", key |-> key, authorization |-> i, tx |-> tx]
Script(a, b, c) == [r1 |-> a, r2 |-> b, r3 |-> c]

MCScripts ==
  { \* an intent created twice under one key while another takes its identifier
    Script(create("k", "pay"), create("k", "pay"), authorize("k", "edit")),
    \* one key for two intents, and again
    Script(create("k", "pay"), create("k", "edit"), create("k", "pay")),
    \* an authorization retried under its key, and signed again under the same key
    Script(authorize("k", "payA"), authorize("k", "payA"), authorize("k", "payB")),
    \* two orders with one client order identifier
    Script(authorize("k", "order"), authorize("k", "again"), authorize(None, "payA")),
    \* two transactions compete for one authorization
    Script(authorize(None, "payA"), observe("k", "pay", "t1"), observe("k", "pay", "t2")),
    Script(authorize(None, "payA"), observe("k", "pay", "t1"), observe("k", "pay", "t1")),
    \* two observers of one transaction, one under a key that a creation uses too
    Script(observe(None, None, "t1"), observe("k", None, "t1"), create("k", "pay")) }
MCAnswers ==
  { [kind |-> "error", block |-> None], [kind |-> "missing", block |-> None],
    [kind |-> "unmined", block |-> None], [kind |-> "shallow", block |-> "b1"],
    [kind |-> "successful", block |-> "b2"] }
===============================================================================
