---------------------------- MODULE MCMeteredCalls ----------------------------
(* TLC instances of metered calls on one account (no method reads two): two    *)
(* calls that share an idempotency key (a retry, which may be an MCP tool       *)
(* call), one that reuses their key for another route, and one credit pack.     *)
EXTENDS MeteredCalls

MCPrice == [accept |-> 1, observe |-> 2]
MCPurchaseAccount == [pack |-> "a"]
MCPackCredits == [pack |-> 2]
MCNoPurchase == [p \in {} |-> 0]
MCOpening == [a \in {} |-> 0]
MCCallAccount == [first |-> "a", retry |-> "a", clash |-> "a"]
MCCallKey == [first |-> "k1", retry |-> "k1", clash |-> "k1"]
MCCallRoute == [first |-> "accept", retry |-> "accept", clash |-> "observe"]
===============================================================================
