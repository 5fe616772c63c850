---------------------------- MODULE MCX402Delivery ----------------------------
(* TLC instances of paid delivery on one account: a resource and a credit     *)
(* pack on the standard rail, a resource and a pack on the HyperCore rail.    *)
EXTENDS X402Delivery

MCPurchaseAccount == [pack |-> "a", corePack |-> "a"]
MCPackCredits == [pack |-> 2, corePack |-> 2]
MCOpening == [a |-> 1]
MCPrice == [route \in {} |-> 0]
MCRail == [read |-> "standard", pack |-> "standard", coreRead |-> "hypercore", corePack |-> "hypercore"]
MCWhole == [read |-> TRUE, pack |-> TRUE, coreRead |-> FALSE, corePack |-> TRUE]

Load(p1, p2, p3) == [r1 |-> p1, r2 |-> p2, r3 |-> p3]

MCLoads ==
  { Load("read", "read", "coreRead"),      \* a paid request, repeated; one on HyperCore
    Load("pack", "pack", "pack"),          \* a checkout, repeated
    Load("corePack", "corePack", "pack") } \* checkouts on both rails, for one account
LateLoads == {Load("read", "read", "coreRead")}
===============================================================================
