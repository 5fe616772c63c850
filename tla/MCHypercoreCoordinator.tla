------------------------ MODULE MCHypercoreCoordinator ------------------------
(* TLC instance of the coordinator: two quotes; alice and bob sign an action  *)
(* in the same millisecond, alice signs the same one for another chain and    *)
(* one that is dated ahead.                                                   *)
EXTENDS HypercoreCoordinator

MCPayer == [alice1 |-> "alice", bob1 |-> "bob", alice1x |-> "alice", alice2 |-> "alice"]
MCTime == [alice1 |-> 1, bob1 |-> 1, alice1x |-> 1, alice2 |-> 3]
MCChain == [alice1 |-> "main", bob1 |-> "main", alice1x |-> "other", alice2 |-> "main"]
===============================================================================
