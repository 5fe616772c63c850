-------------------------- MODULE MCObservationJobs --------------------------
(* TLC instance of the observation jobs: "a1", "a2" and "a3" are requests for  *)
(* one observation under different idempotency keys, "b1" is another one.      *)
EXTENDS ObservationJobs

MCCoalesce == [a1 |-> "a", a2 |-> "a", a3 |-> "a", b1 |-> "b"]
MCRequestKey == [first |-> "a1", second |-> "a2", third |-> "a3", other |-> "b1"]

MCScenarios ==
  { \* A queue delivery and the cron trigger compete for two jobs, and a lease is lost.
    [requests |-> {"first", "other"}, workers |-> {"queue1", "cron1"}, faults |-> 1],
    \* They compete for one job whose leases are lost again and again.
    [requests |-> {"first"}, workers |-> {"queue1", "cron1"}, faults |-> 3],
    \* Three requests for one observation, of which earlier ones may have been finished.
    [requests |-> {"first", "second", "third"}, workers |-> {"cron1"}, faults |-> 0] }
===============================================================================
