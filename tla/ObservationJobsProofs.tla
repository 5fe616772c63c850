------------------------- MODULE ObservationJobsProofs -------------------------
(***************************************************************************)
(* The observation jobs, proved for any number of requests, Workers, cron  *)
(* triggers, stopped Workers and lost leases, and any finite set of jobs:  *)
(* attempts are bounded, rows only advance, and requests coalesce.         *)
(***************************************************************************)
EXTENDS ObservationJobs, FiniteSetTheorems, TLAPS

Results == [key : Keys \cup {NoJob}, token : Nat, state : Active \cup Terminal \cup {"none"}]
WorkRecord == [stage : Stages, prompt : Keys \cup {NoJob}, claims : SUBSET Claims,
               result : Results, retries : SUBSET Keys]

TableTypes ==
  /\ job \in [Keys -> [state : Active \cup Terminal \cup {"absent"}, attempts : Nat, token : Nat]]
  /\ \A k \in Keys : job[k].state = "RUNNING" <=> job[k].token # 0
  /\ ready \in [Keys -> BOOLEAN]
WorkTypes == work \in [Workers -> WorkRecord]
RequestTypes ==
  /\ prompts \in [Keys -> 0..MaxPrompts]
  /\ request \in [Requests -> [stage : {"insert", "select", "send", "answered", "conflict"},
                               tries : 0..2, found : Keys \cup {NoJob}]]
  /\ scenario \in Scenarios /\ scenario.faults \in Nat /\ faults \in 0..scenario.faults
\* The whole state keeps its types.
Types == TableTypes /\ WorkTypes /\ RequestTypes

\* What a Worker holds at each stage: every claim has a token, and an outcome is one
\* that the attempt it was made under allows.
WorkerOK(w) ==
  /\ work[w].stage \in {"idle", "look", "send"} => work[w].claims = {}
  /\ work[w].stage # "save" => work[w].result = NoResult
  /\ work[w].stage = "save" => /\ work[w].result.key \in Keys
                               /\ work[w].result.token # 0
                               /\ work[w].result.state \in Outcomes(work[w].result.token)
  /\ \A claim \in work[w].claims : claim.token # 0
WorkersInv == \A w \in Workers : WorkerOK(w)

\* A row whose lease has ended, or whose holder was stopped, has cost a fault more than
\* its attempts beyond the limit.
RowOK(k) ==
  /\ job[k].state = "absent" => job[k] = NoRow
  /\ job[k].state = "QUEUED" => job[k].attempts = 0
  /\ job[k].state = "RETRY_WAIT" => job[k].attempts < Limit
  /\ job[k].state = "RUNNING" => job[k].token = job[k].attempts
  /\ job[k].state = "RUNNING" /\ (ready[k] \/ ~HeldByWorker(k)) => job[k].attempts < Limit + faults
  /\ job[k].attempts <= Limit + faults
RowsInv == \A k \in Keys : RowOK(k)

JobsInv == Types /\ WorkersInv /\ RowsInv

-------------------------------------------------------------------------------
(* Helpers *)

\* What an attempt can come to; only one within the limit is retried.
LEMMA OutcomeStates ==
  ASSUME NEW attempts \in Nat, NEW state \in Outcomes(attempts)
  PROVE  /\ state \in {"COMPLETED", "UNDETERMINED", "RETRY_WAIT", "FAILED"}
         /\ state = "RETRY_WAIT" => attempts < Limit
BY DEF Outcomes, Retry

\* Sending prompts keeps their number within the bound.
LEMMA SendTypes ==
  ASSUME prompts \in [Keys -> 0..MaxPrompts], NEW keys, Send(keys)
  PROVE  prompts' \in [Keys -> 0..MaxPrompts]
<1>1. MaxPrompts \in Nat
  BY JobAssumption
<1> QED
  BY <1>1 DEF Send

\* The types of the parts are the type invariant of the module.
LEMMA TypesMeanTypeOK == ASSUME Types PROVE TypeOK
BY DEF Types, TypeOK, TableTypes, WorkTypes, RequestTypes, WorkRecord

\* What a Worker is left with when its work ends.
LEMMA IdleOK ==
  ASSUME WorkTypes, WorkersInv, NEW w \in Workers, work' = [work EXCEPT ![w] = Idle]
  PROVE  WorkTypes' /\ WorkersInv'
<1>1. Idle \in WorkRecord
  BY DEF Idle, WorkRecord, NoResult, NoJob, Results, Stages
<1>2. \A v \in Workers : work'[v] = IF v = w THEN Idle ELSE work[v]
  BY DEF WorkTypes
<1>3. WorkTypes'
  BY <1>1 DEF WorkTypes
<1>4. WorkersInv'
  BY <1>2 DEF WorkersInv, WorkerOK, Idle
<1> QED
  BY <1>3, <1>4

\* A row nobody touches keeps its bound, unless its holder goes away for nothing.
LEMMA RowKept ==
  ASSUME TableTypes, RequestTypes, NEW k \in Keys, RowOK(k),
         job'[k] = job[k], ready'[k] = ready[k], faults' \in Nat, faults' >= faults,
         job[k].state = "RUNNING" /\ HeldByWorker(k) => HeldByWorker(k)' \/ faults' > faults
  PROVE  RowOK(k)'
<1>1. job[k].attempts \in Nat /\ Limit \in Nat /\ faults \in Nat
  BY JobAssumption DEF TableTypes, RequestTypes
<1>2. job[k].attempts < Limit + faults => job[k].attempts < Limit + faults'
  BY <1>1
<1>3. job[k].attempts <= Limit + faults => job[k].attempts <= Limit + faults'
  BY <1>1
<1>4. job[k].attempts <= Limit + faults /\ faults' > faults => job[k].attempts < Limit + faults'
  BY <1>1
<1>5. job'[k].state = "RUNNING" /\ (ready'[k] \/ ~HeldByWorker(k)') => job'[k].attempts < Limit + faults'
  BY <1>2, <1>4 DEF RowOK
<1> QED
  BY <1>3, <1>5 DEF RowOK

\* A Worker without claims holds nothing, whatever it does next.
LEMMA IdleHoldsNothing ==
  ASSUME TableTypes, WorkTypes, NEW w \in Workers, work[w].claims = {}, work[w].result = NoResult,
         \A v \in Workers \ {w} : work'[v] = work[v],
         NEW k \in Keys, job'[k] = job[k], job[k].state = "RUNNING", HeldByWorker(k)
  PROVE  HeldByWorker(k)'
<1>1. job[k].token # 0
  BY DEF TableTypes
<1>2. PICK v \in Workers :
        [key |-> k, token |-> job[k].token] \in
          work[v].claims \cup {[key |-> work[v].result.key, token |-> work[v].result.token]}
  BY DEF HeldByWorker
<1>3. v # w
  BY <1>1, <1>2 DEF NoResult
<1> QED
  BY <1>2, <1>3 DEF HeldByWorker

\* While nobody changes what Workers hold, every untouched row keeps its bound.
LEMMA RowUnheld ==
  ASSUME TableTypes, RequestTypes, NEW k \in Keys, RowOK(k), job'[k] = job[k], ready'[k] = ready[k],
         work' = work, faults' \in Nat, faults' >= faults
  PROVE  RowOK(k)'
<1>1. HeldByWorker(k)' <=> HeldByWorker(k)
  BY DEF HeldByWorker
<1> QED
  BY <1>1, RowKept

-------------------------------------------------------------------------------
(* Requests *)

\* An enqueue inserts a row that was absent, prompts, or answers.
LEMMA RequestStepKeeps ==
  ASSUME JobsInv, NEW e \in Requests, RequestStep(e), UNCHANGED scenario
  PROVE  JobsInv'
<1> USE DEF JobsInv
<1>1. /\ TableTypes /\ WorkTypes /\ RequestTypes /\ RequestKey[e] \in Keys /\ work' = work
      /\ Limit \in Nat /\ faults \in Nat
  BY JobAssumption DEF RequestStep, InsertJob, SelectJob, Dispatch, Types, RequestTypes
<1>2. WorkTypes' /\ WorkersInv'
  BY <1>1 DEF WorkTypes, WorkersInv, WorkerOK
<1>3. CASE InsertJob(e)
  <2> DEFINE k == RequestKey[e]
  <2>1. UNCHANGED <<prompts, faults>>
    BY <1>3 DEF InsertJob
  <2>2. RequestTypes'
    BY <1>1, <1>3, <2>1 DEF InsertJob, RequestTypes
  <2>3. CASE Insertable(k)
    <3>1. /\ job' = [job EXCEPT ![k] = Row("QUEUED", 0, 0)]
          /\ ready' = [ready EXCEPT ![k] = TRUE]
      BY <1>3, <2>3 DEF InsertJob
    <3>2. TableTypes'
      BY <1>1, <3>1 DEF TableTypes, Row, Active
    <3>3. ASSUME NEW j \in Keys, j # k PROVE RowOK(j)'
      <4>1. job'[j] = job[j] /\ ready'[j] = ready[j]
        BY <1>1, <3>1, <3>3 DEF TableTypes
      <4> QED
        BY <1>1, <2>1, <4>1, RowUnheld DEF RowsInv
    <3>4. RowOK(k)'
      <4>1. job'[k] = [state |-> "QUEUED", attempts |-> 0, token |-> 0]
        BY <1>1, <3>1 DEF TableTypes, Row
      <4> QED
        BY <1>1, <2>1, <4>1 DEF RowOK
    <3> QED
      BY <1>2, <2>2, <3>2, <3>3, <3>4 DEF Types, RowsInv
  <2>4. CASE ~Insertable(k)
    <3>1. job' = job /\ ready' = ready
      BY <1>3, <2>4 DEF InsertJob
    <3> QED
      BY <1>1, <1>2, <2>1, <2>2, <3>1, RowUnheld DEF Types, TableTypes, RowsInv
  <2> QED
    BY <2>3, <2>4
<1>4. CASE SelectJob(e)
  <2>1. UNCHANGED <<job, ready, prompts, faults>>
    BY <1>4 DEF SelectJob
  <2>2. ActiveTwins(RequestKey[e]) \subseteq Keys
    BY DEF ActiveTwins
  <2>3. RequestTypes'
    BY <1>1, <1>4, <2>1, <2>2 DEF SelectJob, RequestTypes, EnqueueAttempts
  <2> QED
    BY <1>1, <1>2, <2>1, <2>3, RowUnheld DEF Types, TableTypes, RowsInv
<1>5. CASE Dispatch(e)
  <2>1. UNCHANGED <<job, ready>>
    BY <1>5 DEF Dispatch
  <2>2. faults' \in 0..scenario.faults /\ faults' >= faults
    BY <1>1, <1>5 DEF Dispatch, RequestTypes
  <2>3. prompts' \in [Keys -> 0..MaxPrompts]
    BY <1>1, <1>5, SendTypes DEF Dispatch, RequestTypes
  <2>4. RequestTypes'
    BY <1>1, <1>5, <2>2, <2>3 DEF Dispatch, RequestTypes
  <2> QED
    BY <1>1, <1>2, <2>1, <2>2, <2>4, RowUnheld DEF Types, TableTypes, RowsInv
<1> QED
  BY <1>3, <1>4, <1>5 DEF RequestStep

-------------------------------------------------------------------------------
(* Workers *)

\* A claim bounds the attempts of each row it takes: the limit allowed it, or the
\* lease that ended has cost a fault.
LEMMA RowClaimed ==
  ASSUME TableTypes, RequestTypes, NEW k \in Keys, RowOK(k), Claimable(k)
  PROVE  job[k].attempts + 1 <= Limit + faults
<1>1. job[k].attempts \in Nat /\ Limit \in Nat \ {0} /\ faults \in Nat
  BY JobAssumption DEF TableTypes, RequestTypes
<1>2. job[k].state \in Active /\ ready[k]
  BY DEF Claimable
<1>3. job[k].attempts < Limit + faults
  BY <1>1, <1>2 DEF RowOK, Active
<1> QED
  BY <1>1, <1>3

\* A Worker that claims due rows holds them under their new tokens.
LEMMA WakeUp ==
  ASSUME JobsInv, NEW w \in Workers, work[w] = Idle,
         NEW keys \in SUBSET Keys, \A k \in keys : Claimable(k), Claimed(keys),
         NEW p \in Keys \cup {NoJob},
         work' = [work EXCEPT ![w] = [stage |-> "run", prompt |-> p, claims |-> {Claim(k) : k \in keys},
                                      result |-> NoResult, retries |-> {}]],
         faults' = faults
  PROVE  TableTypes' /\ WorkTypes' /\ WorkersInv' /\ RowsInv'
<1> DEFINE new == [stage |-> "run", prompt |-> p, claims |-> {Claim(k) : k \in keys},
                   result |-> NoResult, retries |-> {}]
<1>1. /\ TableTypes /\ WorkTypes /\ RequestTypes /\ WorkersInv /\ RowsInv
      /\ faults \in Nat /\ Limit \in Nat
  BY JobAssumption DEF JobsInv, Types, RequestTypes
<1>2. \A k \in Keys : job[k].attempts \in Nat
  BY <1>1 DEF TableTypes
<1>3. \A k \in Keys : /\ job'[k] = IF k \in keys
                                  THEN [state |-> "RUNNING", attempts |-> job[k].attempts + 1,
                                        token |-> job[k].attempts + 1]
                                  ELSE job[k]
                      /\ ready'[k] = (ready[k] /\ k \notin keys)
  BY DEF Claimed, Row, Claim
<1>4. TableTypes'
  <2>1. job' = [k \in Keys |-> job'[k]] /\ ready' = [k \in Keys |-> ready'[k]]
    BY DEF Claimed
  <2>2. \A k \in Keys : job[k] \in [state : Active \cup Terminal \cup {"absent"}, attempts : Nat, token : Nat]
    BY <1>1 DEF TableTypes
  <2>3. ASSUME NEW k \in Keys
        PROVE  /\ job'[k] \in [state : Active \cup Terminal \cup {"absent"}, attempts : Nat, token : Nat]
               /\ job'[k].state = "RUNNING" <=> job'[k].token # 0
    <3>1. CASE k \in keys
      <4>1. job'[k] = [state |-> "RUNNING", attempts |-> job[k].attempts + 1, token |-> job[k].attempts + 1]
        BY <1>3, <3>1
      <4>2. job[k].attempts + 1 \in Nat /\ job[k].attempts + 1 # 0
        BY <1>2
      <4> QED
        BY <4>1, <4>2 DEF Active
    <3>2. CASE k \notin keys
      <4>1. job'[k] = job[k]
        BY <1>3, <3>2
      <4> QED
        BY <1>1, <2>2, <4>1 DEF TableTypes
    <3> QED
      BY <3>1, <3>2
  <2>5. \A k \in Keys : ready'[k] \in BOOLEAN
    BY <1>3
  <2> QED
    BY <2>1, <2>3, <2>5 DEF TableTypes
<1>5. \A claim \in new.claims : claim \in Claims /\ claim.token # 0
  BY <1>2 DEF Claim, Claims
<1>6. new \in WorkRecord
  BY <1>5 DEF WorkRecord, Stages, NoResult, Results, NoJob
<1>7. \A v \in Workers : work'[v] = IF v = w THEN new ELSE work[v]
  BY <1>1 DEF WorkTypes
<1>8. WorkTypes'
  BY <1>1, <1>6 DEF WorkTypes
<1>9. WorkersInv'
  BY <1>1, <1>5, <1>7 DEF WorkersInv, WorkerOK
<1>10. ASSUME NEW k \in Keys, k \in keys PROVE RowOK(k)'
  <2>1. job[k].attempts + 1 <= Limit + faults
    BY <1>1, <1>10, RowClaimed DEF RowsInv
  <2>5. job'[k] = [state |-> "RUNNING", attempts |-> job[k].attempts + 1, token |-> job[k].attempts + 1]
    BY <1>3, <1>10
  <2>2. HeldByWorker(k)'
    <3>1. Claim(k) = [key |-> k, token |-> job'[k].token]
      BY <2>5 DEF Claim
    <3>2. work'[w].claims = {Claim(j) : j \in keys}
      <4>1. work'[w] = new
        BY <1>7
      <4> QED
        BY <4>1
    <3>3. Claim(k) \in work'[w].claims
      BY <1>10, <3>2
    <3> QED
      BY <3>1, <3>3 DEF HeldByWorker
  <2>3. ~ready'[k]
    BY <1>3, <1>10
  <2>4. /\ job'[k].state = "RUNNING" /\ job'[k].token = job'[k].attempts
        /\ job'[k].attempts <= Limit + faults'
    BY <2>1, <2>5
  <2> QED
    BY <2>2, <2>3, <2>4 DEF RowOK
<1>11. ASSUME NEW k \in Keys, k \notin keys PROVE RowOK(k)'
  <2>1. job'[k] = job[k] /\ ready'[k] = ready[k]
    BY <1>1, <1>3, <1>11 DEF TableTypes
  <2>2. work[w].claims = {} /\ work[w].result = NoResult
    BY DEF Idle
  <2>3. job[k].state = "RUNNING" /\ HeldByWorker(k) => HeldByWorker(k)'
    BY <1>1, <1>7, <2>1, <2>2, IdleHoldsNothing
  <2> QED
    BY <1>1, <2>1, <2>3, RowKept DEF RowsInv
<1> QED
  BY <1>4, <1>8, <1>9, <1>10, <1>11 DEF RowsInv

\* The rows keep their bounds while a Worker without claims does something else.
LEMMA RowsIdle ==
  ASSUME JobsInv, NEW w \in Workers, work[w].claims = {}, work[w].result = NoResult,
         \A v \in Workers \ {w} : work'[v] = work[v], UNCHANGED <<job, ready, faults>>
  PROVE  TableTypes' /\ RowsInv'
<1>1. TableTypes /\ WorkTypes /\ RequestTypes /\ RowsInv /\ faults \in Nat
  BY DEF JobsInv, Types, RequestTypes
<1>2. ASSUME NEW k \in Keys PROVE RowOK(k)'
  <2>1. job[k].state = "RUNNING" /\ HeldByWorker(k) => HeldByWorker(k)'
    BY <1>1, IdleHoldsNothing
  <2> QED
    BY <1>1, <2>1, RowKept DEF RowsInv
<1> QED
  BY <1>1, <1>2 DEF TableTypes, RowsInv

\* A delivered prompt claims its job, or leads to a look at it.
LEMMA DeliverKeeps ==
  ASSUME JobsInv, NEW w \in Workers, NEW k \in Keys, Deliver(w, k), UNCHANGED scenario
  PROVE  JobsInv'
<1>1. /\ TableTypes /\ WorkTypes /\ RequestTypes /\ WorkersInv
      /\ work[w] = Idle /\ UNCHANGED <<request, faults>>
  BY DEF JobsInv, Types, Deliver
<1>2. RequestTypes'
  <2>1. prompts[k] > 0 /\ prompts' = [prompts EXCEPT ![k] = @ - 1] /\ MaxPrompts \in Nat
    BY JobAssumption DEF Deliver
  <2>2. prompts' \in [Keys -> 0..MaxPrompts]
    BY <1>1, <2>1 DEF RequestTypes
  <2> QED
    BY <1>1, <2>2 DEF RequestTypes
<1>3. CASE Claimable(k)
  <2>1. /\ Claimed({k})
        /\ work' = [work EXCEPT ![w] = [stage |-> "run", prompt |-> k, claims |-> {Claim(j) : j \in {k}},
                                         result |-> NoResult, retries |-> {}]]
    <3>1. {Claim(k)} = {Claim(j) : j \in {k}}
      OBVIOUS
    <3> QED
      BY <1>3, <3>1 DEF Deliver, Idle
  <2> QED
    BY <1>1, <1>2, <1>3, <2>1, WakeUp DEF JobsInv, Types
<1>4. CASE ~Claimable(k)
  <2> DEFINE new == [stage |-> "look", prompt |-> k, claims |-> {}, result |-> NoResult, retries |-> {}]
  <2>1. work' = [work EXCEPT ![w] = new] /\ UNCHANGED <<job, ready>>
    BY <1>4 DEF Deliver, Idle
  <2>2. new \in WorkRecord
    BY DEF WorkRecord, Stages, NoResult, Results, NoJob
  <2>3. \A v \in Workers : work'[v] = IF v = w THEN new ELSE work[v]
    BY <1>1, <2>1 DEF WorkTypes
  <2>4. WorkTypes' /\ WorkersInv'
    BY <1>1, <2>1, <2>2, <2>3 DEF WorkTypes, WorkersInv, WorkerOK
  <2>5. work[w].claims = {} /\ work[w].result = NoResult
    BY <1>1 DEF Idle
  <2> HIDE DEF new
  <2> QED
    BY <1>1, <1>2, <2>1, <2>3, <2>4, <2>5, RowsIdle DEF JobsInv, Types
<1> QED
  BY <1>3, <1>4

\* The cron trigger claims rows that are due.
LEMMA ClaimDueKeeps ==
  ASSUME JobsInv, NEW w \in Workers, ClaimDue(w), UNCHANGED scenario
  PROVE  JobsInv'
<1>1. work[w] = Idle /\ UNCHANGED <<prompts, request, faults>>
  BY DEF ClaimDue
<1>2. RequestTypes'
  BY <1>1 DEF JobsInv, Types, RequestTypes
<1>3. PICK keys \in SUBSET {k \in Keys : Claimable(k)} :
        /\ Claimed(keys)
        /\ work' =
             [work EXCEPT ![w] = [Idle EXCEPT !.stage = "run", !.claims = {Claim(k) : k \in keys}]]
  BY DEF ClaimDue
<1>4. work' = [work EXCEPT ![w] = [stage |-> "run", prompt |-> NoJob, claims |-> {Claim(k) : k \in keys},
                                   result |-> NoResult, retries |-> {}]]
  <2> DEFINE claims == {Claim(k) : k \in keys}
  <2> HIDE DEF claims
  <2>1. [Idle EXCEPT !.stage = "run", !.claims = claims] = [[Idle EXCEPT !.stage = "run"] EXCEPT !.claims = claims]
    OBVIOUS
  <2>2. [Idle EXCEPT !.stage = "run"]
          = [stage |-> "run", prompt |-> NoJob, claims |-> {}, result |-> NoResult, retries |-> {}]
    BY DEF Idle
  <2>3. [Idle EXCEPT !.stage = "run", !.claims = claims]
          = [stage |-> "run", prompt |-> NoJob, claims |-> claims, result |-> NoResult, retries |-> {}]
    <3> DEFINE run == [stage |-> "run", prompt |-> NoJob, claims |-> {}, result |-> NoResult, retries |-> {}]
    <3>1. [run EXCEPT !.claims = claims]
            = [stage |-> "run", prompt |-> NoJob, claims |-> claims, result |-> NoResult, retries |-> {}]
      OBVIOUS
    <3> HIDE DEF run
    <3>2. [Idle EXCEPT !.stage = "run"] = run
      BY <2>2 DEF run
    <3> QED
      BY <2>1, <3>1, <3>2
  <2> QED
    BY <1>3, <2>3 DEF claims
<1> QED
  BY <1>1, <1>2, <1>3, <1>4, WakeUp DEF JobsInv, Types

\* Looking at a row and prompting for more work end the work and change no row.
LEMMA LookKeeps ==
  ASSUME JobsInv, NEW w \in Workers, Look(w) \/ Prompt(w), UNCHANGED scenario
  PROVE  JobsInv'
<1>1. /\ work' = [work EXCEPT ![w] = Idle] /\ UNCHANGED <<job, ready, request, faults>>
      /\ work[w].stage \in {"look", "send"} /\ \E keys : Send(keys)
  BY DEF Look, Prompt
<1>2. /\ WorkTypes /\ WorkersInv /\ RequestTypes
      /\ work[w].claims = {} /\ work[w].result = NoResult
      /\ \A v \in Workers \ {w} : work'[v] = work[v]
  BY <1>1 DEF JobsInv, Types, WorkTypes, WorkersInv, WorkerOK
<1>3. RequestTypes'
  BY <1>1, <1>2, SendTypes DEF RequestTypes
<1> QED
  BY <1>1, <1>2, <1>3, IdleOK, RowsIdle DEF JobsInv, Types

\* Only the outcome of the claim it was made under is saved.
LEMMA ObserveKeeps ==
  ASSUME JobsInv, NEW w \in Workers, Observe(w), UNCHANGED scenario
  PROVE  JobsInv'
<1>1. /\ TableTypes /\ WorkTypes /\ RequestTypes /\ WorkersInv /\ RowsInv
      /\ UNCHANGED <<job, ready, prompts, request, faults>> /\ work[w].stage = "run"
      /\ faults \in Nat
  BY DEF JobsInv, Types, Observe, RequestTypes
<1>2. PICK claim \in work[w].claims : \E state \in Outcomes(claim.token) :
        work' = [work EXCEPT ![w].stage = "save", ![w].claims = @ \ {claim},
                             ![w].result = [key |-> claim.key, token |-> claim.token, state |-> state]]
  BY DEF Observe
<1>3. PICK state \in Outcomes(claim.token) :
        work' = [work EXCEPT ![w].stage = "save", ![w].claims = @ \ {claim},
                             ![w].result = [key |-> claim.key, token |-> claim.token, state |-> state]]
  BY <1>2
<1> DEFINE result == [key |-> claim.key, token |-> claim.token, state |-> state]
<1>4. /\ claim.key \in Keys /\ claim.token \in Nat /\ claim.token # 0
      /\ claim = [key |-> claim.key, token |-> claim.token]
  BY <1>1, <1>2 DEF WorkTypes, WorkRecord, Claims, WorkersInv, WorkerOK
<1>5. state \in Active \cup Terminal
  BY <1>4, OutcomeStates DEF Active, Terminal
<1>6. work[w] \in WorkRecord
  BY <1>1 DEF WorkTypes
<1>7. result \in Results
  BY <1>4, <1>5 DEF Results
<1>8. /\ work'[w] = [stage |-> "save", prompt |-> work[w].prompt, claims |-> work[w].claims \ {claim},
                     result |-> result, retries |-> work[w].retries]
      /\ \A v \in Workers \ {w} : work'[v] = work[v]
      /\ work' = [v \in Workers |-> work'[v]]
  BY <1>1, <1>3, <1>6 DEF WorkTypes, WorkRecord
<1>9. work'[w] \in WorkRecord
  BY <1>6, <1>7, <1>8 DEF WorkRecord, Stages
<1>10. WorkTypes'
  BY <1>1, <1>8, <1>9 DEF WorkTypes
<1>11. WorkersInv'
  BY <1>1, <1>4, <1>8 DEF WorkersInv, WorkerOK
<1>12. ASSUME NEW k \in Keys PROVE RowOK(k)'
  <2>1. ASSUME HeldByWorker(k), job[k].state = "RUNNING" PROVE HeldByWorker(k)'
    <3>1. PICK v \in Workers :
            [key |-> k, token |-> job[k].token] \in
              work[v].claims \cup {[key |-> work[v].result.key, token |-> work[v].result.token]}
      BY <2>1 DEF HeldByWorker
    <3>2. CASE v # w
      BY <1>1, <1>8, <3>1, <3>2 DEF HeldByWorker
    <3>3. CASE v = w
      <4>1. [key |-> k, token |-> job[k].token] # [key |-> work[w].result.key, token |-> work[w].result.token]
        BY <1>1, <2>1 DEF TableTypes, WorkersInv, WorkerOK, NoResult
      <4>2. [key |-> k, token |-> job[k].token] \in
              work'[w].claims \cup {[key |-> work'[w].result.key, token |-> work'[w].result.token]}
        BY <1>4, <1>8, <3>1, <3>3, <4>1
      <4> QED
        BY <1>1, <4>2 DEF HeldByWorker
    <3> QED
      BY <3>2, <3>3
  <2> QED
    BY <1>1, <2>1, RowKept DEF RowsInv
<1> QED
  BY <1>1, <1>10, <1>11, <1>12 DEF JobsInv, Types, TableTypes, RequestTypes, RowsInv

\* An outcome is saved under the claim it was made for, or not at all.
LEMMA SaveKeeps ==
  ASSUME JobsInv, NEW w \in Workers, SaveJob(w), UNCHANGED scenario
  PROVE  JobsInv'
<1> DEFINE result == work[w].result
<1>1. /\ TableTypes /\ WorkTypes /\ RequestTypes /\ WorkersInv /\ RowsInv
      /\ UNCHANGED <<prompts, request, faults>> /\ work[w].stage = "save"
      /\ faults \in Nat /\ Limit \in Nat
  <2>1. UNCHANGED <<prompts, request, faults>> /\ work[w].stage = "save"
    BY DEF SaveJob
  <2> QED
    BY <2>1, JobAssumption DEF JobsInv, Types, RequestTypes
<1>2. /\ result.key \in Keys /\ result.token \in Nat /\ result.token # 0 /\ result.state \in Outcomes(result.token)
      /\ work[w] \in WorkRecord
  BY <1>1 DEF WorkTypes, WorkRecord, Results, WorkersInv, WorkerOK
<1>key. PICK k \in Keys : k = result.key
  BY <1>2
<1>3. /\ result.state \in {"COMPLETED", "UNDETERMINED", "RETRY_WAIT", "FAILED"}
      /\ result.state = "RETRY_WAIT" => result.token < Limit
  BY <1>2, OutcomeStates
<1>4. PICK stage \in {"send", "run"}, retries \in SUBSET Keys :
        /\ work[w].claims # {} => stage = "run"
        /\ work'[w] = [stage |-> stage, prompt |-> work[w].prompt, claims |-> work[w].claims,
                       result |-> NoResult, retries |-> retries]
        /\ \A v \in Workers \ {w} : work'[v] = work[v]
        /\ work' = [v \in Workers |-> work'[v]]
  <2> DEFINE stage == IF work[w].claims = {} THEN "send" ELSE "run"
             retries == IF result.state = "RETRY_WAIT" THEN work[w].retries \cup {k} ELSE work[w].retries
  <2>1. work' = [work EXCEPT ![w].stage = stage, ![w].result = NoResult, ![w].retries = retries]
    BY <1>key DEF SaveJob
  <2>2. stage \in {"send", "run"} /\ (work[w].claims # {} => stage = "run")
    OBVIOUS
  <2>3. retries \in SUBSET Keys
    BY <1>key, <1>2 DEF WorkRecord
  <2> HIDE DEF stage, retries
  <2>4. /\ work'[w] = [stage |-> stage, prompt |-> work[w].prompt, claims |-> work[w].claims,
                       result |-> NoResult, retries |-> retries]
        /\ \A v \in Workers \ {w} : work'[v] = work[v]
        /\ work' = [v \in Workers |-> work'[v]]
    BY <1>1, <1>2, <2>1 DEF WorkTypes, WorkRecord
  <2> QED
    BY <2>2, <2>3, <2>4
<1>5. WorkTypes'
  <2>1. work'[w] \in WorkRecord
    BY <1>2, <1>4 DEF WorkRecord, Stages, NoResult, NoJob, Results
  <2> QED
    BY <1>1, <1>4, <2>1 DEF WorkTypes
<1>6. WorkersInv'
  BY <1>1, <1>4 DEF WorkersInv, WorkerOK
<1>7. ASSUME NEW j \in Keys, HeldByWorker(j), job[j].state = "RUNNING",
             [key |-> j, token |-> job[j].token] # [key |-> k, token |-> result.token], job'[j] = job[j]
      PROVE  HeldByWorker(j)'
  <2>1. PICK v \in Workers :
          [key |-> j, token |-> job[j].token] \in
            work[v].claims \cup {[key |-> work[v].result.key, token |-> work[v].result.token]}
    BY <1>7 DEF HeldByWorker
  <2>2. CASE v # w
    BY <1>key, <1>4, <1>7, <2>1, <2>2 DEF HeldByWorker
  <2>3. CASE v = w
    BY <1>key, <1>4, <1>7, <2>1, <2>3 DEF HeldByWorker
  <2> QED
    BY <2>2, <2>3
<1>8. CASE LeaseHeld(result)
  <2>1. /\ job[k].token = result.token /\ job[k].state = "RUNNING"
        /\ job' = [job EXCEPT ![k] = [state |-> result.state, attempts |-> result.token, token |-> 0]]
        /\ ready' = [ready EXCEPT ![k] = FALSE]
    BY <1>key, <1>1, <1>2, <1>8 DEF SaveJob, LeaseHeld, Saved, Row, TableTypes
  <2>2. /\ job'[k] = [state |-> result.state, attempts |-> result.token, token |-> 0] /\ ~ready'[k]
        /\ \A j \in Keys \ {k} : job'[j] = job[j] /\ ready'[j] = ready[j]
    BY <1>1, <1>2, <2>1 DEF TableTypes
  <2>3. TableTypes'
    <3> HIDE DEF result
    <3>1. [state |-> result.state, attempts |-> result.token, token |-> 0]
            \in [state : Active \cup Terminal \cup {"absent"}, attempts : Nat, token : Nat]
      BY <1>2, <1>3 DEF Active, Terminal
    <3>2. job' \in [Keys -> [state : Active \cup Terminal \cup {"absent"}, attempts : Nat, token : Nat]]
      BY <1>1, <2>1, <3>1 DEF TableTypes
    <3>3. ready' \in [Keys -> BOOLEAN]
      BY <1>1, <2>1 DEF TableTypes
    <3>4. \A j \in Keys : job'[j].state = "RUNNING" <=> job'[j].token # 0
      BY <1>1, <1>3, <2>2 DEF TableTypes
    <3> QED
      BY <3>2, <3>3, <3>4 DEF TableTypes
  <2>4. RowOK(k)'
    <3>1. job[k].attempts = result.token /\ result.token <= Limit + faults
      BY <1>1, <1>2, <2>1 DEF RowsInv, RowOK
    <3>2. job'[k].attempts = result.token /\ job'[k].state = result.state
      BY <2>2
    <3>3. job'[k].attempts <= Limit + faults'
      BY <1>1, <3>1, <3>2
    <3> HIDE DEF result
    <3> QED
      BY <1>3, <3>2, <3>3 DEF RowOK
  <2>5. ASSUME NEW j \in Keys, j # k PROVE RowOK(j)'
    <3>1. [key |-> j, token |-> job[j].token] # [key |-> k, token |-> result.token]
      BY <2>5
    <3>2. job[j].state = "RUNNING" /\ HeldByWorker(j) => HeldByWorker(j)'
      BY <1>7, <2>2, <2>5, <3>1
    <3> QED
      BY <1>1, <2>2, <2>5, <3>2, RowKept DEF RowsInv
  <2> QED
    <3> HIDE DEF result
    <3>1. RowsInv'
      BY <2>4, <2>5 DEF RowsInv
    <3>2. RequestTypes'
      BY <1>1 DEF RequestTypes
    <3> QED
      BY <1>5, <1>6, <2>3, <3>1, <3>2 DEF JobsInv, Types
<1>9. CASE ~LeaseHeld(result)
  <2>1. UNCHANGED <<job, ready>> /\ job[k].token # result.token
    BY <1>key, <1>9 DEF SaveJob, LeaseHeld
  <2>2. ASSUME NEW j \in Keys PROVE RowOK(j)'
    <3>1. [key |-> j, token |-> job[j].token] # [key |-> k, token |-> result.token]
      BY <2>1
    <3>2. job[j].state = "RUNNING" /\ HeldByWorker(j) => HeldByWorker(j)'
      BY <1>7, <2>1, <3>1
    <3> QED
      BY <1>1, <2>1, <3>2, RowKept DEF RowsInv
  <2> QED
    BY <1>1, <1>5, <1>6, <2>1, <2>2 DEF JobsInv, Types, TableTypes, RequestTypes, RowsInv
<1> QED
  BY <1>8, <1>9

\* A stopped Worker loses its leases, and counts.
LEMMA StopKeeps ==
  ASSUME JobsInv, NEW w \in Workers, Stop(w), UNCHANGED scenario
  PROVE  JobsInv'
<1>1. /\ work' = [work EXCEPT ![w] = Idle] /\ UNCHANGED <<job, ready, request>>
      /\ faults' = faults + 1 /\ faults < scenario.faults /\ \E keys : Send(keys)
  BY DEF Stop
<1>2. TableTypes /\ WorkTypes /\ WorkersInv /\ RequestTypes /\ RowsInv
  BY DEF JobsInv, Types
<1>3. faults \in Nat /\ faults' \in 0..scenario.faults /\ faults' > faults /\ faults' \in Nat
  BY <1>1, <1>2 DEF RequestTypes
<1>4. RequestTypes'
  BY <1>1, <1>2, <1>3, SendTypes DEF RequestTypes
<1>5. RowsInv'
  BY <1>1, <1>2, <1>3, RowKept DEF RowsInv
<1> QED
  BY <1>1, <1>2, <1>4, <1>5, IdleOK DEF JobsInv, Types, TableTypes

\* An instant passes: a lease that ends under a live Worker counts.
LEMMA InstantKeeps ==
  ASSUME JobsInv, NEW k \in Keys, BecomeReady(k) \/ Overrun(k), UNCHANGED scenario
  PROVE  JobsInv'
<1>1. /\ TableTypes /\ WorkTypes /\ WorkersInv /\ RequestTypes /\ RowsInv
      /\ faults \in Nat /\ Limit \in Nat
  BY JobAssumption DEF JobsInv, Types, RequestTypes
<1>2. /\ ready' = [ready EXCEPT ![k] = TRUE] /\ UNCHANGED <<job, prompts, request, work>>
      /\ job[k].state = "RUNNING" /\ HeldByWorker(k) => faults' = faults + 1
      /\ faults' = faults \/ (faults' = faults + 1 /\ faults < scenario.faults)
  BY DEF BecomeReady, Overrun
<1>3. faults' \in 0..scenario.faults /\ faults' >= faults /\ faults' \in Nat
  BY <1>1, <1>2 DEF RequestTypes
<1>4. TableTypes' /\ WorkTypes' /\ RequestTypes' /\ WorkersInv'
  BY <1>1, <1>2, <1>3 DEF TableTypes, WorkTypes, RequestTypes, WorkersInv, WorkerOK
<1>5. ASSUME NEW j \in Keys, j # k PROVE RowOK(j)'
  <2>1. job'[j] = job[j] /\ ready'[j] = ready[j]
    BY <1>1, <1>2, <1>5 DEF TableTypes
  <2> QED
    BY <1>1, <1>2, <1>3, <2>1, RowUnheld DEF RowsInv
<1>6. RowOK(k)'
  <2>1. job[k].attempts \in Nat /\ RowOK(k)
    BY <1>1 DEF TableTypes, RowsInv
  <2>2. job[k].state = "RUNNING" => job[k].attempts < Limit + faults'
    BY <1>1, <1>2, <1>3, <2>1 DEF RowOK
  <2>3. job[k].attempts <= Limit + faults'
    BY <1>1, <1>3, <2>1 DEF RowOK
  <2> QED
    BY <1>2, <2>1, <2>2, <2>3 DEF RowOK
<1> QED
  BY <1>4, <1>5, <1>6 DEF JobsInv, Types, RowsInv

-------------------------------------------------------------------------------
(* Theorems *)

\* Every step keeps the invariant of the jobs.
LEMMA JobsStep ==
  ASSUME JobsInv, [Next]_vars
  PROVE  JobsInv'
<1>1. CASE UNCHANGED vars
  BY <1>1 DEF vars, JobsInv, Types, TableTypes, WorkTypes, RequestTypes, WorkersInv, WorkerOK, RowsInv,
              RowOK, HeldByWorker
<1>2. ASSUME NEW w \in Workers, WorkStep(w), UNCHANGED scenario PROVE JobsInv'
  BY <1>2, LookKeeps, ObserveKeeps, SaveKeeps DEF WorkStep
<1> QED
  BY <1>1, <1>2, RequestStepKeeps, DeliverKeeps, ClaimDueKeeps, StopKeeps, InstantKeeps DEF Next

\* The inductive invariant of the jobs: types, what Workers hold, and what a row's
\* attempts are worth.
THEOREM JobsInvHolds == Spec => []JobsInv
<1>1. Init => JobsInv
  <2> SUFFICES ASSUME Init PROVE JobsInv
    OBVIOUS
  <2>1. scenario \in Scenarios /\ scenario.faults \in Nat /\ Limit \in Nat /\ MaxPrompts \in Nat
    BY JobAssumption, ScenarioAssumption DEF Init
  <2>2. TableTypes /\ \A k \in Keys : job[k] = [state |-> "absent", attempts |-> 0, token |-> 0]
    BY DEF Init, NoRow, Row, TableTypes
  <2>3. RequestTypes
    BY <2>1 DEF Init, RequestTypes
  <2>4. WorkTypes /\ WorkersInv
    BY DEF Init, WorkTypes, WorkersInv, WorkerOK, Idle, WorkRecord, Stages, NoResult, NoJob, Results
  <2>5. RowsInv
    BY <2>1, <2>2 DEF Init, RowsInv, RowOK, NoRow, Row
  <2> QED
    BY <2>2, <2>3, <2>4, <2>5 DEF JobsInv, Types
<1> QED
  BY <1>1, JobsStep, PTL DEF Spec

\* The table, the queue, the requests and the Workers keep their types.
THEOREM JobsTypeCorrect == Spec => []TypeOK
<1>1. JobsInv => TypeOK
  BY TypesMeanTypeOK DEF JobsInv
<1> QED
  BY <1>1, JobsInvHolds, PTL

\* A job never waits for an attempt beyond the limit, and is claimed beyond it only as
\* often as leases were lost, however the losses fall on the jobs.
THEOREM AttemptsAreBounded == Spec => []AttemptsBounded
<1>1. JobsInv => AttemptsBounded
  BY DEF JobsInv, RowsInv, RowOK, AttemptsBounded
<1> QED
  BY <1>1, JobsInvHolds, PTL

\* What a step may do to a row: insert it, claim it while it is due, or save the outcome
\* of the claim that holds it.
Advances(k) ==
  \/ job'[k] = job[k]
  \/ /\ \E e \in Requests : InsertJob(e) /\ Insertable(k) /\ RequestKey[e] = k
     /\ job'[k] = Row("QUEUED", 0, 0)
  \/ job[k].state \in Active /\ job'[k] = Row("RUNNING", job[k].attempts + 1, job[k].attempts + 1)
  \/ /\ job[k].state = "RUNNING"
     /\ \E state \in {"COMPLETED", "UNDETERMINED", "RETRY_WAIT", "FAILED"} :
          job'[k] = Row(state, job[k].attempts, 0)

\* Every step does to a row what one of the methods does, or nothing.
LEMMA StepAdvances ==
  ASSUME JobsInv, [Next]_vars, NEW k \in Keys
  PROVE  Advances(k)
<1>1. TableTypes /\ WorkTypes /\ WorkersInv /\ RowsInv
  BY DEF JobsInv, Types
<1>2. ASSUME NEW e \in Requests, RequestStep(e) PROVE Advances(k)
  <2>1. CASE InsertJob(e) /\ Insertable(RequestKey[e])
    <3>1. job' = [job EXCEPT ![RequestKey[e]] = Row("QUEUED", 0, 0)]
      BY <2>1 DEF InsertJob
    <3> QED
      BY <1>1, <2>1, <3>1 DEF TableTypes, Advances
  <2> QED
    BY <1>2, <2>1 DEF RequestStep, InsertJob, SelectJob, Dispatch, Advances
<1>3. ASSUME NEW keys, Claimed(keys), \A j \in keys : Claimable(j) PROVE Advances(k)
  BY <1>3 DEF Claimed, Claim, Claimable, Advances
<1>4. ASSUME NEW w \in Workers, SaveJob(w) PROVE Advances(k)
  <2> DEFINE result == work[w].result
  <2>1. /\ result.key \in Keys /\ result.token \in Nat /\ result.token # 0
        /\ result.state \in Outcomes(result.token)
    BY <1>1, <1>4 DEF SaveJob, WorkTypes, WorkRecord, Results, WorkersInv, WorkerOK
  <2>2. result.state \in {"COMPLETED", "UNDETERMINED", "RETRY_WAIT", "FAILED"}
    BY <2>1, OutcomeStates
  <2>3. CASE LeaseHeld(result)
    <3>1. job' = [job EXCEPT ![result.key] = Row(result.state, result.token, 0)]
      BY <1>4, <2>3 DEF SaveJob, Saved
    <3>2. job[result.key].token = result.token /\ job[result.key].state = "RUNNING"
      BY <1>1, <2>1, <2>3 DEF LeaseHeld, TableTypes
    <3>3. job[result.key].attempts = result.token
      BY <1>1, <2>1, <3>2 DEF RowsInv, RowOK
    <3> HIDE DEF result
    <3> QED
      BY <1>1, <2>1, <2>2, <3>1, <3>2, <3>3 DEF TableTypes, Advances
  <2>4. CASE ~LeaseHeld(result)
    BY <1>4, <2>4 DEF SaveJob, Advances
  <2> QED
    BY <2>3, <2>4
<1>5. ASSUME NEW w \in Workers, NEW j \in Keys, Deliver(w, j) PROVE Advances(k)
  <2>1. CASE Claimable(j)
    BY <1>3, <1>5, <2>1 DEF Deliver
  <2> QED
    BY <1>5, <2>1 DEF Deliver, Advances
<1>6. ASSUME NEW w \in Workers, ClaimDue(w) PROVE Advances(k)
  BY <1>3, <1>6 DEF ClaimDue
<1>7. ASSUME NEW w \in Workers, Look(w) \/ Observe(w) \/ Prompt(w) \/ Stop(w) PROVE Advances(k)
  BY <1>7 DEF Look, Observe, Prompt, Stop, Advances
<1>8. CASE (\E j \in Keys : BecomeReady(j) \/ Overrun(j)) \/ UNCHANGED vars
  BY <1>8 DEF BecomeReady, Overrun, vars, Advances
<1> QED
  BY <1>2, <1>4, <1>5, <1>6, <1>7, <1>8 DEF Next, WorkStep

\* A finished job keeps its outcome, no claim is undone and no row disappears: a Worker
\* that lost its lease cannot save over what a later one did.
THEOREM JobsAdvance == Spec => JobsOnlyAdvance
<1>1. ASSUME JobsInv, [Next]_vars, NEW k \in Keys
      PROVE  /\ job[k].state \in Terminal => job'[k] = job[k]
             /\ job'[k].attempts >= job[k].attempts
             /\ job[k].state # "absent" => job'[k].state # "absent"
  <2>1. Advances(k) /\ job[k].attempts \in Nat
    BY <1>1, StepAdvances DEF JobsInv, Types, TableTypes
  <2> QED
    BY <2>1 DEF Advances, Insertable, NoRow, Row, Active, Terminal
<1>2. JobsInv /\ [Next]_vars =>
        [\A k \in Keys :
           /\ job[k].state \in Terminal => job'[k] = job[k]
           /\ job'[k].attempts >= job[k].attempts
           /\ job[k].state # "absent" => job'[k].state # "absent"]_vars
  BY <1>1
<1> QED
  BY <1>2, JobsInvHolds, PTL DEF Spec, JobsOnlyAdvance

-------------------------------------------------------------------------------
(* Coalescing *)

\* The rows for the observation a request asks for.
Known(e) == {j \in Keys : job[j].state # "absent" /\ Coalesce[j] = Coalesce[RequestKey[e]]}
Ended(j) == job[j].state \in Terminal

\* A request that is sent around the loop has seen a row that has ended since, and one
\* that gives up has seen two.
EnqueueOK(e) ==
  /\ request[e].stage \in {"insert", "select"} => request[e].tries \in {0, 1}
  /\ request[e].stage = "select" => Known(e) # {}
  /\ request[e].stage = "insert" /\ request[e].tries = 1 => \E j \in Known(e) : Ended(j)
  /\ request[e].stage = "select" /\ request[e].tries = 1 /\ job[RequestKey[e]].state = "absent" =>
       \E i, j \in Known(e) : i # j /\ Ended(i)
  /\ request[e].stage = "conflict" => \E i, j \in Known(e) : i # j /\ Ended(i) /\ Ended(j)

OneActive ==
  \A j, k \in Keys : job[j].state \in Active /\ job[k].state \in Active /\ Coalesce[j] = Coalesce[k] => j = k

CoalesceInv == OneActive /\ \A e \in Requests : EnqueueOK(e)

\* The unique index admits one active row per observation, and only an insert makes a
\* row active that was not.
LEMMA OneActiveStep ==
  ASSUME JobsInv, OneActive, [Next]_vars
  PROVE  OneActive'
<1>1. \A k \in Keys : Advances(k)
  BY StepAdvances
<1>2. CASE \E e \in Requests : InsertJob(e) /\ Insertable(RequestKey[e])
  <2>1. PICK e \in Requests : InsertJob(e) /\ Insertable(RequestKey[e])
    BY <1>2
  <2> DEFINE new == RequestKey[e]
  <2>2. /\ new \in Keys /\ ActiveTwins(new) = {}
        /\ \A k \in Keys \ {new} : job'[k] = job[k]
    BY <2>1, JobAssumption DEF InsertJob, Insertable, JobsInv, Types, TableTypes
  <2> HIDE DEF new
  <2> QED
    BY <2>2 DEF OneActive, ActiveTwins
<1>3. CASE ~\E e \in Requests : InsertJob(e) /\ Insertable(RequestKey[e])
  <2>1. \A k \in Keys : job'[k].state \in Active => job[k].state \in Active
    BY <1>1, <1>3 DEF Advances, Row, Active
  <2> QED
    BY <2>1 DEF OneActive
<1> QED
  BY <1>2, <1>3

\* What a request has seen stays: rows do not disappear, and ended ones stay ended.
LEMMA KnownStays ==
  ASSUME JobsInv, [Next]_vars, NEW e \in Requests
  PROVE  /\ Known(e) \subseteq Known(e)'
         /\ \A j \in Keys : Ended(j) => Ended(j)'
         /\ \A k \in Keys : job[k].state # "absent" => job'[k].state # "absent"
<1>1. ASSUME NEW k \in Keys
      PROVE  /\ job[k].state \in Terminal => job'[k].state \in Terminal
             /\ job[k].state # "absent" => job'[k].state # "absent"
  <2>1. Advances(k)
    BY StepAdvances
  <2> QED
    BY <2>1 DEF Advances, Insertable, NoRow, Row, Active, Terminal
<1>2. Known(e) \subseteq Known(e)'
  BY <1>1 DEF Known
<1>3. \A j \in Keys : Ended(j) => Ended(j)'
  BY <1>1 DEF Ended
<1> QED
  BY <1>1, <1>2, <1>3

\* What a request has seen of the rows stays true while it waits.
LEMMA EnqueueStays ==
  ASSUME JobsInv, [Next]_vars, NEW e \in Requests, EnqueueOK(e), request'[e] = request[e]
  PROVE  EnqueueOK(e)'
<1>1. /\ Known(e) \subseteq Known(e)'
      /\ \A j \in Keys : Ended(j) => Ended(j)'
      /\ job[RequestKey[e]].state # "absent" => job'[RequestKey[e]].state # "absent"
      /\ Known(e) \subseteq Keys
  BY KnownStays, JobAssumption DEF Known
<1> QED
  BY <1>1 DEF EnqueueOK

\* An insert fails against a row of its own or an active twin; the select after it finds
\* neither only if all rows it has known have ended.
LEMMA EnqueueStep ==
  ASSUME JobsInv, [Next]_vars, NEW e \in Requests, EnqueueOK(e), RequestStep(e)
  PROVE  EnqueueOK(e)'
<1> DEFINE k == RequestKey[e]
<1>1. /\ k \in Keys
      /\ request \in [Requests -> [stage : {"insert", "select", "send", "answered", "conflict"},
                                   tries : 0..2, found : Keys \cup {NoJob}]]
      /\ job[k].state = "absent" <=> job[k] = NoRow
  BY JobAssumption DEF JobsInv, Types, RequestTypes, RowsInv, RowOK, NoRow, Row
<1>2. CASE InsertJob(e) /\ ~Insertable(k)
  <2>1. /\ UNCHANGED job /\ request[e].stage = "insert"
        /\ request'[e].stage = "select" /\ request'[e].tries = request[e].tries
    BY <1>1, <1>2 DEF InsertJob
  <2>2. Known(e)' = Known(e) /\ \A j \in Keys : Ended(j)' <=> Ended(j)
    BY <2>1 DEF Known, Ended
  <2>3. job[k].state # "absent" \/ \E j \in Known(e) : job[j].state \in Active
    BY <1>1, <1>2 DEF Insertable, ActiveTwins, Known, Active
  <2>4. job[k].state # "absent" => k \in Known(e)
    BY <1>1 DEF Known
  <2>5. \A j \in Known(e) : j \in Keys /\ (job[j].state \in Active => ~Ended(j))
    BY DEF Known, Ended, Active, Terminal
  <2>6. /\ Known(e) # {} /\ request[e].tries \in {0, 1}
        /\ request[e].tries = 1 /\ job[k].state = "absent" => \E i, j \in Known(e) : i # j /\ Ended(i)
    BY <2>1, <2>3, <2>4, <2>5 DEF EnqueueOK
  <2> QED
    BY <2>1, <2>2, <2>5, <2>6 DEF EnqueueOK
<1>3. CASE SelectJob(e) /\ job[k] = NoRow /\ ActiveTwins(k) = {}
  <2>1. /\ UNCHANGED job /\ request[e].stage = "select" /\ request'[e].tries = request[e].tries + 1
        /\ request'[e].stage = IF request[e].tries + 1 < EnqueueAttempts THEN "insert" ELSE "conflict"
    BY <1>1, <1>3 DEF SelectJob
  <2>2. Known(e)' = Known(e) /\ \A j \in Keys : Ended(j)' <=> Ended(j)
    BY <2>1 DEF Known, Ended
  <2>3. \A j \in Known(e) : j \in Keys /\ Ended(j)
    <3>1. \A j \in Keys : job[j].state \in Active \cup Terminal \cup {"absent"}
      BY DEF JobsInv, Types, TableTypes
    <3> QED
      BY <1>3, <3>1 DEF Known, Ended, ActiveTwins
  <2>4. /\ request[e].tries \in {0, 1} /\ Known(e) # {}
        /\ request[e].tries = 1 => \E i, j \in Known(e) : i # j /\ Ended(i)
    BY <1>1, <1>3, <2>1 DEF EnqueueOK
  <2>5. CASE request[e].tries = 0
    BY <2>1, <2>2, <2>3, <2>4, <2>5 DEF EnqueueOK, EnqueueAttempts
  <2>6. CASE request[e].tries = 1
    BY <2>1, <2>2, <2>3, <2>4, <2>6 DEF EnqueueOK, EnqueueAttempts
  <2> QED
    BY <2>4, <2>5, <2>6
<1>4. CASE request'[e].stage \in {"send", "answered"}
  BY <1>4 DEF EnqueueOK
<1>5. \/ InsertJob(e) /\ ~Insertable(k)
      \/ SelectJob(e) /\ job[k] = NoRow /\ ActiveTwins(k) = {}
      \/ request'[e].stage \in {"send", "answered"}
  BY <1>1 DEF RequestStep, InsertJob, SelectJob, Dispatch
<1> QED
  BY <1>2, <1>3, <1>4, <1>5

\* What every request has seen stays true, whoever moves.
LEMMA EnqueuesStep ==
  ASSUME JobsInv, [Next]_vars, NEW e \in Requests, EnqueueOK(e)
  PROVE  EnqueueOK(e)'
<1>1. RequestStep(e) \/ request'[e] = request[e]
  <2>1. ASSUME NEW d \in Requests, RequestStep(d), d # e PROVE request'[e] = request[e]
    <3>1. request \in [Requests -> [stage : {"insert", "select", "send", "answered", "conflict"},
                                   tries : 0..2, found : Keys \cup {NoJob}]]
      BY DEF JobsInv, Types, RequestTypes
    <3> QED
      BY <2>1, <3>1 DEF RequestStep, InsertJob, SelectJob, Dispatch
  <2>2. ASSUME NEW w \in Workers, ClaimDue(w) \/ WorkStep(w) \/ Stop(w) \/ \E k \in Keys : Deliver(w, k)
        PROVE  request'[e] = request[e]
    BY <2>2 DEF ClaimDue, WorkStep, Look, Observe, SaveJob, Prompt, Stop, Deliver
  <2>3. ASSUME (\E k \in Keys : BecomeReady(k) \/ Overrun(k)) \/ UNCHANGED vars PROVE request'[e] = request[e]
    BY <2>3 DEF BecomeReady, Overrun, vars
  <2> QED
    BY <2>1, <2>2, <2>3 DEF Next
<1> QED
  BY <1>1, EnqueueStep, EnqueueStays

\* Requests for one observation share one active job, and an enqueue fails only if two
\* jobs of its observation ended in the meantime, whatever interleaves.
THEOREM RequestsDoCoalesce == Spec => []RequestsCoalesce
<1>1. Init => CoalesceInv
  BY DEF Init, CoalesceInv, OneActive, EnqueueOK, NoRow, Row, Active
<1>2. JobsInv /\ CoalesceInv /\ [Next]_vars => CoalesceInv'
  BY OneActiveStep, EnqueuesStep DEF CoalesceInv
<1>3. CoalesceInv => RequestsCoalesce
  <2> SUFFICES ASSUME CoalesceInv, NEW e \in Requests, request[e].stage = "conflict"
               PROVE  Cardinality({k \in Keys : Ended(k) /\ Coalesce[k] = Coalesce[RequestKey[e]]}) >= 2
    BY DEF CoalesceInv, OneActive, RequestsCoalesce, Ended
  <2> DEFINE over == {k \in Keys : Ended(k) /\ Coalesce[k] = Coalesce[RequestKey[e]]}
  <2>1. PICK i, j \in Known(e) : i # j /\ Ended(i) /\ Ended(j)
    BY DEF CoalesceInv, EnqueueOK
  <2>2. {i, j} \subseteq over
    BY <2>1 DEF Known
  <2>3. IsFiniteSet(over)
    BY FS_Subset, JobAssumption
  <2>4. IsFiniteSet({i}) /\ Cardinality({i}) = 1
    BY FS_Singleton
  <2>5. Cardinality({i} \cup {j}) = 2
    <3>1. j \notin {i}
      BY <2>1
    <3>2. Cardinality({i} \cup {j}) = Cardinality({i}) + 1
      BY <2>4, <3>1, FS_AddElement
    <3> QED
      BY <2>4, <3>2
  <2>6. {i, j} = {i} \cup {j}
    OBVIOUS
  <2> HIDE DEF over
  <2>7. Cardinality(over) \in Nat /\ Cardinality({i, j}) <= Cardinality(over)
    BY <2>2, <2>3, FS_Subset, FS_CardinalityType
  <2>8. Cardinality(over) >= 2
    BY <2>5, <2>6, <2>7
  <2> QED
    BY <2>8 DEF over
<1> QED
  BY <1>1, <1>2, <1>3, JobsInvHolds, PTL DEF Spec
===============================================================================
