--------------------------- MODULE ObservationJobs ---------------------------
(***************************************************************************)
(* Follow-up observations on Cloudflare: a table of jobs in D1, a queue of *)
(* prompts and a cron trigger.  A prompt only wakes a Worker; whoever      *)
(* claims the row, by a conditional UPDATE that leases it under a fresh    *)
(* token, runs the observation and saves its outcome under that token.  A  *)
(* Worker may be stopped at any point, and may outlive its own lease.      *)
(*                                                                         *)
(* Time is abstracted: ready[k] says that the instant row k waits for (its *)
(* next attempt, or the end of its lease) has passed.  The lease token is  *)
(* named by the row's claim count at the claim, which no two claims of a   *)
(* row share; 0 is the NULL token of a row that nobody holds.              *)
(***************************************************************************)
EXTENDS Naturals, FiniteSets

CONSTANTS
  Keys,        \* idempotency keys, unique in the table: they identify the rows
  Coalesce,    \* Coalesce[k]: the coalesce key that jobs for one observation share
  Requests,    \* requests that enqueue a follow-up
  RequestKey,  \* RequestKey[e]: the idempotency key request e asks for
  Consumers,   \* concurrent queue deliveries
  Crons,       \* scheduled invocations that may overlap
  Limit,       \* maxAttempts of the retry policy
  BatchSize,   \* jobs one scheduled invocation claims
  MaxPrompts,  \* bound on the outstanding prompts of a job
  Scenarios    \* [requests, workers, faults]: who takes part in a behaviour, and the bound
               \* on stopped Workers and on leases that run out under a live one

ASSUME JobAssumption ==
  /\ IsFiniteSet(Keys)
  /\ \A e \in Requests : RequestKey[e] \in Keys
  /\ Keys \subseteq DOMAIN Coalesce
  /\ {Limit, BatchSize, MaxPrompts} \subseteq Nat \ {0}

Workers == Consumers \cup Crons

ASSUME ScenarioAssumption ==
  Scenarios \subseteq [requests : SUBSET Requests, workers : SUBSET Workers, faults : Nat]

VARIABLES
  scenario, \* who takes part in this behaviour
  job,      \* job[k]: [state, attempts, token]
  ready,    \* ready[k]: the instant the row waits for has passed
  prompts,  \* prompts[k]: prompts for job k in the queue
  request,  \* request[e]: [stage, tries, found]
  work,     \* work[w]: [stage, prompt, claims, result, retries]
  faults    \* stopped Workers and leases lost by live ones so far (bounded)

vars == <<scenario, job, ready, prompts, request, work, faults>>

Active == {"QUEUED", "RUNNING", "RETRY_WAIT"}
Terminal == {"COMPLETED", "UNDETERMINED", "FAILED"}

Row(state, attempts, token) == [state |-> state, attempts |-> attempts, token |-> token]
NoRow == Row("absent", 0, 0)
NoJob == "none"
\* What a Worker knows of a row it has claimed.
Claim(k) == [key |-> k, token |-> job[k].attempts + 1]
NoResult == [key |-> NoJob, token |-> 0, state |-> "none"]
Idle == [stage |-> "idle", prompt |-> NoJob, claims |-> {}, result |-> NoResult, retries |-> {}]

Init ==
  /\ scenario \in Scenarios
  /\ job = [k \in Keys |-> NoRow]
  /\ ready = [k \in Keys |-> FALSE]
  /\ prompts = [k \in Keys |-> 0]
  /\ request = [e \in Requests |-> [stage |-> IF e \in scenario.requests THEN "insert" ELSE "answered",
                                    tries |-> 0, found |-> NoJob]]
  /\ work = [w \in Workers |-> Idle]
  /\ faults = 0

\* queue.send; a prompt beyond the bound counts as one the queue has dropped.
Send(keys) ==
  prompts' = [k \in Keys |-> IF k \in keys /\ prompts[k] < MaxPrompts THEN prompts[k] + 1 ELSE prompts[k]]

-------------------------------------------------------------------------------
(* A request: enqueueJob, then one prompt for the job it returned *)

ActiveTwins(k) == {j \in Keys : job[j].state \in Active /\ Coalesce[j] = Coalesce[k]}

\* Variant: active coalesce keys are not unique.
InsertableUnindexed(k) == job[k] = NoRow
\* The unique idempotency key, and the unique index over active coalesce keys.
Insertable(k) == job[k] = NoRow /\ ActiveTwins(k) = {}

\* INSERT ... ON CONFLICT DO NOTHING.
InsertJob(e) ==
  LET k == RequestKey[e]
  IN /\ request[e].stage = "insert"
     /\ IF Insertable(k)
        THEN /\ job' = [job EXCEPT ![k] = Row("QUEUED", 0, 0)]
             /\ ready' = [ready EXCEPT ![k] = TRUE]
             /\ request' = [request EXCEPT ![e].stage = "send", ![e].found = k]
        ELSE /\ request' = [request EXCEPT ![e].stage = "select"]
             /\ UNCHANGED <<job, ready>>
     /\ UNCHANGED <<prompts, work, faults>>

EnqueueAttempts == 2

\* The row of the own key is preferred; without any row the insert is tried again.
SelectJob(e) ==
  LET k == RequestKey[e]
      found == IF job[k] # NoRow THEN {k} ELSE ActiveTwins(k)
  IN /\ request[e].stage = "select"
     /\ \/ \E j \in found : request' = [request EXCEPT ![e].stage = "send", ![e].found = j]
        \/ /\ found = {}
           /\ request' = [request EXCEPT
                ![e].tries = @ + 1,
                ![e].stage = IF request[e].tries + 1 < EnqueueAttempts THEN "insert" ELSE "conflict"]
     /\ UNCHANGED <<job, ready, prompts, work, faults>>

\* dispatchObservationJob; the request may also be stopped before it prompts anyone.
Dispatch(e) ==
  /\ request[e].stage = "send"
  /\ \/ Send({request[e].found}) /\ UNCHANGED faults
     \/ faults < scenario.faults /\ faults' = faults + 1 /\ UNCHANGED prompts
  /\ request' = [request EXCEPT ![e].stage = "answered"]
  /\ UNCHANGED <<job, ready, work>>

-------------------------------------------------------------------------------
(* Waking up: a prompt claims its job, a scheduled invocation what is due *)

\* Variant: a running job is never claimed again.
ClaimableWaiting(k) == job[k].state \in {"QUEUED", "RETRY_WAIT"} /\ ready[k]
\* A due job that waits, or a running one whose lease has ended.
Claimable(k) == job[k].state \in Active /\ ready[k]

Claimed(keys) ==
  /\ job' = [k \in Keys |-> IF k \in keys
                            THEN Row("RUNNING", job[k].attempts + 1, Claim(k).token)
                            ELSE job[k]]
  /\ ready' = [k \in Keys |-> ready[k] /\ k \notin keys]

\* claimJob for one delivered prompt; if the claim fails the row is only read.
Deliver(w, k) ==
  /\ w \in Consumers \cap scenario.workers /\ work[w] = Idle
  /\ prompts[k] > 0
  /\ prompts' = [prompts EXCEPT ![k] = @ - 1]
  /\ IF Claimable(k)
     THEN /\ Claimed({k})
          /\ work' = [work EXCEPT ![w] = [Idle EXCEPT !.stage = "run", !.prompt = k, !.claims = {Claim(k)}]]
     ELSE /\ work' = [work EXCEPT ![w] = [Idle EXCEPT !.stage = "look", !.prompt = k]]
          /\ UNCHANGED <<job, ready>>
  /\ UNCHANGED <<request, faults>>

\* getJob, and the prompt is sent again while the job is active.
Look(w) ==
  /\ work[w].stage = "look"
  /\ Send({k \in {work[w].prompt} : job[k].state \in Active})
  /\ work' = [work EXCEPT ![w] = Idle]
  /\ UNCHANGED <<job, ready, request, faults>>

\* claimDueJobs: up to BatchSize due jobs in one statement.
ClaimDue(w) ==
  LET due == {k \in Keys : Claimable(k)}
  IN /\ w \in Crons \cap scenario.workers /\ work[w] = Idle
     /\ \E keys \in SUBSET due \ {{}} :
          /\ keys = due \/ Cardinality(keys) = BatchSize
          /\ Cardinality(keys) <= BatchSize
          /\ Claimed(keys)
          /\ work' = [work EXCEPT ![w] = [Idle EXCEPT !.stage = "run", !.claims = {Claim(k) : k \in keys}]]
     /\ UNCHANGED <<prompts, request, faults>>

-------------------------------------------------------------------------------
(* Running: processJobs, one claimed job after the other *)

\* Variant: one attempt too many.
RetryAtLimit(attempts) == attempts <= Limit
\* Another attempt is allowed.
Retry(attempts) == attempts < Limit

\* The state a job reaches by an observation that is final, that is inconclusive
\* for now, that is none of both, or that throws.
Outcomes(attempts) ==
  {"COMPLETED", "UNDETERMINED"} \cup IF Retry(attempts) THEN {"RETRY_WAIT"} ELSE {"FAILED"}

Observe(w) ==
  /\ work[w].stage = "run"
  /\ \E claim \in work[w].claims : \E state \in Outcomes(claim.token) :
       work' = [work EXCEPT ![w].stage = "save", ![w].claims = @ \ {claim},
                            ![w].result = [key |-> claim.key, token |-> claim.token, state |-> state]]
  /\ UNCHANGED <<job, ready, prompts, request, faults>>

\* Variant: the save does not ask for the lease token.
LeaseHeldUnfenced(result) == TRUE
LeaseHeld(result) == job[result.key].token = result.token

\* Variant: the lease stays on the saved row.
SavedLeased(result) == Row(result.state, result.token, result.token)
Saved(result) == Row(result.state, result.token, 0)

\* saveJob: an UPDATE that matches no row once the lease has passed to another
\* Worker.  The Worker's own copy of the job decides whether it prompts again.
SaveJob(w) ==
  LET result == work[w].result
      k == result.key
  IN /\ work[w].stage = "save"
     /\ IF LeaseHeld(result)
        THEN /\ job' = [job EXCEPT ![k] = Saved(result)]
             /\ ready' = [ready EXCEPT ![k] = FALSE]
        ELSE UNCHANGED <<job, ready>>
     /\ work' = [work EXCEPT ![w].stage = IF work[w].claims = {} THEN "send" ELSE "run",
                             ![w].result = NoResult,
                             ![w].retries = IF result.state = "RETRY_WAIT" THEN @ \cup {k} ELSE @]
     /\ UNCHANGED <<prompts, request, faults>>

\* The message is acknowledged, or the scheduled invocation ends.
Prompt(w) ==
  /\ work[w].stage = "send"
  /\ Send(work[w].retries)
  /\ work' = [work EXCEPT ![w] = Idle]
  /\ UNCHANGED <<job, ready, request, faults>>

\* A Worker is stopped or the database fails it; an unacknowledged message is
\* delivered again, unless its retries are used up.
Stop(w) ==
  /\ work[w] # Idle
  /\ faults < scenario.faults
  /\ faults' = faults + 1
  /\ \E again \in SUBSET (Keys \cap {work[w].prompt}) : Send(again)
  /\ work' = [work EXCEPT ![w] = Idle]
  /\ UNCHANGED <<job, ready, request>>

-------------------------------------------------------------------------------
(* Time *)

\* Some Worker still runs the claim that holds row k.
HeldByWorker(k) ==
  \E w \in Workers :
    [key |-> k, token |-> job[k].token] \in
      work[w].claims \cup {[key |-> work[w].result.key, token |-> work[w].result.token]}

\* The next attempt comes due, or the lease of a lost Worker ends.
BecomeReady(k) ==
  /\ job[k].state \in Active /\ ~ready[k]
  /\ job[k].state = "RUNNING" => ~HeldByWorker(k)
  /\ ready' = [ready EXCEPT ![k] = TRUE]
  /\ UNCHANGED <<job, prompts, request, work, faults>>

\* The lease ends while the Worker that holds it is still at work.
Overrun(k) ==
  /\ job[k].state = "RUNNING" /\ ~ready[k] /\ HeldByWorker(k)
  /\ faults < scenario.faults
  /\ faults' = faults + 1
  /\ ready' = [ready EXCEPT ![k] = TRUE]
  /\ UNCHANGED <<job, prompts, request, work>>

RequestStep(e) == InsertJob(e) \/ SelectJob(e) \/ Dispatch(e)
WorkStep(w) == Look(w) \/ Observe(w) \/ SaveJob(w) \/ Prompt(w)

Next ==
  /\ \/ \E e \in Requests : RequestStep(e)
     \/ \E w \in Workers : ClaimDue(w) \/ WorkStep(w) \/ Stop(w) \/ \E k \in Keys : Deliver(w, k)
     \/ \E k \in Keys : BecomeReady(k) \/ Overrun(k)
  /\ UNCHANGED scenario

Spec == Init /\ [][Next]_vars

\* The cron trigger keeps firing, instants pass, and a Worker that is not
\* stopped goes on; the delivery of prompts is not assumed.
FairSpec ==
  /\ Spec
  /\ \A w \in Workers : WF_vars(WorkStep(w) /\ UNCHANGED scenario)
  /\ \A w \in Crons : WF_vars(ClaimDue(w) /\ UNCHANGED scenario)
  /\ \A k \in Keys : WF_vars(BecomeReady(k) /\ UNCHANGED scenario)

-------------------------------------------------------------------------------
(* Properties *)

Stages == {"idle", "look", "run", "save", "send"}
Claims == [key : Keys, token : Nat]

\* The type invariant of the table, the queue, the requests and the Workers.
TypeOK ==
  /\ job \in [Keys -> [state : Active \cup Terminal \cup {"absent"}, attempts : Nat, token : Nat]]
  /\ \A k \in Keys : job[k].state = "RUNNING" <=> job[k].token # 0
  /\ ready \in [Keys -> BOOLEAN]
  /\ prompts \in [Keys -> 0..MaxPrompts]
  /\ request \in [Requests -> [stage : {"insert", "select", "send", "answered", "conflict"},
                               tries : 0..2, found : Keys \cup {NoJob}]]
  /\ \A w \in Workers : work[w].stage \in Stages /\ work[w].claims \subseteq Claims
  /\ faults \in 0..scenario.faults

\* Requests for one observation share one active job, however their inserts,
\* selects and the end of earlier jobs interleave; an enqueue fails only if two
\* jobs of its observation ended in the meantime.
RequestsCoalesce ==
  /\ \A j, k \in Keys : job[j].state \in Active /\ job[k].state \in Active /\ Coalesce[j] = Coalesce[k] => j = k
  /\ \A e \in Requests : request[e].stage = "conflict" =>
       Cardinality({k \in Keys : job[k].state \in Terminal /\ Coalesce[k] = Coalesce[RequestKey[e]]}) >= 2

\* The retry policy bounds the observations of a job: a job never waits for an
\* attempt beyond the limit, and only lost leases make it claim more often.
AttemptsBounded ==
  \A k \in Keys :
    /\ job[k].state = "RETRY_WAIT" => job[k].attempts < Limit
    /\ job[k].attempts <= Limit + faults

\* A finished job keeps its outcome and no claim is ever undone: a Worker that
\* lost its lease cannot save over what a later one did.
JobsOnlyAdvance ==
  [][ \A k \in Keys :
        /\ job[k].state \in Terminal => job'[k] = job[k]
        /\ job'[k].attempts >= job[k].attempts
        /\ job[k].state # "absent" => job'[k].state # "absent" ]_vars

\* A job that was enqueued is eventually finished, although prompts are lost,
\* requests stop before they prompt, Workers are stopped and leases overrun.
\* Every scenario has a cron trigger; nothing else is sure to run a job.
JobsFinish == \A k \in Keys : job[k].state \in Active ~> job[k].state \in Terminal
===============================================================================
