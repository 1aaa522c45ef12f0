---------------------------- MODULE AgentDispatch ----------------------------
(***************************************************************************)
(* Dispatching and polling agent jobs (maos_runtime/a2a_runtime.py and     *)
(* a2a_task_store.py): the activities send_message and poll_task, with     *)
(* Temporal's retries, the task store in memory and its registry on disk,  *)
(* crashes of the worker process, and the agent services outside.          *)
(*                                                                         *)
(* A task is one idempotency key, that is one node instance of a workflow. *)
(* The activities are `async def` functions that block the worker's event  *)
(* loop, so none interrupts another; a step ends where a call to a service *)
(* or a crash can separate its effects.                                    *)
(*                                                                         *)
(* Tasks are abstracted to their A2A state and the job they stand for.     *)
(***************************************************************************)
EXTENDS Integers, Sequences

CONSTANTS
  Task,         \* idempotency keys
  MaxAttempts,  \* DISPATCH_RETRY_POLICY.maximum_attempts
  MaxCrashes    \* bound: crashes of the worker process

Backend == {"simulator", "multica", "multica_job", "hermes"}

ASSUME DispatchAssumption ==
  /\ MaxAttempts \in Nat \ {0}
  /\ MaxCrashes \in Nat

VARIABLES
  kind,       \* backend of each task's agent, by its node's agent_provider
  step,       \* where the workflow stands with the node: see Step
  attempt,    \* number of the current dispatch attempt
  expired,    \* the node's timeout_seconds are over
  hint,       \* the A2A task as the workflow last saw it
  event,      \* the A2A task of the last callback signalled and not yet consumed
  inHand,     \* job that the running attempt got but has not stored, or 0
  tasks,      \* TASKS, in the worker's memory
  jobCache,   \* _MULTICA_JOB_BY_IDEMPOTENCY and _HERMES_JOBS, in memory
  registry,   \* the registry file
  jobs,       \* jobs[t][j]: status of the j-th job created for t (external)
  reachable,  \* whether the agent services answer (external)
  crashes     \* crashes so far

vars == <<kind, step, attempt, expired, hint, event, inHand, tasks, jobCache, registry,
          jobs, reachable, crashes>>

Step == {"dispatch", "wait", "completed", "failed"}
Verdict == {"completed", "failed"}
JobStatus == {"open", "lost"} \union Verdict
NoTask == [state |-> "none", job |-> 0]
Working(j) == [state |-> "working", job |-> j]
TaskRecord == [state : {"none", "working"} \union Verdict, job : Nat]

TypeOK ==
  /\ kind \in [Task -> Backend]
  /\ step \in [Task -> Step]
  /\ attempt \in [Task -> 1..MaxAttempts]
  /\ expired \in [Task -> BOOLEAN]
  /\ hint \in [Task -> TaskRecord]
  /\ event \in [Task -> TaskRecord]
  /\ inHand \in [Task -> Nat]
  /\ tasks \in [Task -> TaskRecord]
  /\ jobCache \in [Task -> Nat]
  /\ registry \in [Task -> TaskRecord]
  /\ jobs \in [Task -> Seq(JobStatus)]
  /\ reachable \in BOOLEAN
  /\ crashes \in 0..MaxCrashes

Init ==
  /\ kind \in [Task -> Backend]
  /\ step = [t \in Task |-> "dispatch"]
  /\ attempt = [t \in Task |-> 1]
  /\ expired = [t \in Task |-> FALSE]
  /\ hint = [t \in Task |-> NoTask]
  /\ event = [t \in Task |-> NoTask]
  /\ inHand = [t \in Task |-> 0]
  /\ tasks = [t \in Task |-> NoTask]
  /\ jobCache = [t \in Task |-> 0]
  /\ registry = [t \in Task |-> NoTask]
  /\ jobs = [t \in Task |-> <<>>]
  /\ reachable = TRUE
  /\ crashes = 0
-----------------------------------------------------------------------------
(* send_message, as an activity with at most MaxAttempts attempts.         *)

\* Faulty variant: only the memory of this process is searched.
FoundInMemory(t) == tasks[t]

\* task_for_idempotency_key: the memory first, then the registry.
Found(t) == IF tasks[t] # NoTask THEN tasks[t] ELSE registry[t]

\* The attempt raises, or its reply is lost: retry, or fail the node.
AttemptFails(t) ==
  /\ IF attempt[t] < MaxAttempts
     THEN attempt' = [attempt EXCEPT ![t] = @ + 1] /\ UNCHANGED step
     ELSE step' = [step EXCEPT ![t] = "failed"] /\ UNCHANGED attempt

\* The workflow gets the task and waits for its end.
Reply(t, record) ==
  /\ step' = [step EXCEPT ![t] = "wait"]
  /\ hint' = [hint EXCEPT ![t] = record]
  /\ UNCHANGED attempt

ReplyOrFail(t, record) == Reply(t, record) \/ (AttemptFails(t) /\ UNCHANGED hint)

SendReuses(t) ==
  /\ step[t] = "dispatch" /\ inHand[t] = 0
  /\ Found(t) # NoTask
  /\ tasks' = [tasks EXCEPT ![t] = Found(t)]
  /\ ReplyOrFail(t, Found(t))
  /\ UNCHANGED <<expired, event, inHand, jobCache, registry, jobs, reachable, crashes>>

\* The job, if any, that the provider finds before it creates one.  The AgentService
\* is asked for its tasks, the simulator's job id is derived from the key, and the
\* other providers look in the memory of the process.
JobsFound(t) == IF kind[t] \in {"multica", "simulator"} THEN DOMAIN jobs[t] ELSE {jobCache[t]} \ {0}

Remembers(t) == kind[t] \in {"multica_job", "hermes"}
Answers(t) == reachable \/ kind[t] = "hermes"

SendFinds(t) ==
  /\ step[t] = "dispatch" /\ inHand[t] = 0
  /\ Found(t) = NoTask
  /\ Answers(t)
  /\ \E j \in JobsFound(t) : inHand' = [inHand EXCEPT ![t] = j]
  /\ UNCHANGED <<step, attempt, expired, hint, event, tasks, jobCache, registry, jobs,
                 reachable, crashes>>

\* Nothing was found, or the AgentService did not list its tasks: create a job.  The
\* service's reply may be lost; Hermes runs in this process and always replies.
SendCreates(t) ==
  /\ step[t] = "dispatch" /\ inHand[t] = 0
  /\ Found(t) = NoTask
  /\ Answers(t)
  /\ JobsFound(t) = {} \/ kind[t] = "multica"
  /\ jobs' = [jobs EXCEPT ![t] = Append(@, "open")]
  /\ \/ /\ inHand' = [inHand EXCEPT ![t] = Len(jobs'[t])]
        /\ jobCache' = IF Remembers(t) THEN [jobCache EXCEPT ![t] = Len(jobs'[t])] ELSE jobCache
        /\ UNCHANGED <<step, attempt>>
     \/ /\ kind[t] # "hermes"
        /\ AttemptFails(t)
        /\ UNCHANGED <<inHand, jobCache>>
  /\ UNCHANGED <<expired, hint, event, tasks, registry, reachable, crashes>>

\* Faulty variant: a refused request is not counted as an attempt.
RefusedForFree(t) == step[t] = "dispatch" /\ ~Answers(t) /\ UNCHANGED vars

SendRefused(t) ==
  /\ step[t] = "dispatch" /\ inHand[t] = 0
  /\ Found(t) = NoTask
  /\ ~Answers(t)
  /\ AttemptFails(t)
  /\ UNCHANGED <<expired, hint, event, inHand, tasks, jobCache, registry, jobs, reachable, crashes>>

\* store_task: the memory, then the registry, whose write may fail.
SendStores(t) ==
  LET record == Working(inHand[t])
  IN /\ inHand[t] # 0
     /\ tasks' = [tasks EXCEPT ![t] = record]
     /\ inHand' = [inHand EXCEPT ![t] = 0]
     /\ \/ registry' = [registry EXCEPT ![t] = record] /\ ReplyOrFail(t, record)
        \/ UNCHANGED <<registry, hint>> /\ AttemptFails(t)
     /\ UNCHANGED <<expired, event, jobCache, jobs, reachable, crashes>>
-----------------------------------------------------------------------------
(* poll_task, an activity that Temporal retries until it replies.          *)

\* Faulty variant: after a restart the task is looked up by name only.
JobOfName(t) == IF tasks[t] # NoTask THEN tasks[t] ELSE Working(Len(jobs[t]))

\* The stored task, or the workflow's own copy of it after a restart.
Polled(t) == IF tasks[t] # NoTask THEN tasks[t] ELSE hint[t]

\* What the provider sees of the job: a Hermes job dies with its process.
JobSeen(t) ==
  IF kind[t] = "hermes" /\ jobCache[t] = 0 THEN "failed" ELSE jobs[t][Polled(t).job]

Polling(t) == step[t] = "wait" /\ kind[t] # "simulator"

\* The job is still open.  The deadline is checked after a reply, never before.
PollPending(t) ==
  /\ Polling(t) /\ Answers(t)
  /\ JobSeen(t) = "open"
  /\ tasks' = [tasks EXCEPT ![t] = Polled(t)]
  /\ hint' = [hint EXCEPT ![t] = Polled(t)]
  /\ step' = IF expired[t] THEN [step EXCEPT ![t] = "failed"] ELSE step
  /\ UNCHANGED <<attempt, expired, event, inHand, jobCache, registry, jobs, reachable, crashes>>

\* The request or the reply is lost: the activity is retried.
PollFails(t) ==
  /\ Polling(t)
  /\ tasks' = [tasks EXCEPT ![t] = Polled(t)]
  /\ UNCHANGED <<step, attempt, expired, hint, event, inHand, jobCache, registry, jobs,
                 reachable, crashes>>

Ended(record, verdict) == [record EXCEPT !.state = verdict]

\* The job is over: store its verdict, in memory and in the registry, and reply.  A
\* failed write or a lost reply leaves the workflow polling.
PollEnds(t) ==
  /\ Polling(t) /\ Answers(t)
  /\ JobSeen(t) \in Verdict
  /\ LET record == Ended(Polled(t), JobSeen(t))
     IN /\ tasks' = [tasks EXCEPT ![t] = record]
        /\ \/ /\ registry' = [registry EXCEPT ![t] = record]
              /\ \/ /\ step' = [step EXCEPT ![t] = JobSeen(t)]
                    /\ hint' = [hint EXCEPT ![t] = record]
                 \/ UNCHANGED <<step, hint>>
           \/ UNCHANGED <<registry, step, hint>>
  /\ UNCHANGED <<attempt, expired, event, inHand, jobCache, jobs, reachable, crashes>>
-----------------------------------------------------------------------------
(* Callbacks of the simulator (complete_task_from_agent_callback).         *)

\* What a callback makes of the task: a progress report, however late, leaves its
\* state alone, and a verdict is the one of the job.
CallbackRecord(t) ==
  {Found(t)} \union {Ended(Found(t), v) : v \in {jobs[t][1]} \intersect Verdict}

\* Store the task and signal it to the workflow.  The callback of an unknown task
\* raises KeyError; a failed write or a failed signal loses what comes after it.
Callback(t) ==
  /\ kind[t] = "simulator" /\ jobs[t] # <<>>
  /\ Found(t) # NoTask
  /\ \E record \in CallbackRecord(t) :
       /\ tasks' = [tasks EXCEPT ![t] = record]
       /\ \/ UNCHANGED <<registry, event>>
          \/ /\ registry' = [registry EXCEPT ![t] = record]
             /\ \/ event' = [event EXCEPT ![t] = record]
                \/ UNCHANGED event
  /\ UNCHANGED <<step, attempt, expired, hint, inHand, jobCache, jobs, reachable, crashes>>

\* A task that a callback brings along is none of ours: no stored job stands behind it.
\* It counts as "completed" if callback and task both say so and a result is with it.
OwnTask(state) == [state |-> state, job |-> 0]

\* A callback with an a2a_task of its own is signalled as it is: nothing is looked up or
\* stored, and its state is whatever the caller says (external).
CallbackWithTask(t) ==
  /\ kind[t] = "simulator" /\ jobs[t] # <<>>
  /\ \E state \in {"working"} \union Verdict : event' = [event EXCEPT ![t] = OwnTask(state)]
  /\ UNCHANGED <<step, attempt, expired, hint, inHand, tasks, jobCache, registry, jobs,
                 reachable, crashes>>

\* Faulty variant: whatever the agent reports counts as success.
AnyOutcome(state) == "completed"

\* The task of the event must be completed to yield a result; one that is still
\* working fails the node.
Outcome(state) == IF state = "completed" THEN "completed" ELSE "failed"

\* Faulty variant: the wait has no timer.
NoTimer(t) == FALSE

TimerFires(t) == event[t] = NoTask /\ expired[t]

\* wait_condition holds and the event is popped, its task being the node's from now on
\* (unless the callback's status is "failed"; but the task of a failed node is not read
\* again); or the timer fires first.
WaitEnds(t) ==
  /\ step[t] = "wait" /\ kind[t] = "simulator"
  /\ \/ /\ event[t] # NoTask
        /\ step' = [step EXCEPT ![t] = Outcome(event[t].state)]
        /\ hint' = [hint EXCEPT ![t] = event[t]]
        /\ event' = [event EXCEPT ![t] = NoTask]
     \/ /\ TimerFires(t)
        /\ step' = [step EXCEPT ![t] = "failed"]
        /\ UNCHANGED <<hint, event>>
  /\ UNCHANGED <<attempt, expired, inHand, tasks, jobCache, registry, jobs, reachable, crashes>>
-----------------------------------------------------------------------------
(* The environment: time, the agents, the network and the worker process.  *)

Expire(t) ==
  /\ step[t] = "wait" /\ ~expired[t]
  /\ expired' = [expired EXCEPT ![t] = TRUE]
  /\ UNCHANGED <<step, attempt, hint, event, inHand, tasks, jobCache, registry, jobs,
                 reachable, crashes>>

JobEnds(t) ==
  /\ \E j \in DOMAIN jobs[t], verdict \in Verdict :
       jobs[t][j] = "open" /\ jobs' = [jobs EXCEPT ![t][j] = verdict]
  /\ UNCHANGED <<step, attempt, expired, hint, event, inHand, tasks, jobCache, registry,
                 reachable, crashes>>

NetworkChanges ==
  /\ reachable' = ~reachable
  /\ UNCHANGED <<step, attempt, expired, hint, event, inHand, tasks, jobCache, registry,
                 jobs, crashes>>

\* The worker restarts: its memory and its Hermes processes are gone, and the attempt
\* it was running fails by its heartbeat timeout.
Crash ==
  /\ crashes < MaxCrashes
  /\ crashes' = crashes + 1
  /\ tasks' = [t \in Task |-> NoTask]
  /\ jobCache' = [t \in Task |-> 0]
  /\ inHand' = [t \in Task |-> 0]
  /\ attempt' = [t \in Task |-> IF inHand[t] # 0 /\ attempt[t] < MaxAttempts
                                THEN attempt[t] + 1 ELSE attempt[t]]
  /\ step' = [t \in Task |-> IF inHand[t] # 0 /\ attempt[t] = MaxAttempts
                             THEN "failed" ELSE step[t]]
  /\ jobs' = [t \in Task |-> IF kind[t] # "hermes" THEN jobs[t]
                             ELSE [j \in DOMAIN jobs[t] |->
                                     IF jobs[t][j] = "open" THEN "lost" ELSE jobs[t][j]]]
  /\ UNCHANGED <<expired, hint, event, registry, reachable>>
-----------------------------------------------------------------------------
\* The send_ and poll_ handler of a provider, in its steps.
Send(t) == SendReuses(t) \/ SendFinds(t) \/ SendCreates(t) \/ SendRefused(t) \/ SendStores(t)
Poll(t) == PollPending(t) \/ PollFails(t) \/ PollEnds(t)

Next ==
  /\ \/ \E t \in Task :
            \/ Send(t) \/ Poll(t) \/ Callback(t) \/ CallbackWithTask(t) \/ WaitEnds(t)
            \/ Expire(t) \/ JobEnds(t)
     \/ NetworkChanges
     \/ Crash
  /\ UNCHANGED kind

Spec == Init /\ [][Next]_vars

\* Temporal keeps scheduling the activities, the timer fires and the workflow wakes up.
FairSpec ==
  Spec /\ \A t \in Task :
            /\ WF_vars(Send(t) /\ UNCHANGED kind)
            /\ WF_vars(Poll(t) /\ UNCHANGED kind)
            /\ WF_vars(WaitEnds(t) /\ UNCHANGED kind)
            /\ WF_vars(Expire(t) /\ UNCHANGED kind)
=============================================================================
