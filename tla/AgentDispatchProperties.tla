----------------------- MODULE AgentDispatchProperties -----------------------
(***************************************************************************)
(* What AgentDispatch promises the workflow, and what it promises but does *)
(* not keep.                                                               *)
(***************************************************************************)
EXTENDS AgentDispatch

\* No idempotency key costs more jobs than it has dispatch attempts, whatever replies
\* are lost and wherever the worker crashes (DISPATCH_RETRY_POLICY, send_message).
JobsWithinAttempts == \A t \in Task : Len(jobs[t]) <= attempt[t]

\* Once a task is in the registry no retry, before or after a restart, creates a job
\* for its key again (task_for_idempotency_key).
StoredMeansNoNewJob ==
  [][\A t \in Task : registry[t] # NoTask => Len(jobs'[t]) = Len(jobs[t])]_vars

\* The workflow, the registry and the memory never speak of different jobs of a node,
\* even when lost replies have left the service with several (poll_task, store_task).
SameJobEverywhere ==
  \A t \in Task : hint[t].job # 0 =>
    /\ registry[t] # NoTask => registry[t].job = hint[t].job
    /\ tasks[t] # NoTask => tasks[t].job = hint[t].job

\* A node is completed only with the verdict of its job, that verdict is on disk, and the
\* workflow goes on with the very task that is stored (_complete_*_task,
\* complete_task_from_agent_callback).  The one exception is a callback that brought a
\* task of its own along: it is believed, and nothing on disk need agree with it.
CompletedIsDurable ==
  \A t \in Task : step[t] = "completed" =>
    \/ kind[t] = "simulator" /\ hint[t] = OwnTask("completed")
    \/ /\ hint[t] = registry[t] /\ registry[t].state = "completed"
       /\ jobs[t][registry[t].job] = "completed"

\* A verdict in the registry stays, through restarts and repeated polls, for every
\* backend but Hermes, whose jobs do not survive the process (_poll_hermes_task).
VerdictStaysStored ==
  [][\A t \in Task : kind[t] # "hermes" /\ registry[t].state \in Verdict
                       => registry'[t] = registry[t]]_vars

\* What the registry holds is settled: no new job for a stored key, no other verdict in
\* place of a stored one.
StoredKeysAreFinal == StoredMeansNoNewJob /\ VerdictStaysStored

\* Every dispatch ends: the agent has the job or the node has failed, even if the agent
\* service never answers (maximum_attempts, dag_workflow.py).
DispatchEnds == \A t \in Task : <>(step[t] # "dispatch")

\* A node that waits for a callback ends by its deadline, even if every callback is
\* lost (the timeout of wait_condition).
CallbackNodeEnds ==
  \A t \in Task : kind[t] = "simulator" => <>(step[t] \in Verdict)

\* The parts of the inductive invariant.  A record names a job that exists, and its
\* verdict is that job's (a lost Hermes job counts as failed).
IsRecord(t, r) ==
  \/ r = NoTask
  \/ /\ r.state # "none" /\ r.job \in DOMAIN jobs[t]
     /\ r.state = "completed" => jobs[t][r.job] = "completed"
     /\ r.state = "failed" /\ kind[t] # "hermes" => jobs[t][r.job] = "failed"

RecordsAreTrue ==
  \A t \in Task :
    /\ IsRecord(t, tasks[t]) /\ IsRecord(t, registry[t])
    /\ step[t] \in {"dispatch", "wait"} => IsRecord(t, hint[t])

\* A job that is not stored yet belongs to a dispatch attempt that found nothing, and
\* a remembered job exists.
InHandIsFresh ==
  \A t \in Task :
    /\ jobCache[t] # 0 => jobCache[t] \in DOMAIN jobs[t]
    /\ inHand[t] # 0 => inHand[t] \in DOMAIN jobs[t] /\ step[t] = "dispatch" /\ Found(t) = NoTask
    /\ step[t] = "dispatch" => hint[t] = NoTask
    /\ step[t] = "wait" => hint[t] # NoTask

\* Every job was paid for by an attempt; a new attempt has not created one yet.
JobsArePaid ==
  \A t \in Task :
    /\ Len(jobs[t]) <= attempt[t]
    /\ step[t] = "dispatch" /\ inHand[t] = 0 => Len(jobs[t]) < attempt[t]

\* Memory and registry agree on the job, and for a simulator task on the verdict.
StoresAgree ==
  \A t \in Task :
    /\ tasks[t] # NoTask /\ registry[t] # NoTask => tasks[t].job = registry[t].job
    /\ kind[t] = "simulator" =>
         /\ Len(jobs[t]) <= 1
         /\ registry[t].state \in Verdict /\ tasks[t] # NoTask => tasks[t] = registry[t]

\* An event about the stored task reports no verdict but the registry's, and a polled node
\* gets none.
EventsAreTrue ==
  \A t \in Task :
    /\ event[t].job # 0 /\ event[t].state = "completed" => event[t] = registry[t]
    /\ event[t] # NoTask => kind[t] = "simulator" /\ event[t].job \in {0} \union DOMAIN jobs[t]

\* The inductive invariant of AgentDispatch.
DispatchInv ==
  /\ TypeOK
  /\ RecordsAreTrue
  /\ InHandIsFresh
  /\ JobsArePaid
  /\ StoresAgree
  /\ SameJobEverywhere
  /\ EventsAreTrue
  /\ CompletedIsDurable

\* Claimed: the idempotency key keeps retries from creating the external task twice
\* (docstring of a2a_task_store.py).  Native Multica jobs are the plainest case.
NoDuplicateJobs == \A t \in Task : kind[t] = "multica_job" => Len(jobs[t]) <= 1
=============================================================================
