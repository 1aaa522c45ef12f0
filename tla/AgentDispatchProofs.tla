------------------------- MODULE AgentDispatchProofs -------------------------
(***************************************************************************)
(* Proofs about AgentDispatch, for any tasks, backends, attempts and       *)
(* crashes: the type invariant, the inductive invariant and its            *)
(* consequences.                                                           *)
(***************************************************************************)
EXTENDS AgentDispatchProperties, SequenceTheorems, TLAPS

\* What a crash leaves of a sequence of jobs is one of the same length.
LEMMA CrashedJobs ==
  ASSUME NEW s \in Seq(JobStatus)
  PROVE  /\ [j \in DOMAIN s |-> IF s[j] = "open" THEN "lost" ELSE s[j]] \in Seq(JobStatus)
         /\ Len([j \in DOMAIN s |-> IF s[j] = "open" THEN "lost" ELSE s[j]]) = Len(s)
<1> DEFINE f == [j \in DOMAIN s |-> IF s[j] = "open" THEN "lost" ELSE s[j]]
<1>1. DOMAIN s = 1..Len(s) /\ Len(s) \in Nat /\ \A j \in 1..Len(s) : s[j] \in JobStatus
  OBVIOUS
<1>2. f \in [1..Len(s) -> JobStatus]
  BY <1>1 DEF JobStatus
<1>3. f \in Seq(JobStatus)
  BY <1>1, <1>2
<1>4. Len(f) = Len(s)
  BY <1>1, <1>2, <1>3
<1> QED BY <1>3, <1>4

\* A failed attempt keeps types: the next attempt is still within MaxAttempts.
LEMMA AttemptTypes ==
  ASSUME TypeOK, NEW t \in Task, AttemptFails(t)
  PROVE  step' \in [Task -> Step] /\ attempt' \in [Task -> 1..MaxAttempts]
<1>1. /\ step \in [Task -> Step] /\ attempt \in [Task -> 1..MaxAttempts]
      /\ MaxAttempts \in Nat /\ "failed" \in Step
  BY DispatchAssumption DEF TypeOK, Step
<1>2. CASE attempt[t] < MaxAttempts
  <2>1. attempt[t] + 1 \in 1..MaxAttempts
    BY <1>1, <1>2
  <2> QED BY <1>1, <1>2, <2>1 DEF AttemptFails
<1>3. CASE ~(attempt[t] < MaxAttempts)
  BY <1>1, <1>3 DEF AttemptFails
<1> QED BY <1>2, <1>3

\* A record found in a store is a record.
LEMMA FoundTypes ==
  ASSUME TypeOK, NEW t \in Task
  PROVE  /\ Found(t) \in TaskRecord /\ Polled(t) \in TaskRecord
         /\ \A j \in Nat : Working(j) \in TaskRecord
         /\ \A r \in TaskRecord, v \in Verdict : Ended(r, v) \in TaskRecord
         /\ Verdict \subseteq Step
         /\ NoTask \in TaskRecord
BY DEF TypeOK, Found, Polled, Working, Ended, TaskRecord, Verdict, Step, NoTask

\* Nor does it matter where the task of an event comes from.
LEMMA OwnTypes ==
  \A state \in {"working"} \union Verdict : OwnTask(state) \in TaskRecord
BY DEF OwnTask, TaskRecord

\* So does a reply to the workflow, whether it gets there or is lost.
LEMMA ReplyTypes ==
  ASSUME TypeOK, NEW t \in Task, NEW r \in TaskRecord, ReplyOrFail(t, r)
  PROVE  /\ step' \in [Task -> Step] /\ attempt' \in [Task -> 1..MaxAttempts]
         /\ hint' \in [Task -> TaskRecord]
<1>1. CASE Reply(t, r)
  <2>1. "wait" \in Step
    BY DEF Step
  <2> QED BY <1>1, <2>1 DEF TypeOK, Reply
<1>2. CASE AttemptFails(t) /\ UNCHANGED hint
  BY <1>2, AttemptTypes DEF TypeOK
<1> QED BY <1>1, <1>2 DEF ReplyOrFail

\* Types are kept by each step.
LEMMA TypeInductive == TypeOK /\ [Next]_vars => TypeOK'
<1> SUFFICES ASSUME TypeOK, [Next]_vars PROVE TypeOK' OBVIOUS
<1> USE DispatchAssumption
<1>0. UNCHANGED kind
  BY DEF Next, vars
<1> USE <1>0
<1>1. ASSUME NEW t \in Task, SendReuses(t) PROVE TypeOK'
  <2>1. Found(t) \in TaskRecord /\ tasks' = [tasks EXCEPT ![t] = Found(t)]
    BY <1>1, FoundTypes DEF SendReuses
  <2>2. ReplyOrFail(t, Found(t))
    BY <1>1 DEF SendReuses
  <2> QED BY <1>1, <2>1, <2>2, ReplyTypes DEF TypeOK, SendReuses
<1>2. ASSUME NEW t \in Task, SendFinds(t) PROVE TypeOK'
  <2>1. JobsFound(t) \subseteq Nat
    BY DEF JobsFound, TypeOK
  <2> QED BY <1>2, <2>1 DEF TypeOK, SendFinds
<1>3. ASSUME NEW t \in Task, SendCreates(t) PROVE TypeOK'
  <2>1. /\ jobs[t] \in Seq(JobStatus)
        /\ Append(jobs[t], "open") \in Seq(JobStatus)
    BY DEF TypeOK, JobStatus
  <2>2. jobs' \in [Task -> Seq(JobStatus)]
    BY <1>3, <2>1 DEF TypeOK, SendCreates
  <2>3. Len(jobs'[t]) \in Nat
    BY <2>2
  <2>4. inHand' \in [Task -> Nat] /\ jobCache' \in [Task -> Nat]
    BY <1>3, <2>3 DEF TypeOK, SendCreates
  <2>5. step' \in [Task -> Step] /\ attempt' \in [Task -> 1..MaxAttempts]
    BY <1>3, AttemptTypes DEF TypeOK, SendCreates
  <2> QED BY <1>3, <2>2, <2>4, <2>5 DEF TypeOK, SendCreates
<1>4. ASSUME NEW t \in Task, SendRefused(t) PROVE TypeOK'
  BY <1>4, AttemptTypes DEF TypeOK, SendRefused
<1>5. ASSUME NEW t \in Task, SendStores(t) PROVE TypeOK'
  <2>1. Working(inHand[t]) \in TaskRecord
    BY FoundTypes DEF TypeOK
  <2>2. step' \in [Task -> Step] /\ attempt' \in [Task -> 1..MaxAttempts] /\ hint' \in [Task -> TaskRecord]
    <3>1. CASE ReplyOrFail(t, Working(inHand[t]))
      BY <2>1, <3>1, ReplyTypes
    <3>2. CASE UNCHANGED hint /\ AttemptFails(t)
      BY <3>2, AttemptTypes DEF TypeOK
    <3> QED BY <1>5, <3>1, <3>2 DEF SendStores
  <2>3. registry' \in [Task -> TaskRecord]
    BY <1>5, <2>1 DEF TypeOK, SendStores
  <2> QED BY <1>5, <2>1, <2>2, <2>3 DEF TypeOK, SendStores
<1>6. ASSUME NEW t \in Task, PollPending(t) PROVE TypeOK'
  BY <1>6, FoundTypes DEF TypeOK, PollPending, Step
<1>7. ASSUME NEW t \in Task, PollFails(t) PROVE TypeOK'
  BY <1>7, FoundTypes DEF TypeOK, PollFails
<1>8. ASSUME NEW t \in Task, PollEnds(t) PROVE TypeOK'
  <2>1. Ended(Polled(t), JobSeen(t)) \in TaskRecord /\ JobSeen(t) \in Step
    BY <1>8, FoundTypes DEF PollEnds
  <2> QED BY <1>8, <2>1 DEF TypeOK, PollEnds
<1>9. ASSUME NEW t \in Task, Callback(t) PROVE TypeOK'
  <2>1. PICK record \in CallbackRecord(t) :
          /\ tasks' = [tasks EXCEPT ![t] = record]
          /\ registry' \in {registry, [registry EXCEPT ![t] = record]}
          /\ event' \in {event, [event EXCEPT ![t] = record]}
    BY <1>9 DEF Callback
  <2>2. record \in TaskRecord
    BY FoundTypes DEF CallbackRecord
  <2>3. tasks' \in [Task -> TaskRecord] /\ registry' \in [Task -> TaskRecord]
    BY <2>1, <2>2 DEF TypeOK
  <2>4. event' \in [Task -> TaskRecord]
    BY <2>1, <2>2 DEF TypeOK
  <2> QED BY <1>9, <2>3, <2>4 DEF TypeOK, Callback
<1>16. ASSUME NEW t \in Task, CallbackWithTask(t) PROVE TypeOK'
  BY <1>16, OwnTypes DEF TypeOK, CallbackWithTask
<1>10. ASSUME NEW t \in Task, WaitEnds(t) PROVE TypeOK'
  <2>1. NoTask \in TaskRecord /\ event[t] \in TaskRecord
    BY FoundTypes DEF TypeOK
  <2>2. hint' \in [Task -> TaskRecord] /\ event' \in [Task -> TaskRecord]
    BY <1>10, <2>1 DEF TypeOK, WaitEnds
  <2> QED BY <1>10, <2>2 DEF TypeOK, WaitEnds, Step, Outcome
<1>11. ASSUME NEW t \in Task, Expire(t) PROVE TypeOK'
  BY <1>11 DEF TypeOK, Expire
<1>12. ASSUME NEW t \in Task, JobEnds(t) PROVE TypeOK'
  BY <1>12 DEF TypeOK, JobEnds, JobStatus
<1>13. ASSUME NetworkChanges PROVE TypeOK'
  BY <1>13 DEF TypeOK, NetworkChanges
<1>14. ASSUME Crash PROVE TypeOK'
  <2>1. jobs' \in [Task -> Seq(JobStatus)]
    BY <1>14, CrashedJobs DEF TypeOK, Crash, JobStatus
  <2>2. tasks' \in [Task -> TaskRecord] /\ jobCache' \in [Task -> Nat] /\ inHand' \in [Task -> Nat]
    BY <1>14, FoundTypes DEF Crash
  <2>3. attempt' \in [Task -> 1..MaxAttempts]
    <3>1. \A t \in Task : attempt[t] \in 1..MaxAttempts
      BY DEF TypeOK
    <3> QED BY <1>14, <3>1 DEF Crash
  <2>4. step' \in [Task -> Step]
    BY <1>14 DEF TypeOK, Crash, Step
  <2>5. crashes' \in 0..MaxCrashes
    BY <1>14 DEF TypeOK, Crash
  <2> QED BY <1>14, <2>1, <2>2, <2>3, <2>4, <2>5 DEF TypeOK, Crash, JobStatus
<1>15. ASSUME UNCHANGED vars PROVE TypeOK'
  BY <1>15 DEF TypeOK, vars
<1> QED
  BY <1>1, <1>2, <1>3, <1>4, <1>5, <1>6, <1>7, <1>8, <1>9, <1>10, <1>11, <1>12, <1>13,
     <1>14, <1>15, <1>16 DEF Next, Send, Poll
-----------------------------------------------------------------------------
(* The invariant, one task at a time.                                      *)

TaskInv(t) ==
  /\ IsRecord(t, tasks[t]) /\ IsRecord(t, registry[t])
  /\ step[t] \in {"dispatch", "wait"} => IsRecord(t, hint[t])
  /\ jobCache[t] # 0 => jobCache[t] \in DOMAIN jobs[t]
  /\ inHand[t] # 0 => /\ inHand[t] \in DOMAIN jobs[t] /\ step[t] = "dispatch"
                      /\ tasks[t] = NoTask /\ registry[t] = NoTask
  /\ step[t] = "dispatch" => hint[t] = NoTask
  /\ step[t] = "wait" => hint[t] # NoTask
  /\ Len(jobs[t]) <= attempt[t]
  /\ step[t] = "dispatch" /\ inHand[t] = 0 => Len(jobs[t]) < attempt[t]
  /\ tasks[t] # NoTask /\ registry[t] # NoTask => tasks[t].job = registry[t].job
  /\ kind[t] = "simulator" =>
       /\ Len(jobs[t]) <= 1
       /\ registry[t].state \in Verdict /\ tasks[t] # NoTask => tasks[t] = registry[t]
  /\ hint[t].job # 0 =>
       /\ registry[t] # NoTask => registry[t].job = hint[t].job
       /\ tasks[t] # NoTask => tasks[t].job = hint[t].job
  /\ event[t].job # 0 /\ event[t].state = "completed" => event[t] = registry[t]
  /\ event[t] # NoTask => kind[t] = "simulator" /\ event[t].job \in {0} \union DOMAIN jobs[t]
  /\ step[t] = "completed" =>
       \/ kind[t] = "simulator" /\ hint[t] = OwnTask("completed")
       \/ hint[t] = registry[t] /\ registry[t].state = "completed"

\* The invariant is its type part and, for every task, TaskInv.
LEMMA ByTask == TypeOK => (DispatchInv <=> \A t \in Task : TaskInv(t))
<1> SUFFICES ASSUME TypeOK PROVE DispatchInv <=> \A t \in Task : TaskInv(t) OBVIOUS
<1>0. \A t \in Task : tasks[t] \in TaskRecord /\ registry[t] \in TaskRecord /\ hint[t] \in TaskRecord
  BY DEF TypeOK
<1>1. ASSUME DispatchInv, NEW t \in Task PROVE TaskInv(t)
  BY <1>1 DEF DispatchInv, TaskInv, RecordsAreTrue, InHandIsFresh, JobsArePaid, StoresAgree,
     SameJobEverywhere, EventsAreTrue, CompletedIsDurable, Found
<1>2. ASSUME \A t \in Task : TaskInv(t) PROVE DispatchInv
  <2>1. RecordsAreTrue
    BY <1>2 DEF TaskInv, RecordsAreTrue
  <2>2. InHandIsFresh
    BY <1>2 DEF TaskInv, InHandIsFresh, Found
  <2>3. JobsArePaid
    BY <1>2 DEF TaskInv, JobsArePaid
  <2>4. StoresAgree
    BY <1>2 DEF TaskInv, StoresAgree
  <2>5. SameJobEverywhere
    BY <1>2 DEF TaskInv, SameJobEverywhere
  <2>6. EventsAreTrue
    BY <1>2 DEF TaskInv, EventsAreTrue
  <2>7. CompletedIsDurable
    BY <1>2 DEF TaskInv, CompletedIsDurable, IsRecord, NoTask
  <2> QED BY <2>1, <2>2, <2>3, <2>4, <2>5, <2>6, <2>7 DEF DispatchInv
<1> QED BY <1>1, <1>2

\* A task of which nothing changes keeps its invariant.
LEMMA Frame ==
  ASSUME NEW t \in Task, TaskInv(t), UNCHANGED kind,
         step'[t] = step[t], attempt'[t] = attempt[t], hint'[t] = hint[t],
         event'[t] = event[t], inHand'[t] = inHand[t], tasks'[t] = tasks[t],
         registry'[t] = registry[t], jobs'[t] = jobs[t], jobCache'[t] = jobCache[t]
  PROVE  TaskInv(t)'
BY DEF TaskInv, IsRecord

TaskStep(t) ==
  \/ Send(t) \/ Poll(t) \/ Callback(t) \/ CallbackWithTask(t) \/ WaitEnds(t)
  \/ Expire(t) \/ JobEnds(t)

\* A step of one task leaves the other tasks alone.
LEMMA OtherTasks ==
  ASSUME TypeOK, NEW t \in Task, NEW u \in Task, u # t, TaskStep(t)
  PROVE  /\ step'[u] = step[u] /\ attempt'[u] = attempt[u] /\ hint'[u] = hint[u]
         /\ event'[u] = event[u] /\ inHand'[u] = inHand[u] /\ tasks'[u] = tasks[u]
         /\ registry'[u] = registry[u] /\ jobs'[u] = jobs[u] /\ jobCache'[u] = jobCache[u]
<1> DEFINE Kept == /\ step'[u] = step[u] /\ attempt'[u] = attempt[u] /\ hint'[u] = hint[u]
                   /\ event'[u] = event[u] /\ inHand'[u] = inHand[u] /\ tasks'[u] = tasks[u]
                   /\ registry'[u] = registry[u] /\ jobs'[u] = jobs[u] /\ jobCache'[u] = jobCache[u]
<1> USE DEF TypeOK
<1>1. CASE SendReuses(t)
  BY <1>1 DEF SendReuses, ReplyOrFail, Reply, AttemptFails
<1>2. CASE SendFinds(t)
  BY <1>2 DEF SendFinds
<1>3. CASE SendCreates(t)
  BY <1>3 DEF SendCreates, AttemptFails
<1>4. CASE SendRefused(t)
  BY <1>4 DEF SendRefused, AttemptFails
<1>5. CASE SendStores(t)
  BY <1>5 DEF SendStores, ReplyOrFail, Reply, AttemptFails
<1>6. CASE Poll(t)
  BY <1>6 DEF Poll, PollPending, PollFails, PollEnds
<1>7. CASE Callback(t) \/ CallbackWithTask(t)
  BY <1>7 DEF Callback, CallbackWithTask
<1>8. CASE WaitEnds(t) \/ Expire(t)
  BY <1>8 DEF WaitEnds, Expire
<1>9. CASE JobEnds(t)
  BY <1>9 DEF JobEnds
<1> QED BY <1>1, <1>2, <1>3, <1>4, <1>5, <1>6, <1>7, <1>8, <1>9 DEF TaskStep, Send

\* The types of one task's state.
LEMMA TaskTypes ==
  ASSUME TypeOK, NEW t \in Task
  PROVE  /\ step[t] \in Step /\ attempt[t] \in 1..MaxAttempts /\ MaxAttempts \in Nat
         /\ tasks[t] \in TaskRecord /\ registry[t] \in TaskRecord /\ hint[t] \in TaskRecord
         /\ event[t] \in TaskRecord
         /\ inHand[t] \in Nat /\ jobs[t] \in Seq(JobStatus) /\ Len(jobs[t]) \in Nat
         /\ DOMAIN jobs[t] = 1..Len(jobs[t])
         /\ kind[t] \in Backend
BY DispatchAssumption DEF TypeOK

\* What an attempt's end does to its task, in terms of the task alone.
LEMMA AttemptEnds ==
  ASSUME TypeOK, NEW t \in Task, AttemptFails(t)
  PROVE  \/ attempt'[t] = attempt[t] + 1 /\ step'[t] = step[t]
         \/ attempt'[t] = attempt[t] /\ step'[t] = "failed"
BY DEF TypeOK, AttemptFails

LEMMA SendReusesInv ==
  ASSUME TypeOK, NEW t \in Task, TaskInv(t), SendReuses(t), UNCHANGED kind
  PROVE  TaskInv(t)'
<1>1. /\ tasks'[t] = Found(t) /\ Found(t) # NoTask /\ step[t] = "dispatch" /\ inHand[t] = 0
      /\ event'[t] = event[t] /\ inHand'[t] = 0 /\ registry'[t] = registry[t] /\ jobs'[t] = jobs[t]
      /\ jobCache'[t] = jobCache[t]
  BY DEF SendReuses, TypeOK
<1>2. \/ step'[t] = "wait" /\ hint'[t] = Found(t) /\ attempt'[t] = attempt[t]
      \/ /\ attempt'[t] = attempt[t] + 1 /\ step'[t] = step[t] /\ hint'[t] = hint[t]
      \/ /\ attempt'[t] = attempt[t] /\ step'[t] = "failed" /\ hint'[t] = hint[t]
  BY AttemptEnds DEF SendReuses, ReplyOrFail, Reply, TypeOK
<1>3. IsRecord(t, Found(t))' /\ IsRecord(t, registry[t])'
  BY <1>1 DEF TaskInv, IsRecord, Found
<1> QED BY <1>1, <1>2, <1>3, TaskTypes DEF TaskInv, IsRecord, Found, Verdict

LEMMA SendFindsInv ==
  ASSUME TypeOK, NEW t \in Task, TaskInv(t), SendFinds(t), UNCHANGED kind
  PROVE  TaskInv(t)'
<1>1. /\ step'[t] = step[t] /\ attempt'[t] = attempt[t] /\ hint'[t] = hint[t]
      /\ event'[t] = event[t] /\ tasks'[t] = tasks[t]
      /\ registry'[t] = registry[t] /\ jobs'[t] = jobs[t] /\ jobCache'[t] = jobCache[t]
  BY DEF SendFinds, TypeOK
<1>2. step[t] = "dispatch" /\ inHand[t] = 0 /\ tasks[t] = NoTask /\ registry[t] = NoTask
  BY DEF SendFinds, Found
<1>3. inHand'[t] \in JobsFound(t)
  BY DEF SendFinds, TypeOK
<1> QED BY <1>1, <1>2, <1>3, TaskTypes DEF TaskInv, IsRecord, JobsFound

LEMMA SendCreatesInv ==
  ASSUME TypeOK, NEW t \in Task, TaskInv(t), SendCreates(t), UNCHANGED kind
  PROVE  TaskInv(t)'
<1>1. /\ jobs'[t] = Append(jobs[t], "open")
      /\ hint'[t] = hint[t] /\ event'[t] = event[t]
      /\ tasks'[t] = tasks[t] /\ registry'[t] = registry[t]
      /\ tasks[t] = NoTask /\ registry[t] = NoTask /\ step[t] = "dispatch" /\ inHand[t] = 0
      /\ kind[t] = "simulator" => DOMAIN jobs[t] = {}
  BY DEF SendCreates, TypeOK, Found, JobsFound
<1>2. /\ Len(jobs'[t]) = Len(jobs[t]) + 1
      /\ DOMAIN jobs'[t] = 1..(Len(jobs[t]) + 1)
      /\ \A j \in DOMAIN jobs[t] : j \in DOMAIN jobs'[t]
  BY <1>1, TaskTypes DEF JobStatus
<1>3. \/ /\ inHand'[t] = Len(jobs[t]) + 1 /\ jobCache'[t] \in {jobCache[t], Len(jobs[t]) + 1}
         /\ step'[t] = step[t] /\ attempt'[t] = attempt[t]
      \/ /\ inHand'[t] = 0 /\ jobCache'[t] = jobCache[t]
         /\ attempt'[t] = attempt[t] + 1 /\ step'[t] = step[t]
      \/ /\ inHand'[t] = 0 /\ jobCache'[t] = jobCache[t]
         /\ attempt'[t] = attempt[t] /\ step'[t] = "failed"
  BY <1>1, <1>2, AttemptEnds DEF SendCreates, TypeOK
<1>4. hint[t] = NoTask
  BY <1>1 DEF TaskInv
<1>5. Len(jobs[t]) < attempt[t]
  BY <1>1 DEF TaskInv
<1>6. kind[t] = "simulator" => Len(jobs[t]) = 0
  BY <1>1, TaskTypes
<1> QED BY <1>1, <1>2, <1>3, <1>4, <1>5, <1>6, TaskTypes DEF TaskInv, IsRecord, NoTask, Verdict

LEMMA SendRefusedInv ==
  ASSUME TypeOK, NEW t \in Task, TaskInv(t), SendRefused(t), UNCHANGED kind
  PROVE  TaskInv(t)'
<1>1. /\ hint'[t] = hint[t] /\ event'[t] = event[t] /\ tasks'[t] = tasks[t]
      /\ registry'[t] = registry[t] /\ jobs'[t] = jobs[t] /\ jobCache'[t] = jobCache[t]
      /\ inHand'[t] = inHand[t] /\ inHand[t] = 0 /\ step[t] = "dispatch"
  BY DEF SendRefused, TypeOK
<1>2. \/ attempt'[t] = attempt[t] + 1 /\ step'[t] = step[t]
      \/ attempt'[t] = attempt[t] /\ step'[t] = "failed"
  BY AttemptEnds DEF SendRefused
<1> QED BY <1>1, <1>2, TaskTypes DEF TaskInv, IsRecord

LEMMA SendStoresInv ==
  ASSUME TypeOK, NEW t \in Task, TaskInv(t), SendStores(t), UNCHANGED kind
  PROVE  TaskInv(t)'
<1>0. PICK record : record = Working(inHand[t])
  OBVIOUS
<1>1. /\ event'[t] = event[t] /\ jobs'[t] = jobs[t] /\ jobCache'[t] = jobCache[t]
      /\ tasks'[t] = record /\ inHand'[t] = 0
      /\ registry'[t] \in {registry[t], record}
      /\ inHand[t] # 0
  BY <1>0 DEF SendStores, TypeOK
<1>2. /\ step[t] = "dispatch" /\ registry[t] = NoTask /\ hint[t] = NoTask
      /\ inHand[t] \in DOMAIN jobs[t]
  BY <1>1 DEF TaskInv
<1>3. \/ step'[t] = "wait" /\ hint'[t] = record /\ attempt'[t] = attempt[t]
      \/ attempt'[t] = attempt[t] + 1 /\ step'[t] = step[t] /\ hint'[t] = NoTask
      \/ attempt'[t] = attempt[t] /\ step'[t] = "failed" /\ hint'[t] = NoTask
  BY <1>0, <1>2, AttemptEnds DEF SendStores, ReplyOrFail, Reply, TypeOK
<1>4. /\ IsRecord(t, record)' /\ IsRecord(t, NoTask)'
      /\ record # NoTask /\ record.state = "working" /\ record.job = inHand[t]
  BY <1>0, <1>1, <1>2 DEF IsRecord, Working, NoTask
<1>5. /\ IsRecord(t, tasks[t])' /\ IsRecord(t, registry[t])' /\ IsRecord(t, hint[t])'
  BY <1>1, <1>2, <1>3, <1>4 DEF IsRecord
<1> QED BY <1>1, <1>2, <1>3, <1>4, <1>5, TaskTypes DEF TaskInv, NoTask, Verdict

\* What a poll finds: the record that memory or the workflow holds of the task's job.
LEMMA PolledIsTrue ==
  ASSUME TypeOK, NEW t \in Task, TaskInv(t), step[t] = "wait"
  PROVE  /\ IsRecord(t, Polled(t)) /\ Polled(t) # NoTask
         /\ Polled(t).job = hint[t].job /\ Polled(t).job \in DOMAIN jobs[t]
         /\ inHand[t] = 0
         /\ registry[t] # NoTask => registry[t].job = Polled(t).job
BY TaskTypes DEF TaskInv, Polled, IsRecord

LEMMA PollPendingInv ==
  ASSUME TypeOK, NEW t \in Task, TaskInv(t), PollPending(t), UNCHANGED kind
  PROVE  TaskInv(t)'
<1>0. PICK record : record = Polled(t)
  OBVIOUS
<1>1. /\ step[t] = "wait" /\ kind[t] # "simulator" /\ step'[t] \in {"wait", "failed"}
      /\ tasks'[t] = record /\ hint'[t] = record
      /\ event'[t] = event[t] /\ jobs'[t] = jobs[t] /\ jobCache'[t] = jobCache[t]
      /\ inHand'[t] = inHand[t] /\ registry'[t] = registry[t] /\ attempt'[t] = attempt[t]
  BY <1>0 DEF PollPending, Polling, TypeOK
<1>2. IsRecord(t, record)' /\ IsRecord(t, registry[t])'
  BY <1>0, <1>1, PolledIsTrue DEF IsRecord, TaskInv
<1>3. record # NoTask /\ inHand[t] = 0 /\ (registry[t] # NoTask => registry[t].job = record.job)
  BY <1>0, <1>1, PolledIsTrue
<1> QED BY <1>1, <1>2, <1>3 DEF TaskInv, IsRecord

LEMMA PollFailsInv ==
  ASSUME TypeOK, NEW t \in Task, TaskInv(t), PollFails(t), UNCHANGED kind
  PROVE  TaskInv(t)'
<1>0. PICK record : record = Polled(t)
  OBVIOUS
<1>1. /\ step[t] = "wait" /\ kind[t] # "simulator" /\ step'[t] = "wait"
      /\ tasks'[t] = record /\ hint'[t] = hint[t]
      /\ event'[t] = event[t] /\ jobs'[t] = jobs[t] /\ jobCache'[t] = jobCache[t]
      /\ inHand'[t] = inHand[t] /\ registry'[t] = registry[t] /\ attempt'[t] = attempt[t]
  BY <1>0 DEF PollFails, Polling, TypeOK
<1>2. IsRecord(t, record)'
  BY <1>0, <1>1, PolledIsTrue DEF IsRecord
<1>3. /\ record # NoTask /\ inHand[t] = 0 /\ record.job = hint[t].job
      /\ registry[t] # NoTask => registry[t].job = record.job
  BY <1>0, <1>1, PolledIsTrue
<1> QED BY <1>1, <1>2, <1>3 DEF TaskInv, IsRecord

LEMMA PollEndsInv ==
  ASSUME TypeOK, NEW t \in Task, TaskInv(t), PollEnds(t), UNCHANGED kind
  PROVE  TaskInv(t)'
<1>0. PICK record : record = Ended(Polled(t), JobSeen(t))
  OBVIOUS
<1>1. /\ step[t] = "wait" /\ kind[t] # "simulator" /\ JobSeen(t) \in Verdict
      /\ tasks'[t] = record
      /\ event'[t] = event[t] /\ jobs'[t] = jobs[t] /\ jobCache'[t] = jobCache[t]
      /\ inHand'[t] = inHand[t] /\ attempt'[t] = attempt[t]
      /\ \/ registry'[t] = record /\ step'[t] = JobSeen(t) /\ hint'[t] = record
         \/ registry'[t] \in {registry[t], record} /\ step'[t] = "wait" /\ hint'[t] = hint[t]
  BY <1>0 DEF PollEnds, Polling, TypeOK
<1>2. Polled(t) \in TaskRecord
  BY FoundTypes
<1>3. record.state = JobSeen(t) /\ record.job = Polled(t).job /\ record # NoTask
  BY <1>0, <1>1, <1>2 DEF Ended, TaskRecord, NoTask, Verdict
<1>4. JobSeen(t) = "completed" => jobs[t][Polled(t).job] = "completed"
  BY DEF JobSeen
<1>5. kind[t] # "hermes" => JobSeen(t) = jobs[t][Polled(t).job]
  BY DEF JobSeen
<1>6. IsRecord(t, record)'
  BY <1>1, <1>3, <1>4, <1>5, PolledIsTrue DEF IsRecord, Verdict
<1>7. IsRecord(t, registry[t])' /\ IsRecord(t, hint[t])'
  BY <1>1, <1>6 DEF TaskInv, IsRecord
<1>8. /\ inHand[t] = 0 /\ record.job = hint[t].job /\ hint[t] # NoTask
      /\ registry[t] # NoTask => registry[t].job = record.job
  BY <1>1, <1>3, PolledIsTrue DEF TaskInv
<1>9. event[t] = NoTask /\ NoTask.job = 0
  BY <1>1 DEF TaskInv, NoTask
<1> QED BY <1>1, <1>3, <1>6, <1>7, <1>8, <1>9 DEF TaskInv, Verdict

LEMMA CallbackInv ==
  ASSUME TypeOK, NEW t \in Task, TaskInv(t), Callback(t), UNCHANGED kind
  PROVE  TaskInv(t)'
<1>1. PICK record \in CallbackRecord(t) :
        /\ tasks' = [tasks EXCEPT ![t] = record]
        /\ \/ UNCHANGED <<registry, event>>
           \/ /\ registry' = [registry EXCEPT ![t] = record]
              /\ \/ event' = [event EXCEPT ![t] = record]
                 \/ UNCHANGED event
  BY DEF Callback
<1>2. /\ step'[t] = step[t] /\ attempt'[t] = attempt[t] /\ hint'[t] = hint[t]
      /\ inHand'[t] = inHand[t] /\ jobCache'[t] = jobCache[t] /\ jobs'[t] = jobs[t]
      /\ tasks'[t] = record /\ kind[t] = "simulator" /\ Found(t) # NoTask
      /\ \/ registry'[t] = registry[t] /\ event'[t] = event[t]
         \/ registry'[t] = record /\ event'[t] \in {event[t], record}
  BY <1>1 DEF Callback, TypeOK
<1>3. /\ Found(t) \in TaskRecord /\ IsRecord(t, Found(t)) /\ Found(t) \in {tasks[t], registry[t]}
      /\ registry[t].state \in Verdict => Found(t) = registry[t]
      /\ registry[t] # NoTask => Found(t).job = registry[t].job
  BY <1>2, FoundTypes DEF TaskInv, Found
<1>4. Found(t).job = 1 /\ DOMAIN jobs[t] = {1}
  BY <1>2, <1>3, TaskTypes DEF IsRecord, TaskInv
<1>5. \/ record = Found(t)
      \/ record = Ended(Found(t), jobs[t][1]) /\ jobs[t][1] \in Verdict
  BY DEF CallbackRecord
<1>6. \A v \in Verdict : /\ Ended(Found(t), v).state = v /\ Ended(Found(t), v).job = 1
                         /\ Ended(Found(t), v) # NoTask
                         /\ v = Found(t).state => Ended(Found(t), v) = Found(t)
  BY <1>3, <1>4 DEF Ended, TaskRecord, NoTask, Verdict
<1>7. IsRecord(t, record) /\ record # NoTask /\ record.job = 1
  BY <1>2, <1>3, <1>4, <1>5, <1>6 DEF IsRecord, Verdict
<1>8. registry[t].state \in Verdict => record = registry[t]
  <2> SUFFICES ASSUME registry[t].state \in Verdict PROVE record = registry[t] OBVIOUS
  <2>1. Found(t) = registry[t] /\ jobs[t][1] = registry[t].state
    BY <1>2, <1>3, <1>4 DEF IsRecord, Verdict, NoTask
  <2> QED BY <2>1, <1>5, <1>6
<1>9. /\ IsRecord(t, record)' /\ IsRecord(t, registry[t])'
      /\ step[t] \in {"dispatch", "wait"} => IsRecord(t, hint[t])'
  BY <1>2, <1>7 DEF IsRecord, TaskInv
<1>10. /\ hint[t].job # 0 => hint[t].job = 1
       /\ registry[t] # NoTask => registry[t].job = 1
       /\ inHand[t] = 0
  BY <1>2, <1>3, <1>4 DEF TaskInv, Found
\* A verdict signalled or acted upon before is the registry's, and so is the new one.
<1>11. /\ event[t].job # 0 /\ event[t].state = "completed" => record = event[t]
       /\ step[t] = "completed" =>
            \/ hint[t] = OwnTask("completed")
            \/ hint[t] = record /\ hint[t] = registry[t] /\ record.state = "completed"
  BY <1>8 DEF TaskInv, Verdict
<1>12. event'[t].job \in {0} \union DOMAIN jobs[t]
  <2>1. event[t].job \in {0} \union DOMAIN jobs[t]
    BY DEF TaskInv, NoTask
  <2> QED BY <1>2, <1>4, <1>7, <2>1
<1>13. event'[t].job # 0 /\ event'[t].state = "completed" => event'[t] = registry'[t]
  <2>1. event[t].job # 0 /\ event[t].state = "completed" => event[t] = registry[t]
    BY DEF TaskInv
  <2> QED BY <1>2, <1>11, <2>1
<1>14. step[t] = "completed" =>
         \/ hint[t] = OwnTask("completed")
         \/ hint[t] = registry'[t] /\ registry'[t].state = "completed"
  BY <1>2, <1>11
<1> QED BY <1>2, <1>7, <1>8, <1>9, <1>10, <1>12, <1>13, <1>14 DEF TaskInv

LEMMA WaitEndsInv ==
  ASSUME TypeOK, NEW t \in Task, TaskInv(t), WaitEnds(t), UNCHANGED kind
  PROVE  TaskInv(t)'
<1>1. /\ attempt'[t] = attempt[t] /\ inHand'[t] = inHand[t] /\ tasks'[t] = tasks[t]
      /\ registry'[t] = registry[t] /\ jobs'[t] = jobs[t] /\ jobCache'[t] = jobCache[t]
      /\ step[t] = "wait" /\ kind[t] = "simulator"
  BY DEF WaitEnds, TypeOK
<1>2. \/ /\ event[t] # NoTask /\ hint'[t] = event[t] /\ event'[t] = NoTask
         /\ step'[t] = IF event[t].state = "completed" THEN "completed" ELSE "failed"
      \/ step'[t] = "failed" /\ hint'[t] = hint[t] /\ event'[t] = event[t]
  BY DEF WaitEnds, TypeOK, Outcome
<1>3. IsRecord(t, tasks[t])' /\ IsRecord(t, registry[t])'
  BY <1>1 DEF TaskInv, IsRecord
\* The event is about the one job of the node, or about none.
<1>4. event[t].job # 0 =>
        /\ registry[t] # NoTask => registry[t].job = event[t].job
        /\ tasks[t] # NoTask => tasks[t].job = event[t].job
  BY <1>1, TaskTypes DEF TaskInv, IsRecord, NoTask
<1>5. event[t].job = 0 /\ event[t].state = "completed" => event[t] = OwnTask("completed")
  BY TaskTypes DEF OwnTask, TaskRecord
<1>6. NoTask.job = 0
  BY DEF NoTask
<1> QED BY <1>1, <1>2, <1>3, <1>4, <1>5, <1>6 DEF TaskInv

\* A callback with a task of its own changes what is signalled and nothing else.
LEMMA CallbackWithTaskInv ==
  ASSUME TypeOK, NEW t \in Task, TaskInv(t), CallbackWithTask(t), UNCHANGED kind
  PROVE  TaskInv(t)'
<1>1. /\ step'[t] = step[t] /\ attempt'[t] = attempt[t] /\ hint'[t] = hint[t]
      /\ inHand'[t] = inHand[t] /\ jobCache'[t] = jobCache[t] /\ jobs'[t] = jobs[t]
      /\ tasks'[t] = tasks[t] /\ registry'[t] = registry[t] /\ kind[t] = "simulator"
      /\ event'[t].job = 0
  BY DEF CallbackWithTask, TypeOK, OwnTask
<1>2. IsRecord(t, tasks[t])' /\ IsRecord(t, registry[t])'
      /\ (step'[t] \in {"dispatch", "wait"} => IsRecord(t, hint[t])')
  BY <1>1 DEF TaskInv, IsRecord
<1> QED BY <1>1, <1>2 DEF TaskInv

LEMMA JobEndsInv ==
  ASSUME TypeOK, NEW t \in Task, TaskInv(t), JobEnds(t), UNCHANGED kind
  PROVE  TaskInv(t)'
<1>1. PICK j \in DOMAIN jobs[t], verdict \in Verdict :
        jobs[t][j] = "open" /\ jobs'[t] = [jobs[t] EXCEPT ![j] = verdict]
  BY DEF JobEnds, TypeOK
<1>2. /\ step'[t] = step[t] /\ attempt'[t] = attempt[t] /\ hint'[t] = hint[t]
      /\ inHand'[t] = inHand[t] /\ jobCache'[t] = jobCache[t] /\ event'[t] = event[t]
      /\ tasks'[t] = tasks[t] /\ registry'[t] = registry[t]
  BY DEF JobEnds, TypeOK
<1>3. /\ DOMAIN jobs'[t] = DOMAIN jobs[t] /\ Len(jobs'[t]) = Len(jobs[t])
      /\ \A i \in DOMAIN jobs[t] : jobs[t][i] # "open" => jobs'[t][i] = jobs[t][i]
  BY <1>1, TaskTypes DEF Verdict, JobStatus
<1>4. \A r : IsRecord(t, r) => IsRecord(t, r)'
  BY <1>3 DEF IsRecord
<1>5. /\ IsRecord(t, tasks[t])' /\ IsRecord(t, registry[t])'
      /\ step[t] \in {"dispatch", "wait"} => IsRecord(t, hint[t])'
  BY <1>2, <1>4 DEF TaskInv
<1> QED BY <1>2, <1>3, <1>5 DEF TaskInv

\* A crash empties the memory; what is on disk and in the workflow is still true.
LEMMA CrashInv ==
  ASSUME TypeOK, NEW t \in Task, TaskInv(t), Crash, UNCHANGED kind
  PROVE  TaskInv(t)'
<1>1. /\ tasks'[t] = NoTask /\ jobCache'[t] = 0 /\ inHand'[t] = 0
      /\ hint'[t] = hint[t] /\ event'[t] = event[t] /\ registry'[t] = registry[t]
      /\ attempt'[t] = IF inHand[t] # 0 /\ attempt[t] < MaxAttempts
                       THEN attempt[t] + 1 ELSE attempt[t]
      /\ step'[t] = IF inHand[t] # 0 /\ attempt[t] = MaxAttempts THEN "failed" ELSE step[t]
      /\ jobs'[t] = IF kind[t] # "hermes" THEN jobs[t]
                    ELSE [j \in DOMAIN jobs[t] |->
                            IF jobs[t][j] = "open" THEN "lost" ELSE jobs[t][j]]
  BY DEF Crash
<1>2. /\ Len(jobs'[t]) = Len(jobs[t]) /\ DOMAIN jobs'[t] = DOMAIN jobs[t]
      /\ \A j \in DOMAIN jobs[t] : jobs[t][j] = "completed" => jobs'[t][j] = "completed"
      /\ kind[t] # "hermes" => jobs'[t] = jobs[t]
  BY <1>1, TaskTypes, CrashedJobs
<1>3. /\ IsRecord(t, registry[t])' /\ IsRecord(t, tasks[t])'
      /\ step[t] \in {"dispatch", "wait"} => IsRecord(t, hint[t])'
  BY <1>1, <1>2 DEF TaskInv, IsRecord
<1> QED BY <1>1, <1>2, <1>3, TaskTypes DEF TaskInv

-----------------------------------------------------------------------------
(* The theorems.                                                           *)

LEMMA InitInv == Init => DispatchInv
<1> SUFFICES ASSUME Init PROVE DispatchInv OBVIOUS
<1>1. TypeOK
  BY DispatchAssumption DEF Init, TypeOK, Step, TaskRecord, NoTask, JobStatus
<1>2. \A t \in Task : TaskInv(t)
  <2> TAKE t \in Task
  <2>1. /\ step[t] = "dispatch" /\ attempt[t] = 1 /\ hint[t] = NoTask /\ event[t] = NoTask
        /\ inHand[t] = 0 /\ tasks[t] = NoTask /\ jobCache[t] = 0 /\ registry[t] = NoTask
        /\ jobs[t] = <<>>
    BY DEF Init
  <2>2. Len(jobs[t]) = 0
    BY <2>1
  <2>3. NoTask.state \notin Verdict /\ NoTask.job = 0
    BY DEF NoTask, Verdict
  <2> QED BY <2>1, <2>2, <2>3 DEF TaskInv, IsRecord
<1> QED BY <1>1, <1>2, ByTask

LEMMA NextInv == DispatchInv /\ [Next]_vars => DispatchInv'
<1> SUFFICES ASSUME DispatchInv, [Next]_vars PROVE DispatchInv' OBVIOUS
<1>0. UNCHANGED kind
  BY DEF Next, vars
<1>1. TypeOK /\ TypeOK' /\ \A t \in Task : TaskInv(t)
  BY TypeInductive, ByTask DEF DispatchInv
<1>2. ASSUME NEW t \in Task, TaskStep(t), NEW u \in Task PROVE TaskInv(u)'
  <2>1. CASE u # t
    BY <1>0, <1>1, <1>2, <2>1, OtherTasks, Frame
  <2>2. TaskInv(t)'
    <3>1. CASE Send(t)
      BY <1>0, <1>1, <3>1, SendReusesInv, SendFindsInv, SendCreatesInv, SendRefusedInv, SendStoresInv DEF Send
    <3>2. CASE Poll(t)
      BY <1>0, <1>1, <3>2, PollPendingInv, PollFailsInv, PollEndsInv DEF Poll
    <3>3. CASE Callback(t) \/ CallbackWithTask(t) \/ WaitEnds(t) \/ JobEnds(t)
      BY <1>0, <1>1, <3>3, CallbackInv, CallbackWithTaskInv, WaitEndsInv, JobEndsInv
    <3>4. CASE Expire(t)
      BY <1>0, <1>1, <3>4, Frame DEF Expire
    <3> QED BY <1>2, <3>1, <3>2, <3>3, <3>4 DEF TaskStep
  <2> QED BY <2>1, <2>2
<1>3. ASSUME NetworkChanges \/ UNCHANGED vars, NEW u \in Task PROVE TaskInv(u)'
  BY <1>0, <1>1, <1>3, Frame DEF NetworkChanges, vars
<1>4. ASSUME Crash, NEW u \in Task PROVE TaskInv(u)'
  BY <1>0, <1>1, <1>4, CrashInv
<1>5. \A u \in Task : TaskInv(u)'
  BY <1>2, <1>3, <1>4 DEF Next, TaskStep
<1>6. (TypeOK => (DispatchInv <=> \A t \in Task : TaskInv(t)))'
  BY ByTask, PTL
<1> QED BY <1>1, <1>5, <1>6

\* The stores, the workflow and the agent services stay consistent, for any number of
\* tasks, attempts and crashes.
THEOREM DispatchInvariant == Spec => []DispatchInv
BY InitInv, NextInv, PTL DEF Spec

\* No idempotency key costs more jobs than dispatch attempts.
THEOREM JobsAreBounded == Spec => []JobsWithinAttempts
<1>1. DispatchInv => JobsWithinAttempts
  BY DEF DispatchInv, JobsArePaid, JobsWithinAttempts
<1> QED BY <1>1, DispatchInvariant, PTL

\* The workflow, the registry and the memory name the same job of a node.
THEOREM OneJobPerNode == Spec => []SameJobEverywhere
<1>1. DispatchInv => SameJobEverywhere
  BY DEF DispatchInv
<1> QED BY <1>1, DispatchInvariant, PTL

\* A completed node goes on with the stored task, which has the verdict of its job, unless
\* its callback brought a task of its own (complete_task_from_agent_callback).
THEOREM CompletionIsDurable == Spec => []CompletedIsDurable
<1>1. DispatchInv => CompletedIsDurable
  BY DEF DispatchInv
<1> QED BY <1>1, DispatchInvariant, PTL

\* A key in the registry never gets another job.
THEOREM StoredKeysAreSettled == Spec => StoredMeansNoNewJob
<1>1. ASSUME DispatchInv, [Next]_vars, NEW t \in Task, registry[t] # NoTask
      PROVE  Len(jobs'[t]) = Len(jobs[t])
  <2>1. TypeOK
    BY <1>1 DEF DispatchInv
  <2>2. CASE \E u \in Task : TaskStep(u) /\ ~SendCreates(u) /\ ~JobEnds(u)
    BY <2>1, <2>2 DEF TaskStep, Send, Poll, SendReuses, SendFinds, SendRefused, SendStores,
       PollPending, PollFails, PollEnds, Callback, CallbackWithTask, WaitEnds, Expire
  <2>3. CASE \E u \in Task : SendCreates(u)
    <3>1. PICK u \in Task : SendCreates(u)
      BY <2>3
    <3>2. u # t
      BY <1>1, <3>1 DEF SendCreates, Found
    <3> QED BY <2>1, <3>1, <3>2, OtherTasks DEF TaskStep, Send
  <2>4. CASE \E u \in Task : JobEnds(u)
    BY <2>1, <2>4, TaskTypes DEF JobEnds, TypeOK
  <2>5. CASE Crash
    <3>1. jobs[t] \in Seq(JobStatus)
      BY <2>1 DEF TypeOK
    <3> QED BY <2>5, <3>1, CrashedJobs DEF Crash
  <2>6. CASE NetworkChanges \/ UNCHANGED vars
    BY <2>6 DEF NetworkChanges, vars
  <2> QED BY <1>1, <2>2, <2>3, <2>4, <2>5, <2>6 DEF Next, TaskStep
<1>2. DispatchInv /\ [Next]_vars =>
        [\A t \in Task : registry[t] # NoTask => Len(jobs'[t]) = Len(jobs[t])]_vars
  BY <1>1
<1> QED BY <1>2, DispatchInvariant, PTL DEF Spec, StoredMeansNoNewJob

\* A verdict in the registry stays, for every backend but Hermes.
THEOREM VerdictsStayStored == Spec => VerdictStaysStored
<1>1. ASSUME DispatchInv, [Next]_vars, NEW t \in Task,
             kind[t] # "hermes", registry[t].state \in Verdict
      PROVE  registry'[t] = registry[t]
  <2>1. TypeOK /\ TaskInv(t)
    BY <1>1, ByTask DEF DispatchInv
  <2>2. registry[t] # NoTask /\ registry[t] \in TaskRecord
    BY <1>1, <2>1 DEF NoTask, Verdict, TypeOK
  <2>3. registry[t].job \in DOMAIN jobs[t] /\ jobs[t][registry[t].job] = registry[t].state
    BY <1>1, <2>1, <2>2 DEF TaskInv, IsRecord, Verdict
  <2>4. CASE \E u \in Task : u # t /\ TaskStep(u)
    BY <2>1, <2>4, OtherTasks
  <2>5. CASE TaskStep(t) /\ ~SendStores(t) /\ ~PollEnds(t) /\ ~Callback(t)
    BY <2>5 DEF TaskStep, Send, Poll, SendReuses, SendFinds, SendCreates, SendRefused,
       PollPending, PollFails, CallbackWithTask, WaitEnds, Expire, JobEnds
  <2>6. CASE SendStores(t)
    BY <2>1, <2>2, <2>6 DEF SendStores, TaskInv
  <2>7. CASE PollEnds(t)
    <3>1. Polled(t).job = registry[t].job /\ Polled(t) \in TaskRecord
      BY <2>1, <2>2, <2>7, PolledIsTrue, FoundTypes DEF PollEnds, Polling
    <3>2. JobSeen(t) = registry[t].state
      BY <1>1, <2>3, <3>1 DEF JobSeen
    <3>3. Ended(Polled(t), JobSeen(t)) = registry[t]
      BY <2>2, <3>1, <3>2 DEF Ended, TaskRecord
    <3> QED BY <2>1, <2>7, <3>3 DEF PollEnds, TypeOK
  <2>8. CASE Callback(t)
    <3>1. Found(t) = registry[t] /\ kind[t] = "simulator"
      BY <1>1, <2>1, <2>8 DEF Found, TaskInv, Callback
    <3>2. jobs[t][1] = registry[t].state
      BY <2>1, <2>3, <3>1, TaskTypes DEF TaskInv
    <3>3. Ended(registry[t], registry[t].state) = registry[t]
      BY <2>2 DEF Ended, TaskRecord
    <3>4. CallbackRecord(t) \subseteq {registry[t]}
      BY <3>1, <3>2, <3>3 DEF CallbackRecord
    <3> QED BY <2>1, <2>8, <3>4 DEF Callback, TypeOK
  <2>9. CASE Crash \/ NetworkChanges \/ UNCHANGED vars
    BY <2>9 DEF Crash, NetworkChanges, vars
  <2> QED BY <1>1, <2>4, <2>5, <2>6, <2>7, <2>8, <2>9 DEF Next, TaskStep
<1>2. DispatchInv /\ [Next]_vars =>
        [\A t \in Task : kind[t] # "hermes" /\ registry[t].state \in Verdict
                           => registry'[t] = registry[t]]_vars
  BY <1>1
<1> QED BY <1>2, DispatchInvariant, PTL DEF Spec, VerdictStaysStored

\* What the registry holds is settled.
THEOREM StoredKeysStay == Spec => StoredKeysAreFinal
BY StoredKeysAreSettled, VerdictsStayStored DEF StoredKeysAreFinal
=============================================================================
