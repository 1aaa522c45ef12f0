------------------------ MODULE DagWorkflowProperties ------------------------
(***************************************************************************)
(* What the control-flow interpreter must guarantee.                       *)
(***************************************************************************)
EXTENDS DagWorkflow

Completed(n) == {v \in 1..MaxVisits[n] : instance[<<n, v>>] = "completed"}
Live(n) == {v \in 1..MaxVisits[n] : instance[<<n, v>>] \in {"running", "suspended"}}
Started == {i \in Instance : instance[i] # "absent"}

(***************************************************************************)
(* The visit limits bound every loop: no node and not the graph as a whole *)
(* is ever visited more often than max_visits and max_total_visits allow,  *)
(* whatever the branches decide (run, the start of the loop).              *)
(***************************************************************************)
VisitsBounded ==
  /\ \A n \in Node : visits[n] <= MaxVisits[n]
  /\ Cardinality(Started) <= MaxTotal

(***************************************************************************)
(* `_instances` is a faithful log: the instances of a node are numbered    *)
(* without gaps, an instance is live exactly while its task is unfinished, *)
(* and only the latest one may be anything but completed.                  *)
(***************************************************************************)
InstanceLog ==
  \A n \in Node :
    /\ \A v \in 1..MaxVisits[n] : instance[<<n, v>>] = "absent" <=> v > visits[n]
    /\ \A v \in 1..MaxVisits[n] : v < visits[n] => instance[<<n, v>>] = "completed"
    /\ (task[n] \in {"dispatching", "waiting", "raised"}) <=> (Live(n) = {visits[n]})

(***************************************************************************)
(* A run that reports "completed" has nothing to hide: no task was left    *)
(* running, no instance failed, no node was still able to start, and no    *)
(* arrival was dropped at a node that had used up its visits.              *)
(***************************************************************************)
CompletedIsClean ==
  result = "completed" =>
    /\ failure = "none" /\ wfStatus = "completed"
    /\ \A i \in Instance : instance[i] \in {"absent", "completed"}
    /\ \A n \in Node : ~NodeIsReady(n) /\ (arrivals[n] # {} => visits[n] < MaxVisits[n])

(***************************************************************************)
(* Whatever the outcome, run() returns only after every task it started    *)
(* has been drained: no agent is left working for a closed workflow that   *)
(* still counts on it.                                                     *)
(***************************************************************************)
NoTaskOutlivesRun ==
  result # "none" => pc = "returned" /\ Running = {}

(***************************************************************************)
(* An "all" node never runs ahead: its v-th visit needs v completions of   *)
(* each of its predecessors, even when branches loop back to it.           *)
(***************************************************************************)
JoinAllInStep ==
  \A n \in Node : Join[n] # "any" =>
    \A m \in Pred(n) : visits[n] <= Cardinality(Completed(m))

(***************************************************************************)
(* No node runs without a cause: its visits are bought one by one by the   *)
(* start token and by what came along the edges into it, of which          *)
(* <<e, k>> is the k-th to come along edge e.                              *)
(***************************************************************************)
Arrived(n) == UNION {{e} \X (1..taken[e]) : e \in {f \in Edge : To[f] = n}}

RunsAreCaused ==
  \A n \in Node :
    visits[n] + (IF arrivals[n] # {} THEN 1 ELSE 0)
      <= (IF n \in StartNode THEN 1 ELSE 0) + Cardinality(Arrived(n))

(***************************************************************************)
(* Each completed instance had each of its outgoing edges evaluated once:  *)
(* what an entry of the display counts, taken and skipped together, is one *)
(* for each completion whose task has been processed and for each of the   *)
(* parallel edges that the entry stands for, and none is counted twice.    *)
(***************************************************************************)
Represented(f) == {e \in Edge : Entry[e] = f}

EdgeCountsAddUp ==
  \A f \in Edge :
    taken[f] + skipped[f]
      = Cardinality(Represented(f)) *
          (Cardinality(Completed(From[f])) - (IF task[From[f]] = "ok" THEN 1 ELSE 0))

(***************************************************************************)
(* An instance ends with the answer of its own agent job.  The answer of   *)
(* an earlier visit can only take its place when an agent called back more *)
(* than once for a job: `_agent_events` is keyed by the node alone.        *)
(***************************************************************************)
StaleAnswerNeedsExtra ==
  \A i \in Instance : answer[i] \notin {0, i[2]} => extra > 0 /\ answer[i] < i[2]

(***************************************************************************)
(* After the first failure the workflow only drains: no node starts, and   *)
(* the failure is never forgotten.                                         *)
(***************************************************************************)
FailureStopsStarts ==
  [][failure # "none" => visits' = visits /\ failure' # "none"]_vars

(***************************************************************************)
(* A failure seen by a query is final: once graph_state shows "failed" the *)
(* workflow can no longer be shown running or completed.                   *)
(***************************************************************************)
FailedStatusIsFinal ==
  [][wfStatus = "failed" => wfStatus' = "failed" /\ result' # "completed"]_vars

(***************************************************************************)
(* A failure is final in both its forms: the one run() has recorded stops  *)
(* all starts, the one a query shows is how the run will end, although the *)
(* second may be seen before the first is recorded.                        *)
(***************************************************************************)
FailureIsFinal == FailureStopsStarts /\ FailedStatusIsFinal

(***************************************************************************)
(* An arrival survives until its node starts: nothing else erases what a   *)
(* completed predecessor handed over, not even a run of the node that is   *)
(* still in progress.                                                      *)
(***************************************************************************)
ArrivalsKept ==
  [][\A n \in Node : arrivals[n] \subseteq arrivals'[n] \/ visits'[n] > visits[n]]_vars

(***************************************************************************)
(* The verdict on an instance is final: a late or repeated callback, or    *)
(* another task's failure, never reopens or reverses it.                   *)
(***************************************************************************)
VerdictIsFinal ==
  [][\A i \in Instance : instance[i] \in {"completed", "failed"} =>
       instance'[i] = instance[i]]_vars

-----------------------------------------------------------------------------
(***************************************************************************)
(* The workflow keeps the promise of GraphRun to the readers of its log    *)
(* and result: a suspended instance is live, a run that has not returned   *)
(* is open.                                                                *)
(***************************************************************************)
LogState(i) ==
  IF instance[i] \in {"running", "suspended"} THEN "live" ELSE instance[i]

Run == INSTANCE GraphRun
         WITH log <- [i \in Instance |-> LogState(i)],
              status <- IF result = "none" THEN "open" ELSE result

ImplementsGraphRun == Run!Spec
-----------------------------------------------------------------------------
(***************************************************************************)
(* The inductive invariant behind the safety properties above.             *)
(***************************************************************************)

\* s is what the log may say of the latest instance of a node whose task is t.
StatusMatches(s, t) ==
  \/ t = "none" /\ s \in {"completed", "failed"}
  \/ t \in {"dispatching", "raised"} /\ s = "running"
  \/ t = "waiting" /\ s = "suspended"
  \/ t = "ok" /\ s = "completed"
  \/ t = "failed" /\ s = "failed"

VisitLimits ==
  \A n \in Node : visits[n] <= MaxVisits[n] /\ (task[n] # "none" => visits[n] > 0)

LogMatchesTasks ==
  \A n \in Node : \A v \in 1..MaxVisits[n] :
    /\ v > visits[n] => instance[<<n, v>>] = "absent"
    /\ v < visits[n] => instance[<<n, v>>] = "completed"
    /\ v = visits[n] => StatusMatches(instance[<<n, v>>], task[n])

StartsAreCounted ==
  /\ IsFiniteSet(Started)
  /\ Cardinality(Started) <= MaxTotal
  /\ failure = "none" => total = Cardinality(Started)

\* A failure on display has either reached failure_error or is still to be
\* processed as the outcome of a task.
FailureIsPending ==
  (wfStatus = "failed" \/ \E i \in Instance : instance[i] = "failed")
    => failure # "none" \/ \E n \in Node : task[n] = "failed"

\* While the main coroutine plans the next batch no finished task is unprocessed.
NothingUnprocessed == pc = "loop" => Done = {}

ReturnIsFinal ==
  /\ result # "none" <=> pc = "returned"
  /\ pc = "returned" => Running = {}
  /\ wfStatus = "completed" => result = "completed"
  /\ result = "completed" =>
       /\ failure = "none" /\ wfStatus = "completed"
       /\ \A n \in Node : ~NodeIsReady(n) /\ (arrivals[n] # {} => visits[n] < MaxVisits[n])

\* The latest visit of m has not (or not yet) become a completion that was
\* handed to m's successors.
Unspent(m) == task[m] # "none" \/ (visits[m] > 0 /\ instance[Current(m)] = "failed")

\* The v-th visit of an "all" node, and a pending arrival, each use up one
\* completion of every predecessor.
JoinCredit ==
  \A n \in Node : Join[n] # "any" =>
    \A m \in Pred(n) :
      visits[n] + (IF m \in arrivals[n] THEN 1 ELSE 0) + (IF Unspent(m) THEN 1 ELSE 0)
        <= visits[m]

\* The completions of m that were handed to m's successors, each along all its edges.
Spent(m) == visits[m] - (IF Unspent(m) THEN 1 ELSE 0)

EdgesFollowSpent ==
  \A f \in Edge : taken[f] + skipped[f] = Cardinality(Represented(f)) * Spent(From[f])

\* Jobs and callbacks belong to visits that were started.
JobsWereStarted == \A i \in Instance : job[i] # "none" => i[2] <= visits[i[1]]

EventsHaveJobs ==
  \A n \in Node : \A event \in mailbox[n] :
    Mode[n] = "callback" /\ event.visit \in 1..visits[n] /\ job[<<n, event.visit>>] # "none"

\* As long as no agent called back twice, a callback is the verdict on its job and
\* nobody has taken it.
VerdictsAreOwed ==
  extra = 0 =>
    /\ \A n \in Node : \A event \in mailbox[n] :
         job[<<n, event.visit>>] # "open" /\ instance[<<n, event.visit>>] # "completed"
    /\ \A i \in Instance :
         Mode[i[1]] = "callback" /\ instance[i] = "completed" => job[i] # "open"

CallbacksAreOwed == JobsWereStarted /\ EventsHaveJobs /\ VerdictsAreOwed

IInv ==
  /\ TypeOK
  /\ VisitLimits
  /\ LogMatchesTasks
  /\ StartsAreCounted
  /\ FailureIsPending
  /\ NothingUnprocessed
  /\ ReturnIsFinal
  /\ JoinCredit
  /\ RunsAreCaused
  /\ EdgesFollowSpent
  /\ CallbacksAreOwed
  /\ StaleAnswerNeedsExtra
-----------------------------------------------------------------------------
(***************************************************************************)
(* Every run closes: no loop, no silent agent and no lost callback keeps a *)
(* workflow open for ever, unless an edge expression raises.               *)
(***************************************************************************)
RunCloses == <>(result # "none" \/ pc = "wedged")
=============================================================================
