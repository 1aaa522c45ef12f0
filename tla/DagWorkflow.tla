----------------------------- MODULE DagWorkflow -----------------------------
(***************************************************************************)
(* JsonDagWorkflow (maos_runtime/dag_workflow.py): the Temporal workflow   *)
(* that interprets one JSON control-flow graph.                            *)
(*                                                                         *)
(* The workflow is a single-threaded event loop.  Its main coroutine `run` *)
(* starts every ready node as an asyncio task, waits for the first one to  *)
(* finish, follows the outgoing edges of all the finished ones and loops.  *)
(* Between two awaits nothing else runs, so each action below is the code  *)
(* from one await of a coroutine to its next.  The interleavings are those *)
(* of the main coroutine, the node tasks, the dispatch and poll activities *)
(* and the signals that carry the agents' callbacks.                       *)
(*                                                                         *)
(* Payloads are abstracted: whether a node yields a result and whether a   *)
(* conditional edge matches are free choices.                              *)
(***************************************************************************)
EXTENDS Integers, FiniteSets

CONSTANTS
  Node,          \* ids of the graph's nodes
  Rank,          \* Rank[n]: place of n in sorted(node_specs)
  Edge,          \* indices of the list spec["edges"]
  From, To,      \* end points of each edge
  When,          \* kind of each edge's `when`: see WhenKind
  RaisingEdge,   \* conditional edges whose expression may raise an exception
  StartNode,     \* spec["start_nodes"]
  Join,          \* the node's own "join": "any" (or race, first), "all", "unset"
  MaxVisits,     \* _node_max_visits of each node
  MaxTotal,      \* max_total_visits of the graph
  Mode,          \* how each node runs: see NodeMode
  MaxExtra       \* bound: callbacks beyond one verdict for each agent job

WhenKind == {"always", "expr", "false"}
NodeMode == {"local", "callback", "polling"}
Token == "__start__"   \* the arrival that run() gives to every start node

ASSUME GraphAssumption ==
  /\ IsFiniteSet(Node)
  /\ Token \notin Node
  /\ Rank \in [Node -> Nat]
  /\ \A m, n \in Node : Rank[m] = Rank[n] => m = n
  /\ Edge \subseteq Nat /\ IsFiniteSet(Edge)
  /\ From \in [Edge -> Node]
  /\ To \in [Edge -> Node]
  /\ When \in [Edge -> WhenKind]
  /\ RaisingEdge \subseteq {e \in Edge : When[e] = "expr"}
  /\ StartNode \subseteq Node
  /\ Join \in [Node -> {"any", "all", "unset"}]
  /\ MaxVisits \in [Node -> Nat \ {0}]
  /\ MaxTotal \in Nat
  /\ Mode \in [Node -> NodeMode]
  /\ MaxExtra \in Nat

Pred(n) == {From[e] : e \in {f \in Edge : To[f] = n}}
Outgoing(n) == {e \in Edge : From[e] = n}

\* An instance <<n, v>> is the v-th visit of node n, "n#v" in the code.
Instance == UNION {{n} \X (1..MaxVisits[n]) : n \in Node}

VARIABLES
  pc,          \* where the main coroutine is: see Place
  arrivals,    \* arrivals[n]: sources of the arrivals n has not consumed
  task,        \* the asyncio task of n in `running`: see TaskState
  visits,      \* _visits
  total,       \* total_visits
  failure,     \* failure_error, by its cause: see Cause
  wfStatus,    \* _workflow_status, what the graph_state query shows
  result,      \* status in the value run() returned
  instance,    \* _instances: the status of every instance
  taken,       \* taken_count of each entry of _edges
  skipped,     \* skipped_count of each entry of _edges
  mailbox,     \* _agent_events[n]: empty, or the last callback signalled for n
  job,         \* the agent's side of an instance: see JobState (external)
  extra,       \* callbacks beyond one verdict for each job so far
  answer       \* answer[i]: visit whose callback gave instance i its result

vars == <<pc, arrivals, task, visits, total, failure, wfStatus, result,
          instance, taken, skipped, mailbox, job, extra, answer>>
mainVars == <<pc, arrivals, visits, total, failure, result, taken, skipped>>

Place == {"loop", "wait", "returned", "wedged"}
TaskState == {"none", "dispatching", "waiting", "ok", "failed", "raised"}
Cause == {"none", "node", "no_branch", "total_visits", "visit_limit"}
InstanceState == {"absent", "running", "suspended", "completed", "failed"}
JobState == {"none", "open", "completed", "failed"}
Callback == [visit : Nat, status : {"working", "completed", "failed"}]

TypeOK ==
  /\ pc \in Place
  /\ arrivals \in [Node -> SUBSET (Node \union {Token})]
  /\ task \in [Node -> TaskState]
  /\ visits \in [Node -> Nat]
  /\ total \in Nat
  /\ failure \in Cause
  /\ wfStatus \in {"running", "completed", "failed"}
  /\ result \in {"none", "completed", "failed"}
  /\ instance \in [Instance -> InstanceState]
  /\ taken \in [Edge -> Nat]
  /\ skipped \in [Edge -> Nat]
  /\ mailbox \in [Node -> SUBSET Callback]
  /\ job \in [Instance -> JobState]
  /\ extra \in Nat
  /\ answer \in [Instance -> Nat]
-----------------------------------------------------------------------------
Running == {n \in Node : task[n] # "none"}
Done == {n \in Node : task[n] \in {"ok", "failed", "raised"}}
Current(n) == <<n, visits[n]>>

\* Faulty variant: one arrival is enough for every node.
ReadyOnAnyArrival(n) == arrivals[n] # {} /\ visits[n] < MaxVisits[n]

\* _node_is_ready.  A node without its own "join" is treated as "all": the code does not
\* look at spec["default_join"].
NodeIsReady(n) ==
  /\ arrivals[n] # {}
  /\ visits[n] < MaxVisits[n]
  /\ \/ Join[n] = "any"
     \/ Pred(n) = {} /\ Token \in arrivals[n]
     \/ Pred(n) # {} /\ Pred(n) \subseteq arrivals[n]

\* Faulty variants: nodes start again while they run, or after a failure.
ReadyWhileRunning == {n \in Node : failure = "none" /\ NodeIsReady(n)}
ReadyAfterFailure == {n \in Node : task[n] = "none" /\ NodeIsReady(n)}

ReadyNode == {n \in Node : failure = "none" /\ task[n] = "none" /\ NodeIsReady(n)}

\* Faulty variant: the visit that exceeds the total limit is still started.
BatchOverLimit(S) ==
  /\ \A m \in ReadyNode, n \in S : Rank[m] < Rank[n] => m \in S
  /\ \/ S = ReadyNode /\ (S = {} \/ total + Cardinality(S) <= MaxTotal + 1)
     \/ S # ReadyNode /\ total + Cardinality(S) = MaxTotal + 1

\* What the `for node_id in ready_nodes` loop starts before it breaks: the
\* ready nodes, in sorted order, as far as the total visit limit admits them.
IsBatch(S) ==
  /\ \A m \in ReadyNode, n \in S : Rank[m] < Rank[n] => m \in S
  /\ \/ S = ReadyNode /\ (S = {} \/ total + Cardinality(S) <= MaxTotal)
     \/ S # ReadyNode /\ total + Cardinality(S) = MaxTotal

Init ==
  /\ pc = "loop"
  /\ arrivals = [n \in Node |-> IF n \in StartNode THEN {Token} ELSE {}]
  /\ task = [n \in Node |-> "none"]
  /\ visits = [n \in Node |-> 0]
  /\ total = 0
  /\ failure = "none"
  /\ wfStatus = "running"
  /\ result = "none"
  /\ instance = [i \in Instance |-> "absent"]
  /\ taken = [e \in Edge |-> 0]
  /\ skipped = [e \in Edge |-> 0]
  /\ mailbox = [n \in Node |-> {}]
  /\ job = [i \in Instance |-> "none"]
  /\ extra = 0
  /\ answer = [i \in Instance |-> 0]
-----------------------------------------------------------------------------
(* The main coroutine.                                                     *)

\* A task when the main coroutine wakes up after starting it: local and condition
\* nodes never await, so theirs is over, for those in `raising` by an exception.
StartedTask(n, raising) ==
  IF Mode[n] # "local" THEN "dispatching"
  ELSE IF n \in raising THEN "raised" ELSE "ok"

\* Faulty variant: a start leaves the arrivals it used in place.
KeepConsumed(batch) == arrivals

\* A start consumes every arrival of its node.
Consumed(batch) == [n \in Node |-> IF n \in batch THEN {} ELSE arrivals[n]]

\* Start the batch, then wait.  A ready node the limit does not admit fails the
\* run, at once if no task is running.
Start(batch, raising) ==
  /\ visits' = [n \in Node |-> IF n \in batch THEN visits[n] + 1 ELSE visits[n]]
  /\ arrivals' = Consumed(batch)
  /\ task' = [n \in Node |-> IF n \in batch THEN StartedTask(n, raising) ELSE task[n]]
  /\ instance' = [i \in Instance |->
                    IF i[1] \in batch /\ i[2] = visits[i[1]] + 1
                    THEN IF StartedTask(i[1], raising) = "ok" THEN "completed" ELSE "running"
                    ELSE instance[i]]
  /\ IF batch = ReadyNode
     THEN /\ total' = total + Cardinality(batch)
          /\ pc' = "wait"
          /\ UNCHANGED <<failure, wfStatus, result>>
     ELSE /\ total' = MaxTotal + 1
          /\ failure' = "total_visits"
          /\ IF batch = {} /\ Running = {}
             THEN pc' = "returned" /\ wfStatus' = "failed" /\ result' = "failed"
             ELSE pc' = "wait" /\ UNCHANGED <<wfStatus, result>>
  /\ UNCHANGED <<taken, skipped, mailbox, job, extra, answer>>

StartBatch ==
  /\ pc = "loop"
  /\ ReadyNode # {} \/ Running # {}
  /\ \E batch \in SUBSET ReadyNode :
       /\ IsBatch(batch)
       /\ \E raising \in SUBSET {n \in batch : Mode[n] = "local"} : Start(batch, raising)

\* Faulty variant: arrivals that can no longer be served are forgotten.
NeverBlocked == FALSE

\* blocked_by_visit_limit: an arrival at a node that has used up its visits.
BlockedByVisitLimit == \E n \in Node : arrivals[n] # {} /\ visits[n] >= MaxVisits[n]

\* Nothing ready and nothing running: return.
Finish ==
  /\ pc = "loop"
  /\ ReadyNode = {} /\ Running = {}
  /\ failure' = IF failure = "none" /\ BlockedByVisitLimit THEN "visit_limit" ELSE failure
  /\ result' = IF failure' = "none" THEN "completed" ELSE "failed"
  /\ wfStatus' = result'
  /\ pc' = "returned"
  /\ UNCHANGED <<arrivals, task, visits, total, instance, taken, skipped,
                 mailbox, job, extra, answer>>

\* _record_edge_taken and _record_edge_skipped count on the first entry of
\* _edges with the same end points.
Entry ==
  [e \in Edge |-> CHOOSE f \in Edge :
                   /\ From[f] = From[e] /\ To[f] = To[e]
                   /\ \A g \in Edge : From[g] = From[e] /\ To[g] = To[e] => f <= g]

\* Faulty variant: every parallel edge is counted, not just the first.
CountOnParallel(counter, edges) ==
  [f \in Edge |-> counter[f] + Cardinality({e \in edges : Entry[e] = Entry[f]})]

CountOn(counter, edges) ==
  [f \in Edge |-> counter[f] + Cardinality({e \in edges : Entry[e] = f})]

\* A node whose edges are all conditional and none of which matched.
Stranded(n, followed) ==
  /\ Outgoing(n) # {}
  /\ Outgoing(n) \intersect followed = {}
  /\ \A e \in Outgoing(n) : When[e] = "expr"

Last(S) == CHOOSE n \in S : \A m \in S : Rank[m] <= Rank[n]

\* Faulty variant: a failed execution is handed on like a completed one.
NotRaised == {n \in Node : task[n] \in {"ok", "failed"}}

Okay == {n \in Node : task[n] = "ok"}
Evaluated == {e \in Edge : From[e] \in Okay}

\* Faulty variant: an arrival replaces the ones that wait for an "all" join.
OverwriteArrivals(followed) ==
  [n \in Node |-> IF \E e \in followed : To[e] = n
                  THEN {From[e] : e \in {f \in followed : To[f] = n}} ELSE arrivals[n]]

\* arrivals[to_node][node_id] = execution: the arrivals of one source coalesce.
HandedOn(followed) ==
  [n \in Node |-> arrivals[n] \union {From[e] : e \in {f \in followed : To[f] = n}}]

\* No task is left in `running` once the finished ones are processed.
Drained == Running = Done

\* Process every finished task, in sorted order: a later failure overwrites an
\* earlier one, and the others hand their arrivals on even when one has failed.
Process(followed) ==
  LET stranded == {n \in Okay : Stranded(n, followed)}
      bad == (Done \ Okay) \union stranded
  IN /\ arrivals' = HandedOn(followed)
     /\ taken' = CountOn(taken, followed)
     /\ skipped' = CountOn(skipped, Evaluated \ followed)
     /\ failure' = IF bad = {} THEN failure
                   ELSE IF Last(bad) \in stranded THEN "no_branch" ELSE "node"
     /\ wfStatus' = IF bad = {} THEN wfStatus ELSE "failed"
     /\ task' = [n \in Node |-> IF n \in Done THEN "none" ELSE task[n]]
     /\ instance' = [i \in Instance |->
                       IF task[i[1]] = "raised" /\ i = Current(i[1]) THEN "failed"
                       ELSE instance[i]]
     /\ IF failure' # "none" /\ Drained
        THEN pc' = "returned" /\ result' = "failed"
        ELSE pc' = "loop" /\ UNCHANGED result
     /\ UNCHANGED <<visits, total, mailbox, job, extra, answer>>

\* workflow.wait returned because a task is finished.
ProcessDone ==
  /\ pc = "wait"
  /\ Done # {}
  /\ \E matched \in SUBSET {e \in Evaluated : When[e] = "expr"} :
       Process(matched \union {e \in Evaluated : When[e] = "always"})

\* An edge expression raises in _edge_is_enabled.  The exception leaves run(),
\* Temporal fails the workflow task and replays it for ever.
EdgeRaises ==
  /\ pc = "wait"
  /\ \E e \in RaisingEdge : task[From[e]] = "ok"
  /\ pc' = "wedged"
  /\ UNCHANGED <<arrivals, task, visits, total, failure, wfStatus, result, instance,
                 taken, skipped, mailbox, job, extra, answer>>
-----------------------------------------------------------------------------
(* The tasks of agent nodes (_execute_agent_node).                         *)

EndTask(n, state) == task' = [task EXCEPT ![n] = state]

SetInstance(n, state) == instance' = [instance EXCEPT ![Current(n)] = state]

\* Any exception in _execute_agent_node: _mark_node_failed and a failed execution.
FailNode(n) ==
  /\ EndTask(n, "failed")
  /\ SetInstance(n, "failed")
  /\ wfStatus' = "failed"

CompleteNode(n) ==
  /\ EndTask(n, "ok")
  /\ SetInstance(n, "completed")
  /\ UNCHANGED wfStatus

Conclude(n, ok) == IF ok THEN CompleteNode(n) ELSE FailNode(n)

\* An attempt of the dispatch activity reaches the agent's service.
DispatchReaches(n) ==
  /\ pc = "wait"
  /\ task[n] = "dispatching"
  /\ job[Current(n)] = "none"
  /\ job' = [job EXCEPT ![Current(n)] = "open"]
  /\ UNCHANGED <<mainVars, task, wfStatus, instance, mailbox, extra, answer>>

\* The activity's response is back: the node is suspended.
DispatchReturns(n) ==
  /\ pc = "wait"
  /\ task[n] = "dispatching"
  /\ job[Current(n)] # "none"
  /\ EndTask(n, "waiting")
  /\ SetInstance(n, "suspended")
  /\ UNCHANGED <<mainVars, wfStatus, mailbox, job, extra, answer>>

\* All attempts failed, whether or not one of them reached the agent.
DispatchFails(n) ==
  /\ pc = "wait"
  /\ task[n] = "dispatching"
  /\ FailNode(n)
  /\ UNCHANGED <<mainVars, mailbox, job, extra, answer>>

\* Faulty variant: the event is read and left for the node's next visit.
PeekEvent(n) == UNCHANGED mailbox

PopEvent(n) == mailbox' = [mailbox EXCEPT ![n] = {}]

\* wait_condition holds: the event is popped and the node ends with it.  A
\* progress report ends it too: its task is not completed and yields no result.
ConsumeEvent(n) ==
  /\ pc = "wait"
  /\ task[n] = "waiting" /\ Mode[n] = "callback"
  /\ \E event \in mailbox[n] :
       /\ answer' = [answer EXCEPT ![Current(n)] = event.visit]
       /\ Conclude(n, event.status = "completed")
  /\ PopEvent(n)
  /\ UNCHANGED <<mainVars, job, extra>>

\* Faulty variant: the wait has no timer.
NoTimeout(n) == FALSE

\* The durable timer of wait_condition fires first.
WaitTimesOut(n) ==
  /\ pc = "wait"
  /\ task[n] = "waiting" /\ Mode[n] = "callback"
  /\ mailbox[n] = {}
  /\ FailNode(n)
  /\ UNCHANGED <<mainVars, mailbox, job, extra, answer>>

\* _poll_until_agent_complete returns an event or raises TimeoutError.
PollEnds(n, ok) ==
  /\ pc = "wait"
  /\ task[n] = "waiting" /\ Mode[n] = "polling"
  /\ Conclude(n, ok)
  /\ UNCHANGED <<mainVars, mailbox, job, extra, answer>>
-----------------------------------------------------------------------------
(* The agents: their callbacks become agent_node_completed signals.        *)

Signal(i, status) ==
  mailbox' = [mailbox EXCEPT ![i[1]] = {[visit |-> i[2], status |-> status]}]

\* The agent of instance i calls back with its verdict for the first time.
AgentCallsBack(i, verdict) ==
  /\ pc = "wait"
  /\ Mode[i[1]] = "callback"
  /\ job[i] = "open"
  /\ job' = [job EXCEPT ![i] = verdict]
  /\ Signal(i, verdict)
  /\ UNCHANGED <<mainVars, task, wfStatus, instance, extra, answer>>

\* A callback beyond that: the agent reports progress, or repeats its verdict
\* because the HTTP response to it was lost.
ExtraCallback(i) ==
  /\ pc = "wait"
  /\ Mode[i[1]] = "callback"
  /\ job[i] # "none"
  /\ extra < MaxExtra
  /\ extra' = extra + 1
  /\ Signal(i, IF job[i] = "open" THEN "working" ELSE job[i])
  /\ UNCHANGED <<mainVars, task, wfStatus, instance, job, answer>>
-----------------------------------------------------------------------------
Main == StartBatch \/ Finish \/ ProcessDone

AgentTask(n) ==
  \/ DispatchReaches(n)
  \/ DispatchReturns(n)
  \/ DispatchFails(n)
  \/ ConsumeEvent(n)
  \/ WaitTimesOut(n)
  \/ \E ok \in BOOLEAN : PollEnds(n, ok)

Agents ==
  \E i \in Instance :
    \/ \E verdict \in {"completed", "failed"} : AgentCallsBack(i, verdict)
    \/ ExtraCallback(i)

\* A closed or wedged workflow stays as it is.
Closed == pc \in {"returned", "wedged"} /\ UNCHANGED vars

Next == Main \/ EdgeRaises \/ (\E n \in Node : AgentTask(n)) \/ Agents \/ Closed

Spec == Init /\ [][Next]_vars

\* Worker and Temporal timers stay alive: the event loop runs and every agent
\* node's activity, wait or poll ends.  Nothing is assumed of the agents.
FairSpec == Spec /\ WF_vars(Main) /\ \A n \in Node : WF_vars(AgentTask(n))
=============================================================================
