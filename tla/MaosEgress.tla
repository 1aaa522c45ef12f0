----------------------------- MODULE MaosEgress -----------------------------
(***************************************************************************)
(* The watcher of one submitted graph (im_egress/watcher.py): it polls     *)
(* snapshots of the run (sandbox_runtime.py), posts the nodes' replies     *)
(* (im_egress/result.py) and ends with a word on the outcome.              *)
(*                                                                         *)
(* The run is any that GraphRun allows: what DagWorkflow implements.  A    *)
(* snapshot has results only once the run has returned, so a running graph *)
(* gives the watcher nothing to post.                                      *)
(***************************************************************************)
EXTENDS Integers, Sequences, FiniteSets

CONSTANTS
  Node, MaxVisits, MaxTotal,   \* the graph, as in GraphRun
  Text,                        \* replies of agents
  NoText,                      \* a result without a reply, or of a node that is not an agent
  NodeResult,                  \* results of nodes: the status they carry, "" for none, and the reply
  MaxMissed                    \* bound: posts that do not get through

ASSUME EgressAssumption ==
  /\ MaxVisits \in [Node -> Nat \ {0}] /\ MaxTotal \in Nat
  /\ NoText \notin Text
  /\ NodeResult \subseteq [status : STRING, text : Text \union {NoText}]
  /\ MaxMissed \in Nat

VARIABLES
  log, status,   \* the run: see GraphRun; it may also be "terminated"
  shown,         \* workflow_status in the answer to graph_state
  says,          \* the result of each instance, once it has completed (external)
  watcher,       \* "idle", "loop", "posting", "ended" or, after a crash, "dead"
  late,          \* the watcher's deadline has passed
  snapshot,      \* the terminal snapshot in hand
  published,     \* published_nodes
  texts,         \* published_texts
  thread,        \* posts that reached the chat (external)
  \* Recorded for the properties only.
  missed,        \* posts that did not get through
  misread        \* a failure was read without the result that the run had or would have

run == <<log, status, shown, says>>
memory == <<snapshot, published, texts>>
vars == <<run, watcher, late, memory, thread, missed, misread>>

Run == INSTANCE GraphRun

Reply == Node \X Text
Outcome == {"completed", "failed"}
\* What _slim_result_for_api leaves of a result: the replies, long ones truncated.
Snapshot == [status : Outcome, replies : SUBSET Reply]
NoResult == [status |-> "failed", replies |-> {}]
NodePost == {"node"} \X Node \X Text
FinalPost == {"final"} \X Text
Notice == {"notice"} \X {"failed", "nothing", "timeout"}
Post == NodePost \union FinalPost \union Notice

TypeOK ==
  /\ log \in [Run!Instance -> Run!LogState]
  /\ status \in {"open", "completed", "failed", "terminated"}
  /\ shown \in {"running", "failed"}
  /\ says \in [Run!Instance -> NodeResult]
  /\ watcher \in {"idle", "loop", "posting", "ended", "dead"}
  /\ late \in BOOLEAN
  /\ snapshot \in Snapshot
  /\ published \subseteq Node /\ texts \subseteq Text
  /\ thread \in Seq(Post)
  /\ missed \in Nat /\ misread \in BOOLEAN

Init ==
  /\ Run!Init /\ shown = "running"
  /\ says \in [Run!Instance -> NodeResult]
  /\ watcher = "idle" /\ late = FALSE
  /\ snapshot = NoResult /\ published = {} /\ texts = {}
  /\ thread = <<>> /\ missed = 0 /\ misread = FALSE
-----------------------------------------------------------------------------
(* The run.                                                                *)

\* After a failure is shown nothing starts and the run cannot complete any more
\* (FailureStopsStarts and FailedStatusIsFinal of DagWorkflow).
RunMoves ==
  /\ Run!Step
  /\ shown = "failed" =>
       /\ status' # "completed"
       /\ \A i \in Run!Instance : log[i] = "absent" => log'[i] = "absent"
  /\ UNCHANGED <<shown, says, watcher, late, memory, thread, missed, misread>>

\* A node failed or no branch matched: the run drains, and returns later.
ShowFailure ==
  /\ status = "open" /\ shown = "running"
  /\ shown' = "failed"
  /\ UNCHANGED <<log, status, says, watcher, late, memory, thread, missed, misread>>

\* Someone ends the run in Temporal.
Terminate ==
  /\ status = "open"
  /\ status' = "terminated"
  /\ UNCHANGED <<log, shown, says, watcher, late, memory, thread, missed, misread>>
-----------------------------------------------------------------------------
(* MaosCompletionWatcher._run_watch, with the snapshot it reads            *)
(* (TemporalTaskService.task_snapshot, iter_agent_node_replies).           *)

LatestCompleted(n, v) ==
  /\ log[<<n, v>>] = "completed"
  /\ \A w \in 1 .. MaxVisits[n] : log[<<n, w>>] = "completed" => w <= v

\* _TERMINAL_NODE_STATUSES.  An issue of the AgentService may also be "in_review" when its
\* node completes, and its result carries that status.
TerminalStatus == {"completed", "done", "success"}

\* _node_is_completed: the status decides, and without one the reply.
IsCompleted(a) == IF a.status # "" THEN a.status \in TerminalStatus ELSE a.text # NoText

\* The result of a node is that of its latest completed visit.
HasReply(n, t) ==
  \E v \in 1 .. MaxVisits[n] :
    LatestCompleted(n, v) /\ IsCompleted(says[<<n, v>>]) /\ says[<<n, v>>].text = t

Replies == {r \in Reply : HasReply(r[1], r[2])}

Watch ==
  /\ watcher = "idle"
  /\ watcher' = "loop"
  /\ UNCHANGED <<run, late, memory, thread, missed, misread>>

Following == {"loop", "posting"}

\* completion_timeout_seconds have passed.
Deadline ==
  /\ watcher \in Following /\ ~late
  /\ late' = TRUE
  /\ UNCHANGED <<run, watcher, memory, thread, missed, misread>>

\* Faulty variant: the loop has no deadline.
NeverLate == FALSE

Late == late

Polling == watcher = "loop" /\ ~Late

\* The run goes on, or task_snapshot raised: sleep.
PollAgain == Polling /\ UNCHANGED vars

ReadResult ==
  /\ Polling
  /\ status \in Outcome
  /\ snapshot' = [status |-> status, replies |-> Replies]
  /\ watcher' = "posting"
  /\ UNCHANGED <<run, late, published, texts, thread, missed, misread>>

\* A failure without a result: the run was terminated, or result() took too long, as it
\* does while a failed run drains.
ReadFailure ==
  /\ Polling
  /\ status # "open" \/ shown = "failed"
  /\ snapshot' = NoResult
  /\ watcher' = "posting"
  /\ misread' = (misread \/ status # "terminated")
  /\ UNCHANGED <<run, late, published, texts, thread, missed>>

\* ImEgressPublisher.publish swallows what post_reply raises: whether the post got through,
\* with an error or not, is not looked at.
Deliver(post) ==
  \/ thread' = Append(thread, post) /\ UNCHANGED missed
  \/ UNCHANGED thread /\ missed < MaxMissed /\ missed' = missed + 1

\* Faulty variant: a reply is known by its text.
NewText(r) == r \in snapshot.replies /\ r[2] \notin texts

Unposted(r) == r \in snapshot.replies /\ r[1] \notin published

\* _publish_new_node_replies
PostReply(r) ==
  /\ watcher = "posting"
  /\ Unposted(r)
  /\ published' = published \union {r[1]}
  /\ texts' = texts \union {r[2]}
  /\ Deliver(<<"node", r[1], r[2]>>)
  /\ UNCHANGED <<run, watcher, late, snapshot, misread>>

\* extract_final_reply_text: the reply of run_task or of the first node, unless posted.
LastPosts ==
  IF snapshot.status = "failed" THEN {<<"notice", "failed">>}
  ELSE IF snapshot.replies # {}
       THEN {<<"final", r[2]>> : r \in {x \in snapshot.replies : x[2] \notin texts}}
  ELSE IF published = {} THEN {<<"notice", "nothing">>}
  ELSE {}

\* Faulty variant: the loop goes on after an outcome other than "completed".
BackToLoop == watcher' = IF snapshot.status = "failed" THEN "loop" ELSE "ended"

Return == watcher' = "ended"

Conclude ==
  /\ watcher = "posting"
  /\ \A r \in snapshot.replies : ~Unposted(r)
  /\ IF LastPosts = {} THEN UNCHANGED <<thread, missed>>
     ELSE \E post \in LastPosts : Deliver(post)
  /\ Return
  /\ UNCHANGED <<run, late, memory, misread>>

TimeOut ==
  /\ watcher = "loop" /\ Late
  /\ Deliver(<<"notice", "timeout">>)
  /\ watcher' = "ended"
  /\ UNCHANGED <<run, late, memory, misread>>

\* The worker goes down, its daemon threads with it; Temporal keeps the run.
Crash ==
  /\ watcher \in Following
  /\ watcher' = "dead"
  /\ UNCHANGED <<run, late, memory, thread, missed, misread>>

\* Nothing is left to happen.
Settled ==
  /\ status # "open" /\ watcher \in {"ended", "dead"}
  /\ UNCHANGED vars
-----------------------------------------------------------------------------
RunStep == RunMoves \/ ShowFailure \/ Terminate
WatcherStep ==
  PollAgain \/ ReadResult \/ ReadFailure \/ (\E r \in Reply : PostReply(r)) \/ Conclude \/ TimeOut

Next == RunStep \/ Watch \/ Deadline \/ WatcherStep \/ Crash \/ Settled

Spec == Init /\ [][Next]_vars

\* The watcher's thread and the clock go on: HTTP requests end by their timeouts, and Redis,
\* whose client has none, answers or breaks the connection.  Nothing is assumed of the run.
FairSpec == Spec /\ WF_vars(WatcherStep) /\ WF_vars(Deadline)
=============================================================================
