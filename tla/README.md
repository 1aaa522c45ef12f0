# Verification of the semantic worker and the MAOS runtime

TLA+ models, TLC runs and TLAPS proofs of the program in `src/`: a worker that
reads instant messages from Kafka, plans work with a language model, runs the
plan as a Temporal workflow over agent services, and posts the agents' answers
back into the chat.

    IM webhook -> gateway -> Kafka -> consumer -> handler -> history, intent, planner
                                                    |              |
                                   direct chat  <---+              v
                                       |              task service -> JsonDagWorkflow (Temporal)
                                       v                                |  activities
                                  chat service                          v
                                       |                    agent dispatch, task store
                                       v                                ^
                                  watcher -> Mattermost  <- watcher     +-- callbacks of agents

Paths below are relative to `src/src/`; the design documents are
`src/README.md`, `src/service.md` and `src/task_graph_json_format.md`.

## 1. Inventory

| Component | State it keeps | Operations | Interacts with | Hard behaviour |
|---|---|---|---|---|
| Workflow interpreter, `maos_runtime/dag_workflow.py` | arrivals, running tasks, visit counters, instance log, edge counters, status, `_agent_events`, all in one Temporal workflow | start ready nodes, process finished ones, follow edges, dispatch, wait for a callback or poll, drain after a failure; signal `agent_node_completed`; query `graph_state` | activities of agent dispatch; signals from the task service; readers of its snapshot | loops, joins and branches under interleaved agents; limits hit while agents work; late, repeated and missing callbacks; failure while others run |
| Agent dispatch and task store, `a2a_runtime.py`, `a2a_task_store.py`, `http_json_client.py` | `TASKS`, job caches, Hermes jobs (memory); registry file | `send_message`, `poll_task`, callback completion, `store_task`; reading the decision out of an agent's answer | Temporal's retries; four agent backends over HTTP; registry file | lost replies, retries, crashes between creating and storing a job, stale copies of a task; comments of others; prose, code blocks and several objects in one answer |
| Provider registry and settings, `a2a_provider_registry.py`, `runtime_config.py` | tables filled at import | look-ups | agent dispatch | none |
| Task service, `sandbox_runtime.py` | worker thread and loop, started workflows | `submit_batch`, snapshots, `handle_agent_callback` | Temporal client; plan submission; watchers; agents' callbacks | blocking hand-over between threads with a 30 s timeout |
| Plan submission, `sementic/execution/*`, `task_graph.py` | process environment | validate a plan, give its nodes agents, put its credentials into the environment, submit, restore | consumer's thread; loop of the task service, where other runs send requests that fall back on the environment | two threads that share the environment; names that clash; cyclic graphs; fields left out |
| Kafka consumer and handler, `kafka_consumer.py`, `handler.py`, `worker_main.py` | consumer offsets; the message in hand | poll, handle, commit on a timer | Kafka, history, planner, direct chat, task service | redelivery, loss, order of effects |
| Chat history, `redis_history.py` | Redis list per channel, at most 20 entries | append (async or blocking), read the latest 10 | handler and watcher threads | a failed append that was in fact done; concurrent writers |
| Direct chat, `direct_chat.py`, `multica_chat_client.py` | session per group and bot (Redis), one watcher thread per question | find or create session, send, send again; poll, publish, give up | consumer, chat service, Mattermost | repeated sends, shared sessions, untagged rows, races between the watcher's two requests |
| Reply egress, `sementic/im_egress/*` | published texts of a watch; cached token | publish node replies, final text, errors | task snapshots; Mattermost; history | partial failure of posts; timeouts racing a late result |
| Gateway, `sementic/gateway/*` | none (Redis status of bots) | filter, circuit breaker, publish | Kafka | messages refused or produced twice |
| Intent, planning, models, `planner.py`, `intent_classifier.py`, `llm.py`, `prompts.py` | attempts at the message in hand | build prompts, parse answers, ask again | external language model | unreadable and refused answers while the consumer waits |
| Bots and accounts, `bot_registry.py`, `bot_service.py`, ... | caches of files and environment | which bots a message may set to work | handler, submission | the service out of reach; one bot under several names |
| Observer, CLI, API, `maos_observer/`, `cli.py`, `api.py` | none | read-only views and entry points | task service | none |
| Deployment scripts, `src/scripts/` | none | copy files, run remote commands, inject test messages | none of the above at run time | none |

What makes each of them correct:

* *Workflow interpreter*: limits bound every loop; an `all` join never runs ahead
  of a predecessor and loses no arrival; nodes run for a cause only; the log and
  the edge counters are truthful; verdicts are final; a failure stops all starts
  but drains what runs; "completed" hides nothing; every run closes.
* *Agent dispatch*: one job per node as far as the program can know; a bounded
  number of jobs whatever is lost; memory, disk and workflow speak of the same
  job; a node completes with its own job's verdict, which is then durable, unless a
  callback brought a task of its own; every dispatch and every callback wait ends.
* *Direct chat*: the answer to a question is its own reply, once; nothing is
  posted after the watcher's last word; every watcher ends.
* *Kafka consumer, handler, history*: a message is lost only by a restart, and one
  for each; every message settles; only users' messages set off work, once per
  delivery, repeats included (section 7); the prompt is the context in the order it was written; the history
  holds nothing that is not owed to a delivery or a post.
* *Egress*: what is posted is true of the run as it ended; a watcher that ends has
  posted all last words of nodes or a notice; every watcher ends, whatever the run does.
* *Submission*: every submission leaves the environment as it was, but for the
  workspace slug; a request carries the credentials of its own message; work and
  replies go to the bots the plan names; what is started can be run and shown;
  `handle` returns from every message.
* *Agents' answers*: what is judged is the agent's answer; its closing block or
  first object decides; no gate is passed unless approval was said.

`PROJECT.json` lists the hazards of this code, one by one, with the line where
each would bite and the property that watches it, or why none does yet.

## 2. Plan

| # | Modules | Subject | State |
|---|---|---|---|
| 1 | `DagWorkflow`, `DagWorkflowProperties`, `GraphRun`, `MCDagWorkflow`, `DagWorkflowProofs` | the interpreter, and the abstract run it implements | modelled, checked, proved |
| 2 | `AgentDispatch`, `AgentDispatchProperties`, `MCAgentDispatch`, `AgentDispatchProofs` | dispatch, polling, callbacks and the registry through retries and crashes | modelled, checked, proved |
| 3 | `DirectChat`, `DirectChatProperties`, `ReplyThread`, `MCDirectChat`, `DirectChatProofs` | questions to one bot, and the abstract thread a reader sees | modelled, checked, proved |
| 4 | `Worker`, `WorkerProperties`, `MCWorker`, `WorkerProofs` | consumer, handler and history: offsets, redelivery, order of a message's effects, the bounded window with its two kinds of writers; gateway as the producer | modelled, checked, proved |
| 5 | `MaosEgress`, `MaosEgressProperties`, `MCMaosEgress`, `MaosEgressProofs` | the watcher of a graph, on top of `GraphRun`, shown to implement `ReplyThread` as direct chat does | modelled, checked, proved |
| 6 | `PlanGraph`, `PlanBots`, `PlanSubmission`, `PlanSubmissionProperties`, `MCPlanSubmission`, `PlanSubmissionProofs` | from a message to a running plan: normalisation and levels, bots, attempts, the shared environment | modelled, checked, proved |
| 7 | `AgentVerdict`, `AgentVerdictProperties`, `MCAgentVerdict`, `AgentVerdictProofs` | from an agent's answer to the branch of a gate | modelled, checked, proved |
| 8 | edge expressions | the evaluator's tokens and grammar against a reference definition | not begun |
| 9 | registry of two processes | lost updates of the shared file | not begun |

Composition: 5 instantiates `GraphRun` as the run its watcher reads, so that
1 justifies what 5 assumes (`ImplementsGraphRun`, and for a failure on display
`FailureStopsStarts` and `FailedStatusIsFinal`). 2 refines what 1 leaves open about one node (whether
its dispatch ends, and with which verdict), and 7 what such a verdict says. 6 makes
the graphs that 1 takes as constants, and picks the routes that are free choices
in 4. Both 3 and 5 implement `ReplyThread`. 4 is the frame: a run of `Worker` is a workflow of 1 or a question
of 3, and its watchers are those of 3 and 5 seen from the history. The order puts
the code that decides about users' work first.

What has to be computed step by step (levels, lists of bots, the state of a
reader) is a recursive function, never a recursive operator, so that it can be
proved about; `FiniteInduction` holds the induction these proofs share.

## 3. The models

### DagWorkflow: `JsonDagWorkflow`

A workflow is one event loop; between two awaits nothing else runs. So an action
is the code of one coroutine from an await to its next.

| Action | Code |
|---|---|
| `StartBatch` | the loop over ready nodes in `run`: start in sorted order, break at `max_total_visits` (`IsBatch`, `Start`), local nodes run to their end |
| `Finish` | nothing ready, nothing running: blocked by the visit limit, or completed |
| `ProcessDone` | after `workflow.wait`: every finished task in sorted order, edges followed and counted, failures recorded, return once drained |
| `EdgeRaises` | an exception from an edge expression leaves `run`; Temporal replays the task for ever (`pc = "wedged"`) |
| `DispatchReaches`, `DispatchReturns`, `DispatchFails` | the `dispatch_agent_node` activity seen from the workflow |
| `ConsumeEvent`, `WaitTimesOut` | `wait_condition` on `_agent_events` and its timer |
| `PollEnds` | the outcome of `_poll_until_agent_complete` |
| `AgentCallsBack`, `ExtraCallback` | signals: the verdict of a job; progress reports and repeats |

`arrivals`, `visits`, `total`, `failure`, `wfStatus`, `instance`, `taken`,
`skipped` and `mailbox` are the code's `arrivals`, `_visits`, `total_visits`,
`failure_error`, `_workflow_status`, `_instances`, the counts in `_edges` and
`_agent_events`; `task` is the dictionary `running`. `job` and `answer` are
history of the agents' side. Payloads and the truth of edge expressions are free
choices; the text of errors is left out, their cause is kept. `Pred`, `Outgoing`
and the joins come from the normalised graph given as constants.

`GraphRun` is what a reader of the log and the final status relies on: visits
follow one another, one verdict each, at most `MaxTotal` begun, none after a
failure, closed once and cleanly. `ImplementsGraphRun` maps `running` and
`suspended` to "live" and the absence of a result to "open".

### AgentDispatch: `send_message`, `poll_task`, callbacks, task store

A task is one idempotency key. Activities are `async def` functions that block
the event loop, so they do not interrupt each other; steps end where a request
or a crash can separate effects: `SendFinds`/`SendCreates` (the service acts, the
reply may be lost), `SendStores` (memory, then the registry, whose write may
fail), `PollPending`/`PollFails`/`PollEnds`, `Callback` (memory, registry,
signal: each may be the last), `CallbackWithTask`, `WaitEnds`, and the environment `Expire`,
`JobEnds`, `NetworkChanges`, `Crash`. `Kind` gives each task one of four
backends, which differ in how a job is found again (listing, derived task id,
memory of the process) and in what survives a restart. `CallbackWithTask` is the first
branch of `complete_task_from_agent_callback`: a callback that carries an `a2a_task`
is signalled as it is, with nothing looked up or stored, whatever it says; such a task
has job 0 in the model. `event` is the A2A task in `_agent_events`, which `WaitEnds`
pops and takes for the node's task (`hint`). Only the simulator is given an address to
call back, so only its tasks get callbacks. Results, prompts and
agent cards are abstracted; a record is a state and the number of its job.

### DirectChat: router, session store, watchers

A step is the code between two awaits. `Lookup`, `Create`, `Store`, `Send` and
`SendFails` are `maybe_submit` (with several questions in flight while Kafka
partitions move: `Consumers`), where each service call succeeds, fails, or
succeeds with its reply lost; `SendRaises` is the one retry in a new session.
`PublishReply`, `FindNoReply`, `KeepWatching`, `GiveUp` and `TimeOut` are
`_watch_async`. The chat service queues tasks in sessions and adds assistant
rows, possibly without a task id; the session's key may expire; a crash takes
questions in hand and watchers with it. A message delivered twice is two
questions. That several bots have sessions of their own is by the key of the
store, so one bot and one group are enough.

`ReplyThread` is what a reader of the chat sees of one question: nothing, then
replies while a watcher follows it, then at most one notice, then silence.

### Worker: consumer, handler, history, publishers

One group, so one partition and one Redis list. A step is the code between two
awaits, of the consumer's thread or of a watcher's.

| Action | Code |
|---|---|
| `Ingest` | `GatewayService.ingest`: a user's message, or a posted reply by the webhook, is produced; a webhook may be sent again |
| `Poll`, `Idle`, `LoopEnds` | `KafkaConsumerLoop.run`: `getone`, its timeout, and the ends of the thread |
| `Commit` | the timer of `enable_auto_commit`: it commits what was handed out, finished or not |
| `AppendMessage`, `AppendRaises` | `history_store.append`, and the end of a reply's handling (`is_bot`) |
| `ReadRecent`, `Route` | `get_recent` and `_history_for_prompt`; bots, direct chat, intent and planner, whose outcome is a free choice |
| `Submit`, `StartLate` | `submit_plan` or the direct-chat router; after `_run_coro`'s timeout the coroutine goes on |
| `Watch` | the watcher's thread, if there is an egress context |
| `Report`, `Record`, `Retry` | `publish`: post, then `append_bot_reply`, then `append_bot_reply_blocking` once |
| `Restart` | a crash or stop of the process and its next start: submissions, watchers and the message in hand are gone, the consumer resumes at the committed offset |

`topic` and `committed` are Kafka's, `next` is the consumer's position, `history`
the Redis list with its newest entry first, `prompt` what the models are shown.
`late` holds coroutines nobody waits for, `watch` the watcher threads. `taken`,
`pushed`, `seen`, `settled` and `interrupted` record what happened, for the
properties. A write that raised may have been done. One reply stands for all the
posts of one watcher, and one thread consumes: a second worker of the same group
would take other partitions, that is, other groups.

### MaosEgress: the watcher of a graph

The run is `GraphRun` with one thing more to see, `shown`: the status that the
query `graph_state` gives, "failed" already while a failed run drains. A step of
the watcher ends where a post or a sleep separates effects.

| Action | Code |
|---|---|
| `RunMoves`, `ShowFailure`, `Terminate` | `JsonDagWorkflow.run` as `GraphRun` describes it, its early failure, and an end from outside |
| `Watch`, `PollAgain`, `Deadline`, `TimeOut` | `watch` starts the thread; `_run_watch` sleeps, or gives up with a notice |
| `ReadResult` | `_closed_task_from_handle`: the result, with the reply of each node's latest completed visit, if its status is terminal or absent (`Replies`, `iter_agent_node_replies`; `IsCompleted`, `_node_is_completed`) |
| `ReadFailure` | the same or `_running_task_from_handle` when `result()` raises or takes over 3 s: "failed" and nothing else |
| `PostReply` | one round of `_publish_new_node_replies`; `Deliver` may miss, the node counts as published all the same |
| `Conclude` | after the last reply: `extract_final_reply_text`, "nothing to show" or the failure |
| `Crash` | the worker stops and its daemon threads with it |

A snapshot of a run that has not returned carries no result, so the watcher posts
everything at the end: `published` outlives one snapshot in the code, but is never
consulted for a second one (`PostsAreCounted`). For the same reason the final text
is always one of the replies just posted, and the branch of `LastPosts` that posts
it is never taken. `says` is the result of each visit, a status and a reply, chosen at
the start. Three kinds of node are silent for the reader: a node that is not an agent
and one whose answer is blank, which both say `NoText`, and one whose result carries a
status other than completed, done and success although the visit completed, as an
issue under review does (section 7). `missed` and
`misread` record lost posts and unread results for the properties.

### PlanGraph: the shape of a plan

`IsTaskGraph` is the validator of the planner's model, `Normalizes` says when
`normalize_graph` raises nothing, `Edges`, `Starts` and `Levels` are what it
returns. `Completed` is the round-by-round loop that `_assert_acyclic` and
`_build_levels_from_edges` share; `Walk` is the queue of `_layout_levels` for graphs
with cycles, of which `Visit` takes the next node that was not seen, and `Order`
adds the nodes it does not reach. A graph keeps of each node what later steps look at: dependencies,
whether it is agent work, the agent's key and id, and which optional fields were
given.

### PlanBots: who may work, who does

Messages, bots and the look-ups between them. `Creds` is where the credentials of
a message come from; `FromService`, `FromRegistry` and `DefaultBot` make
`OwnedBots`; `IsDirect` says which messages go to `DirectChat` instead;
`MayPlan` and `FitsRequest` are the planner's refusals; `Jobs` is
`enrich_plan_for_execution`, `AnsweringBot` is `build_egress_context`. User ids,
agent ids and display names share one set of names, because the code's index does.

### PlanSubmission: attempts, environment, requests

Two threads take steps: the consumer's, which handles one message at a time and
runs `submit_plan` in a helper thread it waits for, and the loop of the task
service.

| Action | Code |
|---|---|
| `Receive`, `Leave` | `handle` up to the intent, and every way back to the consumer without a submission |
| `Classify` | `TaskIntentClassifier.classify`: two attempts, then an exception; no bots, no plan |
| `Propose`, `PlanFails` | `Planner.plan`: three attempts at a graph that validates and fits, an error of the client is not retried |
| `SetToken`, `SetWorkspace` | entry of `multica_job_env_from_graph`, one assignment to `os.environ` each; the slug is removed with the workspace |
| `Submit` | `submit_batch`: refused at once, or run in the loop when it is free, where it may fail |
| `RestoreToken`, `RestoreWorkspace` | exit of the context manager, in the same order |
| `Begin` | `run` up to its first await; wedged if a limit is null |
| `ReadToken`, `ReadWorkspace`, `Send` | `_multica_job_headers`: its three look-ups, then the request or its refusal |

`request` is the latest request, `crossed` records that a submission changed the
environment while its headers were put together: the three look-ups run in the
loop's thread, the assignments in another. The 30 s timeout of the hand-over is in
`Worker` (`StartLate`), its consequence for the environment is none: the helper
thread restores it as it leaves.

### AgentVerdict: from an answer to a branch

A text is a sequence of tokens: braces, quotes, backslashes, fences of code
blocks, words. `json.loads` is a constant (`Loads`), and so are the phrases a word
contains (`Signs`) and the table of `_normalize_decision_value` (`Normal`).

| Action | Code |
|---|---|
| `Remark`, `GiveAnswer`, `Finish` | the agent service: comments of others, the agent's result as a comment, then its status, as the prompts demand |
| `ReadStatus`, `ReadComments` | `_poll_multica_task`, then `_complete_multica_task`, whose read of the comments may fail unnoticed |
| `ReadReply` | the reply of a native job or of Hermes |
| `NextBlock`, `WholeText`, `EndScan` | `_json_candidates_from_text`: code blocks in order, then the text |
| `ScanString`, `ScanQuote`, `ScanOpen`, `ScanClose`, `ScanOther` | one round of the loop in `_balanced_json_objects` each |
| `Load` | `_hermes_output_validation_error`, then `_extract_structured_agent_output`: first object that loads, else words |
| `Branch` | the edges of the gate in `JsonDagWorkflow.run` |

Two limits of the code show in the properties. `BareObjectDecides` asks for no
brace or quote before the object, because one of them hides it. And a first object
without a key for the decision, unless it is empty, hides the words, so the run
ends as "unmatched".

### Faulty variants

Definitions marked "Faulty variant" are the mutations listed under "mutants" in
`PROJECT.json`: each replaces one operator by the form a plausible bug would
have, and each property is violated under one of them. No specification uses
them otherwise.

## 4. Runs

All runs finish in about two minutes or less on two cores. Deadlock is checked in every
run; a closed workflow or a settled chat stutters explicitly (`Closed`,
`Settled`), so anything else that stops is reported.

| Run | Question | Instance and bounds |
|---|---|---|
| `review_loop` | limits, the inductive invariant, stale answers, and that every run returns (`FairSpec`), in a loop | plan/review loop of two callback agents, 3 visits each, total 6 (so both limits can bite), one raising exit edge, 1 extra callback |
| `fork_join` | joins, causes, edge counters, failures, `GraphRun` (overlapping visits, verdicts, draining) | fork of a callback and a polled agent, an `all` join, an `any` node that is raced for, parallel edges, a self-loop, a dead edge, total 6, which runs out while agents work |
| `dispatch` | one job per node, durable and stable verdicts, ends of dispatches and callback waits (`FairSpec`) | one task of any of the four backends, 3 attempts, 2 crashes, callbacks with and without a task of their own |
| `duplicate_job` | *violation*: a retry creates a second native job | one task, 2 attempts |
| `chat_race` | the chat invariant, own answers, copies of an answer | two questions, two consumers, 1 lost reply of the chat server per question |
| `chat_ends` | `ReplyThread`, every watch ends (`FairSpec`) | one question, 1 expiry, 1 lost reply, 1 crash |
| `worker` | loss, repetition and causes of work, the prompt, the entries of the history, and that every message settles (`FairSpec`) | two users' messages in a topic of two, replies included; a list of 3 entries, a window of 2; 1 restart, 1 call that raises |
| `egress` | posts are true, no last word withheld, `ReplyThread`, every watch ends (`FairSpec`) | two nodes, one visited twice, total 3, four answers that both may give: two that are published, one under review, one without a word; 1 missed post |
| `reply_missing` | *violation*: a reply can be reported as missing | two questions |
| `submission` | the environment, credentials, bots, levels, and that every message leaves (`FairSpec`) | two messages in turn, out of one with credentials, one without, one for direct chat; three answers of the bot service or none; bots whose names clash; two process environments; 50 graphs: all of two nodes by edges and by dependencies, six larger ones, some invalid, some with agents |
| `absent_limit` | *violation*: an optional limit left out stops the workflow | as `submission` |
| `gate_verdict` | which text is judged, which object decides, what passes a gate, the scanner's invariant | every text of up to four tokens over both braces, quote, backslash and a member; prose, stray signs, objects and code blocks in pairs and triples; 1 remark; three backends |

Why these bounds are enough: every guard of the interpreter compares a counter
with its limit, and each limit is reached and crossed in some run; two nodes
that race, and a join of two predecessors, show every order of two arrivals.
Three attempts show "first fails, a later one succeeds or is the last". A dispatch
task shares nothing with another but the network and the crashes, which may change
at any step, so one task shows all a task can do. Two crashes cut every sequence of
job, store and reply, and cut the repair as well. Two questions are the least that share a
session, and a question interacts with another only through the session in Redis
and the rows of that session; `ReplyThread` and the end of a watch are about one
question each, and the other tasks of its session are free to be pending. In `worker` a topic of
two holds two messages, a message twice, or a message and the reply to it; with a
redelivery and a watcher's two writes up to four entries are written, so a list of
three and a window of two both overflow. Bounds on environment faults (`MaxExtra`, `MaxFaults`,
`MaxCrashes`, `MaxExpiries`, `MaxLost`) limit how often a fault happens, never
where. In `egress` one node has an earlier visit to confuse with its last, and two
nodes may say the same; one missed post tells "posted" from "published". In `submission` two
messages show a request of the first run during the submission of the second, and
a third would find the environment as the second did; the levels of a graph depend
on the graph alone, and two nodes have every cycle a walk can meet at a step, the
larger ones a diamond, a loop behind the start, a part never reached. In
`gate_verdict` four tokens put every sign next to every other inside and outside an
object and a string; the composed texts add what stands before and after. For the
safety properties the theorems of section 6 remove the bounds.

Symmetry is used in one chat run, over interchangeable questions; it checks
invariants only.

## 5. Fairness

* `DagWorkflow!FairSpec`: weak fairness of the main coroutine (the worker runs)
  and of each agent node's task: Temporal retries a dispatch a bounded number of
  times and fires durable timers. Nothing is assumed of the agents: a callback
  need not come. For a *polled* node the same clause would say that the poll loop
  ends, which the code does not guarantee (section 7); `review_loop` therefore uses
  callback agents only.
* `AgentDispatch!FairSpec`: weak fairness of sending, polling, waiting and the
  passing of time for each task. Services may be unreachable for ever.
* `DirectChat!FairSpec`: weak fairness of the router, of each watcher and of its
  clock: every HTTP request has a client timeout, so a step ends with a result or an
  exception. The Redis clients of the router and of the history are created without
  a `socket_timeout` (`worker_main.py:124`, `redis_history.py:104`), so a step that uses
  Redis needs Redis to answer, with whatever error, or its connection to break. Nothing
  else is assumed of Redis, and nothing of the chat service or Mattermost.
* `Worker!FairSpec`: weak fairness of the consumer's thread while it has a message
  to take or in hand: every HTTP call of the handler ends by its client's timeout, and
  Redis, whose clients have none, is assumed to answer or to break the connection.
  Nothing is assumed of the commit timer, the watchers, Kafka or the chat; the thread may end at any poll, which the property excuses, as nothing in the
  code restarts it.
* `MaosEgress!FairSpec`: weak fairness of the watcher's thread, whose polls and
  posts have client timeouts, and of its clock. A post is followed by a write to the
  history, so here, too, Redis has to answer or to break the connection. Nothing is
  assumed of the run.
* `PlanSubmission!FairSpec`: weak fairness of the handler's steps, since a request
  to the language model ends by its client's timeout, and of a request whose headers
  are begun. `Submit` is strongly fair: it waits for the loop of the task service,
  which is free between any two requests, and asyncio's queue is first in, first out,
  so requests cannot overtake it for ever.
* `AgentVerdict` has safety properties only.

Crashes are bounded in every run: liveness is claimed for a worker that
eventually stays up.

## 6. Proofs

The theorems hold for every value of the constants that meets the assumption
named in the component's module; nothing else is assumed.

* `DagWorkflowProofs` (from `GraphAssumption`: a finite graph with a total order
  of node ids, edges between its nodes, positive visit limits). The inductive
  invariant `IInv` needs more than the properties say: that a latest instance
  says what its task says (`LogMatchesTasks`), that a failure on display is still
  to be processed or already recorded (`FailureIsPending`), that nothing finished
  is unprocessed when a batch is planned, and `JoinCredit`: each visit of an
  `all` node and each pending arrival uses up one completion of every
  predecessor. The last one is what makes `JoinAllInStep` true in graphs with any
  loops. From it follow `VisitsAreBounded`, `LogIsFaithful`,
  `CompletedRunsAreClean`, `RunsDrain`, `JoinsKeepStep`, the action properties
  `FailedRunsOnlyDrain` and `FailedStatusSticks` (together `FailuresAreFinal`, the
  form that the run checks), `ArrivalsAreKept`, `VerdictsAreFinal`, and the refinement `RunIsGraphRun`.
  `RunsHaveCauses`, `EdgeCountsAreExact` and `AnswersBelongToVisits` each add what
  the property itself leaves open: which arrivals a start uses up, which completion
  is not yet counted, which jobs may still call back.
* `AgentDispatchProofs` (from `DispatchAssumption`). `DispatchInv` says that
  records name real jobs and report their verdicts (`RecordsAreTrue`), that a job
  in hand belongs to a key that is stored nowhere (`InHandIsFresh`), that every
  job was paid for by an attempt (`JobsArePaid`), and that memory and registry
  agree (`StoresAgree`), and that an event about a stored task reports the registry's
  verdict (`EventsAreTrue`); an event with a task of the callback's own names no job
  and is the one exception. It gives `JobsAreBounded`, `OneJobPerNode`,
  `CompletionIsDurable` (with that exception), `StoredKeysAreSettled` and `VerdictsStayStored` (together
  `StoredKeysStay`).
* `DirectChatProofs` (from `ChatAssumption`; the set of questions need not even be
  finite). `OwnAnswer` is inductive only together with `SessionsAreOpened` (nobody
  knows a session before it exists, and a question's second session exists only
  after its first send raised), `ResentAfresh` (a question sent again is in its
  own session, where its first task is not) and `RowsAreReal` (rows belong to
  queued and ended tasks). `AnswersCounted` relates the answers in a thread to the
  posts that were lost and to the watcher's state. `ChatIsReplyThread` shows that
  every step of router, watchers and environment is a step of `ReplyThread` or a
  stutter for each question.
* `WorkerProofs` (from `WorkerAssumption`). `WorkerInv` adds what the properties
  take for granted: the committed offset never passes the consumer
  (`OffsetsInOrder`), an offset still ahead has been delivered only in earlier
  lives of the worker (`TakenOncePerLife`), past `is_bot` only users' messages are
  in hand and only started runs are watched or answered (`WorkIsAskedFor`), and
  the Redis list is the last writes (`HistoryIsRecent`). It gives `LossIsBounded`
  and `WorkIsBounded`. `HistoryIsOwed` needs `EntriesInv` on top: a delivery in
  hand still has its write to make, and what a watcher may have written is bounded
  by where it is in its two attempts. `PromptsAreContext` needs `ContextInv`, what was
  read with the message in hand, and a numbering of the entries that are kept.
* `MaosEgressProofs` (from `EgressAssumption`; nodes need not be finitely many).
  `EgressInv` is inductive: the snapshot in hand is the result of a run that has
  closed, or has no replies (`SnapshotIsTrue`), and the posts are those of the
  published nodes (`PostsAreCounted`). `OpenRun` is the key: while the run is open
  only notices can have been posted, so its steps falsify nothing. It gives
  `PostsTrue`, `NothingIsWithheld`, both about last words, that is answers under a
  terminal status or none, and the refinement `GraphIsThread`.
* `PlanSubmissionProofs` (from `SubmissionAssumption` and `BotsAssumption`).
  `EnvIsKept` says for each step of a submission what stands in the environment and
  what was saved; `SendingIsOwn` that headers in the making agree with their run and,
  unless crossed, with the process settings; together with the types they are
  inductive (`SubmissionInvariant`). `CredentialsGoAllTheWay` is the promise to the
  user: no interleaving of submissions and requests mixes up the credentials of
  messages that bring both. `PlanFitsBots` says that the bots in hand have distinct
  user ids, however the lists that they come from repeat themselves, and that the
  plan in hand was accepted for them; with it `WorkGoesWhereNamed` follows, since a
  key that no later bot bears finds the one it names. `EveryPlanIsLaidOut` is about
  graphs only: the rounds complete every node or leave a set in which each node has a
  predecessor (`CompletedUnlessCyclic`, by counting: a round that completes nothing is
  followed by none that does); the walk adds a new node in each step or holds all
  that the start nodes lead to (`VisitWalks`), so as many steps as there are nodes
  are enough.
* `AgentVerdictProofs` (from `VerdictAssumption`: the signs are distinct tokens; and
  `ObjectsAreBalanced`: `json.loads` takes a text for an object only if it runs from
  an opening brace to the one that closes it, braces inside strings not counted.
  Nothing else is assumed of `Loads`, nor of `Signs` or `Normal`). `ScannerOK` says where the
  scanner is and that every candidate runs from an opening to a closing brace,
  `AnswerFirst` that the status follows the answer, `ApprovalBacked` that an
  approval has an object or a word behind it. It gives `VerdictInvariant`,
  `TheAnswerDecides` and `ApprovalMustBeSaid`. `ObjectComes` follows the object that
  the answer is about: until it is found the scanner is before it, outside strings and
  objects, or inside it in the very state in which JSON reads it (`Lexed`), and nothing
  found before it loads as an object. From it follow `TheClosingBlockDecides` and
  `TheBareObjectDecides`.
* `FiniteInduction`: induction on numbers and on finite sets, the existence of
  functions defined by recursion and their equality with whatever takes the same
  steps, least and greatest elements. The library states such facts for an operator,
  which the provers cannot instantiate; here they are stated for sets and functions
  and proved from the well-foundedness of the natural numbers.

So every invariant, action property and refinement that a passing run checks is
also a theorem. Only model-checked: liveness (`RunCloses`, `DispatchEnds`,
`CallbackNodeEnds`, `EveryWatchEnds`, `EveryMessageSettles`, `EveryGraphIsClosed`,
`EveryMessageLeaves`), since fairness is stated with ENABLED, which is beyond the
proof system; and the violations.

## 7. Findings

Each is a run of its own whose counterexample is the code's behaviour against a
line of the repository:

1. `duplicate_job`: a native job can be created twice for one idempotency key.
2. `reply_missing`: an answer that arrives between the watcher's two requests is
   reported as missing.
3. `absent_limit`: a plan without `max_total_visits`, which the format calls
   optional, is accepted and started but never runs: the field arrives as null, and
   `int(None)` raises in `run`. A job without `timeout_seconds` fails its node.

Further disagreements, seen while modelling and part of the models, without a run:

* No message is handled at most once: `service.md:345` demands ("必须实现") an
  idempotency check on event id or message id (`service.md:350`) before anything is
  written to the history. `handle` has none (`handler.py:69`): a message that is
  handed out again after a restart, or published again by a repeated webhook, is
  written again and may set off another run. `RunsAreAskedFor` and `EntriesAreOwed`
  say what the code does instead: how often a message is repeated, and for which
  reasons. They are bounds on the repeats, not the promise of the document.
* The answer of a completed node may be withheld: a Multica node completes as `done`
  or `in_review` (`a2a_constants.py:8`), agents are told to end their issue as either
  (`a2a_runtime.py:1659`, `task_graph_json_format.md:387`), and `_multica_result`
  copies the status into the result (`a2a_runtime.py:1156`); but `_node_is_completed`
  (`result.py:22`) knows only completed, done and success. So the answer of a node
  under review is not posted, against the docstring of `iter_agent_node_replies`
  (`result.py:30`), and if no other node answers the watcher says that there is nothing
  to show. It concerns nodes whose operation is not `agent_task`; the others are moved
  to native jobs (`plan_enricher.py:28`), which complete as completed only.
  `PostsAreTrue` and `NothingWithheld` speak of last words, which leave such answers
  out.
* Readiness ignores `default_join` (`dag_workflow.py:354`); a node without a join
  of its own waits for all predecessors, where `task_graph_json_format.md:36`
  promises `any` for graphs with edges.
* A branch expression that raises leaves the workflow open and replaying
  (`EdgeRaises`, `dag_workflow.py:685`), where `task_graph_json_format.md:136` lets it
  fail.
* The deadline of a polled node is compared only after a poll that was answered
  (`dag_workflow.py:761` and `:796`), so `timeout_seconds` bounds nothing while the
  service is silent (`task_graph_json_format.md:78`).
* The prompts ask for a closing code block, but the first object in the answer
  counts (`a2a_runtime.py:2343`): an earlier block, `{}` included, hides it.
* A callback that brings an `a2a_task` along completes its node with a task that is not
  in the store and that no stored job stands behind (`a2a_runtime.py:195`):
  nothing on disk says that it completed. `CompletedIsDurable` states exactly this
  exception.
* Submitting a plan with a workspace removes the workspace slug from the
  environment for good (`maos_executor.py:111`): later requests that relied on it
  are refused. `RequestsCarryOwnCredentials` states exactly this exception.

## 8. Not modelled

* Language-model calls, prompts, text filters, message layout, the grammar of edge
  expressions (a free choice in `DagWorkflow`, an equality in `AgentVerdict`), local
  operations of the simulator: no state, and their outcome is a free choice wherever
  a model uses it.
* Provider tables, settings, tokens, the observer, CLI, API and the deployment
  scripts: read-only, or no part of the running system.
* Temporal itself: its history, replay and timers are taken as its documentation
  promises (activities at least once, signals delivered, durable timers).
* Two worker processes on one registry file (plan 9), batches of more than one
  graph (the program submits one at a time), and the list of workflows that the
  observer shows.
* Whitespace around identifiers, which the code strips in some places only.
* The number of chat sessions: a session beyond the first is a matter of cost.
