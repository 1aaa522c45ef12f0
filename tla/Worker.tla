------------------------------- MODULE Worker -------------------------------
(***************************************************************************)
(* A message's way through the worker: Kafka consumer (kafka_consumer.py), *)
(* message handler (handler.py), chat history (redis_history.py) and the   *)
(* watcher threads that write replies to the same history (publisher.py).  *)
(*                                                                         *)
(* One group, hence one partition and one history list.  A step is the     *)
(* code from one await to the next.  The work a message asks for, a        *)
(* workflow or a task of direct chat, is a run; what goes on inside it is  *)
(* the subject of DagWorkflow and DirectChat.  A reply that is posted is a *)
(* message of its own and comes back through the chat server's webhook.    *)
(***************************************************************************)
EXTENDS Integers, Sequences, FiniteSets

CONSTANTS
  Human,           \* messages written by users
  MaxMessages,     \* RedisSettings.max_messages
  PlannerWindow,   \* RedisSettings.planner_window
  MaxTopic,        \* bound: messages published to the topic
  MaxCrashes,      \* bound: restarts of the worker
  MaxFaults        \* bound: calls to Redis, the task service or the chat server that raise

Offset == 1 .. MaxTopic
Delivery == 1 .. MaxCrashes + 1
Run == Offset \X Delivery     \* named after the offset and the delivery that asked for it
Message == Human \union Run   \* the reply to a run is named after the run

ASSUME WorkerAssumption ==
  /\ {MaxMessages, PlannerWindow, MaxTopic, MaxCrashes, MaxFaults} \subseteq Nat
  /\ 1 <= PlannerWindow /\ PlannerWindow <= MaxMessages
  /\ Human \intersect Run = {}

VARIABLES
  topic,        \* the partition, oldest first (external)
  committed,    \* offset committed for the group (external)
  next,         \* offset the consumer takes next
  taken,        \* times each offset has been delivered
  pc,           \* where the handler is with message next - 1: see Place
  prompt,       \* recent messages given to the models
  history,      \* the Redis list, newest first
  runs,         \* runs that were started
  late,         \* submissions still going on after submit_plan gave up on them
  watch,        \* the watcher of each run: see WatchState
  posted,       \* replies that reached the chat server (external)
  crashes, faults,
  \* Recorded for the properties only.
  pushed,       \* every write to the history: message, and the offset handled or 0
  seen,         \* writes when the prompt was read
  settled,      \* offsets whose handling came to an end
  interrupted   \* offsets in hand when the worker went down

broker == <<topic, committed>>
consumer == <<next, taken, pc, settled>>
reading == <<prompt, seen>>
list == <<history, pushed>>
work == <<runs, late>>
egress == <<watch, posted>>
vars == <<broker, consumer, reading, list, work, egress, crashes, faults, interrupted>>

Place == {"poll", "append", "read", "route", "submit", "watch", "dead"}
InHand == {"append", "read", "route", "submit", "watch"}
WatchState == {"off", "watching", "append", "retry", "ended", "killed"}
Watching == {"watching", "append", "retry"}
Write == [msg : Message, offset : 0 .. MaxTopic]

current == next - 1
hand == topic[current]
run == <<current, taken[current]>>

TypeOK ==
  /\ topic \in Seq(Message) /\ Len(topic) <= MaxTopic
  /\ committed \in Nat \ {0} /\ next \in Nat \ {0}
  /\ taken \in [Offset -> Nat]
  /\ pc \in Place
  /\ seen \in Nat   \* and prompt: see PromptIsContext
  /\ history \in Seq(Message)
  /\ runs \subseteq Run /\ late \subseteq Run
  /\ watch \in [Run -> WatchState]
  /\ posted \subseteq Run
  /\ crashes \in 0 .. MaxCrashes /\ faults \in Nat
  /\ pushed \in Seq(Write)
  /\ settled \subseteq Offset /\ interrupted \subseteq Offset

Init ==
  /\ topic = <<>> /\ committed = 1
  /\ next = 1 /\ taken = [o \in Offset |-> 0] /\ pc = "poll" /\ settled = {}
  /\ prompt = <<>> /\ seen = 0
  /\ history = <<>> /\ pushed = <<>>
  /\ runs = {} /\ late = {}
  /\ watch = [r \in Run |-> "off"] /\ posted = {}
  /\ crashes = 0 /\ faults = 0 /\ interrupted = {}
-----------------------------------------------------------------------------
(* RedisHistoryStore.                                                      *)

Newest(entries, n) == SubSeq(entries, 1, IF Len(entries) <= n THEN Len(entries) ELSE n)

\* Faulty variant: LTRIM's last index is inclusive, and one entry too many stays.
TrimmedTo(entries) == Newest(entries, MaxMessages + 1)

\* LPUSH and LTRIM in one transaction: the newest entry is history[1].
Trimmed(entries) == Newest(entries, MaxMessages)

Push(m, offset) ==
  /\ history' = Trimmed(<<m>> \o history)
  /\ pushed' = Append(pushed, [msg |-> m, offset |-> offset])

\* The request raised: the transaction was done all the same, or was not.
MayPush(m, offset) == Push(m, offset) \/ UNCHANGED list

\* get_recent
Recent == Newest(history, PlannerWindow)

\* The entries at the positions kept, oldest first: the n-th has n of them at or after it.
OldestFirst(entries, kept) ==
  [n \in 1 .. Cardinality(kept) |->
     entries[CHOOSE k \in kept : Cardinality({j \in kept : k <= j}) = n]]

\* Faulty variant: the newest message is taken for the one in hand.
WithoutNewest(m) == OldestFirst(Recent, 2 .. Len(Recent))

\* _history_for_prompt: oldest first, without the message in hand.
HistoryForPrompt(m) == OldestFirst(Recent, {k \in 1 .. Len(Recent) : Recent[k] # m})
-----------------------------------------------------------------------------
(* GatewayService.ingest: a user's message or, by the webhook, a reply.  A *)
(* message that is noise or mentions an offline bot never gets this far; a *)
(* webhook that is sent again is published again.                          *)

Ingest(m) ==
  /\ m \in Human \union posted
  /\ Len(topic) < MaxTopic
  /\ topic' = Append(topic, m)
  /\ UNCHANGED <<committed, consumer, reading, list, work, egress, crashes, faults, interrupted>>
-----------------------------------------------------------------------------
(* KafkaConsumerLoop.run                                                   *)

Goto(place) == pc' = place /\ UNCHANGED settled

\* A call raised, for whatever reason.
Fault == faults < MaxFaults /\ faults' = faults + 1

\* handle() returned, or raised and was logged: the loop goes on.
Settle == pc' = "poll" /\ settled' = settled \union {current}

\* Faulty variant: only ValueError and PermissionError are caught, anything else ends
\* the thread.
EndsThread == pc' = "dead" /\ UNCHANGED settled

Raise == Settle

Poll ==
  /\ pc = "poll" /\ next <= Len(topic)
  /\ next' = next + 1
  /\ taken' = [taken EXCEPT ![next] = @ + 1]
  /\ Goto("append")
  /\ UNCHANGED <<broker, reading, list, work, egress, crashes, faults, interrupted>>

\* getone() timed out, or the thread has ended and main() sleeps.
Idle ==
  /\ pc = "dead" \/ (pc = "poll" /\ next > Len(topic))
  /\ UNCHANGED vars

\* Faulty variant: what has been fetched counts as consumed.
Fetched == Len(topic) + 1

\* enable_auto_commit: a timer commits what getone() has handed out.
Consumed == next

Commit ==
  /\ pc # "dead" /\ committed # Consumed
  /\ committed' = Consumed
  /\ UNCHANGED <<topic, consumer, reading, list, work, egress, crashes, faults, interrupted>>

\* request_stop() was called or getone() raised; stop() tries to commit, and the
\* thread ends while the process goes on.
LoopEnds ==
  /\ pc = "poll"
  /\ Goto("dead")
  /\ committed' \in {committed, Consumed}
  /\ UNCHANGED <<topic, next, taken, reading, list, work, egress, crashes, faults, interrupted>>

\* The process is started again, after a crash or a stop: consumer, submissions and
\* watcher threads are gone.
Restart ==
  /\ crashes < MaxCrashes
  /\ crashes' = crashes + 1
  /\ next' = committed
  /\ Goto("poll")
  /\ interrupted' = IF pc \in InHand THEN interrupted \union {current} ELSE interrupted
  /\ late' = {}
  /\ watch' = [r \in Run |-> IF watch[r] \in Watching THEN "killed" ELSE watch[r]]
  /\ prompt' = <<>> /\ seen' = 0
  /\ UNCHANGED <<broker, taken, list, runs, posted, faults>>
-----------------------------------------------------------------------------
(* MessageHandler.handle                                                   *)

\* Faulty variant: replies are orchestrated too.
OrchestrateAll == Goto("read")

\* A reply ends here (user_context.is_bot).
AfterAppend == IF hand \in Run THEN Settle ELSE Goto("read")

AppendMessage ==
  /\ pc = "append"
  /\ Push(hand, current)
  /\ AfterAppend
  /\ UNCHANGED <<broker, next, taken, reading, work, egress, crashes, faults, interrupted>>

AppendRaises ==
  /\ pc = "append"
  /\ MayPush(hand, current)
  /\ Raise
  /\ Fault
  /\ UNCHANGED <<broker, next, taken, reading, work, egress, crashes, interrupted>>

ReadRecent ==
  /\ pc = "read"
  /\ \/ prompt' = HistoryForPrompt(hand) /\ seen' = Len(pushed) /\ Goto("route") /\ UNCHANGED faults
     \/ UNCHANGED reading /\ Raise /\ Fault
  /\ UNCHANGED <<broker, next, taken, list, work, egress, crashes, interrupted>>

\* Direct chat or a plan; or no intent, no bots, a permission missing, a model that
\* fails or answers badly once too often.
Route ==
  /\ pc = "route"
  /\ prompt' = <<>> /\ seen' = 0
  /\ Goto("submit") \/ Settle \/ Raise
  /\ UNCHANGED <<broker, next, taken, list, work, egress, crashes, faults, interrupted>>

\* submit_plan, or the router of direct chat, returns an id; or raises with the run
\* started, not started or, after _run_coro's timeout, still being started.
Submit ==
  /\ pc = "submit"
  /\ \/ runs' = runs \union {run} /\ UNCHANGED late /\ Goto("watch") /\ UNCHANGED faults
     \/ runs' \in {runs, runs \union {run}} /\ UNCHANGED late /\ Raise /\ Fault
     \/ late' = late \union {run} /\ UNCHANGED runs /\ Raise /\ Fault
  /\ UNCHANGED <<broker, next, taken, reading, list, egress, crashes, interrupted>>

\* The coroutine that was given up goes on in the service's loop.
StartLate(r) ==
  /\ r \in late
  /\ late' = late \ {r}
  /\ runs' \in {runs, runs \union {r}}
  /\ UNCHANGED <<broker, consumer, reading, list, egress, crashes, faults, interrupted>>

\* A plan without an agent that could answer has no egress context.
Watch ==
  /\ pc = "watch"
  /\ watch' \in {watch, [watch EXCEPT ![run] = "watching"]}
  /\ Settle
  /\ UNCHANGED <<broker, next, taken, reading, list, work, posted, crashes, faults, interrupted>>
-----------------------------------------------------------------------------
(* ImEgressPublisher.publish in the watcher thread of run r, seen from the *)
(* history: one reply stands for the posts of one watcher.                 *)

Report(r) ==
  /\ watch[r] = "watching"
  /\ \/ posted' = posted \union {r} /\ watch' = [watch EXCEPT ![r] = "append"] /\ UNCHANGED faults
     \/ posted' \in {posted, posted \union {r}} /\ watch' = [watch EXCEPT ![r] = "ended"] /\ Fault
  /\ UNCHANGED <<broker, consumer, reading, list, work, crashes, interrupted>>

\* append_bot_reply
Record(r) ==
  /\ watch[r] = "append"
  /\ \/ Push(r, 0) /\ watch' = [watch EXCEPT ![r] = "ended"] /\ UNCHANGED faults
     \/ MayPush(r, 0) /\ watch' = [watch EXCEPT ![r] = "retry"] /\ Fault
  /\ UNCHANGED <<broker, consumer, reading, work, posted, crashes, interrupted>>

\* Faulty variant: the blocking append is repeated until it succeeds.
RetryAgain(r) == watch' \in {watch, [watch EXCEPT ![r] = "ended"]}

RetryOnce(r) == watch' = [watch EXCEPT ![r] = "ended"]

\* append_bot_reply_blocking: its failure is logged only.
Retry(r) ==
  /\ watch[r] = "retry"
  /\ (Push(r, 0) /\ UNCHANGED faults) \/ (MayPush(r, 0) /\ Fault)
  /\ RetryOnce(r)
  /\ UNCHANGED <<broker, consumer, reading, work, posted, crashes, interrupted>>
-----------------------------------------------------------------------------
Handle == AppendMessage \/ AppendRaises \/ ReadRecent \/ Route \/ Submit \/ Watch
Publish(r) == Report(r) \/ Record(r) \/ Retry(r)

Next ==
  \/ \E m \in Message : Ingest(m)
  \/ Poll \/ Idle \/ Commit \/ LoopEnds \/ Restart
  \/ Handle
  \/ \E r \in Run : StartLate(r) \/ Publish(r)

Spec == Init /\ [][Next]_vars

\* The consumer's loop runs, and every call of the handler returns or raises: HTTP
\* requests by their clients' timeouts; the Redis clients have none, so Redis has to
\* answer or its connection to break.  Nothing is assumed of the broker, the chat server
\* or the watchers.
FairSpec == Spec /\ WF_vars(Poll \/ Handle)
=============================================================================
