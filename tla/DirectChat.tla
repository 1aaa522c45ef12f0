----------------------------- MODULE DirectChat -----------------------------
(***************************************************************************)
(* Questions to one bot in one group, answered by Multica's native chat    *)
(* (sementic/direct_chat.py).  The router finds or creates the chat        *)
(* session and sends the question; a watcher thread for each question      *)
(* polls the session and publishes the assistant's reply.                  *)
(*                                                                         *)
(* A step is the code from one await to the next: another question, a      *)
(* watcher, the chat service or a crash of the worker can come in between. *)
(* A message that Kafka delivers twice is two questions.                   *)
(***************************************************************************)
EXTENDS Integers, Sequences, FiniteSets

CONSTANTS
  Question,     \* messages that mention this bot and nobody else
  Consumers,    \* questions routed at a time: above 1 while partitions move
  MaxExpiries,  \* bound: times the session's Redis key expires or is evicted
  MaxLost,      \* bound: lost replies of the chat server to posts, per question
  MaxCrashes    \* bound: crashes of the worker

ASSUME ChatAssumption ==
  /\ Consumers \in Nat \ {0}
  /\ {MaxExpiries, MaxLost, MaxCrashes} \subseteq Nat

\* The router creates a session, and sends the question, at most twice.
Attempt == {1, 2}
Session == Question \X Attempt
Task == Question \X Attempt
NoSession == <<>>

VARIABLES
  pc,        \* where the router is with each question: see Place
  attempt,   \* 2 once the first send has raised
  session,   \* session_id in maybe_submit
  stored,    \* the session in Redis for this group and bot
  opened,    \* sessions created at the chat service (external)
  room,      \* room[t]: session in which the service queued task t (external)
  job,       \* state of each task at the service (external)
  rows,      \* assistant rows, oldest first (external)
  watch,     \* the watcher of each question: see WatchState
  over,      \* the watcher's deadline has passed
  thread,    \* posts in answer to each question (external)
  lost,      \* posts of each question that went through but raised
  expiries, crashes

routing == <<pc, attempt, session, stored, opened, expiries>>
service == <<room, job, rows>>
watching == <<watch, over, thread, lost>>
vars == <<routing, service, watching, crashes>>

Place == {"new", "create", "store", "refresh", "send", "sent", "failed"}
InFlight == {"create", "store", "refresh", "send"}
WatchState == {"off", "list", "pending"} \union {"answered", "missing", "timed_out", "killed"}
Row == [task : Task, tagged : BOOLEAN]
Post == [kind : {"answer"}, row : Row] \union [kind : {"missing", "timed_out"}]

TypeOK ==
  /\ pc \in [Question -> Place]
  /\ attempt \in [Question -> Attempt]
  /\ session \in [Question -> Session \union {NoSession}]
  /\ stored \in Session \union {NoSession}
  /\ opened \subseteq Session
  /\ room \in [Task -> Session \union {NoSession}]
  /\ job \in [Task -> {"none", "open", "ended"}]
  /\ rows \in Seq(Row)
  /\ watch \in [Question -> WatchState]
  /\ over \in [Question -> BOOLEAN]
  /\ thread \in [Question -> Seq(Post)]
  /\ lost \in [Question -> Nat]
  /\ expiries \in Nat /\ crashes \in Nat

Init ==
  /\ pc = [q \in Question |-> "new"]
  /\ attempt = [q \in Question |-> 1]
  /\ session = [q \in Question |-> NoSession]
  /\ stored = NoSession
  /\ opened = {}
  /\ room = [t \in Task |-> NoSession]
  /\ job = [t \in Task |-> "none"]
  /\ rows = <<>>
  /\ watch = [q \in Question |-> "off"]
  /\ over = [q \in Question |-> FALSE]
  /\ thread = [q \in Question |-> <<>>]
  /\ lost = [q \in Question |-> 0]
  /\ expiries = 0
  /\ crashes = 0

TaskOf(q) == <<q, attempt[q]>>
-----------------------------------------------------------------------------
(* DirectChatRouter.maybe_submit.                                          *)

Goto(q, place) == pc' = [pc EXCEPT ![q] = place]
InUse(q, s) == session' = [session EXCEPT ![q] = s]

\* The look-up of the session: found, not found, or Redis raises.
Lookup(q) ==
  /\ pc[q] = "new"
  /\ Cardinality({p \in Question : pc[p] \in InFlight}) < Consumers
  /\ \/ stored # NoSession /\ InUse(q, stored) /\ Goto(q, "refresh")
     \/ stored = NoSession /\ Goto(q, "create") /\ UNCHANGED session
     \/ Goto(q, "failed") /\ UNCHANGED session
  /\ UNCHANGED <<attempt, stored, opened, expiries, service, watching, crashes>>

\* The service creates a session, or not, and its reply arrives, or not.
Create(q) ==
  /\ pc[q] = "create"
  /\ \/ /\ opened' = opened \union {TaskOf(q)}
        /\ \/ InUse(q, TaskOf(q)) /\ Goto(q, "store")
           \/ Goto(q, "failed") /\ UNCHANGED session
     \/ Goto(q, "failed") /\ UNCHANGED <<session, opened>>
  /\ UNCHANGED <<attempt, stored, expiries, service, watching, crashes>>

\* DirectChatSessionStore.set, of a new session or to renew the key's life time.
Store(q) ==
  /\ pc[q] \in {"store", "refresh"}
  /\ \/ stored' = session[q] /\ pc' \in {[pc EXCEPT ![q] = p] : p \in {"send", "failed"}}
     \/ Goto(q, "failed") /\ UNCHANGED stored
  /\ UNCHANGED <<attempt, session, opened, expiries, service, watching, crashes>>

\* Faulty variant: the question is sent again in the session that failed.
ResendInSession(q) ==
  attempt[q] = 1 /\ attempt' = [attempt EXCEPT ![q] = 2] /\ Goto(q, "send")

\* The first exception is answered with a new session, the second one is raised.
SendRaises(q) ==
  IF attempt[q] = 1
  THEN attempt' = [attempt EXCEPT ![q] = 2] /\ Goto(q, "create")
  ELSE Goto(q, "failed") /\ UNCHANGED attempt

\* The service queues the question as a task of the session.
Queue(t, s) ==
  /\ job' = [job EXCEPT ![t] = "open"]
  /\ room' = [room EXCEPT ![t] = s]

\* The reply names the task: start a watcher for it.
Send(q) ==
  /\ pc[q] = "send"
  /\ Queue(TaskOf(q), session[q])
  /\ Goto(q, "sent")
  /\ watch' = [watch EXCEPT ![q] = "list"]
  /\ UNCHANGED <<attempt, session, stored, opened, expiries, rows, over, thread, lost, crashes>>

\* The service refuses the message, its reply is lost, or the reply names no task.
SendFails(q) ==
  /\ pc[q] = "send"
  /\ \/ Queue(TaskOf(q), session[q])
     \/ UNCHANGED <<job, room>>
  /\ \/ SendRaises(q)
     \/ Goto(q, "failed") /\ UNCHANGED attempt
  /\ UNCHANGED <<session, stored, opened, expiries, rows, watching, crashes>>
-----------------------------------------------------------------------------
(* DirectChatCompletionWatcher._watch_async.                               *)

End(q, how) == watch' = [watch EXCEPT ![q] = how]
Add(q, post) == thread' = [thread EXCEPT ![q] = Append(@, post)]

\* Faulty variant: every assistant row of the session will do.
AnyRow(q) == {k \in DOMAIN rows : room[rows[k].task] = session[q]}

\* Rows of the session that carry the question's task id, or none at all.
RowsFor(q) ==
  {k \in DOMAIN rows :
     /\ room[rows[k].task] = session[q]
     /\ rows[k].tagged => rows[k].task = TaskOf(q)}

\* _assistant_reply_for_task: the newest such row, if there is one.
Reply(q) == {rows[k] : k \in {l \in RowsFor(q) : \A i \in RowsFor(q) : i <= l}}

\* Faulty variant: the watcher keeps polling after it has published.
KeepPolling(q) == End(q, "list")

Published(q) == End(q, "answered")

\* A reply is there: publish it.  A post that raised, even though it went through,
\* leaves the watcher polling.  Rows are only added, so reading and posting are one step.
PublishReply(q) ==
  /\ watch[q] = "list" /\ ~over[q]
  /\ \E row \in Reply(q) :
       \/ Add(q, [kind |-> "answer", row |-> row]) /\ Published(q) /\ UNCHANGED lost
       \/ /\ Add(q, [kind |-> "answer", row |-> row])
          /\ lost[q] < MaxLost /\ lost' = [lost EXCEPT ![q] = @ + 1]
          /\ End(q, "pending")
       \/ End(q, "pending") /\ UNCHANGED <<thread, lost>>
  /\ UNCHANGED <<routing, service, over, crashes>>

FindNoReply(q) ==
  /\ watch[q] = "list" /\ ~over[q]
  /\ RowsFor(q) = {}
  /\ End(q, "pending")
  /\ UNCHANGED <<routing, service, over, thread, lost, crashes>>

\* Faulty variant: the watcher does not return after its error post.
StayAfterError(q, kind) == End(q, "list") /\ (Add(q, [kind |-> kind]) \/ UNCHANGED thread)

\* publish_error swallows the failure of its post; the watcher returns.
EndInError(q, kind) == End(q, kind) /\ (Add(q, [kind |-> kind]) \/ UNCHANGED thread)

Pending(q) == \E t \in Task : room[t] = session[q] /\ job[t] = "open"

\* get_pending_task raises, or some task of the session, this one or not, is pending.
KeepWatching(q) ==
  /\ watch[q] = "pending"
  /\ End(q, "list")
  /\ UNCHANGED <<routing, service, over, thread, lost, crashes>>

GiveUp(q) ==
  /\ watch[q] = "pending"
  /\ ~Pending(q)
  /\ EndInError(q, "missing")
  /\ UNCHANGED <<routing, service, over, lost, crashes>>

\* Faulty variant: the watcher has no deadline.
NeverLate(q) == FALSE

Late(q) == watch[q] = "list" /\ over[q]

TimeOut(q) ==
  /\ Late(q)
  /\ EndInError(q, "timed_out")
  /\ UNCHANGED <<routing, service, over, lost, crashes>>
-----------------------------------------------------------------------------
(* The environment.                                                        *)

Deadline(q) ==
  /\ watch[q] \in {"list", "pending"} /\ ~over[q]
  /\ over' = [over EXCEPT ![q] = TRUE]
  /\ UNCHANGED <<routing, service, watch, thread, lost, crashes>>

\* The agent ends a task, with an assistant row or without; the row may lack a task id.
JobEnds(t) ==
  /\ job[t] = "open"
  /\ job' = [job EXCEPT ![t] = "ended"]
  /\ \/ UNCHANGED rows
     \/ \E tagged \in BOOLEAN : rows' = Append(rows, [task |-> t, tagged |-> tagged])
  /\ UNCHANGED <<routing, room, watching, crashes>>

KeyExpires ==
  /\ stored # NoSession /\ expiries < MaxExpiries
  /\ stored' = NoSession
  /\ expiries' = expiries + 1
  /\ UNCHANGED <<pc, attempt, session, opened, service, watching, crashes>>

\* Neither the question in hand nor the watchers survive the worker.
Crash ==
  /\ crashes < MaxCrashes
  /\ crashes' = crashes + 1
  /\ pc' = [q \in Question |-> IF pc[q] \in InFlight THEN "failed" ELSE pc[q]]
  /\ watch' = [q \in Question |-> IF watch[q] \in {"list", "pending"} THEN "killed" ELSE watch[q]]
  /\ UNCHANGED <<attempt, session, stored, opened, expiries, service, over, thread, lost>>
-----------------------------------------------------------------------------
Route(q) == Lookup(q) \/ Create(q) \/ Store(q) \/ Send(q) \/ SendFails(q)
Watch(q) == PublishReply(q) \/ FindNoReply(q) \/ KeepWatching(q) \/ GiveUp(q) \/ TimeOut(q)

\* Every question has been routed and its watcher has ended.
Settled ==
  /\ \A q \in Question : pc[q] \in {"sent", "failed"} /\ watch[q] \notin {"list", "pending"}
  /\ UNCHANGED vars

Next ==
  \/ \E q \in Question : Route(q) \/ Watch(q) \/ Deadline(q)
  \/ \E t \in Task : JobEnds(t)
  \/ KeyExpires
  \/ Crash
  \/ Settled

Spec == Init /\ [][Next]_vars

\* The consumer and the watchers run, every HTTP call ends by its own timeout, Redis
\* answers or breaks the connection (its clients have no timeout) and time passes.
\* Nothing is assumed of the chat service or the chat server.
FairSpec ==
  Spec /\ \A q \in Question : WF_vars(Route(q)) /\ WF_vars(Watch(q)) /\ WF_vars(Deadline(q))
=============================================================================
