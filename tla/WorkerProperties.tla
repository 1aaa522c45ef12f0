--------------------------- MODULE WorkerProperties ---------------------------
(***************************************************************************)
(* What the worker promises about the messages of a group.                 *)
(***************************************************************************)
EXTENDS Worker

(***************************************************************************)
(* A message is dropped without an end to its handling only if the worker  *)
(* went down while it was in hand, and each time that costs one message,   *)
(* although offsets are committed on a timer and not when the handler is   *)
(* done (KafkaConsumerLoop.run).                                           *)
(***************************************************************************)
NothingSkipped ==
  \A o \in Offset :
    o < next => o \in settled \union interrupted \/ (o = current /\ pc \in InHand)

LossNeedsCrash == NothingSkipped /\ Cardinality(interrupted) <= crashes

(***************************************************************************)
(* Only a delivery of a user's message asks for a run: replies that come   *)
(* back through the webhook never set off further work (handle, is_bot).   *)
(* A delivery is never told from a repeat, so a message asks for another   *)
(* run whenever it is published again or, at most once for each restart,   *)
(* handed out again, and for no other reason.  This is what the code does  *)
(* and not what service.md demands of it: an idempotency check by event id *)
(* or message id first (6.1), under which no message would ask twice.      *)
(***************************************************************************)
RunsAreAskedFor ==
  /\ \A r \in runs \union late : topic[r[1]] \in Human /\ r[2] <= taken[r[1]]
  /\ \A o \in Offset : taken[o] <= crashes + 1
  /\ \A r, s \in runs \union late :
       r # s /\ topic[r[1]] = topic[s[1]] => r[1] # s[1] \/ crashes > 0

(***************************************************************************)
(* What the models are shown is what was written last before the read, in  *)
(* the order it was written, by the handler or by a watcher, without any   *)
(* copy of the message in hand (get_recent, _history_for_prompt).          *)
(***************************************************************************)
OldestSeen == IF seen <= PlannerWindow THEN 1 ELSE seen - PlannerWindow + 1

PromptIsContext ==
  /\ prompt \in Seq(Message)
  /\ pc = "route" =>
       \E place \in [1 .. Len(prompt) -> OldestSeen .. seen] :
         /\ \A j, k \in 1 .. Len(prompt) : j < k => place[j] < place[k]
         /\ {place[k] : k \in 1 .. Len(prompt)}
              = {w \in OldestSeen .. seen : pushed[w].msg # hand}
         /\ \A k \in 1 .. Len(prompt) : prompt[k] = pushed[place[k]].msg

(***************************************************************************)
(* An entry of the history is owed to a delivery of the message, or to one *)
(* of the two attempts to record a reply after posting it                  *)
(* (_append_bot_reply_to_history).  Each delivery writes its entry, also   *)
(* that of a message handed out or published before, and of a reply that   *)
(* its watcher has recorded: again not what service.md demands, which puts *)
(* an idempotency check before the write (6.1) that handle() has not.      *)
(***************************************************************************)
Count(writes, m, o) ==
  Cardinality({k \in DOMAIN writes : writes[k] = [msg |-> m, offset |-> o]})

EntriesAreOwed ==
  /\ \A k \in DOMAIN pushed :
       IF pushed[k].offset = 0
       THEN pushed[k].msg \in posted
       ELSE topic[pushed[k].offset] = pushed[k].msg
  /\ \A o \in 1 .. Len(topic) : Count(pushed, topic[o], o) <= taken[o]
  /\ \A r \in posted : Count(pushed, r, 0) <= 2

(***************************************************************************)
(* The list in Redis is what was written last, whoever wrote it.           *)
(***************************************************************************)
HistoryIsRecent ==
  /\ Len(history) = IF Len(pushed) <= MaxMessages THEN Len(pushed) ELSE MaxMessages
  /\ \A k \in 1 .. Len(history) : history[k] = pushed[Len(pushed) + 1 - k].msg

(***************************************************************************)
(* The inductive invariant.                                                *)
(***************************************************************************)

\* The committed offset never runs ahead of the consumer, nor the consumer of the topic.
OffsetsInOrder ==
  /\ committed <= next /\ next <= Len(topic) + 1
  /\ pc \in InHand => next > 1 /\ taken[current] > 0

\* What is still ahead has been delivered before only if the worker went down since.
TakenOncePerLife ==
  \A o \in Offset : taken[o] <= IF o < next THEN crashes + 1 ELSE crashes

\* Past is_bot only users' messages are in hand, and only runs that were started are
\* watched and answered.
WorkIsAskedFor ==
  /\ pc \in {"read", "route", "submit", "watch"} => hand \in Human
  /\ \A r \in runs \union late :
       r[1] <= Len(topic) /\ topic[r[1]] \in Human /\ r[2] <= taken[r[1]]
  /\ pc = "watch" => run \in runs
  /\ \A r \in Run : watch[r] # "off" => r \in runs
  /\ posted \subseteq runs

WorkerInv ==
  /\ TypeOK
  /\ OffsetsInOrder
  /\ TakenOncePerLife
  /\ NothingSkipped
  /\ WorkIsAskedFor
  /\ HistoryIsRecent

\* A prompt is only made of what has been written.
ContextInv == PromptIsContext /\ seen <= Len(pushed)

(***************************************************************************)
(* The inductive invariant behind EntriesAreOwed.                          *)
(***************************************************************************)

\* The delivery in hand still has its one write to make.
Unwritten(o) == IF pc = "append" /\ o = current THEN 1 ELSE 0

\* Writes a watcher may have made.
Allowed(state) ==
  CASE state \in {"off", "watching", "append"} -> 0
    [] state = "retry" -> 1
    [] state \in {"ended", "killed"} -> 2

EntriesInv ==
  /\ \A k \in DOMAIN pushed :
       LET o == pushed[k].offset
       IN IF o = 0 THEN pushed[k].msg \in posted
          ELSE o <= Len(topic) /\ topic[o] = pushed[k].msg
  /\ \A o \in 1 .. Len(topic) : Count(pushed, topic[o], o) + Unwritten(o) <= taken[o]
  /\ \A r \in Run : Count(pushed, r, 0) <= Allowed(watch[r])
  /\ \A r \in Run : watch[r] \in {"append", "retry"} => r \in posted
  /\ pc \in InHand => watch[run] = "off"

(***************************************************************************)
(* Every message on the topic is handled to an end and stays so, unless    *)
(* the worker goes down with it in hand or the consumer's thread was       *)
(* stopped and stays stopped (KafkaConsumerLoop.run swallows what the      *)
(* handler raises).                                                        *)
(***************************************************************************)
EveryMessageSettles ==
  \A o \in Offset :
    o <= Len(topic) ~> [](o \in settled \union interrupted \/ pc = "dead")
=============================================================================
