------------------------- MODULE DirectChatProperties -------------------------
(***************************************************************************)
(* What direct chat promises a user who mentions one bot.                  *)
(***************************************************************************)
EXTENDS DirectChat

Answers(q) == {k \in DOMAIN thread[q] : thread[q][k].kind = "answer"}
Watched(q) == watch[q] \in {"list", "pending"}

(***************************************************************************)
(* The answer published for a question is the reply to it.  Only a row     *)
(* that the service left without a task id can be another question's, and  *)
(* never the one of the same question's abandoned first send: that one     *)
(* lives in another session (_assistant_reply_for_task, maybe_submit).     *)
(***************************************************************************)
OwnAnswer ==
  \A q \in Question : \A k \in Answers(q) :
    LET row == thread[q][k].row
    IN row.task = TaskOf(q) \/ (~row.tagged /\ row.task[1] # q)

(***************************************************************************)
(* A question is answered once; each further copy of an answer goes back   *)
(* to a post that went through although it raised (_watch_async).          *)
(***************************************************************************)
AnsweredOnce == \A q \in Question : Cardinality(Answers(q)) <= lost[q] + 1

(***************************************************************************)
(* The inductive invariant behind OwnAnswer and AnsweredOnce.              *)
(***************************************************************************)

\* Sessions are known only once they are opened, and a question's second session only
\* once its first send has raised.
SessionsAreOpened ==
  /\ stored # NoSession => stored \in opened
  /\ \A q \in Question : session[q] # NoSession => session[q] \in opened
  /\ \A q \in Question : <<q, 2>> \in opened => attempt[q] = 2

\* A question that was sent again is in a session of its own.
ResentAfresh ==
  \A q \in Question :
    /\ attempt[q] = 2 /\ pc[q] \in {"store", "send", "sent"} => session[q] = <<q, 2>>
    /\ attempt[q] = 2 => pc[q] \notin {"new", "refresh"}
    /\ room[<<q, 1>>] # <<q, 2>>

\* A task is queued once, the second one of a question after its first send had raised;
\* its row comes later, and only a question that was sent is watched and answered.
RowsAreReal ==
  /\ \A q \in Question : pc[q] \notin {"sent", "failed"} => job[TaskOf(q)] = "none"
  /\ \A k \in DOMAIN rows : job[rows[k].task] = "ended"
  /\ \A q \in Question : job[<<q, 2>>] # "none" => attempt[q] = 2
  /\ \A q \in Question : watch[q] # "off" => pc[q] = "sent"
  /\ \A q \in Question : thread[q] # <<>> => watch[q] # "off"

AnswersCounted ==
  \A q \in Question :
    Cardinality(Answers(q)) <= lost[q] + (IF watch[q] = "answered" THEN 1 ELSE 0)

ChatInv ==
  /\ TypeOK
  /\ SessionsAreOpened
  /\ ResentAfresh
  /\ RowsAreReal
  /\ OwnAnswer
  /\ AnswersCounted

(***************************************************************************)
(* Every question is dealt with: it is refused or its watcher ends, by its *)
(* deadline at the latest, whatever the services do (_watch_async).        *)
(***************************************************************************)
EveryWatchEnds ==
  \A q \in Question : <>(pc[q] \in {"sent", "failed"}) /\ (Watched(q) ~> ~Watched(q))

(***************************************************************************)
(* Direct chat keeps the promise of ReplyThread.                           *)
(***************************************************************************)
Stage(q) ==
  IF watch[q] = "off" THEN "idle" ELSE IF Watched(q) THEN "followed" ELSE "closed"

Chat == INSTANCE ReplyThread
          WITH stage <- [q \in Question |-> Stage(q)],
               ReplyPost <- [kind : {"answer"}, row : Row],
               NoticePost <- [kind : {"missing", "timed_out"}]

ImplementsReplyThread == Chat!Spec

(***************************************************************************)
(* Claimed: the watcher publishes the assistant row once the native chat   *)
(* has completed (docstring of DirectChatCompletionWatcher).  A question   *)
(* given up as having no reply has no assistant row.                       *)
(***************************************************************************)
AssistantRowPublished ==
  \A q \in Question : watch[q] = "missing" =>
    Answers(q) # {} \/ \A k \in DOMAIN rows : rows[k].task # TaskOf(q)
=============================================================================
