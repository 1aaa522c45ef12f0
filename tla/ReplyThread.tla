---------------------------- MODULE ReplyThread ----------------------------
(***************************************************************************)
(* What a reader of the chat sees of a question that was handed to an      *)
(* agent: nothing before a watcher follows it, then replies, then at most  *)
(* one notice of failure, and nothing once the watcher is gone.            *)
(***************************************************************************)
EXTENDS Sequences

CONSTANTS
  Question,
  ReplyPost, \* the posts that answer a question
  NoticePost \* the posts that report a failure

VARIABLES
  stage,   \* stage[q]: "idle", "followed" or "closed"
  thread   \* thread[q]: the posts in answer to q

Init ==
  /\ stage = [q \in Question |-> "idle"]
  /\ thread = [q \in Question |-> <<>>]

Unchanged(q) == stage'[q] = stage[q] /\ thread'[q] = thread[q]

Follow(q) == stage[q] = "idle" /\ stage'[q] = "followed" /\ thread'[q] = thread[q]

\* A reply may be the last post or not.
Answer(q) ==
  /\ stage[q] = "followed" /\ stage'[q] \in {"followed", "closed"}
  /\ \E reply \in ReplyPost : thread'[q] = Append(thread[q], reply)

\* The watcher ends, with a notice or in silence.
Close(q) ==
  /\ stage[q] = "followed" /\ stage'[q] = "closed"
  /\ \/ thread'[q] = thread[q]
     \/ \E notice \in NoticePost : thread'[q] = Append(thread[q], notice)

Step ==
  /\ stage' \in [Question -> {"idle", "followed", "closed"}]
  /\ DOMAIN thread' = Question
  /\ \A q \in Question : Unchanged(q) \/ Follow(q) \/ Answer(q) \/ Close(q)

Spec == Init /\ [][Step]_<<stage, thread>>
=============================================================================
