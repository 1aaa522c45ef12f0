------------------------ MODULE MaosEgressProperties ------------------------
(***************************************************************************)
(* What the watcher of a submitted graph promises to the reader of the     *)
(* chat.                                                                   *)
(***************************************************************************)
EXTENDS MaosEgress

\* The result of a node is that of its latest completed visit.
LastAnswer(n, a) ==
  \E v \in 1 .. MaxVisits[n] :
    /\ log[<<n, v>>] = "completed" /\ says[<<n, v>>] = a
    /\ \A w \in 1 .. MaxVisits[n] : w > v => log[<<n, w>>] # "completed"

\* A node's last word counts if its result says that the work is over, or says nothing of
\* its status.
LastWord(n, t) ==
  \E a \in NodeResult :
    LastAnswer(n, a) /\ a.text = t /\ a.status \in {"", "completed", "done", "success"}

(***************************************************************************)
(* What is posted is true of the run as it ended: a node's reply is its    *)
(* last word, each at most once; a notice of failure follows a failure, a  *)
(* termination or an unread result; "nothing" means that no node had a     *)
(* last word.  A node that completed and answered under another status,    *)
(* such as "in_review", has none: nothing of it is posted, and the notice  *)
(* says "nothing" all the same (_publish_new_node_replies,                 *)
(* _node_is_completed, _run_watch).                                        *)
(***************************************************************************)

IsTrue(post) ==
  /\ \A n \in Node, t \in Text :
       post \in {<<"node", n, t>>, <<"final", t>>} => status \in Outcome
  /\ \A n \in Node, t \in Text : post = <<"node", n, t>> => LastWord(n, t)
  /\ \A t \in Text : post = <<"final", t>> => \E n \in Node : LastWord(n, t)
  /\ post = <<"notice", "failed">> =>
       shown = "failed" \/ status \in {"failed", "terminated"} \/ misread
  /\ post = <<"notice", "nothing">> =>
       status = "completed" /\ \A n \in Node, t \in Text : ~LastWord(n, t)
  /\ post = <<"notice", "timeout">> => late

PostsAreTrue ==
  /\ \A k \in DOMAIN thread : IsTrue(thread[k])
  /\ \A j, k \in DOMAIN thread :
       thread[j] \in NodePost /\ thread[k] \in NodePost /\ thread[j][2] = thread[k][2] => j = k

(***************************************************************************)
(* A watcher that comes to its end leaves something to read: the last word *)
(* of every node that has one, or a notice, unless posts did not get       *)
(* through (published_nodes, published_texts and the order of the checks). *)
(***************************************************************************)
NothingWithheld ==
  watcher = "ended" /\ missed = 0 =>
    \/ \E k \in DOMAIN thread : thread[k] \in Notice
    \/ /\ thread # <<>>
       /\ \A n \in Node, t \in Text :
            LastWord(n, t) => \E k \in DOMAIN thread : thread[k] = <<"node", n, t>>

(***************************************************************************)
(* For the reader a graph is a question like one to a single bot: see      *)
(* ReplyThread.                                                            *)
(***************************************************************************)
Thread == INSTANCE ReplyThread WITH
  Question <- {"graph"},
  ReplyPost <- NodePost \union FinalPost,
  NoticePost <- Notice,
  stage <- [q \in {"graph"} |->
              IF watcher = "idle" THEN "idle"
              ELSE IF watcher \in Following THEN "followed" ELSE "closed"],
  thread <- [q \in {"graph"} |-> thread]

GraphIsReplyThread == Thread!Spec

(***************************************************************************)
(* A graph that is watched gets its last word or loses its watcher to a    *)
(* crash, even if its run never returns (_run_watch's deadline).           *)
(***************************************************************************)
EveryGraphIsClosed == watcher \in Following ~> watcher \in {"ended", "dead"}

(***************************************************************************)
(* The inductive invariant.                                                *)
(***************************************************************************)

\* A snapshot with replies or with "completed" is that of the run's result, which stays.
SnapshotIsTrue ==
  watcher = "posting" =>
    \/ status \in Outcome /\ snapshot = [status |-> status, replies |-> Replies]
    \/ snapshot = NoResult /\ (shown = "failed" \/ status = "terminated" \/ misread)

\* Posts so far are replies of the snapshot, and what is published is what was posted or
\* missed.
PostsAreCounted ==
  /\ watcher \in {"idle", "loop"} => thread = <<>> /\ published = {} /\ texts = {}
  /\ watcher = "posting" =>
       /\ \A k \in DOMAIN thread : thread[k] \in NodePost /\ <<thread[k][2], thread[k][3]>> \in snapshot.replies
       /\ published \subseteq {r[1] : r \in snapshot.replies}
       /\ texts = {r[2] : r \in {x \in snapshot.replies : x[1] \in published}}
       /\ missed = 0 => \A r \in snapshot.replies :
            r[1] \in published => \E k \in DOMAIN thread : thread[k] = <<"node", r[1], r[2]>>
  /\ \A k \in DOMAIN thread : thread[k] \in NodePost => thread[k][2] \in published
  /\ published # {} => status \in Outcome

EgressInv ==
  /\ TypeOK
  /\ SnapshotIsTrue
  /\ PostsAreCounted
  /\ PostsAreTrue
  /\ NothingWithheld
=============================================================================
