-------------------------- MODULE MaosEgressProofs --------------------------
(***************************************************************************)
(* Proofs about the watcher of a submitted graph, for any run that         *)
(* GraphRun allows.                                                        *)
(***************************************************************************)
EXTENDS MaosEgressProperties, TLAPS

\* What the properties call a node's last word is what the watcher reads.
LEMMA Words ==
  ASSUME TypeOK, NEW n \in Node, NEW t \in Text
  PROVE  LastWord(n, t) <=> <<n, t>> \in Replies
<1>1. <<n, t>> \in Replies <=> HasReply(n, t)
  BY DEF Replies, Reply
<1>2. \A v \in 1 .. MaxVisits[n] :
        (\A w \in 1 .. MaxVisits[n] : log[<<n, w>>] = "completed" => w <= v)
          <=> (\A w \in 1 .. MaxVisits[n] : w > v => log[<<n, w>>] # "completed")
  OBVIOUS
<1>3. /\ \A v \in 1 .. MaxVisits[n] : says[<<n, v>>] \in NodeResult
      /\ \A a \in NodeResult : a.text = t =>
           (IsCompleted(a) <=> a.status \in {"", "completed", "done", "success"})
  <2>1. \A v \in 1 .. MaxVisits[n] : <<n, v>> \in Run!Instance
    BY DEF Run!Instance
  <2>2. \A v \in 1 .. MaxVisits[n] : says[<<n, v>>] \in NodeResult
    BY <2>1 DEF TypeOK
  <2>3. NoText \notin Text
    BY EgressAssumption
  <2>4. \A a \in NodeResult : a.text = t =>
           (IsCompleted(a) <=> a.status \in {"", "completed", "done", "success"})
    BY <2>3 DEF IsCompleted, TerminalStatus
  <2> QED
    BY <2>2, <2>4
<1> QED
  BY <1>1, <1>2, <1>3 DEF LastWord, LastAnswer, HasReply, LatestCompleted

LEMMA KindsDiffer ==
  /\ \A p \in NodePost : p[1] = "node" /\ p = <<"node", p[2], p[3]>> /\ p[2] \in Node /\ p[3] \in Text
  /\ \A p \in FinalPost : p[1] = "final" /\ p = <<"final", p[2]>> /\ p[2] \in Text
  /\ \A p \in Notice : p[1] = "notice"
BY DEF NodePost, FinalPost, Notice

LEMMA Delivered ==
  ASSUME thread \in Seq(Post), missed \in Nat, NEW post \in Post, Deliver(post)
  PROVE  thread' \in Seq(Post) /\ missed' \in Nat
<1>1. CASE thread' = Append(thread, post) /\ missed' = missed
  BY <1>1
<1>2. CASE thread' = thread /\ missed' = missed + 1
  BY <1>2
<1> QED
  BY <1>1, <1>2 DEF Deliver

LEMMA TypeInit == Init => TypeOK
<1> SUFFICES ASSUME Init PROVE TypeOK
  OBVIOUS
<1>1. log \in [Run!Instance -> Run!LogState] /\ status = "open"
  BY DEF Init, Run!Init, Run!LogState
<1>2. snapshot \in Snapshot
  BY DEF Init, NoResult, Snapshot, Outcome
<1>3. thread \in Seq(Post) /\ missed \in Nat
  BY DEF Init
<1> QED
  BY <1>1, <1>2, <1>3 DEF Init, TypeOK

LEMMA RepliesTyped == Replies \subseteq Reply
BY DEF Replies

LEMMA LastPostsTyped ==
  ASSUME TypeOK
  PROVE  LastPosts \subseteq FinalPost \union Notice
<1>1. snapshot.replies \subseteq Reply
  BY DEF TypeOK, Snapshot
<1> QED
  BY <1>1 DEF LastPosts, FinalPost, Notice, Reply

\* Types.
LEMMA TypeNext == TypeOK /\ [Next]_vars => TypeOK'
<1> SUFFICES ASSUME TypeOK, [Next]_vars PROVE TypeOK'
  OBVIOUS
<1>1. CASE RunMoves
  <2>1. /\ log' \in [Run!Instance -> Run!LogState]
        /\ status' \in {"open"} \union Run!Verdict
    BY <1>1 DEF RunMoves, Run!Step
  <2> QED
    BY <1>1, <2>1 DEF TypeOK, RunMoves, memory, Run!Verdict
<1>2. CASE ShowFailure
  BY <1>2 DEF TypeOK, ShowFailure, memory
<1>3. CASE Terminate
  BY <1>3 DEF TypeOK, Terminate, memory
<1>4. CASE Watch
  BY <1>4 DEF TypeOK, Watch, run, memory
<1>5. CASE Deadline
  BY <1>5 DEF TypeOK, Deadline, run, memory
<1>6. CASE ReadResult
  BY <1>6, RepliesTyped DEF TypeOK, ReadResult, run, Snapshot
<1>7. CASE ReadFailure
  BY <1>7 DEF TypeOK, ReadFailure, run, Snapshot, NoResult, Outcome
<1>8. ASSUME NEW r \in Reply, PostReply(r) PROVE TypeOK'
  <2>1. r[1] \in Node /\ r[2] \in Text /\ <<"node", r[1], r[2]>> \in Post
    BY DEF Reply, Post, NodePost
  <2>2. thread' \in Seq(Post) /\ missed' \in Nat
    BY <1>8, <2>1, Delivered DEF PostReply, TypeOK
  <2> QED
    BY <1>8, <2>1, <2>2 DEF TypeOK, PostReply, run
<1>9. CASE Conclude
  <2>1. thread' \in Seq(Post) /\ missed' \in Nat
    BY <1>9, LastPostsTyped, Delivered DEF Conclude, TypeOK, Post
  <2> QED
    BY <1>9, <2>1 DEF TypeOK, Conclude, Return, run, memory
<1>10. CASE TimeOut
  <2>1. <<"notice", "timeout">> \in Post
    BY DEF Post, Notice
  <2>2. thread' \in Seq(Post) /\ missed' \in Nat
    BY <1>10, <2>1, Delivered DEF TimeOut, TypeOK
  <2> QED
    BY <1>10, <2>2 DEF TypeOK, TimeOut, run, memory
<1>11. CASE Crash
  BY <1>11 DEF TypeOK, Crash, run, memory
<1>12. CASE PollAgain \/ Settled \/ UNCHANGED vars
  BY <1>12 DEF TypeOK, PollAgain, Settled, vars, run, memory
<1> QED
  BY <1>1, <1>2, <1>3, <1>4, <1>5, <1>6, <1>7, <1>8, <1>9, <1>10, <1>11, <1>12
     DEF Next, RunStep, WatcherStep

LEMMA InitInv == Init => EgressInv
<1> SUFFICES ASSUME Init PROVE EgressInv
  OBVIOUS
<1>1. thread = <<>> /\ watcher = "idle" /\ published = {} /\ texts = {}
  BY DEF Init
<1>2. SnapshotIsTrue /\ PostsAreCounted /\ PostsAreTrue /\ NothingWithheld
  BY <1>1 DEF SnapshotIsTrue, PostsAreCounted, PostsAreTrue, NothingWithheld
<1> QED
  BY <1>2, TypeInit DEF EgressInv

\* What was true of a run stays true while the run stays as it is.
LEMMA StaysTrue ==
  ASSUME UNCHANGED run, misread => misread', late => late',
         NEW post, IsTrue(post)
  PROVE  IsTrue(post)'
<1>1. \A n \in Node, t \in Text : LastWord(n, t)' <=> LastWord(n, t)
  BY DEF LastWord, LastAnswer, run
<1> QED
  BY <1>1 DEF IsTrue, run

\* While the run is open nothing but notices can have been posted.
LEMMA OpenRun ==
  ASSUME EgressInv, status = "open"
  PROVE  /\ published = {}
         /\ \A k \in DOMAIN thread : thread[k] \in Notice
         /\ watcher = "posting" => snapshot = NoResult
<1>1. published = {} /\ (watcher = "posting" => snapshot = NoResult)
  BY DEF EgressInv, PostsAreCounted, SnapshotIsTrue, Outcome
<1>2. ASSUME NEW k \in DOMAIN thread PROVE thread[k] \in Notice
  <2>1. thread[k] \in Post /\ IsTrue(thread[k])
    BY <1>2 DEF EgressInv, TypeOK, PostsAreTrue
  <2>2. \A n \in Node, t \in Text : thread[k] \notin {<<"node", n, t>>, <<"final", t>>}
    BY <2>1 DEF IsTrue, Outcome
  <2>3. thread[k] \notin NodePost
    BY <2>2, KindsDiffer
  <2>4. CASE thread[k] \in FinalPost
    <3>1. thread[k] = <<"final", thread[k][2]>> /\ thread[k][2] \in Text
      BY <2>4, KindsDiffer
    <3>2. CASE Node # {}
      BY <2>2, <3>1, <3>2
    <3>3. CASE Node = {}
      BY <2>1, <3>1, <3>3 DEF IsTrue
    <3> QED
      BY <3>2, <3>3
  <2> QED
    BY <2>1, <2>3, <2>4 DEF Post
<1> QED
  BY <1>1, <1>2

LEMMA RunStepInv ==
  ASSUME EgressInv, [Next]_vars, RunStep PROVE EgressInv'
<1>1. /\ status = "open" /\ UNCHANGED <<says, watcher, late, memory, thread, missed, misread>>
      /\ shown = "failed" => shown' = "failed"
  BY DEF RunStep, RunMoves, ShowFailure, Terminate, Run!Step
<1>2. /\ published = {}
      /\ \A k \in DOMAIN thread : thread[k] \in Notice
      /\ watcher = "posting" => snapshot = NoResult
  BY <1>1, OpenRun
<1>3. TypeOK'
  BY TypeNext DEF EgressInv
<1>4. SnapshotIsTrue'
  BY <1>1, <1>2 DEF EgressInv, SnapshotIsTrue, Outcome, memory, NoResult
<1>5. PostsAreCounted'
  BY <1>1, <1>2 DEF EgressInv, PostsAreCounted, memory
<1>6. ASSUME NEW k \in DOMAIN thread PROVE IsTrue(thread[k])'
  <2>1. thread[k] \in Notice /\ IsTrue(thread[k]) /\ thread'[k] = thread[k]
    BY <1>1, <1>2, <1>6 DEF EgressInv, PostsAreTrue
  <2>2. thread[k][1] = "notice"
    BY <2>1, KindsDiffer
  <2>3. \A n, t : thread[k] # <<"node", n, t>> /\ thread[k] # <<"final", t>>
    BY <2>2
  <2>4. thread[k] # <<"notice", "nothing">>
    BY <1>1, <2>1 DEF IsTrue
  <2> QED
    BY <1>1, <2>1, <2>3, <2>4 DEF IsTrue
<1>7. PostsAreTrue'
  BY <1>1, <1>6 DEF EgressInv, PostsAreTrue
<1>8. NothingWithheld'
  <2> SUFFICES ASSUME watcher = "ended", missed = 0 PROVE \E k \in DOMAIN thread : thread[k] \in Notice
    BY <1>1 DEF NothingWithheld
  <2>1. CASE thread # <<>>
    <3>1. thread \in Seq(Post)
      BY DEF EgressInv, TypeOK
    <3>2. 1 \in DOMAIN thread
      BY <2>1, <3>1
    <3> QED
      BY <1>2, <3>2
  <2> QED
    BY <2>1 DEF EgressInv, NothingWithheld
<1> QED
  BY <1>3, <1>4, <1>5, <1>7, <1>8 DEF EgressInv

\* Steps that neither post nor touch the run.
LEMMA QuietInv ==
  ASSUME EgressInv, [Next]_vars,
         UNCHANGED <<run, published, texts, thread, missed>>, late => late', misread => misread',
         SnapshotIsTrue',
         \/ watcher' = watcher /\ snapshot' = snapshot
         \/ watcher = "idle" /\ watcher' = "loop"
         \/ watcher = "loop" /\ watcher' = "posting"
         \/ watcher' = "dead"
  PROVE  EgressInv'
<1>1. TypeOK'
  BY TypeNext DEF EgressInv
<1>2. \A n \in Node, t \in Text : LastWord(n, t)' <=> LastWord(n, t)
  BY DEF LastWord, LastAnswer, run
<1>3. PostsAreCounted'
  BY DEF EgressInv, PostsAreCounted, run
<1>4. PostsAreTrue'
  <2>1. \A k \in DOMAIN thread : IsTrue(thread[k])'
    BY StaysTrue DEF EgressInv, PostsAreTrue
  <2> QED
    BY <2>1 DEF EgressInv, PostsAreTrue
<1>5. NothingWithheld'
  BY <1>2 DEF EgressInv, NothingWithheld
<1> QED
  BY <1>1, <1>3, <1>4, <1>5 DEF EgressInv

LEMMA AsideInv ==
  ASSUME EgressInv, [Next]_vars,
         Watch \/ Deadline \/ Crash \/ PollAgain \/ Settled \/ UNCHANGED vars
  PROVE  EgressInv'
<1>1. /\ UNCHANGED <<run, snapshot, published, texts, thread, missed, misread>> /\ (late => late')
      /\ \/ watcher' = watcher
         \/ watcher = "idle" /\ watcher' = "loop"
         \/ watcher' = "dead"
  BY DEF Watch, Deadline, Crash, PollAgain, Settled, vars, memory
<1>2. Replies' = Replies
  BY <1>1 DEF run, Replies, HasReply, LatestCompleted, IsCompleted
<1>3. SnapshotIsTrue'
  BY <1>1, <1>2 DEF EgressInv, SnapshotIsTrue, run
<1> QED
  BY <1>1, <1>3, QuietInv

LEMMA ReadInv ==
  ASSUME EgressInv, [Next]_vars, ReadResult \/ ReadFailure PROVE EgressInv'
<1>1. /\ watcher = "loop" /\ watcher' = "posting"
      /\ UNCHANGED <<run, late, published, texts, thread, missed>>
  BY DEF ReadResult, ReadFailure, Polling
<1>2. misread => misread'
  BY DEF ReadResult, ReadFailure
<1>3. Replies' = Replies
  BY <1>1 DEF run, Replies, HasReply, LatestCompleted, IsCompleted
<1>4. SnapshotIsTrue'
  <2>1. CASE ReadResult
    BY <1>1, <1>3, <2>1 DEF SnapshotIsTrue, ReadResult, run
  <2>2. CASE ReadFailure
    <3>1. snapshot' = NoResult /\ (status = "terminated" \/ misread')
      BY <2>2, Zenon DEF ReadFailure
    <3> QED
      BY <1>1, <3>1 DEF SnapshotIsTrue, run, NoResult
  <2> QED
    BY <2>1, <2>2
<1> QED
  BY <1>1, <1>2, <1>4, QuietInv

\* One post more, of what is true.
LEMMA OneMore ==
  ASSUME thread \in Seq(Post), missed \in Nat, NEW post \in Post, Deliver(post)
  PROVE  /\ DOMAIN thread \subseteq DOMAIN thread'
         /\ \A k \in DOMAIN thread : thread'[k] = thread[k]
         /\ \A k \in DOMAIN thread' \ DOMAIN thread : thread'[k] = post /\ k = Len(thread) + 1
         /\ missed' = 0 => missed = 0 /\ \E k \in DOMAIN thread' : thread'[k] = post
<1>1. CASE thread' = Append(thread, post) /\ missed' = missed
  <2>1. Len(thread) + 1 \in DOMAIN thread' /\ thread'[Len(thread) + 1] = post
    BY <1>1
  <2> QED
    BY <1>1, <2>1
<1>2. CASE thread' = thread /\ missed' = missed + 1
  BY <1>2
<1> QED
  BY <1>1, <1>2 DEF Deliver

\* A node has one reply.
LEMMA OneReply ==
  ASSUME NEW n \in Node, NEW t, NEW u, <<n, t>> \in Replies, <<n, u>> \in Replies
  PROVE  t = u
<1>1. PICK v \in 1 .. MaxVisits[n] : LatestCompleted(n, v) /\ says[<<n, v>>].text = t
  BY DEF Replies, HasReply
<1>2. PICK w \in 1 .. MaxVisits[n] : LatestCompleted(n, w) /\ says[<<n, w>>].text = u
  BY DEF Replies, HasReply
<1>3. v <= w /\ w <= v
  BY <1>1, <1>2 DEF LatestCompleted
<1>4. v = w
  BY <1>3, EgressAssumption
<1> QED
  BY <1>1, <1>2, <1>4

LEMMA PostReplyInv ==
  ASSUME EgressInv, [Next]_vars, NEW r \in Reply, PostReply(r) PROVE EgressInv'
<1> DEFINE post == <<"node", r[1], r[2]>>
<1>1. /\ watcher = "posting" /\ watcher' = "posting" /\ r \in snapshot.replies /\ r[1] \notin published
      /\ published' = published \union {r[1]} /\ texts' = texts \union {r[2]}
      /\ UNCHANGED <<run, late, snapshot, misread>>
  BY DEF PostReply, Unposted
<1>2. r[1] \in Node /\ r[2] \in Text /\ r = <<r[1], r[2]>> /\ post \in NodePost /\ post \in Post
  BY DEF Reply, NodePost, Post
<1>3. /\ DOMAIN thread \subseteq DOMAIN thread'
      /\ \A k \in DOMAIN thread : thread'[k] = thread[k]
      /\ \A k \in DOMAIN thread' \ DOMAIN thread : thread'[k] = post /\ k = Len(thread) + 1
      /\ missed' = 0 => missed = 0 /\ \E k \in DOMAIN thread' : thread'[k] = post
  <2>1. thread \in Seq(Post) /\ missed \in Nat /\ Deliver(post)
    BY DEF EgressInv, TypeOK, PostReply
  <2> QED
    BY ONLY <1>2, <2>1, OneMore
<1>4. status \in Outcome /\ snapshot.replies = Replies
  BY <1>1 DEF EgressInv, SnapshotIsTrue, NoResult
<1>5. Replies' = Replies
  BY <1>1 DEF run, Replies, HasReply, LatestCompleted, IsCompleted
<1>6. TypeOK'
  BY TypeNext DEF EgressInv
<1>7. SnapshotIsTrue'
  BY <1>1, <1>5 DEF EgressInv, SnapshotIsTrue, run
<1>8. \A x \in snapshot.replies : x[1] = r[1] => x = r
  <2> SUFFICES ASSUME NEW x \in Replies, x[1] = r[1] PROVE x = r
    BY <1>4
  <2>1. x = <<r[1], x[2]>>
    BY RepliesTyped DEF Reply
  <2>2. <<r[1], x[2]>> \in Replies /\ <<r[1], r[2]>> \in Replies
    BY <1>1, <1>2, <1>4, <2>1
  <2>3. x[2] = r[2]
    BY <1>2, <2>2, OneReply
  <2> QED
    BY <1>2, <2>1, <2>3
<1>9. PostsAreCounted'
  <2>0. /\ \A k \in DOMAIN thread : thread[k] \in NodePost /\ <<thread[k][2], thread[k][3]>> \in snapshot.replies
        /\ published \subseteq {x[1] : x \in snapshot.replies}
        /\ texts = {y[2] : y \in {x \in snapshot.replies : x[1] \in published}}
        /\ missed = 0 => \A x \in snapshot.replies :
             x[1] \in published => \E k \in DOMAIN thread : thread[k] = <<"node", x[1], x[2]>>
        /\ \A k \in DOMAIN thread : thread[k] \in NodePost => thread[k][2] \in published
    BY <1>1 DEF EgressInv, PostsAreCounted
  <2>1. post[2] = r[1] /\ post[3] = r[2]
    OBVIOUS
  <2>2. \A k \in DOMAIN thread' : thread'[k] \in NodePost /\ <<thread'[k][2], thread'[k][3]>> \in snapshot.replies
    BY ONLY <1>1, <1>2, <1>3, <2>0, <2>1
  <2>3. published' \subseteq {x[1] : x \in snapshot.replies}
    BY <1>1, <2>0
  <2>4. texts' = {y[2] : y \in {x \in snapshot.replies : x[1] \in published'}}
    BY ONLY <1>1, <1>8, <2>0
  <2>5. ASSUME missed' = 0, NEW x \in snapshot.replies, x[1] \in published'
        PROVE  \E k \in DOMAIN thread' : thread'[k] = <<"node", x[1], x[2]>>
    <3>1. CASE x[1] \in published
      <4>1. PICK k \in DOMAIN thread : thread[k] = <<"node", x[1], x[2]>>
        BY <1>3, <2>0, <2>5, <3>1
      <4> QED
        BY <1>3, <4>1
    <3>2. CASE x = r
      BY <1>3, <2>5, <3>2
    <3> QED
      BY <1>1, <1>8, <2>5, <3>1, <3>2
  <2>6. \A k \in DOMAIN thread' : thread'[k][2] \in published'
    BY ONLY <1>1, <1>2, <1>3, <2>0, <2>1
  <2> QED
    BY <1>1, <1>4, <2>2, <2>3, <2>4, <2>5, <2>6 DEF PostsAreCounted, run
<1>10. PostsAreTrue'
  <2>1. IsTrue(post)'
    <3>1. LastWord(r[1], r[2])'
      <4>1. LastWord(r[1], r[2])
        BY <1>1, <1>2, <1>4, Words DEF EgressInv
      <4> QED
        BY <1>1, <4>1 DEF LastWord, LastAnswer, run
    <3> QED
      BY <1>1, <1>2, <1>4, <3>1 DEF IsTrue, run
  <2>2. \A x : IsTrue(x) => IsTrue(x)'
    BY <1>1, StaysTrue
  <2>3. ASSUME NEW k \in DOMAIN thread', NEW x, x = thread'[k] PROVE IsTrue(x)'
    <3>1. CASE k \in DOMAIN thread
      <4>1. x = thread[k] /\ IsTrue(thread[k])
        BY <1>3, <2>3, <3>1 DEF EgressInv, PostsAreTrue
      <4>2. IsTrue(x)
        BY ONLY <4>1
      <4> QED
        BY ONLY <2>2, <4>2
    <3>2. CASE x = post
      BY ONLY <2>1, <3>2
    <3> QED
      BY ONLY <1>3, <2>3, <3>1, <3>2
  <2>4. \A j, k \in DOMAIN thread' :
          thread'[j] \in NodePost /\ thread'[k] \in NodePost /\ thread'[j][2] = thread'[k][2] => j = k
    <3>1. \A k \in DOMAIN thread : thread[k] \in NodePost => thread[k][2] \in published
      BY DEF EgressInv, PostsAreCounted
    <3>2. \A j, k \in DOMAIN thread :
          thread[j] \in NodePost /\ thread[k] \in NodePost /\ thread[j][2] = thread[k][2] => j = k
      BY DEF EgressInv, PostsAreTrue
    <3>3. post[2] = r[1]
      OBVIOUS
    <3> QED
      BY ONLY <1>1, <1>3, <3>1, <3>2, <3>3
  <2>5. ASSUME NEW k \in DOMAIN thread' PROVE IsTrue(thread[k])'
    <3>1. PICK x : x = thread'[k]
      OBVIOUS
    <3>2. IsTrue(x)'
      BY ONLY <2>3, <2>5, <3>1
    <3> QED
      BY ONLY <3>1, <3>2 DEF IsTrue, LastWord
  <2> QED
    BY ONLY <2>4, <2>5 DEF PostsAreTrue
<1>11. NothingWithheld'
  BY <1>1 DEF NothingWithheld
<1> QED
  BY <1>6, <1>7, <1>9, <1>10, <1>11 DEF EgressInv

\* The watcher's last post, which is not a node's reply.
LEMMA LastPostInv ==
  ASSUME EgressInv, [Next]_vars,
         UNCHANGED <<run, late, memory, misread>>, watcher' = "ended",
         NEW post \in FinalPost \union Notice, Deliver(post), IsTrue(post),
         missed' = 0 => NothingWithheld'
  PROVE  EgressInv'
<1>1. post \in Post /\ post \notin NodePost
  BY KindsDiffer DEF Post
<1>2. /\ DOMAIN thread \subseteq DOMAIN thread'
      /\ \A k \in DOMAIN thread : thread'[k] = thread[k]
      /\ \A k \in DOMAIN thread' \ DOMAIN thread : thread'[k] = post /\ k = Len(thread) + 1
  <2>1. thread \in Seq(Post) /\ missed \in Nat
    BY DEF EgressInv, TypeOK
  <2> QED
    BY ONLY Deliver(post), <1>1, <2>1, OneMore
<1>3. TypeOK'
  BY TypeNext DEF EgressInv
<1>4. SnapshotIsTrue'
  BY DEF SnapshotIsTrue
<1>5. PostsAreCounted'
  <2>1. \A k \in DOMAIN thread : thread[k] \in NodePost => thread[k][2] \in published
    BY DEF EgressInv, PostsAreCounted
  <2>2. \A k \in DOMAIN thread' : thread'[k] \in NodePost => thread'[k][2] \in published
    BY ONLY <1>1, <1>2, <2>1
  <2>3. published # {} => status \in Outcome
    BY DEF EgressInv, PostsAreCounted
  <2> QED
    BY <2>2, <2>3 DEF PostsAreCounted, run, memory
<1>6. PostsAreTrue'
  <2>1. IsTrue(post)'
    BY StaysTrue
  <2>2. \A x : IsTrue(x) => IsTrue(x)'
    BY StaysTrue
  <2>3. ASSUME NEW k \in DOMAIN thread', NEW x, x = thread'[k] PROVE IsTrue(x)'
    <3>1. CASE k \in DOMAIN thread
      <4>1. x = thread[k] /\ IsTrue(thread[k])
        BY <1>2, <2>3, <3>1 DEF EgressInv, PostsAreTrue
      <4>2. IsTrue(x)
        BY ONLY <4>1
      <4> QED
        BY ONLY <2>2, <4>2
    <3>2. CASE x = post
      BY ONLY <2>1, <3>2
    <3> QED
      BY ONLY <1>2, <2>3, <3>1, <3>2
  <2>4. \A j, k \in DOMAIN thread' :
          thread'[j] \in NodePost /\ thread'[k] \in NodePost /\ thread'[j][2] = thread'[k][2] => j = k
    <3>1. \A j, k \in DOMAIN thread :
          thread[j] \in NodePost /\ thread[k] \in NodePost /\ thread[j][2] = thread[k][2] => j = k
      BY DEF EgressInv, PostsAreTrue
    <3> QED
      BY ONLY <1>1, <1>2, <3>1
  <2>5. ASSUME NEW k \in DOMAIN thread' PROVE IsTrue(thread[k])'
    <3>1. PICK x : x = thread'[k]
      OBVIOUS
    <3>2. IsTrue(x)'
      BY ONLY <2>3, <2>5, <3>1
    <3> QED
      BY ONLY <3>1, <3>2 DEF IsTrue, LastWord
  <2> QED
    BY ONLY <2>4, <2>5 DEF PostsAreTrue
<1>7. NothingWithheld'
  BY DEF NothingWithheld
<1> QED
  BY <1>3, <1>4, <1>5, <1>6, <1>7 DEF EgressInv

\* A watcher that ends with a notice withholds nothing.
LEMMA NoticeIsAWord ==
  ASSUME thread \in Seq(Post), missed \in Nat, NEW post \in Notice, Deliver(post), missed' = 0
  PROVE  NothingWithheld'
<1>1. post \in Post
  BY DEF Post
<1>2. \E k \in DOMAIN thread' : thread'[k] \in Notice
  BY <1>1, OneMore
<1> QED
  BY <1>2 DEF NothingWithheld

LEMMA TimeOutInv ==
  ASSUME EgressInv, [Next]_vars, TimeOut PROVE EgressInv'
<1> DEFINE post == <<"notice", "timeout">>
<1>1. post \in Notice /\ Deliver(post) /\ late /\ watcher' = "ended"
      /\ UNCHANGED <<run, late, memory, misread>>
  BY DEF TimeOut, Late, Notice
<1>2. IsTrue(post)
  BY <1>1 DEF IsTrue
<1>3. missed' = 0 => NothingWithheld'
  <2>1. thread \in Seq(Post) /\ missed \in Nat
    BY DEF EgressInv, TypeOK
  <2> QED
    BY ONLY <1>1, <2>1, NoticeIsAWord
<1> QED
  <2>1. post \in FinalPost \union Notice
    BY <1>1
  <2> QED
    BY ONLY EgressInv, [Next]_vars, <1>1, <1>2, <1>3, <2>1, LastPostInv

\* What the watcher holds when it concludes.
LEMMA AllPosted ==
  ASSUME EgressInv, watcher = "posting", \A r \in snapshot.replies : ~Unposted(r),
         snapshot.status # "failed"
  PROVE  /\ status = "completed" /\ snapshot.status = "completed" /\ snapshot.replies = Replies
         /\ missed = 0 => \A r \in Replies : \E k \in DOMAIN thread : thread[k] = <<"node", r[1], r[2]>>
<1>1. status = "completed" /\ snapshot.status = "completed" /\ snapshot.replies = Replies
  BY DEF EgressInv, SnapshotIsTrue, NoResult, Outcome
<1>2. \A r \in Replies : r[1] \in published
  BY <1>1 DEF Unposted
<1> QED
  BY <1>1, <1>2 DEF EgressInv, PostsAreCounted

LEMMA ConcludeInv ==
  ASSUME EgressInv, [Next]_vars, Conclude PROVE EgressInv'
<1>1. /\ watcher = "posting" /\ watcher' = "ended" /\ \A r \in snapshot.replies : ~Unposted(r)
      /\ UNCHANGED <<run, late, memory, misread>>
  BY DEF Conclude, Return
<1>2. \A n \in Node, t \in Text : LastWord(n, t)' <=> LastWord(n, t)
  BY <1>1 DEF LastWord, LastAnswer, run
<1>3. CASE LastPosts = {}
  <2>1. UNCHANGED <<thread, missed>>
    BY <1>3 DEF Conclude
  <2>2. snapshot.status # "failed"
    BY <1>3 DEF LastPosts
  <2>3. /\ status = "completed" /\ snapshot.replies = Replies
        /\ missed = 0 => \A r \in Replies : \E k \in DOMAIN thread : thread[k] = <<"node", r[1], r[2]>>
    BY <1>1, <2>2, AllPosted
  <2>4. Replies # {}
    <3> SUFFICES ASSUME Replies = {} PROVE FALSE
      OBVIOUS
    <3>1. published = {}
      BY <1>1, <2>3 DEF EgressInv, PostsAreCounted
    <3> QED
      BY <1>3, <2>2, <2>3, <3>1 DEF LastPosts
  <2>5. TypeOK'
    BY TypeNext DEF EgressInv
  <2>6. SnapshotIsTrue'
    BY <1>1 DEF SnapshotIsTrue
  <2>7. PostsAreCounted'
    BY <1>1, <2>1 DEF EgressInv, PostsAreCounted, run, memory
  <2>8. PostsAreTrue'
    <3>1. \A x : IsTrue(x) => IsTrue(x)'
      BY <1>1, StaysTrue
    <3> QED
      BY <2>1, <3>1 DEF EgressInv, PostsAreTrue
  <2>9. NothingWithheld'
    <3> SUFFICES ASSUME missed = 0
                 PROVE  /\ thread # <<>>
                        /\ \A n \in Node, t \in Text :
                             LastWord(n, t) => \E k \in DOMAIN thread : thread[k] = <<"node", n, t>>
      BY <1>2, <2>1 DEF NothingWithheld
    <3>1. \A r \in Replies : \E k \in DOMAIN thread : thread[k] = <<"node", r[1], r[2]>>
      BY <2>3
    <3>2. thread # <<>>
      BY <2>4, <3>1
    <3> QED
      BY <3>1, <3>2, Words DEF EgressInv
  <2> QED
    BY <2>5, <2>6, <2>7, <2>8, <2>9 DEF EgressInv
<1>4. ASSUME NEW post \in LastPosts, Deliver(post) PROVE EgressInv'
  <2>1. post \in FinalPost \union Notice
    BY <1>4, LastPostsTyped DEF EgressInv
  <2>2. thread \in Seq(Post) /\ missed \in Nat
    BY DEF EgressInv, TypeOK
  <2>3. CASE snapshot.status = "failed"
    <3>1. post = <<"notice", "failed">> /\ post \in Notice
      BY <1>4, <2>3 DEF LastPosts, Notice
    <3>2. shown = "failed" \/ status \in {"failed", "terminated"} \/ misread
      BY <1>1, <2>3 DEF EgressInv, SnapshotIsTrue
    <3>3. IsTrue(post)
      BY <3>1, <3>2 DEF IsTrue
    <3>4. missed' = 0 => NothingWithheld'
      BY ONLY <1>4, <2>2, <3>1, NoticeIsAWord
    <3> QED
      BY ONLY EgressInv, [Next]_vars, <1>1, <1>4, <2>1, <3>3, <3>4, LastPostInv
  <2>4. CASE snapshot.status # "failed"
    <3>1. /\ status = "completed" /\ snapshot.status = "completed" /\ snapshot.replies = Replies
          /\ missed = 0 => \A r \in Replies : \E k \in DOMAIN thread : thread[k] = <<"node", r[1], r[2]>>
      BY <1>1, <2>4, AllPosted
    <3>2. CASE Replies = {}
      <4>1. post = <<"notice", "nothing">> /\ post \in Notice
        BY <1>4, <2>4, <3>1, <3>2 DEF LastPosts, Notice
      <4>2. \A n \in Node, t \in Text : ~LastWord(n, t)
        BY <3>2, Words DEF EgressInv
      <4>3. IsTrue(post)
        BY <3>1, <4>1, <4>2 DEF IsTrue
      <4>4. missed' = 0 => NothingWithheld'
        BY ONLY <1>4, <2>2, <4>1, NoticeIsAWord
      <4> QED
        BY ONLY EgressInv, [Next]_vars, <1>1, <1>4, <2>1, <4>3, <4>4, LastPostInv
    <3>3. CASE Replies # {}
      <4>1. PICK r \in Replies : post = <<"final", r[2]>>
        BY <1>4, <2>4, <3>1, <3>3 DEF LastPosts
      <4>2. r[1] \in Node /\ r[2] \in Text /\ <<r[1], r[2]>> \in Replies
        BY <4>1, RepliesTyped DEF Reply
      <4>3. LastWord(r[1], r[2])
        BY <4>2, Words DEF EgressInv
      <4>4. IsTrue(post)
        BY <3>1, <4>1, <4>2, <4>3 DEF IsTrue, Outcome
      <4>5. missed' = 0 => NothingWithheld'
        <5> SUFFICES ASSUME missed' = 0
                     PROVE  /\ thread' # <<>>
                            /\ \A n \in Node, t \in Text :
                                 LastWord(n, t) => \E k \in DOMAIN thread' : thread'[k] = <<"node", n, t>>
          BY <1>2 DEF NothingWithheld
        <5>1. post \in Post
          BY <2>1 DEF Post
        <5>2. /\ DOMAIN thread \subseteq DOMAIN thread' /\ \A k \in DOMAIN thread : thread'[k] = thread[k]
              /\ missed = 0 /\ \E k \in DOMAIN thread' : thread'[k] = post
          BY ONLY missed' = 0, <1>4, <2>2, <5>1, OneMore
        <5>3. \A x \in Replies : \E k \in DOMAIN thread' : thread'[k] = <<"node", x[1], x[2]>>
          BY ONLY <3>1, <5>2
        <5>4. thread' # <<>>
          BY <5>2
        <5> QED
          BY <5>3, <5>4, Words DEF EgressInv
      <4> QED
        BY ONLY EgressInv, [Next]_vars, <1>1, <1>4, <2>1, <4>4, <4>5, LastPostInv
    <3> QED
      BY <3>2, <3>3
  <2> QED
    BY <2>3, <2>4
<1> QED
  BY <1>3, <1>4 DEF Conclude

LEMMA NextInv == EgressInv /\ [Next]_vars => EgressInv'
BY RunStepInv, AsideInv, ReadInv, PostReplyInv, ConcludeInv, TimeOutInv DEF Next, WatcherStep

\* For every graph, every run that GraphRun allows and every set of replies, the posts,
\* the snapshot in hand and what the watcher has published agree (_run_watch).
THEOREM EgressInvariant == Spec => []EgressInv
BY InitInv, NextInv, PTL DEF Spec

\* What is posted is true of the run as it ended; a node has a last word only if its result
\* carries a terminal status or none (_run_watch, _node_is_completed).
THEOREM PostsTrue == Spec => []PostsAreTrue
<1>1. EgressInv => PostsAreTrue
  BY DEF EgressInv
<1> QED
  BY <1>1, EgressInvariant, PTL

\* A watcher that ends has posted the last word of every node that has one, or a notice
\* (_run_watch); answers under another status are no last words (_node_is_completed).
THEOREM NothingIsWithheld == Spec => []NothingWithheld
<1>1. EgressInv => NothingWithheld
  BY DEF EgressInv
<1> QED
  BY <1>1, EgressInvariant, PTL

\* The stage that the reader sees.
Seen(w) == IF w = "idle" THEN "idle" ELSE IF w \in Following THEN "followed" ELSE "closed"

Waits == Seen(watcher') = Seen(watcher) /\ thread' = thread
Begins == Seen(watcher) = "idle" /\ Seen(watcher') = "followed" /\ thread' = thread
Answers ==
  /\ Seen(watcher) = "followed" /\ Seen(watcher') \in {"followed", "closed"}
  /\ \E post \in NodePost \union FinalPost : thread' = Append(thread, post)
Closes ==
  /\ Seen(watcher) = "followed" /\ Seen(watcher') = "closed"
  /\ thread' = thread \/ \E post \in Notice : thread' = Append(thread, post)

LEMMA NextIsThreadStep ==
  ASSUME TypeOK, [Next]_vars
  PROVE  Waits \/ Begins \/ Answers \/ Closes
<1>1. CASE RunStep \/ PollAgain \/ Deadline \/ Settled \/ UNCHANGED vars
  BY <1>1 DEF RunStep, RunMoves, ShowFailure, Terminate, PollAgain, Deadline, Settled, vars, Waits
<1>2. CASE Watch
  BY <1>2 DEF Watch, Seen, Following, Begins
<1>3. CASE ReadResult \/ ReadFailure
  BY <1>3 DEF ReadResult, ReadFailure, Polling, Seen, Following, Waits
<1>4. ASSUME NEW r \in Reply, PostReply(r) PROVE Waits \/ Answers
  <2>1. <<"node", r[1], r[2]>> \in NodePost
    BY DEF Reply, NodePost
  <2> QED
    BY <1>4, <2>1 DEF PostReply, Deliver, Seen, Following, Waits, Answers
<1>5. CASE Conclude
  <2>1. watcher = "posting" /\ watcher' = "ended"
    BY <1>5 DEF Conclude, Return
  <2>2. thread' = thread \/ \E post \in FinalPost \union Notice : thread' = Append(thread, post)
    BY <1>5, LastPostsTyped DEF Conclude, Deliver
  <2> QED
    BY <2>1, <2>2 DEF Seen, Following, Answers, Closes
<1>6. CASE TimeOut
  <2>1. <<"notice", "timeout">> \in Notice
    BY DEF Notice
  <2> QED
    BY <1>6, <2>1 DEF TimeOut, Deliver, Seen, Following, Closes
<1>7. CASE Crash
  BY <1>7 DEF Crash, Seen, Following, Closes
<1> QED
  BY <1>1, <1>2, <1>3, <1>4, <1>5, <1>6, <1>7 DEF Next, WatcherStep

(***************************************************************************)
(* Whatever the run does and whatever fails, the thread of a graph reads   *)
(* as ReplyThread says (_run_watch): replies, at most one notice, which is *)
(* the last post, and nothing once the watcher has gone.                   *)
(***************************************************************************)
THEOREM GraphIsThread == Spec => GraphIsReplyThread
<1>1. Init => Thread!Init
  BY DEF Init, Thread!Init
<1>2. TypeOK /\ [Next]_vars => Thread!Step
  <2> SUFFICES ASSUME TypeOK, [Next]_vars PROVE Thread!Step
    OBVIOUS
  <2>1. Waits \/ Begins \/ Answers \/ Closes
    BY NextIsThreadStep
  <2>2. \A q \in {"graph"} :
          Thread!Unchanged(q) \/ Thread!Follow(q) \/ Thread!Answer(q) \/ Thread!Close(q)
    BY <2>1 DEF Waits, Begins, Answers, Closes, Seen,
                Thread!Unchanged, Thread!Follow, Thread!Answer, Thread!Close
  <2> QED
    BY <2>2 DEF Thread!Step
<1>3. TypeOK /\ [Next]_vars => [Thread!Step]_<<[q \in {"graph"} |->
        IF watcher = "idle" THEN "idle" ELSE IF watcher \in Following THEN "followed" ELSE "closed"],
        [q \in {"graph"} |-> thread]>>
  BY <1>2
<1>4. EgressInv => TypeOK
  BY DEF EgressInv
<1> QED
  BY <1>1, <1>3, <1>4, EgressInvariant, PTL DEF Spec, GraphIsReplyThread, Thread!Spec
=============================================================================
