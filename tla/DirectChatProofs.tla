--------------------------- MODULE DirectChatProofs ---------------------------
(***************************************************************************)
(* Proofs that direct chat answers each question with its own reply, once, *)
(* and keeps the promise of ReplyThread, for every set of questions and    *)
(* every number of consumers, expiries, lost replies and crashes.          *)
(***************************************************************************)
EXTENDS DirectChatProperties, FiniteSetTheorems, TLAPS

\* NoSession is no session, and the two components of a session are its own.
LEMMA Sessions ==
  /\ NoSession \notin Session
  /\ \A q \in Question : \A k \in Attempt : <<q, k>> \in Session /\ <<q, k>> \in Task
  /\ \A t \in Task : t[1] \in Question /\ t[2] \in Attempt /\ t = <<t[1], t[2]>>
BY DEF NoSession, Session, Task, Attempt

\* The initial state satisfies the inductive invariant.
LEMMA InitInv == Init => ChatInv
<1> SUFFICES ASSUME Init PROVE ChatInv
  OBVIOUS
<1>1. TypeOK
  BY ChatAssumption DEF Init, TypeOK, Place, WatchState, Attempt
<1>2. SessionsAreOpened /\ ResentAfresh /\ RowsAreReal
  <2>1. SessionsAreOpened
    BY DEF Init, SessionsAreOpened
  <2>2. \A q \in Question : <<q, 1>> \in Task /\ <<q, 2>> \in Task /\ NoSession # <<q, 2>>
    BY Sessions DEF Attempt
  <2>3. ResentAfresh
    <3> SUFFICES ASSUME NEW q \in Question
                 PROVE  attempt[q] # 2 /\ room[<<q, 1>>] # <<q, 2>>
      BY DEF ResentAfresh
    <3>1. room[<<q, 1>>] = NoSession
      BY <2>2 DEF Init
    <3> QED
      BY <2>2, <3>1 DEF Init
  <2>4. RowsAreReal
    <3>1. DOMAIN rows = {}
      BY DEF Init
    <3>2. \A q \in Question : /\ job[<<q, 2>>] = "none" /\ job[TaskOf(q)] = "none"
                              /\ watch[q] = "off" /\ thread[q] = <<>>
      BY <2>2 DEF Init, TaskOf
    <3> QED
      BY <3>1, <3>2 DEF RowsAreReal
  <2> QED
    BY <2>1, <2>3, <2>4
<1>3. \A q \in Question : Answers(q) = {}
  BY DEF Init, Answers
<1>4. OwnAnswer
  BY <1>3 DEF OwnAnswer
<1>5. AnswersCounted
  <2> SUFFICES ASSUME NEW q \in Question PROVE Cardinality(Answers(q)) <= 0
    BY DEF AnswersCounted, Init
  <2> QED
    BY <1>3, FS_EmptySet
<1> QED
  BY <1>1, <1>2, <1>4, <1>5 DEF ChatInv
-----------------------------------------------------------------------------
\* Steps of the router, and type correctness.

LEMMA RouteTyped ==
  ASSUME TypeOK, NEW q \in Question, Route(q) PROVE TypeOK'
<1>1. pc' \in [Question -> Place]
  <2>1. \A place \in Place : [pc EXCEPT ![q] = place] \in [Question -> Place]
    BY DEF TypeOK
  <2>2. CASE Lookup(q) \/ Create(q)
    BY <2>1, <2>2 DEF Lookup, Create, Goto, Place
  <2>3. CASE Store(q)
    BY <2>1, <2>3 DEF Store, Goto, Place
  <2>4. CASE Send(q) \/ SendFails(q)
    BY <2>1, <2>4 DEF Send, SendFails, SendRaises, Goto, Place
  <2> QED
    BY <2>2, <2>3, <2>4 DEF Route
<1>2. attempt' \in [Question -> Attempt]
  BY DEF TypeOK, Route, Lookup, Create, Store, Send, SendFails, SendRaises, Attempt
<1>3. TaskOf(q) \in Session /\ TaskOf(q) \in Task /\ TaskOf(q) = <<q, attempt[q]>>
  BY Sessions DEF TaskOf, TypeOK
<1>4. session[q] \in Session \union {NoSession} /\ stored \in Session \union {NoSession}
  BY DEF TypeOK
<1>5. session' \in [Question -> Session \union {NoSession}]
  BY <1>3, <1>4 DEF TypeOK, Route, Lookup, Create, Store, Send, SendFails, InUse
<1>6. stored' \in Session \union {NoSession} /\ opened' \subseteq Session
  BY <1>3, <1>4 DEF TypeOK, Route, Lookup, Create, Store, Send, SendFails
<1>7. room' \in [Task -> Session \union {NoSession}] /\ job' \in [Task -> {"none", "open", "ended"}]
  <2>1. CASE Queue(TaskOf(q), session[q])
    BY <1>3, <1>4, <2>1 DEF Queue, TypeOK
  <2>2. CASE UNCHANGED <<job, room>>
    BY <2>2 DEF TypeOK
  <2> QED
    BY <2>1, <2>2 DEF Route, Lookup, Create, Store, Send, SendFails, service
<1>8. watch' \in [Question -> WatchState]
  BY DEF TypeOK, Route, Lookup, Create, Store, Send, SendFails, watching, WatchState
<1>9. UNCHANGED <<rows, over, thread, lost, expiries, crashes>>
  BY DEF Route, Lookup, Create, Store, Send, SendFails, service, watching
<1> QED
  BY <1>1, <1>2, <1>5, <1>6, <1>7, <1>8, <1>9 DEF TypeOK
-----------------------------------------------------------------------------
\* Steps of the watchers and of the environment, and type correctness.

\* The rows a watcher considers are rows of its session for its task, or untagged.
LEMMA ReplyRows ==
  ASSUME TypeOK, NEW q \in Question, NEW row \in Reply(q)
  PROVE  \E k \in DOMAIN rows :
           /\ row = rows[k] /\ row \in Row
           /\ room[row.task] = session[q]
           /\ row.tagged => row.task = TaskOf(q)
<1>1. PICK k \in RowsFor(q) : row = rows[k]
  BY DEF Reply
<1>2. k \in DOMAIN rows /\ rows[k] \in Row
  BY <1>1 DEF RowsFor, TypeOK
<1> QED
  BY <1>1, <1>2 DEF RowsFor

\* What a step of q's watcher changes.
LEMMA WatchFrame ==
  ASSUME TypeOK, NEW q \in Question, Watch(q)
  PROVE  /\ UNCHANGED <<routing, service, over, crashes>>
         /\ watch[q] \in {"list", "pending"}
         /\ \E w \in WatchState \ {"off"} : watch' = [watch EXCEPT ![q] = w]
         /\ lost' = lost \/ lost' = [lost EXCEPT ![q] = lost[q] + 1]
<1> USE DEF End, EndInError, WatchState
<1>1. CASE PublishReply(q)
  BY <1>1 DEF PublishReply, Published
<1>2. CASE FindNoReply(q) \/ KeepWatching(q)
  BY <1>2 DEF FindNoReply, KeepWatching
<1>3. CASE GiveUp(q)
  BY <1>3 DEF GiveUp
<1>4. CASE TimeOut(q)
  BY <1>4 DEF TimeOut, Late
<1> QED
  BY <1>1, <1>2, <1>3, <1>4 DEF Watch

AnswerPost(row) == [kind |-> "answer", row |-> row]
ErrorPost(kind) == [kind |-> kind]

\* What a step of q's watcher adds to the thread of q.
LEMMA WatchSteps ==
  ASSUME TypeOK, NEW q \in Question, Watch(q)
  PROVE  \/ UNCHANGED <<thread, lost>> /\ watch'[q] # "answered"
         \/ \E row \in Reply(q) :
              /\ thread' = [thread EXCEPT ![q] = Append(thread[q], AnswerPost(row))]
              /\ \/ watch'[q] = "answered" /\ UNCHANGED lost
                 \/ watch'[q] = "pending" /\ lost' = [lost EXCEPT ![q] = lost[q] + 1]
         \/ \E kind \in {"missing", "timed_out"} :
              /\ thread' = [thread EXCEPT ![q] = Append(thread[q], ErrorPost(kind))]
              /\ UNCHANGED lost
              /\ watch'[q] = kind
<1> USE DEF End, Add, EndInError, TypeOK, AnswerPost, ErrorPost
<1>1. CASE PublishReply(q)
  BY <1>1 DEF PublishReply, Published
<1>2. CASE FindNoReply(q) \/ KeepWatching(q)
  BY <1>2 DEF FindNoReply, KeepWatching
<1>3. CASE GiveUp(q)
  BY <1>3 DEF GiveUp
<1>4. CASE TimeOut(q)
  BY <1>4 DEF TimeOut, Late
<1> QED
  BY <1>1, <1>2, <1>3, <1>4 DEF Watch

LEMMA WatchTyped ==
  ASSUME TypeOK, NEW q \in Question, Watch(q) PROVE TypeOK'
<1>1. watch' \in [Question -> WatchState]
  BY WatchFrame DEF TypeOK
<1>2. lost' \in [Question -> Nat]
  <2>1. lost' = lost \/ lost' = [lost EXCEPT ![q] = lost[q] + 1]
    BY WatchFrame
  <2>2. lost \in [Question -> Nat]
    BY DEF TypeOK
  <2> QED
    BY <2>1, <2>2
<1>3. thread' \in [Question -> Seq(Post)]
  <2>1. \A post \in Post : [thread EXCEPT ![q] = Append(thread[q], post)] \in [Question -> Seq(Post)]
    BY DEF TypeOK
  <2>2. \A row \in Reply(q) : AnswerPost(row) \in Post
    BY ReplyRows DEF Post, AnswerPost
  <2>3. \A kind \in {"missing", "timed_out"} : ErrorPost(kind) \in Post
    BY DEF Post, ErrorPost
  <2>4. thread' = thread \/ \E post \in Post : thread' = [thread EXCEPT ![q] = Append(thread[q], post)]
    BY <2>2, <2>3, WatchSteps
  <2> QED
    BY <2>1, <2>4 DEF TypeOK
<1>4. UNCHANGED <<routing, service, over, crashes>>
  BY WatchFrame
<1> QED
  BY <1>1, <1>2, <1>3, <1>4 DEF TypeOK, routing, service

\* The steps of the environment, in one formula.
Environment ==
  \/ \E q \in Question : Deadline(q)
  \/ \E t \in Task : JobEnds(t)
  \/ KeyExpires
  \/ Crash
  \/ Settled

LEMMA EnvironmentTyped ==
  ASSUME TypeOK, Environment PROVE TypeOK'
<1>1. ASSUME NEW q \in Question, Deadline(q) PROVE TypeOK'
  BY <1>1 DEF Deadline, TypeOK, routing, service
<1>2. ASSUME NEW t \in Task, JobEnds(t) PROVE TypeOK'
  <2>1. rows' \in Seq(Row)
    <3>1. \A tagged \in BOOLEAN : [task |-> t, tagged |-> tagged] \in Row
      BY DEF Row
    <3>2. CASE UNCHANGED rows
      BY <3>2 DEF TypeOK
    <3>3. ASSUME NEW tagged \in BOOLEAN, rows' = Append(rows, [task |-> t, tagged |-> tagged])
          PROVE  rows' \in Seq(Row)
      BY <3>1, <3>3 DEF TypeOK
    <3> QED
      BY <1>2, <3>2, <3>3 DEF JobEnds
  <2>2. job' \in [Task -> {"none", "open", "ended"}]
    BY <1>2 DEF JobEnds, TypeOK
  <2> QED
    BY <1>2, <2>1, <2>2 DEF JobEnds, TypeOK, routing, watching
<1>3. CASE KeyExpires
  BY <1>3 DEF KeyExpires, TypeOK, service, watching
<1>4. CASE Crash
  <2>1. pc' \in [Question -> Place] /\ watch' \in [Question -> WatchState]
    BY <1>4 DEF Crash, TypeOK, Place, WatchState
  <2> QED
    BY <1>4, <2>1 DEF Crash, TypeOK, service
<1>5. CASE Settled
  BY <1>5 DEF Settled, vars, routing, service, watching, TypeOK
<1> QED
  BY <1>1, <1>2, <1>3, <1>4, <1>5 DEF Environment
-----------------------------------------------------------------------------
\* The router preserves the invariant.

LEMMA RouteOpens ==
  ASSUME ChatInv, NEW q \in Question, Route(q)
  PROVE  SessionsAreOpened'
<1> USE DEF ChatInv, TypeOK, SessionsAreOpened, routing, service, watching, Goto, InUse
<1>1. \A p \in Question : <<p, 2>> \in Session
  BY Sessions DEF Attempt
<1>2. TaskOf(q) = <<q, attempt[q]>> /\ attempt[q] \in {1, 2}
  BY DEF TaskOf, Attempt
<1>3. CASE Lookup(q)
  BY <1>3 DEF Lookup
<1>4. CASE Create(q)
  <2>1. \/ session' = session
        \/ /\ session' = [session EXCEPT ![q] = <<q, attempt[q]>>]
           /\ opened' = opened \union {<<q, attempt[q]>>}
    BY ONLY <1>2, <1>4 DEF Create, InUse
  <2>2. opened' = opened \/ opened' = opened \union {<<q, attempt[q]>>}
    BY <1>2, <1>4 DEF Create
  <2>3. UNCHANGED <<stored, attempt>>
    BY <1>4 DEF Create
  <2>4. \A p \in Question : <<p, 2>> \in opened' => attempt'[p] = 2
    <3> SUFFICES ASSUME NEW p \in Question, <<p, 2>> \in opened', <<p, 2>> \notin opened
                 PROVE  attempt[p] = 2
      BY <2>3
    <3> QED
      BY <2>2
  <2> QED
    BY <2>1, <2>2, <2>3, <2>4
<1>5. CASE Store(q)
  BY <1>5 DEF Store
<1>6. CASE Send(q) \/ SendFails(q)
  BY <1>6 DEF Send, SendFails, SendRaises, Attempt
<1> QED
  BY <1>3, <1>4, <1>5, <1>6 DEF Route

LEMMA RouteResends ==
  ASSUME ChatInv, NEW q \in Question, Route(q)
  PROVE  ResentAfresh'
<1> USE DEF ChatInv, TypeOK, ResentAfresh, SessionsAreOpened, routing, service, watching, Goto, InUse
<1>1. \A p \in Question : <<p, 1>> \in Task /\ <<p, 2>> \in Task /\ NoSession # <<p, 2>>
  BY Sessions DEF Attempt
<1>2. TaskOf(q) = <<q, attempt[q]>> /\ attempt[q] \in {1, 2}
  BY DEF TaskOf, Attempt
<1>3. CASE Lookup(q)
  BY <1>3 DEF Lookup, Place
<1>4. CASE Create(q)
  BY <1>2, <1>4 DEF Create
<1>5. CASE Store(q)
  BY <1>5 DEF Store
<1>6. CASE UNCHANGED <<job, room>> /\ (Send(q) \/ SendFails(q))
  BY <1>6 DEF Send, SendFails, SendRaises
<1>7. CASE Queue(TaskOf(q), session[q]) /\ (Send(q) \/ SendFails(q))
  <2>1. room' = [room EXCEPT ![TaskOf(q)] = session[q]]
    BY <1>7 DEF Queue
  <2>2. /\ session[q] # NoSession => session[q] \in opened
        /\ <<q, 2>> \in opened => attempt[q] = 2
        /\ \A p \in Question : room[<<p, 1>>] # <<p, 2>>
        /\ room \in [Task -> Session \union {NoSession}]
    OBVIOUS
  <2>3. session[q] = <<q, 2>> => attempt[q] = 2
    BY ONLY <1>1, <2>2
  <2>4. ASSUME NEW p \in Question PROVE room'[<<p, 1>>] # <<p, 2>>
    <3>1. CASE <<p, 1>> = TaskOf(q)
      <4>1. p = q /\ attempt[q] = 1
        BY ONLY <1>2, <3>1
      <4>2. room'[<<p, 1>>] = session[q]
        BY ONLY <1>1, <2>1, <2>2, <3>1
      <4>3. session[q] # <<q, 2>>
        BY ONLY <2>3, <4>1
      <4> QED
        BY ONLY <4>1, <4>2, <4>3
    <3>2. CASE <<p, 1>> # TaskOf(q)
      BY <1>1, <2>1, <2>2, <3>2
    <3> QED
      BY <3>1, <3>2
  <2> QED
    BY <1>7, <2>4 DEF Send, SendFails, SendRaises
<1> QED
  BY <1>3, <1>4, <1>5, <1>6, <1>7 DEF Route, Send, SendFails

\* The threads, and who answered, stay as they are while a question is routed.
LEMMA RouteThreads ==
  ASSUME ChatInv, NEW q \in Question, Route(q)
  PROVE  /\ UNCHANGED <<rows, over, thread, lost, expiries, crashes>>
         /\ \A p \in Question : attempt'[p] # attempt[p] => thread[p] = <<>>
         /\ \A p \in Question : watch[p] = "answered" => watch'[p] = "answered"
<1> USE DEF ChatInv, TypeOK, RowsAreReal, routing, service, watching, Goto, InUse
<1>1. CASE Lookup(q) \/ Create(q) \/ Store(q)
  BY <1>1 DEF Lookup, Create, Store
<1>2. CASE Send(q)
  BY <1>2 DEF Send
<1>3. CASE SendFails(q)
  BY <1>3 DEF SendFails, SendRaises
<1> QED
  BY <1>1, <1>2, <1>3 DEF Route

LEMMA RouteRows ==
  ASSUME ChatInv, NEW q \in Question, Route(q)
  PROVE  RowsAreReal'
<1>1. \A p \in Question : <<p, 1>> \in Task /\ <<p, 2>> \in Task
  BY Sessions DEF Attempt
<1>2. TaskOf(q) = <<q, attempt[q]>> /\ attempt[q] \in {1, 2}
  BY DEF TaskOf, Attempt, ChatInv, TypeOK
<1>3. \A p \in Question : TaskOf(p) = <<p, attempt[p]>> /\ TaskOf(p)' = <<p, attempt'[p]>>
  BY DEF TaskOf
<1>4. RowsAreReal /\ TypeOK
  BY DEF ChatInv
<1>5. CASE Lookup(q) \/ Create(q) \/ Store(q)
  <2>1. UNCHANGED <<job, rows, watch, thread, attempt>> /\ pc[q] \notin {"sent", "failed"} /\ watch[q] = "off"
    BY <1>4, <1>5 DEF Lookup, Create, Store, service, watching, RowsAreReal
  <2>2. \A p \in Question : p # q => pc'[p] = pc[p]
    BY <1>4, <1>5 DEF Lookup, Create, Store, Goto, TypeOK
  <2> QED
    BY <1>3, <1>4, <2>1, <2>2 DEF RowsAreReal
<1>6. CASE Send(q) \/ SendFails(q)
  <2>1. /\ pc[q] = "send" /\ job[TaskOf(q)] = "none" /\ watch[q] = "off"
        /\ UNCHANGED <<rows, thread>>
    BY <1>4, <1>6 DEF Send, SendFails, RowsAreReal, watching
  <2>2. job' = job \/ job' = [job EXCEPT ![TaskOf(q)] = "open"]
    BY <1>6 DEF Send, SendFails, Queue
  <2>3. \A p \in Question : p # q => pc'[p] = pc[p] /\ attempt'[p] = attempt[p] /\ watch'[p] = watch[p]
    BY <1>4, <1>6 DEF Send, SendFails, SendRaises, Goto, TypeOK, watching
  <2>4. \/ pc'[q] \in {"sent", "failed"} /\ attempt'[q] = attempt[q]
        \/ attempt[q] = 1 /\ attempt'[q] = 2
    BY <1>4, <1>6 DEF Send, SendFails, SendRaises, Goto, TypeOK
  <2>5. watch'[q] = "off" \/ pc'[q] = "sent"
    BY <1>4, <1>6, <2>1 DEF Send, SendFails, Goto, TypeOK, watching
  <2>6. \A t \in Task : t # TaskOf(q) => job'[t] = job[t]
    BY <1>4, <2>2 DEF TypeOK
  <2>7. \A k \in DOMAIN rows' : job'[rows'[k].task] = "ended"
    <3> SUFFICES ASSUME NEW k \in DOMAIN rows PROVE job'[rows[k].task] = "ended"
      BY <2>1
    <3>1. rows[k].task \in Task
      <4>1. rows[k] \in Row
        BY <1>4 DEF TypeOK
      <4> QED
        BY <4>1 DEF Row
    <3>2. job[rows[k].task] = "ended"
      BY <1>4 DEF RowsAreReal
    <3> QED
      BY <2>1, <2>6, <3>1, <3>2
  <2>8. \A p \in Question : job'[<<p, 2>>] # "none" => attempt'[p] = 2
    <3> SUFFICES ASSUME NEW p \in Question, job'[<<p, 2>>] # "none" PROVE attempt'[p] = 2
      OBVIOUS
    <3>1. CASE <<p, 2>> = TaskOf(q)
      BY <1>2, <2>4, <3>1
    <3>2. CASE <<p, 2>> # TaskOf(q)
      <4>1. attempt[p] = 2
        BY <1>1, <1>4, <2>6, <3>2 DEF RowsAreReal
      <4> QED
        BY <1>2, <2>3, <2>4, <4>1
    <3> QED
      BY <3>1, <3>2
  <2>9. \A p \in Question : pc'[p] \notin {"sent", "failed"} => job'[TaskOf(p)'] = "none"
    <3> SUFFICES ASSUME NEW p \in Question, pc'[p] \notin {"sent", "failed"}
                 PROVE  job'[TaskOf(p)'] = "none"
      OBVIOUS
    <3>1. CASE p = q
      <4>1. attempt[q] = 1 /\ TaskOf(q)' = <<q, 2>>
        BY <1>3, <2>4, <3>1
      <4>2. job[<<q, 2>>] = "none"
        BY <1>4, <4>1 DEF RowsAreReal
      <4>3. <<q, 2>> # TaskOf(q) /\ <<q, 2>> \in Task
        BY <1>1, <1>2, <4>1
      <4> QED
        BY <2>6, <3>1, <4>1, <4>2, <4>3
    <3>2. CASE p # q
      <4>1. job[TaskOf(p)] = "none" /\ TaskOf(p)' = TaskOf(p)
        BY <1>3, <1>4, <2>3, <3>2 DEF RowsAreReal
      <4>2. TaskOf(p) # TaskOf(q) /\ TaskOf(p) \in Task
        <5>1. attempt[p] \in {1, 2}
          BY <1>4 DEF TypeOK, Attempt
        <5>2. TaskOf(p) = <<p, attempt[p]>>
          BY <1>3
        <5>3. TaskOf(p) \in Task
          BY <1>1, <5>1, <5>2
        <5> QED
          BY ONLY <1>2, <3>2, <5>2, <5>3
      <4> QED
        BY <2>6, <4>1, <4>2
    <3> QED
      BY <3>1, <3>2
  <2> QED
    BY <1>4, <2>1, <2>3, <2>5, <2>7, <2>8, <2>9 DEF RowsAreReal
<1> QED
  BY <1>5, <1>6 DEF Route

LEMMA AnswersFinite ==
  ASSUME TypeOK, NEW q \in Question
  PROVE  IsFiniteSet(Answers(q)) /\ Cardinality(Answers(q)) \in Nat
<1>1. thread[q] \in Seq(Post)
  BY DEF TypeOK
<1>2. Len(thread[q]) \in Nat /\ DOMAIN thread[q] = 1..Len(thread[q])
  BY <1>1
<1>3. IsFiniteSet(1..Len(thread[q]))
  BY <1>2, FS_Interval
<1>4. Answers(q) \subseteq 1..Len(thread[q])
  BY <1>2 DEF Answers
<1> QED
  BY <1>3, <1>4, FS_Subset, FS_CardinalityType

\* A step that leaves the threads alone keeps the answers' promises.
LEMMA QuietStep ==
  ASSUME ChatInv, UNCHANGED <<thread, lost>>,
         \A p \in Question : attempt'[p] # attempt[p] => thread[p] = <<>>,
         \A p \in Question : watch[p] = "answered" => watch'[p] = "answered",
         TypeOK'
  PROVE  OwnAnswer' /\ AnswersCounted'
<1>1. \A p \in Question : Answers(p)' = Answers(p)
  BY DEF Answers
<1>2. OwnAnswer'
  <2> SUFFICES ASSUME NEW p \in Question, NEW k \in Answers(p)
               PROVE  \/ thread[p][k].row.task = TaskOf(p)'
                      \/ ~thread[p][k].row.tagged /\ thread[p][k].row.task[1] # p
    BY <1>1 DEF OwnAnswer
  <2>1. thread[p] # <<>>
    BY DEF Answers
  <2>2. TaskOf(p)' = TaskOf(p)
    BY <2>1 DEF TaskOf
  <2> QED
    BY <2>2 DEF ChatInv, OwnAnswer
<1>3. AnswersCounted'
  <2> SUFFICES ASSUME NEW p \in Question
               PROVE  Cardinality(Answers(p)) <= lost[p] + (IF watch'[p] = "answered" THEN 1 ELSE 0)
    BY <1>1 DEF AnswersCounted
  <2>1. Cardinality(Answers(p)) <= lost[p] + (IF watch[p] = "answered" THEN 1 ELSE 0)
    BY DEF ChatInv, AnswersCounted
  <2>2. lost[p] \in Nat
    BY DEF ChatInv, TypeOK
  <2>3. Cardinality(Answers(p)) \in Nat
    BY AnswersFinite DEF ChatInv
  <2> QED
    BY <2>1, <2>2, <2>3
<1> QED
  BY <1>2, <1>3
-----------------------------------------------------------------------------
\* The watchers preserve the invariant.

\* The reply published for a question is its own, or an untagged one of another.
LEMMA ReplyIsOwn ==
  ASSUME ChatInv, NEW q \in Question, watch[q] # "off", NEW row \in Reply(q)
  PROVE  row.task = TaskOf(q) \/ (~row.tagged /\ row.task[1] # q)
<1>1. PICK k \in DOMAIN rows :
        /\ row = rows[k] /\ row \in Row
        /\ room[row.task] = session[q]
        /\ row.tagged => row.task = TaskOf(q)
  BY ReplyRows DEF ChatInv
<1> SUFFICES ASSUME row.task # TaskOf(q), row.task[1] = q PROVE FALSE
  BY <1>1
<1>2. row.task \in Task /\ job[row.task] = "ended"
  BY <1>1 DEF Row, ChatInv, RowsAreReal
<1>3. row.task = <<q, 1>> \/ row.task = <<q, 2>>
  BY <1>2, Sessions DEF Attempt
<1>4. TaskOf(q) = <<q, attempt[q]>> /\ attempt[q] \in {1, 2} /\ pc[q] = "sent"
  BY DEF TaskOf, ChatInv, TypeOK, Attempt, RowsAreReal
<1>5. job[<<q, 2>>] # "none" => attempt[q] = 2
  BY DEF ChatInv, RowsAreReal
<1>6. attempt[q] = 2 => session[q] = <<q, 2>> /\ room[<<q, 1>>] # <<q, 2>>
  BY <1>4 DEF ChatInv, ResentAfresh
<1> QED
  BY ONLY <1>1, <1>2, <1>3, <1>4, <1>5, <1>6, row.task # TaskOf(q)

\* One more post is one more answer, or none.
LEMMA OneMorePost ==
  ASSUME TypeOK, NEW q \in Question, NEW post \in Post,
         thread' = [thread EXCEPT ![q] = Append(thread[q], post)]
  PROVE  /\ Answers(q)' = Answers(q) \union
              (IF post.kind = "answer" THEN {Len(thread[q]) + 1} ELSE {})
         /\ \A p \in Question : p # q => Answers(p)' = Answers(p)
         /\ Cardinality(Answers(q)) \in Nat /\ Cardinality(Answers(q)') \in Nat
         /\ Cardinality(Answers(q)') <= Cardinality(Answers(q)) + 1
         /\ post.kind # "answer" => Cardinality(Answers(q)') = Cardinality(Answers(q))
<1>1. thread[q] \in Seq(Post) /\ thread'[q] = Append(thread[q], post)
  BY DEF TypeOK
<1>2. Answers(q)' = Answers(q) \union (IF post.kind = "answer" THEN {Len(thread[q]) + 1} ELSE {})
  <2>1. DOMAIN thread'[q] = 1..(Len(thread[q]) + 1) /\ DOMAIN thread[q] = 1..Len(thread[q])
    BY <1>1
  <2>2. \A k \in DOMAIN thread[q] : thread'[q][k] = thread[q][k]
    BY <1>1
  <2>3. thread'[q][Len(thread[q]) + 1] = post
    BY <1>1
  <2>4. Len(thread[q]) \in Nat
    BY <1>1
  <2> QED
    BY <2>1, <2>2, <2>3, <2>4 DEF Answers
<1>3. \A p \in Question : p # q => Answers(p)' = Answers(p)
  BY DEF Answers, TypeOK
<1>4. IsFiniteSet(Answers(q)) /\ Cardinality(Answers(q)) \in Nat
  BY AnswersFinite
<1>5. /\ Cardinality(Answers(q) \union {Len(thread[q]) + 1}) <= Cardinality(Answers(q)) + 1
      /\ Cardinality(Answers(q) \union {Len(thread[q]) + 1}) \in Nat
  <2>1. Cardinality(Answers(q) \union {Len(thread[q]) + 1})
          = IF Len(thread[q]) + 1 \in Answers(q)
            THEN Cardinality(Answers(q)) ELSE Cardinality(Answers(q)) + 1
    BY <1>4, FS_AddElement
  <2> QED
    BY <1>4, <2>1
<1>6. CASE post.kind = "answer"
  BY <1>2, <1>3, <1>4, <1>5, <1>6
<1>7. CASE post.kind # "answer"
  <2>1. Answers(q)' = Answers(q)
    BY <1>2, <1>7
  <2> QED
    BY <1>2, <1>3, <1>4, <1>7, <2>1
<1> QED
  BY <1>6, <1>7

\* A step of a watcher preserves the invariant: what it posts is a reply of its own,
\* and it stays only if the post raised.
LEMMA WatchInv ==
  ASSUME ChatInv, NEW q \in Question, Watch(q)
  PROVE  ChatInv'
<1>1. TypeOK /\ TypeOK'
  BY WatchTyped DEF ChatInv
<1>2. UNCHANGED <<pc, attempt, session, stored, opened, room, job, rows, over, crashes>>
  BY WatchFrame, <1>1 DEF routing, service
<1>3. /\ watch[q] \in {"list", "pending"}
      /\ \E w \in WatchState \ {"off"} : watch' = [watch EXCEPT ![q] = w]
  BY WatchFrame, <1>1
<1>4. watch'[q] # "off" /\ \A p \in Question : p # q => watch'[p] = watch[p]
  BY <1>1, <1>3 DEF TypeOK
<1>5. \A p \in Question : TaskOf(p)' = TaskOf(p)
  BY <1>2 DEF TaskOf
<1>6. \A p \in Question : p # q => thread'[p] = thread[p] /\ lost'[p] = lost[p]
  <2>1. lost' = lost \/ lost' = [lost EXCEPT ![q] = lost[q] + 1]
    BY WatchFrame, <1>1
  <2>2. thread' = thread \/ \E post : thread' = [thread EXCEPT ![q] = Append(thread[q], post)]
    BY WatchSteps, <1>1
  <2> QED
    BY <1>1, <2>1, <2>2 DEF TypeOK
<1>7. SessionsAreOpened' /\ ResentAfresh'
  BY <1>2 DEF ChatInv, SessionsAreOpened, ResentAfresh
<1>8. RowsAreReal'
  <2>1. pc[q] = "sent"
    BY <1>3 DEF ChatInv, RowsAreReal
  <2>2. \A p \in Question : watch'[p] # "off" => pc[p] = "sent"
    BY <1>4, <2>1 DEF ChatInv, RowsAreReal
  <2>3. \A p \in Question : thread'[p] # <<>> => watch'[p] # "off"
    BY <1>4, <1>6 DEF ChatInv, RowsAreReal
  <2> QED
    BY <1>2, <1>5, <2>2, <2>3 DEF ChatInv, RowsAreReal
<1>9. CASE UNCHANGED <<thread, lost>> /\ watch'[q] # "answered"
  <2>1. OwnAnswer' /\ AnswersCounted'
    BY <1>1, <1>2, <1>3, <1>4, <1>9, QuietStep
  <2> QED
    BY <1>1, <1>7, <1>8, <2>1 DEF ChatInv
<1>10. ASSUME NEW post \in Post,
              thread' = [thread EXCEPT ![q] = Append(thread[q], post)],
              post.kind = "answer" =>
                /\ post.row.task = TaskOf(q) \/ (~post.row.tagged /\ post.row.task[1] # q)
                /\ \/ watch'[q] = "answered" /\ UNCHANGED lost
                   \/ watch'[q] # "answered" /\ lost' = [lost EXCEPT ![q] = lost[q] + 1],
              post.kind # "answer" => UNCHANGED lost /\ watch'[q] # "answered"
       PROVE  OwnAnswer' /\ AnswersCounted'
  <2>1. /\ Answers(q)' = Answers(q) \union
              (IF post.kind = "answer" THEN {Len(thread[q]) + 1} ELSE {})
        /\ \A p \in Question : p # q => Answers(p)' = Answers(p)
        /\ Cardinality(Answers(q)) \in Nat /\ Cardinality(Answers(q)') \in Nat
        /\ Cardinality(Answers(q)') <= Cardinality(Answers(q)) + 1
        /\ post.kind # "answer" => Cardinality(Answers(q)') = Cardinality(Answers(q))
    BY <1>1, <1>10, OneMorePost
  <2>2. thread[q] \in Seq(Post) /\ thread'[q] = Append(thread[q], post)
    BY <1>1, <1>10 DEF TypeOK
  <2>3. OwnAnswer'
    <3> SUFFICES ASSUME NEW p \in Question, NEW k \in Answers(p)'
                 PROVE  LET row == thread'[p][k].row
                        IN row.task = TaskOf(p) \/ (~row.tagged /\ row.task[1] # p)
      BY <1>5 DEF OwnAnswer
    <3>1. CASE p # q
      BY <1>6, <2>1, <3>1 DEF ChatInv, OwnAnswer
    <3>2. CASE p = q /\ k \in Answers(q)
      <4>1. thread'[q][k] = thread[q][k]
        BY <2>2, <3>2 DEF Answers
      <4> QED
        BY <3>2, <4>1 DEF ChatInv, OwnAnswer
    <3>3. CASE p = q /\ k \notin Answers(q)
      <4>1. post.kind = "answer" /\ k = Len(thread[q]) + 1
        BY <2>1, <3>3
      <4>2. thread'[q][k] = post
        BY <2>2, <4>1
      <4> QED
        BY <1>10, <3>3, <4>1, <4>2
    <3> QED
      BY <3>1, <3>2, <3>3
  <2>4. AnswersCounted'
    <3>1. ASSUME NEW p \in Question, p # q
          PROVE  Cardinality(Answers(p)') <= lost'[p] + (IF watch'[p] = "answered" THEN 1 ELSE 0)
      BY <1>4, <1>6, <2>1, <3>1 DEF ChatInv, AnswersCounted
    <3>2. Cardinality(Answers(q)') <= lost'[q] + (IF watch'[q] = "answered" THEN 1 ELSE 0)
      <4>1. lost[q] \in Nat /\ (lost' = [lost EXCEPT ![q] = lost[q] + 1] => lost'[q] = lost[q] + 1)
        BY <1>1 DEF TypeOK
      <4>2. Cardinality(Answers(q)) <= lost[q]
        BY <1>3, <2>1, <4>1 DEF ChatInv, AnswersCounted
      <4>3. CASE post.kind = "answer"
        BY <1>10, <2>1, <4>1, <4>2, <4>3
      <4>4. CASE post.kind # "answer"
        <5>1. lost'[q] = lost[q] /\ watch'[q] # "answered"
          BY <1>10, <4>4
        <5> QED
          BY <2>1, <4>1, <4>2, <4>4, <5>1
      <4> QED
        BY <4>3, <4>4
    <3> QED
      BY <3>1, <3>2 DEF AnswersCounted
  <2> QED
    BY <2>3, <2>4
<1>11. ASSUME NEW row \in Reply(q),
              thread' = [thread EXCEPT ![q] = Append(thread[q], AnswerPost(row))],
              \/ watch'[q] = "answered" /\ UNCHANGED lost
              \/ watch'[q] = "pending" /\ lost' = [lost EXCEPT ![q] = lost[q] + 1]
       PROVE  ChatInv'
  <2>1. row \in Row
    BY <1>1, ReplyRows
  <2>2. AnswerPost(row) \in Post /\ AnswerPost(row).kind = "answer" /\ AnswerPost(row).row = row
    BY <2>1 DEF Post, AnswerPost
  <2>3. row.task = TaskOf(q) \/ (~row.tagged /\ row.task[1] # q)
    BY <1>3, ReplyIsOwn
  <2>4. OwnAnswer' /\ AnswersCounted'
    BY <1>10, <1>11, <2>2, <2>3
  <2> QED
    BY <1>1, <1>7, <1>8, <2>4 DEF ChatInv
<1>12. ASSUME NEW kind \in {"missing", "timed_out"},
              thread' = [thread EXCEPT ![q] = Append(thread[q], ErrorPost(kind))],
              UNCHANGED lost, watch'[q] = kind
       PROVE  ChatInv'
  <2>1. ErrorPost(kind) \in Post /\ ErrorPost(kind).kind # "answer" /\ watch'[q] # "answered"
    BY <1>12 DEF Post, ErrorPost
  <2>2. OwnAnswer' /\ AnswersCounted'
    BY <1>10, <1>12, <2>1
  <2> QED
    BY <1>1, <1>7, <1>8, <2>2 DEF ChatInv
<1> QED
  BY <1>1, <1>9, <1>11, <1>12, WatchSteps
-----------------------------------------------------------------------------
\* The router and the environment preserve the invariant, which is therefore one.

LEMMA RouteInv ==
  ASSUME ChatInv, NEW q \in Question, Route(q)
  PROVE  ChatInv'
<1>1. TypeOK'
  BY RouteTyped DEF ChatInv
<1>2. OwnAnswer' /\ AnswersCounted'
  <2>1. /\ UNCHANGED <<thread, lost>>
        /\ \A p \in Question : attempt'[p] # attempt[p] => thread[p] = <<>>
        /\ \A p \in Question : watch[p] = "answered" => watch'[p] = "answered"
    BY RouteThreads
  <2> QED
    BY <1>1, <2>1, QuietStep
<1> QED
  BY <1>1, <1>2, RouteOpens, RouteResends, RouteRows DEF ChatInv

\* The environment neither posts nor opens a session; a row belongs to a task that ends
\* with it, and a crash takes questions and watchers out for good.
LEMMA EnvironmentInv ==
  ASSUME ChatInv, Environment
  PROVE  ChatInv'
<1>1. TypeOK /\ TypeOK'
  BY EnvironmentTyped DEF ChatInv
<1>2. /\ UNCHANGED <<attempt, session, opened, room, thread, lost>>
      /\ stored' \in {stored, NoSession}
  BY DEF Environment, Deadline, JobEnds, KeyExpires, Crash, Settled, vars, routing, service, watching
<1>3. \A p \in Question : /\ pc'[p] = pc[p] \/ (pc[p] \in InFlight /\ pc'[p] = "failed")
                          /\ watch'[p] = watch[p] \/ (Watched(p) /\ watch'[p] = "killed")
  <2>1. CASE Crash
    BY <2>1 DEF Crash, Watched
  <2>2. CASE ~Crash
    BY <2>2 DEF Environment, Deadline, JobEnds, KeyExpires, Settled, vars, routing, watching
  <2> QED
    BY <2>1, <2>2
<1>4. \A p \in Question : TaskOf(p)' = TaskOf(p)
  BY <1>2 DEF TaskOf
<1>5. \A t \in Task : job'[t] = job[t] \/ (job[t] = "open" /\ job'[t] = "ended")
  <2>1. ASSUME NEW t \in Task, JobEnds(t)
        PROVE  \A u \in Task : job'[u] = job[u] \/ (job[u] = "open" /\ job'[u] = "ended")
    BY <1>1, <2>1 DEF JobEnds, TypeOK
  <2>2. CASE UNCHANGED job
    BY <2>2
  <2> QED
    BY <2>1, <2>2 DEF Environment, Deadline, KeyExpires, Crash, Settled, vars, service
<1>6. \A k \in DOMAIN rows' : job'[rows'[k].task] = "ended"
  <2>1. \A k \in DOMAIN rows : rows[k].task \in Task /\ job[rows[k].task] = "ended"
    <3>1. \A k \in DOMAIN rows : rows[k] \in Row
      BY <1>1 DEF TypeOK
    <3> QED
      BY <3>1 DEF Row, ChatInv, RowsAreReal
  <2>2. CASE UNCHANGED rows
    BY <1>5, <2>1, <2>2
  <2>3. ASSUME NEW t \in Task, JobEnds(t),
               NEW tagged \in BOOLEAN, rows' = Append(rows, [task |-> t, tagged |-> tagged])
        PROVE  \A k \in DOMAIN rows' : job'[rows'[k].task] = "ended"
    <3>1. job'[t] = "ended"
      BY <1>1, <2>3 DEF JobEnds, TypeOK
    <3>2. rows \in Seq(Row) /\ [task |-> t, tagged |-> tagged] \in Row
      BY <1>1 DEF TypeOK, Row
    <3>3. \A k \in DOMAIN rows' :
            (k \in DOMAIN rows /\ rows'[k] = rows[k]) \/ rows'[k] = [task |-> t, tagged |-> tagged]
      BY <2>3, <3>2
    <3> QED
      BY <1>5, <2>1, <3>1, <3>3
  <2> QED
    BY <2>2, <2>3
       DEF Environment, Deadline, JobEnds, KeyExpires, Crash, Settled, vars, service
<1>7. SessionsAreOpened'
  BY <1>2 DEF ChatInv, SessionsAreOpened
<1>8. ResentAfresh'
  BY <1>2, <1>3 DEF ChatInv, ResentAfresh
<1>9. RowsAreReal'
  <2>1. \A p \in Question : TaskOf(p) \in Task /\ <<p, 2>> \in Task
    BY <1>1, Sessions DEF TypeOK, TaskOf, Attempt
  <2>2. ASSUME NEW p \in Question, pc'[p] \notin {"sent", "failed"}
        PROVE  job'[TaskOf(p)'] = "none"
    <3>1. pc[p] \notin {"sent", "failed"}
      BY <1>3, <2>2
    <3>2. job[TaskOf(p)] = "none"
      BY <3>1 DEF ChatInv, RowsAreReal
    <3>3. job'[TaskOf(p)] = "none"
      BY <1>5, <2>1, <3>2
    <3> QED
      BY <1>4, <3>3
  <2>3. \A p \in Question : job'[<<p, 2>>] # "none" => attempt'[p] = 2
    BY <1>2, <1>5, <2>1 DEF ChatInv, RowsAreReal
  <2>4. \A p \in Question : watch'[p] # "off" => pc'[p] = "sent"
    BY <1>3 DEF ChatInv, RowsAreReal, Watched, InFlight
  <2>5. \A p \in Question : thread'[p] # <<>> => watch'[p] # "off"
    BY <1>2, <1>3 DEF ChatInv, RowsAreReal
  <2> QED
    BY <1>6, <2>2, <2>3, <2>4, <2>5 DEF RowsAreReal
<1>10. OwnAnswer' /\ AnswersCounted'
  <2>1. \A p \in Question : watch[p] = "answered" => watch'[p] = "answered"
    BY <1>3 DEF Watched
  <2> QED
    BY <1>1, <1>2, <2>1, QuietStep
<1> QED
  BY <1>1, <1>7, <1>8, <1>9, <1>10 DEF ChatInv

(***************************************************************************)
(* The types, which sessions are known and used, which rows exist, whose   *)
(* reply is published and how often are right in every reachable state.    *)
(***************************************************************************)
THEOREM ChatInvariant == Spec => []ChatInv
<1>1. ChatInv /\ [Next]_vars => ChatInv'
  <2> SUFFICES ASSUME ChatInv, [Next]_vars PROVE ChatInv'
    OBVIOUS
  <2>1. CASE UNCHANGED vars
    <3>1. UNCHANGED <<pc, attempt, session, stored, opened, expiries, room, job, rows,
                      watch, over, thread, lost, crashes>>
      BY <2>1 DEF vars, routing, service, watching
    <3>2. TypeOK'
      BY <3>1 DEF ChatInv, TypeOK
    <3>3. \A p \in Question : TaskOf(p)' = TaskOf(p)
      BY <3>1 DEF TaskOf
    <3>4. SessionsAreOpened' /\ ResentAfresh' /\ RowsAreReal'
      BY <3>1, <3>3 DEF ChatInv, SessionsAreOpened, ResentAfresh, RowsAreReal
    <3> QED
      BY <3>1, <3>2, <3>4, QuietStep DEF ChatInv
  <2>2. CASE Next
    <3>1. Environment \/ \E q \in Question : Route(q) \/ Watch(q)
      BY <2>2 DEF Next, Environment
    <3> QED
      BY <3>1, RouteInv, WatchInv, EnvironmentInv
  <2> QED
    BY <2>1, <2>2
<1> QED
  BY <1>1, InitInv, PTL DEF Spec

(***************************************************************************)
(* However many questions share a session and however sends are repeated,  *)
(* the answer to a question is its own task's row, or an untagged row of   *)
(* another question: never that of its abandoned first send.               *)
(***************************************************************************)
THEOREM AnswersAreOwn == Spec => []OwnAnswer
<1>1. ChatInv => OwnAnswer
  BY DEF ChatInv
<1> QED
  BY <1>1, ChatInvariant, PTL

(***************************************************************************)
(* A question is answered at most once more than its posts were lost.      *)
(***************************************************************************)
THEOREM AnswersAreFew == Spec => []AnsweredOnce
<1>1. ChatInv => AnsweredOnce
  <2> SUFFICES ASSUME ChatInv, NEW q \in Question
               PROVE  Cardinality(Answers(q)) <= lost[q] + 1
    BY DEF AnsweredOnce
  <2>1. lost[q] \in Nat /\ Cardinality(Answers(q)) \in Nat
    BY AnswersFinite DEF ChatInv, TypeOK
  <2>2. Cardinality(Answers(q)) <= lost[q] + (IF watch[q] = "answered" THEN 1 ELSE 0)
    BY DEF ChatInv, AnswersCounted
  <2> QED
    BY <2>1, <2>2
<1> QED
  BY <1>1, ChatInvariant, PTL
-----------------------------------------------------------------------------
\* Direct chat implements ReplyThread.

\* A question of which neither the stage nor the thread changes stutters.
LEMMA SameStage ==
  ASSUME NEW q \in Question, watch'[q] = watch[q], thread'[q] = thread[q]
  PROVE  Stage(q)' = Stage(q)
BY DEF Stage, Watched

LEMMA RouteIsStep ==
  ASSUME ChatInv, NEW q \in Question, Route(q), NEW p \in Question
  PROVE  /\ thread'[p] = thread[p]
         /\ Stage(p)' = Stage(p) \/ (Stage(p) = "idle" /\ Stage(p)' = "followed")
<1>1. thread' = thread
  BY RouteThreads
<1>2. watch' = watch \/ (watch[q] = "off" /\ watch' = [watch EXCEPT ![q] = "list"])
  <2>1. CASE Lookup(q) \/ Create(q) \/ Store(q) \/ SendFails(q)
    BY <2>1 DEF Lookup, Create, Store, SendFails, watching
  <2>2. CASE Send(q)
    BY <2>2 DEF Send, ChatInv, RowsAreReal
  <2> QED
    BY <2>1, <2>2 DEF Route
<1>3. watch \in [Question -> WatchState]
  BY DEF ChatInv, TypeOK
<1> QED
  BY <1>1, <1>2, <1>3 DEF Stage, Watched

LEMMA WatchIsStep ==
  ASSUME ChatInv, NEW q \in Question, Watch(q), NEW p \in Question
  PROVE  \/ thread'[p] = thread[p] /\ Stage(p)' = Stage(p)
         \/ /\ Stage(p) = "followed" /\ Stage(p)' = "closed"
            /\ \/ thread'[p] = thread[p]
               \/ \E post \in [kind : {"missing", "timed_out"}] :
                    thread'[p] = Append(thread[p], post)
         \/ /\ Stage(p) = "followed" /\ Stage(p)' \in {"followed", "closed"}
            /\ \E post \in [kind : {"answer"}, row : Row] :
                 thread'[p] = Append(thread[p], post)
<1>1. TypeOK
  BY DEF ChatInv
<1>2. PICK w \in WatchState \ {"off"} : watch' = [watch EXCEPT ![q] = w]
  BY <1>1, WatchFrame
<1>3. Watched(q)
  BY <1>1, WatchFrame DEF Watched
<1>4. watch \in [Question -> WatchState] /\ thread \in [Question -> Seq(Post)]
  BY <1>1 DEF TypeOK
<1>5. Stage(q) = "followed" /\ Stage(q)' \in {"followed", "closed"}
  BY <1>2, <1>3, <1>4 DEF Stage, Watched
<1>6. CASE UNCHANGED thread
  BY <1>2, <1>4, <1>5, <1>6 DEF Stage, Watched
<1>7. ASSUME NEW row \in Reply(q),
             thread' = [thread EXCEPT ![q] = Append(thread[q], AnswerPost(row))]
      PROVE  p = q => \E post \in [kind : {"answer"}, row : Row] :
                        thread'[p] = Append(thread[p], post)
  <2>1. row \in Row
    BY <1>1, ReplyRows
  <2>2. AnswerPost(row) \in [kind : {"answer"}, row : Row]
    BY <2>1 DEF AnswerPost
  <2> QED
    BY <1>4, <1>7, <2>2
<1>8. ASSUME NEW kind \in {"missing", "timed_out"}, watch'[q] = kind,
             thread' = [thread EXCEPT ![q] = Append(thread[q], ErrorPost(kind))]
      PROVE  p = q => /\ Stage(q)' = "closed"
                      /\ \E post \in [kind : {"missing", "timed_out"}] :
                           thread'[p] = Append(thread[p], post)
  <2>1. ErrorPost(kind) \in [kind : {"missing", "timed_out"}]
    BY DEF ErrorPost
  <2>2. Stage(q)' = "closed"
    BY <1>8 DEF Stage, Watched
  <2> QED
    BY <1>4, <1>8, <2>1, <2>2
<1>9. CASE p = q
  BY <1>1, <1>5, <1>6, <1>7, <1>8, <1>9, WatchSteps
<1>10. CASE p # q
  <2>1. watch'[p] = watch[p]
    BY <1>2, <1>4, <1>10
  <2>2. thread'[p] = thread[p]
    <3>1. thread' = thread \/ \E post : thread' = [thread EXCEPT ![q] = Append(thread[q], post)]
      BY <1>1, WatchSteps
    <3> QED
      BY <1>4, <1>10, <3>1
  <2> QED
    BY <2>1, <2>2, SameStage
<1> QED
  BY <1>9, <1>10

LEMMA EnvironmentIsStep ==
  ASSUME ChatInv, Environment, NEW p \in Question
  PROVE  /\ thread'[p] = thread[p]
         /\ Stage(p)' = Stage(p) \/ (Stage(p) = "followed" /\ Stage(p)' = "closed")
<1>1. UNCHANGED thread
  BY DEF Environment, Deadline, JobEnds, KeyExpires, Crash, Settled, vars, watching
<1>2. watch'[p] = watch[p] \/ (Watched(p) /\ watch'[p] = "killed")
  BY DEF Environment, Deadline, JobEnds, KeyExpires, Crash, Settled, vars, watching, Watched
<1> QED
  BY <1>1, <1>2 DEF Stage, Watched

(***************************************************************************)
(* Whatever fails and whoever interleaves, the thread of a question reads  *)
(* as ReplyThread says: replies while it is followed, at most one notice   *)
(* of failure, which is the last post.                                     *)
(***************************************************************************)
THEOREM ChatIsReplyThread == Spec => ImplementsReplyThread
<1>1. Init => Chat!Init
  BY DEF Init, Chat!Init, Stage
<1>2. ChatInv /\ ChatInv' /\ Next => Chat!Step
  <2> SUFFICES ASSUME ChatInv, ChatInv', Next PROVE Chat!Step
    OBVIOUS
  <2>1. \A p \in Question : Stage(p)' \in {"idle", "followed", "closed"}
    BY DEF Stage
  <2>2. DOMAIN thread' = Question
    BY DEF ChatInv, TypeOK
  <2>3. ASSUME NEW p \in Question
        PROVE  Chat!Unchanged(p) \/ Chat!Follow(p) \/ Chat!Answer(p) \/ Chat!Close(p)
    <3> USE DEF Chat!Unchanged, Chat!Follow, Chat!Answer, Chat!Close
    <3>1. ASSUME NEW q \in Question, Route(q)
          PROVE  Chat!Unchanged(p) \/ Chat!Follow(p)
      BY <3>1, RouteIsStep
    <3>2. ASSUME NEW q \in Question, Watch(q)
          PROVE  Chat!Unchanged(p) \/ Chat!Answer(p) \/ Chat!Close(p)
      BY <3>2, WatchIsStep
    <3>3. CASE Environment
      BY <3>3, EnvironmentIsStep
    <3> QED
      BY <3>1, <3>2, <3>3 DEF Next, Environment
  <2> QED
    BY <2>1, <2>2, <2>3 DEF Chat!Step
<1>3. UNCHANGED vars => UNCHANGED <<[q \in Question |-> Stage(q)], thread>>
  BY DEF vars, watching, Stage, Watched
<1> QED
  BY <1>1, <1>2, <1>3, ChatInvariant, PTL DEF Spec, ImplementsReplyThread, Chat!Spec
=============================================================================
