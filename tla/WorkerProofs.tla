----------------------------- MODULE WorkerProofs -----------------------------
(***************************************************************************)
(* Proofs that the worker skips no message, sets off no work of its own    *)
(* and keeps the history bounded and in order, for every set of messages,  *)
(* every size of the history and every number of faults and restarts.      *)
(***************************************************************************)
EXTENDS WorkerProperties, FiniteInduction

\* A write keeps the history what was written last.
LEMMA PushKeepsRecent ==
  ASSUME TypeOK, HistoryIsRecent, NEW m \in Message, NEW o \in 0 .. MaxTopic, Push(m, o)
  PROVE  history' \in Seq(Message) /\ pushed' \in Seq(Write) /\ HistoryIsRecent'
<1> DEFINE longer == <<m>> \o history
<1> DEFINE size == IF Len(longer) <= MaxMessages THEN Len(longer) ELSE MaxMessages
<1>1. history \in Seq(Message) /\ pushed \in Seq(Write) /\ MaxMessages \in Nat \ {0}
  BY WorkerAssumption DEF TypeOK
<1>2. /\ longer \in Seq(Message) /\ Len(longer) = Len(history) + 1
      /\ longer[1] = m
      /\ \A k \in 1 .. Len(history) : longer[k + 1] = history[k]
  BY <1>1
<1>3. size \in 1 .. Len(longer)
  BY <1>1, <1>2
<1>4. history' = SubSeq(longer, 1, size)
  BY DEF Push, Trimmed, Newest
<1>5. /\ history' \in Seq(Message) /\ Len(history') = size
      /\ \A k \in 1 .. size : history'[k] = longer[k]
  <2> HIDE DEF longer, size
  <2> QED
    BY <1>2, <1>3, <1>4
<1>6. [msg |-> m, offset |-> o] \in Write
  BY DEF Write
<1>7. /\ pushed' \in Seq(Write) /\ Len(pushed') = Len(pushed) + 1
      /\ pushed'[Len(pushed) + 1].msg = m
      /\ \A k \in 1 .. Len(pushed) : pushed'[k] = pushed[k]
  BY <1>1, <1>6 DEF Push
<1>8. Len(history') = IF Len(pushed') <= MaxMessages THEN Len(pushed') ELSE MaxMessages
  BY <1>1, <1>2, <1>5, <1>7 DEF HistoryIsRecent
<1>9. \A k \in 1 .. Len(history') : history'[k] = pushed'[Len(pushed') + 1 - k].msg
  <2> SUFFICES ASSUME NEW k \in 1 .. Len(history')
               PROVE  history'[k] = pushed'[Len(pushed') + 1 - k].msg
    OBVIOUS
  <2>1. CASE k = 1
    BY <1>1, <1>2, <1>5, <1>7, <2>1
  <2>2. CASE k # 1
    <3>1. k - 1 \in 1 .. Len(history) /\ Len(pushed) + 1 - (k - 1) \in 1 .. Len(pushed)
      BY <1>1, <1>2, <1>3, <1>5, <2>2 DEF HistoryIsRecent
    <3>2. history'[k] = history[k - 1]
      BY <1>2, <1>3, <1>5, <3>1
    <3>3. history[k - 1] = pushed[Len(pushed) + 1 - (k - 1)].msg
      BY <3>1 DEF HistoryIsRecent
    <3>4. Len(pushed') + 1 - k = Len(pushed) + 1 - (k - 1)
      BY <1>1, <1>7
    <3> QED
      BY <1>7, <3>1, <3>2, <3>3, <3>4
  <2> QED
    BY <2>1, <2>2
<1> QED
  BY <1>5, <1>7, <1>8, <1>9 DEF HistoryIsRecent

\* The same for a request that may have failed.
LEMMA MayPushKeepsRecent ==
  ASSUME TypeOK, HistoryIsRecent, NEW m \in Message, NEW o \in 0 .. MaxTopic, MayPush(m, o)
  PROVE  history' \in Seq(Message) /\ pushed' \in Seq(Write) /\ HistoryIsRecent'
<1>1. CASE Push(m, o)
  BY <1>1, PushKeepsRecent
<1>2. CASE UNCHANGED list
  BY <1>2 DEF list, TypeOK, HistoryIsRecent
<1> QED
  BY <1>1, <1>2 DEF MayPush

\* The message in hand, and the run it may ask for.
LEMMA InHandTyped ==
  ASSUME WorkerInv, pc \in InHand
  PROVE  /\ current \in Offset /\ current \in 1 .. Len(topic) /\ current < next
         /\ hand \in Message
         /\ run \in Run /\ run[1] = current /\ run[2] = taken[current]
<1>1. /\ next \in Nat /\ next > 1 /\ next <= Len(topic) + 1 /\ taken[next - 1] > 0
      /\ topic \in Seq(Message) /\ Len(topic) <= MaxTopic /\ MaxTopic \in Nat
  BY WorkerAssumption DEF WorkerInv, TypeOK, OffsetsInOrder, current
<1>2. current \in Offset /\ current \in 1 .. Len(topic) /\ current < next
  BY <1>1 DEF current, Offset
<1>3. taken[current] \in Delivery
  BY <1>1, <1>2, WorkerAssumption DEF WorkerInv, TypeOK, TakenOncePerLife, Delivery, current
<1> QED
  BY <1>1, <1>2, <1>3 DEF hand, run, Run

\* The initial state satisfies the inductive invariant.
LEMMA InitInv == Init => WorkerInv
<1> SUFFICES ASSUME Init PROVE WorkerInv
  OBVIOUS
<1>1. TypeOK
  BY WorkerAssumption DEF Init, TypeOK, Place, WatchState
<1>2. OffsetsInOrder /\ TakenOncePerLife /\ NothingSkipped
  BY DEF Init, OffsetsInOrder, TakenOncePerLife, NothingSkipped, InHand, Offset
<1>3. WorkIsAskedFor
  BY DEF Init, WorkIsAskedFor
<1>4. HistoryIsRecent
  BY WorkerAssumption DEF Init, HistoryIsRecent
<1> QED
  BY <1>1, <1>2, <1>3, <1>4 DEF WorkerInv
-----------------------------------------------------------------------------
\* The steps of the handler: the message stays in hand, or its handling has ended.

LEMMA HandleMoves ==
  ASSUME WorkerInv, Handle
  PROVE  /\ pc \in InHand
         /\ (\E place \in InHand : Goto(place)) \/ Settle
         /\ UNCHANGED <<topic, committed, next, taken, crashes, interrupted>>
<1> USE DEF InHand, broker, Raise
<1>1. CASE AppendMessage
  BY <1>1 DEF AppendMessage, AfterAppend
<1>2. CASE AppendRaises
  BY <1>2 DEF AppendRaises
<1>3. CASE ReadRecent
  BY <1>3 DEF ReadRecent
<1>4. CASE Route
  BY <1>4 DEF Route
<1>5. CASE Submit
  BY <1>5 DEF Submit
<1>6. CASE Watch
  BY <1>6 DEF Watch
<1> QED
  BY <1>1, <1>2, <1>3, <1>4, <1>5, <1>6 DEF Handle

LEMMA HandleCounts ==
  ASSUME WorkerInv, Handle
  PROVE  OffsetsInOrder' /\ TakenOncePerLife' /\ NothingSkipped'
<1>1. /\ pc \in InHand
      /\ UNCHANGED <<topic, committed, next, taken, crashes, interrupted>>
  BY HandleMoves
<1>2. current' = current
  BY <1>1 DEF current
<1>3. TakenOncePerLife'
  BY <1>1 DEF WorkerInv, TakenOncePerLife
<1>4. CASE \E place \in InHand : Goto(place)
  BY <1>1, <1>2, <1>3, <1>4 DEF Goto, WorkerInv, OffsetsInOrder, NothingSkipped
<1>5. CASE Settle
  BY <1>1, <1>2, <1>3, <1>5 DEF Settle, InHand, WorkerInv, OffsetsInOrder, NothingSkipped
<1> QED
  BY <1>4, <1>5, HandleMoves

LEMMA HandleTyped ==
  ASSUME WorkerInv, Handle
  PROVE  TypeOK' /\ HistoryIsRecent'
<1>1. /\ pc \in InHand
      /\ UNCHANGED <<topic, committed, next, taken, crashes, interrupted>>
  BY HandleMoves
<1>2. current \in Offset /\ current \in 0 .. MaxTopic /\ hand \in Message /\ run \in Run
  BY <1>1, InHandTyped, WorkerAssumption DEF Offset
<1>3. pc' \in Place /\ settled' \subseteq Offset
  BY <1>1, <1>2, HandleMoves DEF Goto, Settle, InHand, Place, WorkerInv, TypeOK
<1>4. history' \in Seq(Message) /\ pushed' \in Seq(Write) /\ HistoryIsRecent'
  <2>1. CASE AppendMessage \/ AppendRaises
    BY <1>2, <2>1, PushKeepsRecent, MayPushKeepsRecent
       DEF AppendMessage, AppendRaises, WorkerInv
  <2>2. CASE UNCHANGED list
    BY <2>2 DEF list, WorkerInv, TypeOK, HistoryIsRecent
  <2> QED
    BY <2>1, <2>2 DEF Handle, ReadRecent, Route, Submit, Watch
<1>5. seen' \in Nat
  BY DEF Handle, AppendMessage, AppendRaises, ReadRecent, Route, Submit, Watch, reading,
         WorkerInv, TypeOK
<1>6. runs' \subseteq Run /\ late' \subseteq Run /\ posted' \subseteq Run
  BY <1>2 DEF Handle, AppendMessage, AppendRaises, ReadRecent, Route, Submit, Watch, work,
              egress, WorkerInv, TypeOK
<1>7. watch' \in [Run -> WatchState]
  BY <1>2 DEF Handle, AppendMessage, AppendRaises, ReadRecent, Route, Submit, Watch,
              egress, WorkerInv, TypeOK, WatchState
<1>8. faults' \in Nat
  BY DEF Handle, AppendMessage, AppendRaises, ReadRecent, Route, Submit, Watch, Fault,
         WorkerInv, TypeOK
<1>9. TypeOK'
  BY <1>1, <1>3, <1>4, <1>5, <1>6, <1>7, <1>8 DEF TypeOK, WorkerInv
<1> QED
  BY <1>4, <1>9

LEMMA HandleAsks ==
  ASSUME WorkerInv, Handle
  PROVE  WorkIsAskedFor'
<1>1. /\ pc \in InHand
      /\ UNCHANGED <<topic, committed, next, taken, crashes, interrupted>>
  BY HandleMoves
<1>2. /\ current \in 1 .. Len(topic) /\ hand \in Message
      /\ run \in Run /\ run[1] = current /\ run[2] = taken[current]
      /\ topic[current] = hand /\ taken[current] \in Nat
  BY <1>1, InHandTyped DEF hand, WorkerInv, TypeOK
<1>3. hand' = hand /\ run' = run
  BY <1>1 DEF hand, run, current
<1> USE DEF WorkerInv, WorkIsAskedFor, Goto, Settle, Raise, work, egress
<1>4. CASE AppendMessage \/ AppendRaises
  <2>1. UNCHANGED <<runs, late, watch, posted>> /\ pc' \in {"read", "poll"}
    BY <1>4 DEF AppendMessage, AppendRaises, AfterAppend
  <2>2. pc' = "read" => hand \in Human
    BY <1>2, <1>4 DEF AppendMessage, AppendRaises, AfterAppend, Message
  <2> QED
    BY <1>1, <1>3, <2>1, <2>2
<1>5. CASE ReadRecent \/ Route
  <2>1. UNCHANGED <<runs, late, watch, posted>> /\ pc' \in {"route", "submit", "poll"}
    BY <1>5 DEF ReadRecent, Route
  <2>2. hand \in Human
    BY <1>5 DEF ReadRecent, Route
  <2> QED
    BY <1>1, <1>3, <2>1, <2>2
<1>6. CASE Submit
  <2>1. /\ UNCHANGED <<watch, posted>> /\ pc' \in {"watch", "poll"}
        /\ runs \subseteq runs' /\ runs' \union late' \subseteq runs \union late \union {run}
        /\ pc' = "watch" => run \in runs'
    BY <1>6 DEF Submit
  <2>2. hand \in Human
    BY <1>6 DEF Submit
  <2>3. \A r \in runs' \union late' :
          r[1] <= Len(topic) /\ topic[r[1]] \in Human /\ r[2] <= taken[r[1]]
    <3> SUFFICES ASSUME NEW r \in runs \union late \union {run}
                 PROVE  r[1] <= Len(topic) /\ topic[r[1]] \in Human /\ r[2] <= taken[r[1]]
      BY <2>1
    <3>1. CASE r = run
      BY <1>2, <2>2, <3>1 DEF TypeOK
    <3>2. CASE r \in runs \union late
      BY <3>2
    <3> QED
      BY <3>1, <3>2
  <2> QED
    BY <1>1, <1>3, <2>1, <2>2, <2>3
<1>7. CASE Watch
  <2>1. /\ UNCHANGED <<runs, late, posted>> /\ pc' = "poll" /\ run \in runs
        /\ watch' \in {watch, [watch EXCEPT ![run] = "watching"]}
    BY <1>7 DEF Watch
  <2>2. \A r \in Run : watch'[r] # "off" => r \in runs
    BY <1>2, <2>1 DEF TypeOK
  <2> QED
    BY <1>1, <2>1, <2>2
<1> QED
  BY <1>4, <1>5, <1>6, <1>7 DEF Handle
-----------------------------------------------------------------------------
\* The consumer's loop.

LEMMA PollInv ==
  ASSUME WorkerInv, Poll PROVE WorkerInv'
<1>1. /\ pc = "poll" /\ pc' = "append" /\ next <= Len(topic) /\ next' = next + 1
      /\ taken' = [taken EXCEPT ![next] = @ + 1]
      /\ UNCHANGED <<topic, committed, settled, seen, history, pushed, runs, late, watch,
                     posted, crashes, faults, interrupted>>
  BY DEF Poll, Goto, broker, reading, list, work, egress
<1>2. /\ next \in Offset /\ next \in Nat /\ Len(topic) \in Nat /\ committed \in Nat
      /\ taken \in [Offset -> Nat] /\ crashes \in Nat /\ committed <= next
      /\ \A o \in Offset : o \in Nat
  BY <1>1, WorkerAssumption DEF WorkerInv, TypeOK, OffsetsInOrder, Offset
<1>3. /\ taken' \in [Offset -> Nat] /\ taken'[next] = taken[next] + 1
      /\ \A o \in Offset : o # next => taken'[o] = taken[o]
      /\ \A o \in Offset : taken[o] <= taken'[o]
  BY <1>1, <1>2
<1>4. TypeOK'
  BY <1>1, <1>2, <1>3 DEF WorkerInv, TypeOK, Place
<1>5. current' = next
  BY <1>1, <1>2 DEF current
<1>6. OffsetsInOrder'
  BY <1>1, <1>2, <1>3, <1>5 DEF OffsetsInOrder
<1>7. TakenOncePerLife'
  BY <1>1, <1>2, <1>3 DEF WorkerInv, TakenOncePerLife
<1>8. NothingSkipped'
  <2> SUFFICES ASSUME NEW o \in Offset, o < next + 1
               PROVE  o \in settled \union interrupted \/ o = next
    BY <1>1, <1>5 DEF NothingSkipped, InHand
  <2> QED
    BY <1>1, <1>2 DEF WorkerInv, NothingSkipped, InHand
<1>9. WorkIsAskedFor'
  <2>1. \A r \in runs \union late : r[1] \in Offset /\ r[2] \in Nat
    BY DEF WorkerInv, TypeOK, Run, Delivery
  <2>2. \A r \in runs \union late : r[2] <= taken'[r[1]]
    <3> SUFFICES ASSUME NEW r \in runs \union late PROVE r[2] <= taken'[r[1]]
      OBVIOUS
    <3>1. /\ r[1] \in Offset /\ r[2] \in Nat
          /\ taken[r[1]] \in Nat /\ taken'[r[1]] \in Nat /\ taken[r[1]] <= taken'[r[1]]
      BY <1>2, <1>3, <2>1
    <3>2. r[2] <= taken[r[1]]
      BY DEF WorkerInv, WorkIsAskedFor
    <3> QED
      BY <3>1, <3>2
  <2> QED
    BY <1>1, <2>2 DEF WorkerInv, WorkIsAskedFor
<1>10. HistoryIsRecent'
  BY <1>1 DEF WorkerInv, HistoryIsRecent
<1> QED
  BY <1>4, <1>6, <1>7, <1>8, <1>9, <1>10 DEF WorkerInv

LEMMA CommitInv ==
  ASSUME WorkerInv, Commit \/ LoopEnds PROVE WorkerInv'
<1>1. /\ committed' \in {committed, next}
      /\ UNCHANGED <<topic, next, taken, settled, seen, history, pushed, runs, late, watch,
                     posted, crashes, faults, interrupted>>
      /\ pc' = pc \/ (pc = "poll" /\ pc' = "dead")
  BY DEF Commit, LoopEnds, Consumed, Goto, consumer, reading, list, work, egress
<1>2. current' = current /\ hand' = hand /\ run' = run
  BY <1>1 DEF current, hand, run
<1>3. TypeOK'
  BY <1>1 DEF WorkerInv, TypeOK, Place
<1>4. OffsetsInOrder' /\ TakenOncePerLife' /\ NothingSkipped'
  BY <1>1, <1>2 DEF WorkerInv, TypeOK, OffsetsInOrder, TakenOncePerLife, NothingSkipped, InHand
<1>5. WorkIsAskedFor' /\ HistoryIsRecent'
  BY <1>1, <1>2 DEF WorkerInv, WorkIsAskedFor, HistoryIsRecent
<1> QED
  BY <1>3, <1>4, <1>5 DEF WorkerInv

LEMMA RestartInv ==
  ASSUME WorkerInv, Restart PROVE WorkerInv'
<1>1. /\ next' = committed /\ pc' = "poll" /\ late' = {} /\ seen' = 0
      /\ crashes < MaxCrashes /\ crashes' = crashes + 1
      /\ interrupted' = IF pc \in InHand THEN interrupted \union {current} ELSE interrupted
      /\ watch' = [r \in Run |-> IF watch[r] \in Watching THEN "killed" ELSE watch[r]]
      /\ UNCHANGED <<topic, committed, taken, settled, history, pushed, runs, posted, faults>>
  BY DEF Restart, Goto, broker, list
<1>2. /\ committed \in Nat \ {0} /\ next \in Nat /\ committed <= next /\ crashes \in Nat
      /\ Len(topic) \in Nat /\ next <= Len(topic) + 1 /\ MaxCrashes \in Nat
      /\ taken \in [Offset -> Nat] /\ \A o \in Offset : o \in Nat
  BY WorkerAssumption DEF WorkerInv, TypeOK, OffsetsInOrder, Offset
<1>3. pc \in InHand => current \in Offset
  BY InHandTyped
<1>4. /\ pc' \in Place /\ watch' \in [Run -> WatchState] /\ crashes' \in 0 .. MaxCrashes
      /\ interrupted' \subseteq Offset /\ late' \subseteq Run /\ seen' \in Nat
  BY <1>1, <1>2, <1>3 DEF WorkerInv, TypeOK, Place, WatchState
<1>5. TypeOK'
  BY <1>1, <1>2, <1>4 DEF WorkerInv, TypeOK
<1>6. OffsetsInOrder'
  BY <1>1, <1>2 DEF OffsetsInOrder, InHand
<1>7. TakenOncePerLife'
  BY <1>1, <1>2 DEF WorkerInv, TakenOncePerLife
<1>8. NothingSkipped'
  BY <1>1, <1>2 DEF WorkerInv, NothingSkipped, InHand
<1>9. WorkIsAskedFor'
  <2>1. \A r \in Run : watch'[r] # "off" => r \in runs
    BY <1>1 DEF WorkerInv, WorkIsAskedFor, Watching
  <2>2. \A r \in runs \union late' :
          r[1] <= Len(topic) /\ topic[r[1]] \in Human /\ r[2] <= taken[r[1]]
    BY <1>1 DEF WorkerInv, WorkIsAskedFor
  <2> QED
    BY <1>1, <2>1, <2>2 DEF WorkerInv, WorkIsAskedFor
<1>10. HistoryIsRecent'
  BY <1>1 DEF WorkerInv, HistoryIsRecent
<1> QED
  BY <1>5, <1>6, <1>7, <1>8, <1>9, <1>10 DEF WorkerInv
-----------------------------------------------------------------------------
\* The gateway, late submissions and the watchers leave the consumer alone.

LEMMA IngestInv ==
  ASSUME WorkerInv, NEW m \in Message, Ingest(m) PROVE WorkerInv'
<1>1. /\ topic' = Append(topic, m) /\ Len(topic) < MaxTopic
      /\ UNCHANGED <<committed, next, taken, pc, settled, seen, history, pushed, runs, late,
                     watch, posted, crashes, faults, interrupted>>
  BY DEF Ingest, consumer, reading, list, work, egress
<1>2. /\ topic' \in Seq(Message) /\ Len(topic') = Len(topic) + 1 /\ Len(topic) \in Nat
      /\ \A o \in 1 .. Len(topic) : topic'[o] = topic[o]
  BY <1>1 DEF WorkerInv, TypeOK
<1>3. TypeOK'
  BY <1>1, <1>2, WorkerAssumption DEF WorkerInv, TypeOK
<1>4. current' = current /\ run' = run
  BY <1>1 DEF current, run
<1>5. OffsetsInOrder' /\ TakenOncePerLife' /\ NothingSkipped'
  BY <1>1, <1>2, <1>4 DEF WorkerInv, TypeOK, OffsetsInOrder, TakenOncePerLife, NothingSkipped
<1>6. pc \in InHand => hand' = hand
  BY <1>1, <1>2, <1>4, InHandTyped DEF hand
<1>7. \A r \in runs \union late : r[1] \in 1 .. Len(topic)
  BY DEF WorkerInv, WorkIsAskedFor, TypeOK, Run, Offset
<1>8. \A r \in runs \union late : r[1] <= Len(topic') /\ topic'[r[1]] \in Human
  BY <1>2, <1>7 DEF WorkerInv, WorkIsAskedFor
<1>9. WorkIsAskedFor'
  BY <1>1, <1>4, <1>6, <1>8 DEF WorkerInv, WorkIsAskedFor, InHand
<1>10. HistoryIsRecent'
  BY <1>1 DEF WorkerInv, HistoryIsRecent
<1> QED
  BY <1>3, <1>5, <1>9, <1>10 DEF WorkerInv

LEMMA StartLateInv ==
  ASSUME WorkerInv, NEW r \in Run, StartLate(r) PROVE WorkerInv'
<1>1. /\ runs \subseteq runs' /\ runs' \union late' \subseteq runs \union late
      /\ UNCHANGED <<topic, committed, next, taken, pc, settled, seen, history, pushed, watch,
                     posted, crashes, faults, interrupted>>
  BY DEF StartLate, broker, consumer, reading, list, egress
<1>2. current' = current /\ hand' = hand /\ run' = run
  BY <1>1 DEF current, hand, run
<1>3. TypeOK'
  BY <1>1 DEF WorkerInv, TypeOK
<1>4. OffsetsInOrder' /\ TakenOncePerLife' /\ NothingSkipped' /\ HistoryIsRecent'
  BY <1>1, <1>2
     DEF WorkerInv, OffsetsInOrder, TakenOncePerLife, NothingSkipped, HistoryIsRecent
<1>5. WorkIsAskedFor'
  BY <1>1, <1>2 DEF WorkerInv, WorkIsAskedFor
<1> QED
  BY <1>3, <1>4, <1>5 DEF WorkerInv

LEMMA PublishInv ==
  ASSUME WorkerInv, NEW r \in Run, Publish(r) PROVE WorkerInv'
<1>1. /\ UNCHANGED <<topic, committed, next, taken, pc, settled, seen, runs, late, crashes,
                     interrupted>>
      /\ watch[r] # "off" /\ posted' \subseteq posted \union {r}
      /\ \E how \in WatchState : watch' = [watch EXCEPT ![r] = how]
      /\ faults' \in {faults, faults + 1}
  BY DEF Publish, Report, Record, Retry, RetryOnce, Fault, broker, consumer, reading, work,
         WatchState
<1>2. r \in Message /\ 0 \in 0 .. MaxTopic
  BY WorkerAssumption DEF Message
<1>3. history' \in Seq(Message) /\ pushed' \in Seq(Write) /\ HistoryIsRecent'
  <2>1. CASE MayPush(r, 0)
    BY <1>2, <2>1, MayPushKeepsRecent DEF WorkerInv
  <2>2. CASE UNCHANGED list
    BY <2>2 DEF list, WorkerInv, TypeOK, HistoryIsRecent
  <2> QED
    BY <2>1, <2>2 DEF Publish, Report, Record, Retry, MayPush
<1>4. watch' \in [Run -> WatchState] /\ \A s \in Run : s # r => watch'[s] = watch[s]
  BY <1>1 DEF WorkerInv, TypeOK
<1>5. TypeOK'
  BY <1>1, <1>3, <1>4 DEF WorkerInv, TypeOK
<1>6. current' = current /\ hand' = hand /\ run' = run
  BY <1>1 DEF current, hand, run
<1>7. OffsetsInOrder' /\ TakenOncePerLife' /\ NothingSkipped'
  BY <1>1, <1>6 DEF WorkerInv, OffsetsInOrder, TakenOncePerLife, NothingSkipped
<1>8. WorkIsAskedFor'
  BY <1>1, <1>4, <1>6 DEF WorkerInv, WorkIsAskedFor
<1> QED
  BY <1>3, <1>5, <1>7, <1>8 DEF WorkerInv

\* Nothing happens: getone() timed out, or the step is somebody else's.
LEMMA StutterInv ==
  ASSUME WorkerInv, UNCHANGED vars PROVE WorkerInv'
<1> USE DEF vars, broker, consumer, reading, list, work, egress
<1>1. current' = current /\ hand' = hand /\ run' = run
  BY DEF current, hand, run
<1>2. TypeOK'
  BY DEF WorkerInv, TypeOK
<1>3. OffsetsInOrder' /\ TakenOncePerLife' /\ NothingSkipped'
  BY <1>1 DEF WorkerInv, OffsetsInOrder, TakenOncePerLife, NothingSkipped
<1>4. WorkIsAskedFor' /\ HistoryIsRecent'
  BY <1>1 DEF WorkerInv, WorkIsAskedFor, HistoryIsRecent
<1> QED
  BY <1>2, <1>3, <1>4 DEF WorkerInv

\* Every step keeps the inductive invariant.
LEMMA NextInv == WorkerInv /\ [Next]_vars => WorkerInv'
<1> SUFFICES ASSUME WorkerInv, [Next]_vars PROVE WorkerInv'
  OBVIOUS
<1>1. CASE Handle
  BY <1>1, HandleTyped, HandleCounts, HandleAsks DEF WorkerInv
<1>2. CASE \E m \in Message : Ingest(m)
  BY <1>2, IngestInv
<1>3. CASE Poll
  BY <1>3, PollInv
<1>4. CASE Commit \/ LoopEnds
  BY <1>4, CommitInv
<1>5. CASE Restart
  BY <1>5, RestartInv
<1>6. CASE \E r \in Run : StartLate(r) \/ Publish(r)
  BY <1>6, StartLateInv, PublishInv
<1>7. CASE Idle \/ UNCHANGED vars
  BY <1>7, StutterInv DEF Idle
<1> QED
  BY <1>1, <1>2, <1>3, <1>4, <1>5, <1>6, <1>7 DEF Next

(***************************************************************************)
(* Through any interleaving of gateway, consumer, commit timer, handler,   *)
(* watchers and restarts: offsets stay in order, every message taken from  *)
(* the topic is accounted for, work is done for users' messages only and   *)
(* the history is what was written last (KafkaConsumerLoop.run, handle,    *)
(* RedisHistoryStore).                                                     *)
(***************************************************************************)
THEOREM WorkerInvariant == Spec => []WorkerInv
<1>1. Init => WorkerInv
  BY InitInv
<1>2. WorkerInv /\ [Next]_vars => WorkerInv'
  BY NextInv
<1> QED
  BY <1>1, <1>2, PTL DEF Spec

(***************************************************************************)
(* Replies never set off further work, and a message asks for at most one  *)
(* run for each of its deliveries: another one only if it was published    *)
(* again or, at most once for each restart, handed out again               *)
(* (MessageHandler.handle).                                                *)
(***************************************************************************)
THEOREM WorkIsBounded == Spec => []RunsAreAskedFor
<1>1. WorkerInv => RunsAreAskedFor
  <2> SUFFICES ASSUME WorkerInv PROVE RunsAreAskedFor
    OBVIOUS
  <2>1. \A o \in Offset : taken[o] \in Nat /\ crashes \in Nat
    BY DEF WorkerInv, TypeOK
  <2>2. \A o \in Offset : taken[o] <= crashes + 1
    BY <2>1 DEF WorkerInv, TakenOncePerLife
  \* Two runs of one offset are named after two deliveries, one of which is not the first.
  <2>3. ASSUME NEW r \in runs \union late, NEW s \in runs \union late, r # s, r[1] = s[1]
        PROVE  crashes > 0
    <3>1. r \in Run /\ s \in Run
      BY DEF WorkerInv, TypeOK
    <3>2. /\ r = <<r[1], r[2]>> /\ s = <<s[1], s[2]>> /\ r[1] \in Offset
          /\ r[2] \in Delivery /\ s[2] \in Delivery
      BY <3>1 DEF Run
    <3>3. r[2] # s[2]
      BY <2>3, <3>2
    <3>4. r[2] <= taken[r[1]] /\ s[2] <= taken[r[1]] /\ taken[r[1]] <= crashes + 1
      BY <2>2, <2>3, <3>2 DEF WorkerInv, WorkIsAskedFor
    <3> QED
      BY <2>1, <3>2, <3>3, <3>4, WorkerAssumption DEF Delivery
  <2> QED
    BY <2>2, <2>3 DEF WorkerInv, WorkIsAskedFor, RunsAreAskedFor
<1> QED
  BY <1>1, WorkerInvariant, PTL

\* Each restart interrupts at most the one message in hand.
LEMMA OneLossPerRestart ==
  ASSUME WorkerInv, [Next]_vars,
         IsFiniteSet(interrupted), Cardinality(interrupted) <= crashes
  PROVE  IsFiniteSet(interrupted') /\ Cardinality(interrupted') <= crashes'
<1>1. crashes \in Nat /\ Cardinality(interrupted) \in Nat
  BY FS_CardinalityType DEF WorkerInv, TypeOK
<1>2. CASE Restart
  <2>1. /\ crashes' = crashes + 1
        /\ interrupted' \in {interrupted, interrupted \union {current}}
    BY <1>2 DEF Restart
  <2>2. /\ IsFiniteSet(interrupted \union {current})
        /\ Cardinality(interrupted \union {current}) \in
             {Cardinality(interrupted), Cardinality(interrupted) + 1}
    BY FS_AddElement
  <2> QED
    BY <1>1, <2>1, <2>2
<1>3. CASE UNCHANGED <<crashes, interrupted>>
  BY <1>3
<1>4. Restart \/ UNCHANGED <<crashes, interrupted>>
  <2>1. Handle => UNCHANGED <<crashes, interrupted>>
    BY HandleMoves
  <2> QED
    BY <2>1 DEF Next, Ingest, Poll, Idle, Commit, LoopEnds, StartLate, Publish, Report, Record,
                Retry, vars
<1> QED
  BY <1>2, <1>3, <1>4

(***************************************************************************)
(* A message is lost only by a restart that finds it in hand, one message  *)
(* for each restart (KafkaConsumerLoop.run).                               *)
(***************************************************************************)
THEOREM LossIsBounded == Spec => []LossNeedsCrash
<1> DEFINE Counted == IsFiniteSet(interrupted) /\ Cardinality(interrupted) <= crashes
<1>1. Init => Counted
  BY FS_EmptySet DEF Init
<1>2. WorkerInv /\ Counted /\ [Next]_vars => Counted'
  BY OneLossPerRestart
<1>3. WorkerInv /\ Counted => LossNeedsCrash
  BY DEF WorkerInv, LossNeedsCrash
<1> QED
  BY <1>1, <1>2, <1>3, WorkerInvariant, PTL DEF Spec
-----------------------------------------------------------------------------
\* The entries of the history are counted.

LEMMA CountAppend ==
  ASSUME NEW s \in Seq(Write), NEW w \in Write, NEW m \in Message, NEW o \in 0 .. MaxTopic
  PROVE  /\ Count(s, m, o) \in Nat
         /\ Count(Append(s, w), m, o) =
              IF w = [msg |-> m, offset |-> o] THEN Count(s, m, o) + 1 ELSE Count(s, m, o)
<1> DEFINE At(t) == {k \in DOMAIN t : t[k] = [msg |-> m, offset |-> o]}
<1>1. IsFiniteSet(At(s))
  <2>1. Len(s) \in Nat /\ At(s) \subseteq 1 .. Len(s)
    OBVIOUS
  <2>2. IsFiniteSet(1 .. Len(s))
    BY <2>1, FS_Interval
  <2> QED
    BY <2>1, <2>2, FS_Subset
<1>2. Count(s, m, o) = Cardinality(At(s)) /\ Count(Append(s, w), m, o) = Cardinality(At(Append(s, w)))
  BY DEF Count
<1>3. Cardinality(At(s)) \in Nat
  BY <1>1, FS_CardinalityType
<1>4. Len(s) + 1 \notin At(s)
  OBVIOUS
<1>5. At(Append(s, w)) =
        IF w = [msg |-> m, offset |-> o] THEN At(s) \union {Len(s) + 1} ELSE At(s)
  OBVIOUS
<1>6. Cardinality(At(s) \union {Len(s) + 1}) = Cardinality(At(s)) + 1
  BY <1>1, <1>4, FS_AddElement
<1> QED
  BY <1>2, <1>3, <1>5, <1>6

LEMMA CountType ==
  ASSUME NEW s \in Seq(Write), NEW m \in Message, NEW o \in 0 .. MaxTopic
  PROVE  Count(s, m, o) \in Nat
<1>1. [msg |-> m, offset |-> o] \in Write
  BY DEF Write
<1> QED
  BY <1>1, CountAppend

\* What is not there is not counted.
LEMMA CountNone ==
  ASSUME NEW s, NEW m, NEW o, \A k \in DOMAIN s : s[k].offset # o
  PROVE  Count(s, m, o) = 0
<1>1. {k \in DOMAIN s : s[k] = [msg |-> m, offset |-> o]} = {}
  OBVIOUS
<1> QED
  BY <1>1, FS_EmptySet DEF Count

LEMMA InitEntries == Init => EntriesInv
<1> SUFFICES ASSUME Init PROVE EntriesInv
  OBVIOUS
<1>1. DOMAIN pushed = {} /\ Len(topic) = 0 /\ pc = "poll" /\ watch = [r \in Run |-> "off"]
  BY DEF Init
<1>2. \A r \in Run : Count(pushed, r, 0) = 0
  BY <1>1, CountNone
<1> QED
  BY <1>1, <1>2 DEF EntriesInv, Allowed, InHand

\* A delivery writes its message at most once.
LEMMA AppendEntries ==
  ASSUME WorkerInv, EntriesInv, AppendMessage \/ AppendRaises PROVE EntriesInv'
<1>1. /\ pc = "append" /\ pc' \in {"read", "poll"}
      /\ UNCHANGED <<topic, next, taken, watch, posted>>
      /\ MayPush(hand, current)
  BY DEF AppendMessage, AppendRaises, AfterAppend, Goto, Settle, Raise, MayPush, broker, egress
<1>2. /\ current \in Offset /\ current \in 1 .. Len(topic) /\ hand \in Message
      /\ hand = topic[current] /\ run \in Run
  BY <1>1, InHandTyped DEF InHand, hand
<1>3. MaxTopic \in Nat /\ pushed \in Seq(Write) /\ current # 0
  BY <1>2, WorkerAssumption DEF Offset, WorkerInv, TypeOK
<1>4. [msg |-> hand, offset |-> current] \in Write
  BY <1>2, <1>3 DEF Write, Offset
<1>5. PICK w \in Write : w = [msg |-> hand, offset |-> current]
  BY <1>4
<1>6. w \in Write /\ pushed \in Seq(Write) /\ current # 0 /\ w.msg = hand /\ w.offset = current
  BY <1>3, <1>5
<1>7. pushed' = Append(pushed, w) \/ pushed' = pushed
  BY <1>1, <1>5 DEF MayPush, Push, list
<1>8. \A m, o : \/ Count(pushed', m, o) = Count(Append(pushed, w), m, o)
               \/ Count(pushed', m, o) = Count(pushed, m, o)
  BY ONLY <1>7, Zenon
<1>9. \A o \in 1 .. Len(topic) :
        topic[o] \in Message /\ o \in 0 .. MaxTopic /\ o \in Offset /\ taken[o] \in Nat
  <2>1. topic \in Seq(Message) /\ Len(topic) <= MaxTopic /\ taken \in [Offset -> Nat]
    BY DEF WorkerInv, TypeOK
  <2> QED
    BY <1>3, <2>1 DEF Offset
<1>10. current' = current /\ run' = run
  BY <1>1 DEF current, run
<1>11. \A k \in DOMAIN pushed' :
        LET o == pushed'[k].offset
        IN IF o = 0 THEN pushed'[k].msg \in posted
           ELSE o <= Len(topic) /\ topic[o] = pushed'[k].msg
  <2> SUFFICES ASSUME NEW k \in DOMAIN pushed'
               PROVE  IF pushed'[k].offset = 0 THEN pushed'[k].msg \in posted
                      ELSE /\ pushed'[k].offset <= Len(topic)
                           /\ topic[pushed'[k].offset] = pushed'[k].msg
    OBVIOUS
  <2>1. CASE k \in DOMAIN pushed
    <3>1. pushed'[k] = pushed[k]
      BY <1>6, <1>7, <2>1
    <3> QED
      BY <2>1, <3>1 DEF EntriesInv
  <2>2. CASE k \notin DOMAIN pushed
    <3>1. pushed'[k] = w
      BY <1>6, <1>7, <2>2
    <3> QED
      BY <1>2, <1>6, <3>1
  <2> QED
    BY <2>1, <2>2
<1>12. \A o \in 1 .. Len(topic) : Count(pushed', topic[o], o) <= taken[o]
  <2> SUFFICES ASSUME NEW o \in 1 .. Len(topic)
               PROVE  Count(pushed', topic[o], o) <= taken[o]
    OBVIOUS
  <2>1. topic[o] \in Message /\ o \in 0 .. MaxTopic /\ o \in Offset /\ taken[o] \in Nat
    BY <1>9
  <2>2. Count(pushed, topic[o], o) + (IF o = current THEN 1 ELSE 0) <= taken[o]
    BY <1>1 DEF EntriesInv, Unwritten
  <2>3. /\ Count(pushed, topic[o], o) \in Nat
        /\ Count(Append(pushed, w), topic[o], o) =
             IF w = [msg |-> topic[o], offset |-> o]
             THEN Count(pushed, topic[o], o) + 1 ELSE Count(pushed, topic[o], o)
    BY <1>6, <2>1, CountAppend
  <2>4. w = [msg |-> topic[o], offset |-> o] => o = current
    BY <1>5
  <2> QED
    BY <1>8, <2>1, <2>2, <2>3, <2>4
<1>13. \A r \in Run : Count(pushed', r, 0) = Count(pushed, r, 0)
  <2> SUFFICES ASSUME NEW r \in Run PROVE Count(pushed', r, 0) = Count(pushed, r, 0)
    OBVIOUS
  <2>1. r \in Message /\ 0 \in 0 .. MaxTopic /\ w # [msg |-> r, offset |-> 0]
    BY <1>6, <1>3 DEF Message
  <2>2. Count(Append(pushed, w), r, 0) = Count(pushed, r, 0)
    BY <1>6, <2>1, CountAppend
  <2> QED
    BY <1>7, <2>2
<1>14. \A o \in 1 .. Len(topic) : Unwritten(o)' = 0 /\ taken[o] \in Nat
  BY <1>1, <1>9 DEF Unwritten
<1>15. \A o \in 1 .. Len(topic) : Count(pushed', topic[o], o) + Unwritten(o)' <= taken[o]
  <2> SUFFICES ASSUME NEW o \in 1 .. Len(topic)
               PROVE  Count(pushed', topic[o], o) + 0 <= taken[o]
    BY <1>14
  <2>1. topic[o] \in Message /\ o \in 0 .. MaxTopic
    BY <1>9
  <2>2. Count(pushed', topic[o], o) \in Nat
    <3>1. /\ Count(pushed, topic[o], o) \in Nat
          /\ Count(Append(pushed, w), topic[o], o) \in
               {Count(pushed, topic[o], o) + 1, Count(pushed, topic[o], o)}
      BY <1>6, <2>1, CountAppend
    <3> QED
      BY <1>8, <3>1
  <2> QED
    BY <1>12, <1>14, <2>2
<1>16. (pc \in InHand => watch[run] = "off")'
  BY <1>1, <1>10 DEF EntriesInv, InHand
<1> QED
  BY <1>1, <1>11, <1>13, <1>15, <1>16 DEF EntriesInv

\* A delivery is counted before its message is written.
LEMMA PollEntries ==
  ASSUME WorkerInv, EntriesInv, Poll PROVE EntriesInv'
<1>1. /\ pc = "poll" /\ pc' = "append" /\ next <= Len(topic) /\ next' = next + 1
      /\ taken' = [taken EXCEPT ![next] = @ + 1]
      /\ UNCHANGED <<topic, pushed, watch, posted>>
  BY DEF Poll, Goto, broker, list, egress
<1>2. /\ next \in Offset /\ next \in Nat /\ Len(topic) \in Nat
      /\ taken \in [Offset -> Nat] /\ pushed \in Seq(Write)
      /\ \A o \in 1 .. Len(topic) : topic[o] \in Message /\ o \in 0 .. MaxTopic /\ o \in Offset
  BY <1>1, WorkerAssumption DEF WorkerInv, TypeOK, Offset
<1>3. /\ taken'[next] = taken[next] + 1 /\ current' = next
      /\ \A o \in Offset : o # next => taken'[o] = taken[o]
      /\ \A o \in Offset : taken[o] \in Nat
  BY <1>1, <1>2 DEF current
<1>4. \A o \in 1 .. Len(topic) : Count(pushed, topic[o], o) \in Nat
  BY <1>2, CountType
<1>5. \A o \in 1 .. Len(topic) : Count(pushed, topic[o], o) <= taken[o]
  BY <1>1, <1>3, <1>4 DEF EntriesInv, Unwritten
<1>6. \A o \in 1 .. Len(topic) : Count(pushed, topic[o], o) + Unwritten(o)' <= taken'[o]
  <2> SUFFICES ASSUME NEW o \in 1 .. Len(topic)
               PROVE  Count(pushed, topic[o], o) + (IF o = next THEN 1 ELSE 0) <= taken'[o]
    BY <1>1, <1>3 DEF Unwritten
  <2> QED
    BY <1>2, <1>3, <1>4, <1>5
<1>7. (pc \in InHand => watch[run] = "off")'
  <2> SUFFICES ASSUME watch'[run'] # "off" PROVE FALSE
    OBVIOUS
  <2>1. run' = <<next, taken[next] + 1>>
    BY <1>3 DEF run
  <2>2. run' \in Run
    BY <1>2, <1>3, <2>1, WorkerAssumption
       DEF WorkerInv, TypeOK, TakenOncePerLife, Run, Delivery
  <2>3. run' \in runs
    BY <1>1, <2>2 DEF WorkerInv, WorkIsAskedFor
  <2>4. taken[next] + 1 <= taken[next]
    BY <2>1, <2>3 DEF WorkerInv, WorkIsAskedFor
  <2> QED
    BY <1>2, <1>3, <2>4
<1> QED
  BY <1>1, <1>6, <1>7 DEF EntriesInv

\* The watcher of run r writes only after it has posted, and at most twice.
LEMMA PublishEntries ==
  ASSUME WorkerInv, EntriesInv, NEW r \in Run, Record(r) \/ Retry(r) PROVE EntriesInv'
<1>1. /\ watch[r] \in {"append", "retry"} /\ MayPush(r, 0)
      /\ watch' = [watch EXCEPT ![r] = IF watch[r] = "append" THEN watch'[r] ELSE "ended"]
      /\ watch'[r] \in {"retry", "ended"}
      /\ UNCHANGED <<topic, next, taken, pc, posted>>
  BY DEF Record, Retry, RetryOnce, MayPush, broker, consumer, WorkerInv, TypeOK
<1>2. /\ pushed \in Seq(Write) /\ r \in Message /\ 0 \in 0 .. MaxTopic
      /\ \A o \in 1 .. Len(topic) : topic[o] \in Message /\ o \in 0 .. MaxTopic
  BY WorkerAssumption DEF WorkerInv, TypeOK, Message
<1>3. [msg |-> r, offset |-> 0] \in Write
  BY <1>2 DEF Write
<1>4. PICK w \in Write : w = [msg |-> r, offset |-> 0]
  BY <1>3
<1>5. pushed' = Append(pushed, w) \/ pushed' = pushed
  BY <1>1, <1>4 DEF MayPush, Push, list
<1>6. \A m, o : \/ Count(pushed', m, o) = Count(Append(pushed, w), m, o)
               \/ Count(pushed', m, o) = Count(pushed, m, o)
  BY ONLY <1>5, Zenon
<1>7. r \in posted
  BY <1>1 DEF EntriesInv
<1>8. \A k \in DOMAIN pushed' :
        LET o == pushed'[k].offset
        IN IF o = 0 THEN pushed'[k].msg \in posted
           ELSE o <= Len(topic) /\ topic[o] = pushed'[k].msg
  <2> SUFFICES ASSUME NEW k \in DOMAIN pushed'
               PROVE  IF pushed'[k].offset = 0 THEN pushed'[k].msg \in posted
                      ELSE /\ pushed'[k].offset <= Len(topic)
                           /\ topic[pushed'[k].offset] = pushed'[k].msg
    OBVIOUS
  <2>1. CASE k \in DOMAIN pushed
    <3>1. pushed'[k] = pushed[k]
      BY <1>2, <1>5, <2>1
    <3> QED
      BY <2>1, <3>1 DEF EntriesInv
  <2>2. CASE k \notin DOMAIN pushed
    <3>1. pushed'[k] = w
      BY <1>2, <1>5, <2>2
    <3> QED
      BY <1>4, <1>7, <3>1
  <2> QED
    BY <2>1, <2>2
<1>9. \A o \in 1 .. Len(topic) : Count(pushed', topic[o], o) = Count(pushed, topic[o], o)
  <2> SUFFICES ASSUME NEW o \in 1 .. Len(topic)
               PROVE  Count(pushed', topic[o], o) = Count(pushed, topic[o], o)
    OBVIOUS
  <2>1. w # [msg |-> topic[o], offset |-> o]
    BY <1>4
  <2>2. Count(Append(pushed, w), topic[o], o) = Count(pushed, topic[o], o)
    BY <1>2, <2>1, CountAppend
  <2> QED
    BY <1>6, <2>2
<1>10. \A s \in Run : Count(pushed', s, 0) <= Allowed(watch'[s])
  <2> SUFFICES ASSUME NEW s \in Run PROVE Count(pushed', s, 0) <= Allowed(watch'[s])
    OBVIOUS
  <2>1. /\ s \in Message /\ Count(pushed, s, 0) <= Allowed(watch[s])
        /\ watch \in [Run -> WatchState]
    BY DEF Message, EntriesInv, WorkerInv, TypeOK
  <2>2. /\ Count(pushed, s, 0) \in Nat
        /\ Count(Append(pushed, w), s, 0) =
             IF w = [msg |-> s, offset |-> 0] THEN Count(pushed, s, 0) + 1 ELSE Count(pushed, s, 0)
    BY <1>2, <2>1, CountAppend
  <2>3. CASE s = r
    <3>1. Count(pushed', s, 0) <= Count(pushed, s, 0) + 1 /\ Count(pushed', s, 0) \in Nat
      BY <1>6, <2>2
    <3>2. CASE watch[r] = "append"
      <4>1. Allowed(watch[s]) = 0 /\ Allowed(watch'[s]) \in {1, 2}
        BY <1>1, <2>3, <3>2 DEF Allowed
      <4> QED
        BY <2>1, <2>2, <3>1, <4>1
    <3>3. CASE watch[r] = "retry"
      <4>1. watch'[s] = "ended"
        BY <1>1, <2>1, <2>3, <3>3
      <4>2. Allowed(watch[s]) = 1 /\ Allowed(watch'[s]) = 2
        BY <2>3, <3>3, <4>1 DEF Allowed
      <4> QED
        BY <2>1, <2>2, <3>1, <4>2
    <3> QED
      BY <1>1, <3>2, <3>3
  <2>4. CASE s # r
    <3>1. watch'[s] = watch[s] /\ w # [msg |-> s, offset |-> 0]
      BY <1>1, <1>4, <2>1, <2>4
    <3>2. Count(pushed', s, 0) = Count(pushed, s, 0)
      BY <1>6, <2>2, <3>1
    <3> QED
      BY <2>1, <3>1, <3>2
  <2> QED
    BY <2>3, <2>4
<1>11. \A o : Unwritten(o)' = Unwritten(o)
  BY <1>1 DEF Unwritten, current
<1>12. \A s \in Run : watch'[s] \in {"append", "retry"} => s \in posted
  BY <1>1, <1>7 DEF EntriesInv, WorkerInv, TypeOK
<1>13. (pc \in InHand => watch[run] = "off")'
  <2>1. run' = run /\ (pc \in InHand => run \in Run)
    BY <1>1, InHandTyped DEF run, current
  <2> QED
    BY <1>1, <2>1 DEF EntriesInv, WorkerInv, TypeOK
<1> QED
  BY <1>1, <1>8, <1>9, <1>10, <1>11, <1>12, <1>13 DEF EntriesInv

LEMMA EntriesTyped ==
  ASSUME WorkerInv
  PROVE  /\ pushed \in Seq(Write) /\ watch \in [Run -> WatchState] /\ posted \subseteq Run
         /\ 0 \in 0 .. MaxTopic
         /\ \A o \in 1 .. Len(topic) :
              topic[o] \in Message /\ o \in 0 .. MaxTopic /\ taken[o] \in Nat
         /\ \A s \in Run : s \in Message
<1>1. /\ MaxTopic \in Nat /\ topic \in Seq(Message) /\ Len(topic) <= MaxTopic
      /\ taken \in [Offset -> Nat]
  BY WorkerAssumption DEF WorkerInv, TypeOK
<1>2. pushed \in Seq(Write) /\ watch \in [Run -> WatchState] /\ posted \subseteq Run
  BY DEF WorkerInv, TypeOK
<1>3. \A o \in 1 .. Len(topic) :
        topic[o] \in Message /\ o \in 0 .. MaxTopic /\ taken[o] \in Nat
  BY <1>1 DEF Offset
<1>4. 0 \in 0 .. MaxTopic /\ \A s \in Run : s \in Message
  BY <1>1 DEF Message
<1> QED
  BY <1>2, <1>3, <1>4

\* Steps that write nothing: what a watcher may have written never shrinks, and the run
\* in hand stays unwatched.
LEMMA QuietEntries ==
  ASSUME WorkerInv, EntriesInv,
         UNCHANGED <<topic, taken, pushed>>, posted \subseteq posted',
         pc' = "append" => (pc = "append" /\ current' = current),
         \A s \in Run : \/ watch'[s] = watch[s]
                         \/ (watch'[s] = "watching" /\ watch[s] = "off")
                         \/ (watch'[s] = "append" /\ watch[s] = "watching" /\ s \in posted')
                         \/ watch'[s] \in {"ended", "killed"},
         pc' \in InHand => watch'[run'] = "off"
  PROVE  EntriesInv'
<1>1. /\ pushed \in Seq(Write) /\ watch \in [Run -> WatchState] /\ 0 \in 0 .. MaxTopic
      /\ \A o \in 1 .. Len(topic) :
           topic[o] \in Message /\ o \in 0 .. MaxTopic /\ taken[o] \in Nat
      /\ \A s \in Run : s \in Message
  BY EntriesTyped
<1>2. \A o \in 1 .. Len(topic) : Count(pushed, topic[o], o) \in Nat
  BY <1>1, CountType
<1>3. \A s \in Run : Count(pushed, s, 0) \in Nat
  BY <1>1, CountType
<1>4. \A o : Unwritten(o)' \in {0, Unwritten(o)} /\ Unwritten(o) \in {0, 1}
  BY DEF Unwritten
<1>5. \A o \in 1 .. Len(topic) : Count(pushed, topic[o], o) + Unwritten(o)' <= taken[o]
  BY <1>1, <1>2, <1>4 DEF EntriesInv
<1>6. \A s \in Run : Count(pushed, s, 0) <= Allowed(watch'[s])
  <2> SUFFICES ASSUME NEW s \in Run PROVE Count(pushed, s, 0) <= Allowed(watch'[s])
    OBVIOUS
  <2>1. Count(pushed, s, 0) <= Allowed(watch[s]) /\ watch[s] \in WatchState
    BY <1>1 DEF EntriesInv
  <2>2. Allowed(watch[s]) \in {0, 1, 2}
    BY <2>1 DEF WatchState, Allowed
  <2>3. \/ Allowed(watch'[s]) = Allowed(watch[s])
        \/ Allowed(watch'[s]) = 2
    BY DEF Allowed
  <2> QED
    BY <1>3, <2>1, <2>2, <2>3
<1>7. \A s \in Run : watch'[s] \in {"append", "retry"} => s \in posted'
  BY DEF EntriesInv
<1>8. \A k \in DOMAIN pushed :
        LET o == pushed[k].offset
        IN IF o = 0 THEN pushed[k].msg \in posted'
           ELSE o <= Len(topic) /\ topic[o] = pushed[k].msg
  BY DEF EntriesInv
<1> QED
  BY <1>5, <1>6, <1>7, <1>8 DEF EntriesInv

LEMMA QuietHandleEntries ==
  ASSUME WorkerInv, EntriesInv, ReadRecent \/ Route \/ Submit \/ Watch PROVE EntriesInv'
<1>1. /\ pc \in InHand /\ UNCHANGED <<topic, next, taken, pushed, posted>>
      /\ pc' \in {"route", "submit", "watch", "poll"}
  BY DEF ReadRecent, Route, Submit, Watch, Goto, Settle, Raise, InHand, broker, list, egress
<1>2. run \in Run /\ watch[run] = "off" /\ run' = run /\ watch \in [Run -> WatchState]
  BY <1>1, InHandTyped DEF EntriesInv, run, current, WorkerInv, TypeOK
<1>3. \/ UNCHANGED watch
      \/ watch' = [watch EXCEPT ![run] = "watching"] /\ pc' = "poll"
  BY DEF ReadRecent, Route, Submit, Watch, Settle, egress
<1>4. \A s \in Run : watch'[s] = watch[s] \/ (watch'[s] = "watching" /\ watch[s] = "off")
  BY <1>2, <1>3
<1>5. pc' \in InHand => watch'[run'] = "off"
  BY <1>2, <1>3 DEF InHand
<1> QED
  BY <1>1, <1>4, <1>5, QuietEntries

LEMMA RestartEntries ==
  ASSUME WorkerInv, EntriesInv, Restart \/ LoopEnds PROVE EntriesInv'
<1>1. /\ pc' \in {"poll", "dead"}
      /\ UNCHANGED <<topic, taken, pushed, posted>>
      /\ \A s \in Run : watch'[s] \in {watch[s], "killed"}
  BY DEF Restart, LoopEnds, Goto, broker, list, egress
<1> QED
  BY <1>1, QuietEntries DEF InHand

LEMMA AsideEntries ==
  ASSUME WorkerInv, EntriesInv,
         Commit \/ UNCHANGED vars \/ \E r \in Run : StartLate(r) \/ Report(r)
  PROVE  EntriesInv'
<1>1. /\ UNCHANGED <<topic, next, taken, pushed, pc>> /\ posted \subseteq posted'
      /\ current' = current /\ run' = run
  BY DEF Commit, StartLate, Report, vars, broker, consumer, list, egress, current, run
<1>2. pc \in InHand => (run \in Run /\ watch[run] = "off")
  BY InHandTyped DEF EntriesInv
<1>3. \A s \in Run : \/ watch'[s] = watch[s]
                      \/ (watch'[s] = "append" /\ watch[s] = "watching" /\ s \in posted')
                      \/ (watch'[s] = "ended" /\ watch[s] = "watching")
  BY DEF Commit, StartLate, Report, vars, egress, WorkerInv, TypeOK
<1>4. pc' \in InHand => watch'[run'] = "off"
  BY <1>1, <1>2, <1>3
<1> QED
  BY <1>1, <1>3, <1>4, QuietEntries

\* A message that has just been published is written nowhere.
LEMMA IngestEntries ==
  ASSUME WorkerInv, EntriesInv, NEW m \in Message, Ingest(m) PROVE EntriesInv'
<1>1. /\ topic' = Append(topic, m) /\ Len(topic) < MaxTopic
      /\ UNCHANGED <<next, taken, pc, pushed, watch, posted>>
  BY DEF Ingest, consumer, list, egress
<1>2. /\ Len(topic') = Len(topic) + 1 /\ Len(topic) \in Nat
      /\ \A o \in 1 .. Len(topic) : topic'[o] = topic[o]
      /\ pushed \in Seq(Write) /\ next <= Len(topic) + 1 /\ next \in Nat
  BY <1>1 DEF WorkerInv, TypeOK, OffsetsInOrder
<1>3. current' = current /\ run' = run /\ \A o : Unwritten(o)' = Unwritten(o)
  BY <1>1 DEF current, run, Unwritten
<1>4. \A k \in DOMAIN pushed :
        /\ pushed[k].offset \in Nat /\ pushed[k].offset <= Len(topic)
        /\ IF pushed[k].offset = 0 THEN pushed[k].msg \in posted
           ELSE topic[pushed[k].offset] = pushed[k].msg
  <2> SUFFICES ASSUME NEW k \in DOMAIN pushed
               PROVE  /\ pushed[k].offset \in Nat /\ pushed[k].offset <= Len(topic)
                      /\ IF pushed[k].offset = 0 THEN pushed[k].msg \in posted
                         ELSE topic[pushed[k].offset] = pushed[k].msg
    OBVIOUS
  <2>1. pushed[k] \in Write
    BY <1>2
  <2>2. pushed[k].offset \in Nat
    BY <2>1, WorkerAssumption DEF Write
  <2> QED
    BY <1>2, <2>2 DEF EntriesInv
<1>5. \A k \in DOMAIN pushed :
        LET o == pushed[k].offset
        IN IF o = 0 THEN pushed[k].msg \in posted
           ELSE o <= Len(topic') /\ topic'[o] = pushed[k].msg
  BY <1>2, <1>4
<1>6. \A o \in 1 .. Len(topic) : Count(pushed, topic'[o], o) + Unwritten(o) <= taken[o]
  BY <1>2 DEF EntriesInv
<1>7. Count(pushed, topic'[Len(topic) + 1], Len(topic) + 1) = 0
  BY <1>2, <1>4, CountNone
<1>8. Unwritten(Len(topic) + 1) = 0
  BY <1>2 DEF Unwritten, current
<1>9. taken[Len(topic) + 1] \in Nat
  BY <1>1, <1>2, WorkerAssumption DEF WorkerInv, TypeOK, Offset
<1>10. \A o \in 1 .. Len(topic') : Count(pushed, topic'[o], o) + Unwritten(o) <= taken[o]
  <2> SUFFICES ASSUME NEW o \in 1 .. Len(topic) + 1
               PROVE  Count(pushed, topic'[o], o) + Unwritten(o) <= taken[o]
    BY <1>2
  <2>1. CASE o = Len(topic) + 1
    BY <1>7, <1>8, <1>9, <2>1
  <2>2. CASE o # Len(topic) + 1
    BY <1>2, <1>6, <2>2
  <2> QED
    BY <2>1, <2>2
<1> QED
  BY <1>1, <1>3, <1>5, <1>10 DEF EntriesInv

LEMMA NextEntries == WorkerInv /\ EntriesInv /\ [Next]_vars => EntriesInv'
<1> SUFFICES ASSUME WorkerInv, EntriesInv, [Next]_vars PROVE EntriesInv'
  OBVIOUS
<1>1. CASE Handle
  BY <1>1, AppendEntries, QuietHandleEntries DEF Handle
<1>2. CASE \E m \in Message : Ingest(m)
  BY <1>2, IngestEntries
<1>3. CASE Poll
  BY <1>3, PollEntries
<1>4. CASE LoopEnds \/ Restart
  BY <1>4, RestartEntries
<1>5. CASE Commit \/ Idle \/ UNCHANGED vars
  BY <1>5, AsideEntries DEF Idle
<1>6. CASE \E r \in Run : StartLate(r) \/ Publish(r)
  BY <1>6, AsideEntries, PublishEntries DEF Publish
<1> QED
  BY <1>1, <1>2, <1>3, <1>4, <1>5, <1>6 DEF Next

(***************************************************************************)
(* The history never holds an entry that nothing accounts for: each is one *)
(* write of one delivery of its message, or one of at most two writes of a *)
(* reply that was posted (_append_bot_reply_to_history).                   *)
(***************************************************************************)
THEOREM HistoryIsOwed == Spec => []EntriesAreOwed
<1>1. WorkerInv /\ EntriesInv => EntriesAreOwed
  <2> SUFFICES ASSUME WorkerInv, EntriesInv PROVE EntriesAreOwed
    OBVIOUS
  <2>1. /\ pushed \in Seq(Write) /\ 0 \in 0 .. MaxTopic
        /\ \A o \in 1 .. Len(topic) :
             topic[o] \in Message /\ o \in 0 .. MaxTopic /\ taken[o] \in Nat
        /\ \A r \in posted : r \in Run /\ r \in Message /\ watch[r] \in WatchState
    BY EntriesTyped
  <2>2. \A o \in 1 .. Len(topic) : Count(pushed, topic[o], o) <= taken[o]
    <3>1. \A o \in 1 .. Len(topic) :
            Count(pushed, topic[o], o) \in Nat /\ Unwritten(o) \in {0, 1}
      BY <2>1, CountType DEF Unwritten
    <3> QED
      BY <2>1, <3>1 DEF EntriesInv
  <2>3. \A r \in posted : Count(pushed, r, 0) <= 2
    <3>1. \A r \in posted : Count(pushed, r, 0) \in Nat /\ Allowed(watch[r]) \in {0, 1, 2}
      BY <2>1, CountType DEF Allowed, WatchState
    <3> QED
      BY <2>1, <3>1 DEF EntriesInv
  <2>4. \A k \in DOMAIN pushed :
          IF pushed[k].offset = 0
          THEN pushed[k].msg \in posted
          ELSE topic[pushed[k].offset] = pushed[k].msg
    BY DEF EntriesInv
  <2> QED
    BY <2>2, <2>3, <2>4 DEF EntriesAreOwed
<1> QED
  BY <1>1, InitEntries, NextEntries, WorkerInvariant, PTL DEF Spec
-----------------------------------------------------------------------------
\* What the models are shown.

LEMMA RecentFacts ==
  ASSUME WorkerInv
  PROVE  /\ Recent \in Seq(Message)
         /\ Len(Recent) = IF Len(pushed) <= PlannerWindow THEN Len(pushed) ELSE PlannerWindow
         /\ \A k \in 1 .. Len(Recent) :
              /\ Len(pushed) + 1 - k \in 1 .. Len(pushed)
              /\ Recent[k] = pushed[Len(pushed) + 1 - k].msg
<1> DEFINE size == IF Len(history) <= PlannerWindow THEN Len(history) ELSE PlannerWindow
<1>1. /\ history \in Seq(Message) /\ pushed \in Seq(Write)
      /\ PlannerWindow \in Nat /\ MaxMessages \in Nat /\ PlannerWindow <= MaxMessages
      /\ Len(history) = IF Len(pushed) <= MaxMessages THEN Len(pushed) ELSE MaxMessages
      /\ \A k \in 1 .. Len(history) : history[k] = pushed[Len(pushed) + 1 - k].msg
  BY WorkerAssumption DEF WorkerInv, TypeOK, HistoryIsRecent
<1>2. size \in 0 .. Len(history) /\ Len(history) \in Nat /\ Len(pushed) \in Nat
  BY <1>1
<1>3. Recent = SubSeq(history, 1, size)
  BY DEF Recent, Newest
<1> HIDE DEF size
<1>4. /\ Recent \in Seq(Message) /\ Len(Recent) = size
      /\ \A k \in 1 .. size : Recent[k] = history[k]
  BY <1>1, <1>2, <1>3
<1>5. size = IF Len(pushed) <= PlannerWindow THEN Len(pushed) ELSE PlannerWindow
  BY <1>1, <1>2 DEF size
<1>6. \A k \in 1 .. size : k \in 1 .. Len(history) /\ Len(pushed) + 1 - k \in 1 .. Len(pushed)
  BY <1>1, <1>2, <1>5
<1>. QED
  BY <1>1, <1>4, <1>5, <1>6

\* OldestFirst lists the entries it keeps, each once, from the last to the first.
LEMMA OldestFirstFacts ==
  ASSUME NEW M, NEW entries \in Seq(M), NEW kept \in SUBSET (1 .. Len(entries))
  PROVE  \E from \in [1 .. Cardinality(kept) -> kept] :
           /\ Cardinality(kept) \in Nat
           /\ OldestFirst(entries, kept) \in [1 .. Cardinality(kept) -> M]
           /\ \A n \in 1 .. Cardinality(kept) : OldestFirst(entries, kept)[n] = entries[from[n]]
           /\ \A j, k \in 1 .. Cardinality(kept) : j < k => from[k] < from[j]
           /\ \A k \in kept : \E n \in 1 .. Cardinality(kept) : from[n] = k
<1> DEFINE N == Cardinality(kept)
           number(k) == Cardinality({j \in kept : k <= j})
           from == [n \in 1 .. N |-> CHOOSE k \in kept : number(k) = n]
<1>1. kept \in SUBSET Int /\ IsFiniteSet(kept)
  <2>1. IsFiniteSet(1 .. Len(entries))
    <3>1. 1 \in Int /\ Len(entries) \in Int
      OBVIOUS
    <3>. QED
      BY ONLY <3>1, FS_Interval
  <2>2. IsFiniteSet(kept)
    BY <2>1, FS_Subset
  <2>3. kept \in SUBSET Int
    OBVIOUS
  <2>. QED
    BY <2>2, <2>3
<1>2. /\ N \in Nat
      /\ \A k \in kept : number(k) \in 1 .. N
      /\ \A k, l \in kept : k < l => number(l) < number(k)
      /\ \A n \in 1 .. N : \E k \in kept : number(k) = n
  BY <1>1, NumberedDown
<1>3. OldestFirst(entries, kept) = [n \in 1 .. N |-> entries[from[n]]]
  BY DEF OldestFirst
<1> HIDE DEF number
<1>4. \A n \in 1 .. N : from[n] \in kept /\ number(from[n]) = n
  BY <1>2
<1>5. from \in [1 .. N -> kept]
  BY <1>4
<1> HIDE DEF from, N
<1>6. ASSUME NEW k \in kept, NEW l \in kept, number(k) < number(l)
      PROVE  l < k
  <2>1. k \in Int /\ l \in Int /\ number(k) \in Int /\ number(l) \in Int
    BY <1>1, <1>2
  <2>2. ~(k < l) /\ k # l
    BY <1>2, <1>6, <2>1
  <2>. QED
    BY ONLY <2>1, <2>2
<1>7. \A j, k \in 1 .. N : j < k => from[k] < from[j]
  BY <1>4, <1>6
<1>8. ASSUME NEW k \in kept
      PROVE  \E n \in 1 .. N : from[n] = k
  <2>1. number(k) \in 1 .. N
    BY <1>2
  <2>2. from[number(k)] \in kept /\ number(from[number(k)]) = number(k)
    BY <1>4, <2>1
  <2>3. from[number(k)] = k
    <3>. DEFINE l == from[number(k)]
    <3>1. l \in Int /\ k \in Int /\ l \in kept /\ number(l) = number(k)
      BY <1>1, <2>2
    <3>. HIDE DEF l
    <3>2. number(k) \in Int
      BY <1>2, <2>1
    <3>3. ~(number(k) < number(l)) /\ ~(number(l) < number(k))
      BY ONLY <3>1, <3>2
    <3>4. ~(l < k) /\ ~(k < l)
      BY <1>2, <3>1, <3>3
    <3>5. l = k
      BY ONLY <3>1, <3>4
    <3>. QED
      BY <3>5 DEF l
  <2>. QED
    BY <2>1, <2>3
<1>9. /\ OldestFirst(entries, kept) \in [1 .. N -> M]
      /\ \A n \in 1 .. N : OldestFirst(entries, kept)[n] = entries[from[n]]
  <2>1. \A k \in 1 .. Len(entries) : entries[k] \in M
    OBVIOUS
  <2>2. \A k \in kept : entries[k] \in M
    BY <2>1
  <2>3. \A n \in 1 .. N : entries[from[n]] \in M
    BY <1>5, <2>2
  <2>. QED
    BY <1>3, <2>3
<1>. QED
  BY <1>2, <1>5, <1>7, <1>8, <1>9 DEF N

\* The prompt of a read is the window of the last writes, without the message in hand.
LEMMA ReadKeepsContext ==
  ASSUME WorkerInv, pc = "read", prompt' = HistoryForPrompt(hand), seen' = Len(pushed),
         UNCHANGED <<topic, next, pushed>>
  PROVE  ContextInv'
<1> DEFINE kept == {k \in 1 .. Len(Recent) : Recent[k] # hand}
           N == Cardinality(kept)
           s == Len(pushed)
<1>1. /\ Recent \in Seq(Message) /\ Len(Recent) \in Nat /\ s \in Nat
      /\ Len(Recent) = IF s <= PlannerWindow THEN s ELSE PlannerWindow
      /\ \A k \in 1 .. Len(Recent) : s + 1 - k \in 1 .. s /\ Recent[k] = pushed[s + 1 - k].msg
  BY RecentFacts DEF WorkerInv, TypeOK
<1>2. kept \in SUBSET (1 .. Len(Recent)) /\ HistoryForPrompt(hand) = OldestFirst(Recent, kept)
  BY DEF HistoryForPrompt
<1>3. \A k \in kept : k \in 1 .. Len(Recent) /\ Recent[k] # hand
  OBVIOUS
<1>4. \A k \in 1 .. Len(Recent) : Recent[k] # hand => k \in kept
  OBVIOUS
<1> HIDE DEF kept
<1> HIDE DEF s
<1>5. PICK from \in [1 .. N -> kept] :
        /\ N \in Nat
        /\ OldestFirst(Recent, kept) \in [1 .. N -> Message]
        /\ \A n \in 1 .. N : OldestFirst(Recent, kept)[n] = Recent[from[n]]
        /\ \A j, k \in 1 .. N : j < k => from[k] < from[j]
        /\ \A k \in kept : \E n \in 1 .. N : from[n] = k
  <2>1. Recent \in Seq(Message) /\ kept \in SUBSET (1 .. Len(Recent))
    BY <1>1, <1>2
  <2>. QED
    BY ONLY <2>1, OldestFirstFacts
<1> USE DEF s
<1> HIDE DEF N
<1>6. prompt' \in [1 .. N -> Message] /\ \A n \in 1 .. N : prompt'[n] = Recent[from[n]]
  BY <1>2, <1>5
<1>7. \A n \in 1 .. N : from[n] \in 1 .. Len(Recent) /\ Recent[from[n]] # hand
  BY <1>5, <1>3
<1>8. prompt' \in Seq(Message) /\ Len(prompt') = N
  BY <1>5, <1>6
<1>9. hand' = hand
  BY DEF hand, current
<1>10. OldestSeen' = s + 1 - Len(Recent)
  BY <1>1, WorkerAssumption DEF OldestSeen
<1> DEFINE place == [n \in 1 .. N |-> s + 1 - from[n]]
<1>11. \A n \in 1 .. N : /\ place[n] = s + 1 - from[n]
                         /\ place[n] \in s + 1 - Len(Recent) .. s
                         /\ Recent[from[n]] = pushed[place[n]].msg
  <2>. SUFFICES ASSUME NEW n \in 1 .. N
                PROVE  /\ s + 1 - from[n] \in s + 1 - Len(Recent) .. s
                       /\ Recent[from[n]] = pushed[s + 1 - from[n]].msg
    OBVIOUS
  <2>1. from[n] \in 1 .. Len(Recent)
    BY <1>7
  <2>2. s + 1 - from[n] \in s + 1 - Len(Recent) .. s
    BY ONLY <1>1, <2>1
  <2>. QED
    BY <1>1, <2>1, <2>2
<1>12. place \in [1 .. N -> s + 1 - Len(Recent) .. s]
  BY <1>11
<1> HIDE DEF place
<1>13. \A j, k \in 1 .. N : j < k => place[j] < place[k]
  <2>. SUFFICES ASSUME NEW j \in 1 .. N, NEW k \in 1 .. N, j < k
                PROVE  place[j] < place[k]
    OBVIOUS
  <2>1. from[j] \in Int /\ from[k] \in Int /\ from[k] < from[j]
    BY <1>5, <1>7
  <2>2. place[j] = s + 1 - from[j] /\ place[k] = s + 1 - from[k]
    BY <1>11
  <2>. QED
    BY ONLY <1>1, <2>1, <2>2
<1>14. {place[k] : k \in 1 .. N}
         = {w \in s + 1 - Len(Recent) .. s : pushed[w].msg # hand}
  <2>1. \A k \in 1 .. N : /\ place[k] \in s + 1 - Len(Recent) .. s
                          /\ pushed[place[k]].msg # hand
    BY <1>7, <1>11
  <2>2. ASSUME NEW w \in s + 1 - Len(Recent) .. s, pushed[w].msg # hand
        PROVE  \E k \in 1 .. N : place[k] = w
    <3>1. s + 1 - w \in 1 .. Len(Recent) /\ s + 1 - (s + 1 - w) = w
      BY <1>1
    <3>2. s + 1 - w \in kept
      BY <1>1, <1>4, <2>2, <3>1
    <3>3. PICK n \in 1 .. N : from[n] = s + 1 - w
      BY <1>5, <3>2
    <3>. QED
      BY <1>11, <3>1, <3>3
  <2>. QED
    BY <2>1, <2>2
<1>15. \A k \in 1 .. N : prompt'[k] = pushed[place[k]].msg
  BY <1>6, <1>11
<1>16. PromptIsContext'
  BY <1>8, <1>9, <1>10, <1>12, <1>13, <1>14, <1>15 DEF PromptIsContext
<1>. QED
  BY <1>1, <1>16 DEF ContextInv

\* Later writes do not disturb a prompt that was read.
LEMMA ContextKept ==
  ASSUME WorkerInv, ContextInv, UNCHANGED <<prompt, seen>>, pc' = "route" => pc = "route",
         pc = "route" => hand' = hand,
         Len(pushed') \in Nat, Len(pushed) <= Len(pushed'),
         \A w \in 1 .. Len(pushed) : pushed'[w] = pushed[w]
  PROVE  ContextInv'
<1>1. seen \in Nat /\ Len(pushed) \in Nat /\ seen <= Len(pushed)
  BY DEF ContextInv, WorkerInv, TypeOK
<1>2. OldestSeen' = OldestSeen /\ OldestSeen \in Nat \ {0}
  BY <1>1, WorkerAssumption DEF OldestSeen
<1>3. \A w \in OldestSeen .. seen : pushed'[w] = pushed[w]
  BY <1>1, <1>2
<1>4. PromptIsContext'
  <2>. SUFFICES ASSUME pc = "route"
                PROVE  \E place \in [1 .. Len(prompt) -> OldestSeen .. seen] :
                         /\ \A j, k \in 1 .. Len(prompt) : j < k => place[j] < place[k]
                         /\ {place[k] : k \in 1 .. Len(prompt)}
                              = {w \in OldestSeen .. seen : pushed'[w].msg # hand}
                         /\ \A k \in 1 .. Len(prompt) : prompt[k] = pushed'[place[k]].msg
    BY <1>2 DEF PromptIsContext, ContextInv
  <2>1. PICK place \in [1 .. Len(prompt) -> OldestSeen .. seen] :
          /\ \A j, k \in 1 .. Len(prompt) : j < k => place[j] < place[k]
          /\ {place[k] : k \in 1 .. Len(prompt)} = {w \in OldestSeen .. seen : pushed[w].msg # hand}
          /\ \A k \in 1 .. Len(prompt) : prompt[k] = pushed[place[k]].msg
    BY DEF ContextInv, PromptIsContext
  <2>2. {w \in OldestSeen .. seen : pushed'[w].msg # hand}
          = {w \in OldestSeen .. seen : pushed[w].msg # hand}
    BY <1>3
  <2>3. \A k \in 1 .. Len(prompt) : prompt[k] = pushed'[place[k]].msg
    BY <1>3, <2>1
  <2>. QED
    BY <2>1, <2>2, <2>3
<1>. QED
  BY <1>1, <1>4 DEF ContextInv

\* The history is only ever written to.
LEMMA WritesStay ==
  ASSUME WorkerInv, [Next]_vars
  PROVE  /\ Len(pushed) \in Nat /\ Len(pushed') \in Nat /\ Len(pushed) <= Len(pushed')
         /\ \A w \in 1 .. Len(pushed) : pushed'[w] = pushed[w]
<1>0. pushed \in Seq(Write) /\ Len(pushed) \in Nat
  BY DEF WorkerInv, TypeOK
<1>1. ASSUME NEW m \in Message, NEW o \in 0 .. MaxTopic, Push(m, o)
      PROVE  /\ Len(pushed') \in Nat /\ Len(pushed) <= Len(pushed')
             /\ \A w \in 1 .. Len(pushed) : pushed'[w] = pushed[w]
  <2>1. [msg |-> m, offset |-> o] \in Write
    BY DEF Write
  <2>. QED
    BY <1>0, <1>1, <2>1 DEF Push
<1>2. CASE pushed' = pushed
  BY <1>0, <1>2
<1>3. CASE AppendMessage \/ AppendRaises
  <2>1. hand \in Message /\ current \in 0 .. MaxTopic
    BY <1>3, InHandTyped, WorkerAssumption DEF AppendMessage, AppendRaises, InHand, Offset
  <2>. QED
    BY <1>1, <1>2, <1>3, <2>1 DEF AppendMessage, AppendRaises, MayPush, list
<1>4. ASSUME NEW r \in Run, Publish(r)
      PROVE  (\E m \in Message, o \in 0 .. MaxTopic : Push(m, o)) \/ pushed' = pushed
  <2>1. r \in Message /\ 0 \in 0 .. MaxTopic
    BY WorkerAssumption DEF Message
  <2>. QED
    BY <1>4, <2>1 DEF Publish, Report, Record, Retry, MayPush, list
<1>5. CASE ReadRecent \/ Route \/ Submit \/ Watch
  BY <1>2, <1>5 DEF ReadRecent, Route, Submit, Watch, list
<1>6. CASE \/ \E m \in Message : Ingest(m)
           \/ Poll \/ Idle \/ Commit \/ LoopEnds \/ Restart \/ UNCHANGED vars
           \/ \E r \in Run : StartLate(r)
  BY <1>2, <1>6 DEF Ingest, Poll, Idle, Commit, LoopEnds, Restart, StartLate, vars, list
<1>. QED
  BY <1>0, <1>1, <1>2, <1>3, <1>4, <1>5, <1>6 DEF Next, Handle

LEMMA ContextInductive == WorkerInv /\ ContextInv /\ [Next]_vars => ContextInv'
<1>. SUFFICES ASSUME WorkerInv, ContextInv, [Next]_vars
              PROVE  ContextInv'
  OBVIOUS
<1>1. /\ Len(pushed) \in Nat /\ Len(pushed') \in Nat /\ Len(pushed) <= Len(pushed')
      /\ \A w \in 1 .. Len(pushed) : pushed'[w] = pushed[w]
  BY WritesStay
<1>2. CASE Route \/ Restart
  <2>1. prompt' = <<>> /\ seen' = 0 /\ pc' # "route"
    BY <1>2 DEF Route, Restart, Goto, Settle, Raise
  <2>. QED
    BY <1>1, <2>1 DEF ContextInv, PromptIsContext
<1>3. CASE ReadRecent
  <2>1. CASE prompt' = HistoryForPrompt(hand) /\ seen' = Len(pushed)
    BY <1>3, <2>1, ReadKeepsContext DEF ReadRecent, broker, list
  <2>2. CASE UNCHANGED reading /\ Raise
    BY <1>1, <1>3, <2>2, ContextKept DEF ReadRecent, Raise, Settle, reading
  <2>. QED
    BY <1>3, <2>1, <2>2 DEF ReadRecent
<1>4. CASE AppendMessage \/ AppendRaises \/ Submit \/ Watch \/ Poll \/ Commit \/ LoopEnds
  <2>1. UNCHANGED <<prompt, seen>> /\ (pc' = "route" => pc = "route")
    BY <1>4 DEF AppendMessage, AppendRaises, AfterAppend, Submit, Watch, Poll, Commit, LoopEnds,
                Goto, Settle, Raise, reading, consumer
  <2>2. pc = "route" => hand' = hand
    BY <1>4 DEF AppendMessage, AppendRaises, Submit, Watch, Poll, Commit, LoopEnds, hand, current,
                consumer
  <2>. QED
    BY <1>1, <2>1, <2>2, ContextKept
<1>5. CASE \/ \E r \in Run : StartLate(r) \/ Publish(r)
           \/ Idle \/ UNCHANGED vars
  <2>1. UNCHANGED <<prompt, seen, pc, topic, next>>
    BY <1>5 DEF StartLate, Publish, Report, Record, Retry, Idle, vars, broker, consumer, reading
  <2>. QED
    BY <1>1, <2>1, ContextKept DEF hand, current
<1>6. ASSUME NEW m \in Message, Ingest(m)
      PROVE  ContextInv'
  <2>1. UNCHANGED <<prompt, seen, pc, next>> /\ topic' = Append(topic, m)
    BY <1>6 DEF Ingest, consumer, reading
  <2>2. pc = "route" => current \in 1 .. Len(topic)
    BY InHandTyped DEF InHand
  <2>3. pc = "route" => hand' = hand
    BY <2>1, <2>2 DEF hand, current, WorkerInv, TypeOK
  <2>. QED
    BY <1>1, <2>1, <2>3, ContextKept
<1>. QED
  BY <1>2, <1>3, <1>4, <1>5, <1>6 DEF Next, Handle

(***************************************************************************)
(* For every window and every size of the history, whatever other writers  *)
(* do meanwhile: the models are shown what was written last before the     *)
(* read, in the order of writing, and nothing of it is missing but the     *)
(* message in hand (get_recent, _history_for_prompt).                      *)
(***************************************************************************)
THEOREM PromptsAreContext == Spec => []PromptIsContext
<1>1. Init => ContextInv
  BY DEF Init, ContextInv, PromptIsContext
<1>2. ContextInv => PromptIsContext
  BY DEF ContextInv
<1>. QED
  BY <1>1, <1>2, WorkerInvariant, ContextInductive, PTL DEF Spec
=============================================================================
