--------------------------- MODULE DagWorkflowProofs ---------------------------
(***************************************************************************)
(* Proofs about the control-flow interpreter, for every graph.             *)
(***************************************************************************)
EXTENDS DagWorkflowProperties, FiniteInduction

LEMMA BatchFacts ==
  ASSUME NEW S \in SUBSET ReadyNode
  PROVE  /\ S \subseteq Node
         /\ IsFiniteSet(S) /\ Cardinality(S) \in Nat
  BY GraphAssumption, FS_Subset, FS_CardinalityType DEF ReadyNode

LEMMA CountOnType ==
  ASSUME NEW counter \in [Edge -> Nat], NEW S \in SUBSET Edge
  PROVE  CountOn(counter, S) \in [Edge -> Nat]
<1>1. ASSUME NEW f \in Edge
      PROVE  Cardinality({e \in S : Entry[e] = f}) \in Nat
  <2>1. {e \in S : Entry[e] = f} \subseteq Edge
    OBVIOUS
  <2>2. QED BY <2>1, GraphAssumption, FS_Subset, FS_CardinalityType
<1>2. QED BY <1>1 DEF CountOn

LEMMA InstanceFacts ==
  /\ \A n \in Node, v \in Nat : <<n, v>> \in Instance <=> v \in 1..MaxVisits[n]
  /\ \A i \in Instance : /\ i[1] \in Node /\ i[2] \in 1..MaxVisits[i[1]]
                         /\ i[2] \in Nat \ {0} /\ i = <<i[1], i[2]>>
  BY GraphAssumption DEF Instance

LEMMA TypeInductive == TypeOK /\ [Next]_vars => TypeOK'
<1> SUFFICES ASSUME TypeOK, [Next]_vars PROVE TypeOK'
  OBVIOUS
<1> USE GraphAssumption DEF Place, TaskState, Cause, InstanceState, JobState, mainVars
<1>1. CASE StartBatch
  <2>1. PICK batch \in SUBSET ReadyNode :
          \E raising \in SUBSET {n \in batch : Mode[n] = "local"} : Start(batch, raising)
    BY <1>1 DEF StartBatch
  <2>2. Cardinality(batch) \in Nat
    BY ONLY BatchFacts, batch \in SUBSET ReadyNode
  <2>3. MaxTotal + 1 \in Nat
    OBVIOUS
  <2>4. QED BY <2>1, <2>2, <2>3 DEF Start, StartedTask, Consumed, TypeOK
<1>2. CASE Finish
  BY <1>2 DEF Finish, TypeOK
<1>3. CASE ProcessDone
  <2>1. PICK followed \in SUBSET Evaluated : Process(followed)
    BY <1>3 DEF ProcessDone
  <2>2. followed \subseteq Edge /\ Evaluated \ followed \subseteq Edge
    BY DEF Evaluated
  <2>3. taken' \in [Edge -> Nat] /\ skipped' \in [Edge -> Nat]
    BY <2>1, <2>2, CountOnType DEF TypeOK, Process
  <2>4. arrivals' \in [Node -> SUBSET (Node \union {Token})]
    BY <2>1, <2>2 DEF TypeOK, Process, HandedOn
  <2>5. QED BY <2>1, <2>3, <2>4 DEF Process, TypeOK
<1>4. CASE EdgeRaises
  BY <1>4 DEF EdgeRaises, TypeOK
<1>5. ASSUME NEW n \in Node, AgentTask(n) PROVE TypeOK'
  <2>1. CASE DispatchReaches(n)
    BY <2>1 DEF DispatchReaches, TypeOK
  <2>2. CASE DispatchReturns(n)
    BY <2>2 DEF DispatchReturns, EndTask, SetInstance, TypeOK
  <2>3. CASE DispatchFails(n)
    BY <2>3 DEF DispatchFails, FailNode, EndTask, SetInstance, TypeOK
  <2>4. CASE ConsumeEvent(n)
    <3>1. PICK event \in mailbox[n] :
            /\ answer' = [answer EXCEPT ![Current(n)] = event.visit]
            /\ Conclude(n, event.status = "completed")
      BY <2>4 DEF ConsumeEvent
    <3>2. event.visit \in Nat
      BY DEF TypeOK, Callback
    <3>3. CompleteNode(n) \/ FailNode(n)
      BY <3>1 DEF Conclude
    <3>4. CASE CompleteNode(n)
      BY <2>4, <3>1, <3>2, <3>4
      DEF ConsumeEvent, PopEvent, CompleteNode, EndTask, SetInstance, TypeOK
    <3>5. CASE FailNode(n)
      BY <2>4, <3>1, <3>2, <3>5
      DEF ConsumeEvent, PopEvent, FailNode, EndTask, SetInstance, TypeOK
    <3>6. QED BY <3>3, <3>4, <3>5
  <2>5. CASE WaitTimesOut(n)
    BY <2>5 DEF WaitTimesOut, FailNode, EndTask, SetInstance, TypeOK
  <2>6. CASE \E ok \in BOOLEAN : PollEnds(n, ok)
    BY <2>6 DEF PollEnds, Conclude, CompleteNode, FailNode, EndTask, SetInstance, TypeOK
  <2>7. QED BY <1>5, <2>1, <2>2, <2>3, <2>4, <2>5, <2>6 DEF AgentTask
<1>6. ASSUME NEW i \in Instance, ExtraCallback(i) PROVE TypeOK'
  BY <1>6, InstanceFacts DEF ExtraCallback, Signal, TypeOK, Callback
<1>7. ASSUME NEW i \in Instance, NEW verdict \in {"completed", "failed"},
             AgentCallsBack(i, verdict) PROVE  TypeOK'
  BY <1>7, InstanceFacts DEF AgentCallsBack, Signal, TypeOK, Callback
<1>8. CASE Closed \/ UNCHANGED vars
  BY <1>8 DEF Closed, vars, TypeOK
<1>9. QED BY <1>1, <1>2, <1>3, <1>4, <1>5, <1>6, <1>7, <1>8 DEF Next, Main, Agents

THEOREM TypeCorrect == Spec => []TypeOK
<1>1. Init => TypeOK
  BY GraphAssumption DEF Init, TypeOK, Place, TaskState, Cause, InstanceState, JobState
<1>2. TypeOK /\ [Next]_vars => TypeOK'
  BY TypeInductive
<1>3. QED BY <1>1, <1>2, PTL DEF Spec
-----------------------------------------------------------------------------
(***************************************************************************)
(* Steps by their effect on the run: the main coroutine, the end of a wait *)
(* of one agent task, and everything that leaves the run as it is.         *)
(***************************************************************************)
AgentEffect(n) ==
  /\ pc = "wait" /\ UNCHANGED mainVars
  /\ \/ /\ task[n] = "dispatching"
        /\ EndTask(n, "waiting") /\ SetInstance(n, "suspended") /\ UNCHANGED wfStatus
     \/ task[n] \in {"dispatching", "waiting"} /\ (CompleteNode(n) \/ FailNode(n))

Quiet ==
  /\ UNCHANGED <<arrivals, task, visits, total, failure, wfStatus, result, instance,
                 taken, skipped>>
  /\ pc' = pc \/ (pc = "wait" /\ pc' = "wedged")

LEMMA StepCases ==
  [Next]_vars => Main \/ (\E n \in Node : AgentEffect(n)) \/ Quiet
<1> SUFFICES ASSUME [Next]_vars PROVE Main \/ (\E n \in Node : AgentEffect(n)) \/ Quiet
  OBVIOUS
<1> USE DEF mainVars
<1>1. CASE EdgeRaises
  BY <1>1 DEF EdgeRaises, Quiet
<1>2. ASSUME NEW n \in Node, AgentTask(n) PROVE AgentEffect(n) \/ Quiet
  <2>1. CASE DispatchReaches(n)
    BY <2>1 DEF DispatchReaches, Quiet
  <2>2. CASE DispatchReturns(n)
    BY <2>2 DEF DispatchReturns, AgentEffect
  <2>3. CASE DispatchFails(n)
    BY <2>3 DEF DispatchFails, AgentEffect
  <2>4. CASE ConsumeEvent(n)
    BY <2>4 DEF ConsumeEvent, Conclude, AgentEffect
  <2>5. CASE WaitTimesOut(n)
    BY <2>5 DEF WaitTimesOut, AgentEffect
  <2>6. CASE \E ok \in BOOLEAN : PollEnds(n, ok)
    BY <2>6 DEF PollEnds, Conclude, AgentEffect
  <2>7. QED BY <1>2, <2>1, <2>2, <2>3, <2>4, <2>5, <2>6 DEF AgentTask
<1>3. ASSUME NEW i \in Instance, ExtraCallback(i) PROVE Quiet
  BY <1>3 DEF ExtraCallback, Quiet
<1>4. ASSUME NEW i \in Instance, NEW verdict \in {"completed", "failed"},
             AgentCallsBack(i, verdict) PROVE Quiet
  BY <1>4 DEF AgentCallsBack, Quiet
<1>5. CASE Closed \/ UNCHANGED vars
  BY <1>5 DEF Closed, vars, Quiet
<1>6. QED BY <1>1, <1>2, <1>3, <1>4, <1>5 DEF Next, Agents
-----------------------------------------------------------------------------
(***************************************************************************)
(* One lemma per conjunct of the inductive invariant.                      *)
(***************************************************************************)
LEMMA VisitLimitsInductive ==
  TypeOK /\ VisitLimits /\ [Next]_vars => VisitLimits'
<1> SUFFICES ASSUME TypeOK, VisitLimits, [Next]_vars PROVE VisitLimits'
  OBVIOUS
<1> USE GraphAssumption DEF VisitLimits, TypeOK, TaskState
<1>1. CASE StartBatch
  <2>1. PICK batch \in SUBSET ReadyNode, raising \in SUBSET ReadyNode : Start(batch, raising)
    BY <1>1 DEF StartBatch
  <2>2. ASSUME NEW n \in Node
        PROVE  visits'[n] <= MaxVisits[n] /\ (task'[n] # "none" => visits'[n] > 0)
    BY <2>1 DEF Start, ReadyNode, NodeIsReady
  <2>3. QED BY <2>2
<1>2. CASE Finish
  BY <1>2 DEF Finish
<1>3. CASE ProcessDone
  <2>1. PICK followed : Process(followed)
    BY <1>3 DEF ProcessDone
  <2>2. QED BY <2>1 DEF Process
<1>4. ASSUME NEW n \in Node, AgentEffect(n) PROVE VisitLimits'
  BY <1>4 DEF AgentEffect, EndTask, CompleteNode, FailNode, mainVars
<1>5. CASE Quiet
  BY <1>5 DEF Quiet
<1>6. QED BY <1>1, <1>2, <1>3, <1>4, <1>5, StepCases DEF Main

LEMMA LogInductive ==
  TypeOK /\ VisitLimits /\ LogMatchesTasks /\ FailureIsPending /\ NothingUnprocessed /\ [Next]_vars
    => LogMatchesTasks'
<1> SUFFICES ASSUME TypeOK, VisitLimits, LogMatchesTasks, FailureIsPending,
                    NothingUnprocessed, [Next]_vars,
                    NEW n \in Node, NEW v \in 1..MaxVisits[n]
             PROVE  /\ v > visits'[n] => instance'[<<n, v>>] = "absent"
                    /\ v < visits'[n] => instance'[<<n, v>>] = "completed"
                    /\ v = visits'[n] => StatusMatches(instance'[<<n, v>>], task'[n])
  BY DEF LogMatchesTasks, StatusMatches
<1> DEFINE i == <<n, v>>
<1>0. i \in Instance /\ i[1] = n /\ i[2] = v /\ v \in Nat /\ visits[n] \in Nat
  BY InstanceFacts, GraphAssumption DEF TypeOK
<1>a. /\ v > visits[n] => instance[i] = "absent"
      /\ v < visits[n] => instance[i] = "completed"
      /\ v = visits[n] => StatusMatches(instance[i], task[n])
  BY DEF LogMatchesTasks
<1>1. CASE StartBatch
  <2>1. PICK batch \in SUBSET ReadyNode, raising \in SUBSET ReadyNode : Start(batch, raising)
    BY <1>1 DEF StartBatch
  <2>2. CASE n \in batch
    <3>1. task[n] = "none" /\ visits'[n] = visits[n] + 1
      BY <2>1, <2>2 DEF ReadyNode, Start
    <3>2. v = visits[n] + 1 \/ instance'[i] = instance[i]
      BY <2>1, <1>0 DEF Start
    <3>3. v = visits[n] => instance[i] = "completed"
      <4>1. failure = "none" /\ Done = {}
        BY <1>1, <2>2 DEF StartBatch, ReadyNode, NothingUnprocessed
      <4>2. instance[i] # "failed"
        BY <1>0, <4>1 DEF FailureIsPending, Done
      <4>3. v = visits[n] => instance[i] \in {"completed", "failed"}
        BY <1>a, <3>1 DEF StatusMatches
      <4> QED BY <4>2, <4>3
    <3>4. /\ v # visits[n] + 1 => instance'[i] = instance[i]
          /\ v = visits[n] + 1 => instance'[i] = IF StartedTask(n, raising) = "ok"
                                                 THEN "completed" ELSE "running"
          /\ task'[n] = StartedTask(n, raising)
      BY <2>1, <2>2, <1>0 DEF Start
    <3>5. StartedTask(n, raising) \in {"dispatching", "raised", "ok"}
      BY DEF StartedTask
    <3>6. CASE v = visits[n] + 1
      BY <1>0, <3>1, <3>4, <3>5, <3>6 DEF StatusMatches
    <3>7. CASE v # visits[n] + 1
      BY <1>0, <1>a, <3>1, <3>3, <3>4, <3>7
    <3>8. QED BY <3>6, <3>7
  <2>3. CASE n \notin batch
    BY <2>1, <2>3, <1>0, <1>a DEF Start, TypeOK
  <2>4. QED BY <2>2, <2>3
<1>2. CASE Finish
  BY <1>2, <1>a DEF Finish
<1>3. CASE ProcessDone
  <2>1. PICK followed : Process(followed)
    BY <1>3 DEF ProcessDone
  <2>2. visits' = visits /\ task'[n] = IF n \in Done THEN "none" ELSE task[n]
    BY <2>1 DEF Process
  <2>3. instance'[i] = IF task[n] = "raised" /\ v = visits[n] THEN "failed" ELSE instance[i]
    BY <2>1, <1>0 DEF Process, Current
  <2>4. QED BY <1>0, <1>a, <2>2, <2>3 DEF StatusMatches, Done
<1>4. ASSUME NEW m \in Node, AgentEffect(m)
      PROVE  /\ v > visits'[n] => instance'[i] = "absent"
             /\ v < visits'[n] => instance'[i] = "completed"
             /\ v = visits'[n] => StatusMatches(instance'[i], task'[n])
  BY <1>4, <1>0, <1>a DEF AgentEffect, EndTask, SetInstance, CompleteNode, FailNode, mainVars,
                     Current, StatusMatches, TypeOK
<1>5. CASE Quiet
  BY <1>5, <1>a DEF Quiet
<1>6. QED BY <1>1, <1>2, <1>3, <1>4, <1>5, StepCases DEF Main

\* The instances that starting `batch` adds to the log.
NewInstances(batch) == {<<n, visits[n] + 1>> : n \in batch}

LEMMA NewInstancesFacts ==
  ASSUME NEW batch \in SUBSET Node, IsFiniteSet(batch), visits \in [Node -> Nat]
  PROVE  /\ IsFiniteSet(NewInstances(batch))
         /\ Cardinality(NewInstances(batch)) = Cardinality(batch)
<1> DEFINE f == [n \in batch |-> <<n, visits[n] + 1>>]
<1>1. f \in Bijection(batch, NewInstances(batch))
  BY DEF NewInstances, Bijection, Injection, Surjection, IsInjective
<1>2. ExistsBijection(batch, NewInstances(batch))
  BY <1>1 DEF ExistsBijection
<1>3. QED BY <1>2, FS_Bijection

\* No step but a start of a batch adds to the log.
LEMMA StartedUnchanged ==
  ASSUME TypeOK, LogMatchesTasks, Finish \/ ProcessDone \/ Quiet
                                  \/ \E n \in Node : AgentEffect(n)
  PROVE  Started' = Started
<1> SUFFICES ASSUME NEW i \in Instance
             PROVE  instance'[i] = "absent" <=> instance[i] = "absent"
  BY DEF Started
<1>0. /\ i[1] \in Node /\ i[2] \in 1..MaxVisits[i[1]] /\ i = <<i[1], i[2]>>
      /\ i = Current(i[1]) => StatusMatches(instance[i], task[i[1]])
  BY InstanceFacts DEF LogMatchesTasks, Current
<1>1. CASE Finish \/ Quiet
  BY <1>1 DEF Finish, Quiet
<1>2. CASE ProcessDone
  <2>1. PICK followed : Process(followed)
    BY <1>2 DEF ProcessDone
  <2>2. QED BY <2>1, <1>0 DEF Process, StatusMatches
<1>3. ASSUME NEW n \in Node, AgentEffect(n)
      PROVE  instance'[i] = "absent" <=> instance[i] = "absent"
  <2>1. instance'[i] = instance[i] \/ (i = Current(n) /\ instance'[i] # "absent")
    BY <1>3 DEF AgentEffect, SetInstance, CompleteNode, FailNode, TypeOK
  <2>2. i = Current(n) => i[1] = n
    BY DEF Current
  <2>3. i = Current(n) => instance[i] # "absent"
    BY <1>3, <1>0, <2>2 DEF AgentEffect, StatusMatches
  <2>4. QED BY <2>1, <2>3
<1>4. QED BY <1>1, <1>2, <1>3

LEMMA StartsInductive ==
  TypeOK /\ VisitLimits /\ LogMatchesTasks /\ StartsAreCounted /\ [Next]_vars
    => StartsAreCounted'
<1> SUFFICES ASSUME TypeOK, VisitLimits, LogMatchesTasks, StartsAreCounted, [Next]_vars
             PROVE  StartsAreCounted'
  OBVIOUS
<1>1. CASE StartBatch
  <2>1. PICK batch \in SUBSET ReadyNode, raising \in SUBSET ReadyNode :
          IsBatch(batch) /\ Start(batch, raising)
    BY <1>1 DEF StartBatch
  <2> DEFINE new == NewInstances(batch)
  <2>2. batch \subseteq Node /\ IsFiniteSet(batch) /\ Cardinality(batch) \in Nat
    BY ONLY BatchFacts, batch \in SUBSET ReadyNode
  <2>3. IsFiniteSet(new) /\ Cardinality(new) = Cardinality(batch)
    BY <2>2, NewInstancesFacts DEF TypeOK
  <2>4. \A n \in batch : /\ n \in Node /\ visits[n] \in Nat /\ visits[n] + 1 \in 1..MaxVisits[n]
                          /\ <<n, visits[n] + 1>> \in Instance
    BY <2>2, GraphAssumption, InstanceFacts DEF ReadyNode, NodeIsReady, TypeOK
  <2>5. \A n \in batch : instance[<<n, visits[n] + 1>>] = "absent"
    BY <2>4 DEF LogMatchesTasks
  <2>6. Started' = Started \union new
    <3>1. new \subseteq Instance
      BY <2>4 DEF NewInstances
    <3>2. ASSUME NEW i \in Instance
          PROVE  instance'[i] # "absent" <=> (instance[i] # "absent" \/ i \in new)
      <4>1. i \in new <=> (i[1] \in batch /\ i[2] = visits[i[1]] + 1)
        BY InstanceFacts DEF NewInstances
      <4>2. QED BY <2>1, <4>1 DEF Start
    <3>3. QED BY <3>1, <3>2 DEF Started
  <2>7. Started \intersect new = {}
    BY <2>5 DEF Started, NewInstances
  <2>8. IsFiniteSet(Started') /\ Cardinality(Started') = Cardinality(Started) + Cardinality(batch)
    <3>1. IsFiniteSet(Started) /\ Cardinality(Started) \in Nat
      BY FS_CardinalityType DEF StartsAreCounted
    <3>2. Cardinality(Started \intersect new) = 0
      BY <2>7, FS_EmptySet
    <3>3. /\ IsFiniteSet(Started \union new)
          /\ Cardinality(Started \union new)
               = Cardinality(Started) + Cardinality(new) - Cardinality(Started \intersect new)
      BY ONLY <2>3, <3>1, FS_Union
    <3>4. Cardinality(Started \union new) = Cardinality(Started) + Cardinality(batch)
      BY ONLY <2>2, <2>3, <3>1, <3>2, <3>3
    <3>5. QED BY ONLY <2>6, <3>3, <3>4
  <2>9. CASE batch = {}
    <3>1. Cardinality(batch) = 0
      BY <2>9, FS_EmptySet
    <3>2. Cardinality(Started') = Cardinality(Started)
      BY <2>8, <3>1, FS_CardinalityType DEF StartsAreCounted
    <3>3. failure' = "none" => total' = total /\ failure = "none"
      BY <2>1, <3>1, GraphAssumption DEF Start, TypeOK
    <3>4. QED BY <2>8, <3>2, <3>3 DEF StartsAreCounted
  <2>10. CASE batch # {}
    <3>1. failure = "none"
      BY <2>10 DEF ReadyNode
    <3>2. total + Cardinality(batch) <= MaxTotal
      BY <2>1, <2>10, <2>2, GraphAssumption DEF IsBatch, TypeOK
    <3>3. Cardinality(Started') = total + Cardinality(batch)
      BY <2>8, <3>1 DEF StartsAreCounted
    <3>4. failure' = "none" => total' = total + Cardinality(batch)
      BY <2>1 DEF Start
    <3>5. QED BY <2>8, <3>2, <3>3, <3>4 DEF StartsAreCounted
  <2>11. QED BY <2>9, <2>10
<1>2. CASE Finish \/ ProcessDone \/ Quiet \/ \E n \in Node : AgentEffect(n)
  <2>1. Started' = Started
    BY <1>2, StartedUnchanged
  <2>2. total' = total /\ (failure' = "none" => failure = "none")
    <3>1. CASE Finish
      BY <3>1 DEF Finish
    <3>2. CASE ProcessDone
      BY <3>2 DEF ProcessDone, Process
    <3>3. CASE Quiet \/ \E n \in Node : AgentEffect(n)
      BY <3>3 DEF Quiet, AgentEffect, mainVars
    <3>4. QED BY <1>2, <3>1, <3>2, <3>3
  <2>3. QED BY <2>1, <2>2 DEF StartsAreCounted
<1>3. QED BY <1>1, <1>2, StepCases DEF Main

LEMMA FailureInductive ==
  TypeOK /\ LogMatchesTasks /\ FailureIsPending /\ [Next]_vars => FailureIsPending'
<1> SUFFICES ASSUME TypeOK, LogMatchesTasks, FailureIsPending, [Next]_vars,
                    (wfStatus = "failed" \/ \E i \in Instance : instance[i] = "failed")'
             PROVE  (failure # "none" \/ \E n \in Node : task[n] = "failed")'
  BY DEF FailureIsPending
<1>1. CASE StartBatch
  <2>1. PICK batch \in SUBSET ReadyNode, raising \in SUBSET ReadyNode : Start(batch, raising)
    BY <1>1 DEF StartBatch
  <2>2. failure' # "none" \/ (wfStatus' = wfStatus /\ failure' = failure)
    BY <2>1 DEF Start
  <2>3. \A i \in Instance : instance'[i] = "failed" => instance[i] = "failed"
    BY <2>1 DEF Start
  <2>4. \A n \in Node : task[n] = "failed" => task'[n] = "failed"
    BY <2>1 DEF Start, ReadyNode
  <2>5. QED BY <2>2, <2>3, <2>4 DEF FailureIsPending
<1>2. CASE Finish
  BY <1>2 DEF Finish, FailureIsPending, Running
<1>3. CASE ProcessDone
  <2>1. PICK followed : Process(followed)
    BY <1>3 DEF ProcessDone
  <2> DEFINE stranded == {n \in Okay : Stranded(n, followed)}
             bad == (Done \ Okay) \union stranded
  <2>2. CASE bad = {}
    <3>1. wfStatus' = wfStatus /\ failure' = failure
      BY <2>1, <2>2 DEF Process
    <3>2. \A n \in Node : task[n] \notin {"failed", "raised"}
      BY <2>2 DEF Done, Okay
    <3>3. \A i \in Instance : instance'[i] = instance[i]
      BY <2>1, <3>2, InstanceFacts DEF Process
    <3>4. QED BY <3>1, <3>2, <3>3 DEF FailureIsPending
  <2>3. CASE bad # {}
    BY <2>1, <2>3 DEF Process
  <2>4. QED BY <2>2, <2>3
<1>4. ASSUME NEW n \in Node, AgentEffect(n)
      PROVE  (failure # "none" \/ \E m \in Node : task[m] = "failed")'
  <2>1. task[n] # "failed" /\ failure' = failure
    BY <1>4 DEF AgentEffect, mainVars
  <2>2. CASE FailNode(n)
    BY <2>2 DEF FailNode, EndTask, TypeOK
  <2>3. CASE ~FailNode(n)
    <3>1. /\ wfStatus' = wfStatus
          /\ \A i \in Instance : instance'[i] = "failed" => instance[i] = "failed"
          /\ \A m \in Node : m # n => task'[m] = task[m]
      BY <1>4, <2>3 DEF AgentEffect, EndTask, SetInstance, CompleteNode, TypeOK
    <3>2. QED BY <2>1, <3>1 DEF FailureIsPending
  <2>4. QED BY <2>2, <2>3
<1>5. CASE Quiet
  BY <1>5 DEF Quiet, FailureIsPending
<1>6. QED BY <1>1, <1>2, <1>3, <1>4, <1>5, StepCases DEF Main

LEMMA ProcessedInductive ==
  TypeOK /\ NothingUnprocessed /\ [Next]_vars => NothingUnprocessed'
<1> SUFFICES ASSUME TypeOK, NothingUnprocessed, [Next]_vars PROVE NothingUnprocessed'
  OBVIOUS
<1>1. CASE StartBatch
  <2>1. PICK batch \in SUBSET ReadyNode, raising \in SUBSET ReadyNode : Start(batch, raising)
    BY <1>1 DEF StartBatch
  <2>2. pc' # "loop"
    BY <2>1 DEF Start
  <2>3. QED BY <2>2 DEF NothingUnprocessed
<1>2. CASE Finish
  BY <1>2 DEF Finish, NothingUnprocessed
<1>3. CASE ProcessDone
  <2>1. PICK followed : Process(followed)
    BY <1>3 DEF ProcessDone
  <2>2. Done' = {}
    BY <2>1 DEF Process, Done
  <2>3. QED BY <2>2 DEF NothingUnprocessed
<1>4. ASSUME NEW n \in Node, AgentEffect(n) PROVE NothingUnprocessed'
  BY <1>4 DEF AgentEffect, mainVars, NothingUnprocessed
<1>5. CASE Quiet
  <2>1. Done' = Done
    BY <1>5 DEF Quiet, Done
  <2>2. QED BY <1>5, <2>1 DEF Quiet, NothingUnprocessed
<1>6. QED BY <1>1, <1>2, <1>3, <1>4, <1>5, StepCases DEF Main

LEMMA ReturnInductive ==
  TypeOK /\ FailureIsPending /\ ReturnIsFinal /\ [Next]_vars => ReturnIsFinal'
<1> SUFFICES ASSUME TypeOK, FailureIsPending, ReturnIsFinal, [Next]_vars
             PROVE  ReturnIsFinal'
  OBVIOUS
<1>1. CASE StartBatch
  <2>1. PICK batch \in SUBSET ReadyNode, raising \in SUBSET ReadyNode : Start(batch, raising)
    BY <1>1 DEF StartBatch
  <2>2. pc = "loop" /\ result = "none" /\ wfStatus # "completed"
    BY <1>1 DEF StartBatch, ReturnIsFinal
  <2>3. pc' = "returned" => Running' = {}
    BY <2>1 DEF Start, Running
  <2>4. \/ pc' = "wait" /\ result' = "none" /\ wfStatus' # "completed"
        \/ pc' = "returned" /\ result' = "failed" /\ wfStatus' = "failed"
    BY <2>1, <2>2 DEF Start
  <2>5. QED BY <2>3, <2>4 DEF ReturnIsFinal
<1>2. CASE Finish
  <2>1. /\ pc' = "returned" /\ wfStatus' = result' /\ result' \in {"completed", "failed"}
        /\ UNCHANGED <<arrivals, visits, task>> /\ Running = {} /\ ReadyNode = {}
    BY <1>2 DEF Finish
  <2>2. Running' = {}
    BY <2>1 DEF Running
  <2>3. ASSUME result' = "completed", NEW n \in Node
        PROVE  /\ failure = "none" /\ failure' = "none"
               /\ ~NodeIsReady(n) /\ (arrivals[n] # {} => visits[n] < MaxVisits[n])
    <3>1. failure' = "none" /\ failure = "none"
      BY <1>2, <2>3 DEF Finish
    <3>2. ~(arrivals[n] # {} /\ visits[n] >= MaxVisits[n])
      BY <1>2, <3>1 DEF Finish, BlockedByVisitLimit
    <3>3. ~NodeIsReady(n)
      BY <2>1, <3>1 DEF ReadyNode, Running
    <3>4. QED BY <3>1, <3>2, <3>3, GraphAssumption DEF TypeOK
  <2>4. \A n \in Node : NodeIsReady(n)' <=> NodeIsReady(n)
    BY <2>1 DEF NodeIsReady
  <2>5. result' = "completed" => failure' = "none"
    BY <1>2 DEF Finish
  <2>6. QED BY <2>1, <2>2, <2>3, <2>4, <2>5 DEF ReturnIsFinal
<1>3. CASE ProcessDone
  <2>1. PICK followed : Process(followed)
    BY <1>3 DEF ProcessDone
  <2>2. result = "none" /\ wfStatus # "completed" /\ wfStatus' \in {wfStatus, "failed"}
    BY <1>3, <2>1 DEF ProcessDone, Process, ReturnIsFinal
  <2>3. Running = Done => Running' = {}
    BY <2>1 DEF Process, Running
  <2>4. \/ pc' = "loop" /\ result' = "none"
        \/ pc' = "returned" /\ result' = "failed" /\ Running = Done
    BY <2>1, <2>2 DEF Process, Drained
  <2>5. QED BY <2>2, <2>3, <2>4 DEF ReturnIsFinal
<1>4. ASSUME NEW n \in Node, AgentEffect(n) PROVE ReturnIsFinal'
  <2>1. pc' = "wait" /\ result' = "none" /\ wfStatus' \in {wfStatus, "failed"}
    BY <1>4 DEF AgentEffect, mainVars, ReturnIsFinal, CompleteNode, FailNode
  <2>2. wfStatus # "completed"
    BY <1>4 DEF AgentEffect, ReturnIsFinal
  <2>3. QED BY <2>1, <2>2 DEF ReturnIsFinal
<1>5. CASE Quiet
  <2>1. /\ UNCHANGED <<arrivals, task, visits, failure, wfStatus, result>>
        /\ pc' = "returned" <=> pc = "returned"
    BY <1>5 DEF Quiet
  <2>2. Running' = Running /\ \A n \in Node : NodeIsReady(n)' <=> NodeIsReady(n)
    BY <2>1 DEF Running, NodeIsReady
  <2>3. QED BY <2>1, <2>2 DEF ReturnIsFinal
<1>6. QED BY <1>1, <1>2, <1>3, <1>4, <1>5, StepCases DEF Main

LEMMA JoinInductive ==
  TypeOK /\ VisitLimits /\ LogMatchesTasks /\ JoinCredit /\ [Next]_vars => JoinCredit'
<1> SUFFICES ASSUME TypeOK, VisitLimits, LogMatchesTasks, JoinCredit, [Next]_vars,
                    NEW n \in Node, Join[n] # "any", NEW m \in Pred(n)
             PROVE  visits'[n] + (IF m \in arrivals'[n] THEN 1 ELSE 0)
                      + (IF Unspent(m)' THEN 1 ELSE 0) <= visits'[m]
  BY DEF JoinCredit
<1>0. /\ m \in Node /\ visits[n] \in Nat /\ visits[m] \in Nat
      /\ visits[n] + (IF m \in arrivals[n] THEN 1 ELSE 0) + (IF Unspent(m) THEN 1 ELSE 0)
           <= visits[m]
  BY GraphAssumption DEF JoinCredit, Pred, TypeOK
<1>1. CASE StartBatch
  <2>1. PICK batch \in SUBSET ReadyNode, raising \in SUBSET ReadyNode : Start(batch, raising)
    BY <1>1 DEF StartBatch
  <2>2. n \in batch => m \in arrivals[n]
    BY DEF ReadyNode, NodeIsReady
  <2>3. /\ visits'[n] = IF n \in batch THEN visits[n] + 1 ELSE visits[n]
        /\ visits'[m] = IF m \in batch THEN visits[m] + 1 ELSE visits[m]
        /\ m \in arrivals'[n] <=> (m \in arrivals[n] /\ n \notin batch)
    BY <1>0, <2>1 DEF Start, Consumed, TypeOK
  <2>4. CASE m \in batch
    BY <1>0, <2>2, <2>3, <2>4
  <2>5. CASE m \notin batch
    <3>1. \/ task'[m] = task[m] /\ instance'[Current(m)] = instance[Current(m)]
          \/ visits[m] = 0
      <4>1. visits[m] > 0 => Current(m) \in Instance
        BY <1>0, InstanceFacts DEF Current, VisitLimits
      <4>2. Current(m)[1] = m
        BY DEF Current
      <4>3. QED BY <1>0, <2>1, <2>5, <4>1, <4>2 DEF Start
    <3>2. task'[m] = task[m] /\ Current(m)' = Current(m)
      BY <1>0, <2>1, <2>3, <2>5 DEF Start, Current
    <3>3. Unspent(m)' => Unspent(m)
      BY <1>0, <2>3, <2>5, <3>1, <3>2 DEF Unspent
    <3>4. QED BY <1>0, <2>2, <2>3, <2>5, <3>3
  <2>6. QED BY <2>4, <2>5
<1>2. CASE Finish
  BY <1>0, <1>2 DEF Finish, Unspent, Current
<1>3. CASE ProcessDone
  <2>1. PICK followed \in SUBSET Evaluated : Process(followed)
    BY <1>3 DEF ProcessDone
  <2>2. visits' = visits /\ Current(m)' = Current(m)
    BY <2>1 DEF Process, Current
  <2>3. m \in arrivals'[n] => m \in arrivals[n] \/ task[m] = "ok"
    BY <2>1 DEF Process, HandedOn, Evaluated, Okay
  <2>4. task[m] # "none" => Unspent(m)
    BY DEF Unspent
  <2>5. task[m] = "ok" => ~Unspent(m)'
    <3>1. SUFFICES ASSUME task[m] = "ok" PROVE ~Unspent(m)'
      OBVIOUS
    <3>2. visits[m] \in 1..MaxVisits[m]
      BY <1>0, <3>1, GraphAssumption DEF VisitLimits
    <3>3. Current(m) \in Instance /\ instance[Current(m)] = "completed"
      BY <1>0, <3>1, <3>2, InstanceFacts DEF Current, LogMatchesTasks, StatusMatches
    <3>4. Current(m)[1] = m
      BY DEF Current
    <3>5. task'[m] = "none" /\ instance'[Current(m)] = "completed"
      BY <1>0, <2>1, <3>1, <3>3, <3>4 DEF Process, Done
    <3>6. QED BY <2>2, <3>5 DEF Unspent
  <2>6. Unspent(m)' => Unspent(m)
    <3>1. CASE task[m] = "none"
      <4>1. task'[m] = "none"
        BY <1>0, <2>1, <3>1 DEF Process, Done
      <4>2. SUFFICES ASSUME visits[m] > 0, instance'[Current(m)] = "failed"
                     PROVE  instance[Current(m)] = "failed"
        BY <2>2, <4>1 DEF Unspent
      <4>3. Current(m) \in Instance /\ Current(m)[1] = m
        BY <1>0, <4>2, InstanceFacts DEF Current, VisitLimits
      <4>4. QED BY <2>1, <3>1, <4>2, <4>3 DEF Process
    <3>2. QED BY <2>4, <3>1
  <2>7. QED BY <1>0, <2>2, <2>3, <2>4, <2>5, <2>6
<1>4. ASSUME NEW a \in Node, AgentEffect(a)
      PROVE  visits'[n] + (IF m \in arrivals'[n] THEN 1 ELSE 0)
               + (IF Unspent(m)' THEN 1 ELSE 0) <= visits'[m]
  <2>1. /\ visits' = visits /\ arrivals' = arrivals
        /\ task[a] # "none" /\ Current(m)' = Current(m)
    BY <1>4 DEF AgentEffect, mainVars, Current
  <2>2. m # a => /\ task'[m] = task[m]
                 /\ visits[m] > 0 => instance'[Current(m)] = instance[Current(m)]
    <3>1. /\ \A state : EndTask(a, state) /\ m # a => task'[m] = task[m]
          /\ \A state : SetInstance(a, state) /\ m # a /\ visits[m] > 0
               => instance'[Current(m)] = instance[Current(m)]
      <4>1. visits[m] > 0 => Current(m) \in Instance
        BY <1>0, InstanceFacts DEF Current, VisitLimits
      <4>2. m # a => Current(m) # Current(a)
        BY DEF Current
      <4>3. QED BY <1>0, <4>1, <4>2 DEF EndTask, SetInstance, TypeOK
    <3>2. QED BY <1>4, <3>1 DEF AgentEffect, CompleteNode, FailNode
  <2>3. Unspent(m)' => Unspent(m)
    BY <2>1, <2>2 DEF Unspent
  <2>4. QED BY <1>0, <2>1, <2>3
<1>5. CASE Quiet
  BY <1>0, <1>5 DEF Quiet, Unspent, Current
<1>6. QED BY <1>1, <1>2, <1>3, <1>4, <1>5, StepCases DEF Main
-----------------------------------------------------------------------------
(* What came along the edges.                                              *)

LEMMA EntryFacts ==
  ASSUME NEW e \in Edge
  PROVE  Entry[e] \in Edge /\ From[Entry[e]] = From[e] /\ To[Entry[e]] = To[e]
<1> DEFINE same == {f \in Edge : From[f] = From[e] /\ To[f] = To[e]}
<1>1. same \subseteq Nat /\ same # {}
  BY GraphAssumption
<1>2. PICK f \in same : \A g \in same : f <= g
  BY <1>1, LeastNat
<1>3. \E f1 \in Edge : /\ From[f1] = From[e] /\ To[f1] = To[e]
                       /\ \A g \in Edge : From[g] = From[e] /\ To[g] = To[e] => f1 <= g
  BY <1>2
<1>. QED
  BY <1>3 DEF Entry

LEMMA RepresentedFacts ==
  ASSUME NEW f \in Edge, NEW S \in SUBSET Edge
  PROVE  /\ IsFiniteSet({e \in S : Entry[e] = f})
         /\ Cardinality({e \in S : Entry[e] = f}) \in Nat
<1>1. {e \in S : Entry[e] = f} \in SUBSET Edge /\ IsFiniteSet(Edge)
  BY GraphAssumption
<1>. QED
  BY <1>1, FS_Subset, FS_CardinalityType

LEMMA ArrivedFacts ==
  ASSUME NEW count \in [Edge -> Nat], NEW n \in Node
  PROVE  LET arrived == UNION {{e} \X (1..count[e]) : e \in {f \in Edge : To[f] = n}}
         IN  IsFiniteSet(arrived) /\ Cardinality(arrived) \in Nat
<1> DEFINE into == {f \in Edge : To[f] = n}
           parts == {{e} \X (1..count[e]) : e \in into}
           part == [e \in into |-> {e} \X (1..count[e])]
<1>1. IsFiniteSet(into)
  BY GraphAssumption, FS_Subset
<1>2. IsFiniteSet(parts)
  <2>1. part \in Surjection(into, parts)
    BY DEF Surjection
  <2>. QED
    BY <1>1, <2>1, FS_Surjection
<1>3. ASSUME NEW S \in parts
      PROVE  IsFiniteSet(S)
  <2>1. PICK e \in into : S = {e} \X (1..count[e])
    OBVIOUS
  <2>2. count[e] \in Int /\ 1 \in Int
    OBVIOUS
  <2>3. IsFiniteSet({e}) /\ IsFiniteSet(1..count[e])
    BY <2>2, FS_Singleton, FS_Interval
  <2>. QED
    BY <2>1, <2>3, FS_Product
<1>4. IsFiniteSet(UNION parts)
  BY <1>2, <1>3, FS_UNION
<1>. QED
  BY <1>4, FS_CardinalityType

LEMMA CauseInductive ==
  TypeOK /\ TypeOK' /\ VisitLimits /\ RunsAreCaused /\ [Next]_vars => RunsAreCaused'
<1> SUFFICES ASSUME TypeOK, TypeOK', VisitLimits, RunsAreCaused, [Next]_vars, NEW n \in Node
             PROVE  visits'[n] + (IF arrivals'[n] # {} THEN 1 ELSE 0)
                      <= (IF n \in StartNode THEN 1 ELSE 0) + Cardinality(Arrived(n))'
  BY DEF RunsAreCaused
<1>0. /\ visits[n] \in Nat /\ Cardinality(Arrived(n)) \in Nat
      /\ visits[n] + (IF arrivals[n] # {} THEN 1 ELSE 0)
           <= (IF n \in StartNode THEN 1 ELSE 0) + Cardinality(Arrived(n))
  BY ArrivedFacts DEF RunsAreCaused, Arrived, TypeOK
<1>1. CASE StartBatch
  <2>1. PICK batch \in SUBSET ReadyNode, raising \in SUBSET ReadyNode : Start(batch, raising)
    BY <1>1 DEF StartBatch
  <2>2. /\ visits'[n] = IF n \in batch THEN visits[n] + 1 ELSE visits[n]
        /\ arrivals'[n] = IF n \in batch THEN {} ELSE arrivals[n]
        /\ n \in batch => arrivals[n] # {}
    BY <2>1 DEF Start, Consumed, ReadyNode, NodeIsReady, TypeOK
  <2>3. Arrived(n)' = Arrived(n)
    BY <2>1 DEF Start, Arrived
  <2>. QED
    BY <1>0, <2>2, <2>3
<1>2. CASE Finish
  BY <1>0, <1>2 DEF Finish, Arrived
<1>3. CASE ProcessDone
  <2>1. PICK followed \in SUBSET Evaluated : Process(followed)
    BY <1>3 DEF ProcessDone
  <2>2. followed \in SUBSET Edge
    BY DEF Evaluated
  <2>3. \A f \in Edge : /\ Cardinality({e \in followed : Entry[e] = f}) \in Nat
                        /\ taken[f] \in Nat
                        /\ taken'[f] = taken[f] + Cardinality({e \in followed : Entry[e] = f})
    BY <2>1, <2>2, RepresentedFacts DEF Process, CountOn, TypeOK
  <2>4. visits' = visits
    BY <2>1 DEF Process
  <2>5. Arrived(n) \subseteq Arrived(n)'
    <3>1. \A f \in Edge : 1..taken[f] \subseteq 1..taken'[f]
      <4>. SUFFICES ASSUME NEW f \in Edge
                    PROVE  1..taken[f] \subseteq 1..taken'[f]
        OBVIOUS
      <4>1. PICK c \in Nat : taken'[f] = taken[f] + c
        BY <2>3
      <4>2. taken[f] \in Nat
        BY <2>3
      <4>. QED
        BY ONLY <4>1, <4>2
    <3>. QED
      BY <3>1 DEF Arrived
  <2>6. /\ IsFiniteSet(Arrived(n)') /\ Cardinality(Arrived(n)') \in Nat
        /\ Cardinality(Arrived(n)) <= Cardinality(Arrived(n)')
        /\ Cardinality(Arrived(n)') = Cardinality(Arrived(n)) => Arrived(n)' = Arrived(n)
    <3>1. IsFiniteSet(Arrived(n)') /\ Cardinality(Arrived(n)') \in Nat
      BY ArrivedFacts DEF Arrived, TypeOK
    <3>. QED
      BY <2>5, <3>1, FS_Subset
  <2>7. CASE arrivals'[n] = arrivals[n]
    BY <1>0, <2>4, <2>6, <2>7
  <2>8. CASE arrivals'[n] # arrivals[n]
    <3>1. PICK e \in followed : To[e] = n
      BY <2>1, <2>8 DEF Process, HandedOn, TypeOK
    <3>2. e \in Edge /\ Entry[e] \in Edge /\ To[Entry[e]] = n
      BY <2>2, <3>1, EntryFacts
    <3>3. taken'[Entry[e]] > taken[Entry[e]]
      <4>1. IsFiniteSet({d \in followed : Entry[d] = Entry[e]})
        BY <2>2, <3>2, RepresentedFacts
      <4>2. Cardinality({d \in followed : Entry[d] = Entry[e]}) # 0
        BY <3>1, <4>1, FS_EmptySet
      <4>. QED
        BY <2>3, <3>2, <4>2
    <3>4. <<Entry[e], taken[Entry[e]] + 1>> \in Arrived(n)' \ Arrived(n)
      <4>1. taken[Entry[e]] + 1 \in 1..taken'[Entry[e]] /\ taken[Entry[e]] + 1 \notin 1..taken[Entry[e]]
        <5>1. taken'[Entry[e]] \in Nat /\ taken[Entry[e]] \in Nat
          BY <3>2 DEF TypeOK
        <5>. QED
          BY <3>3, <5>1
      <4>. QED
        BY <3>2, <4>1 DEF Arrived
    <3>5. Cardinality(Arrived(n)) < Cardinality(Arrived(n)')
      BY <1>0, <2>6, <3>4
    <3>. QED
      BY <1>0, <2>4, <2>6, <3>5
  <2>. QED
    BY <2>7, <2>8
<1>4. CASE Quiet \/ \E a \in Node : AgentEffect(a)
  BY <1>0, <1>4 DEF Quiet, AgentEffect, mainVars, Arrived
<1>. QED
  BY <1>1, <1>2, <1>3, <1>4, StepCases DEF Main

\* Only processing a finished task that is in order hands its completion on.
LEMMA SpentSteps ==
  ASSUME TypeOK, VisitLimits, LogMatchesTasks, FailureIsPending, NothingUnprocessed, NEW m \in Node
  PROVE  /\ StartBatch \/ Finish \/ Quiet \/ (\E n \in Node : AgentEffect(n))
              => Spent(m)' = Spent(m)
         /\ ProcessDone => Spent(m)' = Spent(m) + (IF task[m] = "ok" THEN 1 ELSE 0)
<1>0. /\ visits[m] \in Nat /\ MaxVisits[m] \in Nat /\ visits[m] <= MaxVisits[m]
      /\ task[m] # "none" => visits[m] > 0
  BY GraphAssumption DEF TypeOK, VisitLimits
<1>1. visits[m] > 0 => Current(m) \in Instance /\ Current(m)[1] = m
                       /\ StatusMatches(instance[Current(m)], task[m])
  BY <1>0, InstanceFacts DEF Current, LogMatchesTasks
<1>2. ASSUME visits'[m] = visits[m], Unspent(m)' <=> Unspent(m)
      PROVE  Spent(m)' = Spent(m)
  BY <1>2 DEF Spent
<1>3. ASSUME StartBatch
      PROVE  Spent(m)' = Spent(m)
  <2>1. PICK batch \in SUBSET ReadyNode, raising \in SUBSET ReadyNode : Start(batch, raising)
    BY <1>3 DEF StartBatch
  <2>2. CASE m \in batch
    <3>1. visits'[m] = visits[m] + 1 /\ task[m] = "none" /\ task'[m] # "none"
      BY <2>1, <2>2 DEF Start, StartedTask, ReadyNode, TypeOK
    <3>2. failure = "none" /\ Done = {}
      BY <1>3, <2>2 DEF StartBatch, ReadyNode, NothingUnprocessed
    <3>3. visits[m] > 0 => instance[Current(m)] # "failed"
      BY <1>1, <3>2 DEF FailureIsPending, Done
    <3>4. Unspent(m)' /\ ~Unspent(m)
      BY <3>1, <3>3 DEF Unspent
    <3>5. Spent(m)' = visits'[m] - 1 /\ Spent(m) = visits[m] - 0
      BY <3>4 DEF Spent
    <3>. QED
      BY <1>0, <3>1, <3>5
  <2>3. CASE m \notin batch
    <3>1. visits'[m] = visits[m] /\ task'[m] = task[m] /\ Current(m)' = Current(m)
      BY <2>1, <2>3 DEF Start, Current, TypeOK
    <3>2. visits[m] > 0 => instance'[Current(m)] = instance[Current(m)]
      BY <1>1, <2>1, <2>3 DEF Start
    <3>3. Unspent(m)' <=> Unspent(m)
      BY <3>1, <3>2 DEF Unspent
    <3>. QED
      BY <1>2, <3>1, <3>3
  <2>. QED
    BY <2>2, <2>3
<1>4. ASSUME Finish \/ Quiet
      PROVE  Spent(m)' = Spent(m)
  <2>1. visits' = visits /\ task' = task /\ instance' = instance
    BY <1>4 DEF Finish, Quiet
  <2>2. Unspent(m)' <=> Unspent(m)
    BY <2>1 DEF Unspent, Current
  <2>. QED
    BY <1>2, <2>1, <2>2
<1>5. ASSUME NEW n \in Node, AgentEffect(n)
      PROVE  Spent(m)' = Spent(m)
  <2>1. visits' = visits /\ task[n] # "none" /\ Current(m)' = Current(m)
    BY <1>5 DEF AgentEffect, mainVars, Current
  <2>2. Unspent(m)' <=> Unspent(m)
    <3>1. CASE m = n
      BY <1>5, <2>1, <3>1 DEF AgentEffect, EndTask, CompleteNode, FailNode, Unspent, TypeOK
    <3>2. CASE m # n
      <4>1. Current(m) # Current(n)
        BY <3>2 DEF Current
      <4>2. /\ task'[m] = task[m]
            /\ visits[m] > 0 => instance'[Current(m)] = instance[Current(m)]
        BY <1>1, <1>5, <3>2, <4>1
        DEF AgentEffect, EndTask, SetInstance, CompleteNode, FailNode, TypeOK
      <4>. QED
        BY <2>1, <4>2 DEF Unspent
    <3>. QED
      BY <3>1, <3>2
  <2>. QED
    BY <1>2, <2>1, <2>2
<1>6. ASSUME ProcessDone
      PROVE  Spent(m)' = Spent(m) + (IF task[m] = "ok" THEN 1 ELSE 0)
  <2>1. PICK followed : Process(followed)
    BY <1>6 DEF ProcessDone
  <2>2. visits' = visits /\ Current(m)' = Current(m)
    BY <2>1 DEF Process, Current
  <2>3. task'[m] = IF m \in Done THEN "none" ELSE task[m]
    BY <2>1 DEF Process
  <2>4. visits[m] > 0 => instance'[Current(m)] = IF task[m] = "raised" THEN "failed"
                                                 ELSE instance[Current(m)]
    BY <1>1, <2>1 DEF Process
  <2>5. CASE task[m] = "ok"
    <3>1. Unspent(m) /\ ~Unspent(m)'
      BY <1>0, <1>1, <2>2, <2>3, <2>4, <2>5 DEF Unspent, Done, StatusMatches
    <3>2. Spent(m)' = visits[m] - 0 /\ Spent(m) = visits[m] - 1
      BY <2>2, <3>1 DEF Spent
    <3>. QED
      BY <1>0, <2>5, <3>2
  <2>6. CASE task[m] # "ok"
    <3>1. Unspent(m)' <=> Unspent(m)
      BY <1>0, <1>1, <2>2, <2>3, <2>4, <2>6 DEF Unspent, Done, StatusMatches
    <3>2. Spent(m)' = Spent(m) /\ Spent(m) \in Int
      BY <1>0, <1>2, <2>2, <3>1 DEF Spent
    <3>. QED
      BY <2>6, <3>2
  <2>. QED
    BY <2>5, <2>6
<1>. QED
  BY <1>3, <1>4, <1>5, <1>6

LEMMA EdgesInductive ==
  TypeOK /\ VisitLimits /\ LogMatchesTasks /\ FailureIsPending /\ NothingUnprocessed
         /\ EdgesFollowSpent /\ [Next]_vars
    => EdgesFollowSpent'
<1> SUFFICES ASSUME TypeOK, VisitLimits, LogMatchesTasks, FailureIsPending, NothingUnprocessed,
                    EdgesFollowSpent, [Next]_vars
             PROVE  EdgesFollowSpent'
  OBVIOUS
<1>a. SUFFICES ASSUME NEW f \in Edge
               PROVE  taken'[f] + skipped'[f] = Cardinality(Represented(f)) * Spent(From[f])'
  BY DEF EdgesFollowSpent, Represented, Entry
<1>0. /\ From[f] \in Node /\ taken[f] \in Nat /\ skipped[f] \in Nat
      /\ taken[f] + skipped[f] = Cardinality(Represented(f)) * Spent(From[f])
  BY GraphAssumption DEF EdgesFollowSpent, TypeOK
<1>1. CASE StartBatch \/ Finish \/ Quiet \/ \E n \in Node : AgentEffect(n)
  <2>1. taken' = taken /\ skipped' = skipped
    BY <1>1 DEF StartBatch, Start, Finish, Quiet, AgentEffect, mainVars
  <2>2. Spent(From[f])' = Spent(From[f])
    BY <1>0, <1>1, SpentSteps
  <2>. QED
    BY <1>0, <2>1, <2>2
<1>2. CASE ProcessDone
  <2>1. PICK followed \in SUBSET Evaluated : Process(followed)
    BY <1>2 DEF ProcessDone
  <2> DEFINE yes == {e \in followed : Entry[e] = f}
             no == {e \in Evaluated \ followed : Entry[e] = f}
             all == {e \in Evaluated : Entry[e] = f}
             spent == Spent(From[f])
             size == Cardinality(Represented(f))
  <2>2. Evaluated \subseteq Edge
    BY DEF Evaluated
  <2>3. taken'[f] = taken[f] + Cardinality(yes) /\ skipped'[f] = skipped[f] + Cardinality(no)
    BY <2>1 DEF Process, CountOn
  <2>4. /\ IsFiniteSet(yes) /\ Cardinality(yes) \in Nat
        /\ IsFiniteSet(no) /\ Cardinality(no) \in Nat
    <3>1. followed \in SUBSET Edge /\ Evaluated \ followed \in SUBSET Edge
      BY <2>2
    <3>. QED
      BY <3>1, RepresentedFacts
  <2>5. Cardinality(yes) + Cardinality(no) = Cardinality(all)
    <3>1. yes \union no = all /\ yes \intersect no = {}
      OBVIOUS
    <3>2. Cardinality(yes \union no)
            = Cardinality(yes) + Cardinality(no) - Cardinality(yes \intersect no)
      BY <2>4, FS_Union
    <3>3. Cardinality({}) = 0
      BY FS_EmptySet
    <3>4. Cardinality(all) = Cardinality(yes) + Cardinality(no) - 0
      BY ONLY <3>1, <3>2, <3>3
    <3>. QED
      BY ONLY <2>4, <3>4
  <2>6. \A e \in Represented(f) : From[e] = From[f]
    BY EntryFacts DEF Represented
  <2>7. Spent(From[f])' = spent + (IF task[From[f]] = "ok" THEN 1 ELSE 0)
    BY <1>0, <1>2, SpentSteps
  <2>8. spent \in Int /\ size \in Nat
    <3>1. Edge \in SUBSET Edge /\ visits[From[f]] \in Nat
      BY <1>0 DEF TypeOK
    <3>2. size \in Nat
      BY <3>1, RepresentedFacts DEF Represented
    <3>3. spent \in Int
      BY <3>1 DEF Spent
    <3>. QED
      BY <3>2, <3>3
  <2>9. taken'[f] + skipped'[f] = size * spent + Cardinality(all)
    BY ONLY <1>0, <2>3, <2>4, <2>5
  <2>10. CASE task[From[f]] = "ok"
    <3>1. all = Represented(f)
      BY <1>0, <2>2, <2>6, <2>10 DEF Represented, Evaluated, Okay
    <3> HIDE DEF all, spent, size
    <3>2. Spent(From[f])' = spent + 1
      BY <2>7, <2>10
    <3>3. size * spent + size = size * (spent + 1)
      BY ONLY <2>8
    <3>. QED
      BY <2>9, <3>1, <3>2, <3>3 DEF size
  <2>11. CASE task[From[f]] # "ok"
    <3>1. all = {}
      BY <2>2, <2>6, <2>11 DEF Represented, Evaluated, Okay
    <3>2. Cardinality(all) = 0
      BY <3>1, FS_EmptySet
    <3> HIDE DEF all, spent, size
    <3>3. Spent(From[f])' = spent /\ size * spent \in Int
      BY <2>7, <2>8, <2>11
    <3>. QED
      BY <2>9, <3>2, <3>3 DEF size
  <2>. QED
    BY <2>10, <2>11
<1>. QED
  BY <1>1, <1>2, StepCases DEF Main


-----------------------------------------------------------------------------
(* Whose callback ends an instance.                                        *)

\* Steps that neither dispatch, call back nor consume a callback.
LEMMA CallbacksUntouched ==
  ASSUME TypeOK, VisitLimits, LogMatchesTasks, [Next]_vars
  PROVE  \/ \E n \in Node : DispatchReaches(n) \/ ConsumeEvent(n)
         \/ Agents
         \/ /\ UNCHANGED <<mailbox, job, extra, answer>>
            /\ \A n \in Node : visits[n] <= visits'[n]
            /\ \A i \in Instance : instance'[i] = "completed" =>
                 instance[i] = "completed" \/ Mode[i[1]] # "callback"
<1>0. /\ \A n \in Node : visits[n] \in Nat
      /\ \A i \in Instance : i[1] \in Node
  BY InstanceFacts DEF TypeOK
<1>1. CASE StartBatch
  <2>1. PICK batch \in SUBSET ReadyNode, raising \in SUBSET ReadyNode : Start(batch, raising)
    BY <1>1 DEF StartBatch
  <2>2. \A n \in Node : visits[n] <= visits'[n]
    BY <1>0, <2>1 DEF Start
  <2>3. \A i \in Instance : instance'[i] = "completed" =>
          instance[i] = "completed" \/ Mode[i[1]] # "callback"
    BY <2>1 DEF Start, StartedTask
  <2>. QED
    BY <2>1, <2>2, <2>3 DEF Start
<1>2. CASE Finish \/ EdgeRaises \/ Closed \/ UNCHANGED vars
  BY <1>0, <1>2 DEF Finish, EdgeRaises, Closed, vars
<1>3. CASE ProcessDone
  <2>1. PICK followed : Process(followed)
    BY <1>3 DEF ProcessDone
  <2>2. \A i \in Instance : instance'[i] = "completed" => instance[i] = "completed"
    BY <2>1 DEF Process
  <2>. QED
    BY <1>0, <2>1, <2>2 DEF Process
<1>4. ASSUME NEW n \in Node, DispatchReturns(n) \/ DispatchFails(n) \/ WaitTimesOut(n)
      PROVE  /\ UNCHANGED <<mailbox, job, extra, answer, visits>>
             /\ \A i \in Instance : instance'[i] = "completed" => instance[i] = "completed"
  BY <1>4 DEF DispatchReturns, DispatchFails, WaitTimesOut, FailNode, SetInstance, mainVars, TypeOK
<1>5. ASSUME NEW n \in Node, NEW ok \in BOOLEAN, PollEnds(n, ok)
      PROVE  /\ UNCHANGED <<mailbox, job, extra, answer, visits>>
             /\ \A i \in Instance : instance'[i] = "completed" =>
                  instance[i] = "completed" \/ Mode[i[1]] # "callback"
  BY <1>5 DEF PollEnds, Conclude, CompleteNode, FailNode, SetInstance, Current, mainVars, TypeOK
<1>. QED
  BY <1>0, <1>1, <1>2, <1>3, <1>4, <1>5 DEF Next, Main, AgentTask

LEMMA JobFacts ==
  ASSUME TypeOK, VisitLimits, EventsHaveJobs, NEW n \in Node, NEW event \in mailbox[n]
  PROVE  /\ event.visit \in Nat /\ event.visit <= visits[n]
         /\ <<n, event.visit>> \in Instance
<1>1. visits[n] \in Nat /\ MaxVisits[n] \in Nat /\ visits[n] <= MaxVisits[n]
  BY GraphAssumption DEF TypeOK, VisitLimits
<1>2. event.visit \in 1..visits[n]
  BY DEF EventsHaveJobs
<1>3. event.visit \in 1..MaxVisits[n] /\ event.visit \in Nat /\ event.visit <= visits[n]
  BY <1>1, <1>2
<1>. QED
  BY <1>3, InstanceFacts

LEMMA CallbacksInductive ==
  ASSUME TypeOK, VisitLimits, LogMatchesTasks, CallbacksAreOwed, StaleAnswerNeedsExtra, [Next]_vars
  PROVE  CallbacksAreOwed' /\ StaleAnswerNeedsExtra'
<1> USE DEF CallbacksAreOwed
<1>0. /\ \A n \in Node : visits[n] \in Nat
      /\ \A i \in Instance : i[1] \in Node /\ i[2] \in Nat /\ i = <<i[1], i[2]>>
  BY InstanceFacts DEF TypeOK
<1>1. ASSUME NEW n \in Node, DispatchReaches(n)
      PROVE  CallbacksAreOwed' /\ StaleAnswerNeedsExtra'
  <2>1. /\ UNCHANGED <<visits, mailbox, instance, extra, answer>>
        /\ task[n] = "dispatching" /\ job[Current(n)] = "none"
        /\ \A i \in Instance : job'[i] = IF i = Current(n) THEN "open" ELSE job[i]
    BY <1>1 DEF DispatchReaches, mainVars, TypeOK
  <2>2. JobsWereStarted'
    BY <1>0, <2>1 DEF JobsWereStarted, Current
  <2>3. \A m \in Node : \A event \in mailbox[m] :
          <<m, event.visit>> # Current(n) /\ <<m, event.visit>> \in Instance
    BY <2>1, JobFacts DEF EventsHaveJobs
  <2>4. EventsHaveJobs'
    BY <2>1, <2>3 DEF EventsHaveJobs
  <2>5. Current(n) \in Instance => instance[Current(n)] # "completed"
    BY <1>0, <2>1, InstanceFacts DEF LogMatchesTasks, StatusMatches, Current
  <2>6. VerdictsAreOwed'
    BY <2>1, <2>3, <2>5 DEF VerdictsAreOwed
  <2>. QED
    BY <2>1, <2>2, <2>4, <2>6 DEF StaleAnswerNeedsExtra
<1>2. ASSUME NEW n \in Node, ConsumeEvent(n)
      PROVE  CallbacksAreOwed' /\ StaleAnswerNeedsExtra'
  <2>1. PICK event \in mailbox[n] :
          /\ answer' = [answer EXCEPT ![Current(n)] = event.visit]
          /\ Conclude(n, event.status = "completed")
    BY <1>2 DEF ConsumeEvent
  <2>2. /\ UNCHANGED <<visits, job, extra>> /\ task[n] = "waiting"
        /\ \A m \in Node : mailbox'[m] = IF m = n THEN {} ELSE mailbox[m]
    BY <1>2 DEF ConsumeEvent, PopEvent, mainVars, TypeOK
  <2>3. \A i \in Instance : i # Current(n) => instance'[i] = instance[i] /\ answer'[i] = answer[i]
    BY <2>1 DEF Conclude, CompleteNode, FailNode, SetInstance, TypeOK
  <2>4. Current(n) = <<n, visits[n]>> /\ Current(n) \in Instance
    <3>1. visits[n] \in 1..MaxVisits[n]
      BY <1>0, <2>2, GraphAssumption DEF VisitLimits
    <3>. QED
      BY <1>0, <3>1, InstanceFacts DEF Current
  <2>5. answer'[Current(n)] = event.visit
    BY <2>1, <2>4 DEF TypeOK
  <2>6. event.visit \in Nat /\ event.visit <= visits[n] /\ <<n, event.visit>> \in Instance
    BY JobFacts
  <2>7. ASSUME event.visit # visits[n]
        PROVE  extra # 0 /\ event.visit < visits[n]
    <3>1. event.visit < visits[n] /\ event.visit \in 1..MaxVisits[n]
      BY <1>0, <2>6, <2>7, InstanceFacts
    <3>2. instance[<<n, event.visit>>] = "completed"
      BY <3>1 DEF LogMatchesTasks
    <3>. QED
      BY <3>1, <3>2 DEF VerdictsAreOwed
  <2>8. JobsWereStarted' /\ EventsHaveJobs'
    BY <2>2 DEF JobsWereStarted, EventsHaveJobs
  <2>9. ASSUME NEW m \in Node, NEW other \in mailbox'[m]
        PROVE  /\ m # n /\ other \in mailbox[m]
               /\ <<m, other.visit>> \in Instance
               /\ instance'[<<m, other.visit>>] = instance[<<m, other.visit>>]
    <3>1. m # n /\ other \in mailbox[m]
      BY <2>2, <2>9
    <3>2. <<m, other.visit>> \in Instance /\ <<m, other.visit>> # Current(n)
      BY <2>4, <3>1, JobFacts
    <3>. QED
      BY <2>3, <3>1, <3>2
  <2>10. extra = 0 => job[Current(n)] # "open"
    BY <2>4, <2>7 DEF VerdictsAreOwed
  <2>11. VerdictsAreOwed'
    <3>. SUFFICES ASSUME extra = 0
                  PROVE  /\ \A m \in Node : \A other \in mailbox'[m] :
                              /\ job[<<m, other.visit>>] # "open"
                              /\ instance'[<<m, other.visit>>] # "completed"
                         /\ \A i \in Instance :
                              Mode[i[1]] = "callback" /\ instance'[i] = "completed"
                                => job[i] # "open"
      BY <2>2 DEF VerdictsAreOwed
    <3>1. \A m \in Node : \A other \in mailbox'[m] :
            job[<<m, other.visit>>] # "open" /\ instance'[<<m, other.visit>>] # "completed"
      BY <2>9 DEF VerdictsAreOwed
    <3>2. \A i \in Instance :
            Mode[i[1]] = "callback" /\ instance'[i] = "completed" => job[i] # "open"
      BY <2>3, <2>10 DEF VerdictsAreOwed
    <3>. QED
      BY <3>1, <3>2
  <2>12. StaleAnswerNeedsExtra'
    <3>. SUFFICES ASSUME NEW i \in Instance, answer'[i] \notin {0, i[2]}
                  PROVE  extra > 0 /\ answer'[i] < i[2]
      BY <2>2 DEF StaleAnswerNeedsExtra
    <3>1. CASE i = Current(n)
      <4>1. i[2] = visits[n] /\ answer'[i] = event.visit /\ extra \in Nat
        BY <2>4, <2>5, <3>1 DEF TypeOK
      <4>. QED
        BY <2>7, <4>1
    <3>2. CASE i # Current(n)
      BY <2>3, <3>2 DEF StaleAnswerNeedsExtra
    <3>. QED
      BY <3>1, <3>2
  <2>. QED
    BY <2>8, <2>11, <2>12
<1>3. ASSUME NEW i \in Instance, NEW verdict \in {"completed", "failed"}, AgentCallsBack(i, verdict)
      PROVE  CallbacksAreOwed' /\ StaleAnswerNeedsExtra'
  <2>1. /\ UNCHANGED <<visits, instance, extra, answer>>
        /\ Mode[i[1]] = "callback" /\ job[i] = "open"
        /\ \A j \in Instance : job'[j] = IF j = i THEN verdict ELSE job[j]
        /\ \A m \in Node : mailbox'[m] = IF m = i[1] THEN {[visit |-> i[2], status |-> verdict]}
                                                     ELSE mailbox[m]
    BY <1>3 DEF AgentCallsBack, Signal, mainVars, TypeOK
  <2>2. JobsWereStarted'
    BY <2>1 DEF JobsWereStarted
  <2>3. ASSUME NEW m \in Node, NEW event \in mailbox'[m]
        PROVE  /\ <<m, event.visit>> \in Instance
               /\ \/ <<m, event.visit>> = i /\ event.visit = i[2] /\ m = i[1]
                  \/ event \in mailbox[m]
    BY <1>0, <2>1, <2>3, JobFacts
  <2>4. EventsHaveJobs'
    <3>. SUFFICES ASSUME NEW m \in Node, NEW event \in mailbox'[m]
                  PROVE  /\ Mode[m] = "callback" /\ event.visit \in 1..visits[m]
                         /\ job'[<<m, event.visit>>] # "none"
      BY <2>1 DEF EventsHaveJobs
    <3>1. i[2] \in 1..visits[i[1]]
      BY <1>0, <2>1, InstanceFacts DEF JobsWereStarted
    <3>. QED
      BY <2>1, <2>3, <3>1 DEF EventsHaveJobs
  <2>5. VerdictsAreOwed'
    BY <2>1, <2>3 DEF VerdictsAreOwed
  <2>. QED
    BY <2>1, <2>2, <2>4, <2>5 DEF StaleAnswerNeedsExtra
<1>4. ASSUME NEW i \in Instance, ExtraCallback(i)
      PROVE  CallbacksAreOwed' /\ StaleAnswerNeedsExtra'
  <2>1. /\ UNCHANGED <<visits, instance, job, answer>>
        /\ Mode[i[1]] = "callback" /\ job[i] # "none" /\ extra' = extra + 1 /\ extra \in Nat
        /\ \A m \in Node : m # i[1] => mailbox'[m] = mailbox[m]
        /\ \A event \in mailbox'[i[1]] : event.visit = i[2]
    BY <1>0, <1>4 DEF ExtraCallback, Signal, mainVars, TypeOK
  <2>2. JobsWereStarted'
    BY <2>1 DEF JobsWereStarted
  <2>3. EventsHaveJobs'
    <3>. SUFFICES ASSUME NEW m \in Node, NEW event \in mailbox'[m]
                  PROVE  /\ Mode[m] = "callback" /\ event.visit \in 1..visits[m]
                         /\ job[<<m, event.visit>>] # "none"
      BY <2>1 DEF EventsHaveJobs
    <3>1. i[2] \in 1..visits[i[1]]
      BY <1>0, <2>1, InstanceFacts DEF JobsWereStarted
    <3>. QED
      BY <1>0, <2>1, <3>1 DEF EventsHaveJobs
  <2>4. extra' # 0 /\ extra' > 0
    BY <2>1
  <2>. QED
    BY <2>1, <2>2, <2>3, <2>4 DEF VerdictsAreOwed, StaleAnswerNeedsExtra
<1>5. CASE /\ UNCHANGED <<mailbox, job, extra, answer>>
           /\ \A n \in Node : visits[n] <= visits'[n]
           /\ \A i \in Instance : instance'[i] = "completed" =>
                instance[i] = "completed" \/ Mode[i[1]] # "callback"
  <2>0. \A n \in Node : visits'[n] \in Nat
    BY TypeInductive DEF TypeOK
  <2>1. JobsWereStarted'
    BY <1>0, <1>5, <2>0 DEF JobsWereStarted
  <2>2. EventsHaveJobs'
    <3>1. \A n \in Node : 1..visits[n] \subseteq 1..visits'[n]
      BY <1>0, <1>5, <2>0
    <3>. QED
      BY <1>5, <3>1 DEF EventsHaveJobs
  <2>3. VerdictsAreOwed'
    <3>1. \A n \in Node : \A event \in mailbox[n] :
            /\ Mode[n] = "callback"
            /\ <<n, event.visit>> \in Instance /\ <<n, event.visit>>[1] = n
      BY JobFacts DEF EventsHaveJobs
    <3>. QED
      BY <1>5, <3>1 DEF VerdictsAreOwed
  <2>. QED
    BY <1>5, <2>1, <2>2, <2>3 DEF StaleAnswerNeedsExtra
<1>. QED
  BY <1>1, <1>2, <1>3, <1>4, <1>5, CallbacksUntouched DEF Agents

-----------------------------------------------------------------------------
(***************************************************************************)
(* The inductive invariant holds in every reachable state of every graph:  *)
(* TypeOK, the numbering of the visits, the log, the count of starts, the  *)
(* bookkeeping of failures and returns, the credit of the "all" joins, the *)
(* counters of the edges, and whose callbacks are under way.               *)
(***************************************************************************)
THEOREM InductiveInvariant == Spec => []IInv
<1>1. Init => IInv
  <2> SUFFICES ASSUME Init PROVE IInv
    OBVIOUS
  <2>1. TypeOK
    BY GraphAssumption DEF Init, TypeOK, Place, TaskState, Cause, InstanceState, JobState
  <2>2. Started = {}
    BY DEF Init, Started
  <2>3. StartsAreCounted
    <3>1. IsFiniteSet(Started) /\ Cardinality(Started) = 0
      BY <2>2, FS_EmptySet
    <3>2. QED BY <3>1, GraphAssumption DEF Init, StartsAreCounted
  <2>4. VisitLimits /\ LogMatchesTasks
    BY GraphAssumption, InstanceFacts DEF Init, VisitLimits, LogMatchesTasks, StatusMatches
  <2>5. FailureIsPending /\ NothingUnprocessed /\ ReturnIsFinal
    BY DEF Init, FailureIsPending, NothingUnprocessed, Done, ReturnIsFinal
  <2>6. JoinCredit
    <3> SUFFICES ASSUME NEW n \in Node, NEW m \in Pred(n)
                 PROVE  visits[n] + (IF m \in arrivals[n] THEN 1 ELSE 0)
                          + (IF Unspent(m) THEN 1 ELSE 0) <= visits[m]
      BY DEF JoinCredit
    <3>1. m \in Node /\ m # Token
      BY GraphAssumption DEF Pred
    <3>2. QED BY <3>1 DEF Init, Unspent
  <2>7. RunsAreCaused
    <3> SUFFICES ASSUME NEW n \in Node
                 PROVE  visits[n] + (IF arrivals[n] # {} THEN 1 ELSE 0)
                          <= (IF n \in StartNode THEN 1 ELSE 0) + Cardinality(Arrived(n))
      BY DEF RunsAreCaused
    <3>1. Cardinality(Arrived(n)) \in Nat
      BY <2>1, ArrivedFacts DEF Arrived, TypeOK
    <3>2. visits[n] = 0 /\ (arrivals[n] # {} => n \in StartNode)
      BY DEF Init
    <3>. QED
      BY <3>1, <3>2
  <2>8. EdgesFollowSpent
    <3> SUFFICES ASSUME NEW f \in Edge
                 PROVE  taken[f] + skipped[f] = Cardinality(Represented(f)) * Spent(From[f])
      BY DEF EdgesFollowSpent
    <3>1. Cardinality(Represented(f)) \in Nat
      BY RepresentedFacts DEF Represented
    <3>2. Spent(From[f]) = 0
      BY GraphAssumption DEF Init, Spent, Unspent
    <3>3. taken[f] = 0 /\ skipped[f] = 0
      BY DEF Init
    <3>. QED
      BY <3>1, <3>2, <3>3
  <2>9. CallbacksAreOwed /\ StaleAnswerNeedsExtra
    BY DEF Init, CallbacksAreOwed, JobsWereStarted, EventsHaveJobs, VerdictsAreOwed,
           StaleAnswerNeedsExtra
  <2>. QED
    BY <2>1, <2>3, <2>4, <2>5, <2>6, <2>7, <2>8, <2>9 DEF IInv
<1>2. IInv /\ [Next]_vars => IInv'
  BY TypeInductive, VisitLimitsInductive, LogInductive, StartsInductive, FailureInductive,
     ProcessedInductive, ReturnInductive, JoinInductive, CauseInductive, EdgesInductive,
     CallbacksInductive DEF IInv
<1>3. QED BY <1>1, <1>2, PTL DEF Spec
-----------------------------------------------------------------------------
(***************************************************************************)
(* Loops are bounded: on every graph no node exceeds its max_visits and no *)
(* run starts more instances than max_total_visits.                        *)
(***************************************************************************)
THEOREM VisitsAreBounded == Spec => []VisitsBounded
<1>1. IInv => VisitsBounded
  BY DEF IInv, VisitLimits, StartsAreCounted, VisitsBounded
<1>2. QED BY <1>1, InductiveInvariant, PTL

(***************************************************************************)
(* The log of instances agrees with the visits and with the live tasks.    *)
(***************************************************************************)
THEOREM LogIsFaithful == Spec => []InstanceLog
<1>1. IInv => InstanceLog
  <2> SUFFICES ASSUME IInv, NEW n \in Node
               PROVE  /\ \A v \in 1..MaxVisits[n] :
                           instance[<<n, v>>] = "absent" <=> v > visits[n]
                      /\ \A v \in 1..MaxVisits[n] :
                           v < visits[n] => instance[<<n, v>>] = "completed"
                      /\ (task[n] \in {"dispatching", "waiting", "raised"})
                           <=> (Live(n) = {visits[n]})
    BY DEF InstanceLog
  <2>1. visits[n] \in Nat /\ visits[n] <= MaxVisits[n] /\ MaxVisits[n] \in Nat
        /\ (task[n] # "none" => visits[n] > 0)
    BY GraphAssumption DEF IInv, TypeOK, VisitLimits
  <2>2. \A v \in 1..MaxVisits[n] :
          /\ v > visits[n] => instance[<<n, v>>] = "absent"
          /\ v < visits[n] => instance[<<n, v>>] = "completed"
          /\ v = visits[n] => StatusMatches(instance[<<n, v>>], task[n])
    BY DEF IInv, LogMatchesTasks
  <2>3. \A v \in 1..MaxVisits[n] : instance[<<n, v>>] = "absent" <=> v > visits[n]
    BY <2>1, <2>2 DEF StatusMatches
  <2>4. \A v \in Live(n) : v = visits[n]
    BY <2>1, <2>2 DEF Live
  <2>5. visits[n] \in Live(n) <=> task[n] \in {"dispatching", "waiting", "raised"}
    BY <2>1, <2>2 DEF Live, StatusMatches
  <2>6. QED BY <2>2, <2>3, <2>4, <2>5
<1>2. QED BY <1>1, InductiveInvariant, PTL

LEMMA ReturnedRunsAreClean ==
  IInv => /\ CompletedIsClean
          /\ result # "none" => \A i \in Instance : instance[i] \notin {"running", "suspended"}
<1>1. ASSUME IInv, Running = {}, NEW i \in Instance
      PROVE  instance[i] \notin {"running", "suspended"}
  <2>1. /\ i[1] \in Node /\ i[2] \in 1..MaxVisits[i[1]] /\ i = <<i[1], i[2]>>
        /\ MaxVisits[i[1]] \in Nat /\ visits[i[1]] \in Nat
    BY <1>1, InstanceFacts, GraphAssumption DEF IInv, TypeOK
  <2>2. task[i[1]] = "none"
    BY <1>1, <2>1 DEF Running
  <2>3. i[2] > visits[i[1]] \/ i[2] < visits[i[1]] \/ i[2] = visits[i[1]]
    BY <2>1
  <2>4. QED BY <1>1, <2>1, <2>2, <2>3 DEF IInv, LogMatchesTasks, StatusMatches
<1>2. ASSUME IInv, result # "none" PROVE Running = {}
  BY <1>2 DEF IInv, ReturnIsFinal
<1>3. IInv => CompletedIsClean
  <2> SUFFICES ASSUME IInv, result = "completed" PROVE CompletedIsClean
    BY DEF CompletedIsClean
  <2>1. /\ failure = "none" /\ wfStatus = "completed" /\ Running = {}
        /\ \A n \in Node : ~NodeIsReady(n) /\ (arrivals[n] # {} => visits[n] < MaxVisits[n])
    BY DEF IInv, ReturnIsFinal
  <2>2. ASSUME NEW i \in Instance PROVE instance[i] \in {"absent", "completed"}
    <3>1. instance[i] # "failed"
      BY <2>1 DEF IInv, FailureIsPending, Running
    <3>2. instance[i] \in InstanceState
      BY DEF IInv, TypeOK
    <3>3. QED BY <1>1, <2>1, <3>1, <3>2 DEF InstanceState
  <2>3. QED BY <2>1, <2>2 DEF CompletedIsClean
<1>4. QED BY <1>1, <1>2, <1>3

(***************************************************************************)
(* "completed" is only reported for a run without a failed or live         *)
(* instance, a node able to start, or an arrival at an exhausted node.     *)
(***************************************************************************)
THEOREM CompletedRunsAreClean == Spec => []CompletedIsClean
  BY InductiveInvariant, ReturnedRunsAreClean, PTL

(***************************************************************************)
(* run() returns only when every task it started has been drained.         *)
(***************************************************************************)
THEOREM RunsDrain == Spec => []NoTaskOutlivesRun
<1>1. IInv => NoTaskOutlivesRun
  BY DEF IInv, ReturnIsFinal, NoTaskOutlivesRun
<1>2. QED BY <1>1, InductiveInvariant, PTL

(***************************************************************************)
(* The v-th visit of an "all" node is preceded by v completions of each of *)
(* its predecessors, in every graph, whatever loops it has.                *)
(***************************************************************************)
THEOREM JoinsKeepStep == Spec => []JoinAllInStep
<1>1. IInv => JoinAllInStep
  <2> SUFFICES ASSUME IInv, NEW n \in Node, Join[n] # "any", NEW m \in Pred(n)
               PROVE  visits[n] <= Cardinality(Completed(m))
    BY DEF JoinAllInStep
  <2>1. /\ m \in Node /\ visits[n] \in Nat /\ visits[m] \in Nat
        /\ MaxVisits[m] \in Nat /\ visits[m] <= MaxVisits[m]
    BY GraphAssumption DEF Pred, IInv, TypeOK, VisitLimits
  <2> DEFINE k == IF Unspent(m) THEN visits[m] - 1 ELSE visits[m]
  <2>2. visits[n] <= k
    BY <2>1 DEF IInv, JoinCredit
  <2>3. 1..k \subseteq Completed(m)
    <3> SUFFICES ASSUME NEW v \in 1..k PROVE v \in Completed(m)
      OBVIOUS
    <3>1. v \in 1..MaxVisits[m]
      BY <2>1
    <3>2. CASE v < visits[m]
      BY <3>1, <3>2, <2>1 DEF IInv, LogMatchesTasks, Completed
    <3>3. CASE v = visits[m]
      <4>1. ~Unspent(m)
        BY <2>1, <3>3
      <4>2. task[m] = "none" /\ instance[<<m, v>>] # "failed"
        BY <2>1, <3>1, <3>3, <4>1 DEF Unspent, Current
      <4>3. QED BY <2>1, <3>1, <3>3, <4>2 DEF IInv, LogMatchesTasks, StatusMatches, Completed
    <3>4. QED BY <2>1, <3>2, <3>3
  <2>4. k \in Nat
    BY <2>1, <2>2
  <2>5. IsFiniteSet(Completed(m)) /\ Cardinality(1..k) = k
    <3>1. IsFiniteSet(1..MaxVisits[m])
      BY <2>1, FS_Interval
    <3>2. IsFiniteSet(Completed(m))
      BY <3>1, FS_Subset DEF Completed
    <3>3. 1 \in Int /\ k \in Int
      BY <2>4
    <3>4. Cardinality(1..k) = IF 1 > k THEN 0 ELSE k - 1 + 1
      BY ONLY <3>3, FS_Interval
    <3>5. QED BY ONLY <2>4, <3>2, <3>4
  <2>6. Cardinality(1..k) <= Cardinality(Completed(m)) /\ Cardinality(Completed(m)) \in Nat
    BY ONLY <2>3, <2>5, FS_Subset, FS_CardinalityType
  <2> HIDE DEF k
  <2>7. QED BY <2>1, <2>2, <2>4, <2>5, <2>6
<1>2. QED BY <1>1, InductiveInvariant, PTL

(***************************************************************************)
(* No node runs without a cause: on every graph each visit is bought by    *)
(* the start token or by what came along one edge, and nothing buys twice. *)
(***************************************************************************)
THEOREM RunsHaveCauses == Spec => []RunsAreCaused
<1>1. IInv => RunsAreCaused
  BY DEF IInv
<1>2. QED BY <1>1, InductiveInvariant, PTL

LEMMA CompletedCount ==
  ASSUME IInv, NEW m \in Node
  PROVE  Cardinality(Completed(m)) - (IF task[m] = "ok" THEN 1 ELSE 0) = Spent(m)
<1> DEFINE k == IF task[m] = "ok" THEN visits[m] ELSE Spent(m)
<1>1. /\ visits[m] \in Nat /\ MaxVisits[m] \in Nat /\ visits[m] <= MaxVisits[m]
      /\ task[m] # "none" => visits[m] > 0
  BY GraphAssumption DEF IInv, TypeOK, VisitLimits
<1>2. k \in 0..visits[m] /\ Spent(m) = k - (IF task[m] = "ok" THEN 1 ELSE 0)
  <2>1. CASE Unspent(m)
    <3>1. visits[m] > 0 /\ Spent(m) = visits[m] - 1
      BY <1>1, <2>1 DEF Unspent, Spent
    <3>. QED
      BY <1>1, <3>1
  <2>2. CASE ~Unspent(m)
    <3>1. task[m] = "none" /\ Spent(m) = visits[m] - 0
      BY <2>2 DEF Unspent, Spent
    <3>. QED
      BY <1>1, <3>1
  <2>. QED
    BY <2>1, <2>2
<1>3. ASSUME NEW v \in 1..MaxVisits[m]
      PROVE  instance[<<m, v>>] = "completed" <=> v <= k
  <2>1. /\ v > visits[m] => instance[<<m, v>>] = "absent"
        /\ v < visits[m] => instance[<<m, v>>] = "completed"
        /\ v = visits[m] => StatusMatches(instance[<<m, v>>], task[m])
    BY DEF IInv, LogMatchesTasks
  <2>2. CASE v > visits[m]
    BY <1>1, <1>2, <2>1, <2>2
  <2>3. CASE v < visits[m]
    <3>1. k = visits[m] \/ k = visits[m] - 1
      BY <1>1 DEF Spent
    <3>. QED
      BY <1>1, <2>1, <2>3, <3>1
  <2>4. CASE v = visits[m]
    <3>1. instance[<<m, v>>] = "completed" <=> task[m] = "ok" \/ ~Unspent(m)
      BY <1>1, <2>1, <2>4 DEF StatusMatches, Unspent, Current
    <3>2. k = visits[m] <=> task[m] = "ok" \/ ~Unspent(m)
      BY <1>1 DEF Spent
    <3>3. v <= k <=> k = visits[m]
      BY <1>1, <1>2, <2>4
    <3>. QED
      BY ONLY <3>1, <3>2, <3>3
  <2>. QED
    BY <1>1, <2>2, <2>3, <2>4
<1> HIDE DEF k
<1>4. k \in Nat /\ k <= MaxVisits[m]
  BY <1>1, <1>2
<1>5. Completed(m) = 1..k
  <2>1. \A v \in 1..k : v \in 1..MaxVisits[m] /\ v <= k
    BY <1>1, <1>4
  <2>2. \A v \in 1..MaxVisits[m] : v <= k => v \in 1..k
    BY <1>4
  <2>. QED
    BY <1>3, <2>1, <2>2 DEF Completed
<1>6. Cardinality(1..k) = k
  <2>1. 1 \in Int /\ k \in Int
    BY <1>4
  <2>2. Cardinality(1..k) = IF 1 > k THEN 0 ELSE k - 1 + 1
    BY ONLY <2>1, FS_Interval
  <2>. QED
    BY ONLY <1>4, <2>2
<1>. QED
  BY <1>2, <1>4, <1>5, <1>6

(***************************************************************************)
(* The counters on display are exact on every graph: taken and skipped add *)
(* up to the processed completions, one for each parallel edge.            *)
(***************************************************************************)
THEOREM EdgeCountsAreExact == Spec => []EdgeCountsAddUp
<1>1. IInv => EdgeCountsAddUp
  <2> SUFFICES ASSUME IInv, NEW f \in Edge
               PROVE  taken[f] + skipped[f]
                        = Cardinality(Represented(f)) *
                            (Cardinality(Completed(From[f]))
                               - (IF task[From[f]] = "ok" THEN 1 ELSE 0))
    BY DEF EdgeCountsAddUp
  <2>1. From[f] \in Node
    BY GraphAssumption
  <2>2. taken[f] + skipped[f] = Cardinality(Represented(f)) * Spent(From[f])
    BY DEF IInv, EdgesFollowSpent
  <2>. QED
    BY ONLY IInv, <2>1, <2>2, CompletedCount
<1>2. QED BY <1>1, InductiveInvariant, PTL

(***************************************************************************)
(* An instance takes the answer of an earlier visit only if some agent     *)
(* called back more than once for one job; of a later visit, never.        *)
(***************************************************************************)
THEOREM AnswersBelongToVisits == Spec => []StaleAnswerNeedsExtra
<1>1. IInv => StaleAnswerNeedsExtra
  BY DEF IInv
<1>2. QED BY <1>1, InductiveInvariant, PTL
-----------------------------------------------------------------------------
(***************************************************************************)
(* After a failure nothing starts and the failure is not forgotten.        *)
(***************************************************************************)
THEOREM FailedRunsOnlyDrain == Spec => FailureStopsStarts
<1>1. IInv /\ [Next]_vars => [failure # "none" => visits' = visits /\ failure' # "none"]_vars
  <2> SUFFICES ASSUME IInv, [Next]_vars, failure # "none"
               PROVE  visits' = visits /\ failure' # "none"
    OBVIOUS
  <2>1. CASE StartBatch
    <3>1. PICK batch \in SUBSET ReadyNode, raising \in SUBSET ReadyNode : Start(batch, raising)
      BY <2>1 DEF StartBatch
    <3>2. batch = {}
      BY DEF ReadyNode
    <3>3. QED BY <3>1, <3>2 DEF Start, IInv, TypeOK
  <2>2. CASE Finish
    BY <2>2 DEF Finish
  <2>3. CASE ProcessDone
    <3>1. PICK followed : Process(followed)
      BY <2>3 DEF ProcessDone
    <3>2. QED BY <3>1 DEF Process
  <2>4. CASE Quiet \/ \E n \in Node : AgentEffect(n)
    BY <2>4 DEF Quiet, AgentEffect, mainVars
  <2>5. QED BY <2>1, <2>2, <2>3, <2>4, StepCases DEF Main
<1>2. QED BY <1>1, InductiveInvariant, PTL DEF Spec, FailureStopsStarts

(***************************************************************************)
(* A "failed" that graph_state has shown is the status the run ends with.  *)
(***************************************************************************)
THEOREM FailedStatusSticks == Spec => FailedStatusIsFinal
<1>1. IInv /\ [Next]_vars
        => [wfStatus = "failed" => wfStatus' = "failed" /\ result' # "completed"]_vars
  <2> SUFFICES ASSUME IInv, [Next]_vars, wfStatus = "failed"
               PROVE  wfStatus' = "failed" /\ result' # "completed"
    OBVIOUS
  <2>0. result # "completed"
    BY DEF IInv, ReturnIsFinal
  <2>1. CASE StartBatch
    <3>1. PICK batch \in SUBSET ReadyNode, raising \in SUBSET ReadyNode : Start(batch, raising)
      BY <2>1 DEF StartBatch
    <3>2. QED BY <2>0, <3>1 DEF Start
  <2>2. CASE Finish
    <3>1. failure # "none"
      BY <2>2 DEF Finish, IInv, FailureIsPending, Running
    <3>2. QED BY <2>2, <3>1 DEF Finish
  <2>3. CASE ProcessDone
    <3>1. PICK followed : Process(followed)
      BY <2>3 DEF ProcessDone
    <3>2. QED BY <2>0, <3>1 DEF Process
  <2>4. CASE Quiet \/ \E n \in Node : AgentEffect(n)
    BY <2>0, <2>4 DEF Quiet, AgentEffect, mainVars, CompleteNode, FailNode
  <2>5. QED BY <2>1, <2>2, <2>3, <2>4, StepCases DEF Main
<1>2. QED BY <1>1, InductiveInvariant, PTL DEF Spec, FailedStatusIsFinal

(***************************************************************************)
(* Both together: no failure is forgotten, and none starts anything more.  *)
(***************************************************************************)
THEOREM FailuresAreFinal == Spec => FailureIsFinal
BY FailedRunsOnlyDrain, FailedStatusSticks DEF FailureIsFinal

(***************************************************************************)
(* An arrival is only ever consumed by a start of its node.                *)
(***************************************************************************)
THEOREM ArrivalsAreKept == Spec => ArrivalsKept
<1>1. IInv /\ [Next]_vars
        => [\A n \in Node : arrivals[n] \subseteq arrivals'[n] \/ visits'[n] > visits[n]]_vars
  <2> SUFFICES ASSUME IInv, [Next]_vars, NEW n \in Node
               PROVE  arrivals[n] \subseteq arrivals'[n] \/ visits'[n] > visits[n]
    OBVIOUS
  <2>1. CASE StartBatch
    <3>1. PICK batch \in SUBSET ReadyNode, raising \in SUBSET ReadyNode : Start(batch, raising)
      BY <2>1 DEF StartBatch
    <3>2. visits[n] \in Nat
      BY DEF IInv, TypeOK
    <3>3. QED BY <3>1, <3>2 DEF Start, Consumed
  <2>2. CASE Finish
    BY <2>2 DEF Finish
  <2>3. CASE ProcessDone
    <3>1. PICK followed : Process(followed)
      BY <2>3 DEF ProcessDone
    <3>2. QED BY <3>1 DEF Process, HandedOn
  <2>4. CASE Quiet \/ \E m \in Node : AgentEffect(m)
    BY <2>4 DEF Quiet, AgentEffect, mainVars
  <2>5. QED BY <2>1, <2>2, <2>3, <2>4, StepCases DEF Main
<1>2. QED BY <1>1, InductiveInvariant, PTL DEF Spec, ArrivalsKept

(***************************************************************************)
(* No step reopens or reverses the verdict on an instance.                 *)
(***************************************************************************)
THEOREM VerdictsAreFinal == Spec => VerdictIsFinal
<1>1. IInv /\ [Next]_vars
        => [\A i \in Instance : instance[i] \in {"completed", "failed"} =>
              instance'[i] = instance[i]]_vars
  <2> SUFFICES ASSUME IInv, [Next]_vars, NEW i \in Instance,
                      instance[i] \in {"completed", "failed"}
               PROVE  instance'[i] = instance[i]
    OBVIOUS
  <2>0. /\ i[1] \in Node /\ i[2] \in 1..MaxVisits[i[1]] /\ i = <<i[1], i[2]>>
        /\ i[2] \in Nat /\ visits[i[1]] \in Nat
        /\ i[2] = visits[i[1]] => StatusMatches(instance[i], task[i[1]])
        /\ i[2] > visits[i[1]] => instance[i] = "absent"
    BY InstanceFacts DEF IInv, TypeOK, LogMatchesTasks
  <2>1. CASE StartBatch
    <3>1. PICK batch \in SUBSET ReadyNode, raising \in SUBSET ReadyNode : Start(batch, raising)
      BY <2>1 DEF StartBatch
    <3>2. QED BY <2>0, <3>1 DEF Start
  <2>2. CASE Finish
    BY <2>2 DEF Finish
  <2>3. CASE ProcessDone
    <3>1. PICK followed : Process(followed)
      BY <2>3 DEF ProcessDone
    <3>2. QED BY <2>0, <3>1 DEF Process, Current, StatusMatches
  <2>4. ASSUME NEW n \in Node, AgentEffect(n) PROVE instance'[i] = instance[i]
    <3>1. i # Current(n)
      BY <2>0, <2>4 DEF AgentEffect, Current, StatusMatches
    <3>2. \A state : SetInstance(n, state) => instance'[i] = instance[i]
      BY <3>1 DEF SetInstance, IInv, TypeOK
    <3>3. QED BY <2>4, <3>2 DEF AgentEffect, CompleteNode, FailNode
  <2>5. CASE Quiet
    BY <2>5 DEF Quiet
  <2>6. QED BY <2>1, <2>2, <2>3, <2>4, <2>5, StepCases DEF Main
<1>2. QED BY <1>1, InductiveInvariant, PTL DEF Spec, VerdictIsFinal
-----------------------------------------------------------------------------
(***************************************************************************)
(* The workflow implements GraphRun: on every graph the log and the result *)
(* keep the promises made to their readers.                                *)
(***************************************************************************)
LEMMA RunStep ==
  ASSUME IInv, IInv', result = "none", \A i \in Instance : Run!Moves(i)
  PROVE  Run!Step
<1>1. Run!Instance = Instance
  BY DEF Run!Instance, Instance
<1>2. [i \in Instance |-> LogState(i)]' \in [Run!Instance -> Run!LogState]
  BY <1>1 DEF IInv, TypeOK, InstanceState, LogState, Run!LogState, Run!Verdict
<1>3. {i \in Instance : [j \in Instance |-> LogState(j)]'[i] # "absent"} = Started'
  BY DEF LogState, Started
<1>4. Cardinality(Started)' <= MaxTotal
  BY DEF IInv, StartsAreCounted
<1>5. ASSUME result' # "none" PROVE result' \in Run!Verdict /\ Run!MayClose(result')
  <2>1. result' \in {"completed", "failed"}
    BY <1>5 DEF IInv, TypeOK
  <2>2. (/\ CompletedIsClean
         /\ result # "none" => \A i \in Instance : instance[i] \notin {"running", "suspended"})'
    BY ReturnedRunsAreClean, PTL
  <2>3. result' = "completed" => \A i \in Instance : instance'[i] # "failed"
    BY <2>2 DEF CompletedIsClean
  <2>4. \A i \in Instance : LogState(i)' # "live"
                          /\ (LogState(i)' = "failed" => instance'[i] = "failed")
    BY <1>5, <2>2 DEF LogState, IInv, TypeOK, InstanceState
  <2>5. QED BY <1>1, <2>1, <2>3, <2>4 DEF Run!Verdict, Run!MayClose
<1>6. \A S : Run!Cardinality(S) = Cardinality(S)
  BY DEF Run!Cardinality, Cardinality
<1>7. QED BY <1>1, <1>2, <1>3, <1>4, <1>5, <1>6 DEF Run!Step

THEOREM RunIsGraphRun == Spec => ImplementsGraphRun
<1>1. Init => Run!Init
  BY DEF Init, Run!Init, Run!Instance, Instance, LogState
<1>2. IInv /\ IInv' /\ [Next]_vars
        => [Run!Step]_<<[i \in Instance |-> LogState(i)],
                        IF result = "none" THEN "open" ELSE result>>
  <2> SUFFICES ASSUME IInv, IInv', [Next]_vars
               PROVE  [Run!Step]_<<[i \in Instance |-> LogState(i)],
                                   IF result = "none" THEN "open" ELSE result>>
    OBVIOUS
  <2>0. Run!Instance = Instance
    BY DEF Run!Instance, Instance
  <2>1. CASE StartBatch
    <3>1. PICK batch \in SUBSET ReadyNode, raising \in SUBSET ReadyNode : Start(batch, raising)
      BY <2>1 DEF StartBatch
    <3>2. result = "none"
      BY <2>1 DEF StartBatch, IInv, ReturnIsFinal
    <3>3. ASSUME NEW i \in Instance PROVE Run!Moves(i)
      <4>1. /\ i[1] \in Node /\ i[2] \in 1..MaxVisits[i[1]] /\ i = <<i[1], i[2]>>
            /\ i[2] \in Nat \ {0} /\ visits[i[1]] \in Nat
        BY InstanceFacts DEF IInv, TypeOK
      <4>2. CASE i[1] \in batch /\ i[2] = visits[i[1]] + 1
        <5>1. instance[i] = "absent"
          BY <4>1, <4>2 DEF IInv, LogMatchesTasks
        <5>2. instance'[i] \in {"running", "completed"}
          BY <3>1, <4>2 DEF Start
        <5>3. failure = "none" /\ task[i[1]] = "none" /\ Done = {}
          BY <2>1, <4>2 DEF ReadyNode, StartBatch, IInv, NothingUnprocessed
        <5>4. \A j \in Instance : instance[j] # "failed"
          BY <5>3 DEF IInv, FailureIsPending, Done
        <5>5. ASSUME i[2] > 1
              PROVE  <<i[1], i[2] - 1>> \in Instance /\ instance[<<i[1], i[2] - 1>>] = "completed"
          <6>1. MaxVisits[i[1]] \in Nat
            BY <4>1, GraphAssumption
          <6>2. i[2] - 1 \in 1..MaxVisits[i[1]] /\ i[2] - 1 \in Nat
            BY <4>1, <5>5, <6>1
          <6>3. <<i[1], i[2] - 1>> \in Instance
            BY <4>1, <6>2, InstanceFacts
          <6>4. StatusMatches(instance[<<i[1], i[2] - 1>>], task[i[1]])
            BY <4>1, <4>2, <6>2 DEF IInv, LogMatchesTasks
          <6>5. QED BY <5>3, <5>4, <6>3, <6>4 DEF StatusMatches
        <5>6. Run!MayBegin(i)
          BY <2>0, <5>4, <5>5 DEF Run!MayBegin, LogState
        <5>7. QED BY <5>1, <5>2, <5>6 DEF Run!Moves, LogState
      <4>3. CASE ~(i[1] \in batch /\ i[2] = visits[i[1]] + 1)
        BY <3>1, <4>3 DEF Start, Run!Moves, LogState
      <4>4. QED BY <4>2, <4>3
    <3>4. QED BY <3>2, <3>3, RunStep
  <2>2. CASE Finish
    <3>1. result = "none" /\ instance' = instance
      BY <2>2 DEF Finish, IInv, ReturnIsFinal
    <3>2. \A i \in Instance : Run!Moves(i)
      BY <3>1 DEF Run!Moves, LogState
    <3>3. QED BY <3>1, <3>2, RunStep
  <2>3. CASE ProcessDone
    <3>1. PICK followed : Process(followed)
      BY <2>3 DEF ProcessDone
    <3>2. result = "none"
      BY <2>3 DEF ProcessDone, IInv, ReturnIsFinal
    <3>3. ASSUME NEW i \in Instance PROVE Run!Moves(i)
      <4>1. CASE task[i[1]] = "raised" /\ i = Current(i[1])
        <5>1. instance[i] = "running"
          BY <4>1, InstanceFacts DEF IInv, LogMatchesTasks, Current, StatusMatches
        <5>2. instance'[i] = "failed"
          BY <3>1, <4>1 DEF Process
        <5>3. QED BY <5>1, <5>2 DEF Run!Moves, Run!Verdict, LogState
      <4>2. CASE ~(task[i[1]] = "raised" /\ i = Current(i[1]))
        BY <3>1, <4>2 DEF Process, Run!Moves, LogState
      <4>3. QED BY <4>1, <4>2
    <3>4. QED BY <3>2, <3>3, RunStep
  <2>4. ASSUME NEW n \in Node, AgentEffect(n)
        PROVE  Run!Step
    <3>1. result = "none"
      BY <2>4 DEF AgentEffect, IInv, ReturnIsFinal
    <3>2. ASSUME NEW i \in Instance PROVE Run!Moves(i)
      <4>1. CASE i = Current(n)
        <5>1. instance[i] \in {"running", "suspended"}
          BY <2>4, <4>1, InstanceFacts
          DEF AgentEffect, IInv, LogMatchesTasks, Current, StatusMatches
        <5>2. instance'[i] \in {"suspended", "completed", "failed"}
          BY <2>4, <4>1
          DEF AgentEffect, SetInstance, CompleteNode, FailNode, IInv, TypeOK
        <5>3. QED BY <5>1, <5>2 DEF Run!Moves, Run!Verdict, LogState
      <4>2. CASE i # Current(n)
        <5>1. instance'[i] = instance[i]
          BY <2>4, <4>2
          DEF AgentEffect, SetInstance, CompleteNode, FailNode, IInv, TypeOK
        <5>2. QED BY <5>1 DEF Run!Moves, LogState
      <4>3. QED BY <4>1, <4>2
    <3>3. QED BY <3>1, <3>2, RunStep
  <2>5. CASE Quiet
    BY <2>5 DEF Quiet, LogState
  <2>6. QED BY <2>1, <2>2, <2>3, <2>4, <2>5, StepCases DEF Main
<1>3. QED BY <1>1, <1>2, InductiveInvariant, PTL DEF Spec, ImplementsGraphRun, Run!Spec
=============================================================================
