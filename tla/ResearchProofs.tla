--------------------------- MODULE ResearchProofs ---------------------------
(***************************************************************************)
(* Theorems about Research, for every value of its constants.              *)
(***************************************************************************)
EXTENDS ResearchRefinement, FiniteSetTheorems, TLAPS

-----------------------------------------------------------------------------
(* The research tasks that are unfinished.                                 *)

LEMMA InFlightFinite ==
  /\ IsFiniteSet(InFlight)
  /\ Cardinality(InFlight) \in Nat
<1>1. InFlight \subseteq Threads
  BY DEF InFlight
<1> QED
  BY <1>1, ThreadsAssumption, FS_Subset, FS_CardinalityType

\* The number of unfinished tasks is a natural number.
LEMMA UnfinishedType ==
  ASSUME tqResearch \in Seq(Task)
  PROVE  /\ IsFiniteSet(Queued)
         /\ Cardinality(Queued) \in Nat
         /\ Unfinished \in Nat
<1>1. Queued \subseteq 1 .. Len(tqResearch)
  BY DEF Queued
<1>2. IsFiniteSet(1 .. Len(tqResearch))
  BY FS_Interval
<1>3. IsFiniteSet(Queued)
  BY <1>1, <1>2, FS_Subset
<1> QED
  BY <1>3, FS_CardinalityType, InFlightFinite DEF Unfinished

\* Type correctness of the engine's state: the counters, the queue and the
\* program counters of the caller and of the consumers.
LEMMA InitType == Init => TypeOK
<1> SUFFICES ASSUME Init PROVE TypeOK
  OBVIOUS
<1>1. Cardinality(Threads) \in Nat
  BY ThreadsAssumption, FS_CardinalityType
<1>2. numTaskThread \in 0 .. Word - 1
  BY <1>1, ParameterAssumption DEF Init
<1>3. /\ cpc \in [Threads -> {"check", "get", "process", "exited"}]
      /\ task \in [Threads -> Task]
  BY DEF Init, Task, TaskTypes
<1>4. /\ agent \in 0 .. AgentSize
      /\ batch \in 0 .. MaxBatches
  BY ParameterAssumption DEF Init
<1>5. pc \in Searching \cup Outside
  BY DEF Init, Outside
<1>6. tqResearch \in Seq(Task)
  BY DEF Init
<1>7. /\ numIterations \in Nat /\ numProcessed \in Nat /\ maxIterations \in Nat
      /\ carried \in Nat /\ lastDiscount \in Nat
      /\ outcome \in {"none", "completed", "timeout", "killed"}
  BY DEF Init
<1>8. /\ consumeRunning \in BOOLEAN /\ stateAlive \in BOOLEAN /\ expired \in BOOLEAN
      /\ abandoned \in BOOLEAN
  BY DEF Init
<1> QED
  BY <1>2, <1>3, <1>4, <1>5, <1>6, <1>7, <1>8 DEF TypeOK

LEMMA NewTaskType ==
  ASSUME TypeOK
  PROVE  \A type \in TaskTypes : NewTask(type) \in Task
BY ParameterAssumption DEF TypeOK, NewTask, Task

LEMMA TypeStep == TypeOK /\ [Next]_vars => TypeOK'
<1> SUFFICES ASSUME TypeOK, [Next]_vars PROVE TypeOK'
  OBVIOUS
<1> USE ParameterAssumption
<1> USE DEF counters, history, consumerVars, Shared, Goto, Leave, Searching, Outside, TaskTypes, TypeOK
<1>1. CASE DepthLimitedSearch
  BY <1>1 DEF DepthLimitedSearch
<1>2. CASE Reset
  BY <1>2, UnfinishedType DEF Reset
<1>3. CASE Killed \/ Completed \/ Poll
  BY <1>3 DEF Killed, Completed, Poll
<1>4. CASE Drain \/ DiscountDrain \/ StrategyDrain \/ DiscountBarrier \/ StrategyBarrier
  BY <1>4 DEF Drain, DiscountDrain, StrategyDrain, DiscountBarrier, StrategyBarrier,
              WaitTaskQueueIdle
<1>5. CASE TimeOut
  <2>1. tqResearch' \in Seq(Task)
    BY <1>5 DEF TimeOut
  <2> QED
    BY <1>5, <2>1 DEF TimeOut
<1>6. CASE InTime \/ Checkpoint
  BY <1>6 DEF InTime, Checkpoint
<1>7. CASE ParallelDiscount \/ ParallelStrategy
  <2>1. tqResearch' \in Seq(Task)
    <3>1. NewTask("DISCOUNT") \in Task /\ NewTask("STRATEGY") \in Task
      BY NewTaskType
    <3>2. \/ tqResearch' = Append(tqResearch, NewTask("DISCOUNT"))
          \/ tqResearch' = Append(tqResearch, NewTask("STRATEGY"))
          \/ tqResearch' = tqResearch
      BY <1>7 DEF ParallelDiscount, ParallelStrategy, PushForAgent
    <3> QED
      BY <3>1, <3>2
  <2>2. agent' \in 0 .. AgentSize
    BY <1>7 DEF ParallelDiscount, ParallelStrategy, PushForAgent
  <2>3. pc' \in Searching \cup Outside
    BY <1>7 DEF ParallelDiscount, ParallelStrategy, PushForAgent
  <2>4. UNCHANGED <<consumeRunning, counters, stateAlive, expired, consumerVars, history>>
    BY <1>7 DEF ParallelDiscount, ParallelStrategy, PushForAgent
  <2> QED
    BY <2>1, <2>2, <2>3, <2>4
<1>8. CASE Issue
  <2>1. tqResearch' \in Seq(Task)
    BY <1>8, NewTaskType DEF Issue
  <2> QED
    BY <1>8, <2>1 DEF Issue
<1>9. CASE DeleteState \/ Wait \/ WaitReturns
  BY <1>9 DEF DeleteState, Wait, WaitReturns
<1>10. CASE Kill \/ Expire
  BY <1>10 DEF Kill, Expire
<1>11. ASSUME NEW t \in Threads, ConsumerCheck(t) PROVE TypeOK'
  BY <1>11 DEF ConsumerCheck
<1>12. ASSUME NEW t \in Threads, ConsumerSleep(t) PROVE TypeOK'
  BY <1>12 DEF ConsumerSleep
<1>13. ASSUME NEW t \in Threads, ConsumerGet(t) PROVE TypeOK'
  BY <1>13 DEF ConsumerGet
<1>14. ASSUME NEW t \in Threads, ConsumerFinish(t) PROVE TypeOK'
  BY <1>14 DEF ConsumerFinish
<1>15. ASSUME NEW t \in Threads, ConsumerExit(t) PROVE TypeOK'
  BY <1>15 DEF ConsumerExit
<1>16. CASE UNCHANGED vars
  BY <1>16 DEF vars
<1> QED
  BY <1>1, <1>2, <1>3, <1>4, <1>5, <1>6, <1>7, <1>8, <1>9, <1>10, <1>11, <1>12, <1>13,
     <1>14, <1>15, <1>16 DEF Next, Caller, Consume

-----------------------------------------------------------------------------
(* How the steps change the number of unfinished tasks.                    *)

LEMMA NothingUnfinished ==
  ASSUME TypeOK
  PROVE  Unfinished = 0 <=> (InFlight = {} /\ Queued = {})
<1>1. /\ Cardinality(InFlight) \in Nat /\ Cardinality(Queued) \in Nat
      /\ IsFiniteSet(InFlight) /\ IsFiniteSet(Queued)
  BY InFlightFinite, UnfinishedType DEF TypeOK
<1> QED
  BY <1>1, FS_EmptySet DEF Unfinished

LEMMA UnfinishedFrame ==
  ASSUME UNCHANGED <<cpc, task, tqResearch>>
  PROVE  /\ InFlight' = InFlight /\ Queued' = Queued
         /\ Unfinished' = Unfinished
<1>1. InFlight' = InFlight /\ Queued' = Queued
  BY DEF InFlight, Queued
<1> QED
  BY <1>1 DEF Unfinished

\* A queue without research tasks, and one that holds a single one.
LEMMA QueuedCount ==
  /\ (\A i \in DOMAIN tqResearch : tqResearch[i].mType # "RESEARCH")
       => (Queued = {} /\ Cardinality(Queued) = 0)
  /\ (DOMAIN tqResearch = {1} /\ tqResearch[1].mType = "RESEARCH")
       => (Queued = {1} /\ Cardinality(Queued) = 1)
<1>1. ASSUME \A i \in DOMAIN tqResearch : tqResearch[i].mType # "RESEARCH"
      PROVE  Queued = {} /\ Cardinality(Queued) = 0
  BY <1>1, FS_EmptySet DEF Queued
<1>2. ASSUME DOMAIN tqResearch = {1}, tqResearch[1].mType = "RESEARCH"
      PROVE  Queued = {1} /\ Cardinality(Queued) = 1
  <2>1. Queued = {1}
    BY <1>2 DEF Queued
  <2> QED
    BY <2>1, FS_Singleton
<1> QED
  BY <1>1, <1>2

LEMMA GetKeepsUnfinished ==
  ASSUME TypeOK, QueueByPhase, NEW t \in Threads, ConsumerGet(t),
         consumeRunning \/ Unfinished = 0
  PROVE  Unfinished' = Unfinished
<1> DEFINE q == tqResearch
<1>1. /\ q \in Seq(Task) /\ Len(q) \in Nat /\ Len(q) > 0 /\ q' = Tail(q)
      /\ DOMAIN q = 1 .. Len(q) /\ DOMAIN q' = 1 .. Len(q) - 1
      /\ \A i \in 1 .. Len(q) - 1 : q'[i] = q[i + 1]
  BY DEF TypeOK, ConsumerGet
<1>2. /\ cpc[t] = "get" /\ cpc' = [cpc EXCEPT ![t] = "process"]
      /\ task' = [task EXCEPT ![t] = q[1]]
  BY <1>1 DEF ConsumerGet
<1>3. t \notin InFlight
  BY <1>2 DEF InFlight
<1>4. CASE q[1].mType = "RESEARCH"
  <2>1. 1 \in Queued
    BY <1>1, <1>4 DEF Queued
  <2>2. consumeRunning
    BY <2>1, NothingUnfinished
  <2>3. Len(q) = 1
    <3>1. pc \in {"poll", "drain"} \cup Outside
      BY <1>1, <1>4, <2>2 DEF QueueByPhase, Holds, TypeOK, Searching, Outside
    <3> QED
      BY <1>1, <2>2, <3>1 DEF QueueByPhase, Holds, Outside
  <2>4. Cardinality(Queued) = 1
    BY <1>1, <1>4, <2>3, QueuedCount
  <2>5. Queued' = {} /\ Cardinality(Queued') = 0
    <3>1. Queued' = {}
      BY <1>1, <2>3 DEF Queued
    <3> QED
      BY <3>1, FS_EmptySet
  <2>6. InFlight' = InFlight \cup {t}
    BY <1>2, <1>4 DEF InFlight, TypeOK
  <2>7. Cardinality(InFlight') = Cardinality(InFlight) + 1
    BY <1>3, <2>6, InFlightFinite, FS_AddElement
  <2> QED
    BY <2>4, <2>5, <2>7, InFlightFinite DEF Unfinished
<1>5. CASE q[1].mType # "RESEARCH"
  <2>1. Queued = {}
    <3>1. CASE Unfinished = 0
      BY <3>1, NothingUnfinished
    <3>2. CASE consumeRunning
      <4>1. 1 \in DOMAIN q /\ q # <<>>
        BY <1>1
      <4>2. pc \in {"discountPush", "discountBarrier", "strategyPush", "strategyBarrier"}
        BY <1>5, <3>2, <4>1 DEF QueueByPhase, Holds, TypeOK, Searching, Outside
      <4>3. Holds("DISCOUNT") \/ Holds("STRATEGY")
        BY <3>2, <4>2 DEF QueueByPhase
      <4> QED
        BY <4>3 DEF Holds, Queued
    <3> QED
      BY <3>1, <3>2
  <2>2. Queued' = {}
    BY <1>1, <2>1 DEF Queued
  <2>3. InFlight' = InFlight
    BY <1>2, <1>5 DEF InFlight, TypeOK
  <2> QED
    BY <2>1, <2>2, <2>3 DEF Unfinished
<1> QED
  BY <1>4, <1>5

LEMMA FinishUnfinished ==
  ASSUME TypeOK, NEW t \in Threads, ConsumerFinish(t)
  PROVE  \/ /\ task[t].mType = "RESEARCH" /\ numProcessed' = numProcessed + 1
            /\ Unfinished > 0 /\ Unfinished' = Unfinished - 1
         \/ /\ task[t].mType # "RESEARCH" /\ numProcessed' = numProcessed
            /\ Unfinished' = Unfinished
<1>1. Queued' = Queued /\ Cardinality(Queued) \in Nat
  BY UnfinishedType DEF ConsumerFinish, Queued, TypeOK
<1>2. CASE task[t].mType = "RESEARCH"
  <2>1. t \in InFlight
    BY <1>2 DEF InFlight, ConsumerFinish
  <2>2. InFlight' = InFlight \ {t}
    BY <1>2 DEF InFlight, ConsumerFinish, TypeOK
  <2>3. Cardinality(InFlight') = Cardinality(InFlight) - 1
    BY <2>1, <2>2, InFlightFinite, FS_RemoveElement
  <2>4. Cardinality(InFlight) > 0
    BY <2>1, InFlightFinite, FS_EmptySet
  <2> QED
    BY <1>1, <1>2, <2>3, <2>4, InFlightFinite DEF Unfinished, ConsumerFinish
<1>3. CASE task[t].mType # "RESEARCH"
  <2>1. InFlight' = InFlight
    BY <1>3 DEF InFlight, ConsumerFinish, TypeOK
  <2> QED
    BY <1>1, <1>3, <2>1 DEF Unfinished, ConsumerFinish
<1> QED
  BY <1>2, <1>3

LEMMA ConsumerFrame ==
  ASSUME TypeOK, NEW t \in Threads,
         ConsumerCheck(t) \/ ConsumerSleep(t) \/ ConsumerExit(t)
  PROVE  Unfinished' = Unfinished
<1>1. /\ UNCHANGED <<task, tqResearch>>
      /\ cpc[t] # "process"
      /\ \E where \in {"get", "check", "exited"} : cpc' = [cpc EXCEPT ![t] = where]
  BY DEF ConsumerCheck, ConsumerSleep, ConsumerExit
<1>2. InFlight' = InFlight
  BY <1>1 DEF InFlight, TypeOK
<1>3. Queued' = Queued
  BY <1>1 DEF Queued
<1> QED
  BY <1>2, <1>3 DEF Unfinished

LEMMA IssueUnfinished ==
  ASSUME TypeOK, Issue, tqResearch = <<>>
  PROVE  \/ numIterations' = numIterations /\ Unfinished' = Unfinished
         \/ numIterations' = numIterations + 1 /\ Unfinished' = Unfinished + 1
<1>1. InFlight' = InFlight
  BY DEF Issue, InFlight, consumerVars
<1>2. Queued = {} /\ Cardinality(Queued) = 0
  BY QueuedCount
<1>3. CASE numIterations < maxIterations
  <2>1. tqResearch' = <<NewTask("RESEARCH")>>
    BY <1>3 DEF Issue
  <2>2. Queued' = {1}
    BY <2>1 DEF Queued, NewTask
  <2>3. Cardinality(Queued') = 1
    BY <2>2, FS_Singleton
  <2> QED
    BY <1>1, <1>2, <1>3, <2>3, InFlightFinite DEF Issue, Unfinished
<1>4. CASE ~(numIterations < maxIterations)
  <2>1. Queued' = Queued /\ numIterations' = numIterations
    BY <1>4 DEF Issue, Queued
  <2> QED
    BY <1>1, <2>1 DEF Unfinished
<1> QED
  BY <1>3, <1>4

LEMMA RoundUnfinished ==
  ASSUME TypeOK, NEW type \in {"DISCOUNT", "STRATEGY"}, Holds(type),
         \/ tqResearch' = Append(tqResearch, NewTask(type))
         \/ tqResearch' = tqResearch,
         UNCHANGED <<cpc, task>>
  PROVE  /\ Holds(type)'
         /\ Unfinished' = Unfinished
<1>1. InFlight' = InFlight
  BY DEF InFlight
<1>2. tqResearch \in Seq(Task) /\ NewTask(type) \in Task
  BY NewTaskType DEF TypeOK, TaskTypes
<1>3. NewTask(type).mType = type
  BY DEF NewTask
<1>4. Holds(type)'
  BY <1>2, <1>3 DEF Holds
<1>5. Queued = {} /\ Queued' = {}
  BY <1>4 DEF Holds, Queued
<1> QED
  BY <1>1, <1>4, <1>5 DEF Unfinished

-----------------------------------------------------------------------------
(* The inductive invariant, conjunct by conjunct.                          *)

LEMMA QueueByPhaseStep ==
  ASSUME TypeOK, QueueByPhase, [Next]_vars
  PROVE  QueueByPhase'
<1> USE DEF counters, history, consumerVars, Shared, Goto, Leave, Searching, Outside
<1>1. CASE DepthLimitedSearch \/ Reset \/ Killed \/ Completed \/ Poll
  BY <1>1 DEF DepthLimitedSearch, Reset, Killed, Completed, Poll, QueueByPhase, Holds
<1>2. CASE Drain \/ DiscountDrain \/ StrategyDrain
  <2>1. /\ UNCHANGED <<consumeRunning, tqResearch>>
        /\ consumeRunning => tqResearch = <<>>
        /\ pc' \in {"clock", "discountPush", "strategyPush"}
    BY <1>2 DEF Drain, DiscountDrain, StrategyDrain, WaitTaskQueueIdle
  <2> QED
    BY <2>1 DEF QueueByPhase, Holds
<1>3. CASE DiscountBarrier \/ StrategyBarrier
  <2>1. /\ UNCHANGED <<consumeRunning, tqResearch>>
        /\ consumeRunning => tqResearch = <<>>
        /\ pc' \in {"strategyDrain", "issue"}
    BY <1>3 DEF DiscountBarrier, StrategyBarrier, WaitTaskQueueIdle
  <2> QED
    BY <2>1 DEF QueueByPhase
<1>4. CASE TimeOut \/ InTime \/ Checkpoint
  <2>1. CASE TimeOut
    BY <2>1 DEF TimeOut, QueueByPhase, Holds
  <2>2. CASE InTime \/ Checkpoint
    <3>1. /\ UNCHANGED <<consumeRunning, tqResearch>>
          /\ pc \in {"clock", "checkpoint"}
          /\ pc' \in {"checkpoint", "discountDrain", "strategyDrain", "issue"}
      BY <2>2 DEF InTime, Checkpoint
    <3> QED
      BY <3>1 DEF QueueByPhase
  <2> QED
    BY <1>4, <2>1, <2>2
<1>5. CASE ParallelDiscount
  <2>1. /\ pc = "discountPush" /\ pc' \in {"discountPush", "discountBarrier"}
        /\ UNCHANGED <<consumeRunning, cpc, task>>
        /\ \/ tqResearch' = Append(tqResearch, NewTask("DISCOUNT"))
           \/ tqResearch' = tqResearch
    BY <1>5 DEF ParallelDiscount, PushForAgent
  <2>2. consumeRunning => Holds("DISCOUNT")'
    BY <2>1, RoundUnfinished DEF QueueByPhase
  <2> QED
    BY <2>1, <2>2 DEF QueueByPhase
<1>6. CASE ParallelStrategy
  <2>1. /\ pc = "strategyPush" /\ pc' \in {"strategyPush", "strategyBarrier"}
        /\ UNCHANGED <<consumeRunning, cpc, task>>
        /\ \/ tqResearch' = Append(tqResearch, NewTask("STRATEGY"))
           \/ tqResearch' = tqResearch
    BY <1>6 DEF ParallelStrategy, PushForAgent
  <2>2. consumeRunning => Holds("STRATEGY")'
    BY <2>1, RoundUnfinished DEF QueueByPhase
  <2> QED
    BY <2>1, <2>2 DEF QueueByPhase
<1>7. CASE Issue
  <2>1. /\ pc = "issue" /\ pc' = "poll" /\ consumeRunning' = consumeRunning
        /\ \/ tqResearch' = Append(tqResearch, NewTask("RESEARCH"))
           \/ tqResearch' = tqResearch
    BY <1>7 DEF Issue
  <2>2. ASSUME consumeRunning
        PROVE  (Holds("RESEARCH") /\ Len(tqResearch) <= 1)'
    <3>1. tqResearch = <<>>
      BY <2>1, <2>2 DEF QueueByPhase
    <3>2. tqResearch \in Seq(Task) /\ NewTask("RESEARCH") \in Task
      BY NewTaskType DEF TypeOK, TaskTypes
    <3>3. NewTask("RESEARCH").mType = "RESEARCH"
      BY DEF NewTask
    <3>4. Len(tqResearch') <= 1
      <4>1. Len(tqResearch) = 0
        BY <3>1
      <4>2. Len(Append(tqResearch, NewTask("RESEARCH"))) = Len(tqResearch) + 1
        BY <3>2
      <4> QED
        BY <2>1, <4>1, <4>2
    <3>5. \A i \in DOMAIN tqResearch' : tqResearch'[i] = NewTask("RESEARCH")
      BY <2>1, <3>1, <3>2
    <3>6. Holds("RESEARCH")'
      BY <3>3, <3>5 DEF Holds
    <3> QED
      BY <3>4, <3>6
  <2> QED
    BY <2>1, <2>2 DEF QueueByPhase
<1>8. CASE DeleteState \/ Wait \/ WaitReturns \/ Kill \/ Expire
  BY <1>8 DEF DeleteState, Wait, WaitReturns, Kill, Expire, QueueByPhase, Holds
<1>9. ASSUME NEW t \in Threads, ConsumerGet(t)
      PROVE  QueueByPhase'
  <2>1. /\ tqResearch \in Seq(Task) /\ tqResearch # <<>> /\ tqResearch' = Tail(tqResearch)
        /\ UNCHANGED <<pc, consumeRunning>>
    BY <1>9 DEF ConsumerGet, TypeOK
  <2>2. \A type : Holds(type) => Holds(type)'
    BY <2>1 DEF Holds
  <2>3. Len(tqResearch') = Len(tqResearch) - 1 /\ Len(tqResearch) \in Nat
    BY <2>1
  <2> QED
    BY <2>1, <2>2, <2>3 DEF QueueByPhase
<1>10. ASSUME NEW t \in Threads,
              ConsumerCheck(t) \/ ConsumerSleep(t) \/ ConsumerFinish(t) \/ ConsumerExit(t)
       PROVE  QueueByPhase'
  BY <1>10 DEF ConsumerCheck, ConsumerSleep, ConsumerFinish, ConsumerExit, QueueByPhase,
               Holds
<1>11. CASE UNCHANGED vars
  BY <1>11 DEF vars, QueueByPhase, Holds
<1> QED
  BY <1>1, <1>2, <1>3, <1>4, <1>5, <1>6, <1>7, <1>8, <1>9, <1>10, <1>11
  DEF Next, Caller, Consume

\* The steps by what they do to the counters and to the unfinished tasks, while
\* the engine runs or once it has stopped with nothing left.
Issues ==
  /\ consumeRunning /\ pc = "issue" /\ pc' = "poll"
  /\ numIterations' = numIterations + 1 /\ Unfinished' = Unfinished + 1
  /\ UNCHANGED <<consumeRunning, numProcessed, maxIterations, carried, abandoned, outcome>>

Processes ==
  /\ Unfinished > 0 /\ Unfinished' = Unfinished - 1
  /\ numProcessed' = numProcessed + 1
  /\ UNCHANGED <<consumeRunning, numIterations, maxIterations, pc, carried, abandoned,
                 outcome>>

Keeps ==
  /\ Unfinished' = Unfinished
  /\ UNCHANGED <<numIterations, numProcessed, maxIterations, carried>>

LEMMA StepKinds ==
  ASSUME TypeOK, QueueByPhase, [Next]_vars,
         consumeRunning \/ (Unfinished = 0 /\ pc \in Outside \cup {"poll"})
  PROVE  \/ Reset /\ Unfinished' = Unfinished
         \/ TimeOut /\ consumeRunning
         \/ Issues \/ Processes \/ Keeps
<1> USE DEF counters, history, consumerVars, Shared, Goto, Leave, Outside
<1>1. CASE Reset
  BY <1>1, UnfinishedFrame DEF Reset
<1>2. CASE TimeOut
  BY <1>2 DEF TimeOut
<1>3. CASE Issue
  <2>1. consumeRunning /\ tqResearch = <<>>
    BY <1>3 DEF Issue, QueueByPhase
  <2> QED
    BY <1>3, <2>1, IssueUnfinished DEF Issue, Issues, Keeps
<1>4. CASE ParallelDiscount
  <2>1. /\ consumeRunning /\ Holds("DISCOUNT")
        /\ UNCHANGED <<numIterations, numProcessed, maxIterations, carried, cpc, task>>
        /\ \/ tqResearch' = Append(tqResearch, NewTask("DISCOUNT"))
           \/ tqResearch' = tqResearch
    BY <1>4 DEF ParallelDiscount, PushForAgent, QueueByPhase
  <2> QED
    BY <2>1, RoundUnfinished DEF Keeps
<1>5. CASE ParallelStrategy
  <2>1. /\ consumeRunning /\ Holds("STRATEGY")
        /\ UNCHANGED <<numIterations, numProcessed, maxIterations, carried, cpc, task>>
        /\ \/ tqResearch' = Append(tqResearch, NewTask("STRATEGY"))
           \/ tqResearch' = tqResearch
    BY <1>5 DEF ParallelStrategy, PushForAgent, QueueByPhase
  <2> QED
    BY <2>1, RoundUnfinished DEF Keeps
<1>6. ASSUME NEW t \in Threads, ConsumerGet(t)
      PROVE  Keeps
  BY <1>6, GetKeepsUnfinished DEF ConsumerGet, Keeps
<1>7. ASSUME NEW t \in Threads, ConsumerFinish(t)
      PROVE  Processes \/ Keeps
  BY <1>7, FinishUnfinished DEF ConsumerFinish, Processes, Keeps
<1>8. ASSUME NEW t \in Threads,
             ConsumerCheck(t) \/ ConsumerSleep(t) \/ ConsumerExit(t)
      PROVE  Keeps
  BY <1>8, ConsumerFrame DEF ConsumerCheck, ConsumerSleep, ConsumerExit, Keeps
<1>9. CASE DepthLimitedSearch \/ Killed \/ Completed \/ Poll \/ InTime \/ Checkpoint
  BY <1>9, UnfinishedFrame
  DEF DepthLimitedSearch, Killed, Completed, Poll, InTime, Checkpoint, Keeps
<1>10. CASE Drain \/ DiscountDrain \/ StrategyDrain \/ DiscountBarrier \/ StrategyBarrier
  BY <1>10, UnfinishedFrame
  DEF Drain, DiscountDrain, StrategyDrain, DiscountBarrier, StrategyBarrier,
      WaitTaskQueueIdle, Keeps
<1>11. CASE DeleteState \/ Wait \/ WaitReturns \/ Kill \/ Expire
  BY <1>11, UnfinishedFrame DEF DeleteState, Wait, WaitReturns, Kill, Expire, Keeps
<1>12. CASE UNCHANGED vars
  BY <1>12, UnfinishedFrame DEF vars, Keeps
<1> QED
  BY <1>1, <1>2, <1>3, <1>4, <1>5, <1>6, <1>7, <1>8, <1>9, <1>10, <1>11, <1>12
  DEF Next, Caller, Consume

LEMMA IssuedStep ==
  ASSUME TypeOK, numIterations <= maxIterations, [Next]_vars
  PROVE  (numIterations <= maxIterations)'
<1> USE DEF counters, history, consumerVars, Shared, Goto, Leave
<1>1. CASE Reset
  BY <1>1, ParameterAssumption DEF Reset
<1>2. CASE Issue
  BY <1>2 DEF Issue, TypeOK
<1>3. CASE UNCHANGED <<numIterations, maxIterations>>
  BY <1>3
<1> QED
  BY <1>1, <1>2, <1>3
  DEF Next, Caller, Consume, DepthLimitedSearch, Killed, Completed, Poll, Drain,
      DiscountDrain, StrategyDrain, DiscountBarrier, StrategyBarrier, WaitTaskQueueIdle,
      TimeOut, InTime, Checkpoint, ParallelDiscount, ParallelStrategy, PushForAgent,
      DeleteState, Wait, WaitReturns, Kill, Expire, ConsumerCheck, ConsumerGet,
      ConsumerSleep, ConsumerFinish, ConsumerExit, vars

\* What the steps do to the flags, and which of them leave the search.
LEMMA Flags ==
  ASSUME TypeOK, [Next]_vars
  PROVE  /\ consumeRunning' => consumeRunning
         /\ ~abandoned' => (~abandoned /\ consumeRunning' = consumeRunning)
         /\ pc' \in Outside => (pc \in Outside \/ Killed \/ Completed \/ TimeOut)
         /\ pc' = "returned" => \/ pc = "returned" /\ outcome' = outcome
                                \/ Killed \/ Completed \/ TimeOut
         /\ (~consumeRunning /\ pc \in Outside \cup {"poll"})
              => pc' \in Outside \cup {"poll"}
<1> USE DEF counters, history, consumerVars, Shared, Goto, Leave, Outside
<1>1. CASE TimeOut
  BY <1>1 DEF TimeOut
<1>2. CASE Kill
  BY <1>2 DEF Kill
<1>3. CASE ParallelDiscount \/ ParallelStrategy
  BY <1>3 DEF ParallelDiscount, ParallelStrategy, PushForAgent
<1>4. CASE Killed \/ Completed
  BY <1>4 DEF Killed, Completed
<1>5. CASE DepthLimitedSearch \/ Reset \/ Poll \/ InTime \/ Checkpoint \/ Issue
  BY <1>5 DEF DepthLimitedSearch, Reset, Poll, InTime, Checkpoint, Issue
<1>6. CASE Drain \/ DiscountDrain \/ StrategyDrain \/ DiscountBarrier \/ StrategyBarrier
  BY <1>6 DEF Drain, DiscountDrain, StrategyDrain, DiscountBarrier, StrategyBarrier,
              WaitTaskQueueIdle
<1>7. CASE DeleteState \/ Wait \/ WaitReturns \/ Expire
  BY <1>7 DEF DeleteState, Wait, WaitReturns, Expire
<1>8. CASE \E t \in Threads : Consume(t)
  BY <1>8 DEF Consume, ConsumerCheck, ConsumerGet, ConsumerSleep, ConsumerFinish,
              ConsumerExit
<1>9. CASE UNCHANGED vars
  BY <1>9 DEF vars
<1> QED
  BY <1>1, <1>2, <1>3, <1>4, <1>5, <1>6, <1>7, <1>8, <1>9 DEF Next, Caller

LEMMA AccountingStep ==
  ASSUME TypeOK, QueueByPhase, Quiet, Accounting, [Next]_vars, TypeOK'
  PROVE  Accounting'
<1> SUFFICES ASSUME consumeRunning'
             PROVE  (numProcessed + Unfinished = numIterations + carried)'
  BY DEF Accounting
<1>1. consumeRunning /\ Unfinished \in Nat
  BY Flags, UnfinishedType DEF TypeOK
<1>2. numProcessed + Unfinished = numIterations + carried
  BY <1>1 DEF Accounting
<1>3. CASE Reset /\ Unfinished' = Unfinished
  BY <1>1, <1>3 DEF Reset
<1>4. CASE TimeOut
  <2>1. pc = "clock"
    BY <1>4 DEF TimeOut
  <2>2. tqResearch = <<>>
    BY <1>1, <2>1 DEF QueueByPhase
  <2>3. Unfinished' = Unfinished
    BY <1>4, <2>2, UnfinishedFrame DEF TimeOut, Leave, consumerVars
  <2> QED
    BY <1>2, <1>4, <2>3 DEF TimeOut, Leave, counters
<1>5. /\ numIterations \in Nat /\ numProcessed \in Nat /\ carried \in Nat
  BY DEF TypeOK
<1>6. CASE Issues
  BY <1>1, <1>2, <1>5, <1>6 DEF Issues
<1>7. CASE Processes
  BY <1>1, <1>2, <1>5, <1>7 DEF Processes
<1>8. CASE Keeps
  BY <1>2, <1>8 DEF Keeps
<1> QED
  BY <1>1, <1>3, <1>4, <1>6, <1>7, <1>8, StepKinds

LEMMA CompletedLeavesNothing ==
  ASSUME TypeOK, Accounting, numIterations <= maxIterations, Completed, carried = 0
  PROVE  numIterations = maxIterations /\ Unfinished = 0 /\ Unfinished' = 0
<1>1. /\ numProcessed = maxIterations /\ consumeRunning
      /\ UNCHANGED <<cpc, task, tqResearch>>
  BY DEF Completed, Leave, consumerVars
<1>2. Unfinished \in Nat /\ Unfinished' = Unfinished
  BY <1>1, UnfinishedType, UnfinishedFrame DEF TypeOK
<1> QED
  BY <1>1, <1>2 DEF Accounting, TypeOK

LEMMA QuietStep ==
  ASSUME TypeOK, IInv, [Next]_vars
  PROVE  Quiet'
<1> USE DEF IInv
<1> SUFFICES ASSUME ~abandoned'
             PROVE  consumeRunning' /\ carried' = 0 /\ (pc' \in Outside => Unfinished' = 0)
  BY DEF Quiet
<1>1. /\ ~abandoned /\ consumeRunning' = consumeRunning /\ consumeRunning
      /\ carried = 0
      /\ pc \in Outside => Unfinished = 0
  BY Flags DEF Quiet
<1>2. ~TimeOut
  BY DEF TimeOut
<1>3. carried' = 0
  <2>1. CASE Reset
    BY <1>1, <2>1 DEF Reset, Goto, Outside
  <2> QED
    BY <1>1, <1>2, <2>1, StepKinds DEF Issues, Processes, Keeps
<1>4. ASSUME pc' \in Outside
      PROVE  Unfinished' = 0
  <2>1. CASE pc \in Outside
    <3>1. ~Issues /\ ~Processes
      BY <1>1, <2>1 DEF Issues, Processes, Outside
    <3> QED
      BY <1>1, <1>2, <2>1, <3>1, StepKinds DEF Keeps
  <2>2. CASE Completed
    BY <1>1, <2>2, CompletedLeavesNothing
  <2> QED
    BY <1>1, <1>2, <1>4, <2>1, <2>2, Flags DEF Killed
<1> QED
  BY <1>1, <1>3, <1>4

\* Who changes carried, expired, abandoned and consumeRunning.
LEMMA CarriedStep ==
  ASSUME TypeOK, [Next]_vars, ~Reset
  PROVE  carried' = carried
BY DEF counters, history, consumerVars, Shared, Goto, Leave,
      Next, Caller, Consume, DepthLimitedSearch, Killed, Completed, Poll, Drain,
      DiscountDrain, StrategyDrain, DiscountBarrier, StrategyBarrier, WaitTaskQueueIdle,
      TimeOut, InTime, Checkpoint, ParallelDiscount, ParallelStrategy, PushForAgent, Issue,
      DeleteState, Wait, WaitReturns, Kill, Expire, ConsumerCheck, ConsumerGet,
      ConsumerSleep, ConsumerFinish, ConsumerExit, vars

LEMMA ExpiredStep ==
  ASSUME TypeOK, [Next]_vars, ~expired, ~TimeOut, ~Expire
  PROVE  ~expired' /\ (UNCHANGED <<abandoned, consumeRunning>> \/ Kill)
<1> USE DEF counters, history, consumerVars, Shared, Goto, Leave
<1>1. CASE ParallelDiscount \/ ParallelStrategy
  BY <1>1 DEF ParallelDiscount, ParallelStrategy, PushForAgent
<1>2. CASE DepthLimitedSearch \/ Reset \/ Poll \/ InTime \/ Checkpoint \/ Issue
  BY <1>2 DEF DepthLimitedSearch, Reset, Poll, InTime, Checkpoint, Issue
<1>3. CASE Drain \/ DiscountDrain \/ StrategyDrain \/ DiscountBarrier \/ StrategyBarrier
  BY <1>3 DEF Drain, DiscountDrain, StrategyDrain, DiscountBarrier, StrategyBarrier,
              WaitTaskQueueIdle
<1>4. CASE DeleteState \/ Wait \/ WaitReturns \/ Killed \/ Completed
  BY <1>4 DEF DeleteState, Wait, WaitReturns, Killed, Completed
<1>5. CASE Kill
  BY <1>5 DEF Kill
<1>6. CASE \E t \in Threads : Consume(t)
  BY <1>6 DEF Consume, ConsumerCheck, ConsumerGet, ConsumerSleep, ConsumerFinish,
              ConsumerExit
<1>7. CASE UNCHANGED vars
  BY <1>7 DEF vars
<1> QED
  BY <1>1, <1>2, <1>3, <1>4, <1>5, <1>6, <1>7 DEF Next, Caller

LEMMA StateInUseStep ==
  ASSUME TypeOK, StateInUse, [Next]_vars
  PROVE  StateInUse'
<1> USE DEF counters, history, consumerVars, Shared, Goto, Leave, Searching, StateInUse
<1>1. CASE ParallelDiscount \/ ParallelStrategy
  BY <1>1 DEF ParallelDiscount, ParallelStrategy, PushForAgent
<1>2. CASE DepthLimitedSearch \/ Reset \/ Poll \/ InTime \/ Checkpoint \/ Issue
  BY <1>2 DEF DepthLimitedSearch, Reset, Poll, InTime, Checkpoint, Issue
<1>3. CASE Drain \/ DiscountDrain \/ StrategyDrain \/ DiscountBarrier \/ StrategyBarrier
  BY <1>3 DEF Drain, DiscountDrain, StrategyDrain, DiscountBarrier, StrategyBarrier,
              WaitTaskQueueIdle
<1>4. CASE DeleteState \/ Wait \/ WaitReturns \/ Expire \/ Kill
  BY <1>4 DEF DeleteState, Wait, WaitReturns, Expire, Kill
<1>5. CASE Killed \/ Completed \/ TimeOut
  BY <1>5 DEF Killed, Completed, TimeOut
<1>6. CASE \E t \in Threads : Consume(t)
  BY <1>6 DEF Consume, ConsumerCheck, ConsumerGet, ConsumerSleep, ConsumerFinish,
              ConsumerExit
<1>7. CASE UNCHANGED vars
  BY <1>7 DEF vars
<1> QED
  BY <1>1, <1>2, <1>3, <1>4, <1>5, <1>6, <1>7 DEF Next, Caller

LEMMA ThreadsCountedStep ==
  ASSUME TypeOK, ThreadsCounted, [Next]_vars
  PROVE  ThreadsCounted'
<1> DEFINE Running == {t \in Threads : cpc[t] # "exited"}
<1> SUFFICES ASSUME ConstructedCounts = {0}
             PROVE  (numTaskThread = Cardinality(Running))'
  BY DEF ThreadsCounted
<1>1. numTaskThread = Cardinality(Running)
  BY DEF ThreadsCounted
<1>2. IsFiniteSet(Running)
  BY ThreadsAssumption, FS_Subset
<1>3. ASSUME NEW t \in Threads, ConsumerExit(t)
      PROVE  numTaskThread' = Cardinality(Running')
  <2>1. t \in Running /\ Running' = Running \ {t}
    BY <1>3 DEF ConsumerExit, TypeOK
  <2>2. Cardinality(Running') = Cardinality(Running) - 1 /\ Cardinality(Running) \in Nat
    BY <1>2, <2>1, FS_RemoveElement, FS_CardinalityType
  <2>3. Cardinality(Running) > 0
    BY <1>2, <2>1, <2>2, FS_EmptySet
  <2>4. numTaskThread \in 1 .. Word - 1 /\ Word \in Nat
    BY <1>1, <2>3, ParameterAssumption DEF TypeOK
  <2>5. (numTaskThread - 1) % Word = numTaskThread - 1
    BY <2>4
  <2> QED
    BY <1>1, <1>3, <2>2, <2>5 DEF ConsumerExit
<1>4. ASSUME NEW t \in Threads,
             ConsumerCheck(t) \/ ConsumerGet(t) \/ ConsumerSleep(t) \/ ConsumerFinish(t)
      PROVE  numTaskThread' = Cardinality(Running')
  <2>1. Running' = Running /\ numTaskThread' = numTaskThread
    BY <1>4 DEF ConsumerCheck, ConsumerGet, ConsumerSleep, ConsumerFinish, TypeOK
  <2> QED
    BY <1>1, <2>1
<1>5. CASE UNCHANGED <<cpc, numTaskThread>>
  <2>1. Running' = Running /\ numTaskThread' = numTaskThread
    BY <1>5
  <2> QED
    BY <1>1, <2>1
<1> QED
  BY <1>3, <1>4, <1>5
  DEF Next, Caller, Consume, DepthLimitedSearch, Reset, Killed, Completed, Poll, Drain,
      DiscountDrain, StrategyDrain, DiscountBarrier, StrategyBarrier, WaitTaskQueueIdle,
      TimeOut, InTime, Checkpoint, ParallelDiscount, ParallelStrategy, PushForAgent, Issue,
      DeleteState, Wait, WaitReturns, Kill, Expire, consumerVars, Leave, vars

LEMMA DiscountedOnceStep ==
  ASSUME TypeOK, DiscountedOnce, numIterations <= maxIterations, [Next]_vars
  PROVE  DiscountedOnce'
<1> USE DEF counters, history, consumerVars, Shared, Goto, Leave, DiscountedOnce
<1>1. CASE Reset
  BY <1>1 DEF Reset
<1>2. CASE Issue
  BY <1>2 DEF Issue, TypeOK
<1>3. CASE Checkpoint
  BY <1>3 DEF Checkpoint, TypeOK
<1>4. CASE Poll \/ Drain \/ InTime
  BY <1>4 DEF Poll, Drain, WaitTaskQueueIdle, InTime
<1>5. CASE DepthLimitedSearch \/ Killed \/ Completed \/ TimeOut
  BY <1>5 DEF DepthLimitedSearch, Killed, Completed, TimeOut
<1>6. CASE ParallelDiscount \/ ParallelStrategy
  BY <1>6 DEF ParallelDiscount, ParallelStrategy, PushForAgent
<1>7. CASE DiscountDrain \/ StrategyDrain \/ DiscountBarrier \/ StrategyBarrier
  BY <1>7 DEF DiscountDrain, StrategyDrain, DiscountBarrier, StrategyBarrier,
              WaitTaskQueueIdle
<1>8. CASE DeleteState \/ Wait \/ WaitReturns \/ Expire \/ Kill
  BY <1>8 DEF DeleteState, Wait, WaitReturns, Expire, Kill
<1>9. CASE \E t \in Threads : Consume(t)
  BY <1>9 DEF Consume, ConsumerCheck, ConsumerGet, ConsumerSleep, ConsumerFinish,
              ConsumerExit
<1>10. CASE UNCHANGED vars
  BY <1>10 DEF vars
<1> QED
  BY <1>1, <1>2, <1>3, <1>4, <1>5, <1>6, <1>7, <1>8, <1>9, <1>10 DEF Next, Caller

LEMMA CompletedMeansDoneStep ==
  ASSUME TypeOK, IInv, [Next]_vars
  PROVE  CompletedMeansDone'
<1> USE DEF IInv
<1> SUFFICES ASSUME pc' = "returned", outcome' = "completed", carried' = 0
             PROVE  numIterations' = maxIterations' /\ Unfinished' = 0
  BY DEF CompletedMeansDone
<1>1. CASE Completed
  BY <1>1, CompletedLeavesNothing DEF Completed, Leave, counters
<1>2. ~Killed /\ ~TimeOut /\ ~Reset
  BY DEF Killed, TimeOut, Reset, Leave, Goto
<1>3. CASE ~Completed
  <2>1. pc = "returned" /\ outcome = "completed"
    BY <1>2, <1>3, Flags
  <2>2. carried = 0 => (numIterations = maxIterations /\ Unfinished = 0)
    BY <2>1 DEF CompletedMeansDone
  <2>3. carried' = carried
    <3>1. CASE consumeRunning
      BY <1>2, <3>1, StepKinds DEF Issues, Processes, Keeps
    <3>2. CASE ~consumeRunning
      BY <1>2, <2>1, CarriedStep
    <3> QED
      BY <3>1, <3>2
  <2>4. Issues \/ Processes \/ Keeps
    BY <1>2, <2>1, <2>2, <2>3, StepKinds DEF Outside
  <2> QED
    BY <2>1, <2>2, <2>3, <2>4 DEF Issues, Processes, Keeps
<1> QED
  BY <1>1, <1>3

LEMMA StopsQuietlyStep ==
  ASSUME TypeOK, IInv, [Next]_vars
  PROVE  StopsQuietly'
<1> USE DEF IInv
<1> SUFFICES ASSUME ~MayTimeOut, ~KillWhileSearching
             PROVE  /\ ~expired'
                    /\ consumeRunning' => ~abandoned'
                    /\ ~consumeRunning' => (pc' \in Outside \cup {"poll"} /\ Unfinished' = 0)
  BY DEF StopsQuietly
<1>1. /\ ~expired
      /\ consumeRunning => ~abandoned
      /\ ~consumeRunning => (pc \in Outside \cup {"poll"} /\ Unfinished = 0)
  BY DEF StopsQuietly
<1>2. ~TimeOut /\ ~Expire
  BY <1>1 DEF TimeOut, Expire
<1>3. ~expired' /\ (abandoned' = abandoned \/ Kill)
  BY <1>1, <1>2, ExpiredStep
<1>4. CASE Kill
  <2>1. pc = "returned" /\ consumeRunning /\ ~consumeRunning' /\ pc' = pc
    BY <1>4 DEF Kill
  <2>2. Unfinished = 0
    BY <1>1, <2>1 DEF Quiet, Outside
  <2>3. Unfinished' = Unfinished
    BY <1>4, UnfinishedFrame DEF Kill, consumerVars
  <2> QED
    BY <1>3, <2>1, <2>2, <2>3 DEF Outside
<1>5. CASE ~Kill
  <2>1. consumeRunning' = consumeRunning /\ abandoned' = abandoned
    BY <1>1, <1>2, <1>5, ExpiredStep
  <2>2. ASSUME ~consumeRunning
        PROVE  pc' \in Outside \cup {"poll"} /\ Unfinished' = 0
    <3>1. ~Issues /\ ~Processes
      BY <1>1, <2>2 DEF Issues, Processes
    <3> QED
      BY <1>1, <1>2, <2>2, <3>1, StepKinds, Flags DEF Keeps
  <2> QED
    BY <1>1, <1>3, <2>1, <2>2
<1> QED
  BY <1>4, <1>5

LEMMA InitIInv == Init => IInv
<1> SUFFICES ASSUME Init PROVE IInv
  OBVIOUS
<1>1. TypeOK
  BY InitType
<1>2. InFlight = {} /\ Queued = {}
  BY DEF Init, InFlight, Queued
<1>3. Unfinished = 0
  BY <1>1, <1>2, NothingUnfinished
<1>4. QueueByPhase
  BY DEF Init, QueueByPhase, Holds, Outside
<1>5. Accounting /\ Quiet /\ StateInUse /\ DiscountedOnce /\ CompletedMeansDone
  BY <1>3 DEF Init, Accounting, Quiet, StateInUse, DiscountedOnce, CompletedMeansDone,
              Searching
<1>6. StopsQuietly
  BY DEF Init, StopsQuietly
<1>7. ThreadsCounted
  <2> SUFFICES ASSUME ConstructedCounts = {0}
               PROVE  numTaskThread = Cardinality({t \in Threads : cpc[t] # "exited"})
    BY DEF ThreadsCounted
  <2>1. {t \in Threads : cpc[t] # "exited"} = Threads
    BY DEF Init
  <2>2. Cardinality(Threads) \in 0 .. Word - 1 /\ Word \in Nat \ {0}
    BY ThreadsAssumption, ParameterAssumption, FS_CardinalityType
  <2>3. numTaskThread = (0 + Cardinality(Threads)) % Word
    <3>1. \E c \in {0} : numTaskThread = (c + Cardinality(Threads)) % Word
      BY DEF Init
    <3> QED
      BY <3>1
  <2>4. ASSUME NEW n \in 0 .. Word - 1
        PROVE  (0 + n) % Word = n
    BY <2>2
  <2>5. numTaskThread = Cardinality(Threads)
    BY <2>2, <2>3, <2>4
  <2> QED
    BY <2>1, <2>5
<1>8. numIterations <= maxIterations
  BY DEF Init
<1> QED
  BY <1>4, <1>5, <1>6, <1>7, <1>8 DEF IInv

-----------------------------------------------------------------------------
(* The theorems.                                                           *)

\* The variables keep their types: the counters, the queue and where the
\* caller and the consumers are, numTaskThread within its width.
THEOREM TypeCorrect == Spec => []TypeOK
<1> QED
  BY InitType, TypeStep, PTL DEF Spec

\* The strengthened invariant holds of every reachable state.
THEOREM Inductive == Spec => []IInv
<1>1. TypeOK /\ IInv /\ [Next]_vars => IInv'
  <2> SUFFICES ASSUME TypeOK, IInv, [Next]_vars PROVE IInv'
    OBVIOUS
  <2>1. TypeOK'
    BY TypeStep
  <2>2. QueueByPhase' /\ StateInUse' /\ ThreadsCounted'
    BY QueueByPhaseStep, StateInUseStep, ThreadsCountedStep DEF IInv
  <2>3. DiscountedOnce' /\ (numIterations <= maxIterations)'
    BY DiscountedOnceStep, IssuedStep DEF IInv
  <2>4. Accounting'
    BY <2>1, AccountingStep DEF IInv
  <2>5. Quiet' /\ CompletedMeansDone' /\ StopsQuietly'
    BY QuietStep, CompletedMeansDoneStep, StopsQuietlyStep
  <2> QED
    BY <2>2, <2>3, <2>4, <2>5 DEF IInv
<1> QED
  BY <1>1, InitIInv, TypeCorrect, PTL DEF Spec

\* No task is lost and none is counted twice while the engine runs, however
\* searches end and whatever they leave behind.
THEOREM TasksAccounted == Spec => []Accounting
<1> QED
  BY Inductive, PTL DEF IInv

\* Research, discount and strategy tasks never share the queue of a running
\* engine.
THEOREM RoundsApart == Spec => []QueueHomogeneous
<1>1. TypeOK /\ IInv => QueueHomogeneous
  <2> SUFFICES ASSUME TypeOK, QueueByPhase, consumeRunning
               PROVE  \E type \in TaskTypes : Holds(type)
    BY DEF IInv, QueueHomogeneous, Holds
  <2>1. CASE tqResearch = <<>>
    BY <2>1 DEF Holds, TaskTypes
  <2>2. CASE tqResearch # <<>>
    BY <2>2 DEF QueueByPhase, TypeOK, Searching, Outside, TaskTypes
  <2> QED
    BY <2>1, <2>2
<1> QED
  BY <1>1, TypeCorrect, Inductive, PTL

\* A search that began with nothing left over and reports completion has issued
\* all its iterations, and every one of them has been processed.
THEOREM CompletionSound == Spec => []CompletedMeansDone
<1> QED
  BY Inductive, PTL DEF IInv

\* Until a timeout or kill, no consumer works on a game state that the caller
\* has deleted.
THEOREM StateOutlivesSearch == Spec => []NoUseAfterDelete
<1>1. TypeOK /\ IInv => NoUseAfterDelete
  <2> SUFFICES ASSUME TypeOK, IInv, InFlight # {}, ~abandoned
               PROVE  stateAlive
    BY DEF NoUseAfterDelete
  <2>1. Unfinished # 0
    BY NothingUnfinished
  <2>2. pc \in Searching
    BY <2>1 DEF IInv, Quiet, TypeOK
  <2> QED
    BY <2>2 DEF IInv, StateInUse
<1> QED
  BY <1>1, TypeCorrect, Inductive, PTL

\* When numTaskThread starts from 0, wait() returns only after every consumer
\* has left its loop.
THEOREM WaitSound == Spec => []StoppedMeansExited
<1>1. Init => StoppedMeansExited
  BY DEF Init, StoppedMeansExited
<1>2. TypeOK /\ IInv /\ StoppedMeansExited /\ [Next]_vars => StoppedMeansExited'
  <2> SUFFICES ASSUME TypeOK, IInv, StoppedMeansExited, [Next]_vars,
                      pc' = "stopped", ConstructedCounts = {0}
               PROVE  \A t \in Threads : cpc'[t] = "exited"
    BY DEF StoppedMeansExited
  <2> USE DEF Goto, Leave, counters, history, consumerVars, Shared
  <2>1. CASE WaitReturns
    <3> DEFINE Running == {t \in Threads : cpc[t] # "exited"}
    <3>1. IsFiniteSet(Running) /\ Cardinality(Running) = 0
      BY <2>1, ThreadsAssumption, FS_Subset DEF IInv, ThreadsCounted, WaitReturns
    <3>2. Running = {}
      BY <3>1, FS_EmptySet
    <3> QED
      BY <2>1, <3>2 DEF WaitReturns
  <2>2. CASE pc = "stopped" /\ UNCHANGED cpc
    BY <2>2 DEF StoppedMeansExited
  <2>3. ASSUME pc = "stopped", NEW t \in Threads, Consume(t)
        PROVE  FALSE
    BY <2>3 DEF StoppedMeansExited, Consume, ConsumerCheck, ConsumerGet, ConsumerSleep,
                ConsumerFinish, ConsumerExit
  <2>4. CASE \E t \in Threads : Consume(t)
    BY <2>3, <2>4 DEF Consume, ConsumerCheck, ConsumerGet, ConsumerSleep,
                ConsumerFinish, ConsumerExit
  <2> QED
    BY <2>1, <2>2, <2>4
    DEF Next, Caller, DepthLimitedSearch, Reset, Killed, Completed, Poll, Drain,
        DiscountDrain, StrategyDrain, DiscountBarrier, StrategyBarrier,
        WaitTaskQueueIdle, TimeOut, InTime, Checkpoint, ParallelDiscount,
        ParallelStrategy, PushForAgent, Issue, DeleteState, Wait, Kill, Expire, vars
<1> QED
  BY <1>1, <1>2, TypeCorrect, Inductive, PTL DEF Spec

\* A discount round is repeated at the same numIterations only once all
\* iterations have been issued.
THEOREM DiscountRepeatsAtEndOnly == Spec => OneDiscountPerCount
<1>1. IInv /\ [Next]_vars =>
        [(pc = "checkpoint" /\ pc' = "discountDrain") =>
           (lastDiscount # numIterations \/ numIterations = maxIterations)]_vars
  <2> SUFFICES ASSUME IInv, [Next]_vars, pc = "checkpoint", pc' = "discountDrain"
               PROVE  lastDiscount # numIterations \/ numIterations = maxIterations
    OBVIOUS
  <2>1. numIterations > 0
    BY DEF Next, Caller, Consume, DepthLimitedSearch, Reset, Killed, Completed, Poll,
        Drain, DiscountDrain, StrategyDrain, DiscountBarrier, StrategyBarrier,
        WaitTaskQueueIdle, TimeOut, InTime, Checkpoint, ParallelDiscount,
        ParallelStrategy, PushForAgent, Issue, DeleteState, Wait, WaitReturns, Kill,
        Expire, ConsumerCheck, ConsumerGet, ConsumerSleep, ConsumerFinish,
        ConsumerExit, vars, Goto, Leave, Shared
  <2> QED
    BY <2>1 DEF IInv, DiscountedOnce
<1> QED
  BY <1>1, Inductive, PTL DEF Spec, OneDiscountPerCount

-----------------------------------------------------------------------------
(* The refinement.                                                         *)

\* A step of Research, in a program that lets no search time out and calls kill
\* between searches only, is a step of TrainingBatch or changes nothing of it.
LEMMA StepRefines ==
  ASSUME TypeOK, IInv, [Next]_vars, ~MayTimeOut, ~KillWhileSearching
  PROVE  [Batch!Next]_Batch!vars
<1> USE DEF IInv, Batch!vars
<1>1. /\ ~expired
      /\ consumeRunning => (~abandoned /\ carried = 0)
      /\ ~consumeRunning => (Unfinished = 0 /\ pc \in Outside \cup {"poll"})
  BY DEF StopsQuietly, Quiet
<1> USE DEF counters, history, consumerVars, Shared, Goto, Leave, Searching
<1>2. CASE Reset
  BY <1>2 DEF Reset, Batch!Next, Batch!Start
<1>3. CASE Completed
  BY <1>3 DEF Completed, Batch!Next, Batch!Complete
<1>4. CASE Killed
  BY <1>4 DEF Killed, Batch!Next, Batch!Abandon
<1>5. CASE Kill
  BY <1>5 DEF Kill, Batch!Next, Batch!Stop
<1>6. CASE TimeOut
  BY <1>1, <1>6 DEF TimeOut
<1>7. ASSUME NEW t \in Threads, ConsumerFinish(t)
      PROVE  [Batch!Next]_Batch!vars
  <2>1. CASE task[t].mType # "RESEARCH"
    BY <1>7, <2>1 DEF ConsumerFinish
  <2>2. CASE task[t].mType = "RESEARCH"
    <3>1. Unfinished > 0 /\ Unfinished \in Nat
      BY <1>7, <2>2, FinishUnfinished, UnfinishedType DEF TypeOK
    <3>2. consumeRunning /\ ~abandoned /\ carried = 0
      BY <1>1, <3>1
    <3>3. pc \notin Outside
      BY <3>1, <3>2 DEF Quiet
    <3>4. numProcessed < maxIterations
      BY <3>1, <3>2 DEF Accounting, TypeOK
    <3> QED
      BY <1>7, <2>2, <3>3, <3>4 DEF ConsumerFinish, TypeOK, Batch!Next, Batch!Iterate
  <2> QED
    BY <2>1, <2>2
<1>8. ASSUME NEW t \in Threads,
             ConsumerCheck(t) \/ ConsumerGet(t) \/ ConsumerSleep(t) \/ ConsumerExit(t)
      PROVE  UNCHANGED Batch!vars
  BY <1>8 DEF ConsumerCheck, ConsumerGet, ConsumerSleep, ConsumerExit
<1>9. CASE ParallelDiscount \/ ParallelStrategy
  BY <1>9 DEF ParallelDiscount, ParallelStrategy, PushForAgent
<1>10. CASE DepthLimitedSearch \/ Poll \/ InTime \/ Checkpoint \/ Issue
  BY <1>10 DEF DepthLimitedSearch, Poll, InTime, Checkpoint, Issue
<1>11. CASE Drain \/ DiscountDrain \/ StrategyDrain \/ DiscountBarrier \/ StrategyBarrier
  BY <1>11 DEF Drain, DiscountDrain, StrategyDrain, DiscountBarrier, StrategyBarrier,
               WaitTaskQueueIdle
<1>12. CASE DeleteState \/ Wait \/ WaitReturns \/ Expire
  BY <1>12 DEF DeleteState, Wait, WaitReturns, Expire
<1>13. CASE UNCHANGED vars
  BY <1>13 DEF vars
<1> QED
  BY <1>2, <1>3, <1>4, <1>5, <1>6, <1>7, <1>8, <1>9, <1>10, <1>11, <1>12, <1>13
  DEF Next, Caller, Consume

\* In such a program a search processes each of its iterations exactly once,
\* comes back no sooner, and an engine that was stopped abandons it.
THEOREM ImplementsBatch ==
  ASSUME ~MayTimeOut, ~KillWhileSearching
  PROVE  Spec => Batch!Safety
<1>1. Init => Batch!Init
  BY DEF Init, Batch!Init, Searching
<1>2. TypeOK /\ IInv /\ [Next]_vars => [Batch!Next]_Batch!vars
  BY StepRefines
<1> QED
  BY <1>1, <1>2, TypeCorrect, Inductive, PTL DEF Spec, Batch!Safety

=============================================================================
