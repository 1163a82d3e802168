------------------------------ MODULE Research ------------------------------
(***************************************************************************)
(* One Research instance (src/Research.cpp): the real-time search engine.  *)
(* The thread of the event loop, called the caller, runs                   *)
(* depthLimitedSearch and search; the detached consumer threads run        *)
(* consume.  They share the task queue, the atomic counters and, through   *)
(* the Pluribus object, the State the search is about.                     *)
(*                                                                         *)
(* Every access to an atomic or to the queue is a step of its own, except  *)
(* that a run of accesses only one of which the other threads can affect   *)
(* is a single step. Definitions called variants are what a plausible bug  *)
(* would make of the definition after them; no action uses them.           *)
(*                                                                         *)
(* Task and TaskQueue are declared in headers outside the repository: a    *)
(* queue guarded by its own lock, and a Process that terminates.           *)
(***************************************************************************)
EXTENDS Naturals, Sequences, FiniteSets

CONSTANTS
  Threads,            \* the consumer threads started by init
  AgentSize,          \* pluribus->getAgentSize()
  IterationCounts,    \* the configured researchCount of the stages
  CfrThreshold, DiscountInterval, StrategyInterval,
  MayTimeOut,         \* whether a search can outlast mResearchTimeout
  MayKill,            \* whether kill is ever called
  KillWhileSearching, \* whether kill may come while a search is running
  ConstructedCounts,  \* what numTaskThread may hold after the constructor
  Word,               \* 2^32 in the code: the range of numTaskThread
  MaxBatches          \* bound: how many searches a behaviour makes

ASSUME ThreadsAssumption == IsFiniteSet(Threads)
ASSUME ParameterAssumption ==
  /\ AgentSize \in Nat
  /\ IterationCounts \subseteq Nat
  /\ CfrThreshold \in Nat
  /\ DiscountInterval \in Nat \ {0}
  /\ StrategyInterval \in Nat \ {0}
  /\ MayTimeOut \in BOOLEAN
  /\ MayKill \in BOOLEAN
  /\ KillWhileSearching \in BOOLEAN
  /\ Word \in Nat \ {0}
  /\ ConstructedCounts \subseteq 0 .. Word - 1
  /\ Cardinality(Threads) < Word
  /\ MaxBatches \in Nat

VARIABLES
  consumeRunning, numIterations, numProcessed, maxIterations, numTaskThread,
  tqResearch,   \* the task queue, a sequence of tasks
  stateAlive,   \* whether the State that mGameState points to still exists
  pc,           \* where the caller is
  agent,        \* the loop index of parallelDiscount and parallelStrategy
  expired,      \* whether the time since tt1 has reached mResearchTimeout
  cpc,          \* where each consumer is
  task,         \* the task each consumer took last
  \* History variables, which no guard of the code's steps reads:
  batch,        \* the number of the current search (bounded by MaxBatches)
  outcome,      \* how the last search ended
  carried,      \* unfinished tasks of earlier searches when this one began
  abandoned,    \* whether any search has timed out, or kill has been called
  lastDiscount  \* numIterations at this search's last discount round

counters == <<numIterations, numProcessed, maxIterations>>
history == <<batch, outcome, carried, abandoned, lastDiscount>>
consumerVars == <<cpc, task, numTaskThread>>
vars == <<consumeRunning, numIterations, numProcessed, maxIterations, numTaskThread,
          tqResearch, stateAlive, pc, agent, expired, cpc, task,
          batch, outcome, carried, abandoned, lastDiscount>>

TaskTypes == {"RESEARCH", "DISCOUNT", "STRATEGY"}
Task == [mType : TaskTypes, batch : Nat]
NewTask(type) == [mType |-> type, batch |-> batch]

\* Where the caller is inside search, and outside it.
Searching == {"poll", "drain", "clock", "checkpoint",
              "discountDrain", "discountPush", "discountBarrier",
              "strategyDrain", "strategyPush", "strategyBarrier", "issue"}
Outside == {"idle", "begin", "returned", "waiting", "stopped"}

\* The research tasks that a consumer is processing, those still queued (as
\* positions of the queue), and how many there are of both.
InFlight == {t \in Threads : cpc[t] = "process" /\ task[t].mType = "RESEARCH"}
Queued == {i \in DOMAIN tqResearch : tqResearch[i].mType = "RESEARCH"}
Unfinished == Cardinality(InFlight) + Cardinality(Queued)

-----------------------------------------------------------------------------
(* The constructor and init. The constructor leaves numTaskThread as the   *)
(* compiler does; init adds one for every thread it starts.                *)
Init ==
  /\ consumeRunning = TRUE
  /\ numIterations = 0 /\ numProcessed = 0
  /\ maxIterations = 2000
  /\ \E c \in ConstructedCounts : numTaskThread = (c + Cardinality(Threads)) % Word
  /\ tqResearch = <<>>
  /\ stateAlive = FALSE
  /\ pc = "idle" /\ agent = 0 /\ expired = FALSE
  /\ cpc = [t \in Threads |-> "check"]
  /\ task = [t \in Threads |-> [mType |-> "RESEARCH", batch |-> 0]]
  /\ batch = 0 /\ outcome = "none" /\ carried = 0
  /\ abandoned = FALSE /\ lastDiscount = 0

-----------------------------------------------------------------------------
(* The caller.                                                             *)

Goto(from, to) == pc = from /\ pc' = to

\* depthLimitedSearch(state): the new State becomes mGameState, before the
\* search takes its lock. (For a stage before mResearchStage it returns at once
\* and changes nothing here.)
DepthLimitedSearch ==
  /\ Goto("idle", "begin")
  /\ batch < MaxBatches
  /\ stateAlive' = TRUE
  /\ batch' = batch + 1
  /\ UNCHANGED <<consumeRunning, counters, tqResearch, agent, expired, consumerVars,
                 outcome, carried, abandoned, lastDiscount>>

\* A variant with a missing reset.
ResetKeepsProcessed ==
  /\ Goto("begin", "poll")
  /\ numIterations' = 0
  /\ \E n \in IterationCounts : maxIterations' = n
  /\ expired' = FALSE
  /\ outcome' = "none" /\ lastDiscount' = 0
  /\ carried' = Unfinished
  /\ UNCHANGED <<consumeRunning, numProcessed, tqResearch, stateAlive, agent,
                 consumerVars, batch, abandoned>>

\* search(researchCount) resets the counters. The consumers read none of them
\* and change only numProcessed, so the three assignments are one step. The
\* count is the one configured for the stage of the State.
Reset ==
  /\ Goto("begin", "poll")
  /\ numIterations' = 0 /\ numProcessed' = 0
  /\ \E n \in IterationCounts : maxIterations' = n
  /\ expired' = FALSE
  /\ outcome' = "none" /\ lastDiscount' = 0
  /\ carried' = Unfinished
  /\ UNCHANGED <<consumeRunning, tqResearch, stateAlive, agent, consumerVars, batch,
                 abandoned>>

Leave(how) ==
  /\ pc' = "returned"
  /\ outcome' = how
  /\ UNCHANGED <<consumeRunning, counters, stateAlive, agent, expired, consumerVars,
                 batch, carried, lastDiscount>>

\* while (consumeRunning) { if (numProcessed == maxIterations) break; ...
Killed ==
  /\ pc = "poll" /\ ~consumeRunning
  /\ Leave("killed")
  /\ UNCHANGED <<tqResearch, abandoned>>

\* Variants that test the wrong counter, and one task too early.
CompletedWhenIssued ==
  /\ pc = "poll" /\ consumeRunning
  /\ numIterations = maxIterations
  /\ Leave("completed")
  /\ UNCHANGED <<tqResearch, abandoned>>

CompletedBeforeLast ==
  /\ pc = "poll" /\ consumeRunning
  /\ numProcessed + 1 = maxIterations
  /\ Leave("completed")
  /\ UNCHANGED <<tqResearch, abandoned>>

Completed ==
  /\ pc = "poll" /\ consumeRunning
  /\ numProcessed = maxIterations
  /\ Leave("completed")
  /\ UNCHANGED <<tqResearch, abandoned>>

Poll ==
  /\ consumeRunning /\ numProcessed # maxIterations
  /\ Goto("poll", "drain")
  /\ UNCHANGED <<consumeRunning, counters, tqResearch, stateAlive, agent, expired,
                 consumerVars, history>>

\* A variant that waits for the queue even when nobody serves it any more.
WaitForEmptyQueue(from, to) ==
  /\ tqResearch = <<>>
  /\ Goto(from, to)
  /\ UNCHANGED <<consumeRunning, counters, tqResearch, stateAlive, agent, expired,
                 consumerVars, history>>

\* waitTaskQueueIdle: returns once the queue is empty, or once killed. That
\* the queue is empty does not mean that its last task has been processed.
WaitTaskQueueIdle(from, to) ==
  /\ ~consumeRunning \/ tqResearch = <<>>
  /\ Goto(from, to)
  /\ UNCHANGED <<consumeRunning, counters, tqResearch, stateAlive, agent, expired,
                 consumerVars, history>>

Drain == WaitTaskQueueIdle("drain", "clock")
DiscountDrain == WaitTaskQueueIdle("discountDrain", "discountPush")
StrategyDrain == WaitTaskQueueIdle("strategyDrain", "strategyPush")

TimeOut ==
  /\ pc = "clock" /\ expired
  /\ tqResearch' = <<>>            \* clearTaskQueue
  /\ abandoned' = TRUE
  /\ Leave("timeout")

InTime ==
  /\ ~expired
  /\ Goto("clock", "checkpoint")
  /\ UNCHANGED <<consumeRunning, counters, tqResearch, stateAlive, agent, expired,
                 consumerVars, history>>

DiscountDue == numProcessed <= CfrThreshold /\ numIterations % DiscountInterval = 0
StrategyDue == numIterations % StrategyInterval = 0

Checkpoint ==
  /\ pc = "checkpoint"
  /\ LET begun == numIterations > 0 /\ numProcessed > 0
     IN  pc' = CASE begun /\ DiscountDue -> "discountDrain"
                 [] begun /\ ~DiscountDue /\ StrategyDue -> "strategyDrain"
                 [] OTHER -> "issue"
  /\ lastDiscount' = IF pc' = "discountDrain" THEN numIterations ELSE lastDiscount
  /\ UNCHANGED <<consumeRunning, counters, tqResearch, stateAlive, agent, expired,
                 consumerVars, batch, outcome, carried, abandoned>>

\* A variant with i <= agentSize.
PushOneTooMany(here, type, next) ==
  /\ pc = here
  /\ \/ /\ agent <= AgentSize
        /\ tqResearch' = Append(tqResearch, NewTask(type))
        /\ agent' = agent + 1
        /\ pc' = pc
     \/ /\ agent > AgentSize
        /\ agent' = 0
        /\ pc' = next
        /\ UNCHANGED tqResearch
  /\ UNCHANGED <<consumeRunning, counters, stateAlive, expired, consumerVars, history>>

\* One round of the loops in parallelDiscount and parallelStrategy.
PushForAgent(here, type, next) ==
  /\ pc = here
  /\ \/ /\ agent < AgentSize
        /\ tqResearch' = Append(tqResearch, NewTask(type))
        /\ agent' = agent + 1
        /\ pc' = pc
     \/ /\ agent >= AgentSize
        /\ agent' = 0
        /\ pc' = next
        /\ UNCHANGED tqResearch
  /\ UNCHANGED <<consumeRunning, counters, stateAlive, expired, consumerVars, history>>

ParallelDiscount == PushForAgent("discountPush", "DISCOUNT", "discountBarrier")
ParallelStrategy == PushForAgent("strategyPush", "STRATEGY", "strategyBarrier")

\* A variant without the wait after the discount round.
NoDiscountBarrier ==
  /\ Goto("discountBarrier", IF StrategyDue THEN "strategyDrain" ELSE "issue")
  /\ UNCHANGED <<consumeRunning, counters, tqResearch, stateAlive, agent, expired,
                 consumerVars, history>>

\* The wait after each round; after a discount round the strategy test follows.
DiscountBarrier ==
  WaitTaskQueueIdle("discountBarrier", IF StrategyDue THEN "strategyDrain" ELSE "issue")
StrategyBarrier == WaitTaskQueueIdle("strategyBarrier", "issue")

\* A variant with taskDif one too small.
IssueAllButLast ==
  /\ Goto("issue", "poll")
  /\ IF numIterations + 1 < maxIterations
     THEN /\ numIterations' = numIterations + 1
          /\ tqResearch' = Append(tqResearch, NewTask("RESEARCH"))
     ELSE UNCHANGED <<numIterations, tqResearch>>
  /\ UNCHANGED <<consumeRunning, numProcessed, maxIterations, stateAlive, agent, expired,
                 consumerVars, history>>

\* taskNum is 1, or what is left of maxIterations.
Issue ==
  /\ Goto("issue", "poll")
  /\ IF numIterations < maxIterations
     THEN /\ numIterations' = numIterations + 1
          /\ tqResearch' = Append(tqResearch, NewTask("RESEARCH"))
     ELSE UNCHANGED <<numIterations, tqResearch>>
  /\ UNCHANGED <<consumeRunning, numProcessed, maxIterations, stateAlive, agent, expired,
                 consumerVars, history>>

\* handleRobotDecide2 ends: it deletes the State it made for the search.
DeleteState ==
  /\ Goto("returned", "idle")
  /\ stateAlive' = FALSE
  /\ UNCHANGED <<consumeRunning, counters, tqResearch, agent, expired, consumerVars,
                 history>>

\* wait() polls numTaskThread; Deploy::test3 calls it after kill().
Wait ==
  /\ ~consumeRunning
  /\ Goto("returned", "waiting")
  /\ UNCHANGED <<consumeRunning, counters, tqResearch, stateAlive, agent, expired,
                 consumerVars, history>>

\* A variant with numTaskThread > 1 as the condition of the wait.
WaitForAllButOne ==
  /\ numTaskThread <= 1
  /\ Goto("waiting", "stopped")
  /\ UNCHANGED <<consumeRunning, counters, tqResearch, stateAlive, agent, expired,
                 consumerVars, history>>

WaitReturns ==
  /\ numTaskThread = 0
  /\ Goto("waiting", "stopped")
  /\ UNCHANGED <<consumeRunning, counters, tqResearch, stateAlive, agent, expired,
                 consumerVars, history>>

Caller ==
  \/ Reset \/ Killed \/ Completed \/ Poll \/ Drain \/ TimeOut \/ InTime \/ Checkpoint
  \/ DiscountDrain \/ ParallelDiscount \/ DiscountBarrier
  \/ StrategyDrain \/ ParallelStrategy \/ StrategyBarrier
  \/ Issue \/ WaitReturns

-----------------------------------------------------------------------------
(* kill, and the clock.                                                    *)

Kill ==
  /\ MayKill /\ consumeRunning
  /\ KillWhileSearching \/ pc = "returned"
  /\ consumeRunning' = FALSE
  /\ abandoned' = TRUE
  /\ UNCHANGED <<counters, tqResearch, stateAlive, pc, agent, expired, consumerVars,
                 batch, outcome, carried, lastDiscount>>

\* The time since the start of this search reaches mResearchTimeout.
Expire ==
  /\ MayTimeOut /\ pc \in Searching /\ ~expired
  /\ expired' = TRUE
  /\ UNCHANGED <<consumeRunning, counters, tqResearch, stateAlive, pc, agent,
                 consumerVars, history>>

-----------------------------------------------------------------------------
(* The consumer threads: consume().                                        *)

Shared == <<consumeRunning, numIterations, maxIterations, stateAlive, pc, agent, expired,
            history>>

ConsumerCheck(t) ==
  /\ cpc[t] = "check" /\ consumeRunning
  /\ cpc' = [cpc EXCEPT ![t] = "get"]
  /\ UNCHANGED <<Shared, numProcessed, tqResearch, task, numTaskThread>>

\* TaskQueue::Get takes the oldest task. A consumer that has passed its check
\* of consumeRunning still takes one after kill.
ConsumerGet(t) ==
  /\ cpc[t] = "get" /\ tqResearch # <<>>
  /\ task' = [task EXCEPT ![t] = Head(tqResearch)]
  /\ tqResearch' = Tail(tqResearch)
  /\ cpc' = [cpc EXCEPT ![t] = "process"]
  /\ UNCHANGED <<Shared, numProcessed, numTaskThread>>

\* A variant that waits for a task without looking at consumeRunning again.
SleepUntilTask(t) ==
  /\ cpc[t] = "get" /\ tqResearch = <<>>
  /\ UNCHANGED <<Shared, numProcessed, tqResearch, consumerVars>>

ConsumerSleep(t) ==
  /\ cpc[t] = "get" /\ tqResearch = <<>>
  /\ cpc' = [cpc EXCEPT ![t] = "check"]
  /\ UNCHANGED <<Shared, numProcessed, tqResearch, task, numTaskThread>>

\* A variant that counts tasks of every type.
FinishCountsAll(t) ==
  /\ cpc[t] = "process"
  /\ cpc' = [cpc EXCEPT ![t] = "check"]
  /\ numProcessed' = numProcessed + 1
  /\ UNCHANGED <<Shared, tqResearch, task, numTaskThread>>

\* task.Process() returns, and a research task is counted.
ConsumerFinish(t) ==
  /\ cpc[t] = "process"
  /\ cpc' = [cpc EXCEPT ![t] = "check"]
  /\ numProcessed' = IF task[t].mType = "RESEARCH" THEN numProcessed + 1
                                                   ELSE numProcessed
  /\ UNCHANGED <<Shared, tqResearch, task, numTaskThread>>

ConsumerExit(t) ==
  /\ cpc[t] = "check" /\ ~consumeRunning
  /\ cpc' = [cpc EXCEPT ![t] = "exited"]
  /\ numTaskThread' = (numTaskThread - 1) % Word
  /\ UNCHANGED <<Shared, numProcessed, tqResearch, task>>

Consume(t) ==
  \/ ConsumerCheck(t) \/ ConsumerGet(t) \/ ConsumerSleep(t)
  \/ ConsumerFinish(t) \/ ConsumerExit(t)

-----------------------------------------------------------------------------
Next ==
  \/ DepthLimitedSearch \/ DeleteState \/ Wait \/ Caller
  \/ Kill \/ Expire
  \/ \E t \in Threads : Consume(t)

\* The scheduler runs every thread, a task ends, and time passes. Nothing
\* obliges anyone to start a search, to call kill, or to call wait.
Fairness ==
  /\ WF_vars(Caller)
  /\ \A t \in Threads : WF_vars(Consume(t))
  /\ WF_vars(Expire)

Spec == Init /\ [][Next]_vars
FairSpec == Spec /\ Fairness

-----------------------------------------------------------------------------
TypeOK ==
  /\ consumeRunning \in BOOLEAN
  /\ numIterations \in Nat /\ numProcessed \in Nat /\ maxIterations \in Nat
  /\ numTaskThread \in 0 .. Word - 1
  /\ tqResearch \in Seq(Task)
  /\ stateAlive \in BOOLEAN
  /\ pc \in Searching \cup Outside
  /\ agent \in 0 .. AgentSize
  /\ expired \in BOOLEAN
  /\ cpc \in [Threads -> {"check", "get", "process", "exited"}]
  /\ task \in [Threads -> Task]
  /\ batch \in 0 .. MaxBatches
  /\ outcome \in {"none", "completed", "timeout", "killed"}
  /\ carried \in Nat
  /\ abandoned \in BOOLEAN
  /\ lastDiscount \in Nat

\* No task is lost and none is counted twice: as long as the engine has not
\* been killed, what has been counted and what is still unfinished add up to
\* what this search issued and what it found unfinished when it began.
Accounting ==
  consumeRunning => numProcessed + Unfinished = numIterations + carried

\* The waits around a round keep it apart from the rest: research, discount
\* and strategy tasks are never queued together while the engine runs.
QueueHomogeneous ==
  consumeRunning =>
    \A i, j \in DOMAIN tqResearch : tqResearch[i].mType = tqResearch[j].mType

\* A search that began with nothing left over and ended because numProcessed
\* reached maxIterations issued every iteration, and each has been processed.
CompletedMeansDone ==
  (pc = "returned" /\ outcome = "completed" /\ carried = 0)
     => (numIterations = maxIterations /\ Unfinished = 0)

\* Until a search is abandoned (by its timeout or by kill), no consumer is at
\* work on the game state once the caller has deleted it.
NoUseAfterDelete == (InFlight # {} /\ ~abandoned) => stateAlive

\* When wait() returns no consumer thread is left, the numTaskThread having
\* started from 0.
StoppedMeansExited ==
  (pc = "stopped" /\ ConstructedCounts = {0}) => \A t \in Threads : cpc[t] = "exited"

\* A second discount round at the same numIterations happens only at the end
\* of a batch, while the search polls for its last task to be processed.
OneDiscountPerCount ==
  [][(pc = "checkpoint" /\ pc' = "discountDrain") =>
       (lastDiscount # numIterations \/ numIterations = maxIterations)]_vars

\* Every search comes back to its caller.
SearchReturns == (pc \in Searching) ~> (pc = "returned")

\* Deploy::test3 searches, calls kill and wait, and goes on to return true.
Test3Ends == (pc = "waiting") ~> (pc = "stopped")

\* Once kill is called every consumer leaves its loop, and a wait() returns.
KillStops ==
  /\ ~consumeRunning ~> \A t \in Threads : cpc[t] = "exited"
  /\ Test3Ends

\* The comment "Training mission completed" on the test of numProcessed: no
\* task of this search is then unfinished, whatever earlier searches left.
MissionCompleted ==
  (pc = "returned" /\ outcome = "completed" /\ consumeRunning) =>
     /\ \A t \in InFlight : task[t].batch # batch
     /\ \A i \in Queued : tqResearch[i].batch # batch
-----------------------------------------------------------------------------
(* What makes these properties inductive.                                  *)

\* What the queue may hold while the engine runs, by where the caller is.
Holds(type) == \A i \in DOMAIN tqResearch : tqResearch[i].mType = type

QueueByPhase ==
  consumeRunning =>
    /\ pc \in {"clock", "checkpoint", "discountDrain", "strategyDrain", "issue"}
         => tqResearch = <<>>
    /\ pc \in {"discountPush", "discountBarrier"} => Holds("DISCOUNT")
    /\ pc \in {"strategyPush", "strategyBarrier"} => Holds("STRATEGY")
    /\ pc \in {"poll", "drain"} \cup Outside
         => Holds("RESEARCH") /\ Len(tqResearch) <= 1

\* Until a search is abandoned none begins with a task left over, and none is
\* unfinished outside a search.
Quiet ==
  ~abandoned => /\ consumeRunning
                /\ carried = 0
                /\ pc \in Outside => Unfinished = 0

StateInUse == pc \in Searching \cup {"begin", "returned"} => stateAlive

\* numTaskThread counts the consumers that have not exited.
ThreadsCounted ==
  ConstructedCounts = {0} =>
    numTaskThread = Cardinality({t \in Threads : cpc[t] # "exited"})

\* Between two issues there is one discount round, except at the end.
DiscountedOnce ==
  /\ lastDiscount <= numIterations
  /\ (pc \in {"poll", "drain", "clock", "checkpoint"} /\ numIterations > 0
        /\ lastDiscount = numIterations) => numIterations = maxIterations

\* With no timeout, and kill called between searches only, the engine stops with
\* nothing unfinished.
StopsQuietly ==
  (~MayTimeOut /\ ~KillWhileSearching) =>
     /\ ~expired
     /\ consumeRunning => ~abandoned
     /\ ~consumeRunning => (pc \in Outside \cup {"poll"} /\ Unfinished = 0)

IInv ==
  /\ numIterations <= maxIterations
  /\ QueueByPhase /\ Accounting /\ Quiet /\ StateInUse /\ ThreadsCounted
  /\ DiscountedOnce /\ CompletedMeansDone /\ StopsQuietly
=============================================================================
