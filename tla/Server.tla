------------------------------- MODULE Server -------------------------------
(***************************************************************************)
(* The server as a whole: Deploy (src/Deploy.cpp) starts four engines,     *)
(* their consumer threads and the event loop; the loop serves the requests *)
(* of all connections one at a time, each to its end, search included; an  *)
(* interrupt ends the loop, and the engines are deleted under their        *)
(* consumers, whom nobody stops.                                           *)
(*                                                                         *)
(* A search is that of module Research without its discount and strategy   *)
(* rounds, with tasks as numbers; a call is what modules Replay and Decide *)
(* leave out of handleRobotDecide2: the look-up of the node, the search,   *)
(* and the hands that are shown. Which nodes a task adds to the tree of    *)
(* its engine is up to Pluribus, which is outside the repository.          *)
(***************************************************************************)
EXTENDS Integers, Sequences, FiniteSets

CONSTANTS
  Engines,       \* gResearch: one engine for every round
  Connections,
  ThreadCounts,  \* what init may take for threadNum
  Situations,    \* what an information set says besides the hand
  OwnHand,       \* the hand of the set-up
  ShowList,      \* showlist: the hands that are shown
  Learned,       \* the sets of hands whose nodes one task may add
  Iterations,    \* researchCount
  MaxRequests    \* bound: how many requests arrive

Shown == {ShowList[i] : i \in 1 .. Len(ShowList)}
Hands == {OwnHand} \cup Shown

ASSUME ServerAssumption ==
  /\ ThreadCounts \subseteq Nat /\ Iterations \in Nat /\ MaxRequests \in Nat
  /\ ShowList \in Seq(Shown) /\ Learned \subseteq SUBSET Hands

VARIABLES
  life,          \* of Deploy
  threadNum,     \* threadNum of each engine, as init sets it
  consumers,     \* how many consumers init has started for each engine
  signal,        \* whether an interrupt has been sent
  due,           \* whether the three seconds after it have passed
  pending,       \* the requests in the input buffer of each connection
  hand,          \* testhands[0] of each connection
  pc,            \* where the event loop is
  call,          \* the request being served: its connection, engine and situation
  shown,         \* how many hands this call has shown
  basis,         \* the hand whose strategy strategySum is
  expired,       \* whether the search has lasted mResearchTimeout
  issued, processed, queued,   \* numIterations, numProcessed and tqResearch
  busy,          \* how many consumers of each engine are at a task
  target,        \* the situation of the State mGameState points to
  nodes,         \* the information sets each engine knows
  \* History variables:
  timedOut,      \* the engines of which some search has timed out
  arrived        \* the number of requests

engineVars == <<issued, processed, queued, busy, target, nodes, timedOut>>
callVars == <<pc, call, shown, basis, expired>>
clientVars == <<pending, arrived>>
exitVars == <<life, signal, due>>
initVars == <<threadNum, consumers>>
vars == <<exitVars, initVars, clientVars, hand, callVars, engineVars>>

None == "none"
Running == {"looping", "exiting"}
InSearch == {"begin", "poll", "wait"}
Info(s, h) == [sit |-> s, hand |-> h]
InfoSets == [sit : Situations, hand : Hands]

Init ==
  /\ life = "new" /\ threadNum = 0 /\ consumers = 0 /\ signal = FALSE /\ due = FALSE
  /\ pending = [c \in Connections |-> 0] /\ arrived = 0
  /\ hand = [c \in Connections |-> None]
  /\ pc = "idle" /\ call = None /\ shown = 0 /\ basis = None /\ expired = FALSE
  /\ issued = [e \in Engines |-> 0] /\ processed = [e \in Engines |-> 0]
  /\ queued = [e \in Engines |-> 0] /\ busy = [e \in Engines |-> 0]
  /\ target = [e \in Engines |-> None] /\ nodes = [e \in Engines |-> {}]
  /\ timedOut = {}

-----------------------------------------------------------------------------
(* Deploy.                                                                 *)

\* A slip: the loop that starts the threads begins at 1.
StartedFromOne(n) == IF n > 0 THEN n - 1 ELSE 0

\* Research::init starts threadNum consumers: one, or as many as
\* hardware_concurrency says, which may be none.
Started(n) == n

DeployInit ==
  /\ life = "new"
  /\ threadNum' \in ThreadCounts /\ consumers' = Started(threadNum')
  /\ life' = "ready"
  /\ UNCHANGED <<signal, due, clientVars, hand, callVars, engineVars>>

\* deploy_main: without a listener, or without the signal event, it returns at once.
Listen ==
  /\ life = "ready"
  /\ life' \in {"looping", "looped"}
  /\ UNCHANGED <<initVars, signal, due, clientVars, hand, callVars, engineVars>>

Interrupt ==
  /\ life = "looping" /\ ~signal
  /\ signal' = TRUE
  /\ UNCHANGED <<life, due, initVars, clientVars, hand, callVars, engineVars>>

\* signal_callback, an event of the loop like any other: "exiting cleanly in
\* three seconds".
SignalCallback ==
  /\ signal /\ life = "looping" /\ pc = "idle"
  /\ life' = "exiting"
  /\ UNCHANGED <<signal, due, initVars, clientVars, hand, callVars, engineVars>>

ThreeSeconds ==
  /\ life = "exiting" /\ ~due
  /\ due' = TRUE
  /\ UNCHANGED <<life, signal, initVars, clientVars, hand, callVars, engineVars>>

\* event_base_dispatch returns between two events.
LoopExit ==
  /\ due /\ life = "exiting" /\ pc = "idle"
  /\ life' = "looped"
  /\ UNCHANGED <<signal, due, initVars, clientVars, hand, callVars, engineVars>>

\* final, and the destructor, which deletes the engines.
DeployFinal ==
  /\ life = "looped"
  /\ life' = "final"
  /\ UNCHANGED <<signal, due, initVars, clientVars, hand, callVars, engineVars>>

DeployDeleted ==
  /\ life = "final"
  /\ life' = "gone"
  /\ UNCHANGED <<signal, due, initVars, clientVars, hand, callVars, engineVars>>

-----------------------------------------------------------------------------
(* The calls.                                                              *)

Arrive(c) ==
  /\ life \in Running /\ arrived < MaxRequests
  /\ arrived' = arrived + 1
  /\ pending' = [pending EXCEPT ![c] = @ + 1]
  /\ UNCHANGED <<exitVars, initVars, hand, callVars, engineVars>>

\* The call returns, with or without an answer.
Return ==
  /\ pc' = "idle" /\ call' = None /\ shown' = 0 /\ basis' = None /\ expired' = FALSE

\* The replay: a request may set up the cards (hands and board), and may be
\* dropped, as it is when nothing was ever set up.
Serve(c) ==
  /\ life \in Running /\ pc = "idle" /\ pending[c] > 0
  /\ pending' = [pending EXCEPT ![c] = @ - 1]
  /\ hand' \in {hand, [hand EXCEPT ![c] = OwnHand]}
  /\ \/ UNCHANGED callVars
     \/ /\ hand'[c] # None
        /\ \E e \in Engines, s \in Situations : call' = [conn |-> c, engine |-> e, sit |-> s]
        /\ pc' = "look"
        /\ UNCHANGED <<shown, basis, expired>>
  /\ UNCHANGED <<exitVars, initVars, arrived, engineVars>>

Known(h) == Info(call.sit, h) \in nodes[call.engine]

\* Real-time search is closed for this request: by the configuration, or since
\* the replay failed.
Closed ==
  /\ pc = "look" /\ pc' = "decide"
  /\ UNCHANGED <<exitVars, initVars, clientVars, hand, call, shown, basis, expired, engineVars>>

\* A node that some earlier search left is taken as it is.
Look ==
  /\ pc = "look"
  /\ pc' = IF Known(hand[call.conn]) THEN "show" ELSE "begin"
  /\ UNCHANGED <<exitVars, initVars, clientVars, hand, call, shown, basis, expired, engineVars>>

\* A slip: the engine goes on with the State it has, which is none at first.
BeginWithoutState ==
  /\ pc = "begin" /\ pc' = "poll"
  /\ issued' = [issued EXCEPT ![call.engine] = 0]
  /\ processed' = [processed EXCEPT ![call.engine] = 0]
  /\ UNCHANGED <<exitVars, initVars, clientVars, hand, call, shown, basis, expired,
                 queued, busy, target, nodes, timedOut>>

Begin ==
  /\ pc = "begin" /\ pc' = "poll"
  /\ issued' = [issued EXCEPT ![call.engine] = 0]
  /\ processed' = [processed EXCEPT ![call.engine] = 0]
  /\ target' = [target EXCEPT ![call.engine] = call.sit]
  /\ UNCHANGED <<exitVars, initVars, clientVars, hand, call, shown, basis, expired,
                 queued, busy, nodes, timedOut>>

\* A slip: the tasks that were issued are counted, not those that are done.
CompletedWhenIssued ==
  /\ pc = "poll" /\ issued[call.engine] = Iterations
  /\ pc' = "show"
  /\ UNCHANGED <<exitVars, initVars, clientVars, hand, call, shown, basis, expired, engineVars>>

Completed ==
  /\ pc = "poll" /\ processed[call.engine] = Iterations
  /\ pc' = "show"
  /\ UNCHANGED <<exitVars, initVars, clientVars, hand, call, shown, basis, expired, engineVars>>

Poll ==
  /\ pc = "poll" /\ processed[call.engine] # Iterations
  /\ pc' = "wait"
  /\ UNCHANGED <<exitVars, initVars, clientVars, hand, call, shown, basis, expired, engineVars>>

\* The queue is waited for first, and the clock is looked at then.
TimeOut ==
  /\ pc = "wait" /\ queued[call.engine] = 0 /\ expired
  /\ pc' = "show"
  /\ timedOut' = timedOut \cup {call.engine}
  /\ UNCHANGED <<exitVars, initVars, clientVars, hand, call, shown, basis, expired,
                 issued, processed, queued, busy, target, nodes>>

Issue ==
  /\ pc = "wait" /\ queued[call.engine] = 0 /\ ~expired
  /\ pc' = "poll"
  /\ IF issued[call.engine] < Iterations
     THEN /\ issued' = [issued EXCEPT ![call.engine] = @ + 1]
          /\ queued' = [queued EXCEPT ![call.engine] = @ + 1]
     ELSE UNCHANGED <<issued, queued>>
  /\ UNCHANGED <<exitVars, initVars, clientVars, hand, call, shown, basis, expired,
                 processed, busy, target, nodes, timedOut>>

Expire ==
  /\ pc \in InSearch /\ ~expired
  /\ expired' = TRUE
  /\ UNCHANGED <<exitVars, initVars, clientVars, hand, pc, call, shown, basis, engineVars>>

\* A slip: strategySum is taken from the first hand that has a node.
FirstFound(h) == IF Known(h) /\ basis = None THEN h ELSE basis

\* strategySum is that of the last hand shown that has a node.
LastFound(h) == IF Known(h) THEN h ELSE basis

\* One hand of the show list: it is put into testhands, dealt, which may fail,
\* and looked up.
Show ==
  /\ pc = "show" /\ shown < Len(ShowList)
  /\ hand' = [hand EXCEPT ![call.conn] = ShowList[shown + 1]]
  /\ \/ Return
     \/ /\ shown' = shown + 1
        /\ basis' = LastFound(ShowList[shown + 1])
        /\ UNCHANGED <<pc, call, expired>>
  /\ UNCHANGED <<exitVars, initVars, clientVars, engineVars>>

ShowOver ==
  /\ pc = "show" /\ shown = Len(ShowList)
  /\ pc' = "decide"
  /\ UNCHANGED <<exitVars, initVars, clientVars, hand, call, shown, basis, expired, engineVars>>

\* The decision is made on basis, the State deleted, and the answer sent.
Decide ==
  /\ pc = "decide"
  /\ Return
  /\ UNCHANGED <<exitVars, initVars, clientVars, hand, engineVars>>

Call ==
  \/ \E c \in Connections : Serve(c)
  \/ Closed \/ Look \/ Begin \/ Completed \/ Poll \/ TimeOut \/ Issue
  \/ Show \/ ShowOver \/ Decide

-----------------------------------------------------------------------------
(* The consumers, as long as there are engines.                            *)

Take(e) ==
  /\ life # "gone" /\ queued[e] > 0 /\ busy[e] < consumers
  /\ queued' = [queued EXCEPT ![e] = @ - 1]
  /\ busy' = [busy EXCEPT ![e] = @ + 1]
  /\ UNCHANGED <<exitVars, initVars, clientVars, hand, callVars,
                 issued, processed, target, nodes, timedOut>>

\* A task that is left over from a search that timed out works on whatever
\* mGameState points to now.
Finish(e) ==
  /\ life # "gone" /\ busy[e] > 0
  /\ busy' = [busy EXCEPT ![e] = @ - 1]
  /\ processed' = [processed EXCEPT ![e] = @ + 1]
  /\ \E hs \in Learned :
       nodes' = [nodes EXCEPT ![e] = @ \cup {Info(target[e], h) : h \in hs}]
  /\ UNCHANGED <<exitVars, initVars, clientVars, hand, callVars,
                 issued, queued, target, timedOut>>

Next ==
  \/ DeployInit \/ Listen \/ Interrupt \/ SignalCallback \/ ThreeSeconds \/ LoopExit
  \/ DeployFinal \/ DeployDeleted
  \/ \E c \in Connections : Arrive(c)
  \/ Call \/ Expire
  \/ \E e \in Engines : Take(e) \/ Finish(e)

\* The loop goes on, the scheduler runs every consumer, a task ends and time
\* passes. Nobody has to send a request or an interrupt.
Fairness ==
  /\ WF_vars(Call) /\ WF_vars(Expire)
  /\ WF_vars(SignalCallback) /\ WF_vars(ThreeSeconds) /\ WF_vars(LoopExit)
  /\ \A e \in Engines : WF_vars(Take(e)) /\ WF_vars(Finish(e))

Spec == Init /\ [][Next]_vars
FairSpec == Spec /\ Fairness

-----------------------------------------------------------------------------
TypeOK ==
  /\ life \in {"new", "ready", "looping", "exiting", "looped", "final", "gone"}
  /\ threadNum \in Nat /\ consumers \in Nat /\ signal \in BOOLEAN /\ due \in BOOLEAN
  /\ pending \in [Connections -> Nat] /\ arrived \in Nat
  /\ hand \in [Connections -> Hands \cup {None}]
  /\ pc \in {"idle", "look", "begin", "poll", "wait", "show", "decide"}
  /\ IF pc = "idle" THEN call = None
     ELSE call \in [conn : Connections, engine : Engines, sit : Situations]
  /\ shown \in 0 .. Len(ShowList) /\ basis \in Hands \cup {None} /\ expired \in BOOLEAN
  /\ issued \in [Engines -> Nat] /\ processed \in [Engines -> Nat]
  /\ queued \in [Engines -> Nat] /\ busy \in [Engines -> Nat]
  /\ target \in [Engines -> Situations \cup {None}]
  /\ nodes \in [Engines -> SUBSET InfoSets]
  /\ timedOut \subseteq Engines

\* Four engines, and one at work: an engine has a task queued or a consumer at
\* one only while the loop is in a search of its own, unless a search of it has
\* timed out. So when the loop has ended and the engines are deleted, which is
\* not in the middle of a call, the consumers that are left are between two tasks.
Unfinished(e) == queued[e] > 0 \/ busy[e] > 0
OneAtWork ==
  \A e \in Engines : Unfinished(e) /\ e \notin timedOut =>
    life \in Running /\ pc \in InSearch /\ call.engine = e

\* Whatever hand the connection holds, the decision rests on the last of the
\* shown hands that the engine of the round has a node for, and on none only if
\* there is no such hand. A task that a time-out left over may add a node after
\* the hand was shown, so this is said of the other engines.
DecidedOnLastShown ==
  pc = "decide" /\ shown > 0 /\ call.engine \notin timedOut =>
    LET found == {i \in 1 .. Len(ShowList) : Known(ShowList[i])}
    IN  IF found = {} THEN basis = None
        ELSE \E i \in found : basis = ShowList[i] /\ \A j \in found : j <= i

\* With at least one consumer for every engine, every request is served, or the
\* loop ends first.
RequestsServed ==
  \A c \in Connections :
    (threadNum > 0 /\ pending[c] > 0) ~> (pending[c] = 0 \/ life \notin Running)

\* With a consumer, an interrupt ends the loop, also in the middle of a search.
InterruptEnds == (threadNum > 0 /\ signal) ~> (life \notin Running)
=============================================================================
