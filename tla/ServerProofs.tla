--------------------------- MODULE ServerProofs ---------------------------
(***************************************************************************)
(* Proofs about the server: one engine at work, none after the loop, and   *)
(* the hand a decision rests on, for any number of engines, connections,   *)
(* consumers, iterations and shown hands.                                  *)
(*                                                                         *)
(* The argument for one engine at work is a count. As long as no search of *)
(* an engine has timed out, its tasks balance (issued = processed + queued *)
(* + taken) and it has none outside a search of its own; so when processed *)
(* reaches Iterations, which issued never passes, nothing is queued or     *)
(* taken.                                                                  *)
(***************************************************************************)
EXTENDS Server, TLAPS

\* The loop runs, or has not started, or has ended between two calls.
Idle == life \notin Running => pc = "idle"

\* A task has a State to work on, and a search that of its own call.
Targets ==
  /\ \A e \in Engines : Unfinished(e) => target[e] \in Situations
  /\ pc \in {"poll", "wait"} => target[call.engine] = call.sit

\* The tasks of an engine none of whose searches has timed out.
AtWork(e) == pc \in {"poll", "wait"} /\ call.engine = e
Balanced(e) ==
  /\ ~Unfinished(e) \/ AtWork(e)
  /\ AtWork(e) => processed[e] + queued[e] + busy[e] = issued[e]
  /\ AtWork(e) => issued[e] <= Iterations
Balance == \A e \in Engines : e \notin timedOut => Balanced(e)

\* The hands shown so far, the last of them that has a node, and the end of them.
LastOf(n) ==
  \/ basis = None /\ \A i \in 1 .. n : ~Known(ShowList[i])
  \/ \E i \in 1 .. n : /\ Known(ShowList[i]) /\ basis = ShowList[i]
                       /\ \A j \in 1 .. n : j > i => ~Known(ShowList[j])
Basis ==
  /\ pc \notin {"show", "decide"} => shown = 0 /\ basis = None
  /\ pc = "decide" => shown \in {0, Len(ShowList)}
  /\ pc \in {"show", "decide"} /\ call.engine \notin timedOut => LastOf(shown)

Inv == TypeOK /\ Idle /\ Targets /\ Balance /\ Basis

-----------------------------------------------------------------------------
(* Types.                                                                  *)

LEMMA ListFacts ==
  /\ Len(ShowList) \in Nat /\ 0 \in 0 .. Len(ShowList)
  /\ \A i \in 1 .. Len(ShowList) : ShowList[i] \in Hands
<1>1. Len(ShowList) \in Nat
  BY ServerAssumption
<1>2. \A i \in 1 .. Len(ShowList) : ShowList[i] \in Shown
  BY ServerAssumption DEF Shown
<1> QED
  BY <1>1, <1>2 DEF Hands

LEMMA InitTypes == Init => TypeOK
<1> SUFFICES ASSUME Init PROVE TypeOK
  OBVIOUS
<1>1. /\ life \in {"new", "ready", "looping", "exiting", "looped", "final", "gone"}
      /\ threadNum \in Nat /\ consumers \in Nat /\ signal \in BOOLEAN /\ due \in BOOLEAN
      /\ pending \in [Connections -> Nat] /\ arrived \in Nat
      /\ hand \in [Connections -> Hands \cup {None}]
  BY DEF Init
<1>2. /\ pc = "idle" /\ call = None
      /\ shown \in 0 .. Len(ShowList) /\ basis \in Hands \cup {None} /\ expired \in BOOLEAN
  BY ListFacts DEF Init
<1>3. /\ issued \in [Engines -> Nat] /\ processed \in [Engines -> Nat]
      /\ queued \in [Engines -> Nat] /\ busy \in [Engines -> Nat]
      /\ target \in [Engines -> Situations \cup {None}]
      /\ timedOut \subseteq Engines
  BY DEF Init
<1>4. nodes \in [Engines -> SUBSET InfoSets]
  BY DEF Init
<1> QED
  BY <1>1, <1>2, <1>3, <1>4 DEF TypeOK

\* Deploy's own steps, and those of nobody, leave calls and engines alone.
LEMMA ExitStepTypes ==
  ASSUME TypeOK,
         DeployInit \/ Listen \/ Interrupt \/ SignalCallback \/ ThreeSeconds \/ LoopExit
           \/ DeployFinal \/ DeployDeleted \/ UNCHANGED vars
  PROVE  TypeOK'
<1> USE DEF TypeOK, exitVars, initVars, clientVars, callVars, engineVars
<1>1. CASE DeployInit
  BY <1>1, ServerAssumption DEF DeployInit, Started
<1>2. CASE Listen \/ Interrupt \/ SignalCallback \/ ThreeSeconds
  BY <1>2 DEF Listen, Interrupt, SignalCallback, ThreeSeconds
<1>3. CASE LoopExit \/ DeployFinal \/ DeployDeleted
  BY <1>3 DEF LoopExit, DeployFinal, DeployDeleted
<1>4. CASE UNCHANGED vars
  BY <1>4 DEF vars
<1> QED
  BY <1>1, <1>2, <1>3, <1>4

LEMMA CallStepTypes ==
  ASSUME TypeOK,
         (\E c \in Connections : Arrive(c) \/ Serve(c)) \/ Closed \/ Look \/ Begin
           \/ Completed \/ Poll \/ TimeOut \/ Issue \/ Expire \/ Show \/ ShowOver \/ Decide
  PROVE  TypeOK'
<1> USE DEF TypeOK, exitVars, initVars, clientVars, callVars, engineVars
<1>1. ASSUME NEW c \in Connections, Arrive(c)
      PROVE  TypeOK'
  BY <1>1 DEF Arrive
<1>2. ASSUME NEW c \in Connections, Serve(c)
      PROVE  TypeOK'
  <2>1. hand' \in [Connections -> Hands \cup {None}]
    BY <1>2 DEF Serve, Hands
  <2>2. pending' \in [Connections -> Nat]
    BY <1>2 DEF Serve
  <2>3. CASE UNCHANGED callVars
    BY <1>2, <2>1, <2>2, <2>3 DEF Serve
  <2>4. CASE /\ \E e \in Engines, s \in Situations : call' = [conn |-> c, engine |-> e, sit |-> s]
             /\ pc' = "look"
             /\ UNCHANGED <<shown, basis, expired>>
    BY <1>2, <2>1, <2>2, <2>4 DEF Serve
  <2> QED
    BY <1>2, <2>3, <2>4 DEF Serve
<1>3. CASE Closed \/ Look
  BY <1>3 DEF Closed, Look
<1>4. CASE Begin
  BY <1>4 DEF Begin
<1>5. CASE Completed \/ Poll \/ ShowOver \/ Expire
  BY <1>5 DEF Completed, Poll, ShowOver, Expire, InSearch
<1>6. CASE TimeOut
  BY <1>6 DEF TimeOut
<1>7. CASE Issue
  <2>1. call.engine \in Engines
    BY <1>7 DEF Issue
  <2>2. issued' \in [Engines -> Nat] /\ queued' \in [Engines -> Nat]
    <3>1. CASE issued[call.engine] < Iterations
      <4>1. issued' = [issued EXCEPT ![call.engine] = @ + 1]
        BY <1>7, <3>1 DEF Issue
      <4>2. queued' = [queued EXCEPT ![call.engine] = @ + 1]
        BY <1>7, <3>1 DEF Issue
      <4> QED
        BY <2>1, <4>1, <4>2
    <3>2. CASE ~(issued[call.engine] < Iterations)
      BY <1>7, <3>2 DEF Issue
    <3> QED
      BY <3>1, <3>2
  <2> QED
    BY <1>7, <2>2 DEF Issue
<1>8. CASE Show
  <2>1. ShowList[shown + 1] \in Hands /\ shown + 1 \in 0 .. Len(ShowList)
    BY <1>8, ListFacts DEF Show
  <2>2. hand' \in [Connections -> Hands \cup {None}]
    BY <1>8, <2>1 DEF Show
  <2>3. CASE Return
    BY <1>8, <2>2, <2>3, ListFacts DEF Show, Return
  <2>4. CASE ~Return
    BY <1>8, <2>1, <2>2, <2>4 DEF Show, LastFound
  <2> QED
    BY <2>3, <2>4
<1>9. CASE Decide
  BY <1>9, ListFacts DEF Decide, Return
<1> QED
  BY <1>1, <1>2, <1>3, <1>4, <1>5, <1>6, <1>7, <1>8, <1>9

LEMMA ConsumerTypes ==
  ASSUME TypeOK, Targets, NEW e \in Engines, Take(e) \/ Finish(e)
  PROVE  TypeOK'
<1> USE DEF TypeOK, exitVars, initVars, clientVars, callVars
<1>1. CASE Take(e)
  BY <1>1 DEF Take
<1>2. CASE Finish(e)
  <2>1. target[e] \in Situations
    BY <1>2 DEF Finish, Targets, Unfinished
  <2>2. PICK hs \in Learned :
          nodes' = [nodes EXCEPT ![e] = @ \cup {Info(target[e], h) : h \in hs}]
    BY <1>2 DEF Finish
  <2>3. {Info(target[e], h) : h \in hs} \subseteq InfoSets
    BY <2>1, <2>2, ServerAssumption DEF Info, InfoSets
  <2>4. nodes' \in [Engines -> SUBSET InfoSets]
    BY <2>2, <2>3
  <2> QED
    BY <1>2, <2>4 DEF Finish
<1> QED
  BY <1>1, <1>2

LEMMA TypesStep ==
  ASSUME TypeOK, Targets, [Next]_vars
  PROVE  TypeOK'
BY ExitStepTypes, CallStepTypes, ConsumerTypes DEF Next, Call

-----------------------------------------------------------------------------
(* The parts of the invariant that speak of one call.                      *)

LEMMA IdleStep ==
  ASSUME Idle, [Next]_vars
  PROVE  Idle'
<1> USE DEF Idle, Running
<1>1. CASE pc' = "idle"
  BY <1>1
<1>2. CASE pc' # "idle" /\ life' = life
  <2>1. pc = "idle" => life \in Running
    BY <1>2 DEF Next, Call, DeployInit, Listen, Interrupt, SignalCallback, ThreeSeconds, LoopExit,
                DeployFinal, DeployDeleted, Arrive, Serve, Closed, Look, Begin, Completed, Poll,
                TimeOut, Issue, Expire, Show, ShowOver, Decide, Take, Finish, InSearch,
                vars, callVars
  <2> QED
    BY <1>2, <2>1
<1>3. CASE pc' # "idle" /\ life' # life
  BY <1>3 DEF Next, Call, DeployInit, Listen, Interrupt, SignalCallback, ThreeSeconds, LoopExit,
              DeployFinal, DeployDeleted, Arrive, Serve, Closed, Look, Begin, Completed, Poll,
              TimeOut, Issue, Expire, Show, ShowOver, Decide, Take, Finish, vars, exitVars, callVars
<1> QED
  BY <1>1, <1>2, <1>3

\* A step that does not touch the engines or the place in the search.
Elsewhere == UNCHANGED <<engineVars, pc, call>>
LEMMA ElsewhereSteps ==
  ASSUME DeployInit \/ Listen \/ Interrupt \/ SignalCallback \/ ThreeSeconds \/ LoopExit
           \/ DeployFinal \/ DeployDeleted \/ UNCHANGED vars
           \/ (\E c \in Connections : Arrive(c)) \/ Expire
  PROVE  Elsewhere
BY DEF DeployInit, Listen, Interrupt, SignalCallback, ThreeSeconds, LoopExit, DeployFinal,
       DeployDeleted, Arrive, Expire, Elsewhere, vars, callVars

\* A step that leaves the engines alone and is not in the loop of a search after it.
Aside == UNCHANGED engineVars /\ pc' \notin {"poll", "wait"}
LEMMA AsideSteps ==
  ASSUME (\E c \in Connections : Serve(c)) \/ Closed \/ Look \/ Completed \/ Show \/ ShowOver
           \/ Decide,
         ~Elsewhere
  PROVE  Aside
<1>1. CASE Closed \/ Look \/ Completed \/ ShowOver
  BY <1>1 DEF Closed, Look, Completed, ShowOver, Aside
<1>2. CASE Show \/ Decide
  <2>1. UNCHANGED engineVars /\ (pc' = pc \/ pc' = "idle") /\ pc \in {"show", "decide"}
    BY <1>2 DEF Show, Decide, Return
  <2> QED
    BY <2>1 DEF Aside
<1>3. ASSUME NEW c \in Connections, Serve(c)
      PROVE  Aside
  BY <1>3 DEF Serve, Aside, callVars, Elsewhere
<1> QED
  BY <1>1, <1>2, <1>3

-----------------------------------------------------------------------------
(* The steps that do touch the engines, as what they do to one of them.    *)

LEMMA CallEngine ==
  ASSUME TypeOK, pc # "idle"
  PROVE  call.engine \in Engines /\ call.sit \in Situations /\ call.conn \in Connections
BY DEF TypeOK

LEMMA TargetsStep ==
  ASSUME TypeOK, Targets, [Next]_vars
  PROVE  Targets'
<1> USE DEF Targets, Unfinished
<1>1. CASE Elsewhere \/ Aside
  BY <1>1 DEF Elsewhere, Aside, engineVars
<1>2. CASE Begin
  <2>1. call.engine \in Engines /\ call.sit \in Situations
    BY <1>2, CallEngine DEF Begin
  <2>2. target' = [target EXCEPT ![call.engine] = call.sit]
    BY <1>2 DEF Begin
  <2>3. call' = call /\ queued' = queued /\ busy' = busy
    BY <1>2 DEF Begin
  <2> QED
    BY <2>1, <2>2, <2>3 DEF TypeOK
<1>3. CASE Poll \/ TimeOut
  BY <1>3 DEF Poll, TimeOut, engineVars
<1>4. CASE Issue
  <2>1. call.engine \in Engines /\ call.sit \in Situations
    BY <1>4, CallEngine DEF Issue
  <2>2. target' = target /\ busy' = busy /\ call' = call /\ target[call.engine] = call.sit
    BY <1>4 DEF Issue
  <2>3. \A e \in Engines : e # call.engine => queued'[e] = queued[e]
    BY <1>4, <2>1 DEF Issue, TypeOK
  <2> QED
    BY <2>1, <2>2, <2>3
<1>5. ASSUME NEW e \in Engines, Take(e)
      PROVE  Targets'
  <2>1. \A f \in Engines : Unfinished(f)' => Unfinished(f)
    BY <1>5 DEF Take, TypeOK
  <2> QED
    BY <1>5, <2>1 DEF Take, callVars
<1>6. ASSUME NEW e \in Engines, Finish(e)
      PROVE  Targets'
  <2>1. \A f \in Engines : Unfinished(f)' => Unfinished(f)
    BY <1>6 DEF Finish, TypeOK
  <2> QED
    BY <1>6, <2>1 DEF Finish, callVars
<1> QED
  BY <1>1, <1>2, <1>3, <1>4, <1>5, <1>6, ElsewhereSteps, AsideSteps DEF Next, Call

LEMMA BalanceStep ==
  ASSUME TypeOK, Balance, [Next]_vars
  PROVE  Balance'
<1> USE DEF Balance, Balanced, Unfinished, AtWork
<1>1. CASE Elsewhere
  BY <1>1 DEF Elsewhere, engineVars
<1>2. CASE Aside /\ pc \notin {"poll", "wait"}
  BY <1>2 DEF Aside, engineVars
<1>3. CASE Completed
  <2>1. UNCHANGED engineVars /\ pc = "poll" /\ pc' = "show" /\ call.engine \in Engines
    BY <1>3, CallEngine DEF Completed
  <2>2. processed[call.engine] = Iterations
    BY <1>3 DEF Completed
  <2>3. call.engine \notin timedOut => ~Unfinished(call.engine)
    BY <2>1, <2>2, ServerAssumption DEF TypeOK
  <2> QED
    BY <2>1, <2>3 DEF engineVars
<1>4. CASE Begin
  <2>1. call.engine \in Engines
    BY <1>4, CallEngine DEF Begin
  <2>2. pc = "begin" /\ pc' = "poll" /\ call' = call
        /\ queued' = queued /\ busy' = busy /\ timedOut' = timedOut
    BY <1>4 DEF Begin
  <2>3. issued'[call.engine] = 0 /\ processed'[call.engine] = 0
    BY <1>4, <2>1 DEF Begin, TypeOK
  <2>4. \A e \in Engines : e \notin timedOut => queued[e] = 0 /\ busy[e] = 0
    BY <2>2 DEF TypeOK
  <2> QED
    BY <2>1, <2>2, <2>3, <2>4, ServerAssumption
<1>5. CASE Poll
  BY <1>5 DEF Poll, engineVars
<1>6. CASE TimeOut
  BY <1>6 DEF TimeOut
<1>7. CASE Issue
  <2>1. call.engine \in Engines
    BY <1>7, CallEngine DEF Issue
  <2>2. pc = "wait" /\ pc' = "poll" /\ call' = call
        /\ processed' = processed /\ busy' = busy /\ timedOut' = timedOut
    BY <1>7 DEF Issue
  <2>3. CASE UNCHANGED <<issued, queued>>
    BY <2>2, <2>3
  <2>4. CASE issued[call.engine] < Iterations
    <3>1. issued' = [issued EXCEPT ![call.engine] = @ + 1]
      BY <1>7, <2>4 DEF Issue
    <3>2. queued' = [queued EXCEPT ![call.engine] = @ + 1]
      BY <1>7, <2>4 DEF Issue
    <3>3. issued'[call.engine] = issued[call.engine] + 1
          /\ queued'[call.engine] = queued[call.engine] + 1
      BY <2>1, <3>1, <3>2 DEF TypeOK
    <3>4. \A e \in Engines : e # call.engine => queued'[e] = queued[e]
      BY <3>2 DEF TypeOK
    <3>5. \A e \in Engines : e # call.engine => issued'[e] = issued[e]
      BY <3>1 DEF TypeOK
    <3>6. issued[call.engine] \in Nat /\ processed[call.engine] \in Nat
          /\ queued[call.engine] \in Nat /\ busy[call.engine] \in Nat /\ Iterations \in Nat
      BY <2>1, ServerAssumption DEF TypeOK
    <3>7. call.engine \notin timedOut => Balanced(call.engine)'
      BY <2>1, <2>2, <2>4, <3>3, <3>6
    <3>8. ASSUME NEW e \in Engines, e # call.engine, e \notin timedOut
          PROVE  Balanced(e)'
      BY <2>2, <3>4, <3>8
    <3> QED
      BY <2>2, <3>7, <3>8
  <2> QED
    BY <1>7, <2>3, <2>4 DEF Issue
<1>8. ASSUME NEW e \in Engines, Take(e)
      PROVE  Balance'
  <2>1. pc' = pc /\ call' = call /\ timedOut' = timedOut
        /\ issued' = issued /\ processed' = processed
    BY <1>8 DEF Take, callVars
  <2>2. queued'[e] = queued[e] - 1 /\ busy'[e] = busy[e] + 1 /\ queued[e] > 0
    BY <1>8 DEF Take, TypeOK
  <2>3. \A f \in Engines : f # e => queued'[f] = queued[f] /\ busy'[f] = busy[f]
    BY <1>8 DEF Take, TypeOK
  <2>4. issued[e] \in Nat /\ processed[e] \in Nat /\ queued[e] \in Nat /\ busy[e] \in Nat
    BY DEF TypeOK
  <2>5. e \notin timedOut => Balanced(e)'
    BY <2>1, <2>2, <2>4
  <2>6. ASSUME NEW f \in Engines, f # e, f \notin timedOut
        PROVE  Balanced(f)'
    BY <2>1, <2>3, <2>6
  <2> QED
    BY <2>1, <2>5, <2>6
<1>9. ASSUME NEW e \in Engines, Finish(e)
      PROVE  Balance'
  <2>1. pc' = pc /\ call' = call /\ timedOut' = timedOut /\ issued' = issued /\ queued' = queued
    BY <1>9 DEF Finish, callVars
  <2>2. busy'[e] = busy[e] - 1 /\ processed'[e] = processed[e] + 1 /\ busy[e] > 0
    BY <1>9 DEF Finish, TypeOK
  <2>3. \A f \in Engines : f # e => busy'[f] = busy[f] /\ processed'[f] = processed[f]
    BY <1>9 DEF Finish, TypeOK
  <2>4. issued[e] \in Nat /\ processed[e] \in Nat /\ queued[e] \in Nat /\ busy[e] \in Nat
    BY DEF TypeOK
  <2>5. e \notin timedOut => Balanced(e)'
    BY <2>1, <2>2, <2>4
  <2>6. ASSUME NEW f \in Engines, f # e, f \notin timedOut
        PROVE  Balanced(f)'
    BY <2>1, <2>3, <2>6
  <2> QED
    BY <2>1, <2>5, <2>6
<1>10. ((\E c \in Connections : Serve(c)) \/ Closed \/ Look \/ Show \/ ShowOver \/ Decide)
         => pc \notin {"poll", "wait"}
  BY DEF Serve, Closed, Look, Show, ShowOver, Decide
<1> QED
  BY <1>1, <1>2, <1>3, <1>4, <1>5, <1>6, <1>7, <1>8, <1>9, <1>10, ElsewhereSteps, AsideSteps
     DEF Next, Call

-----------------------------------------------------------------------------
(* The hand the decision rests on.                                         *)

\* Nobody adds a node to an engine that is not at work.
LEMMA NodesStay ==
  ASSUME TypeOK, Balance, [Next]_vars, pc \in {"show", "decide"}, call.engine \notin timedOut
  PROVE  nodes'[call.engine] = nodes[call.engine] /\ timedOut' = timedOut
<1>1. call.engine \in Engines /\ ~Unfinished(call.engine)
  BY CallEngine DEF Balance, Balanced, AtWork
<1>2. ASSUME NEW e \in Engines, Finish(e)
      PROVE  nodes'[call.engine] = nodes[call.engine] /\ timedOut' = timedOut
  <2>1. e # call.engine
    BY <1>1, <1>2 DEF Finish, Unfinished
  <2> QED
    BY <1>1, <1>2, <2>1 DEF Finish, TypeOK
<1>3. ASSUME NEW e \in Engines, Take(e)
      PROVE  nodes' = nodes /\ timedOut' = timedOut
  BY <1>3 DEF Take
<1>4. CASE Elsewhere \/ Aside
  BY <1>4 DEF Elsewhere, Aside, engineVars
<1>5. ~Begin /\ ~Poll /\ ~TimeOut /\ ~Issue
  BY DEF Begin, Poll, TimeOut, Issue
<1> QED
  BY <1>2, <1>3, <1>4, <1>5, ElsewhereSteps, AsideSteps DEF Next, Call

\* One more hand is shown.
LEMMA LastOfNext ==
  ASSUME LastOf(shown), shown \in Nat, shown' = shown + 1, call' = call,
         basis' = LastFound(ShowList[shown + 1]),
         nodes'[call.engine] = nodes[call.engine]
  PROVE  LastOf(shown)'
<1> DEFINE n == shown + 1
<1>1. \A h : Known(h)' <=> Known(h)
  BY DEF Known
<1>2. 1 .. n = (1 .. shown) \cup {n} /\ n \in 1 .. n /\ n \notin 1 .. shown
  OBVIOUS
<1>3. \A i \in 1 .. shown : n > i /\ ~(i > n)
  OBVIOUS
<1>4. LastOf(shown)' <=>
        \/ basis' = None /\ \A i \in 1 .. n : ~Known(ShowList[i])
        \/ \E i \in 1 .. n : /\ Known(ShowList[i]) /\ basis' = ShowList[i]
                             /\ \A j \in 1 .. n : j > i => ~Known(ShowList[j])
  BY <1>1 DEF LastOf
<1>5. CASE Known(ShowList[n])
  <2>1. basis' = ShowList[n]
    BY <1>5 DEF LastFound
  <2>2. \A j \in 1 .. n : ~(j > n)
    OBVIOUS
  <2> QED
    BY <1>2, <1>4, <1>5, <2>1, <2>2
<1>6. CASE ~Known(ShowList[n])
  <2>1. basis' = basis
    BY <1>6 DEF LastFound
  <2> HIDE DEF n
  <2> QED
    BY <1>2, <1>3, <1>4, <1>6, <2>1 DEF LastOf
<1> QED
  BY <1>5, <1>6

LEMMA LastOfStays ==
  ASSUME LastOf(shown), shown' = shown, call' = call, basis' = basis,
         nodes'[call.engine] = nodes[call.engine]
  PROVE  LastOf(shown)'
BY DEF LastOf, Known

LEMMA LastOfNone ==
  ASSUME basis = None
  PROVE  LastOf(0)
BY DEF LastOf

LEMMA BasisStep ==
  ASSUME TypeOK, Balance, Basis, [Next]_vars
  PROVE  Basis'
<1> USE DEF Basis
<1>1. shown \in Nat /\ Len(ShowList) \in Nat
  BY ListFacts DEF TypeOK
<1>2. CASE UNCHANGED callVars
  <2>1. CASE pc \in {"show", "decide"} /\ call.engine \notin timedOut
    BY <1>2, <2>1, NodesStay, LastOfStays DEF callVars
  <2>2. CASE pc \in {"show", "decide"} /\ call.engine \in timedOut
    <3>1. timedOut \subseteq timedOut'
      BY DEF Next, Call, DeployInit, Listen, Interrupt, SignalCallback, ThreeSeconds, LoopExit,
             DeployFinal, DeployDeleted, Arrive, Serve, Closed, Look, Begin, Completed, Poll,
             TimeOut, Issue, Expire, Show, ShowOver, Decide, Take, Finish, vars, engineVars
    <3> QED
      BY <1>2, <2>2, <3>1 DEF callVars
  <2>3. CASE pc \notin {"show", "decide"}
    BY <1>2, <2>3 DEF callVars
  <2> QED
    BY <2>1, <2>2, <2>3
<1>3. CASE Look \/ Begin \/ Completed \/ Poll \/ TimeOut \/ Issue \/ Expire \/ Closed
  <2>1. shown' = shown /\ basis' = basis /\ (pc \notin {"show", "decide"})
    BY <1>3 DEF Look, Begin, Completed, Poll, TimeOut, Issue, Expire, Closed, InSearch
  <2>2. shown' = 0 /\ basis' = None
    BY <2>1
  <2>3. LastOf(0)'
    BY <2>2 DEF LastOf
  <2>4. LastOf(shown)'
    BY <2>2, <2>3
  <2> QED
    BY <2>2, <2>4
<1>4. CASE Show /\ Return
  BY <1>4 DEF Return
<1>5. CASE Show /\ ~Return
  <2>1. /\ shown' = shown + 1 /\ basis' = LastFound(ShowList[shown + 1])
        /\ pc = "show" /\ pc' = pc /\ call' = call /\ UNCHANGED engineVars
    BY <1>5 DEF Show
  <2>2. call.engine \notin timedOut => LastOf(shown)'
    BY <1>1, <2>1, LastOfNext DEF engineVars
  <2> QED
    BY <2>1, <2>2 DEF engineVars
<1>6. CASE ShowOver
  <2>1. shown' = shown /\ basis' = basis /\ call' = call /\ pc = "show" /\ UNCHANGED engineVars
        /\ shown = Len(ShowList) /\ pc' = "decide"
    BY <1>6 DEF ShowOver
  <2>2. call.engine \notin timedOut => LastOf(shown)'
    BY <2>1, LastOfStays DEF engineVars
  <2> QED
    BY <2>1, <2>2 DEF engineVars
<1>7. CASE Decide
  BY <1>7 DEF Decide, Return
<1>8. ASSUME NEW c \in Connections, Serve(c), ~UNCHANGED callVars
      PROVE  Basis'
  BY <1>8 DEF Serve
<1>9. ASSUME DeployInit \/ Listen \/ Interrupt \/ SignalCallback \/ ThreeSeconds \/ LoopExit
               \/ DeployFinal \/ DeployDeleted \/ UNCHANGED vars
               \/ (\E c \in Connections : Arrive(c)) \/ (\E e \in Engines : Take(e) \/ Finish(e))
      PROVE  UNCHANGED callVars
  BY <1>9 DEF DeployInit, Listen, Interrupt, SignalCallback, ThreeSeconds, LoopExit, DeployFinal,
              DeployDeleted, Arrive, Take, Finish, vars
<1> QED
  BY <1>2, <1>3, <1>4, <1>5, <1>6, <1>7, <1>8, <1>9 DEF Next, Call

-----------------------------------------------------------------------------
LEMMA InitInv == Init => Inv
<1> SUFFICES ASSUME Init PROVE Inv
  OBVIOUS
<1>1. pc = "idle" /\ shown = 0 /\ basis = None
  BY DEF Init
<1>2. \A e \in Engines : ~Unfinished(e)
  BY DEF Init, Unfinished
<1> QED
  BY <1>1, <1>2, InitTypes DEF Inv, Idle, Targets, Balance, Balanced, AtWork, Basis

LEMMA InvStep == Inv /\ [Next]_vars => Inv'
BY TypesStep, IdleStep, TargetsStep, BalanceStep, BasisStep DEF Inv

\* The inductive invariant of the server.
THEOREM ServerInductive == Spec => []Inv
BY InitInv, InvStep, PTL DEF Spec

\* Every reachable state of the server is well typed; in particular, no task works
\* without a State, so that every node has a situation.
THEOREM ServerTypes == Spec => []TypeOK
<1>1. Inv => TypeOK
  BY DEF Inv
<1> QED
  BY <1>1, ServerInductive, PTL

\* Without time-outs, only the engine of the search that runs has tasks, and none
\* when the loop has ended.
THEOREM OneEngineAtWork == Spec => []OneAtWork
<1>1. Inv => OneAtWork
  BY DEF Inv, OneAtWork, Idle, Balance, Balanced, AtWork, InSearch
<1> QED
  BY <1>1, ServerInductive, PTL

\* The decision rests on the last of the shown hands that has a node.
THEOREM LastShownDecides == Spec => []DecidedOnLastShown
<1>1. ASSUME Inv, pc = "decide", shown > 0, call.engine \notin timedOut
      PROVE  LET found == {i \in 1 .. Len(ShowList) : Known(ShowList[i])}
             IN  IF found = {} THEN basis = None
                 ELSE \E i \in found : basis = ShowList[i] /\ \A j \in found : j <= i
  <2>1. LastOf(Len(ShowList)) /\ Len(ShowList) \in Nat
    BY <1>1, ListFacts DEF Inv, Basis
  <2>2. CASE basis = None /\ \A i \in 1 .. Len(ShowList) : ~Known(ShowList[i])
    BY <2>2
  <2>3. ASSUME NEW i \in 1 .. Len(ShowList), Known(ShowList[i]), basis = ShowList[i],
               \A j \in 1 .. Len(ShowList) : j > i => ~Known(ShowList[j])
        PROVE  \A j \in 1 .. Len(ShowList) : Known(ShowList[j]) => j <= i
    BY <2>1, <2>3
  <2> QED
    BY <2>1, <2>2, <2>3 DEF LastOf
<1>2. Inv => DecidedOnLastShown
  BY <1>1 DEF DecidedOnLastShown
<1> QED
  BY <1>2, ServerInductive, PTL
=============================================================================
