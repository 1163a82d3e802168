--------------------------- MODULE TrainingBatch ---------------------------
(***************************************************************************)
(* What Research::search promises its caller: a batch of iterations is     *)
(* requested, every one of them is processed once, and only then does the  *)
(* search come back, unless the engine has been stopped.                   *)
(***************************************************************************)
EXTENDS Naturals

CONSTANT IterationCounts   \* the sizes a batch may have

VARIABLES
  training,    \* whether a batch is under way
  requested,   \* how many iterations it is to have
  done,        \* how many have been processed
  open         \* whether the engine still accepts work

vars == <<training, requested, done, open>>

Init == training = FALSE /\ requested \in Nat /\ done = 0 /\ open = TRUE

Start(n) ==
  /\ ~training
  /\ training' = TRUE /\ requested' = n /\ done' = 0
  /\ UNCHANGED open

Iterate ==
  /\ training /\ done < requested
  /\ done' = done + 1
  /\ UNCHANGED <<training, requested, open>>

Complete ==
  /\ training /\ done = requested
  /\ training' = FALSE
  /\ UNCHANGED <<requested, done, open>>

Abandon ==
  /\ training /\ ~open
  /\ training' = FALSE
  /\ UNCHANGED <<requested, done, open>>

Stop == open /\ ~training /\ open' = FALSE /\ UNCHANGED <<training, requested, done>>

Next ==
  \/ \E n \in IterationCounts : Start(n)
  \/ Iterate \/ Complete \/ Abandon \/ Stop

Safety == Init /\ [][Next]_vars

\* Once begun, a batch makes progress to its end.
Spec == Safety /\ WF_vars(Iterate) /\ WF_vars(Complete) /\ WF_vars(Abandon)
=============================================================================
