------------------------------ MODULE MCReplay ------------------------------
(* A short game of three seats at a table of four for TLC. *)
EXTENDS Replay

\* The seats bring different stacks, and a short one goes all in below the others' bets.
Stacks == [s \in 0 .. 2 |-> CASE s = 0 -> 16 [] s = 1 -> 14 [] s = 2 -> 6]

FourCards == [face : {13, 14}, suit : 0 .. 1]
SomeBoards == {{}, {[face |-> 14, suit |-> 0]}}

\* Half of the hands would do it, for sure or at times; none would; one is
\* not known.
SomePreflopNodes ==
  {[c \in Clusters |-> IF c > 160 THEN 2 ELSE 1], [c \in Clusters |-> 0],
   [c \in Clusters |-> IF c = Max(Clusters) THEN NoNode ELSE IF c > 160 THEN 2 ELSE 0]}
SomeBoardNodes ==
  {[h \in AllHands |-> IF h[1].suit = 0 THEN 2 ELSE 1],
   [h \in AllHands |-> IF h[1].face = h[2].face THEN NoNode ELSE 0]}
=============================================================================
