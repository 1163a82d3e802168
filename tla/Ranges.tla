------------------------------- MODULE Ranges -------------------------------
(***************************************************************************)
(* The range of a player: how likely each pair of hole cards is, and what  *)
(* an action the player took does to it (the Bayes step in the replay of   *)
(* SessionHandle::handleRobotDecide2, and the look-up of Evaluate::eval).  *)
(*                                                                         *)
(* A range is a record: hand h has the probability odds[h] / unit, and a   *)
(* hand outside the domain of odds was erased. These are the code's        *)
(* doubles without their rounding.                                         *)
(***************************************************************************)
EXTENDS Integers, FiniteSetsExt

CONSTANTS
  TestCards,     \* the cards initHandsList makes hands of: [face, suit] records
  DefaultOdds,   \* 1326, of DEFAULT_PROBS
  Grain,         \* the probabilities of a node are multiples of 1 / Grain
  PreflopNodes,  \* what an engine may know before the flop, cluster by cluster
  BoardNodes     \* and with a board, hand by hand

NoNode == -1
Outcomes == 0 .. Grain \cup {NoNode}

\* The pairs of testCards, the one later in the list first.
After(c, d) == c.suit > d.suit \/ (c.suit = d.suit /\ c.face > d.face)
AllHands == {h \in TestCards \X TestCards : After(h[1], h[2])}

cloneHandProbs == [odds |-> [h \in AllHands |-> 1], unit |-> DefaultOdds]

-----------------------------------------------------------------------------
\* A slip: the smaller face is taken to be the first.
ClusterInOrder(h) ==
  LET mid == h[1].face - 2
      dif == h[2].face - h[1].face
  IN  (mid * 13) + mid + (IF h[1].suit = h[2].suit THEN dif * 13 ELSE dif)

\* The cluster of a hand before the flop.
Cluster(h) ==
  LET mid == IF h[1].face >= h[2].face THEN h[2].face - 2 ELSE h[1].face - 2
      dif == IF h[1].face >= h[2].face THEN h[1].face - h[2].face ELSE h[2].face - h[1].face
  IN  (mid * 13) + mid + (IF h[1].suit = h[2].suit THEN dif * 13 ELSE dif)

\* What the clusters should tell apart: the two faces, and whether the suits agree.
SameClass(g, h) ==
  /\ {g[1].face, g[2].face} = {h[1].face, h[2].face}
  /\ (g[1].suit = g[2].suit) = (h[1].suit = h[2].suit)

Alike == {pair \in AllHands \X AllHands : SameClass(pair[1], pair[2])}

Clusters == {Cluster(h) : h \in AllHands}
Nodes(round) == IF round = 0 THEN PreflopNodes ELSE BoardNodes

\* All hands are as likely as the share of each says: none is counted twice.
ASSUME RangesAssumption ==
  /\ TestCards \subseteq [face : Int, suit : Int] /\ IsFiniteSet(TestCards)
  /\ DefaultOdds \in Nat /\ Cardinality(AllHands) <= DefaultOdds
  /\ Grain \in Nat \ {0}
  /\ PreflopNodes \subseteq [Clusters -> Outcomes]
  /\ BoardNodes \subseteq [AllHands -> Outcomes]

\* eval: the probability that a node gives the action for this hand (0 when it
\* does not have the action), or NoNode for each of its error codes.
eval(h, round, node) == IF round = 0 THEN node[Cluster(h)] ELSE node[h]

Known(range, removed, round, node) ==
  {h \in DOMAIN range.odds \ removed : eval(h, round, node) # NoNode}

\* The odds of the hands, each times the probability of the action. A hand
\* without a node keeps its odds.
Scaled(range, round, node) ==
  [h \in DOMAIN range.odds |->
     range.odds[h] * (IF eval(h, round, node) = NoNode THEN Grain ELSE eval(h, round, node))]

\* A slip: the probabilities are added up without the hand's own.
ProbAWithoutPrior(range, removed, round, node) ==
  MapThenSumSet(LAMBDA h : eval(h, round, node), Known(range, removed, round, node))

\* The probability of the action, over all hands that were found.
ProbA(range, removed, round, node) ==
  MapThenSumSet(LAMBDA h : Scaled(range, round, node)[h], Known(range, removed, round, node))

\* The hands at least as likely as all were at first, once divided by total.
Likely(odds, unit, total) ==
  {h \in DOMAIN odds : odds[h] * DefaultOdds >= (IF total = 0 THEN unit ELSE total)}

\* The range after the player took an action: removed are the hands that were
\* found on the board.
Updated(range, removed, round, node) ==
  LET odds  == Scaled(range, round, node)
      unit  == range.unit * Grain
      total == ProbA(range, removed, round, node)
  IN  [odds |-> [h \in Likely(odds, unit, total) \ removed |-> odds[h]],
       unit |-> IF total = 0 THEN unit ELSE total]

Mass(range) == MapThenSumSet(LAMBDA h : range.odds[h], DOMAIN range.odds)
=============================================================================
