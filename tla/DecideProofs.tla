---------------------------- MODULE DecideProofs ----------------------------
(***************************************************************************)
(* The answered bet, for every table the history may leave, every strategy *)
(* and every configuration.                                                *)
(***************************************************************************)
EXTENDS Decide, TLAPS

\* What the bet branch relies on: the legal actions were computed from the same
\* figures, and an action drawn is one of them and set the answer.
LegalKept == phase \in {"legal", "show", "bet", "answered"} => validActions = LegalActions
TableKept == phase \notin {"idle", "dropped"} => table \in Tables
DefaultKept == phase # "answered" => aiAct = 16 /\ aiBet = 0 /\ action = "none"
ActionKept == phase = "answered" /\ action # "none" => action \in LegalActions
RaiseKept == aiAct = 128 => action \in Raises
BetKept == action \in Raises => aiBet = RaiseBet(action)

DecideInv == /\ TypeOK /\ LegalKept /\ TableKept /\ DefaultKept /\ ActionKept
             /\ RaiseKept /\ BetKept /\ FreeFoldIsFailure

-----------------------------------------------------------------------------
\* Arithmetic of the sizes.

\* The fields of a table are numbers.
LEMMA TableTypes ==
  ASSUME table \in Tables
  PROVE  /\ table.potSize \in Nat /\ table.callSize \in Nat /\ table.curRoundBet \in Nat
         /\ table.flopRaises \in Nat /\ table.curRemains \in Nat /\ table.curRemains > 0
         /\ table.newPos \in Nat /\ table.lastRaise \in Nat
         /\ Replayed(table)
<1>1. table \in TableFields /\ Replayed(table)
  BY TablesAssumption
<1> QED
  BY <1>1 DEF TableFields

\* A share of a pot rounds down to a natural number.
LEMMA ShareOfNat ==
  ASSUME NEW x \in Nat, NEW p \in {33, 50, 75, 100}
  PROVE  (x * p) \div 100 \in Nat
OBVIOUS

\* A half of a pot or more is at least a number the pot is twice of.
LEMMA HalfOrMore ==
  ASSUME NEW x \in Nat, NEW y \in Nat, x >= 2 * y, NEW p \in {50, 75, 100}
  PROVE  (x * p) \div 100 >= y
OBVIOUS

\* A third of four chips or more is a chip at least.
LEMMA SomeChip ==
  ASSUME NEW x \in Nat, x >= 4, NEW p \in {33, 50, 75, 100}
  PROVE  (x * p) \div 100 >= 1
OBVIOUS

\* Fixed percentages.
LEMMA PercentOf ==
  ASSUME NEW a \in Raises
  PROVE  Percent[a] \in {33, 50, 75, 100} /\ (a # "RAISE1" => Percent[a] \in {50, 75, 100})
BY DEF Raises, Percent

\* A share is a number, whatever is configured.
LEMMA ShareType ==
  ASSUME table \in Tables, NEW a \in Raises
  PROVE  Share(a) \in Nat
<1>1. table.potSize \in Nat /\ table.callSize \in Nat
  BY TableTypes
<1>2. table.potSize + (IF realRaise = 0 THEN 0 ELSE table.callSize) \in Nat
  BY <1>1
<1> QED
  BY <1>2, PercentOf, ShareOfNat DEF Share, ShareOf

\* The bet of a raise is at least the smallest bet, and more than the call when
\* raises come on top of it.
LEMMA BetAboveCall ==
  ASSUME TypeOK, table \in Tables, NEW a \in Raises
  PROVE  /\ RaiseBet(a) \in Nat /\ RaiseBet(a) >= bbSize
         /\ realRaise = 1 => RaiseBet(a) > table.callSize
<1>1. Share(a) \in Nat
  BY ShareType
<1>2. /\ table.potSize \in Nat /\ table.callSize \in Nat /\ table.curRoundBet \in Nat
      /\ table.potSize >= 3
  BY TableTypes DEF Replayed
<1>3. RaiseBet(a) \in Nat /\ RaiseBet(a) >= bbSize
  BY <1>1, <1>2 DEF RaiseBet, BetOf, bbSize
<1>4. ASSUME realRaise = 1
      PROVE  RaiseBet(a) > table.callSize
  <2>1. CASE table.callSize = 0
    BY <1>3, <2>1 DEF bbSize
  <2>2. CASE table.callSize # 0
    <3>1. table.potSize + table.callSize \in Nat /\ table.potSize + table.callSize >= 4
      BY <1>2, <2>2
    <3>2. Share(a) >= 1
      BY <1>4, <3>1, PercentOf, SomeChip DEF Share, ShareOf
    <3> QED
      BY <1>1, <1>2, <1>4, <3>2 DEF RaiseBet, BetOf, bbSize
  <2> QED
    BY <2>1, <2>2
<1> QED
  BY <1>3, <1>4

\* A legal raise leaves the bet that is answered within the stack.
LEMMA BetWithinStack ==
  ASSUME TypeOK, table \in Tables, ~Scripted, table.curRemains >= bbSize,
         NEW a \in Raises, LegalRaise(a)
  PROVE  RaiseBet(a) <= table.curRemains
<1>1. Share(a) \in Nat
  BY ShareType
<1>2. table.callSize \in Nat /\ table.curRemains \in Nat
  BY TableTypes
<1>3. realRaise \in {0, 1}
  BY ConfigAssumption DEF TypeOK
<1>4. LegalSize(a) = Share(a)
  BY DEF LegalSize
<1>5. \/ table.curRemains >= Share(a) + table.callSize
      \/ realRaise # 1 /\ table.curRemains >= Share(a)
  BY <1>4 DEF LegalRaise, Affordable
<1> QED
  BY <1>1, <1>2, <1>3, <1>5 DEF RaiseBet, BetOf, bbSize

\* A raise of half the pot or more doubles the bet to beat.
LEMMA BetDoubles ==
  ASSUME table \in Tables, realRaise = 1, table.callSize > 0,
         NEW a \in Raises, a # "RAISE1"
  PROVE  table.curRoundBet + RaiseBet(a) >= 2 * (table.curRoundBet + table.callSize)
<1>1. Share(a) \in Nat
  BY ShareType
<1>2. /\ table.potSize \in Nat /\ table.callSize \in Nat /\ table.curRoundBet \in Nat
      /\ table.potSize >= (2 * table.curRoundBet) + table.callSize
  BY TableTypes DEF Replayed
<1>3. /\ table.potSize + table.callSize \in Nat
      /\ table.curRoundBet + table.callSize \in Nat
      /\ table.potSize + table.callSize >= 2 * (table.curRoundBet + table.callSize)
  BY <1>2
<1>4. Share(a) >= table.curRoundBet + table.callSize
  BY <1>3, PercentOf, HalfOrMore DEF Share, ShareOf
<1> QED
  BY <1>1, <1>2, <1>4 DEF RaiseBet, BetOf, bbSize

-----------------------------------------------------------------------------
\* The invariant.

\* What the figures decide does not change while they do not.
LEMMA SameTable ==
  ASSUME UNCHANGED <<table, config>>
  PROVE  /\ LegalActions' = LegalActions
         /\ \A a \in Raises : RaiseBet(a)' = RaiseBet(a)
BY DEF config, LegalActions, Passive, MayRaise, LegalRaise, Affordable, DoublesTheBet,
       LegalSize, Scripted, Share, ShareOf, RaiseBet, BetOf

\* Some action is legal always, and a fold only when there is a bet to call.
LEMMA PassiveLegal ==
  /\ LegalActions # {} /\ LegalActions \subseteq Actions
  /\ table.callSize = 0 => "FOLD" \notin LegalActions
BY DEF LegalActions, Passive, Actions, Raises

\* A drawn action is legal.
LEMMA DrawnIsLegal ==
  ASSUME validActions = LegalActions, NEW a \in Drawable
  PROVE  a \in LegalActions
BY DEF Drawable, Weighted, OfferedAndLegal

\* The show list has three hands.
LEMMA ThreeHands ==
  /\ Len(ShowList) = 3
  /\ \A i \in 1..3 : ShowList[i] \in {ShowList[j] : j \in 1..Len(ShowList)}
  /\ "AsKh" \in {ShowList[j] : j \in 1..Len(ShowList)}
<1>1. Len(ShowList) = 3
  BY DEF ShowList
<1>2. ShowList[2] = "AsKh"
  BY DEF ShowList
<1> QED
  BY <1>1, <1>2

\* No action drawn is no raise.
LEMMA NoneIsNoRaise == "none" \notin Raises
BY DEF Raises

LEMMA InitInv == Init => DecideInv
<1> SUFFICES ASSUME Init PROVE DecideInv
  OBVIOUS
<1>1. TypeOK
  BY ThreeHands DEF Init, TypeOK
<1> QED
  BY <1>1, NoneIsNoRaise DEF Init, DecideInv, LegalKept, TableKept, DefaultKept,
     ActionKept, RaiseKept, BetKept, FreeFoldIsFailure

LEMMA ChooseInv ==
  ASSUME DecideInv, NEW a \in Actions, Choose(a)
  PROVE  DecideInv'
<1>1. validActions = LegalActions /\ table \in Tables /\ a \in LegalActions
  BY DrawnIsLegal DEF Choose, DecideInv, LegalKept, TableKept
<1>2. LegalActions' = LegalActions /\ \A b \in Raises : RaiseBet(b)' = RaiseBet(b)
  BY SameTable DEF Choose
<1>3. \A b \in Raises : RaiseBet(b) \in Nat
  BY <1>1, BetAboveCall DEF DecideInv
<1>4. table.callSize \in Nat /\ table.curRemains \in Nat
  BY <1>1, TableTypes
<1>5. aiAct' \in {16, 32, 64, 128, 256} /\ aiBet' \in Nat
  BY <1>3, <1>4 DEF Choose, Answer
<1>6. TypeOK'
  BY <1>5 DEF Choose, DecideInv, TypeOK, config
<1>7. aiAct' = 128 => a \in Raises
  BY DEF Choose, Answer
<1>8. a \in Raises => aiBet' = RaiseBet(a)
  BY DEF Choose, Answer, Raises
<1>9. aiAct' = 16 => a = "FOLD"
  BY DEF Choose, Answer
<1>10. FreeFoldIsFailure'
  BY <1>1, <1>9, PassiveLegal DEF Choose, FreeFoldIsFailure
<1>11. phase' = "answered" /\ action' = a /\ table' = table /\ validActions' = validActions
  BY DEF Choose
<1>12. LegalKept' /\ TableKept' /\ DefaultKept' /\ ActionKept'
  BY <1>1, <1>2, <1>11 DEF LegalKept, TableKept, DefaultKept, ActionKept
<1>13. RaiseKept' /\ BetKept'
  BY <1>2, <1>7, <1>8, <1>11 DEF RaiseKept, BetKept
<1> QED
  BY <1>6, <1>10, <1>12, <1>13 DEF DecideInv

LEMMA ChooseNothingInv ==
  ASSUME DecideInv, ChooseNothing
  PROVE  DecideInv'
<1>1. validActions = LegalActions /\ table \in Tables
  BY DEF ChooseNothing, DecideInv, LegalKept, TableKept
<1>2. LegalActions' = LegalActions /\ \A b \in Raises : RaiseBet(b)' = RaiseBet(b)
  BY SameTable DEF ChooseNothing
<1>3. aiAct = 16 /\ aiBet = 0 /\ action = "none"
  BY DEF ChooseNothing, DecideInv, DefaultKept
<1>4. DOMAIN strategySum # {} /\ OfferedAndLegal = {}
  BY <1>1, PassiveLegal DEF ChooseNothing, Drawable, Weighted
<1>5. FreeFoldIsFailure'
  BY <1>1, <1>2, <1>4 DEF ChooseNothing, FreeFoldIsFailure, OfferedAndLegal
<1>6. TypeOK'
  BY DEF ChooseNothing, DecideInv, TypeOK, config
<1> QED
  BY <1>1, <1>2, <1>3, <1>5, <1>6
  DEF ChooseNothing, DecideInv, LegalKept, TableKept, DefaultKept, ActionKept, RaiseKept,
      BetKept, Raises

LEMMA StepInv == DecideInv /\ [Next]_vars => DecideInv'
<1> SUFFICES ASSUME DecideInv, [Next]_vars PROVE DecideInv'
  OBVIOUS
<1>1. CASE Replay
  <2>1. TypeOK'
    BY <1>1, ThreeHands DEF Replay, DecideInv, TypeOK, config
  <2> QED
    BY <1>1, <2>1, NoneIsNoRaise DEF Replay, DecideInv, LegalKept, TableKept, DefaultKept, ActionKept,
       RaiseKept, BetKept, FreeFoldIsFailure
<1>2. CASE GetLegalActions
  <2>1. LegalActions' = LegalActions
    BY <1>2, SameTable DEF GetLegalActions
  <2>2. TypeOK'
    BY <1>2, PassiveLegal DEF GetLegalActions, DecideInv, TypeOK, config
  <2> QED
    BY <1>2, <2>1, <2>2, NoneIsNoRaise DEF GetLegalActions, DecideInv, LegalKept, TableKept, DefaultKept,
       ActionKept, RaiseKept, BetKept, FreeFoldIsFailure
<1>3. CASE Research \/ InitialRegret \/ ShowHand \/ Shown
  <2>1. LegalActions' = LegalActions
    BY <1>3, SameTable DEF Research, InitialRegret, ShowHand, Shown
  <2>2. TypeOK'
    <3>1. CASE Research \/ Shown
      BY <3>1 DEF Research, Shown, DecideInv, TypeOK, config
    <3>2. CASE InitialRegret
      BY <3>2 DEF InitialRegret, DecideInv, TypeOK, config
    <3>3. CASE ShowHand
      <4>1. shown' = shown + 1 /\ shown' \in 1..3 /\ shown' \in 0..3
        BY <3>3, ThreeHands DEF ShowHand, DecideInv, TypeOK
      <4>2. testHand' \in {ShowList[i] : i \in 1..Len(ShowList)}
        BY <3>3, <4>1, ThreeHands DEF ShowHand
      <4>3. phase' \in {"show", "dropped"} /\ strategySum' \in Strategies \cup {NoStrategy}
        BY <3>3 DEF ShowHand, DecideInv, TypeOK
      <4> QED
        BY <3>3, <4>1, <4>2, <4>3 DEF ShowHand, DecideInv, TypeOK, config
    <3> QED
      BY <1>3, <3>1, <3>2, <3>3
  <2>3. /\ phase \in {"legal", "show"} /\ phase' \in {"show", "bet", "dropped"}
        /\ UNCHANGED <<table, validActions, action, aiAct, aiBet>>
    BY <1>3 DEF Research, InitialRegret, ShowHand, Shown
  <2> QED
    BY <2>1, <2>2, <2>3, NoneIsNoRaise DEF DecideInv, LegalKept, TableKept, DefaultKept, ActionKept,
       RaiseKept, BetKept, FreeFoldIsFailure
<1>4. CASE \E a \in Actions : Choose(a)
  BY <1>4, ChooseInv
<1>5. CASE ChooseNothing
  BY <1>5, ChooseNothingInv
<1>6. CASE Return
  <2>1. TypeOK'
    BY <1>6 DEF Return, DecideInv, TypeOK, config
  <2> QED
    BY <1>6, <2>1, NoneIsNoRaise DEF Return, DecideInv, LegalKept, TableKept, DefaultKept, ActionKept,
       RaiseKept, BetKept, FreeFoldIsFailure
<1>7. CASE UNCHANGED vars
  <2>1. LegalActions' = LegalActions /\ \A b \in Raises : RaiseBet(b)' = RaiseBet(b)
    BY <1>7, SameTable DEF vars
  <2> QED
    BY <1>7, <2>1 DEF vars, config, DecideInv, TypeOK, LegalKept, TableKept, DefaultKept,
       ActionKept, RaiseKept, BetKept, FreeFoldIsFailure
<1> QED
  BY <1>1, <1>2, <1>3, <1>4, <1>5, <1>6, <1>7 DEF Next

\* Every behaviour keeps the invariant.
THEOREM DecideInductive == Spec => []DecideInv
BY InitInv, StepInv, PTL DEF Spec

-----------------------------------------------------------------------------
\* What the invariant says of the answer.

\* The answer's figures keep their types.
THEOREM AnswerTypes == Spec => []TypeOK
<1>1. DecideInv => TypeOK
  BY DEF DecideInv
<1> QED
  BY <1>1, DecideInductive, PTL

\* While a raise is the answer, it was legal for the figures it was computed from.
LEMMA RaiseWasLegal ==
  ASSUME DecideInv, action \in Raises
  PROVE  table \in Tables /\ LegalRaise(action) /\ aiBet = RaiseBet(action)
<1>1. phase = "answered" /\ action # "none"
  BY DEF DecideInv, DefaultKept, Raises
<1>2. action \in LegalActions /\ table \in Tables
  BY <1>1 DEF DecideInv, ActionKept, TableKept
<1>3. LegalRaise(action)
  BY <1>2 DEF LegalActions, Passive, Raises
<1> QED
  BY <1>2, <1>3 DEF DecideInv, BetKept

\* A raise is more than the call, for every pot the blinds are in.
THEOREM RaisesAreReal == Spec => []RaiseRaises
<1>1. ASSUME DecideInv PROVE RaiseRaises
  <2> SUFFICES ASSUME aiAct = 128, realRaise = 1 PROVE aiBet > table.callSize
    BY DEF RaiseRaises
  <2>1. action \in Raises
    BY <1>1 DEF DecideInv, RaiseKept
  <2> QED
    BY <1>1, <2>1, RaiseWasLegal, BetAboveCall DEF DecideInv
<1> QED
  BY <1>1, DecideInductive, PTL

\* A raise can be paid, outside the scripted opening, by a stack of the
\* smallest bet or more.
THEOREM RaisesArePayable == Spec => []RaisePayable
<1>1. ASSUME DecideInv PROVE RaisePayable
  <2> SUFFICES ASSUME aiAct = 128, ~Scripted, table.curRemains >= bbSize
               PROVE  aiBet <= table.curRemains
    BY DEF RaisePayable
  <2>1. action \in Raises
    BY <1>1 DEF DecideInv, RaiseKept
  <2> QED
    BY <1>1, <2>1, RaiseWasLegal, BetWithinStack DEF DecideInv
<1> QED
  BY <1>1, DecideInductive, PTL

\* A raise of half the pot or more doubles the bet to beat, under every rule.
THEOREM RaisesDouble == Spec => []MinRaise
<1>1. ASSUME DecideInv PROVE MinRaise
  <2> SUFFICES ASSUME action \in Raises \ {"RAISE1"}, realRaise = 1, table.callSize > 0
               PROVE  table.curRoundBet + aiBet >= 2 * (table.curRoundBet + table.callSize)
    BY DEF MinRaise
  <2> QED
    BY <1>1, RaiseWasLegal, BetDoubles
<1> QED
  BY <1>1, DecideInductive, PTL

\* A free fold is answered only when nothing offered is legal.
THEOREM FoldsAreFailures == Spec => []FreeFoldIsFailure
<1>1. DecideInv => FreeFoldIsFailure
  BY DEF DecideInv
<1> QED
  BY <1>1, DecideInductive, PTL
=============================================================================
