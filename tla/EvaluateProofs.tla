--------------------------- MODULE EvaluateProofs ---------------------------
(***************************************************************************)
(* That a call of dealCards gives no card to two players and, if the cards *)
(* go round, never runs out of hands, whatever the table and the deck.     *)
(***************************************************************************)
EXTENDS Evaluate, FiniteSetTheorems, SequenceTheorems, TLAPS

\* The cards dealt are those of the hands given and of the hand that the call
\* starts from; and two for every seat that is still to be visited are left over.
HandsDealt ==
  /\ ownHand \subseteq dealDards
  /\ \A i \in DOMAIN mHands : mHands[i] \subseteq dealDards

CardsCounted ==
  pc = "seats" => Cardinality(dealDards) + 2 * Len(vPositions) <= 2 * NumPlayers

DInv == TypeOK /\ HandsDealt /\ CardsApart /\ CardsCounted /\ EnoughCards

-----------------------------------------------------------------------------
\* A hand is two cards.
LEMMA PairIsTwo ==
  ASSUME NEW hand \in Pairs(Cards)
  PROVE  hand \subseteq Cards /\ IsFiniteSet(hand) /\ Cardinality(hand) = 2
<1>1. hand \subseteq Cards /\ Cardinality(hand) = 2
  BY DEF Pairs
<1>2. IsFiniteSet(hand)
  BY <1>1, FS_Subset, EvaluateAssumption
<1> QED
  BY <1>1, <1>2

\* A set of two cards or more holds a hand.
LEMMA TwoCardsMakeAHand ==
  ASSUME NEW S \in SUBSET TestCards, IsFiniteSet(S), Cardinality(S) >= 2
  PROVE  \E hand \in AllHands : hand \subseteq S
<1>1. S # {}
  BY FS_EmptySet
<1>2. PICK a : a \in S
  BY <1>1
<1>3. IsFiniteSet(S \ {a}) /\ Cardinality(S \ {a}) = Cardinality(S) - 1
  BY <1>2, FS_RemoveElement
<1>4. Cardinality(S) \in Nat
  BY FS_CardinalityType
<1>5. S \ {a} # {}
  BY <1>3, <1>4, FS_EmptySet
<1>6. PICK b : b \in S \ {a}
  BY <1>5
<1>7. IsFiniteSet({a}) /\ Cardinality({a}) = 1
  BY FS_Singleton
<1>8. Cardinality({a} \cup {b}) = 2
  <2>1. b \notin {a}
    BY <1>6
  <2>2. Cardinality({a} \cup {b}) = Cardinality({a}) + 1
    BY <1>7, <2>1, FS_AddElement
  <2> QED
    BY <1>7, <2>2
<1>9. {a} \cup {b} \in AllHands
  BY <1>2, <1>6, <1>8 DEF AllHands, Pairs
<1> QED
  BY <1>2, <1>6, <1>9

\* Hands that ranges hold are hands of the deck.
LEMMA RangeHands ==
  ASSUME TypeOK, NEW i \in Players, NEW hand \in handRanges[i]
  PROVE  hand \in Pairs(Cards)
<1>1. handRanges[i] \subseteq AllHands
  BY EvaluateAssumption DEF TypeOK
<1> QED
  BY <1>1, EvaluateAssumption DEF AllHands, Pairs

LEMMA SeatsOfTheTable ==
  ASSUME TypeOK
  PROVE  AroundFromTurn \in Seq(Players) /\ AroundOthers \in Seq(Players)
         /\ Len(AroundFromTurn) = NumPlayers /\ Len(AroundOthers) = NumPlayers - 1
<1>1. \A k \in 0 .. NumPlayers - 1 : Behind(k) \in Players
  BY EvaluateAssumption DEF TypeOK, Players, Behind
<1>2. \A k \in 1 .. NumPlayers : Behind(k - 1) \in Players
  BY <1>1, EvaluateAssumption
<1>3. AroundFromTurn \in [1 .. NumPlayers -> Players]
  BY <1>2 DEF AroundFromTurn
<1>4. AroundOthers \in [1 .. NumPlayers - 1 -> Players]
  BY <1>1, EvaluateAssumption DEF AroundOthers
<1> QED
  BY <1>3, <1>4, EvaluateAssumption

\* When the cards go round, a seat that is reached finds a valid hand.
LEMMA ValidHandExists ==
  ASSUME DInv, CanDeal, AtSeat
  PROVE  validHands(Seat) # {}
<1> DEFINE onBoard == boardCards \cap TestCards
           left == (TestCards \ onBoard) \ dealDards
<1>1. IsFiniteSet(TestCards) /\ IsFiniteSet(dealDards)
  BY FS_Subset, EvaluateAssumption DEF DInv, TypeOK
<1>2. IsFiniteSet(onBoard) /\ TestCards \cap onBoard = onBoard
  BY <1>1, FS_Subset
<1>3. IsFiniteSet(TestCards \ onBoard)
      /\ Cardinality(TestCards \ onBoard) = Cardinality(TestCards) - Cardinality(onBoard)
  <2>1. Cardinality(TestCards \ onBoard)
          = Cardinality(TestCards) - Cardinality(TestCards \cap onBoard)
    BY <1>1, FS_Difference
  <2>2. IsFiniteSet(TestCards \ onBoard)
    BY <1>1, FS_Difference
  <2> QED
    BY <1>2, <2>1, <2>2
<1> DEFINE gone == (TestCards \ onBoard) \cap dealDards
<1>4. IsFiniteSet(left)
      /\ Cardinality(left) = Cardinality(TestCards \ onBoard) - Cardinality(gone)
  BY <1>3, FS_Difference
<1>5. Cardinality(gone) <= Cardinality(dealDards)
  BY <1>1, FS_Subset
<1>6. Cardinality(dealDards) + 2 * Len(vPositions) <= 2 * NumPlayers
  BY DEF DInv, CardsCounted, AtSeat
<1>7. vPositions \in Seq(Players) /\ vPositions # <<>>
  BY DEF DInv, TypeOK, AtSeat
<1>8. Len(vPositions) \in Nat /\ Len(vPositions) >= 1
  BY <1>7
<1>9. IsFiniteSet(gone)
  BY <1>3, FS_Intersection
<1>10. /\ Cardinality(TestCards) \in Nat /\ Cardinality(onBoard) \in Nat
       /\ Cardinality(dealDards) \in Nat /\ Cardinality(gone) \in Nat
       /\ Cardinality(TestCards \ onBoard) \in Nat /\ Cardinality(left) \in Nat
  BY <1>1, <1>2, <1>3, <1>4, <1>9, FS_CardinalityType
<1>11. 2 * NumPlayers + Cardinality(onBoard) <= Cardinality(TestCards)
  BY DEF CanDeal
<1>12. Cardinality(left) >= 2
  <2> HIDE DEF onBoard, left, gone
  <2> QED
    BY <1>3, <1>4, <1>5, <1>6, <1>8, <1>10, <1>11, EvaluateAssumption
<1>13. PICK hand \in AllHands : hand \subseteq left
  BY <1>4, <1>12, TwoCardsMakeAHand
<1>14. hand \cap (boardCards \cup dealDards) = {}
  BY <1>13 DEF AllHands, Pairs
<1>15. Seat \in Players
  BY <1>7 DEF Seat
<1>16. handRanges[Seat] = AllHands
  BY <1>15 DEF CanDeal
<1> QED
  BY <1>13, <1>14, <1>16 DEF validHands

-----------------------------------------------------------------------------
LEMMA InitDInv == Init => DInv
<1> SUFFICES ASSUME Init PROVE DInv
  OBVIOUS
<1>1. TypeOK
  BY DEF Init, TypeOK, NoHands
<1>2. DOMAIN mHands = {}
  BY DEF Init, NoHands
<1>3. HandsDealt /\ CardsApart
  BY <1>2 DEF Init, HandsDealt, CardsApart
<1>4. CardsCounted /\ EnoughCards
  BY DEF Init, CardsCounted, EnoughCards
<1> QED
  BY <1>1, <1>3, <1>4 DEF DInv

\* A function that starts visiting the seats, with the cards of its own hand.
LEMMA VisitDInv ==
  ASSUME DInv, NEW hand, NEW seats \in Seq(Players), NEW hands,
         hand = {} \/ hand \in Pairs(Cards),
         Len(seats) <= NumPlayers,
         hand # {} => Len(seats) <= NumPlayers - 1,
         DOMAIN hands \subseteq Players,
         \A i \in DOMAIN hands : i = turnIndex /\ hands[i] = hand /\ hand # {},
         Visit(seats, hand, hands)
  PROVE  DInv'
<1>1. /\ hand \subseteq Cards /\ IsFiniteSet(hand)
      /\ Cardinality(hand) <= 2 /\ (hand = {} => Cardinality(hand) = 0)
      /\ Cardinality(hand) \in Nat
  <2>1. CASE hand = {}
    BY <2>1, FS_EmptySet
  <2>2. CASE hand \in Pairs(Cards)
    <3>1. hand \subseteq Cards /\ IsFiniteSet(hand) /\ Cardinality(hand) = 2
      BY <2>2, PairIsTwo
    <3>2. hand # {}
      BY <3>1, FS_EmptySet
    <3> QED
      BY <3>1, <3>2
  <2> QED
    BY <2>1, <2>2
<1>2. TypeOK'
  BY <1>1 DEF DInv, TypeOK, Visit, table, Players, CanDeal
<1>3. HandsDealt'
  BY DEF HandsDealt, Visit
<1>4. CardsApart'
  BY DEF CardsApart, Visit
<1>5. CardsCounted'
  <2>1. Len(seats) \in Nat
    OBVIOUS
  <2> QED
    BY <1>1, <2>1, EvaluateAssumption DEF CardsCounted, Visit
<1>6. EnoughCards'
  BY DEF EnoughCards, Visit
<1> QED
  BY <1>2, <1>3, <1>4, <1>5, <1>6 DEF DInv

\* A function that ends.
LEMMA EndDInv ==
  ASSUME DInv, NEW result \in {"dealt", "failed", "undefined"}, EndsWith(result),
         CanDeal => result # "undefined"
  PROVE  DInv'
<1>1. TypeOK'
  BY DEF DInv, TypeOK, EndsWith, table, Players
<1>2. HandsDealt' /\ CardsApart'
  BY DEF DInv, HandsDealt, CardsApart, EndsWith, table
<1>3. CardsCounted'
  BY DEF CardsCounted, EndsWith
<1>4. CanDeal' = CanDeal
  BY DEF CanDeal, EndsWith, table, Players
<1>5. EnoughCards'
  BY <1>4 DEF EnoughCards, EndsWith
<1> QED
  BY <1>1, <1>2, <1>3, <1>5 DEF DInv

LEMMA DealSeatDInv == DInv /\ DealSeat => DInv'
<1> SUFFICES ASSUME DInv, DealSeat PROVE DInv'
  OBVIOUS
<1>1. PICK hand \in validHands(Seat) :
        /\ dealDards' = dealDards \cup hand
        /\ mHands' = [i \in DOMAIN mHands \cup {Seat} |->
                        IF i \in DOMAIN mHands THEN mHands[i] ELSE hand]
  BY DEF DealSeat
<1>2. /\ vPositions \in Seq(Players) /\ vPositions # <<>>
      /\ vPositions' = Tail(vPositions)
      /\ pc = "seats" /\ pc' = "seats" /\ ownHand' = ownHand
      /\ turnIndex' = turnIndex /\ out' = out /\ boardCards' = boardCards
      /\ handRanges' = handRanges /\ cardPairs' = cardPairs
  BY DEF DInv, TypeOK, DealSeat, AtSeat, table
<1>3. Seat \in Players /\ Tail(vPositions) \in Seq(Players)
      /\ Len(Tail(vPositions)) = Len(vPositions) - 1 /\ Len(vPositions) \in Nat
  BY <1>2 DEF Seat
<1>4. hand \in handRanges[Seat] /\ hand \cap (boardCards \cup dealDards) = {}
  BY <1>1 DEF validHands
<1>5. hand \in Pairs(Cards)
  BY <1>3, <1>4, RangeHands DEF DInv
<1>6. hand \subseteq Cards /\ IsFiniteSet(hand) /\ Cardinality(hand) = 2
  BY <1>5, PairIsTwo
<1>7. DOMAIN mHands' = DOMAIN mHands \cup {Seat}
      /\ \A i \in DOMAIN mHands' : \/ i \in DOMAIN mHands /\ mHands'[i] = mHands[i]
                                   \/ i = Seat /\ i \notin DOMAIN mHands /\ mHands'[i] = hand
  BY <1>1
<1>8. TypeOK'
  <2>1. dealDards' \subseteq Cards
    BY <1>1, <1>6 DEF DInv, TypeOK
  <2>2. DOMAIN mHands' \subseteq Players
    BY <1>3, <1>7 DEF DInv, TypeOK
  <2>3. \A i \in DOMAIN mHands' : mHands'[i] \in Pairs(Cards)
    BY <1>5, <1>7 DEF DInv, TypeOK
  <2> QED
    BY <1>2, <1>3, <2>1, <2>2, <2>3 DEF DInv, TypeOK, Players
<1>9. HandsDealt'
  BY <1>1, <1>2, <1>7 DEF DInv, HandsDealt
<1>10. CardsApart'
  <2>1. hand \cap (boardCards \cup ownHand) = {}
    BY <1>4 DEF DInv, HandsDealt
  <2>2. \A i \in DOMAIN mHands : mHands[i] \cap hand = {}
    BY <1>4 DEF DInv, HandsDealt
  <2>3. ASSUME NEW i \in DOMAIN mHands', NEW j \in DOMAIN mHands' \ {i}
        PROVE  mHands'[i] \cap mHands'[j] = {}
    BY <1>7, <2>2, <2>3 DEF DInv, CardsApart
  <2>4. ASSUME NEW i \in DOMAIN mHands'
        PROVE  mHands'[i] = ownHand \/ mHands'[i] \cap (boardCards \cup ownHand) = {}
    BY <1>7, <2>1 DEF DInv, CardsApart
  <2> QED
    BY <1>2, <2>3, <2>4 DEF CardsApart
<1>11. CardsCounted'
  <2>1. IsFiniteSet(dealDards)
    BY FS_Subset, EvaluateAssumption DEF DInv, TypeOK
  <2>2. Cardinality(dealDards \cup hand)
          = Cardinality(dealDards) + Cardinality(hand) - Cardinality(dealDards \cap hand)
    BY <1>6, <2>1, FS_Union
  <2>3. dealDards \cap hand = {}
    BY <1>4
  <2>4. Cardinality(dealDards \cap hand) = 0
    BY <2>3, FS_EmptySet
  <2>5. Cardinality(dealDards) \in Nat
    BY <2>1, FS_CardinalityType
  <2>6. Cardinality(dealDards) + 2 * Len(vPositions) <= 2 * NumPlayers
    BY <1>2 DEF DInv, CardsCounted
  <2> QED
    BY <1>1, <1>2, <1>3, <1>6, <2>2, <2>4, <2>5, <2>6, EvaluateAssumption DEF CardsCounted
<1>12. EnoughCards'
  BY <1>2 DEF EnoughCards
<1> QED
  BY <1>8, <1>9, <1>10, <1>11, <1>12 DEF DInv

LEMMA SkipDInv == DInv /\ Skip => DInv'
<1> SUFFICES ASSUME DInv, Skip PROVE DInv'
  OBVIOUS
<1>1. /\ vPositions \in Seq(Players) /\ vPositions # <<>>
      /\ vPositions' = Tail(vPositions)
      /\ pc = "seats" /\ pc' = pc /\ ownHand' = ownHand
      /\ dealDards' = dealDards /\ mHands' = mHands
      /\ turnIndex' = turnIndex /\ out' = out /\ boardCards' = boardCards
      /\ handRanges' = handRanges /\ cardPairs' = cardPairs
  BY DEF DInv, TypeOK, Skip, AtSeat, table
<1>2. Tail(vPositions) \in Seq(Players)
      /\ Len(Tail(vPositions)) = Len(vPositions) - 1 /\ Len(vPositions) \in Nat
  BY <1>1
<1>3. TypeOK'
  BY <1>1, <1>2 DEF DInv, TypeOK, Players
<1>4. HandsDealt' /\ CardsApart'
  BY <1>1 DEF DInv, HandsDealt, CardsApart
<1>5. CardsCounted'
  <2>1. IsFiniteSet(dealDards)
    BY FS_Subset, EvaluateAssumption DEF DInv, TypeOK
  <2>2. Cardinality(dealDards) \in Nat
    BY <2>1, FS_CardinalityType
  <2> QED
    BY <1>1, <1>2, <2>2, EvaluateAssumption DEF DInv, CardsCounted
<1>6. EnoughCards'
  BY <1>1 DEF EnoughCards
<1> QED
  BY <1>3, <1>4, <1>5, <1>6 DEF DInv

\* The three ways to start.
LEMMA dealCardsDInv == DInv /\ dealCards => DInv'
<1> SUFFICES ASSUME DInv, dealCards PROVE DInv'
  OBVIOUS
<1>1. AroundFromTurn \in Seq(Players) /\ Len(AroundFromTurn) = NumPlayers
  BY SeatsOfTheTable DEF DInv
<1>2. DOMAIN NoHands = {}
  BY DEF NoHands
<1>3. Visit(AroundFromTurn, {}, NoHands)
  BY DEF dealCards
<1>4. Len(AroundFromTurn) <= NumPlayers
  BY <1>1, EvaluateAssumption
<1>5. {} # {} => Len(AroundFromTurn) <= NumPlayers - 1
  OBVIOUS
<1>6. /\ DOMAIN NoHands \subseteq Players
      /\ \A i \in DOMAIN NoHands : i = turnIndex /\ NoHands[i] = {} /\ {} # {}
  BY <1>2
<1> QED
  BY <1>1, <1>3, <1>4, <1>5, <1>6, VisitDInv

LEMMA dealCards2DInv ==
  ASSUME DInv, NEW iterations \in 0 .. NumPairs, dealCards2(iterations)
  PROVE  DInv'
<1> DEFINE i == (iterations % NumPairs) + 1
           own == [j \in {turnIndex} |-> cardPairs[i]]
<1>1. CASE i \in DOMAIN cardPairs /\ Visit(AroundOthers, cardPairs[i], own)
  <2>1. AroundOthers \in Seq(Players) /\ Len(AroundOthers) = NumPlayers - 1
    BY SeatsOfTheTable DEF DInv
  <2>2. cardPairs \in Seq(Pairs(Cards))
    BY EvaluateAssumption DEF DInv, TypeOK
  <2>3. cardPairs[i] \in Pairs(Cards)
    BY <1>1, <2>2
  <2>4. cardPairs[i] # {}
    BY <2>3, PairIsTwo, FS_EmptySet
  <2>5. DOMAIN own = {turnIndex} /\ \A j \in DOMAIN own : own[j] = cardPairs[i]
    OBVIOUS
  <2>6. turnIndex \in Players
    BY DEF DInv, TypeOK
  <2>7. Visit(AroundOthers, cardPairs[i], own)
    BY <1>1
  <2> HIDE DEF i, own
  <2> QED
    BY <2>1, <2>3, <2>4, <2>5, <2>6, <2>7, VisitDInv, EvaluateAssumption
<1>2. CASE i \notin DOMAIN cardPairs /\ EndsWith("undefined")
  <2>1. cardPairs \in Seq(Pairs(Cards))
    BY EvaluateAssumption DEF DInv, TypeOK
  <2>2. iterations % NumPairs \in 0 .. NumPairs - 1
    BY EvaluateAssumption
  <2>3. i \in 1 .. NumPairs
    BY <2>2, EvaluateAssumption
  <2>4. ~CanDeal
    <3> HIDE DEF i
    <3> QED
      BY <1>2, <2>1, <2>3, EvaluateAssumption DEF CanDeal
  <2> QED
    BY <1>2, <2>4, EndDInv
<1> QED
  BY <1>1, <1>2 DEF dealCards2

LEMMA dealCards3DInv == DInv /\ dealCards3 => DInv'
<1> SUFFICES ASSUME DInv, dealCards3 PROVE DInv'
  OBVIOUS
<1>1. ASSUME NEW hand \in Pairs(Cards), Visit(AroundOthers, hand, NoHands)
      PROVE  DInv'
  <2>1. AroundOthers \in Seq(Players) /\ Len(AroundOthers) = NumPlayers - 1
    BY SeatsOfTheTable DEF DInv
  <2>2. DOMAIN NoHands = {}
    BY DEF NoHands
  <2> QED
    BY <1>1, <2>1, <2>2, VisitDInv, EvaluateAssumption
<1>2. CASE EndsWith("failed")
  BY <1>2, EndDInv
<1> QED
  BY <1>1, <1>2 DEF dealCards3

LEMMA NextDInv == DInv /\ [Next]_vars => DInv'
<1> SUFFICES ASSUME DInv, [Next]_vars PROVE DInv'
  OBVIOUS
<1>1. CASE dealCards
  BY <1>1, dealCardsDInv
<1>2. ASSUME NEW iterations \in 0 .. NumPairs, dealCards2(iterations)
      PROVE  DInv'
  BY <1>2, dealCards2DInv
<1>3. CASE dealCards3
  BY <1>3, dealCards3DInv
<1>4. CASE Skip
  BY <1>4, SkipDInv
<1>5. CASE NoRange
  BY <1>5, EndDInv DEF NoRange
<1>6. CASE NoValidHand
  BY <1>6, EndDInv, ValidHandExists DEF NoValidHand
<1>7. CASE DealSeat
  BY <1>7, DealSeatDInv
<1>8. CASE Distribute
  BY <1>8, EndDInv DEF Distribute
<1>9. CASE UNCHANGED vars
  BY <1>9 DEF vars, DInv, TypeOK, HandsDealt, CardsApart, CardsCounted, EnoughCards, CanDeal,
              Players
<1> QED
  BY <1>1, <1>2, <1>3, <1>4, <1>5, <1>6, <1>7, <1>8, <1>9 DEF Next

-----------------------------------------------------------------------------
(* Everyone is dealt a hand. The players to whom one was drawn and those   *)
(* still to be visited are, throughout, the players who should get one.    *)

SeatsOf(seats) == {seats[k] : k \in 1 .. Len(seats)}
Drawn == {i \in DOMAIN mHands : mHands[i] # ownHand}
Due == IF ownHand = {} THEN Players \ out ELSE (Players \ out) \ {turnIndex}

\* The hand that the call starts from is that of turnIndex.
OwnAtTurn == \A i \in DOMAIN mHands : mHands[i] = ownHand => i = turnIndex

EInv ==
  /\ DInv /\ EveryoneDealt /\ OwnAtTurn
  /\ pc = "seats" => Drawn \cup (SeatsOf(vPositions) \ out) = Due

\* Both ways round the table come past every seat that they should.
LEMMA WholeTable ==
  ASSUME TypeOK
  PROVE  SeatsOf(AroundFromTurn) = Players /\ SeatsOf(AroundOthers) = Players \ {turnIndex}
<1>1. /\ Len(AroundFromTurn) = NumPlayers /\ Len(AroundOthers) = NumPlayers - 1
      /\ \A k \in 1 .. NumPlayers : AroundFromTurn[k] = Behind(k - 1)
      /\ \A k \in 1 .. NumPlayers - 1 : AroundOthers[k] = Behind(k)
  BY SeatsOfTheTable DEF AroundFromTurn, AroundOthers
<1>2. NumPlayers \in Nat \ {0} /\ turnIndex \in 0 .. NumPlayers - 1
  BY EvaluateAssumption DEF TypeOK, Players
<1>3. \A k \in 1 .. NumPlayers - 1 : Behind(k) \in Players \ {turnIndex}
  BY <1>2 DEF Behind, Players
<1>4. Behind(0) = turnIndex
  BY <1>2 DEF Behind
<1>5. ASSUME NEW i \in Players \ {turnIndex}
      PROVE  \E k \in 1 .. NumPlayers - 1 : Behind(k) = i
  <2>1. CASE i > turnIndex
    <3>1. i - turnIndex \in 1 .. NumPlayers - 1 /\ Behind(i - turnIndex) = i
      BY <1>2, <2>1 DEF Players, Behind
    <3> QED
      BY <3>1
  <2>2. CASE i < turnIndex
    <3>1. /\ i - turnIndex + NumPlayers \in 1 .. NumPlayers - 1
          /\ Behind(i - turnIndex + NumPlayers) = i
      BY <1>2, <2>2 DEF Players, Behind
    <3> QED
      BY <3>1
  <2> QED
    BY <1>2, <2>1, <2>2 DEF Players
<1>6. SeatsOf(AroundOthers) = Players \ {turnIndex}
  BY <1>1, <1>3, <1>5 DEF SeatsOf
<1>7. ASSUME NEW i \in Players
      PROVE  \E k \in 1 .. NumPlayers : Behind(k - 1) = i
  <2>1. CASE i = turnIndex
    <3>1. 1 \in 1 .. NumPlayers /\ 1 - 1 = 0
      BY <1>2
    <3> QED
      BY <1>4, <2>1, <3>1
  <2>2. CASE i # turnIndex
    <3>1. PICK k \in 1 .. NumPlayers - 1 : Behind(k) = i
      BY <1>5, <2>2
    <3>2. k + 1 \in 1 .. NumPlayers /\ (k + 1) - 1 = k
      BY <1>2
    <3> QED
      BY <3>1, <3>2
  <2> QED
    BY <2>1, <2>2
<1>8. \A k \in 1 .. NumPlayers : Behind(k - 1) \in Players
  BY <1>2 DEF Behind, Players
<1>9. SeatsOf(AroundFromTurn) = Players
  BY <1>1, <1>7, <1>8 DEF SeatsOf
<1> QED
  BY <1>6, <1>9

\* One seat less to visit.
LEMMA SeatsOfTail ==
  ASSUME NEW seats \in Seq(Players), seats # <<>>
  PROVE  SeatsOf(seats) = {Head(seats)} \cup SeatsOf(Tail(seats))
<1>1. /\ Len(seats) \in Nat /\ Len(seats) >= 1
      /\ Len(Tail(seats)) = Len(seats) - 1
      /\ Head(seats) = seats[1]
      /\ \A k \in 1 .. Len(seats) - 1 : Tail(seats)[k] = seats[k + 1]
  OBVIOUS
<1>2. ASSUME NEW k \in 1 .. Len(seats)
      PROVE  seats[k] \in {Head(seats)} \cup SeatsOf(Tail(seats))
  <2>1. CASE k = 1
    BY <1>1, <2>1
  <2>2. CASE k # 1
    <3>1. k - 1 \in 1 .. Len(seats) - 1 /\ (k - 1) + 1 = k
      BY <1>1, <2>2
    <3> QED
      BY <1>1, <3>1 DEF SeatsOf
  <2> QED
    BY <2>1, <2>2
<1>3. ASSUME NEW k \in 1 .. Len(Tail(seats))
      PROVE  Tail(seats)[k] \in SeatsOf(seats)
  <2>1. k + 1 \in 1 .. Len(seats) /\ Tail(seats)[k] = seats[k + 1]
    BY <1>1
  <2> QED
    BY <2>1 DEF SeatsOf
<1>4. Head(seats) \in SeatsOf(seats)
  <2>1. 1 \in 1 .. Len(seats)
    BY <1>1
  <2> QED
    BY <1>1, <2>1 DEF SeatsOf
<1>5. SeatsOf(seats) \subseteq {Head(seats)} \cup SeatsOf(Tail(seats))
  BY <1>2 DEF SeatsOf
<1>6. SeatsOf(Tail(seats)) \subseteq SeatsOf(seats)
  BY <1>3 DEF SeatsOf
<1> QED
  BY <1>4, <1>5, <1>6

LEMMA InitEInv == Init => EInv
<1> SUFFICES ASSUME Init PROVE EInv
  OBVIOUS
<1>1. DOMAIN mHands = {}
  BY DEF Init, NoHands
<1> QED
  BY <1>1, InitDInv DEF Init, EInv, EveryoneDealt, OwnAtTurn

\* Every way to start has all the seats that it should before it.
LEMMA StartEInv ==
  ASSUME EInv, NEW hand, NEW seats, NEW hands, Visit(seats, hand, hands), DInv',
         \A i \in DOMAIN hands : i = turnIndex /\ hands[i] = hand,
         SeatsOf(seats) = IF hand = {} THEN Players ELSE Players \ {turnIndex}
  PROVE  EInv'
<1>1. /\ pc' = "seats" /\ vPositions' = seats /\ mHands' = hands /\ ownHand' = hand
      /\ turnIndex' = turnIndex /\ out' = out
  BY DEF Visit, table
<1>2. Drawn' = {}
  BY <1>1 DEF Drawn
<1>3. Due' = IF hand = {} THEN Players \ out ELSE (Players \ out) \ {turnIndex}
  BY <1>1 DEF Due, Players
<1>4. SeatsOf(seats) \ out = IF hand = {} THEN Players \ out ELSE (Players \ out) \ {turnIndex}
  OBVIOUS
<1>5. SeatsOf(vPositions)' = SeatsOf(seats)
  BY <1>1 DEF SeatsOf
<1>6. (Drawn \cup (SeatsOf(vPositions) \ out))' = Due'
  BY <1>1, <1>2, <1>3, <1>4, <1>5
<1>7. EveryoneDealt'
  BY <1>1 DEF EveryoneDealt
<1>8. OwnAtTurn'
  BY <1>1 DEF OwnAtTurn
<1> QED
  BY <1>6, <1>7, <1>8 DEF EInv

\* An end other than that of distributeCards5 says nothing of who was dealt a hand.
LEMMA FailEInv ==
  ASSUME EInv, NEW result \in {"failed", "undefined"}, EndsWith(result), DInv'
  PROVE  EInv'
  BY DEF EInv, EveryoneDealt, OwnAtTurn, EndsWith, table

LEMMA DistributeEInv ==
  ASSUME EInv, Distribute, DInv'
  PROVE  EInv'
<1>1. PICK result \in {"dealt", "failed"} : EndsWith(result)
  BY DEF Distribute
<1>2. SeatsOf(vPositions) = {}
  BY DEF SeatsOf, Distribute
<1>3. Drawn = Due
  BY <1>2 DEF EInv, Distribute
<1>4. EveryoneDealt'
  BY <1>1, <1>3 DEF EveryoneDealt, Drawn, Due, EndsWith, table, Players
<1> QED
  BY <1>1, <1>4 DEF EInv, OwnAtTurn, EndsWith, table

LEMMA SkipEInv ==
  ASSUME EInv, Skip, DInv'
  PROVE  EInv'
<1>1. /\ pc = "seats" /\ pc' = "seats" /\ vPositions # <<>>
      /\ vPositions' = Tail(vPositions) /\ Head(vPositions) \in out
      /\ mHands' = mHands /\ ownHand' = ownHand /\ turnIndex' = turnIndex /\ out' = out
  BY DEF Skip, AtSeat, Seat, table
<1>2. vPositions \in Seq(Players)
  BY DEF EInv, DInv, TypeOK
<1>3. SeatsOf(vPositions) = {Head(vPositions)} \cup SeatsOf(Tail(vPositions))
  BY <1>1, <1>2, SeatsOfTail
<1>4. SeatsOf(vPositions)' = SeatsOf(Tail(vPositions))
  BY <1>1 DEF SeatsOf
<1>5. Drawn' = Drawn /\ Due' = Due
  BY <1>1 DEF Drawn, Due, Players
<1>6. (Drawn \cup (SeatsOf(vPositions) \ out))' = Due'
  BY <1>1, <1>3, <1>4, <1>5 DEF EInv
<1>7. EveryoneDealt'
  BY <1>1 DEF EveryoneDealt
<1>8. OwnAtTurn'
  BY <1>1 DEF EInv, OwnAtTurn
<1> QED
  BY <1>6, <1>7, <1>8 DEF EInv

LEMMA DealSeatEInv ==
  ASSUME EInv, DealSeat, DInv'
  PROVE  EInv'
<1>1. PICK hand \in validHands(Seat) :
        mHands' = [i \in DOMAIN mHands \cup {Seat} |->
                     IF i \in DOMAIN mHands THEN mHands[i] ELSE hand]
  BY DEF DealSeat
<1>2. /\ pc = "seats" /\ pc' = "seats" /\ vPositions # <<>>
      /\ vPositions' = Tail(vPositions) /\ Seat \notin out /\ Seat = Head(vPositions)
      /\ ownHand' = ownHand /\ turnIndex' = turnIndex /\ out' = out
  BY DEF DealSeat, AtSeat, Seat, table
<1>3. vPositions \in Seq(Players) /\ Seat \in Players
  BY <1>2 DEF EInv, DInv, TypeOK
<1>4. SeatsOf(vPositions) = {Seat} \cup SeatsOf(Tail(vPositions))
  BY <1>2, <1>3, SeatsOfTail
<1>5. SeatsOf(vPositions)' = SeatsOf(Tail(vPositions))
  BY <1>2 DEF SeatsOf
<1>6. hand \in Pairs(Cards)
  BY <1>3, RangeHands DEF validHands, EInv, DInv
<1>7. hand # ownHand
  <2>1. hand # {}
    BY <1>6, PairIsTwo, FS_EmptySet
  <2>2. hand \cap ownHand = {}
    BY DEF validHands, EInv, DInv, HandsDealt
  <2> QED
    BY <2>1, <2>2
<1>8. Drawn' \subseteq Drawn \cup {Seat} /\ Drawn \subseteq Drawn'
  BY <1>1, <1>2 DEF Drawn
<1>9. Due' = Due
  BY <1>2 DEF Due, Players
<1>10. Seat \in Drawn'
  <2>1. Seat \notin DOMAIN mHands => mHands'[Seat] = hand
    BY <1>1
  <2>2. CASE Seat \notin DOMAIN mHands
    BY <1>1, <1>2, <1>7, <2>1, <2>2 DEF Drawn
  <2>3. CASE Seat \in DOMAIN mHands
    <3>1. mHands[Seat] # {}
      BY <2>3, PairIsTwo, FS_EmptySet DEF EInv, DInv, TypeOK
    <3>2. Seat \in Due
      BY <1>2, <1>4 DEF EInv
    <3>3. ownHand # {} => Seat # turnIndex
      BY <3>2 DEF Due
    <3>4. mHands[Seat] # ownHand
      BY <2>3, <3>1, <3>3 DEF EInv, OwnAtTurn
    <3> QED
      BY <1>8, <2>3, <3>4 DEF Drawn
  <2> QED
    BY <2>2, <2>3
<1>11. (Drawn \cup (SeatsOf(vPositions) \ out))' = Due'
  BY <1>2, <1>4, <1>5, <1>8, <1>9, <1>10 DEF EInv
<1>12. EveryoneDealt'
  BY <1>2 DEF EveryoneDealt
<1>13. OwnAtTurn'
  BY <1>1, <1>2, <1>7 DEF EInv, OwnAtTurn
<1> QED
  BY <1>11, <1>12, <1>13 DEF EInv

\* The two kinds of start.
LEMMA StartsEInv ==
  ASSUME EInv, DInv',
         dealCards \/ dealCards3 \/ \E iterations \in 0 .. NumPairs : dealCards2(iterations)
  PROVE  EInv'
<1>1. TypeOK
  BY DEF EInv, DInv
<1>2. DOMAIN NoHands = {}
  BY DEF NoHands
<1>3. CASE dealCards
  <2>1. SeatsOf(AroundFromTurn) = Players
    BY <1>1, WholeTable
  <2>2. Visit(AroundFromTurn, {}, NoHands)
    BY <1>3 DEF dealCards
  <2> QED
    BY <1>2, <2>1, <2>2, StartEInv
<1>4. ASSUME NEW iterations \in 0 .. NumPairs, dealCards2(iterations)
      PROVE  EInv'
  <2> DEFINE i == (iterations % NumPairs) + 1
             own == [j \in {turnIndex} |-> cardPairs[i]]
  <2>1. CASE i \in DOMAIN cardPairs /\ Visit(AroundOthers, cardPairs[i], own)
    <3>1. cardPairs \in Seq(Pairs(Cards))
      BY <1>1, EvaluateAssumption DEF TypeOK
    <3>2. cardPairs[i] # {}
      BY <2>1, <3>1, PairIsTwo, FS_EmptySet
    <3>3. SeatsOf(AroundOthers) = Players \ {turnIndex}
      BY <1>1, WholeTable
    <3>4. \A j \in DOMAIN own : j = turnIndex /\ own[j] = cardPairs[i]
      OBVIOUS
    <3>5. Visit(AroundOthers, cardPairs[i], own)
      BY <2>1
    <3> HIDE DEF i, own
    <3> QED
      BY <3>2, <3>3, <3>4, <3>5, StartEInv
  <2>2. CASE EndsWith("undefined")
    BY <2>2, FailEInv
  <2> QED
    BY <1>4, <2>1, <2>2 DEF dealCards2
<1>5. CASE dealCards3
  <2>1. ASSUME NEW hand \in Pairs(Cards), Visit(AroundOthers, hand, NoHands)
        PROVE  EInv'
    <3>1. hand # {}
      BY PairIsTwo, FS_EmptySet
    <3>2. SeatsOf(AroundOthers) = Players \ {turnIndex}
      BY <1>1, WholeTable
    <3> QED
      BY <1>2, <2>1, <3>1, <3>2, StartEInv
  <2>2. CASE EndsWith("failed")
    BY <2>2, FailEInv
  <2> QED
    BY <1>5, <2>1, <2>2 DEF dealCards3
<1> QED
  BY <1>3, <1>4, <1>5

LEMMA NextEInv == EInv /\ [Next]_vars => EInv'
<1> SUFFICES ASSUME EInv, [Next]_vars PROVE EInv'
  OBVIOUS
<1>1. DInv'
  BY NextDInv DEF EInv
<1>2. CASE dealCards \/ dealCards3 \/ \E iterations \in 0 .. NumPairs : dealCards2(iterations)
  BY <1>1, <1>2, StartsEInv
<1>3. CASE NoRange
  BY <1>1, <1>3, FailEInv DEF NoRange
<1>4. CASE NoValidHand
  BY <1>1, <1>4, FailEInv DEF NoValidHand
<1>5. CASE Skip
  BY <1>1, <1>5, SkipEInv
<1>6. CASE DealSeat
  BY <1>1, <1>6, DealSeatEInv
<1>7. CASE Distribute
  BY <1>1, <1>7, DistributeEInv
<1>8. CASE UNCHANGED vars
  <2>1. /\ pc' = pc /\ vPositions' = vPositions /\ mHands' = mHands /\ ownHand' = ownHand
        /\ turnIndex' = turnIndex /\ out' = out
    BY <1>8 DEF vars
  <2>2. Drawn' = Drawn /\ Due' = Due /\ SeatsOf(vPositions)' = SeatsOf(vPositions)
    BY <2>1 DEF Drawn, Due, SeatsOf, Players
  <2>3. EveryoneDealt' /\ OwnAtTurn'
    BY <2>1 DEF EInv, EveryoneDealt, OwnAtTurn, Players
  <2> QED
    BY <1>1, <2>1, <2>2, <2>3 DEF EInv
<1> QED
  BY <1>2, <1>3, <1>4, <1>5, <1>6, <1>7, <1>8 DEF Next

\* The invariant of a call, of which the theorems below are parts.
THEOREM DealInductive == Spec => []DInv
  BY InitDInv, NextDInv, PTL DEF Spec

\* Every card index, seat and hand stays within the deck and the table.
THEOREM DealTypes == Spec => []TypeOK
<1>1. DInv => TypeOK
  BY DEF DInv
<1> QED
  BY <1>1, DealInductive, PTL

\* No card is dealt to two players, whatever the ranges, the board and the table.
THEOREM DealtOnce == Spec => []CardsApart
<1>1. DInv => CardsApart
  BY DEF DInv
<1> QED
  BY <1>1, DealInductive, PTL

\* When two cards for every seat and the board fit in the deck that ranges are made
\* of, the first of no valid hands is never taken, and no pair beyond the last.
THEOREM NeverOutOfHands == Spec => []EnoughCards
<1>1. DInv => EnoughCards
  BY DEF DInv
<1> QED
  BY <1>1, DealInductive, PTL

\* A call that returns 0 has dealt a hand to all who are still in the game, and to
\* nobody else.
THEOREM DealtToAll == Spec => []EveryoneDealt
<1>1. EInv => EveryoneDealt
  BY DEF EInv
<1> QED
  BY <1>1, InitEInv, NextEInv, PTL DEF Spec
=============================================================================
