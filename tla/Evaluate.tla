------------------------------ MODULE Evaluate ------------------------------
(***************************************************************************)
(* How src/Evaluate.cpp deals hole cards for a game that is being played   *)
(* out: dealCards, dealCards2, dealCards3 and dealCards4 walk round the    *)
(* table, and give each player still in the game a hand of his range that  *)
(* shares no card with the board or with a hand dealt before. A behaviour  *)
(* is one call; a step of it is a seat.                                    *)
(*                                                                         *)
(* A hand is the set of its two cards. The weights of a range only bias    *)
(* which of its hands is drawn, and are left out.                          *)
(***************************************************************************)
EXTENDS Naturals, Sequences, FiniteSets

CONSTANTS
  Cards,      \* the cards of the deck
  TestCards,  \* testCards: those of them that ranges are made of
  NumPlayers, \* getPlayerNum
  Boards,     \* the boards considered
  Ranges,     \* the ranges considered
  PairLists,  \* the lists cardPairs considered
  NumPairs    \* 1326 in dealCards2

Pairs(cards) == {hand \in SUBSET cards : Cardinality(hand) = 2}

\* The range that cloneHandProbs gives to everybody (initHandsList).
AllHands == Pairs(TestCards)

ASSUME EvaluateAssumption ==
  /\ IsFiniteSet(Cards) /\ TestCards \subseteq Cards
  /\ NumPlayers \in Nat \ {0} /\ NumPairs \in Nat \ {0}
  /\ Boards \subseteq SUBSET Cards
  /\ Ranges \subseteq SUBSET AllHands
  /\ PairLists \subseteq Seq(Pairs(Cards))

VARIABLES
  turnIndex,
  out,         \* the seats where nobody is left: no player, or one who folded
  boardCards,
  handRanges,
  cardPairs,
  pc,          \* "call", "seats", and then what came of it: "dealt" if the
               \* function returned 0, "failed" if less than 0, "undefined"
  vPositions,  \* the seats still to be visited
  dealDards,   \* the cards dealt
  mHands,      \* the hand of each player who got one
  ownHand      \* the hand the call starts from, {} if none (history)

table == <<turnIndex, out, boardCards, handRanges, cardPairs>>
vars == <<turnIndex, out, boardCards, handRanges, cardPairs, pc, vPositions, dealDards,
          mHands, ownHand>>

Players == 0 .. NumPlayers - 1
NoHands == [i \in {} |-> {}]

Init ==
  /\ turnIndex \in Players
  /\ out \in SUBSET Players
  /\ boardCards \in Boards
  /\ handRanges \in [Players -> Ranges]
  /\ cardPairs \in PairLists
  /\ pc = "call"
  /\ vPositions = <<>> /\ dealDards = {} /\ mHands = NoHands /\ ownHand = {}

\* The seats in the order in which they are visited: those behind turnIndex, then
\* those before it.
Behind(k) == IF turnIndex + k < NumPlayers THEN turnIndex + k ELSE turnIndex + k - NumPlayers

\* Variants that do not come back to the front, and that leave out turnIndex.
AroundWithoutEnd == [k \in 1 .. NumPlayers |-> turnIndex + k - 1]
AroundFromNext == [k \in 1 .. NumPlayers - 1 |-> Behind(k)]

AroundFromTurn == [k \in 1 .. NumPlayers |-> Behind(k - 1)]
AroundOthers == [k \in 1 .. NumPlayers - 1 |-> Behind(k)]

Visit(seats, hand, hands) ==
  /\ pc = "call" /\ pc' = "seats"
  /\ vPositions' = seats
  /\ dealDards' = hand /\ ownHand' = hand
  /\ mHands' = hands
  /\ UNCHANGED table

EndsWith(result) ==
  /\ pc' = result
  /\ UNCHANGED <<table, vPositions, dealDards, mHands, ownHand>>

dealCards == Visit(AroundFromTurn, {}, NoHands)

\* A variant that is off by one.
dealCards2Late(iterations) ==
  LET i == (iterations % (NumPairs + 1)) + 1
  IN  \/ /\ i \in DOMAIN cardPairs
         /\ Visit(AroundOthers, cardPairs[i], [j \in {turnIndex} |-> cardPairs[i]])
      \/ i \notin DOMAIN cardPairs /\ pc = "call" /\ EndsWith("undefined")

\* The hand of turnIndex is that of the iteration, and the board is not looked at.
\* A list of fewer than NumPairs is indexed past its end.
dealCards2(iterations) ==
  LET i == (iterations % NumPairs) + 1
  IN  \/ /\ i \in DOMAIN cardPairs
         /\ Visit(AroundOthers, cardPairs[i], [j \in {turnIndex} |-> cardPairs[i]])
      \/ i \notin DOMAIN cardPairs /\ pc = "call" /\ EndsWith("undefined")

\* The player whose turn it is has his hand already; it is set aside, and is not
\* handed to distributeCards5. dealCards4 does the same: its holeCards is unused.
dealCards3 ==
  \/ \E hand \in Pairs(Cards) : Visit(AroundOthers, hand, NoHands)
  \/ pc = "call" /\ turnIndex \in out /\ EndsWith("failed")

-----------------------------------------------------------------------------
(* The loop over vPositions, which the four functions share.               *)

AtSeat == pc = "seats" /\ vPositions # <<>>
Seat == Head(vPositions)

\* A variant that looks at the board only.
ValidForBoard(i) == {hand \in handRanges[i] : hand \cap boardCards = {}}

validHands(i) == {hand \in handRanges[i] : hand \cap (boardCards \cup dealDards) = {}}

Skip ==
  /\ AtSeat /\ Seat \in out
  /\ vPositions' = Tail(vPositions)
  /\ UNCHANGED <<table, pc, dealDards, mHands, ownHand>>

NoRange ==
  /\ AtSeat /\ Seat \notin out
  /\ handRanges[Seat] = {}
  /\ EndsWith("failed")

\* Of no valid hands the first is taken all the same.
NoValidHand ==
  /\ AtSeat /\ Seat \notin out
  /\ handRanges[Seat] # {} /\ validHands(Seat) = {}
  /\ EndsWith("undefined")

DealSeat ==
  /\ AtSeat /\ Seat \notin out
  /\ \E hand \in validHands(Seat) :
       /\ dealDards' = dealDards \cup hand
       /\ mHands' = [i \in DOMAIN mHands \cup {Seat} |->
                       IF i \in DOMAIN mHands THEN mHands[i] ELSE hand]
  /\ vPositions' = Tail(vPositions)
  /\ UNCHANGED <<table, pc, ownHand>>

\* distributeCards5 takes the hands, or does not.
Distribute ==
  /\ pc = "seats" /\ vPositions = <<>>
  /\ \E result \in {"dealt", "failed"} : EndsWith(result)

Next ==
  \/ dealCards \/ dealCards3
  \/ \E iterations \in 0 .. NumPairs : dealCards2(iterations)
  \/ Skip \/ NoRange \/ NoValidHand \/ DealSeat \/ Distribute

Spec == Init /\ [][Next]_vars

-----------------------------------------------------------------------------
TypeOK ==
  /\ turnIndex \in Players /\ out \subseteq Players
  /\ boardCards \in Boards
  /\ handRanges \in [Players -> Ranges]
  /\ cardPairs \in PairLists
  /\ pc \in {"call", "seats", "dealt", "failed", "undefined"}
  /\ vPositions \in Seq(Players)
  /\ dealDards \subseteq Cards /\ ownHand \subseteq Cards
  /\ DOMAIN mHands \subseteq Players
  /\ \A i \in DOMAIN mHands : mHands[i] \in Pairs(Cards)

\* No card is in two hands, and none of a hand drawn from a range is on the board
\* or in the hand that the call starts from.
CardsApart ==
  \A i \in DOMAIN mHands :
    /\ \A j \in DOMAIN mHands \ {i} : mHands[i] \cap mHands[j] = {}
    /\ mHands[i] = ownHand \/ mHands[i] \cap (boardCards \cup ownHand) = {}

\* Whoever is still in the game has been dealt a hand by the end, and nobody else,
\* except that the player whose turn it is keeps the one he has.
EveryoneDealt ==
  pc = "dealt" =>
    {i \in DOMAIN mHands : mHands[i] # ownHand} =
      IF ownHand = {} THEN Players \ out ELSE (Players \ out) \ {turnIndex}

\* With the whole range for everybody, a card pair for every iteration, and cards
\* for everybody, the board and the hand the call starts from, there is always a
\* hand to deal.
CanDeal ==
  /\ 2 * NumPlayers + Cardinality(boardCards \cap TestCards) <= Cardinality(TestCards)
  /\ NumPairs <= Len(cardPairs)
  /\ \A i \in Players : handRanges[i] = AllHands

EnoughCards == CanDeal => pc # "undefined"
=============================================================================
