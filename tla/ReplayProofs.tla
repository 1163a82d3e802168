---------------------------- MODULE ReplayProofs ----------------------------
(***************************************************************************)
(* What the replay of a history leaves behind, for every game, table and   *)
(* bound: the figures the decision relies on, the State objects, and the   *)
(* set-up of the cards.                                                    *)
(***************************************************************************)
EXTENDS Replay, FoldLemmas

GameType ==
  game \in [history : Seq(Line), chips : [Seats -> Nat], put : [Seats -> Nat],
            high : Nat, pot : Nat, round : Rounds, folded : SUBSET Seats]

\* What the rules of betting keep: nobody has bet more than the highest bet, a
\* line's stack is no smaller than what its seat has now, and the first two lines
\* are the blinds.
Rules ==
  /\ \A s \in Seats : game.put[s] <= game.high /\ game.chips[s] <= InitChips[s]
  /\ history = <<>> => game.chips[0] = InitChips[0]
  /\ Len(history) < 2 => game.chips[1] = InitChips[1]
  /\ \A i \in 1 .. Len(history) : history[i].chips >= game.chips[history[i].pos]
  /\ Len(history) >= 1 => history[1].bet = 1
  /\ Len(history) >= 2 => history[2].bet = bbSize
  /\ \A i \in 1 .. Len(history) : i > 2 => history[i].act # "BLIND"

GInv == GameType /\ Rules

\* What the replay keeps: the bet to beat is that of some player, and two bets of
\* a round are both in the pot.
Sums ==
  /\ \A r \in Rounds, p \in Positions : vBetting[r][p] <= vRoundBet[r]
  /\ \A r \in Rounds : vRoundBet[r] = 0 \/ \E p \in Positions : vBetting[r][p] = vRoundBet[r]
  /\ \A r \in Rounds, p \in Positions : potSize >= vBetting[r][p]
  /\ \A r \in Rounds, p, q \in Positions :
       p # q => potSize >= vBetting[r][p] + vBetting[r][q]

BlindsIn == (step >= 1 => potSize >= 1) /\ (step >= 2 => potSize >= 3)

Stacks == \A s \in Seats : vRemains[Pos(s)] >= game.chips[s]

\* Where the handler is, and what it has seen by then.
Phases ==
  /\ phase = "idle" => step = 0
  /\ phase # "idle" => Len(history) >= 2 /\ \E s \in Able : turnIndex = Pos(s)
  /\ phase \in {"deal", "figures"} => step >= 2

FInv == TypeOK /\ Sums /\ BlindsIn /\ Stacks /\ Phases

\* What the set-up and the answers have to do with each other.
CInv ==
  /\ answers \in Nat
  /\ phase = "figures" => setUp
  /\ answers > 0 => setUp
  /\ phase = "crashed" => ~setUp \/ Len(history) = SetupSize

-----------------------------------------------------------------------------
\* The constants, as the provers need them.
LEMMA Consts ==
  /\ NumPlayers \in Nat /\ numSeats \in Nat /\ numSeats >= 2 /\ numSeats <= NumPlayers
  /\ InitChips \in [Seats -> Nat] /\ (\A s \in Seats : InitChips[s] > 2)
  /\ OddBet \in Nat /\ OddLine \in Nat /\ OddLine > 1
  /\ SetupSize \in Nat /\ SetupSize > 2 /\ RealRaises \subseteq {0, 1} /\ RaiseBets \subseteq Nat
  /\ 0 \in Seats /\ 1 \in Seats /\ 0 \in Positions /\ Rounds \subseteq Nat /\ 0 \in Rounds
BY ReplayAssumption DEF Seats, Positions, Rounds

\* Every seat has a position of its own.
LEMMA PosType ==
  ASSUME NEW s \in Seats
  PROVE  Pos(s) \in Positions /\ \A t \in Seats : Pos(s) = Pos(t) => s = t
BY Consts DEF Pos, Seats, Positions, seatOffset, bbPos

\* Before the first line every seat has what it brought.
LEMMA FreshStacks ==
  /\ FreshRemains \in [Positions -> Nat]
  /\ \A s \in Seats : FreshRemains[Pos(s)] = InitChips[s]
<1>1. ASSUME NEW s \in Seats
      PROVE  Pos(s) \in Positions /\ FreshRemains[Pos(s)] = InitChips[s]
  <2>1. Pos(s) \in Positions
    BY PosType
  <2>2. (CHOOSE t \in Seats : Pos(t) = Pos(s)) = s
    BY PosType
  <2> QED
    BY <2>1, <2>2 DEF FreshRemains
<1>2. ASSUME NEW p \in Positions, \E s \in Seats : Pos(s) = p
      PROVE  InitChips[CHOOSE s \in Seats : Pos(s) = p] \in Nat
  BY <1>2, Consts
<1> QED
  BY <1>1, <1>2 DEF FreshRemains

\* Facts of arithmetic, to be instantiated with a length.
LEMMA ZeroOneOrMore ==
  ASSUME NEW n \in Nat
  PROVE  (n = 0 \/ n = 1 \/ n >= 2) /\ (n > 1 => n # 0 /\ n # 1 /\ n >= 2)
OBVIOUS

\* A bet the rules allow keeps the game's invariant.
LEMMA BetKeepsGame ==
  ASSUME GInv, NEW s \in Seats, NEW act \in Acts, NEW bet \in Nat,
         Bet(s, act, bet), bet <= game.chips[s],
         Len(history) = 0 => s = 0 /\ bet = 1,
         Len(history) = 1 => s = 1 /\ bet = 2,
         Len(history) > 1 => act # "BLIND"
  PROVE  GInv' /\ (\A t \in Seats : game'.chips[t] <= game.chips[t])
<1> DEFINE new == [pos |-> s, round |-> game.round, act |-> act, bet |-> bet,
                   pot |-> game.pot, chips |-> game.chips[s] - bet]
<1>0. GameType /\ Rules
  BY DEF GInv
<1>1. /\ history \in Seq(Line) /\ game.chips \in [Seats -> Nat] /\ game.put \in [Seats -> Nat]
      /\ game.high \in Nat /\ game.pot \in Nat /\ game.round \in Rounds
      /\ game.folded \in SUBSET Seats
  BY <1>0 DEF GameType, history
<1>2. new \in Line
  BY <1>1 DEF Line
<1>3. /\ game'.history = Append(history, new)
      /\ game'.chips = [game.chips EXCEPT ![s] = @ - bet]
      /\ game'.put = [game.put EXCEPT ![s] = @ + bet]
      /\ game'.pot = game.pot + bet
      /\ game'.high = (IF game.put[s] + bet > game.high THEN game.put[s] + bet ELSE game.high)
      /\ game'.round = game.round
      /\ game'.folded = (IF act = "FOLD" THEN game.folded \cup {s} ELSE game.folded)
  BY <1>0 DEF Bet, GameType, history
<1>4. history' = Append(history, new)
  BY <1>3 DEF history
<1> HIDE DEF new
<1>5. /\ history' \in Seq(Line) /\ Len(history') = Len(history) + 1
      /\ history'[Len(history) + 1] = new
      /\ \A i \in 1 .. Len(history) : history'[i] = history[i]
      /\ Len(history) \in Nat
  BY <1>1, <1>2, <1>4
<1>n. Len(history) \in Nat
  BY <1>5
<1>c. game'.chips \in [Seats -> Nat] /\ game'.put \in [Seats -> Nat]
  BY <1>1, <1>3
<1>6. game' \in [history : Seq(Line), chips : [Seats -> Nat], put : [Seats -> Nat],
                 high : Nat, pot : Nat, round : Rounds, folded : SUBSET Seats]
  <2>1. game'.chips \in [Seats -> Nat] /\ game'.put \in [Seats -> Nat]
    BY <1>c
  <2>2. game'.high \in Nat /\ game'.pot \in Nat /\ game'.round \in Rounds
        /\ game'.folded \in SUBSET Seats
    BY <1>1, <1>3
  <2>3. game'.history \in Seq(Line)
    BY <1>3, <1>4, <1>5
  <2>4. game' = [history |-> game'.history, chips |-> game'.chips, put |-> game'.put,
                 high |-> game'.high, pot |-> game'.pot, round |-> game'.round,
                 folded |-> game'.folded]
    BY <1>0 DEF Bet, GameType
  <2> QED
    BY <2>1, <2>2, <2>3, <2>4
<1>7. \A t \in Seats : game'.chips[t] <= game.chips[t] /\ game'.put[t] <= game'.high
                       /\ game'.chips[t] <= InitChips[t]
  <2> TAKE t \in Seats
  <2>1. game.put[t] <= game.high /\ game.chips[t] <= InitChips[t]
    BY <1>0 DEF Rules
  <2>2. game.put[t] \in Nat /\ game.chips[t] \in Nat /\ game.put[s] \in Nat /\ game.chips[s] \in Nat
    BY <1>1
  <2>3. game'.chips[t] = IF t = s THEN game.chips[s] - bet ELSE game.chips[t]
    BY <1>1, <1>3
  <2>4. game'.put[t] = IF t = s THEN game.put[s] + bet ELSE game.put[t]
    BY <1>1, <1>3
  <2>5. game'.chips[t] <= game.chips[t]
    BY <2>2, <2>3
  <2>6. game'.put[t] <= game'.high
    BY <1>1, <1>3, <2>1, <2>2, <2>4
  <2>7. game'.chips[t] <= InitChips[t]
    BY <2>1, <2>2, <2>3, Consts
  <2> QED
    BY <2>5, <2>6, <2>7
<1>8. Len(history') < 2 => game'.chips[1] = InitChips[1]
  <2>1. Len(history') < 2 => Len(history) = 0 /\ game.chips[1] = InitChips[1]
    BY <1>0, <1>5 DEF Rules
  <2> QED
    BY <1>1, <1>3, <1>5, <2>1, Consts
<1>9. \A i \in 1 .. Len(history') : history'[i].chips >= game'.chips[history'[i].pos]
  <2> TAKE i \in 1 .. Len(history')
  <2>1. CASE i = Len(history) + 1
    <3>1. new.chips = game.chips[s] - bet /\ new.pos = s
      BY DEF new
    <3> QED
      BY <1>1, <1>3, <1>5, <2>1, <3>1
  <2>2. CASE i \in 1 .. Len(history)
    <3>1. history[i].chips >= game.chips[history[i].pos]
      BY <1>0, <2>2 DEF Rules
    <3>2. history[i] \in Line
      BY <1>1, <2>2
    <3>3. history[i].pos \in Seats /\ history[i].chips \in Nat
      BY <3>2 DEF Line
    <3>4. game'.chips[history[i].pos] \in Nat /\ game.chips[history[i].pos] \in Nat
      BY <1>1, <1>c, <3>3
    <3> QED
      BY <1>5, <1>7, <2>2, <3>1, <3>3, <3>4
  <2> QED
    BY <1>5, <2>1, <2>2
<1>10. /\ Len(history') >= 1 => history'[1].bet = 1
       /\ Len(history') >= 2 => history'[2].bet = bbSize
  <2>1. new.bet = bet
    BY DEF new
  <2>2. history'[1].bet = 1
    <3>1. CASE Len(history) = 0
      BY <1>5, <2>1, <3>1
    <3>2. CASE Len(history) >= 1
      <4>1. history[1].bet = 1
        BY <1>0, <3>2 DEF Rules
      <4> QED
        BY <1>5, <1>n, <3>2, <4>1
    <3> QED
      BY <1>n, <3>1, <3>2
  <2>3. CASE Len(history) = 0
    BY <1>5, <2>2, <2>3
  <2>4. CASE Len(history) = 1
    BY <1>5, <2>1, <2>2, <2>4 DEF bbSize
  <2>5. CASE Len(history) >= 2
    <3>1. history[2].bet = bbSize
      BY <1>0, <2>5 DEF Rules
    <3> QED
      BY <1>5, <1>n, <2>2, <2>5, <3>1
  <2>6. Len(history) = 0 \/ Len(history) = 1 \/ Len(history) >= 2
    BY ONLY <1>n, ZeroOneOrMore
  <2> QED
    BY <2>3, <2>4, <2>5, <2>6
<1>11. \A i \in 1 .. Len(history') : i > 2 => history'[i].act # "BLIND"
  <2> TAKE i \in 1 .. Len(history')
  <2>1. CASE i = Len(history) + 1
    <3>1. new.act = act
      BY DEF new
    <3> QED
      BY <1>5, <2>1, <3>1
  <2>2. CASE i \in 1 .. Len(history)
    BY <1>0, <1>5, <2>2 DEF Rules
  <2> QED
    BY <1>5, <2>1, <2>2
<1>12. history' # <<>>
  BY <1>5
<1> QED
  BY <1>6, <1>7, <1>8, <1>9, <1>10, <1>11, <1>12 DEF GInv, GameType, Rules

\* A share of a pot is a number.
LEMMA PotShareNat ==
  ASSUME NEW x \in Nat, NEW p \in {33, 50, 75, 100}
  PROVE  (x * p) \div 100 \in Nat
OBVIOUS

LEMMA OwnBetNat ==
  ASSUME NEW pot \in Nat, NEW call \in Nat, NEW real, NEW a \in Raises
  PROVE  BetOf(ShareOf(pot, call, real, a), call, real) \in Nat
<1>1. Percent[a] \in {33, 50, 75, 100}
  BY DEF Raises, Percent
<1>2. pot + (IF real = 0 THEN 0 ELSE call) \in Nat
  OBVIOUS
<1>3. ShareOf(pot, call, real, a) \in Nat
  BY <1>1, <1>2, PotShareNat DEF ShareOf
<1> HIDE DEF ShareOf
<1>4. ShareOf(pot, call, real, a) + (IF real = 1 THEN call ELSE 0) \in Nat
  BY <1>3
<1> QED
  BY <1>4 DEF BetOf, bbSize

\* What the rules leave to a seat is a bet it can pay.
LEMMA BetsPayable ==
  ASSUME GInv, NEW s \in Seats, NEW b \in Bets(s)
  PROVE  b[1] \in Acts \ {"BLIND"} /\ b[2] \in Nat /\ b[2] <= game.chips[s]
<1> DEFINE own == {BetOf(ShareOf(game.pot, ToCall(s), realRaise, a), ToCall(s), realRaise) : a \in Raises}
<1>1. game.chips[s] \in Nat /\ game.put[s] \in Nat /\ game.high \in Nat /\ game.pot \in Nat
  BY DEF GInv, GameType
<1>2. ToCall(s) \in Nat
  BY <1>1 DEF GInv, Rules, ToCall
<1>3. own \subseteq Nat
  BY <1>1, <1>2, OwnBetNat
<1> HIDE DEF own
<1>4. own \cup RaiseBets \subseteq Nat
  BY <1>3, Consts
<1>5. \/ b = <<"FOLD", 0>> \/ b = <<"ALLIN", game.chips[s]>>
      \/ b = <<"PASS", 0>>
      \/ (ToCall(s) < game.chips[s] /\ b = <<"FOLLOW", ToCall(s)>>)
      \/ \E bet \in own \cup RaiseBets : bet < game.chips[s] /\ b = <<"RAISE", bet>>
  <2>1. Bets(s) =
          {<<"FOLD", 0>>, <<"ALLIN", game.chips[s]>>}
          \cup (IF ToCall(s) = 0 THEN {<<"PASS", 0>>}
                ELSE IF ToCall(s) < game.chips[s] THEN {<<"FOLLOW", ToCall(s)>>} ELSE {})
          \cup {<<"RAISE", bet>> : bet \in {x \in own \cup RaiseBets :
                                             ToCall(s) < x /\ x < game.chips[s]}}
    BY DEF Bets, own
  <2>2. CASE b \in {<<"FOLD", 0>>, <<"ALLIN", game.chips[s]>>}
    BY <2>2
  <2>3. CASE b \in (IF ToCall(s) = 0 THEN {<<"PASS", 0>>}
                    ELSE IF ToCall(s) < game.chips[s] THEN {<<"FOLLOW", ToCall(s)>>} ELSE {})
    BY <2>3
  <2>4. CASE b \in {<<"RAISE", bet>> : bet \in {x \in own \cup RaiseBets :
                                                 ToCall(s) < x /\ x < game.chips[s]}}
    BY <2>4
  <2> QED
    BY <2>1, <2>2, <2>3, <2>4
<1>6. CASE b = <<"FOLD", 0>>
  BY <1>1, <1>6 DEF Acts
<1>7. CASE b = <<"ALLIN", game.chips[s]>>
  BY <1>1, <1>7 DEF Acts
<1>8. CASE b = <<"PASS", 0>>
  BY <1>1, <1>8 DEF Acts
<1>9. CASE ToCall(s) < game.chips[s] /\ b = <<"FOLLOW", ToCall(s)>>
  BY <1>1, <1>2, <1>9 DEF Acts
<1>10. CASE \E bet \in own \cup RaiseBets : bet < game.chips[s] /\ b = <<"RAISE", bet>>
  <2>1. PICK bet \in own \cup RaiseBets : bet < game.chips[s] /\ b = <<"RAISE", bet>>
    BY <1>10
  <2>2. bet \in Nat
    BY <1>4
  <2> QED
    BY <1>1, <2>1, <2>2 DEF Acts
<1> QED
  BY <1>5, <1>6, <1>7, <1>8, <1>9, <1>10

LEMMA PlayKeepsGame ==
  ASSUME GInv, NEW s \in Seats, Play(s)
  PROVE  GInv' /\ (\A t \in Seats : game'.chips[t] <= game.chips[t])
<1>1. PICK b \in Bets(s) : Bet(s, b[1], b[2])
  BY DEF Play
<1>2. b[1] \in Acts \ {"BLIND"} /\ b[2] \in Nat /\ b[2] <= game.chips[s]
  BY BetsPayable
<1>3. Len(history) > 1
  BY DEF Play, bbPos
<1>4. history \in Seq(Line)
  BY DEF GInv, GameType, history
<1>5. Len(history) \in Nat
  BY <1>4
<1>6. Len(history) # 0 /\ Len(history) # 1
  BY ONLY <1>3, <1>5, ZeroOneOrMore
<1>7. b[1] \in Acts /\ b[1] # "BLIND"
  BY <1>2
<1> QED
  <2> DEFINE act == b[1]
             bet == b[2]
  <2>1. Bet(s, act, bet) /\ act \in Acts /\ act # "BLIND" /\ bet \in Nat /\ bet <= game.chips[s]
    BY <1>1, <1>2, <1>7
  <2> HIDE DEF act, bet
  <2> QED
    BY <1>6, <2>1, BetKeepsGame

LEMMA BlindsKeepGame ==
  ASSUME GInv, Blinds
  PROVE  GInv' /\ (\A t \in Seats : game'.chips[t] <= game.chips[t])
<1>1. "BLIND" \in Acts
  BY DEF Acts
<1>2. CASE history = <<>> /\ Bet(0, "BLIND", 1)
  <2>1. Len(history) = 0 /\ game.chips[0] = InitChips[0]
    BY <1>2 DEF GInv, Rules
  <2>2. 1 <= game.chips[0] /\ 0 \in Seats /\ 1 \in Nat
    BY <2>1, Consts
  <2> QED
    BY <1>1, <1>2, <2>1, <2>2, BetKeepsGame
<1>3. CASE Len(history) = 1 /\ Bet(1, "BLIND", bbSize)
  <2>1. game.chips[1] = InitChips[1]
    BY <1>3 DEF GInv, Rules
  <2>2. bbSize = 2 /\ bbSize <= game.chips[1] /\ 1 \in Seats /\ bbSize \in Nat
    BY <2>1, Consts DEF bbSize
  <2> QED
    BY <1>1, <1>3, <2>2, BetKeepsGame
<1> QED
  BY <1>2, <1>3 DEF Blinds

LEMMA RoundKeepsGame ==
  ASSUME GInv, NextRound
  PROVE  GInv' /\ (\A t \in Seats : game'.chips[t] <= game.chips[t])
<1>1. GameType /\ Rules
  BY DEF GInv
<1>2. /\ game'.history = game.history /\ game'.chips = game.chips
      /\ game'.put = [t \in Seats |-> 0] /\ game'.high = 0 /\ game'.round = game.round + 1
      /\ game'.pot = game.pot /\ game'.folded = game.folded
  BY <1>1 DEF NextRound, GameType
<1>3. game.round < 3 /\ game.round \in Rounds
  BY <1>1 DEF NextRound, GameType
<1>4. game'.round \in Rounds
  BY <1>2, <1>3 DEF Rounds
<1>5. /\ game'.history \in Seq(Line) /\ game'.chips \in [Seats -> Nat]
      /\ game'.put \in [Seats -> Nat] /\ game'.high \in Nat /\ game'.pot \in Nat
      /\ game'.folded \in SUBSET Seats
  BY <1>1, <1>2 DEF GameType
<1>6. game' = [history |-> game'.history, chips |-> game'.chips, put |-> game'.put,
               high |-> game'.high, pot |-> game'.pot, round |-> game'.round,
               folded |-> game'.folded]
  BY <1>1 DEF NextRound, GameType
<1>7. GameType'
  BY <1>4, <1>5, <1>6 DEF GameType
<1>8. history' = history
  BY <1>2 DEF history
<1>9. \A t \in Seats : game'.put[t] <= game'.high
  BY <1>2
<1>10. Rules'
  BY <1>1, <1>2, <1>8, <1>9 DEF Rules
<1>11. \A t \in Seats : game'.chips[t] <= game.chips[t]
  BY <1>1, <1>2 DEF GameType
<1> QED
  BY <1>7, <1>10, <1>11 DEF GInv

-----------------------------------------------------------------------------
\* One more bet in the books.
LEMMA SumsKept ==
  ASSUME NEW r \in Rounds, NEW p \in Positions, NEW b \in Nat,
         vBetting \in [Rounds -> [Positions -> Nat]], vRoundBet \in [Rounds -> Nat],
         potSize \in Nat, Sums,
         vBetting' = [vBetting EXCEPT ![r][p] = vBetting[r][p] + b],
         vRoundBet' = [vRoundBet EXCEPT ![r] =
                        IF @ < vBetting[r][p] + b THEN vBetting[r][p] + b ELSE @],
         potSize' = potSize + b
  PROVE  /\ vBetting' \in [Rounds -> [Positions -> Nat]] /\ vRoundBet' \in [Rounds -> Nat]
         /\ Sums'
<1>1. vBetting[r] \in [Positions -> Nat] /\ vBetting[r][p] \in Nat /\ vRoundBet[r] \in Nat
  OBVIOUS
<1>2. vBetting' \in [Rounds -> [Positions -> Nat]] /\ vRoundBet' \in [Rounds -> Nat]
  BY <1>1
<1>3. \A x \in Rounds, y \in Positions :
        /\ vBetting[x][y] \in Nat /\ vRoundBet[x] \in Nat
        /\ vBetting'[x][y] = IF x = r /\ y = p THEN vBetting[r][p] + b ELSE vBetting[x][y]
        /\ vRoundBet'[x] = IF x = r THEN (IF vRoundBet[r] < vBetting[r][p] + b THEN vBetting[r][p] + b ELSE vRoundBet[r]) ELSE vRoundBet[x]
  BY <1>1
<1>4. \A x \in Rounds, y \in Positions : vBetting[x][y] <= vRoundBet[x] /\ potSize >= vBetting[x][y]
  BY DEF Sums
<1>5. \A x \in Rounds, y \in Positions : vBetting'[x][y] <= vRoundBet'[x] /\ potSize' >= vBetting'[x][y]
  BY <1>1, <1>3, <1>4
<1>6. \A x \in Rounds : vRoundBet'[x] = 0 \/ \E y \in Positions : vBetting'[x][y] = vRoundBet'[x]
  <2> TAKE x \in Rounds
  <2>1. vRoundBet[x] = 0 \/ \E y \in Positions : vBetting[x][y] = vRoundBet[x]
    BY DEF Sums
  <2>2. CASE x # r
    BY <1>3, <2>1, <2>2
  <2>3. CASE x = r /\ vRoundBet[r] < vBetting[r][p] + b
    BY <1>3, <2>3
  <2>4. CASE x = r /\ ~(vRoundBet[r] < vBetting[r][p] + b)
    <3>1. vRoundBet'[x] = vRoundBet[x]
      BY <1>1, <1>3, <2>4
    <3>2. CASE vRoundBet[x] = 0
      BY <3>1, <3>2
    <3>3. CASE \E y \in Positions : vBetting[x][y] = vRoundBet[x]
      <4>1. PICK y \in Positions : vBetting[x][y] = vRoundBet[x]
        BY <3>3
      <4>2. y # p \/ b = 0
        BY <1>1, <2>4, <4>1
      <4>3. vBetting'[x][y] = vBetting[x][y]
        BY <1>1, <1>3, <4>2, <2>4
      <4> QED
        BY <3>1, <4>1, <4>3
    <3> QED
      BY <2>1, <3>2, <3>3
  <2> QED
    BY <2>2, <2>3, <2>4
<1>7. \A x \in Rounds, y, z \in Positions : y # z => potSize' >= vBetting'[x][y] + vBetting'[x][z]
  <2> TAKE x \in Rounds, y, z \in Positions
  <2> HAVE y # z
  <2>1. potSize >= vBetting[x][y] + vBetting[x][z]
    BY DEF Sums
  <2>2. vBetting'[x][y] + vBetting'[x][z] <= vBetting[x][y] + vBetting[x][z] + b
    BY <1>1, <1>3
  <2>3. vBetting[x][y] \in Nat /\ vBetting[x][z] \in Nat /\ vBetting'[x][y] \in Nat /\ vBetting'[x][z] \in Nat
    BY <1>1, <1>3
  <2> QED
    BY <2>1, <2>2, <2>3
<1> QED
  BY <1>2, <1>5, <1>6, <1>7 DEF Sums

\* The line that is being replayed.
LEMMA LineType ==
  ASSUME GInv, FInv, phase = "lines", step < Len(history)
  PROVE  /\ line \in Line /\ line = history[step + 1] /\ step + 1 \in 1 .. Len(history)
         /\ step \in Nat /\ Len(history) \in Nat
         /\ line.pos \in Seats /\ line.round \in Rounds /\ line.bet \in Nat /\ line.chips \in Nat
         /\ line.act \in Acts /\ newPos \in Positions /\ his_bet \in Nat
<1>1. history \in Seq(Line)
  BY DEF GInv, GameType, history
<1>2. Len(history) \in Nat
  BY <1>1
<1>3. step \in Nat
  BY <1>2 DEF FInv, TypeOK
<1>4. step + 1 \in 1 .. Len(history)
  BY <1>2, <1>3
<1>5. line \in Line
  BY <1>1, <1>4 DEF line
<1>6. /\ line.pos \in Seats /\ line.round \in Rounds /\ line.bet \in Nat /\ line.chips \in Nat
      /\ line.act \in Acts
  BY <1>5 DEF Line
<1>7. newPos \in Positions
  BY <1>6, PosType DEF newPos
<1>8. his_bet \in Nat
  BY <1>6, Consts DEF his_bet
<1> QED
  BY <1>2, <1>3, <1>4, <1>5, <1>6, <1>7, <1>8 DEF line

\* The figures a line leaves.
LEMMA BookKeeps ==
  ASSUME GInv, FInv, Book
  PROVE  /\ game' = game /\ history' = history /\ step' = step + 1
         /\ step' \in 0 .. Len(history') /\ potSize' \in Nat /\ callSize' \in Nat
         /\ vRemains' \in [Positions -> Nat] /\ vRoundBet' \in [Rounds -> Nat]
         /\ vBetting' \in [Rounds -> [Positions -> Nat]]
         /\ Sums' /\ BlindsIn' /\ Stacks'
<1> DEFINE r == line.round  p == newPos  b == his_bet
<1>1. /\ phase = "lines" /\ step < Len(history) /\ step' = step + 1
      /\ potSize' = potSize + b
      /\ vRemains' = [vRemains EXCEPT ![p] = line.chips]
      /\ callSize' = vRoundBet[r] - vBetting[r][p]
      /\ vBetting' = [vBetting EXCEPT ![r][p] = vBetting[r][p] + b]
      /\ vRoundBet' = [vRoundBet EXCEPT ![r] =
                         IF @ < vBetting[r][p] + b THEN vBetting[r][p] + b ELSE @]
      /\ game' = game
  BY DEF Book, beted, RoundBet
<1>2. /\ line = history[step + 1] /\ step + 1 \in 1 .. Len(history)
      /\ step \in Nat /\ Len(history) \in Nat
      /\ line.pos \in Seats /\ r \in Rounds /\ line.chips \in Nat
      /\ p \in Positions /\ b \in Nat
  BY <1>1, LineType
<1>3. /\ potSize \in Nat /\ vRemains \in [Positions -> Nat] /\ vRoundBet \in [Rounds -> Nat]
      /\ vBetting \in [Rounds -> [Positions -> Nat]]
  BY DEF FInv, TypeOK
<1>4. Sums
  BY DEF FInv
<1>5. p = Pos(line.pos)
  BY DEF newPos
<1> HIDE DEF r, p, b
<1>6. history' = history
  BY <1>1 DEF history
<1>7. /\ vBetting' \in [Rounds -> [Positions -> Nat]] /\ vRoundBet' \in [Rounds -> Nat]
      /\ Sums'
  BY <1>1, <1>2, <1>3, <1>4, SumsKept
<1>9. potSize' \in Nat /\ vRemains' \in [Positions -> Nat]
  BY <1>1, <1>2, <1>3
<1>10. callSize' \in Nat
  <2>1. vBetting[r][p] <= vRoundBet[r]
    BY <1>2, <1>4 DEF Sums
  <2>2. vBetting[r][p] \in Nat /\ vRoundBet[r] \in Nat
    BY <1>2, <1>3
  <2> QED
    BY <1>1, <2>1, <2>2
<1>11. step' \in 0 .. Len(history')
  BY <1>1, <1>2, <1>6
<1>12. BlindsIn'
  <2>1. (step = 0 \/ step = 1) => b = line.bet
    BY Consts DEF b, his_bet
  <2>2. step = 0 => b = 1
    BY <1>1, <1>2, <2>1 DEF GInv, Rules
  <2>3. step = 1 => b = 2
    BY <1>1, <1>2, <2>1 DEF GInv, Rules, bbSize
  <2>4. (step >= 1 => potSize >= 1) /\ (step >= 2 => potSize >= 3)
    BY DEF FInv, BlindsIn
  <2>5. (step' >= 1 => potSize' >= 1) /\ (step' >= 2 => potSize' >= 3)
    BY <1>1, <1>2, <1>3, <2>2, <2>3, <2>4
  <2> QED
    BY <2>5 DEF BlindsIn
<1>13. Stacks'
  <2> SUFFICES ASSUME NEW s \in Seats
               PROVE  vRemains'[Pos(s)] >= game.chips[s]
    BY <1>1 DEF Stacks, Pos
  <2>1. vRemains[Pos(s)] >= game.chips[s]
    BY DEF FInv, Stacks
  <2>2. Pos(s) \in Positions /\ (Pos(s) = p => s = line.pos)
    BY <1>2, <1>5, PosType
  <2>3. line.chips >= game.chips[line.pos]
    BY <1>2 DEF GInv, Rules
  <2>4. CASE Pos(s) = p
    BY <1>1, <1>2, <1>3, <2>2, <2>3, <2>4
  <2>5. CASE Pos(s) # p
    BY <1>1, <1>2, <1>3, <2>1, <2>2, <2>5
  <2> QED
    BY <2>4, <2>5
<1> QED
  BY <1>1, <1>6, <1>7, <1>9, <1>10, <1>11, <1>12, <1>13

-----------------------------------------------------------------------------
\* When no call runs, its locals are those of a fresh one.
FreshCall ==
  /\ phase = "idle" /\ turnIndex = 0 /\ discardPlayers = {}
  /\ step = 0 /\ potSize = 0 /\ preflopRaises = 0 /\ flopRaises = 0 /\ lastRaise = 0
  /\ vRemains = FreshRemains /\ vRoundBet = [r \in Rounds |-> 0] /\ vBetting = NoBets
  /\ callSize = 0 /\ action = "none" /\ terminal = FALSE /\ isSucceed = TRUE
  /\ realRaise \in {0, 1} /\ setUp \in BOOLEAN

LEMMA FreshCallGood == GInv /\ FreshCall => FInv
<1> SUFFICES ASSUME GInv, FreshCall PROVE FInv
  OBVIOUS
<1>1. /\ vRoundBet \in [Rounds -> Nat] /\ vBetting \in [Rounds -> [Positions -> Nat]]
      /\ \A r \in Rounds : vRoundBet[r] = 0
      /\ \A r \in Rounds, p \in Positions : vBetting[r][p] = 0
  BY DEF FreshCall, NoBets
<1>2. vRemains \in [Positions -> Nat]
  BY Consts, FreshStacks DEF FreshCall
<1>3. Sums
  BY <1>1 DEF Sums, FreshCall
<1>4. BlindsIn
  BY DEF BlindsIn, FreshCall
<1>5. Stacks
  <2> SUFFICES ASSUME NEW s \in Seats PROVE vRemains[Pos(s)] >= game.chips[s]
    BY DEF Stacks
  <2>1. Pos(s) \in Positions
    BY PosType
  <2>2. vRemains[Pos(s)] = InitChips[s]
    BY <2>1, FreshStacks DEF FreshCall
  <2>3. game.chips[s] <= InitChips[s]
    BY DEF GInv, Rules
  <2>4. game.chips[s] \in Nat
    BY DEF GInv, GameType
  <2> QED
    BY <2>2, <2>3, <2>4, Consts
<1>6. Phases
  BY DEF FreshCall, Phases
<1>7. step \in 0 .. Len(history)
  <2>1. history \in Seq(Line)
    BY DEF GInv, GameType, history
  <2>2. Len(history) \in Nat
    BY <2>1
  <2> QED
    BY <2>2 DEF FreshCall
<1>8. TypeOK
  BY <1>1, <1>2, <1>7, Consts DEF FreshCall, TypeOK
<1> QED
  BY <1>3, <1>4, <1>5, <1>6, <1>8 DEF FInv

\* The three kinds of steps: the game's, those that leave the figures, and the
\* returns.
LEMMA GameKeepsFigures ==
  ASSUME GInv, FInv, GInv', \A t \in Seats : game'.chips[t] <= game.chips[t],
         phase = "idle",
         UNCHANGED <<realRaise, setUp, phase, request, figures>>
  PROVE  FInv'
<1>1. /\ UNCHANGED realRaise /\ UNCHANGED setUp /\ UNCHANGED phase /\ UNCHANGED turnIndex
      /\ UNCHANGED discardPlayers /\ UNCHANGED potSize /\ UNCHANGED preflopRaises
      /\ UNCHANGED flopRaises /\ UNCHANGED lastRaise /\ UNCHANGED vRemains
      /\ UNCHANGED vRoundBet /\ UNCHANGED vBetting /\ UNCHANGED callSize /\ UNCHANGED action
      /\ UNCHANGED terminal /\ UNCHANGED isSucceed /\ UNCHANGED step
  BY DEF request, figures
<1>2. Sums'
  BY <1>1 DEF FInv, Sums
<1>3. BlindsIn'
  BY <1>1 DEF FInv, BlindsIn
<1>4. Stacks'
  <2> SUFFICES ASSUME NEW s \in Seats PROVE vRemains[Pos(s)] >= game'.chips[s]
    BY <1>1 DEF Stacks, Pos
  <2>1. Pos(s) \in Positions /\ vRemains \in [Positions -> Nat]
    BY PosType DEF FInv, TypeOK
  <2>2. game.chips[s] \in Nat /\ game'.chips[s] \in Nat
    BY DEF GInv, GameType
  <2>3. vRemains[Pos(s)] >= game.chips[s] /\ game'.chips[s] <= game.chips[s]
    BY DEF FInv, Stacks
  <2> QED
    BY <2>1, <2>2, <2>3
<1>5. Phases'
  BY <1>1 DEF FInv, Phases
<1>6. step' \in 0 .. Len(history')
  <2>1. step' = 0
    BY <1>1 DEF FInv, Phases
  <2>2. history' \in Seq(Line)
    BY DEF GInv, GameType, history
  <2>3. Len(history') \in Nat
    BY <2>2
  <2> QED
    BY <2>1, <2>3
<1>7. TypeOK'
  BY <1>1, <1>6 DEF FInv, TypeOK
<1> QED
  BY <1>2, <1>3, <1>4, <1>5, <1>7 DEF FInv

LEMMA SameFigures ==
  ASSUME GInv, FInv, UNCHANGED <<game, realRaise>>, setUp' \in BOOLEAN,
         turnIndex' \in Positions, discardPlayers' \subseteq Positions,
         UNCHANGED <<potSize, preflopRaises, flopRaises, lastRaise, vRemains, vRoundBet, vBetting,
                     callSize, action, terminal, isSucceed, step>>,
         phase' \in {"request", "lines", "deal", "figures", "crashed"},
         Len(history) >= 2, \E s \in Able : turnIndex' = Pos(s),
         phase' \in {"deal", "figures"} => step >= 2
  PROVE  FInv'
<1>1. history' = history /\ Able' = Able
  BY DEF history, Able, Live
<1>2. Sums' /\ BlindsIn' /\ Stacks'
  BY DEF FInv, Sums, BlindsIn, Stacks, Pos
<1>3. Phases'
  <2>1. \E s \in Able : turnIndex' = Pos(s)'
    BY DEF Pos
  <2> QED
    BY <1>1, <2>1 DEF FInv, Phases
<1>4. TypeOK'
  BY <1>1 DEF FInv, TypeOK
<1> QED
  BY <1>2, <1>3, <1>4 DEF FInv

LEMMA ReturnKeeps ==
  ASSUME GInv, FInv, Return
  PROVE  GInv' /\ FInv'
<1>1. game' = game /\ realRaise' \in {0, 1} /\ setUp' \in BOOLEAN
  BY DEF Return, FInv, TypeOK
<1>2. GInv'
  BY <1>1 DEF GInv, GameType, Rules, history
<1>3. FreshCall'
  BY <1>1 DEF Return, FreshCall, FreshRemains, NoBets, Pos
<1>4. GInv' /\ FreshCall' => FInv'
  BY FreshCallGood, PTL
<1> QED
  BY <1>2, <1>3, <1>4

\* Every line gives a command of the abstract game.
LEMMA CommandType ==
  ASSUME line.act \in Acts \ {"BLIND"}
  PROVE  Command \in Actions
<1>1. \A x, tag, idx, sizes : Nearer(x, sizes, tag, idx) \in {tag, idx}
  BY DEF Nearer
<1>2. \A x : OpeningAction(x) \in Actions
  <2> TAKE x
  <2>1. Nearer(x, OpeningSizes, 1, 2) \in {1, 2}
    BY <1>1
  <2>2. Nearer(x, OpeningSizes, Nearer(x, OpeningSizes, 1, 2), 3) \in {1, 2, 3}
    BY <1>1, <2>1
  <2>3. \A i \in {1, 2, 3} : OpeningActions[i] \in Actions
    BY DEF OpeningActions, Actions, Raises
  <2> QED
    BY <2>2, <2>3 DEF OpeningAction
<1>3. \A x : PotAction(x) \in Actions
  <2> TAKE x
  <2>1. Nearer(x, PotSizes, 1, 2) \in {1, 2}
    BY <1>1
  <2>2. Nearer(x, PotSizes, Nearer(x, PotSizes, 1, 2), 3) \in {1, 2, 3}
    BY <1>1, <2>1
  <2>3. Nearer(x, PotSizes, Nearer(x, PotSizes, Nearer(x, PotSizes, 1, 2), 3), 4) \in {1, 2, 3, 4}
    BY <1>1, <2>2
  <2>4. \A i \in {1, 2, 3, 4} : PotActions[i] \in Actions
    BY DEF PotActions, Actions, Raises
  <2> QED
    BY <2>3, <2>4 DEF PotAction
<1>4. line.act # "RAISE" => Passive[line.act] \in Actions
  BY DEF Acts, Passive, Actions
<1> QED
  BY <1>2, <1>3, <1>4 DEF Command

\* What the three ways to go through a line have in common.
LEMMA LineKeeps ==
  ASSUME GInv, FInv, Book, preflopRaises' \in Nat, flopRaises' \in Nat, lastRaise' \in Nat,
         action' \in Actions \cup {"none"}, terminal' \in BOOLEAN, isSucceed' \in BOOLEAN,
         phase' \in {"lines", "crashed"} \/ (phase' = "deal" /\ step > bbPos)
  PROVE  FInv'
<1>1. /\ game' = game /\ history' = history /\ step' = step + 1
      /\ step' \in 0 .. Len(history') /\ potSize' \in Nat /\ callSize' \in Nat
      /\ vRemains' \in [Positions -> Nat] /\ vRoundBet' \in [Rounds -> Nat]
      /\ vBetting' \in [Rounds -> [Positions -> Nat]]
      /\ Sums' /\ BlindsIn' /\ Stacks'
  BY BookKeeps
<1>2. UNCHANGED <<realRaise, setUp, turnIndex, discardPlayers>> /\ phase = "lines"
  BY DEF Book, request
<1>3. TypeOK'
  BY <1>1, <1>2 DEF FInv, TypeOK
<1>4. Phases'
  <2>1. Len(history') >= 2
    BY <1>1, <1>2 DEF FInv, Phases
  <2>2. \E s \in Able' : turnIndex' = Pos(s)'
    <3>1. PICK s \in Able : turnIndex = Pos(s)
      BY <1>2 DEF FInv, Phases
    <3>2. Able' = Able
      BY <1>1 DEF Able, Live
    <3> QED
      BY <1>2, <3>1, <3>2 DEF Pos
  <2>3. phase' \in {"deal", "figures"} => step' >= 2
    <3>1. step \in Nat
      BY <1>2, LineType DEF Book
    <3> QED
      BY <1>1, <3>1 DEF bbPos
  <2> QED
    BY <2>1, <2>2, <2>3 DEF Phases
<1> QED
  BY <1>1, <1>3, <1>4 DEF FInv

LEMMA PlayLineKeeps ==
  ASSUME GInv, FInv, PlayLine
  PROVE  FInv'
<1>1. Book /\ step > 1 /\ phase = "lines" /\ step < Len(history)
  BY DEF PlayLine, Book, bbPos
<1>2. /\ line = history[step + 1] /\ step + 1 \in 1 .. Len(history) /\ step \in Nat
      /\ line.act \in Acts /\ his_bet \in Nat
  BY <1>1, LineType
<1>3. line.act # "BLIND"
  <2>1. step + 1 > 2
    BY <1>1, <1>2
  <2> QED
    BY <1>2, <2>1 DEF GInv, Rules
<1>4. action' \in Actions
  BY <1>2, <1>3, CommandType DEF PlayLine
<1>5. preflopRaises \in Nat /\ flopRaises \in Nat /\ lastRaise \in Nat /\ isSucceed \in BOOLEAN
  BY DEF FInv, TypeOK
<1>6. preflopRaises' \in Nat /\ flopRaises' \in Nat /\ lastRaise' \in Nat
  BY <1>2, <1>5 DEF PlayLine
<1>7. terminal' \in BOOLEAN /\ isSucceed' \in BOOLEAN
  BY <1>5 DEF PlayLine
<1>8. phase' \in {"lines", "crashed"}
  <2>1. CASE UpdatesRange
    <3>1. UpdateRange
      BY <2>1 DEF PlayLine
    <3> QED
      BY <3>1 DEF UpdateRange
  <2>2. CASE ~UpdatesRange
    BY <1>1, <2>2 DEF PlayLine
  <2> QED
    BY <2>1, <2>2
<1> QED
  BY <1>1, <1>4, <1>6, <1>7, <1>8, LineKeeps

LEMMA OtherLinesKeep ==
  ASSUME GInv, FInv, BlindLine \/ AfterTheEnd
  PROVE  FInv'
<1>1. /\ preflopRaises \in Nat /\ flopRaises \in Nat /\ lastRaise \in Nat
      /\ action \in Actions \cup {"none"} /\ terminal \in BOOLEAN /\ isSucceed \in BOOLEAN
  BY DEF FInv, TypeOK
<1>2. CASE BlindLine
  <2>1. /\ Book /\ phase' = "lines"
        /\ UNCHANGED <<preflopRaises, flopRaises, lastRaise, action, terminal, isSucceed>>
    BY <1>2 DEF BlindLine, Book
  <2> QED
    BY <1>1, <2>1, LineKeeps
<1>3. CASE AfterTheEnd
  <2>1. /\ Book /\ phase' = "deal" /\ step > bbPos /\ isSucceed' \in BOOLEAN
        /\ UNCHANGED <<preflopRaises, flopRaises, lastRaise, action, terminal>>
    BY <1>3 DEF AfterTheEnd
  <2> QED
    BY <1>1, <2>1, LineKeeps
<1> QED
  BY <1>2, <1>3

-----------------------------------------------------------------------------
LEMMA InitGInv == Init => GInv
<1> SUFFICES ASSUME Init PROVE GInv
  OBVIOUS
<1>1. /\ game.history = <<>> /\ game.chips = InitChips
      /\ game.put = [s \in Seats |-> 0] /\ game.high = 0 /\ game.pot = 0
      /\ game.round = 0 /\ game.folded = {}
      /\ game = [history |-> game.history, chips |-> game.chips, put |-> game.put,
                 high |-> game.high, pot |-> game.pot, round |-> game.round,
                 folded |-> game.folded]
  BY DEF Init
<1>2. game.history \in Seq(Line)
  BY <1>1
<1>3. game.chips \in [Seats -> Nat] /\ game.put \in [Seats -> Nat]
  BY <1>1, Consts
<1>4. GameType
  BY <1>1, <1>2, <1>3, Consts DEF GameType
<1>5. history = <<>> /\ Len(history) = 0
  BY <1>1 DEF history
<1>6. \A s \in Seats : game.put[s] <= game.high /\ game.chips[s] <= InitChips[s]
  BY <1>1, Consts
<1>7. game.chips[0] = InitChips[0] /\ game.chips[1] = InitChips[1]
  BY <1>1, Consts
<1> QED
  BY <1>4, <1>5, <1>6, <1>7 DEF GInv, Rules

LEMMA InitInv == Init => GInv /\ FInv /\ CInv
<1> SUFFICES ASSUME Init PROVE GInv /\ FInv /\ CInv
  OBVIOUS
<1>1. GInv
  BY InitGInv
<1>2. FreshCall
  BY Consts DEF Init, FreshCall
<1>3. CInv
  BY DEF Init, CInv
<1> QED
  BY <1>1, <1>2, <1>3, FreshCallGood

\* The steps of the game and the rejected requests.
LEMMA OutsideKeeps ==
  ASSUME GInv, FInv,
         Blinds \/ (\E s \in Seats : Play(s)) \/ NextRound \/ Reject
  PROVE  GInv' /\ FInv'
<1>1. CASE Blinds
  <2>1. phase = "idle" /\ UNCHANGED <<realRaise, setUp, phase, request, figures>>
    BY <1>1 DEF Blinds, Bet
  <2> QED
    BY <1>1, <2>1, BlindsKeepGame, GameKeepsFigures
<1>2. CASE \E s \in Seats : Play(s)
  <2>1. PICK s \in Seats : Play(s)
    BY <1>2
  <2>2. phase = "idle" /\ UNCHANGED <<realRaise, setUp, phase, request, figures>>
    BY <2>1 DEF Play, Bet
  <2> QED
    BY <2>1, <2>2, PlayKeepsGame, GameKeepsFigures
<1>3. CASE NextRound
  <2>1. phase = "idle" /\ UNCHANGED <<realRaise, setUp, phase, request, figures>>
    BY <1>3 DEF NextRound
  <2> QED
    BY <1>3, <2>1, RoundKeepsGame, GameKeepsFigures
<1>4. CASE Reject
  <2>1. phase = "idle" /\ UNCHANGED <<game, realRaise, setUp, phase, request, figures>>
    BY <1>4 DEF Reject
  <2>2. GInv'
    BY <2>1 DEF GInv, GameType, Rules, history
  <2>3. \A t \in Seats : game'.chips[t] <= game.chips[t]
    BY <2>1 DEF GInv, GameType
  <2> QED
    BY <2>1, <2>2, <2>3, GameKeepsFigures
<1> QED
  BY <1>1, <1>2, <1>3, <1>4

\* The steps of a call that leave the figures.
LEMMA InsideKeeps ==
  ASSUME GInv, FInv,
         (\E s \in Seats : Request(s)) \/ SetUp \/ Later \/ LinesDone \/ Dealt
  PROVE  FInv'
<1>1. history \in Seq(Line) /\ Len(history) \in Nat
  <2>1. history \in Seq(Line)
    BY DEF GInv, GameType, history
  <2> QED
    BY <2>1
<1>2. setUp \in BOOLEAN /\ turnIndex \in Positions /\ discardPlayers \subseteq Positions
  BY DEF FInv, TypeOK
<1>3. CASE \E s \in Seats : Request(s)
  <2>1. PICK s \in Seats : Request(s)
    BY <1>3
  <2>2. Len(history) > 1
    BY <2>1 DEF Request, bbPos
  <2>3. Len(history) >= 2
    BY ONLY <1>1, <2>2, ZeroOneOrMore
  <2>4. turnIndex' = Pos(s) /\ s \in Able
    BY <2>1 DEF Request, TurnOf, Pos
  <2>5. turnIndex' \in Positions
    BY <2>4, PosType
  <2>6. discardPlayers' \subseteq Positions
    <3>1. game.folded \subseteq Seats
      BY DEF GInv, GameType
    <3>2. discardPlayers' = {Pos(f) : f \in game.folded}
      BY <2>1 DEF Request
    <3> QED
      BY <3>1, <3>2, PosType
  <2>7. /\ UNCHANGED <<game, realRaise, setUp>> /\ phase' = "request"
        /\ UNCHANGED <<potSize, preflopRaises, flopRaises, lastRaise, vRemains, vRoundBet, vBetting,
                       callSize, action, terminal, isSucceed, step>>
    BY <2>1 DEF Request
  <2> QED
    BY <1>2, <2>3, <2>4, <2>5, <2>6, <2>7, SameFigures
<1>4. phase # "idle" => Len(history) >= 2 /\ \E s \in Able : turnIndex = Pos(s)
  BY DEF FInv, Phases
<1>5. CASE SetUp
  <2>1. /\ UNCHANGED <<game, realRaise, turnIndex, discardPlayers>> /\ setUp' \in BOOLEAN
        /\ phase = "request" /\ phase' \in {"lines", "crashed"}
        /\ UNCHANGED <<potSize, preflopRaises, flopRaises, lastRaise, vRemains, vRoundBet, vBetting,
                       callSize, action, terminal, isSucceed, step>>
    BY <1>5 DEF SetUp, request
  <2> QED
    BY <1>2, <1>4, <2>1, SameFigures
<1>6. CASE Later
  <2>1. /\ UNCHANGED <<game, realRaise, setUp, turnIndex, discardPlayers>>
        /\ phase = "request" /\ phase' = "lines"
        /\ UNCHANGED <<potSize, preflopRaises, flopRaises, lastRaise, vRemains, vRoundBet, vBetting,
                       callSize, action, terminal, isSucceed, step>>
    BY <1>6 DEF Later, request, figures
  <2> QED
    BY <1>2, <1>4, <2>1, SameFigures
<1>7. CASE LinesDone
  <2>1. /\ UNCHANGED <<game, realRaise, setUp, turnIndex, discardPlayers>>
        /\ phase = "lines" /\ phase' = "deal" /\ step = Len(history)
        /\ UNCHANGED <<potSize, preflopRaises, flopRaises, lastRaise, vRemains, vRoundBet, vBetting,
                       callSize, action, terminal, isSucceed, step>>
    BY <1>7 DEF LinesDone, request, figures
  <2> QED
    BY <1>2, <1>4, <2>1, SameFigures
<1>8. CASE Dealt
  <2>1. /\ UNCHANGED <<game, realRaise, setUp, turnIndex, discardPlayers>>
        /\ phase = "deal" /\ phase' = "figures" /\ step >= 2
        /\ UNCHANGED <<potSize, preflopRaises, flopRaises, lastRaise, vRemains, vRoundBet, vBetting,
                       callSize, action, terminal, isSucceed, step>>
    BY <1>8 DEF Dealt, request, figures, FInv, Phases
  <2> QED
    BY <1>2, <1>4, <2>1, SameFigures
<1> QED
  BY <1>3, <1>5, <1>6, <1>7, <1>8

\* While a call runs the game stands still.
LEMMA GameStands ==
  ASSUME GInv,
         UNCHANGED game
  PROVE  GInv'
BY DEF GInv, GameType, Rules, history

LEMMA NextKeepsFigures ==
  ASSUME GInv, FInv, [Next]_vars
  PROVE  GInv' /\ FInv'
<1>1. CASE Blinds \/ (\E s \in Seats : Play(s)) \/ NextRound \/ Reject
  BY <1>1, OutsideKeeps
<1>2. CASE (\E s \in Seats : Request(s)) \/ SetUp \/ Later \/ LinesDone \/ Dealt
  <2>1. UNCHANGED game
    BY <1>2 DEF Request, SetUp, Later, LinesDone, Dealt
  <2> QED
    BY <1>2, <2>1, GameStands, InsideKeeps
<1>3. CASE BlindLine \/ AfterTheEnd \/ PlayLine
  <2>1. UNCHANGED game
    BY <1>3 DEF BlindLine, AfterTheEnd, PlayLine, Book
  <2> QED
    BY <1>3, <2>1, GameStands, OtherLinesKeep, PlayLineKeeps
<1>4. CASE TooShort \/ NoCards \/ Answered \/ Undecided
  <2>1. Return
    BY <1>4 DEF TooShort, NoCards, Answered, Undecided, Drop
  <2> QED
    BY <2>1, ReturnKeeps
<1>5. CASE UNCHANGED vars
  <2>1. UNCHANGED <<game, realRaise, setUp, phase, turnIndex, discardPlayers>> /\ UNCHANGED figures
    BY <1>5 DEF vars, request
  <2>2. GInv'
    BY <2>1, GameStands
  <2>3. FInv'
    BY <2>1 DEF FInv, TypeOK, Sums, BlindsIn, Stacks, Phases, figures, history, Able, Live, Pos
  <2> QED
    BY <2>2, <2>3
<1> QED
  BY <1>1, <1>2, <1>3, <1>4, <1>5 DEF Next

-----------------------------------------------------------------------------
\* The figures of every decision have the types the code reads them with.
THEOREM TypesKept == Spec => []TypeOK
<1>1. Init => GInv /\ FInv
  BY InitInv
<1>2. GInv /\ FInv /\ [Next]_vars => GInv' /\ FInv'
  BY NextKeepsFigures
<1>3. GInv /\ FInv => TypeOK
  BY DEF FInv
<1> QED
  BY <1>1, <1>2, <1>3, PTL DEF Spec

LEMMA FiguresOfInv == GInv /\ FInv => FiguresReplayed
<1> SUFFICES ASSUME GInv, FInv, phase = "figures"
             PROVE  table \in TableFields /\ Replayed(table)
  BY DEF FiguresReplayed
<1> DEFINE r == game.round  p == turnIndex
<1>1. /\ r \in Rounds /\ p \in Positions /\ potSize \in Nat /\ flopRaises \in Nat
      /\ lastRaise \in Nat /\ vRemains \in [Positions -> Nat] /\ vRoundBet \in [Rounds -> Nat]
      /\ vBetting \in [Rounds -> [Positions -> Nat]]
  BY DEF GInv, GameType, FInv, TypeOK
<1>2. vBetting[r][p] \in Nat /\ vRoundBet[r] \in Nat /\ vBetting[r][p] <= vRoundBet[r]
      /\ potSize >= vBetting[r][p]
  BY <1>1 DEF FInv, Sums
<1>3. potSize >= 3
  BY DEF FInv, Phases, BlindsIn
<1>4. vRemains[p] \in Nat \ {0}
  <2>1. PICK s \in Able : p = Pos(s)
    BY DEF FInv, Phases
  <2>2. s \in Seats /\ game.chips[s] > 0 /\ game.chips[s] \in Nat
    BY <2>1 DEF Able, Live, GInv, GameType
  <2>3. vRemains[p] >= game.chips[s]
    BY <2>1, <2>2 DEF FInv, Stacks
  <2> QED
    BY <1>1, <2>2, <2>3
<1>5. p \in Nat
  BY <1>1, Consts DEF Positions
<1>6. vRoundBet[r] - vBetting[r][p] > 0
        => potSize >= (2 * vBetting[r][p]) + (vRoundBet[r] - vBetting[r][p])
  <2> HAVE vRoundBet[r] - vBetting[r][p] > 0
  <2>1. vRoundBet[r] # 0
    BY <1>2
  <2>2. PICK q \in Positions : vBetting[r][q] = vRoundBet[r]
    BY <1>1, <2>1 DEF FInv, Sums
  <2>3. q # p
    BY <1>2, <2>2
  <2>4. potSize >= vBetting[r][p] + vBetting[r][q]
    BY <1>1, <2>3 DEF FInv, Sums
  <2> QED
    BY <1>1, <1>2, <2>2, <2>4
<1>7. /\ table.potSize = potSize /\ table.callSize = vRoundBet[r] - vBetting[r][p]
      /\ table.curRoundBet = vBetting[r][p]
  BY DEF table
<1>8. table \in TableFields
  BY <1>1, <1>2, <1>4, <1>5 DEF table, TableFields
<1> HIDE DEF r, p
<1>9. Replayed(table)
  BY <1>2, <1>3, <1>6, <1>7 DEF Replayed
<1> QED
  BY <1>8, <1>9

\* Whatever the game, the figures that reach the decision are among those it is
\* made for: what module Decide assumes of its tables is what the replay gives.
THEOREM ReplayGivesTables == Spec => []FiguresReplayed
<1>1. Init => GInv /\ FInv
  BY InitInv
<1>2. GInv /\ FInv /\ [Next]_vars => GInv' /\ FInv'
  BY NextKeepsFigures
<1> QED
  BY <1>1, <1>2, FiguresOfInv, PTL DEF Spec

\* The State of an answered request is deleted, that of a dropped one is not.
THEOREM StatesOfDropped == Spec => []OnlyDroppedLeak
<1> DEFINE Inv == OnlyDroppedLeak /\ states \in Int /\ dropped \in Int
<1>1. Init => Inv
  BY DEF Init, OnlyDroppedLeak
<1>2. Inv /\ [Next]_vars => Inv'
  <2> SUFFICES ASSUME Inv, [Next]_vars PROVE Inv'
    OBVIOUS
  <2>1. CASE Blinds \/ (\E s \in Seats : Play(s)) \/ NextRound \/ Reject
    BY <2>1 DEF Blinds, Play, Bet, NextRound, Reject, OnlyDroppedLeak
  <2>2. CASE \E s \in Seats : Request(s)
    BY <2>2 DEF Request, OnlyDroppedLeak
  <2>3. CASE SetUp \/ Later \/ LinesDone \/ Dealt
    BY <2>3 DEF SetUp, Later, LinesDone, Dealt, OnlyDroppedLeak
  <2>4. CASE BlindLine \/ AfterTheEnd \/ PlayLine
    <3>1. /\ phase = "lines" /\ UNCHANGED <<states, dropped>>
          /\ phase' \in {"lines", "deal", "crashed"}
      BY <2>4 DEF BlindLine, AfterTheEnd, PlayLine, Book, UpdateRange
    <3> QED
      BY <3>1 DEF OnlyDroppedLeak
  <2>5. CASE TooShort \/ NoCards \/ Undecided
    BY <2>5 DEF TooShort, NoCards, Undecided, Drop, Return, OnlyDroppedLeak
  <2>6. CASE Answered
    BY <2>6 DEF Answered, Return, OnlyDroppedLeak
  <2>7. CASE UNCHANGED vars
    BY <2>7 DEF vars, OnlyDroppedLeak
  <2> QED
    BY <2>1, <2>2, <2>3, <2>4, <2>5, <2>6, <2>7 DEF Next
<1>3. Inv => OnlyDroppedLeak
  OBVIOUS
<1> QED
  BY <1>1, <1>2, <1>3, PTL DEF Spec

\* A connection that has had an answer has its cards, and no request of it reads
\* past the end of them.
THEOREM AnsweredHaveCards == Spec => []AnsweredNeverCrashes
<1>1. Init => CInv
  BY InitInv
<1>2. CInv /\ [Next]_vars => CInv'
  <2> SUFFICES ASSUME CInv, [Next]_vars PROVE CInv'
    OBVIOUS
  <2>1. CASE Blinds \/ (\E s \in Seats : Play(s)) \/ NextRound \/ Reject
    <3>1. phase' = "idle" /\ UNCHANGED <<setUp, answers>>
      BY <2>1 DEF Blinds, Play, Bet, NextRound, Reject
    <3> QED
      BY <3>1 DEF CInv
  <2>2. CASE \E s \in Seats : Request(s)
    BY <2>2 DEF Request, CInv
  <2>3. CASE SetUp
    BY <2>3 DEF SetUp, CInv, history
  <2>4. CASE Later \/ LinesDone \/ Dealt
    BY <2>4 DEF Later, LinesDone, Dealt, CInv
  <2>5. CASE BlindLine \/ AfterTheEnd
    <3>1. phase' \in {"lines", "deal"} /\ UNCHANGED <<setUp, answers>>
      BY <2>5 DEF BlindLine, AfterTheEnd, Book
    <3> QED
      BY <3>1 DEF CInv
  <2>6. CASE PlayLine
    <3>1. UNCHANGED <<setUp, answers>> /\ phase = "lines"
      BY <2>6 DEF PlayLine, Book
    <3>2. phase' = "lines" \/ (phase' = "crashed" /\ ~setUp)
      <4>1. CASE UpdatesRange
        <5>1. UpdateRange
          BY <2>6, <4>1 DEF PlayLine
        <5> QED
          BY <5>1 DEF UpdateRange
      <4>2. CASE ~UpdatesRange
        BY <2>6, <3>1, <4>2 DEF PlayLine
      <4> QED
        BY <4>1, <4>2
    <3> QED
      BY <3>1, <3>2 DEF CInv
  <2>7. CASE TooShort \/ NoCards \/ Undecided
    BY <2>7 DEF TooShort, NoCards, Undecided, Drop, Return, CInv
  <2>8. CASE Answered
    BY <2>8 DEF Answered, Return, CInv
  <2>9. CASE UNCHANGED vars
    BY <2>9 DEF vars, CInv, history
  <2> QED
    BY <2>1, <2>2, <2>3, <2>4, <2>5, <2>6, <2>7, <2>8, <2>9 DEF Next
<1>3. CInv => AnsweredNeverCrashes
  BY DEF CInv, AnsweredNeverCrashes
<1> QED
  BY <1>1, <1>2, <1>3, PTL DEF Spec

-----------------------------------------------------------------------------
\* Hands that differ in their suits only are in one cluster.
LEMMA OneClass ==
  ASSUME NEW pair \in Alike
  PROVE  Cluster(pair[1]) = Cluster(pair[2])
<1>1. pair[1] \in AllHands /\ pair[2] \in AllHands /\ SameClass(pair[1], pair[2])
  BY DEF Alike
<1> DEFINE g == pair[1]
           h == pair[2]
<1>2. /\ g[1].face \in Int /\ g[2].face \in Int /\ h[1].face \in Int /\ h[2].face \in Int
  BY <1>1, RangesAssumption DEF AllHands
<1>3. /\ {g[1].face, g[2].face} = {h[1].face, h[2].face}
      /\ (g[1].suit = g[2].suit) = (h[1].suit = h[2].suit)
  BY <1>1 DEF SameClass
<1> HIDE DEF g, h
<1>4. \/ (g[1].face = h[1].face /\ g[2].face = h[2].face)
      \/ (g[1].face = h[2].face /\ g[2].face = h[1].face)
  BY <1>3
<1>5. Cluster(g) = Cluster(h)
  BY <1>2, <1>3, <1>4 DEF Cluster
<1> QED
  BY <1>5 DEF g, h

EqualInSuits(range) ==
  \A pair \in Alike : pair[1] \in DOMAIN range.odds =>
    pair[2] \in DOMAIN range.odds /\ range.odds[pair[1]] = range.odds[pair[2]]

\* An action before the flop keeps them equal, as long as no hand is on a board.
LEMMA UpdateKeepsEqual ==
  ASSUME NEW range, EqualInSuits(range), NEW node
  PROVE  EqualInSuits(Updated(range, {}, 0, node))
<1> DEFINE odds == Scaled(range, 0, node)
           total == ProbA(range, {}, 0, node)
           kept == Likely(odds, range.unit * Grain, total)
<1>1. DOMAIN odds = DOMAIN range.odds
  BY DEF Scaled
<1>2. \A pair \in Alike : eval(pair[1], 0, node) = eval(pair[2], 0, node)
  BY OneClass DEF eval
<1>3. \A pair \in Alike : pair[1] \in DOMAIN odds =>
        pair[2] \in DOMAIN odds /\ odds[pair[1]] = odds[pair[2]]
  <2> TAKE pair \in Alike
  <2> HAVE pair[1] \in DOMAIN odds
  <2>1. pair[2] \in DOMAIN range.odds /\ range.odds[pair[1]] = range.odds[pair[2]]
    BY <1>1 DEF EqualInSuits
  <2> QED
    BY <1>1, <1>2, <2>1 DEF Scaled
<1> HIDE DEF odds, total
<1>4. \A pair \in Alike : pair[1] \in kept => pair[2] \in kept /\ odds[pair[1]] = odds[pair[2]]
  BY <1>3 DEF Likely
<1> HIDE DEF kept
<1>5. Updated(range, {}, 0, node).odds = [h \in kept |-> odds[h]]
  BY DEF Updated, odds, total, kept
<1> QED
  BY <1>4, <1>5 DEF EqualInSuits

SInv ==
  /\ DOMAIN handRanges = Positions /\ DOMAIN marks = Positions
  /\ \A p \in Positions : "board" \notin marks[p] => EqualInSuits(handRanges[p])

LEMMA FreshEqual ==
  ASSUME handRanges = FreshRanges, marks = [p \in Positions |-> {}]
  PROVE  SInv
<1>1. EqualInSuits(cloneHandProbs)
  BY DEF EqualInSuits, cloneHandProbs, Alike
<1> QED
  BY <1>1 DEF SInv, FreshRanges

LEMMA UpdateRangeKeepsEqual ==
  ASSUME GInv, FInv, SInv, PlayLine, UpdateRange
  PROVE  SInv'
<1>1. newPos \in Positions /\ line.round \in Rounds
  BY LineType DEF PlayLine, Book
<1> DEFINE p == newPos
           range == handRanges[newPos]
<1>2. PICK removed, node :
        /\ handRanges' = [handRanges EXCEPT ![p] = Updated(range, removed, line.round, node)]
        /\ marks' = [marks EXCEPT ![p] = @ \cup Marked(range, removed, node)]
  BY DEF UpdateRange
<1>3. /\ DOMAIN handRanges' = Positions /\ DOMAIN marks' = Positions
      /\ handRanges'[p] = Updated(range, removed, line.round, node)
      /\ marks'[p] = marks[p] \cup Marked(range, removed, node)
      /\ \A q \in Positions : q # p => handRanges'[q] = handRanges[q] /\ marks'[q] = marks[q]
  BY <1>1, <1>2 DEF SInv
<1>4. "board" \notin marks'[p] => EqualInSuits(handRanges'[p])
  <2> HAVE "board" \notin marks'[p]
  <2>1. "board" \notin marks[p] /\ "board" \notin Marked(range, removed, node)
    BY <1>3
  <2>2. ~(line.round > 0 \/ removed # {})
    BY <2>1 DEF Marked
  <2>3. line.round = 0 /\ removed = {}
    BY <1>1, <2>2 DEF Rounds
  <2>4. EqualInSuits(range)
    BY <1>1, <2>1 DEF SInv
  <2>5. EqualInSuits(Updated(range, {}, 0, node))
    BY <2>4, UpdateKeepsEqual
  <2> QED
    BY <1>3, <2>3, <2>5
<1> HIDE DEF p
<1>5. \A q \in Positions : "board" \notin marks'[q] => EqualInSuits(handRanges'[q])
  BY <1>3, <1>4 DEF SInv
<1>6. SInv' = (/\ DOMAIN handRanges' = Positions /\ DOMAIN marks' = Positions
               /\ \A q \in Positions : "board" \notin marks'[q] => EqualInSuits(handRanges'[q]))
  BY DEF SInv, EqualInSuits
<1> QED
  BY <1>3, <1>5, <1>6

\* Whatever is observed before the flop, a range does not tell hands apart that
\* differ in their suits only.
THEOREM SuitsStayAlike == Spec => []SuitsAlike
<1>1. Init => GInv /\ FInv /\ SInv
  <2>1. Init => SInv
    BY FreshEqual DEF Init
  <2> QED
    BY <2>1, InitInv
<1>2. GInv /\ FInv /\ SInv /\ [Next]_vars => GInv' /\ FInv' /\ SInv'
  <2> SUFFICES ASSUME GInv, FInv, SInv, [Next]_vars PROVE SInv'
    BY NextKeepsFigures
  <2>0. UNCHANGED <<handRanges, marks>> => SInv'
    BY DEF SInv, EqualInSuits
  <2>1. CASE Blinds \/ (\E s \in Seats : Play(s)) \/ NextRound \/ Reject
    BY <2>0, <2>1 DEF Blinds, Play, Bet, NextRound, Reject, figures
  <2>2. CASE (\E s \in Seats : Request(s)) \/ SetUp \/ Later \/ LinesDone \/ Dealt
    BY <2>0, <2>2 DEF Request, SetUp, Later, LinesDone, Dealt, figures
  <2>3. CASE BlindLine \/ AfterTheEnd
    BY <2>0, <2>3 DEF BlindLine, AfterTheEnd
  <2>4. CASE PlayLine
    <3>1. CASE UpdatesRange
      <4>1. UpdateRange
        BY <2>4, <3>1 DEF PlayLine
      <4> QED
        BY <2>4, <4>1, UpdateRangeKeepsEqual
    <3>2. CASE ~UpdatesRange
      BY <2>0, <2>4, <3>2 DEF PlayLine
    <3> QED
      BY <3>1, <3>2
  <2>5. CASE TooShort \/ NoCards \/ Answered \/ Undecided
    <3>1. handRanges' = FreshRanges' /\ marks' = [p \in Positions |-> {}]
      BY <2>5 DEF TooShort, NoCards, Answered, Undecided, Drop, Return, FreshRanges, cloneHandProbs, Positions
    <3>2. (handRanges = FreshRanges /\ marks = [p \in Positions |-> {}] => SInv)'
      BY FreshEqual, PTL
    <3> QED
      BY <3>1, <3>2
  <2>6. CASE UNCHANGED vars
    BY <2>0, <2>6 DEF vars, figures
  <2> QED
    BY <2>1, <2>2, <2>3, <2>4, <2>5, <2>6 DEF Next
<1>3. SInv => SuitsAlike
  BY DEF SInv, SuitsAlike, EqualInSuits, Ranged
<1> QED
  BY <1>1, <1>2, <1>3, PTL DEF Spec

-----------------------------------------------------------------------------
\* The odds of a range are numbers.
RangeType(range) ==
  /\ DOMAIN range.odds \subseteq AllHands /\ range.odds = [h \in DOMAIN range.odds |-> range.odds[h]]
  /\ \A h \in DOMAIN range.odds : range.odds[h] \in Nat
  /\ range.unit \in Nat

LEMMA HandsFinite ==
  ASSUME NEW P, P \subseteq AllHands
  PROVE  IsFiniteSet(AllHands) /\ IsFiniteSet(P) /\ Cardinality(P) <= DefaultOdds
         /\ Cardinality(P) \in Nat
<1>1. IsFiniteSet(TestCards \X TestCards)
  BY FS_Product, RangesAssumption
<1>2. IsFiniteSet(AllHands)
  BY <1>1, FS_Subset DEF AllHands
<1> QED
  BY <1>2, FS_Subset, FS_CardinalityType, RangesAssumption

LEMMA FreshType == RangeType(cloneHandProbs)
BY RangesAssumption DEF RangeType, cloneHandProbs

LEMMA EvalType ==
  ASSUME NEW round \in Rounds, NEW node \in Nodes(round), NEW h \in AllHands
  PROVE  eval(h, round, node) = NoNode \/ eval(h, round, node) \in Nat
<1>1. Grain \in Nat
  BY RangesAssumption
<1>2. CASE round = 0
  <2>1. node \in [Clusters -> Outcomes] /\ Cluster(h) \in Clusters
    BY <1>2, RangesAssumption DEF Nodes, Clusters
  <2> QED
    BY <1>1, <1>2, <2>1 DEF eval, Outcomes
<1>3. CASE round # 0
  <2>1. node \in [AllHands -> Outcomes]
    BY <1>3, RangesAssumption DEF Nodes
  <2> QED
    BY <1>1, <1>3, <2>1 DEF eval, Outcomes
<1> QED
  BY <1>2, <1>3

LEMMA ScaledType ==
  ASSUME NEW range, RangeType(range), NEW round \in Rounds, NEW node \in Nodes(round)
  PROVE  /\ DOMAIN Scaled(range, round, node) = DOMAIN range.odds
         /\ \A h \in DOMAIN range.odds : Scaled(range, round, node)[h] \in Nat
<1>1. \A h \in DOMAIN range.odds :
        range.odds[h] \in Nat /\ (eval(h, round, node) = NoNode \/ eval(h, round, node) \in Nat)
  BY EvalType DEF RangeType
<1> QED
  BY <1>1, RangesAssumption DEF Scaled

\* When every hand has less than its share of a total, their sum is less than the
\* total: as many shares as there are odds make it up.
LEMMA SharesSum ==
  ASSUME NEW S, IsFiniteSet(S), NEW F, \A x \in S : F[x] \in Nat, NEW D \in Nat, NEW T \in Nat,
         T > 0, \A x \in S : F[x] * D < T
  PROVE  SumOf(F, S) * D <= Cardinality(S) * (T - 1)
<1> DEFINE Good == {s \in SUBSET S : SumOf(F, s) * D <= Cardinality(s) * (T - 1)}
<1>1. {} \in Good
  <2>1. SumOf(F, {}) = 0 /\ Cardinality({}) = 0
    BY SumEmpty, FS_EmptySet
  <2>2. 0 * D = 0 /\ 0 * (T - 1) = 0
    OBVIOUS
  <2> QED
    BY <2>1, <2>2
<1>2. ASSUME NEW s \in SUBSET S, s # {}, \A x \in s : s \ {x} \in Good PROVE s \in Good
  <2>1. PICK x \in s : TRUE
    BY <1>2
  <2>2. IsFiniteSet(s) /\ IsFiniteSet(s \ {x})
    BY FS_Subset
  <2>3. SumOf(F, s) = F[x] + SumOf(F, s \ {x})
    BY <2>2, SumTake
  <2>4. SumOf(F, s \ {x}) \in Nat /\ F[x] \in Nat
    BY <2>2, SumType
  <2>5. Cardinality(s) = Cardinality(s \ {x}) + 1 /\ Cardinality(s \ {x}) \in Nat
    BY <2>2, FS_RemoveElement, FS_CardinalityType
  <2>6. SumOf(F, s \ {x}) * D <= Cardinality(s \ {x}) * (T - 1)
    BY <1>2
  <2>7. F[x] * D <= T - 1 /\ F[x] * D \in Nat
    BY <2>4
  <2> DEFINE a == F[x]
             b == SumOf(F, s \ {x})
             c == Cardinality(s \ {x})
  <2>8. (a + b) * D = (a * D) + (b * D) /\ (c + 1) * (T - 1) = (c * (T - 1)) + (T - 1)
        /\ b * D \in Nat /\ c * (T - 1) \in Nat
    <3> HIDE DEF a, b, c
    <3>1. a \in Nat /\ b \in Nat /\ c \in Nat /\ T - 1 \in Nat
      BY <2>4, <2>5 DEF a, b, c
    <3> QED
      BY <3>1
  <2>9. SumOf(F, s) * D <= Cardinality(s) * (T - 1)
    <3> HIDE DEF a, b, c
    <3>1. SumOf(F, s) = a + b /\ Cardinality(s) = c + 1 /\ a * D <= T - 1 /\ a * D \in Nat
          /\ b * D <= c * (T - 1)
      BY <2>3, <2>5, <2>6, <2>7 DEF a, b, c
    <3> QED
      BY <2>8, <3>1
  <2> QED
    BY <2>9
<1> HIDE DEF Good
<1>3. SUBSET S \subseteq Good
  BY <1>1, <1>2, PartsInduct
<1> QED
  BY <1>3 DEF Good

\* Some hand has its share: the pruning leaves it.
LEMMA SomeLikely ==
  ASSUME NEW S, S \subseteq AllHands, NEW F, \A x \in S : F[x] \in Nat, SumOf(F, S) > 0
  PROVE  \E x \in S : F[x] * DefaultOdds >= SumOf(F, S)
<1> DEFINE T == SumOf(F, S)
           D == DefaultOdds
           n == Cardinality(S)
<1>1. IsFiniteSet(S) /\ n \in Nat /\ n <= D /\ D \in Nat /\ T \in Nat /\ T > 0
  BY HandsFinite, SumType, RangesAssumption
<1> SUFFICES ASSUME \A x \in S : F[x] * D < T PROVE FALSE
  <2>1. \A x \in S : F[x] * D \in Nat
    BY <1>1
  <2> QED
    BY <1>1, <2>1
<1>2. T * D <= n * (T - 1)
  BY <1>1, SharesSum
<1>3. n * (T - 1) <= D * (T - 1)
  <2> HIDE DEF T, D, n
  <2> QED
    BY <1>1
<1>4. D * (T - 1) = (T * D) - D
  <2> HIDE DEF T, D, n
  <2> QED
    BY <1>1
<1>5. D = 0
  <2> HIDE DEF T, D, n
  <2>1. T * D \in Int /\ n * (T - 1) \in Int /\ D * (T - 1) \in Int
    BY <1>1
  <2> QED
    BY <1>1, <1>2, <1>3, <1>4, <2>1
<1>6. S = {}
  BY <1>1, <1>5, FS_EmptySet
<1> QED
  BY <1>1, <1>6, SumEmpty

\* What a Bayes step makes of a range.
LEMMA UpdateSound ==
  ASSUME NEW range, RangeType(range), NEW round \in Rounds, NEW node \in Nodes(round), NEW removed,
         NEW new, new = Updated(range, removed, round, node)
  PROVE  /\ RangeType(new)
         /\ DOMAIN new.odds = {} => ProbA(range, removed, round, node) = 0
         /\ Known(range, removed, round, node) = DOMAIN range.odds \ removed
              => Mass(new) <= new.unit
<1> DEFINE odds == Scaled(range, round, node)
           known == Known(range, removed, round, node)
           total == ProbA(range, removed, round, node)
           unit == range.unit * Grain
           kept == Likely(odds, unit, total) \ removed
<1>1. DOMAIN odds = DOMAIN range.odds /\ \A h \in DOMAIN range.odds : odds[h] \in Nat
  BY ScaledType
<1>2. known \subseteq DOMAIN range.odds \ removed /\ DOMAIN range.odds \subseteq AllHands
  BY DEF Known, RangeType
<1>3. total = SumOf(odds, known)
  BY DEF ProbA, SumOf
<1>4. IsFiniteSet(known) /\ IsFiniteSet(DOMAIN range.odds)
  <2>1. known \subseteq AllHands
    BY <1>2
  <2> QED
    BY <1>2, <2>1, HandsFinite
<1>5. total \in Nat
  <2>1. \A h \in known : odds[h] \in Nat
    BY <1>1, <1>2
  <2> HIDE DEF odds, known, total
  <2> QED
    BY <1>3, <1>4, <2>1, SumType
<1>6. unit \in Nat
  BY RangesAssumption DEF RangeType
<1>7. /\ new.odds = [h \in kept |-> odds[h]] /\ new.unit = (IF total = 0 THEN unit ELSE total)
      /\ DOMAIN new.odds = kept
  BY DEF Updated
<1> HIDE DEF known, total, odds, unit
<1>8. kept \subseteq DOMAIN range.odds
      /\ kept = {h \in DOMAIN odds : odds[h] * DefaultOdds >= (IF total = 0 THEN unit ELSE total)}
                  \ removed
  BY <1>1 DEF Likely
<1> HIDE DEF kept
<1>9. RangeType(new)
  BY <1>1, <1>2, <1>5, <1>6, <1>7, <1>8 DEF RangeType
<1>10. kept = {} => total = 0
  <2> SUFFICES ASSUME total > 0 PROVE kept # {}
    BY <1>5
  <2>1. \A h \in known : odds[h] \in Nat
    BY <1>1, <1>2
  <2>2. PICK h \in known : odds[h] * DefaultOdds >= total
    BY <1>2, <1>3, <2>1, SomeLikely
  <2> QED
    BY <1>1, <1>2, <1>8, <2>2
<1>11. known = DOMAIN range.odds \ removed => Mass(new) <= new.unit
  <2> HAVE known = DOMAIN range.odds \ removed
  <2>1. kept \subseteq known
    BY <1>8
  <2>2. Mass(new) = SumOf(odds, kept)
    <3>1. Mass(new) = SumOf(new.odds, kept)
      BY <1>7 DEF Mass, SumOf
    <3>2. \A h \in kept : new.odds[h] = odds[h]
      BY <1>7
    <3>3. IsFiniteSet(kept)
      BY <1>4, <1>8, FS_Subset
    <3> QED
      BY <3>1, <3>2, <3>3, SumCongruent
  <2>3. SumOf(odds, kept) <= total
    <3>1. \A h \in known : odds[h] \in Nat
      BY <1>1, <1>2
    <3> QED
      BY <1>3, <1>4, <2>1, <3>1, SumOfPart
  <2>4. SumOf(odds, kept) \in Nat
    <3>1. IsFiniteSet(kept) /\ \A h \in kept : odds[h] \in Nat
      BY <1>1, <1>4, <1>8, FS_Subset
    <3> QED
      BY <3>1, SumType
  <2> QED
    BY <1>5, <1>6, <1>7, <2>2, <2>3, <2>4
<1> QED
  BY <1>7, <1>9, <1>10, <1>11 DEF total, known

\* A range that was ever updated is a distribution; a fresh one has the odds of all
\* hands.
Distribution(range, mark) ==
  /\ DOMAIN range.odds = {} => "blank" \in mark
  /\ "unknown" \notin mark => Mass(range) <= range.unit

MInv ==
  /\ DOMAIN handRanges = Positions /\ DOMAIN marks = Positions
  /\ \A p \in Positions :
       /\ RangeType(handRanges[p])
       /\ handRanges[p] = cloneHandProbs \/ Distribution(handRanges[p], marks[p])

LEMMA FreshDistributed ==
  ASSUME handRanges = FreshRanges, marks = [p \in Positions |-> {}]
  PROVE  MInv
BY FreshType DEF MInv, FreshRanges

LEMMA UpdateRangeDistributes ==
  ASSUME GInv, FInv, MInv, PlayLine, UpdateRange
  PROVE  MInv'
<1>1. newPos \in Positions /\ line.round \in Rounds
  BY LineType DEF PlayLine, Book
<1> DEFINE p == newPos
           range == handRanges[newPos]
<1>2. \E removed : \E node \in Nodes(line.round) :
        /\ handRanges' = [handRanges EXCEPT ![p] = Updated(range, removed, line.round, node)]
        /\ marks' = [marks EXCEPT ![p] = @ \cup Marked(range, removed, node)]
  BY DEF UpdateRange
<1>3. PICK removed : \E node \in Nodes(line.round) :
        /\ handRanges' = [handRanges EXCEPT ![p] = Updated(range, removed, line.round, node)]
        /\ marks' = [marks EXCEPT ![p] = @ \cup Marked(range, removed, node)]
  BY <1>2
<1>4. PICK node \in Nodes(line.round) :
        /\ handRanges' = [handRanges EXCEPT ![p] = Updated(range, removed, line.round, node)]
        /\ marks' = [marks EXCEPT ![p] = @ \cup Marked(range, removed, node)]
  BY <1>3
<1> DEFINE new == Updated(range, removed, line.round, node)
<1>5. /\ DOMAIN handRanges' = Positions /\ DOMAIN marks' = Positions
      /\ handRanges'[p] = new
      /\ marks'[p] = marks[p] \cup Marked(range, removed, node)
      /\ \A q \in Positions : q # p => handRanges'[q] = handRanges[q] /\ marks'[q] = marks[q]
  BY <1>1, <1>4 DEF MInv
<1>6. /\ RangeType(new)
      /\ DOMAIN new.odds = {} => ProbA(range, removed, line.round, node) = 0
      /\ Known(range, removed, line.round, node) = DOMAIN range.odds \ removed
           => Mass(new) <= new.unit
  <2>1. RangeType(range)
    BY <1>1 DEF MInv
  <2> HIDE DEF range
  <2> QED
    BY <1>1, <1>4, <2>1, UpdateSound
<1>7. /\ ProbA(range, removed, line.round, node) = 0 => "blank" \in marks'[p]
      /\ Known(range, removed, line.round, node) # DOMAIN range.odds \ removed
           => "unknown" \in marks'[p]
  BY <1>5 DEF Marked
<1> HIDE DEF new, range, p
<1>8. RangeType(handRanges'[p]) /\ Distribution(handRanges'[p], marks'[p])
  BY <1>5, <1>6, <1>7 DEF Distribution
<1>9. \A q \in Positions :
        /\ RangeType(handRanges'[q])
        /\ handRanges'[q] = cloneHandProbs \/ Distribution(handRanges'[q], marks'[q])
  BY <1>5, <1>8 DEF MInv
<1>10. MInv' = (/\ DOMAIN handRanges' = Positions /\ DOMAIN marks' = Positions
                /\ \A q \in Positions :
                     /\ RangeType(handRanges'[q])
                     /\ handRanges'[q] = cloneHandProbs \/ Distribution(handRanges'[q], marks'[q]))
  BY DEF MInv
<1> QED
  BY <1>5, <1>9, <1>10

\* However the replay goes, a range stays a distribution, and only an action that
\* no hand in it would have taken empties it: the pruning always leaves a hand.
THEOREM RangesStayDistributions == Spec => []RangesAreDistributions
<1>1. Init => GInv /\ FInv /\ MInv
  <2>1. Init => MInv
    BY FreshDistributed DEF Init
  <2> QED
    BY <2>1, InitInv
<1>2. GInv /\ FInv /\ MInv /\ [Next]_vars => GInv' /\ FInv' /\ MInv'
  <2> SUFFICES ASSUME GInv, FInv, MInv, [Next]_vars PROVE MInv'
    BY NextKeepsFigures
  <2>0. UNCHANGED <<handRanges, marks>> => MInv'
    BY DEF MInv
  <2>1. CASE Blinds \/ (\E s \in Seats : Play(s)) \/ NextRound \/ Reject
    BY <2>0, <2>1 DEF Blinds, Play, Bet, NextRound, Reject, figures
  <2>2. CASE (\E s \in Seats : Request(s)) \/ SetUp \/ Later \/ LinesDone \/ Dealt
    BY <2>0, <2>2 DEF Request, SetUp, Later, LinesDone, Dealt, figures
  <2>3. CASE BlindLine \/ AfterTheEnd
    BY <2>0, <2>3 DEF BlindLine, AfterTheEnd
  <2>4. CASE PlayLine
    <3>1. CASE UpdatesRange
      <4>1. UpdateRange
        BY <2>4, <3>1 DEF PlayLine
      <4> QED
        BY <2>4, <4>1, UpdateRangeDistributes
    <3>2. CASE ~UpdatesRange
      BY <2>0, <2>4, <3>2 DEF PlayLine
    <3> QED
      BY <3>1, <3>2
  <2>5. CASE TooShort \/ NoCards \/ Answered \/ Undecided
    <3>1. handRanges' = FreshRanges' /\ marks' = [p \in Positions |-> {}]
      BY <2>5 DEF TooShort, NoCards, Answered, Undecided, Drop, Return, FreshRanges, cloneHandProbs, Positions
    <3>2. (handRanges = FreshRanges /\ marks = [p \in Positions |-> {}] => MInv)'
      BY FreshDistributed, PTL
    <3> QED
      BY <3>1, <3>2
  <2>6. CASE UNCHANGED vars
    BY <2>0, <2>6 DEF vars, figures
  <2> QED
    BY <2>1, <2>2, <2>3, <2>4, <2>5, <2>6 DEF Next
<1>3. MInv => RangesAreDistributions
  BY DEF MInv, RangesAreDistributions, Ranged, Distribution
<1> QED
  BY <1>1, <1>2, <1>3, PTL DEF Spec

-----------------------------------------------------------------------------
\* c is the stack of seat s after the first k lines of h: that of its last line
\* among them, or what it brought.
StackAfter(h, s, k, c) ==
  \/ c = InitChips[s] /\ \A i \in 1 .. k : h[i].pos # s
  \/ \E i \in 1 .. k : /\ h[i].pos = s /\ h[i].chips = c
                       /\ \A j \in i + 1 .. k : h[j].pos # s

LEMMA StackSame ==
  ASSUME NEW h, NEW g, NEW s, NEW k \in Nat, NEW c, \A i \in 1 .. k : h[i] = g[i],
         StackAfter(h, s, k, c)
  PROVE  StackAfter(g, s, k, c)
<1>1. CASE c = InitChips[s] /\ \A i \in 1 .. k : h[i].pos # s
  BY <1>1 DEF StackAfter
<1>2. CASE \E i \in 1 .. k : h[i].pos = s /\ h[i].chips = c /\ \A j \in i + 1 .. k : h[j].pos # s
  <2>1. PICK i \in 1 .. k : h[i].pos = s /\ h[i].chips = c /\ \A j \in i + 1 .. k : h[j].pos # s
    BY <1>2
  <2>2. \A j \in i + 1 .. k : j \in 1 .. k
    OBVIOUS
  <2> QED
    BY <2>1, <2>2 DEF StackAfter
<1> QED
  BY <1>1, <1>2 DEF StackAfter

LEMMA StackOther ==
  ASSUME NEW h, NEW s, NEW k \in Nat, NEW c, StackAfter(h, s, k, c), h[k + 1].pos # s
  PROVE  StackAfter(h, s, k + 1, c)
<1>1. CASE c = InitChips[s] /\ \A i \in 1 .. k : h[i].pos # s
  BY <1>1 DEF StackAfter
<1>2. CASE \E i \in 1 .. k : h[i].pos = s /\ h[i].chips = c /\ \A j \in i + 1 .. k : h[j].pos # s
  <2>1. PICK i \in 1 .. k : h[i].pos = s /\ h[i].chips = c /\ \A j \in i + 1 .. k : h[j].pos # s
    BY <1>2
  <2>2. i \in 1 .. k + 1 /\ \A j \in i + 1 .. k + 1 : j \in i + 1 .. k \/ j = k + 1
    OBVIOUS
  <2> QED
    BY <2>1, <2>2 DEF StackAfter
<1> QED
  BY <1>1, <1>2 DEF StackAfter

LEMMA StackOwn ==
  ASSUME NEW h, NEW s, NEW k \in Nat, h[k + 1].pos = s
  PROVE  StackAfter(h, s, k + 1, h[k + 1].chips)
<1>1. k + 1 \in 1 .. k + 1 /\ \A j \in (k + 1) + 1 .. k + 1 : FALSE
  OBVIOUS
<1> QED
  BY <1>1 DEF StackAfter

LEMMA StackUnique ==
  ASSUME NEW h, NEW s, NEW k \in Nat, NEW c, NEW d, StackAfter(h, s, k, c), StackAfter(h, s, k, d)
  PROVE  c = d
<1>1. CASE \A i \in 1 .. k : h[i].pos # s
  BY <1>1 DEF StackAfter
<1>2. CASE \E i \in 1 .. k : h[i].pos = s
  <2>1. PICK i \in 1 .. k : h[i].pos = s /\ h[i].chips = c /\ \A j \in i + 1 .. k : h[j].pos # s
    BY <1>2 DEF StackAfter
  <2>2. PICK m \in 1 .. k : h[m].pos = s /\ h[m].chips = d /\ \A j \in m + 1 .. k : h[j].pos # s
    BY <1>2 DEF StackAfter
  <2>3. (i < m => m \in i + 1 .. k) /\ (m < i => i \in m + 1 .. k)
    OBVIOUS
  <2>4. i = m
    BY <2>1, <2>2, <2>3
  <2> QED
    BY <2>1, <2>2, <2>4
<1> QED
  BY <1>1, <1>2

\* The pot of game g after the first k lines of its history.
PotAfter(g, k) == IF k = Len(g.history) THEN g.pot ELSE g.history[k + 1].pot

\* What the history of a game has to do with its stacks, bets and pot: the stacks
\* are those of the last lines, each line takes its bet from the stack before it,
\* the pot grows by the bets, the rounds come in order, and what a seat has put in
\* in this round is what its stack has lost since the round began.
Ledger ==
  /\ \A s \in Seats : StackAfter(history, s, Len(history), game.chips[s])
  /\ \A k \in 1 .. Len(history) :
       StackAfter(history, history[k].pos, k - 1, history[k].chips + history[k].bet)
  /\ PotAfter(game, 0) = 0
  /\ \A k \in 1 .. Len(history) : PotAfter(game, k) = PotAfter(game, k - 1) + history[k].bet
  /\ \A k \in 1 .. Len(history) : history[k].round <= game.round
  /\ \A i, k \in 1 .. Len(history) : i <= k => history[i].round <= history[k].round
  /\ \A k \in 0 .. Len(history) :
       (\A i \in 1 .. k : history[i].round # game.round)
       /\ (\A i \in k + 1 .. Len(history) : history[i].round = game.round)
         => \A s \in Seats : StackAfter(history, s, k, game.chips[s] + game.put[s])
  /\ game.high = 0 \/ \E s \in Seats : game.put[s] = game.high

\* What a bet does to the game, field by field.
LEMMA BetIs ==
  ASSUME GInv, NEW s \in Seats, NEW act \in Acts, NEW bet \in Nat, Bet(s, act, bet),
         bet <= game.chips[s], NEW n, n = Len(history)
  PROVE  /\ history \in Seq(Line) /\ n \in Nat /\ Len(history') = n + 1
         /\ \A i \in 1 .. n : history'[i] = history[i]
         /\ history'[n + 1] = [pos |-> s, round |-> game.round, act |-> act, bet |-> bet,
                               pot |-> game.pot, chips |-> game.chips[s] - bet]
         /\ game'.chips = [game.chips EXCEPT ![s] = @ - bet]
         /\ game'.put = [game.put EXCEPT ![s] = @ + bet]
         /\ game'.pot = game.pot + bet
         /\ game'.high = (IF game.put[s] + bet > game.high THEN game.put[s] + bet ELSE game.high)
         /\ game'.round = game.round
<1> DEFINE new == [pos |-> s, round |-> game.round, act |-> act, bet |-> bet,
                   pot |-> game.pot, chips |-> game.chips[s] - bet]
<1>1. GameType
  BY DEF GInv
<1>2. new \in Line /\ history \in Seq(Line)
  BY <1>1 DEF Line, GameType, history
<1>3. /\ game'.history = Append(history, new)
      /\ game'.chips = [game.chips EXCEPT ![s] = @ - bet]
      /\ game'.put = [game.put EXCEPT ![s] = @ + bet]
      /\ game'.pot = game.pot + bet
      /\ game'.high = (IF game.put[s] + bet > game.high THEN game.put[s] + bet ELSE game.high)
      /\ game'.round = game.round
  BY <1>1 DEF Bet, GameType, history
<1>4. history' = Append(history, new)
  BY <1>3 DEF history
<1> HIDE DEF new
<1>5. /\ n \in Nat /\ Len(history') = n + 1 /\ history'[n + 1] = new
      /\ \A i \in 1 .. n : history'[i] = history[i]
  BY <1>2, <1>4
<1> QED
  BY <1>2, <1>3, <1>5 DEF new

LEMMA BetKeepsLedger ==
  ASSUME GInv, Ledger, NEW s \in Seats, NEW act \in Acts, NEW bet \in Nat, Bet(s, act, bet),
         bet <= game.chips[s]
  PROVE  Ledger'
<1> DEFINE n == Len(history)
           r == game.round
<1>1. /\ history \in Seq(Line) /\ n \in Nat /\ Len(history') = n + 1
      /\ \A i \in 1 .. n : history'[i] = history[i]
      /\ history'[n + 1] = [pos |-> s, round |-> game.round, act |-> act, bet |-> bet,
                            pot |-> game.pot, chips |-> game.chips[s] - bet]
      /\ game'.chips = [game.chips EXCEPT ![s] = @ - bet]
      /\ game'.put = [game.put EXCEPT ![s] = @ + bet]
      /\ game'.pot = game.pot + bet
      /\ game'.high = (IF game.put[s] + bet > game.high THEN game.put[s] + bet ELSE game.high)
      /\ game'.round = r
  BY BetIs
<1>2. /\ history'[n + 1].pos = s /\ history'[n + 1].round = r /\ history'[n + 1].bet = bet
      /\ history'[n + 1].pot = game.pot /\ history'[n + 1].chips = game.chips[s] - bet
  BY <1>1
<1>3. /\ game.chips \in [Seats -> Nat] /\ game.put \in [Seats -> Nat] /\ r \in Rounds
      /\ game.high \in Nat /\ game.pot \in Nat
  BY DEF GInv, GameType
<1>4. /\ \A t \in Seats : game'.chips[t] = IF t = s THEN game.chips[s] - bet ELSE game.chips[t]
      /\ \A t \in Seats : game'.put[t] = IF t = s THEN game.put[s] + bet ELSE game.put[t]
  BY <1>1, <1>3
<1>5. \A k \in 0 .. n : \A t, c : StackAfter(history, t, k, c) => StackAfter(history', t, k, c)
  <2> TAKE k \in 0 .. n
  <2> TAKE t, c
  <2>1. k \in Nat /\ \A i \in 1 .. k : history[i] = history'[i]
    BY <1>1
  <2> QED
    BY <2>1, StackSame
<1>6. \A t \in Seats : StackAfter(history', t, n + 1, game'.chips[t])
  <2> TAKE t \in Seats
  <2>1. CASE t = s
    <3>1. StackAfter(history', s, n + 1, history'[n + 1].chips)
      BY <1>1, <1>2, StackOwn
    <3> QED
      BY <1>2, <1>4, <2>1, <3>1
  <2>2. CASE t # s
    <3>1. StackAfter(history', t, n, game.chips[t])
      BY <1>1, <1>5 DEF Ledger
    <3>2. StackAfter(history', t, n + 1, game.chips[t])
      BY <1>1, <1>2, <2>2, <3>1, StackOther
    <3> QED
      BY <1>4, <2>2, <3>2
  <2> QED
    BY <2>1, <2>2
<1>7. \A k \in 1 .. n + 1 :
        StackAfter(history', history'[k].pos, k - 1, history'[k].chips + history'[k].bet)
  <2> TAKE k \in 1 .. n + 1
  <2>1. CASE k = n + 1
    <3>1. StackAfter(history', s, n, game.chips[s])
      BY <1>1, <1>5 DEF Ledger
    <3>2. history'[k].chips + history'[k].bet = game.chips[s] /\ k - 1 = n
      BY <1>1, <1>2, <1>3, <2>1
    <3> QED
      BY <1>2, <2>1, <3>1, <3>2
  <2>2. CASE k \in 1 .. n
    <3>1. k - 1 \in 0 .. n /\ history'[k] = history[k]
      BY <1>1, <2>2
    <3>2. StackAfter(history, history[k].pos, k - 1, history[k].chips + history[k].bet)
      BY <2>2 DEF Ledger
    <3> QED
      BY <1>5, <3>1, <3>2
  <2> QED
    BY <1>1, <2>1, <2>2
<1>8. /\ \A k \in 0 .. n : PotAfter(game', k) = PotAfter(game, k)
      /\ PotAfter(game', n + 1) = game.pot + bet /\ PotAfter(game, n) = game.pot
  <2>0. game.history = history /\ game'.history = history'
    BY DEF history
  <2>1. PotAfter(game', n + 1) = game.pot + bet /\ PotAfter(game, n) = game.pot
    BY <1>1, <2>0 DEF PotAfter
  <2>2. ASSUME NEW k \in 0 .. n PROVE PotAfter(game', k) = PotAfter(game, k)
    <3>1. PotAfter(game', k) = history'[k + 1].pot
      BY <1>1, <2>0 DEF PotAfter
    <3>2. CASE k = n
      BY <1>2, <2>1, <3>1, <3>2
    <3>3. CASE k # n
      <4>1. k + 1 \in 1 .. n
        BY <1>1, <3>3
      <4> QED
        BY <1>1, <2>0, <3>1, <3>3, <4>1 DEF PotAfter
    <3> QED
      BY <3>2, <3>3
  <2> QED
    BY <2>1, <2>2
<1>9. /\ PotAfter(game', 0) = 0
      /\ \A k \in 1 .. n + 1 : PotAfter(game', k) = PotAfter(game', k - 1) + history'[k].bet
  <2>1. PotAfter(game', 0) = 0
    BY <1>1, <1>8 DEF Ledger
  <2>2. ASSUME NEW k \in 1 .. n + 1
        PROVE  PotAfter(game', k) = PotAfter(game', k - 1) + history'[k].bet
    <3>1. CASE k = n + 1
      <4>1. k - 1 = n /\ n \in 0 .. n
        BY <1>1, <3>1
      <4> QED
        BY <1>2, <1>8, <3>1, <4>1
    <3>2. CASE k \in 1 .. n
      <4>1. k - 1 \in 0 .. n /\ k \in 0 .. n
        BY <1>1, <3>2
      <4>2. PotAfter(game, k) = PotAfter(game, k - 1) + history[k].bet
        BY <3>2 DEF Ledger
      <4> QED
        BY <1>1, <1>8, <3>2, <4>1, <4>2
    <3> QED
      BY <1>1, <3>1, <3>2
  <2> QED
    BY <2>1, <2>2
<1>10. \A k \in 1 .. n + 1 : history'[k].round <= r
  <2> TAKE k \in 1 .. n + 1
  <2>1. CASE k = n + 1
    BY <1>2, <1>3, <2>1 DEF Rounds
  <2>2. CASE k \in 1 .. n
    BY <1>1, <2>2 DEF Ledger
  <2> QED
    BY <1>1, <2>1, <2>2
<1>11. \A i, k \in 1 .. n + 1 : i <= k => history'[i].round <= history'[k].round
  <2> TAKE i, k \in 1 .. n + 1
  <2> HAVE i <= k
  <2>1. CASE k = n + 1
    BY <1>2, <1>10, <2>1
  <2>2. CASE k \in 1 .. n
    <3>1. i \in 1 .. n
      BY <1>1, <2>2
    <3> QED
      BY <1>1, <2>2, <3>1 DEF Ledger
  <2> QED
    BY <1>1, <2>1, <2>2
<1>12. ASSUME NEW k \in 0 .. n + 1, \A i \in 1 .. k : history'[i].round # r,
              \A i \in k + 1 .. n + 1 : history'[i].round = r, NEW t \in Seats
       PROVE  StackAfter(history', t, k, game'.chips[t] + game'.put[t])
  <2>1. k \in 0 .. n
    <3>1. k # n + 1
      <4> SUFFICES ASSUME k = n + 1 PROVE FALSE
        OBVIOUS
      <4>1. n + 1 \in 1 .. k
        BY <1>1
      <4> QED
        BY <1>2, <1>12, <4>1
    <3> QED
      BY <1>1, <3>1
  <2>2. \A i \in 1 .. k : history[i].round # r
    <3>1. \A i \in 1 .. k : i \in 1 .. n
      BY <1>1, <2>1
    <3> QED
      BY <1>1, <1>12, <3>1
  <2>3. \A i \in k + 1 .. n : history[i].round = r
    <3>1. \A i \in k + 1 .. n : i \in 1 .. n /\ i \in k + 1 .. n + 1
      BY <1>1, <2>1
    <3> QED
      BY <1>1, <1>12, <3>1
  <2>4. StackAfter(history, t, k, game.chips[t] + game.put[t])
    BY <2>1, <2>2, <2>3 DEF Ledger
  <2>5. game'.chips[t] + game'.put[t] = game.chips[t] + game.put[t]
    BY <1>3, <1>4
  <2> QED
    BY <1>5, <2>1, <2>4, <2>5
<1>13. game'.high = 0 \/ \E t \in Seats : game'.put[t] = game'.high
  <2>1. CASE game.put[s] + bet > game.high
    BY <1>1, <1>4, <2>1
  <2>2. CASE ~(game.put[s] + bet > game.high)
    <3>1. CASE game.high = 0
      BY <1>1, <2>2, <3>1
    <3>2. CASE game.high # 0
      <4>1. PICK t \in Seats : game.put[t] = game.high
        BY <3>2 DEF Ledger
      <4>2. game.put[t] \in Nat /\ game.put[s] \in Nat
        BY <1>3
      <4>3. game'.put[t] = game.put[t]
        BY <1>4, <2>2, <4>1, <4>2
      <4> QED
        BY <1>1, <2>2, <4>1, <4>3
    <3> QED
      BY <3>1, <3>2
  <2> QED
    BY <2>1, <2>2
<1> QED
  BY <1>1, <1>6, <1>7, <1>9, <1>10, <1>11, <1>12, <1>13 DEF Ledger

LEMMA HistoryType ==
  ASSUME GInv
  PROVE  /\ Len(history) \in Nat
         /\ \A i \in 1 .. Len(history) :
              /\ history[i].round \in Rounds /\ history[i].round \in Nat
              /\ history[i].bet \in Nat /\ history[i].pos \in Seats
<1>1. history \in Seq(Line)
  BY DEF GInv, GameType, history
<1>2. Len(history) \in Nat /\ \A i \in 1 .. Len(history) : history[i] \in Line
  BY <1>1
<1>3. \A x \in Line : x.round \in Rounds /\ x.bet \in Nat /\ x.pos \in Seats
  BY DEF Line
<1> QED
  BY <1>2, <1>3, Consts

LEMMA RoundKeepsLedger ==
  ASSUME GInv, Ledger, NextRound
  PROVE  Ledger'
<1>1. /\ game'.history = game.history /\ game'.chips = game.chips
      /\ game'.put = [t \in Seats |-> 0] /\ game'.high = 0 /\ game'.round = game.round + 1
      /\ game'.pot = game.pot /\ history' = history
  BY DEF NextRound, GInv, GameType, history
<1>2. history \in Seq(Line) /\ game.chips \in [Seats -> Nat] /\ game.round \in Rounds
  BY DEF GInv, GameType, history
<1>3. /\ Len(history) \in Nat /\ \A i \in 1 .. Len(history) : history[i].round \in Nat
      /\ game.round \in Nat
  BY <1>2, HistoryType, Consts
<1>4. \A k : PotAfter(game', k) = PotAfter(game, k)
  BY <1>1 DEF PotAfter
<1>5. \A i \in 1 .. Len(history) : history[i].round <= game.round
  BY DEF Ledger
<1>6. ASSUME NEW k \in 0 .. Len(history), NEW s \in Seats,
             \A i \in k + 1 .. Len(history) : history[i].round = game.round + 1
      PROVE  StackAfter(history, s, k, game'.chips[s] + game'.put[s])
  <2>1. k = Len(history)
    <3> SUFFICES ASSUME k # Len(history) PROVE FALSE
      OBVIOUS
    <3>1. k + 1 \in k + 1 .. Len(history) /\ k + 1 \in 1 .. Len(history)
      BY <1>3
    <3> QED
      BY <1>3, <1>5, <1>6, <3>1
  <2>2. game'.chips[s] + game'.put[s] = game.chips[s]
    BY <1>1, <1>2
  <2>3. StackAfter(history, s, Len(history), game.chips[s])
    BY DEF Ledger
  <2> QED
    BY <2>1, <2>2, <2>3
<1>7. \A k \in 1 .. Len(history) : history[k].round <= game.round + 1
  BY <1>3, <1>5
<1> QED
  BY <1>1, <1>4, <1>6, <1>7 DEF Ledger

LEMMA LedgerKept ==
  ASSUME GInv, Ledger, [Next]_vars
  PROVE  Ledger'
<1>1. CASE Blinds
  <2>1. "BLIND" \in Acts
    BY DEF Acts
  <2>2. CASE history = <<>> /\ Bet(0, "BLIND", 1)
    <3>1. 1 <= game.chips[0] /\ 0 \in Seats /\ 1 \in Nat
      BY <2>2, Consts DEF GInv, Rules
    <3> QED
      BY <2>1, <2>2, <3>1, BetKeepsLedger
  <2>3. CASE Len(history) = 1 /\ Bet(1, "BLIND", bbSize)
    <3>1. bbSize <= game.chips[1] /\ 1 \in Seats /\ bbSize \in Nat
      BY <2>3, Consts DEF GInv, Rules, bbSize
    <3> QED
      BY <2>1, <2>3, <3>1, BetKeepsLedger
  <2> QED
    BY <1>1, <2>2, <2>3 DEF Blinds
<1>2. CASE \E s \in Seats : Play(s)
  <2>1. PICK s \in Seats : Play(s)
    BY <1>2
  <2>2. PICK b \in Bets(s) : Bet(s, b[1], b[2])
    BY <2>1 DEF Play
  <2>3. b[1] \in Acts /\ b[2] \in Nat /\ b[2] <= game.chips[s]
    BY <2>1, BetsPayable
  <2> DEFINE act == b[1]
             bet == b[2]
  <2>4. Bet(s, act, bet) /\ act \in Acts /\ bet \in Nat /\ bet <= game.chips[s]
    BY <2>2, <2>3
  <2> HIDE DEF act, bet
  <2> QED
    BY <2>4, BetKeepsLedger
<1>3. CASE NextRound
  BY <1>3, RoundKeepsLedger
<1>4. CASE UNCHANGED game
  BY <1>4 DEF Ledger, history
<1>5. ASSUME ~Blinds, ~(\E s \in Seats : Play(s)), ~NextRound
      PROVE  UNCHANGED game
  <2>1. CASE Reject \/ (\E s \in Seats : Request(s)) \/ SetUp \/ Later \/ LinesDone \/ Dealt
    BY <2>1 DEF Reject, Request, SetUp, Later, LinesDone, Dealt
  <2>2. CASE BlindLine \/ AfterTheEnd \/ PlayLine
    BY <2>2 DEF BlindLine, AfterTheEnd, PlayLine, Book
  <2>3. CASE TooShort \/ NoCards \/ Answered \/ Undecided
    BY <2>3 DEF TooShort, NoCards, Answered, Undecided, Drop, Return
  <2>4. CASE UNCHANGED vars
    BY <2>4 DEF vars
  <2> QED
    BY <1>5, <2>1, <2>2, <2>3, <2>4 DEF Next
<1> QED
  BY <1>1, <1>2, <1>3, <1>4, <1>5

\* What the replaced bet adds to the pot, and to the bets of seat s in round r,
\* once the first k lines of h are replayed.
OddPot(h, k) == IF k > OddLine THEN OddBet - h[OddLine + 1].bet ELSE 0
OddPart(h, k, r, s) ==
  IF h[OddLine + 1].pos = s /\ h[OddLine + 1].round = r THEN OddPot(h, k) ELSE 0

\* The figures are a copy of the game's as they were after step lines. When only
\* lines of the present round are left, the bets of this round are what the stacks
\* have lost since it began.
Copied ==
  /\ potSize = PotAfter(game, step) + OddPot(history, step)
  /\ \A s \in Seats : StackAfter(history, s, step, vRemains[Pos(s)])
  /\ \A r \in Rounds : (\A i \in 1 .. step : history[i].round # r)
                         => \A p \in Positions : vBetting[r][p] = 0
  /\ \A r \in Rounds, p \in Positions : (\A s \in Seats : Pos(s) # p) => vBetting[r][p] = 0
  /\ (\A i \in step + 1 .. Len(history) : history[i].round = game.round)
       => \A s \in Seats : vBetting[game.round][Pos(s)] =
            game.chips[s] + game.put[s] - vRemains[Pos(s)] + OddPart(history, step, game.round, s)
  /\ phase \in {"deal", "figures"} /\ isSucceed => step = Len(history)

\* Before the first line.
LEMMA StartCopied ==
  ASSUME GInv, Ledger, step = 0, potSize = 0, phase \in {"idle", "request"},
         \A s \in Seats : vRemains[Pos(s)] = InitChips[s],
         \A r \in Rounds, p \in Positions : vBetting[r][p] = 0
  PROVE  Copied
<1>1. /\ game.chips \in [Seats -> Nat] /\ game.put \in [Seats -> Nat] /\ game.round \in Rounds
      /\ history \in Seq(Line)
  BY DEF GInv, GameType, history
<1>2. Len(history) \in Nat
  BY <1>1
<1>3. OddPot(history, 0) = 0 /\ \A s : OddPart(history, 0, game.round, s) = 0
  BY Consts DEF OddPot, OddPart
<1>4. PotAfter(game, 0) = 0
  BY DEF Ledger
<1>5. \A s \in Seats : StackAfter(history, s, 0, InitChips[s])
  BY DEF StackAfter
<1>6. ASSUME \A i \in 0 + 1 .. Len(history) : history[i].round = game.round, NEW s \in Seats
      PROVE  vBetting[game.round][Pos(s)] =
               game.chips[s] + game.put[s] - vRemains[Pos(s)] + OddPart(history, 0, game.round, s)
  <2>1. StackAfter(history, s, 0, game.chips[s] + game.put[s])
    <3>1. 0 \in 0 .. Len(history) /\ \A i \in 1 .. 0 : history[i].round # game.round
      BY <1>2
    <3> QED
      BY <1>6, <3>1 DEF Ledger
  <2>2. game.chips[s] + game.put[s] = InitChips[s]
    BY <1>5, <2>1, StackUnique
  <2>3. vBetting[game.round][Pos(s)] = 0
    BY <1>1, PosType
  <2> QED
    BY <1>1, <1>3, <2>2, <2>3, Consts
<1> QED
  BY <1>3, <1>4, <1>5, <1>6 DEF Copied

\* One more line is copied.
LEMMA BookCopies ==
  ASSUME GInv, FInv, Ledger, Copied, Book,
         phase' \in {"deal", "figures"} /\ isSucceed' => step' = Len(history)
  PROVE  Copied'
<1> DEFINE p == newPos
           b == his_bet
           l == line
           now == game.round
<1>1. /\ phase = "lines" /\ step < Len(history) /\ step' = step + 1
      /\ potSize' = potSize + b
      /\ vRemains' = [vRemains EXCEPT ![p] = l.chips]
      /\ vBetting' = [vBetting EXCEPT ![l.round][p] = vBetting[l.round][p] + b]
      /\ game' = game /\ history' = history
  BY DEF Book, beted, history
<1>2. /\ l = history[step + 1] /\ step + 1 \in 1 .. Len(history)
      /\ step \in Nat /\ Len(history) \in Nat
      /\ l.pos \in Seats /\ l.round \in Rounds /\ l.chips \in Nat /\ l.bet \in Nat
      /\ p \in Positions /\ b \in Nat /\ p = Pos(l.pos)
  BY <1>1, LineType DEF newPos
<1>3. /\ potSize \in Nat /\ vRemains \in [Positions -> Nat]
      /\ vBetting \in [Rounds -> [Positions -> Nat]] /\ now \in Rounds
      /\ game.chips \in [Seats -> Nat] /\ game.put \in [Seats -> Nat]
  BY DEF FInv, TypeOK, GInv, GameType
<1>4. \A s \in Seats : Pos(s) \in Positions /\ (Pos(s) = p <=> s = l.pos)
  BY <1>2, PosType
<1>5. OddPot(history, step) + b = l.bet + OddPot(history, step + 1)
      /\ OddPot(history, step) \in Int /\ OddPot(history, step + 1) \in Int
  <2>1. b = IF step = OddLine THEN OddBet ELSE l.bet
    BY DEF b, his_bet, l
  <2>2. OddLine \in Nat /\ OddBet \in Nat
    BY Consts
  <2>3. step > OddLine => history[OddLine + 1].bet \in Nat
    <3> SUFFICES ASSUME step > OddLine PROVE history[OddLine + 1].bet \in Nat
      OBVIOUS
    <3>1. OddLine + 1 \in 1 .. Len(history)
      BY <1>1, <1>2, <2>2
    <3> QED
      BY <3>1, HistoryType
  <2>4. CASE step = OddLine
    BY <1>2, <2>1, <2>2, <2>4 DEF OddPot
  <2>5. CASE step # OddLine
    BY <1>2, <2>1, <2>2, <2>3, <2>5 DEF OddPot
  <2> QED
    BY <2>4, <2>5
<1> HIDE DEF p, b, l, now
<1>6. /\ \A s \in Seats : vRemains'[Pos(s)] = IF s = l.pos THEN l.chips ELSE vRemains[Pos(s)]
      /\ \A r \in Rounds, q \in Positions :
           vBetting'[r][q] = IF r = l.round /\ q = p THEN vBetting[r][q] + b ELSE vBetting[r][q]
  BY <1>1, <1>2, <1>3, <1>4
<1>7. vRemains[p] = l.chips + l.bet
  <2>1. StackAfter(history, l.pos, step, vRemains[p])
    BY <1>2 DEF Copied
  <2>2. StackAfter(history, l.pos, (step + 1) - 1, l.chips + l.bet)
    BY <1>2 DEF Ledger
  <2>3. (step + 1) - 1 = step
    BY <1>2
  <2> QED
    BY <1>2, <2>1, <2>2, <2>3, StackUnique
<1>8. potSize' = PotAfter(game, step + 1) + OddPot(history, step + 1)
  <2>1. PotAfter(game, step + 1) = PotAfter(game, step) + l.bet
    <3>1. PotAfter(game, step + 1) = PotAfter(game, (step + 1) - 1) + history[step + 1].bet
      BY <1>2 DEF Ledger
    <3>2. (step + 1) - 1 = step
      BY <1>2
    <3> QED
      BY <1>2, <3>1, <3>2
  <2>2. potSize = PotAfter(game, step) + OddPot(history, step)
    BY DEF Copied
  <2>3. PotAfter(game, step) \in Nat
    <3>1. step \in 0 .. Len(history) /\ step # Len(history)
      BY <1>1, <1>2
    <3>2. game.history = history
      BY DEF history
    <3>3. PotAfter(game, step) = l.pot
      BY <1>2, <3>1, <3>2 DEF PotAfter
    <3>4. l.pot \in Nat
      BY <1>1, LineType DEF l, Line
    <3> QED
      BY <3>3, <3>4
  <2>4. potSize' = potSize + b /\ b \in Nat /\ l.bet \in Nat
    BY <1>1, <1>2
  <2> QED
    <3> DEFINE before == PotAfter(game, step)  after == PotAfter(game, step + 1)
               odd == OddPot(history, step)  odds == OddPot(history, step + 1)
    <3>1. /\ odd + b = l.bet + odds /\ odd \in Int /\ odds \in Int
          /\ after = before + l.bet /\ potSize = before + odd /\ before \in Nat
          /\ potSize' = potSize + b /\ b \in Nat /\ l.bet \in Nat
      BY <1>5, <2>1, <2>2, <2>3, <2>4
    <3> HIDE DEF before, after, odd, odds
    <3>2. potSize' = after + odds
      BY ONLY <3>1
    <3> QED
      BY <3>2 DEF after, odds
<1>9. \A s \in Seats : StackAfter(history, s, step + 1, vRemains'[Pos(s)])
  <2> TAKE s \in Seats
  <2>1. CASE s = l.pos
    BY <1>2, <1>6, <2>1, StackOwn
  <2>2. CASE s # l.pos
    <3>1. StackAfter(history, s, step, vRemains[Pos(s)]) /\ history[step + 1].pos # s
      BY <1>2, <2>2 DEF Copied
    <3> QED
      BY <1>2, <1>6, <2>2, <3>1, StackOther
  <2> QED
    BY <2>1, <2>2
<1>10. ASSUME NEW r \in Rounds, \A i \in 1 .. step + 1 : history[i].round # r, NEW q \in Positions
       PROVE  vBetting'[r][q] = 0
  <2>1. \A i \in 1 .. step : history[i].round # r
    BY <1>2, <1>10
  <2>2. r # l.round
    BY <1>2, <1>10
  <2> QED
    BY <1>6, <2>1, <2>2 DEF Copied
<1>11. ASSUME NEW r \in Rounds, NEW q \in Positions, \A s \in Seats : Pos(s) # q
       PROVE  vBetting'[r][q] = 0
  <2>1. q # p
    BY <1>2, <1>11
  <2> QED
    BY <1>6, <1>11, <2>1 DEF Copied
<1>12. ASSUME \A i \in (step + 1) + 1 .. Len(history) : history[i].round = now, NEW s \in Seats
       PROVE  vBetting'[now][Pos(s)] =
                game.chips[s] + game.put[s] - vRemains'[Pos(s)] + OddPart(history, step + 1, now, s)
  <2>1. CASE l.round = now
    <3>1. \A i \in step + 1 .. Len(history) : history[i].round = now
      <4>1. \A i \in step + 1 .. Len(history) : i = step + 1 \/ i \in (step + 1) + 1 .. Len(history)
        BY <1>2
      <4> QED
        BY <1>2, <1>12, <2>1, <4>1
    <3>2. vBetting[now][Pos(s)] =
            game.chips[s] + game.put[s] - vRemains[Pos(s)] + OddPart(history, step, now, s)
      BY <3>1 DEF Copied, now
    <3>3. CASE s = l.pos
      <4>1. OddPart(history, step, now, s) + b = l.bet + OddPart(history, step + 1, now, s)
            /\ OddPart(history, step, now, s) \in Int /\ OddPart(history, step + 1, now, s) \in Int
        <5>1. CASE history[OddLine + 1].pos = s /\ history[OddLine + 1].round = now
          BY <1>5, <5>1 DEF OddPart
        <5>2. CASE ~(history[OddLine + 1].pos = s /\ history[OddLine + 1].round = now)
          <6>1. step # OddLine
            BY <1>2, <2>1, <3>3, <5>2
          <6>2. b = l.bet
            BY <6>1 DEF b, his_bet, l
          <6> QED
            BY <1>2, <5>2, <6>2 DEF OddPart
        <5> QED
          BY <5>1, <5>2
      <4>2. vBetting'[now][Pos(s)] = vBetting[now][Pos(s)] + b /\ vRemains'[Pos(s)] = l.chips
            /\ vRemains[Pos(s)] = l.chips + l.bet
        BY <1>2, <1>3, <1>4, <1>6, <1>7, <2>1, <3>3
      <4>3. game.chips[s] \in Nat /\ game.put[s] \in Nat /\ l.chips \in Nat /\ l.bet \in Nat
            /\ b \in Nat
        BY <1>2, <1>3
      <4> QED
        BY ONLY <3>2, <4>1, <4>2, <4>3
    <3>4. CASE s # l.pos
      <4>1. vBetting'[now][Pos(s)] = vBetting[now][Pos(s)] /\ vRemains'[Pos(s)] = vRemains[Pos(s)]
        BY <1>3, <1>4, <1>6, <3>4
      <4>2. OddPart(history, step + 1, now, s) = OddPart(history, step, now, s)
        <5>1. step = OddLine => history[OddLine + 1].pos # s
          BY <1>2, <3>4
        <5>2. step # OddLine => (step > OddLine <=> step + 1 > OddLine)
          BY <1>2, Consts
        <5> QED
          BY <1>2, <5>1, <5>2 DEF OddPart, OddPot
      <4> QED
        BY <3>2, <4>1, <4>2
    <3> QED
      BY <3>3, <3>4
  <2>2. CASE l.round # now
    <3>1. l.round < now
      <4>1. l.round <= now
        BY <1>2 DEF Ledger, now
      <4> QED
        <5>1. l.round \in Nat /\ now \in Nat
          BY <1>2, <1>3, Consts
        <5> QED
          BY ONLY <2>2, <4>1, <5>1
    <3>2. \A i \in 1 .. step + 1 : history[i].round # now
      <4> TAKE i \in 1 .. step + 1
      <4>1. i \in 1 .. Len(history) /\ i <= step + 1
        BY <1>2
      <4>2. history[i].round <= history[step + 1].round
        BY <1>2, <4>1 DEF Ledger
      <4>3. history[i].round \in Nat /\ l.round \in Nat /\ now \in Nat
        BY <1>2, <1>3, <4>1, HistoryType, Consts
      <4> QED
        BY <1>2, <3>1, <4>2, <4>3
    <3>3. StackAfter(history, s, step + 1, game.chips[s] + game.put[s])
      <4>1. step + 1 \in 0 .. Len(history)
        BY <1>2
      <4> QED
        BY <1>12, <3>2, <4>1 DEF Ledger, now
    <3>4. vRemains'[Pos(s)] = game.chips[s] + game.put[s]
      BY <1>2, <1>9, <3>3, StackUnique
    <3>5. vBetting'[now][Pos(s)] = 0
      BY <1>3, <1>4, <1>10, <3>2
    <3>6. OddPart(history, step + 1, now, s) = 0
      <4>1. CASE step + 1 > OddLine
        <5>1. OddLine + 1 \in 1 .. step + 1
          BY <1>2, <4>1, Consts
        <5> QED
          BY <3>2, <5>1 DEF OddPart
      <4>2. CASE ~(step + 1 > OddLine)
        BY <4>2 DEF OddPart, OddPot
      <4> QED
        BY <4>1, <4>2
    <3> QED
      BY <1>3, <3>4, <3>5, <3>6
  <2> QED
    BY <2>1, <2>2
<1> QED
  <2>1. /\ potSize' = PotAfter(game', step') + OddPot(history', step')
        /\ \A s \in Seats : StackAfter(history', s, step', vRemains'[Pos(s)])
        /\ \A r \in Rounds : (\A i \in 1 .. step' : history'[i].round # r)
                               => \A q \in Positions : vBetting'[r][q] = 0
        /\ \A r \in Rounds, q \in Positions : (\A s \in Seats : Pos(s) # q) => vBetting'[r][q] = 0
    BY <1>1, <1>8, <1>9, <1>10, <1>11
  <2>2. (\A i \in step' + 1 .. Len(history') : history'[i].round = game'.round)
          => \A s \in Seats : vBetting'[game'.round][Pos(s)] =
               game'.chips[s] + game'.put[s] - vRemains'[Pos(s)]
                 + OddPart(history', step', game'.round, s)
    BY <1>1, <1>12 DEF now
  <2> QED
    BY <1>1, <2>1, <2>2 DEF Copied, Pos

\* The steps that leave the figures and the game.
LEMMA SameCopied ==
  ASSUME Copied, UNCHANGED <<game, potSize, vRemains, vBetting, step, isSucceed>>,
         phase' \in {"deal", "figures"} /\ isSucceed => step = Len(history)
  PROVE  Copied'
<1>1. history' = history
  BY DEF history
<1> QED
  BY <1>1 DEF Copied, Pos

LEMMA FreshCopied ==
  ASSUME GInv, Ledger, FreshCall
  PROVE  Copied
<1>1. \A s \in Seats : vRemains[Pos(s)] = InitChips[s]
  <2> TAKE s \in Seats
  <2>1. Pos(s) \in Positions
    BY PosType
  <2> QED
    BY <2>1, FreshStacks DEF FreshCall
<1>2. \A r \in Rounds, p \in Positions : vBetting[r][p] = 0
  BY DEF FreshCall, NoBets
<1> QED
  BY <1>1, <1>2, StartCopied DEF FreshCall

LEMMA OutsideCopies ==
  ASSUME GInv, FInv, Ledger, Copied, GInv', Ledger', phase = "idle",
         UNCHANGED <<phase, figures>>
  PROVE  Copied'
<1>1. step = 0 /\ step' = 0 /\ phase' = "idle"
  BY DEF FInv, Phases, figures
<1>2. potSize' = PotAfter(game, 0) + OddPot(history, 0)
  BY <1>1 DEF Copied, figures
<1>3. potSize' = 0
  <2>1. PotAfter(game, 0) = 0
    BY DEF Ledger
  <2>2. OddPot(history, 0) = 0
    BY Consts DEF OddPot
  <2> QED
    BY <1>2, <2>1, <2>2
<1>4. \A s \in Seats : vRemains'[Pos(s)] = InitChips[s]
  BY <1>1 DEF Copied, figures, StackAfter
<1>5. \A r \in Rounds, p \in Positions : vBetting'[r][p] = 0
  BY <1>1 DEF Copied, figures
<1>6. (GInv /\ Ledger /\ step = 0 /\ potSize = 0 /\ phase \in {"idle", "request"}
       /\ (\A s \in Seats : vRemains[Pos(s)] = InitChips[s])
       /\ (\A r \in Rounds, p \in Positions : vBetting[r][p] = 0) => Copied)'
  BY StartCopied, PTL
<1> QED
  BY <1>1, <1>3, <1>4, <1>5, <1>6 DEF Pos

LEMMA CopiedKept ==
  ASSUME GInv, FInv, Ledger, Copied, GInv', Ledger', [Next]_vars
  PROVE  Copied'
<1>1. CASE Blinds \/ (\E s \in Seats : Play(s)) \/ NextRound \/ Reject
  <2>1. phase = "idle" /\ UNCHANGED <<phase, figures>>
    BY <1>1 DEF Blinds, Play, Bet, NextRound, Reject
  <2> QED
    BY <2>1, OutsideCopies
<1>2. CASE (\E s \in Seats : Request(s)) \/ SetUp \/ Later \/ LinesDone \/ Dealt
  <2>1. UNCHANGED <<game, potSize, vRemains, vBetting, step, isSucceed>>
    BY <1>2 DEF Request, SetUp, Later, LinesDone, Dealt, figures
  <2>2. phase' \in {"deal", "figures"} => step = Len(history) \/ phase = "deal"
    BY <1>2 DEF Request, SetUp, Later, LinesDone, Dealt
  <2>3. phase' \in {"deal", "figures"} /\ isSucceed => step = Len(history)
    BY <2>2 DEF Copied
  <2> QED
    BY <2>1, <2>3, SameCopied
<1>3. CASE BlindLine \/ AfterTheEnd \/ PlayLine
  <2>1. Book
    BY <1>3 DEF BlindLine, AfterTheEnd, PlayLine
  <2>2. phase' \in {"deal", "figures"} => ~isSucceed'
    <3>1. CASE BlindLine
      BY <2>1, <3>1 DEF BlindLine, Book
    <3>2. CASE AfterTheEnd
      BY <3>2 DEF AfterTheEnd
    <3>3. CASE PlayLine
      BY <2>1, <3>3 DEF PlayLine, UpdateRange, Book
    <3> QED
      BY <1>3, <3>1, <3>2, <3>3
  <2> QED
    BY <2>1, <2>2, BookCopies
<1>4. CASE TooShort \/ NoCards \/ Answered \/ Undecided
  <2>1. Return
    BY <1>4 DEF TooShort, NoCards, Answered, Undecided, Drop
  <2>2. FreshCall'
    BY <2>1 DEF Return, FreshCall, FreshRemains, NoBets, Pos, FInv, TypeOK
  <2>3. (GInv /\ Ledger /\ FreshCall => Copied)'
    BY FreshCopied, PTL
  <2> QED
    BY <2>2, <2>3
<1>5. CASE UNCHANGED vars
  <2>1. UNCHANGED <<game, potSize, vRemains, vBetting, step, isSucceed>> /\ UNCHANGED phase
    BY <1>5 DEF vars, figures
  <2>2. phase' \in {"deal", "figures"} /\ isSucceed => step = Len(history)
    BY <2>1 DEF Copied
  <2> QED
    BY <2>1, <2>2, SameCopied
<1> QED
  BY <1>1, <1>2, <1>3, <1>4, <1>5 DEF Next

LEMMA InitCopied ==
  ASSUME Init
  PROVE  Ledger /\ Copied
<1>1. history = <<>> /\ Len(history) = 0 /\ game.history = <<>> /\ game.pot = 0
      /\ game.chips = InitChips /\ game.put = [s \in Seats |-> 0]
      /\ game.high = 0
  BY DEF Init, history
<1>2. Ledger
  <2>1. PotAfter(game, 0) = 0
    BY <1>1 DEF PotAfter
  <2>2. \A s \in Seats : game.chips[s] = InitChips[s] /\ game.chips[s] + game.put[s] = InitChips[s]
    BY <1>1, Consts
  <2>3. \A s \in Seats, k \in 0 .. 0 : StackAfter(history, s, k, InitChips[s])
    BY DEF StackAfter
  <2> QED
    BY <1>1, <2>1, <2>2, <2>3 DEF Ledger
<1>3. GInv /\ FreshCall
  BY InitGInv, Consts DEF Init, FreshCall
<1> QED
  BY <1>2, <1>3, FreshCopied

\* With all lines copied, the figures are the game's.
LEMMA CopiedAgrees ==
  ASSUME GInv, FInv, Ledger, Copied
  PROVE  TableAgrees
<1> SUFFICES ASSUME phase = "figures", isSucceed
             PROVE  /\ potSize = game.pot + Shift
                    /\ \A s \in Seats : /\ vRemains[Pos(s)] = game.chips[s]
                                        /\ vBetting[game.round][Pos(s)] = game.put[s] + ShiftOf(s)
                    /\ \E s \in Able : /\ Pos(s) = turnIndex
                                       /\ Len(history) <= OddLine => table.callSize = ToCall(s)
  BY DEF TableAgrees
<1> DEFINE now == game.round
           n == Len(history)
<1>1. step = n /\ n \in Nat
  BY HistoryType DEF Copied
<1>2. /\ game.chips \in [Seats -> Nat] /\ game.put \in [Seats -> Nat] /\ now \in Rounds
      /\ game.high \in Nat /\ game.pot \in Nat
      /\ vRoundBet \in [Rounds -> Nat] /\ vBetting \in [Rounds -> [Positions -> Nat]]
  BY DEF GInv, GameType, FInv, TypeOK
<1>3. Shift = OddPot(history, n) /\ \A s : ShiftOf(s) = OddPart(history, n, now, s)
  BY DEF Shift, ShiftOf, OddPot, OddPart
<1>4. potSize = game.pot + Shift
  <2>1. PotAfter(game, n) = game.pot
    BY DEF PotAfter, history
  <2> QED
    BY <1>1, <1>3, <2>1 DEF Copied
<1>5. \A s \in Seats : vRemains[Pos(s)] = game.chips[s]
  <2> TAKE s \in Seats
  <2>1. StackAfter(history, s, n, vRemains[Pos(s)]) /\ StackAfter(history, s, n, game.chips[s])
    BY <1>1 DEF Copied, Ledger
  <2> QED
    BY <1>1, <2>1, StackUnique
<1>6. \A s : ShiftOf(s) \in Int /\ (n <= OddLine => ShiftOf(s) = 0)
  <2> TAKE s
  <2>1. OddLine \in Nat /\ OddBet \in Nat
    BY Consts
  <2>2. CASE n > OddLine
    <3>1. OddLine + 1 \in 1 .. n
      BY <1>1, <2>1, <2>2
    <3>2. history[OddLine + 1].bet \in Nat
      BY <3>1, HistoryType
    <3> QED
      BY <1>1, <2>1, <2>2, <3>2 DEF ShiftOf, Shift
  <2>3. CASE ~(n > OddLine)
    BY <1>1, <2>1, <2>3 DEF ShiftOf, Shift
  <2> QED
    BY <2>2, <2>3
<1>7. \A s \in Seats : vBetting[now][Pos(s)] = game.put[s] + ShiftOf(s)
  <2> TAKE s \in Seats
  <2>1. \A i \in n + 1 .. n : FALSE
    BY <1>1
  <2>2. vBetting[now][Pos(s)] =
          game.chips[s] + game.put[s] - vRemains[Pos(s)] + OddPart(history, n, now, s)
    BY <1>1, <2>1 DEF Copied
  <2>3. game.chips[s] \in Nat /\ game.put[s] \in Nat
    BY <1>2
  <2> QED
    BY <1>3, <1>5, <1>6, <2>2, <2>3
<1>8. PICK s \in Able : turnIndex = Pos(s)
  BY DEF FInv, Phases
<1>9. ASSUME n <= OddLine
      PROVE  table.callSize = ToCall(s)
  <2>1. \A t \in Seats : vBetting[now][Pos(t)] = game.put[t] /\ game.put[t] \in Nat
    BY <1>2, <1>6, <1>7, <1>9
  <2>2. s \in Seats
    BY DEF Able, Live
  <2>3. vRoundBet[now] = game.high
    <3>1. /\ \A p \in Positions : vBetting[now][p] <= vRoundBet[now]
          /\ vRoundBet[now] = 0 \/ \E p \in Positions : vBetting[now][p] = vRoundBet[now]
      BY <1>2 DEF FInv, Sums
    <3>2. /\ \A t \in Seats : game.put[t] <= game.high
          /\ game.high = 0 \/ \E t \in Seats : game.put[t] = game.high
      BY DEF GInv, Rules, Ledger
    <3>3. vRoundBet[now] \in Nat /\ game.high \in Nat
      BY <1>2
    <3>4. game.high <= vRoundBet[now]
      <4>1. CASE game.high = 0
        BY <3>3, <4>1
      <4>2. CASE game.high # 0
        <5>1. PICK t \in Seats : game.put[t] = game.high
          BY <3>2, <4>2
        <5> QED
          BY <2>1, <3>1, <5>1, PosType
      <4> QED
        BY <4>1, <4>2
    <3>5. vRoundBet[now] <= game.high
      <4>1. CASE vRoundBet[now] = 0
        BY <3>3, <4>1
      <4>2. CASE vRoundBet[now] # 0
        <5>1. PICK p \in Positions : vBetting[now][p] = vRoundBet[now]
          BY <3>1, <4>2
        <5>2. PICK t \in Seats : Pos(t) = p
          BY <1>2, <4>2, <5>1 DEF Copied
        <5> QED
          BY <2>1, <3>2, <5>1, <5>2
      <4> QED
        BY <4>1, <4>2
    <3> QED
      BY <3>3, <3>4, <3>5
  <2>4. table.callSize = vRoundBet[now] - vBetting[now][turnIndex]
    BY DEF table
  <2> QED
    BY <1>8, <2>1, <2>2, <2>3, <2>4 DEF ToCall
<1> QED
  BY <1>4, <1>5, <1>7, <1>8, <1>9

\* A replay that succeeds copies the game: pot, stacks, bets and call are the
\* game's, whatever rounds, folds and orders of the seats led there, but for the
\* one bet the code replaces.
THEOREM ReplayCopiesTheGame == Spec => []TableAgrees
<1>1. Init => GInv /\ FInv /\ Ledger /\ Copied
  BY InitInv, InitCopied
<1>2. GInv /\ FInv /\ Ledger /\ Copied /\ [Next]_vars => GInv' /\ FInv' /\ Ledger' /\ Copied'
  BY NextKeepsFigures, LedgerKept, CopiedKept
<1>3. GInv /\ FInv /\ Ledger /\ Copied => TableAgrees
  BY CopiedAgrees
<1> QED
  BY <1>1, <1>2, <1>3, PTL DEF Spec

-----------------------------------------------------------------------------
\* Integer division.
LEMMA DivBounds ==
  ASSUME NEW y \in Nat, NEW x \in Nat, x > 0
  PROVE  /\ y \div x \in Int /\ (y \div x) * x <= y /\ y < ((y \div x) + 1) * x
OBVIOUS

\* A share of a pot, taken back to hundredths of the pot, is near to what it was;
\* three quarters of a pot of 5 are the exception.
LEMMA ShareBack ==
  ASSUME NEW x \in Nat, NEW s \in Nat, s >= 2, NEW f \in Int,
         f * x <= 100 * s, 100 * s < (f + 1) * x
  PROVE  /\ s = (x * 50) \div 100 => f >= 25 /\ f <= 50
         /\ s = (x * 75) \div 100 /\ x # 5 => f >= 63 /\ f <= 75
         /\ s = (x * 100) \div 100 => f = 100
<1>1. s = (x * 50) \div 100 => f >= 25 /\ f <= 50
  OBVIOUS
<1>2. s = (x * 75) \div 100 /\ x # 5 => f >= 63 /\ f <= 75
  OBVIOUS
<1>3. s = (x * 100) \div 100 => f = 100
  OBVIOUS
<1> QED
  BY <1>1, <1>2, <1>3

\* What the hundredths are taken for.
LEMMA PotActionOf ==
  ASSUME NEW f \in Int
  PROVE  /\ f >= 25 /\ f <= 50 => PotAction(f) = "RAISE2"
         /\ f >= 63 /\ f <= 75 => PotAction(f) = "RAISE3"
         /\ f = 100 => PotAction(f) = "RAISE4"
<1> DEFINE t1 == Nearer(f, PotSizes, 1, 2)
           t2 == Nearer(f, PotSizes, t1, 3)
           t3 == Nearer(f, PotSizes, t2, 4)
<1>1. PotSizes[1] = 0 /\ PotSizes[2] = 50 /\ PotSizes[3] = 75 /\ PotSizes[4] = 100
  BY DEF PotSizes
<1>2. PotActions[2] = "RAISE2" /\ PotActions[3] = "RAISE3" /\ PotActions[4] = "RAISE4"
  BY DEF PotActions
<1>3. PotAction(f) = PotActions[t3]
  BY DEF PotAction
<1>4. f >= 25 => t1 = 2
  BY <1>1 DEF Nearer, Distance
<1> HIDE DEF t1
<1>5. t1 = 2 => (f <= 50 => t2 = 2) /\ (f >= 63 => t2 = 3)
  BY <1>1 DEF Nearer, Distance
<1> HIDE DEF t2
<1>6. /\ t2 = 2 /\ f <= 50 => t3 = 2
      /\ t2 = 3 /\ f <= 75 => t3 = 3
      /\ t2 = 3 /\ f = 100 => t3 = 4
  BY <1>1 DEF Nearer, Distance
<1> HIDE DEF t3
<1> QED
  BY <1>2, <1>3, <1>4, <1>5, <1>6

\* A raise of the decision's own sizes is named as it was.
LEMMA OwnRaiseNamed ==
  ASSUME realRaise \in {0, 1}, NEW pot \in Nat, NEW call \in Nat, NEW a \in Raises \ {"RAISE1"},
         NEW bet,
         pot + (IF realRaise = 0 THEN 0 ELSE call) # 5,
         ShareOf(pot, call, realRaise, a) >= bbSize,
         bet = BetOf(ShareOf(pot, call, realRaise, a), call, realRaise)
  PROVE  PotAction(Factor(bet, call, pot)) = a
<1> DEFINE x == pot + (IF realRaise = 0 THEN 0 ELSE call)
           s == ShareOf(pot, call, realRaise, a)
           f == (s * 100) \div x
<1>1. x \in Nat /\ x # 5
  OBVIOUS
<1>2. s = (x * Percent[a]) \div 100
  BY DEF ShareOf
<1>3. /\ a \in {"RAISE2", "RAISE3", "RAISE4"}
      /\ Percent[a] = IF a = "RAISE2" THEN 50 ELSE IF a = "RAISE3" THEN 75 ELSE 100
  BY DEF Raises, Percent
<1>4. Percent[a] \in {33, 50, 75, 100}
  BY <1>3
<1> HIDE DEF x
<1>5. s \in Nat
  BY <1>1, <1>2, <1>4, PotShareNat
<1>6. s >= 2
  BY DEF bbSize
<1> HIDE DEF s
<1>7. x > 0
  <2>1. x = 0 => (x * Percent[a]) \div 100 = 0
    BY <1>4
  <2> QED
    BY <1>1, <1>2, <1>6, <2>1
<1>8. Factor(bet, call, pot) = f
  <2>1. bet = s + (IF realRaise = 1 THEN call ELSE 0)
    BY <1>5, <1>6 DEF BetOf, bbSize, s
  <2>2. CASE realRaise = 0
    <3>1. bet * 100 = s * 100 /\ x = pot
      BY <1>5, <2>1, <2>2 DEF x
    <3> QED
      BY <1>5, <2>2, <3>1 DEF Factor, Quotient
  <2>3. CASE realRaise = 1
    <3>1. (bet - call) * 100 = s * 100 /\ x = pot + call
      BY <1>5, <2>1, <2>3 DEF x
    <3> QED
      BY <1>5, <2>3, <3>1 DEF Factor, Quotient
  <2> QED
    BY <2>2, <2>3
<1>9. f \in Int /\ f * x <= 100 * s /\ 100 * s < (f + 1) * x
  <2>1. s * 100 \in Nat /\ s * 100 = 100 * s
    BY <1>5
  <2>2. (s * 100) \div x \in Int /\ ((s * 100) \div x) * x <= s * 100
        /\ s * 100 < (((s * 100) \div x) + 1) * x
    BY <1>1, <1>7, <2>1, DivBounds
  <2> QED
    BY <2>1, <2>2
<1> HIDE DEF f
<1>10. /\ s = (x * 50) \div 100 => f >= 25 /\ f <= 50
       /\ s = (x * 75) \div 100 /\ x # 5 => f >= 63 /\ f <= 75
       /\ s = (x * 100) \div 100 => f = 100
  BY <1>1, <1>5, <1>6, <1>9, ShareBack
<1>11. PotAction(f) = a
  <2>1. CASE a = "RAISE2"
    BY <1>2, <1>3, <1>9, <1>10, <2>1, PotActionOf
  <2>2. CASE a = "RAISE3"
    BY <1>1, <1>2, <1>3, <1>9, <1>10, <2>2, PotActionOf
  <2>3. CASE a = "RAISE4"
    BY <1>2, <1>3, <1>9, <1>10, <2>3, PotActionOf
  <2> QED
    BY <1>3, <2>1, <2>2, <2>3
<1> QED
  BY <1>8, <1>11

\* The command of the last line, when it was a raise by a share of the pot.
RaiseNamed ==
  step > 2 /\ step # OddLine + 1 /\ phase = "lines" /\ history[step].act = "RAISE"
  /\ (history[step].round > 0 \/ preflopRaises > 1)
    => action = PotAction(Factor(history[step].bet, callSize, history[step].pot))

RInv == RaiseNamed /\ (phase = "request" => step = 0)

LEMMA PlayLineNames ==
  ASSUME GInv, FInv, PlayLine
  PROVE  RaiseNamed'
<1>1. Book /\ step > 1 /\ phase = "lines" /\ step < Len(history) /\ step' = step + 1
      /\ history' = history
  BY DEF PlayLine, Book, bbPos, history
<1>2. line = history[step + 1] /\ step \in Nat /\ line.round \in Rounds
  BY <1>1, LineType
<1>3. line.round \in Nat /\ preflopRaises \in Nat
  BY <1>2, Consts DEF FInv, TypeOK
<1>4. action' = Command
  BY DEF PlayLine
<1>9. realRaise' = realRaise
  BY <1>1 DEF Book
<1> DEFINE l == history'[step']
           f == IF realRaise' = 0 THEN Quotient(l.bet * 100, l.pot)
                ELSE Quotient((l.bet - callSize') * 100, l.pot + callSize')
<1>10. RaiseNamed' =
         (step' > 2 /\ step' # OddLine + 1 /\ phase' = "lines" /\ l.act = "RAISE"
          /\ (l.round > 0 \/ preflopRaises' > 1) => action' = PotAction(f))
  BY DEF RaiseNamed, PotAction, Nearer, Factor, PotSizes, PotActions, Distance, Quotient
<1> SUFFICES ASSUME step' # OddLine + 1, l.act = "RAISE", l.round > 0 \/ preflopRaises' > 1
             PROVE  action' = PotAction(f)
  BY <1>10
<1>5. l = line
  BY <1>1, <1>2
<1>6. ~Unraised
  <2>1. CASE line.round > 0
    BY <1>3, <2>1 DEF Unraised
  <2>2. CASE preflopRaises' > 1
    <3>1. preflopRaises' = preflopRaises + 1 \/ preflopRaises' = preflopRaises
      BY <1>3 DEF PlayLine
    <3>2. preflopRaises > 0
      BY <1>3, <2>2, <3>1
    <3> QED
      BY <3>2 DEF Unraised
  <2> QED
    BY <1>5, <2>1, <2>2
<1>7. his_bet = line.bet
  <2>1. step # OddLine
    BY <1>1, <1>2
  <2> QED
    BY <2>1 DEF his_bet
<1>8. Command = PotAction(Factor(line.bet, callSize', line.pot))
  BY <1>5, <1>6, <1>7 DEF Command
<1> QED
  BY <1>4, <1>5, <1>8, <1>9 DEF Factor

LEMMA NamesKept ==
  ASSUME GInv, FInv, RInv, [Next]_vars
  PROVE  RInv'
<1>0. UNCHANGED <<history, realRaise, phase, step, action, callSize, preflopRaises>> => RInv'
  <2> SUFFICES ASSUME UNCHANGED <<history, realRaise, phase, step, action, callSize, preflopRaises>>
               PROVE  RInv'
    OBVIOUS
  <2> DEFINE F(real, l, call) == IF real = 0 THEN Quotient(l.bet * 100, l.pot)
                                 ELSE Quotient((l.bet - call) * 100, l.pot + call)
  <2>1. RaiseNamed =
          (step > 2 /\ step # OddLine + 1 /\ phase = "lines" /\ history[step].act = "RAISE"
           /\ (history[step].round > 0 \/ preflopRaises > 1)
             => action = PotAction(F(realRaise, history[step], callSize)))
    BY DEF RaiseNamed, Factor
  <2>2. RaiseNamed' =
          (step' > 2 /\ step' # OddLine + 1 /\ phase' = "lines" /\ history'[step'].act = "RAISE"
           /\ (history'[step'].round > 0 \/ preflopRaises' > 1)
             => action' = PotAction(F(realRaise', history'[step'], callSize')))
    BY DEF RaiseNamed, PotAction, Nearer, Factor, PotSizes, PotActions, Distance, Quotient
  <2> HIDE DEF F
  <2>3. RaiseNamed' = RaiseNamed
    BY <2>1, <2>2
  <2> QED
    BY <2>3 DEF RInv
<1>1. CASE Blinds \/ (\E s \in Seats : Play(s)) \/ NextRound \/ Reject
  <2>1. phase' = "idle"
    BY <1>1 DEF Blinds, Play, Bet, NextRound, Reject
  <2> QED
    BY <2>1 DEF RInv, RaiseNamed
<1>2. CASE \E s \in Seats : Request(s)
  <2>1. phase' = "request" /\ step' = 0
    BY <1>2 DEF Request, FInv, Phases
  <2> QED
    BY <2>1 DEF RInv, RaiseNamed
<1>3. CASE SetUp \/ Later
  <2>1. phase' \in {"lines", "crashed"} /\ step' = 0
    BY <1>3 DEF SetUp, Later, figures, RInv
  <2> QED
    BY <2>1 DEF RInv, RaiseNamed
<1>4. CASE LinesDone \/ Dealt \/ AfterTheEnd
  <2>1. phase' \in {"deal", "figures"}
    BY <1>4 DEF LinesDone, Dealt, AfterTheEnd
  <2> QED
    BY <2>1 DEF RInv, RaiseNamed
<1>5. CASE BlindLine
  <2>1. Book /\ phase' = "lines" /\ step' = step + 1 /\ step <= 1
    BY <1>5 DEF BlindLine, Book, bbPos
  <2>2. step \in Nat
    BY <2>1, LineType DEF Book
  <2>3. ~(step' > 2)
    BY <2>1, <2>2
  <2> QED
    BY <2>1, <2>3 DEF RInv, RaiseNamed
<1>6. CASE PlayLine
  <2>1. phase' # "request"
    <3>1. phase = "lines"
      BY <1>6 DEF PlayLine, Book
    <3> QED
      BY <1>6, <3>1 DEF PlayLine, UpdateRange
  <2> QED
    BY <1>6, <2>1, PlayLineNames DEF RInv
<1>7. CASE TooShort \/ NoCards \/ Answered \/ Undecided
  <2>1. phase' = "idle"
    BY <1>7 DEF TooShort, NoCards, Answered, Undecided, Drop, Return
  <2> QED
    BY <2>1 DEF RInv, RaiseNamed
<1>8. CASE UNCHANGED vars
  <2>1. UNCHANGED <<history, realRaise, phase, step, action, callSize, preflopRaises>>
    BY <1>8 DEF vars, figures, history
  <2> QED
    BY <1>0, <2>1
<1> QED
  BY <1>1, <1>2, <1>3, <1>4, <1>5, <1>6, <1>7, <1>8 DEF Next

LEMMA NamesAreOwn == GInv /\ FInv /\ RInv => OwnRaiseRecovered
<1> SUFFICES ASSUME GInv, FInv, RInv,
                    step > 2, step # OddLine + 1, phase = "lines", history[step].act = "RAISE",
                    history[step].round > 0 \/ preflopRaises > 1,
                    NEW a \in OwnRaises
             PROVE  action = a
  BY DEF OwnRaiseRecovered
<1>1. history \in Seq(Line)
  BY DEF GInv, GameType, history
<1>2. Len(history) \in Nat
  BY <1>1
<1>3. step \in 1 .. Len(history)
  BY <1>2 DEF FInv, TypeOK
<1>4. history[step] \in Line
  BY <1>1, <1>3
<1>5. history[step].pot \in Nat
  BY <1>4 DEF Line
<1>6. callSize \in Nat /\ realRaise \in {0, 1}
  BY DEF FInv, TypeOK
<1>7. action = PotAction(Factor(history[step].bet, callSize, history[step].pot))
  BY DEF RInv, RaiseNamed
<1>8. /\ a \in Raises \ {"RAISE1"}
      /\ history[step].pot + (IF realRaise = 0 THEN 0 ELSE callSize) # 5
      /\ ShareOf(history[step].pot, callSize, realRaise, a) >= bbSize
      /\ history[step].bet = BetOf(ShareOf(history[step].pot, callSize, realRaise, a),
                                   callSize, realRaise)
  BY DEF OwnRaises, PotWithCall
<1>9. PotAction(Factor(history[step].bet, callSize, history[step].pot)) = a
  BY <1>5, <1>6, <1>8, OwnRaiseNamed
<1> QED
  BY <1>7, <1>9

\* After the first raise of a game, the robot reads its own raises back from the
\* history as the actions it took, whatever the pot was, that of 5 excepted.
THEOREM OwnRaisesReadBack == Spec => []OwnRaiseRecovered
<1>1. Init => GInv /\ FInv /\ RInv
  <2>1. Init => RInv
    BY DEF Init, RInv, RaiseNamed
  <2> QED
    BY <2>1, InitInv
<1>2. GInv /\ FInv /\ RInv /\ [Next]_vars => GInv' /\ FInv' /\ RInv'
  BY NextKeepsFigures, NamesKept
<1> QED
  BY <1>1, <1>2, NamesAreOwn, PTL DEF Spec
=============================================================================
