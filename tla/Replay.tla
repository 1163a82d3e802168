------------------------------- MODULE Replay -------------------------------
(***************************************************************************)
(* The first part of SessionHandle::handleRobotDecide2: a request carries  *)
(* the lines of betting of a game, and the handler replays them to get the *)
(* figures the decision needs: pot, stacks, bets and raises, the range of  *)
(* every player, and the commands that bring its own engine to the state   *)
(* of the game. The game goes on between requests, and each request        *)
(* carries its whole history.                                              *)
(*                                                                         *)
(* The game, the engine's State and the dealing of cards are outside the   *)
(* repository. The game keeps the rules of betting, with the order of the  *)
(* seats left open; whether a command ends the hand is left open too.      *)
(***************************************************************************)
EXTENDS Betting, Ranges, Sequences

CONSTANTS
  NumPlayers,     \* Configure::mNumPlayers
  numSeats,       \* how many of them have a seat in this game
  InitChips,      \* what each of them brings
  RaiseBets,      \* bets of raises that are not of the robot's sizes
  Boards,         \* the cards of TestCards that may lie on a request's board
  RealRaises,     \* Configure::mRealRaise, among 0 and 1
  SetupSize,      \* the length of history at which the cards are set up (10)
  RangeFrom,      \* ranges are updated by the lines after this one (12)
  OddLine,        \* the line whose bet is replaced (14, counted from 0)...
  OddBet,         \* ... by this one (32)
  MaxHistory,     \* bound: how many lines the game has
  MaxRequests     \* bound: how many requests the connection brings

ASSUME ReplayAssumption ==
  /\ NumPlayers \in Nat /\ numSeats \in 2 .. NumPlayers
  /\ InitChips \in [0 .. numSeats - 1 -> Nat] /\ \A s \in DOMAIN InitChips : InitChips[s] > 2
  /\ RaiseBets \subseteq Nat
  /\ RealRaises \subseteq {0, 1}
  /\ SetupSize \in Nat /\ RangeFrom \in Nat /\ OddLine \in Nat /\ OddBet \in Nat
  /\ SetupSize > 2 /\ OddLine > 1
  /\ MaxHistory \in Nat /\ MaxRequests \in Nat

bbPos == 1
Seats == 0 .. numSeats - 1
Positions == 0 .. NumPlayers - 1
Rounds == 0 .. 3
seatOffset == NumPlayers - numSeats

VARIABLES
  game,           \* the game outside: its history and its stacks
  realRaise,
  setUp,          \* whether testhands and testboardCards have been filled
  phase,          \* where the handler is
  step,           \* the lines of history replayed
  turnIndex, discardPlayers,
  board,          \* the cards of TestCards that state->boardCards holds
  potSize, preflopRaises, flopRaises, lastRaise,
  vRemains, vRoundBet, vBetting,
  callSize,       \* vRoundCall for the last line
  action,         \* the last command
  terminal,       \* state->isTerminal()
  isSucceed,
  handRanges,
  \* History variables:
  marks,          \* what has happened to each range
  states,         \* the State objects that exist
  requests, answers, dropped  \* the requests, the answers, and the returns without one

figures == <<potSize, preflopRaises, flopRaises, lastRaise, vRemains, vRoundBet, vBetting,
             callSize, action, terminal, isSucceed, handRanges, marks, board, step>>
request == <<turnIndex, discardPlayers>>
vars == <<game, realRaise, setUp, phase, request, figures, states, requests, answers, dropped>>

history == game.history

-----------------------------------------------------------------------------
(* The game.                                                               *)

Acts == {"BLIND", "FOLD", "PASS", "FOLLOW", "RAISE", "ALLIN"}
Line == [pos : Seats, round : Rounds, act : Acts, bet : Nat, pot : Nat, chips : Nat]

Live == Seats \ game.folded
ToCall(s) == game.high - game.put[s]

\* The lines that are left of the rules of betting for seat s.
Bets(s) ==
  LET call == ToCall(s)
      own == {BetOf(ShareOf(game.pot, call, realRaise, a), call, realRaise) : a \in Raises}
  IN  {<<"FOLD", 0>>, <<"ALLIN", game.chips[s]>>}
      \cup (IF call = 0 THEN {<<"PASS", 0>>}
            ELSE IF call < game.chips[s] THEN {<<"FOLLOW", call>>} ELSE {})
      \cup {<<"RAISE", bet>> : bet \in {b \in own \cup RaiseBets : call < b /\ b < game.chips[s]}}

Bet(s, act, bet) ==
  /\ phase = "idle" /\ Len(history) < MaxHistory
  /\ game' = [game EXCEPT
       !.history = Append(@, [pos |-> s, round |-> game.round, act |-> act, bet |-> bet,
                              pot |-> game.pot, chips |-> game.chips[s] - bet]),
       !.chips[s] = @ - bet, !.put[s] = @ + bet, !.pot = @ + bet,
       !.high = IF game.put[s] + bet > @ THEN game.put[s] + bet ELSE @,
       !.folded = IF act = "FOLD" THEN @ \cup {s} ELSE @]
  /\ UNCHANGED <<realRaise, setUp, phase, request, figures, states, requests, answers, dropped>>

\* The small blind and the big blind, and then the seats that can act.
Blinds == \/ history = <<>> /\ Bet(0, "BLIND", 1)
          \/ Len(history) = 1 /\ Bet(1, "BLIND", bbSize)

\* The seats act in turn; which is the first of a round is left open.
Able == {s \in Live : game.chips[s] > 0 /\ Live # {s}}
InTurn(s) ==
  LET last == history[Len(history)]
      Ahead(t) == (t + numSeats - last.pos - 1) % numSeats
  IN  last.round = game.round => \A t \in Able : Ahead(s) <= Ahead(t)

Play(s) == /\ Len(history) > bbPos /\ s \in Able /\ InTurn(s)
           /\ \E b \in Bets(s) : Bet(s, b[1], b[2])

NextRound ==
  /\ phase = "idle" /\ Len(history) > bbPos /\ game.round < 3
  /\ \A s \in Live : ToCall(s) = 0 \/ game.chips[s] = 0
  /\ game' = [game EXCEPT !.round = @ + 1, !.put = [s \in Seats |-> 0], !.high = 0]
  /\ UNCHANGED <<realRaise, setUp, phase, request, figures, states, requests, answers, dropped>>

-----------------------------------------------------------------------------
(* The request.                                                            *)

\* The players who have no seat are between the big blind and the others.
Pos(s) == IF s > bbPos THEN s + seatOffset ELSE s

\* A slip: the seat to act is taken as it is.
TurnUnmoved(s) == s

\* The position of the robot, whose seat is to act.
TurnOf(s) == IF s > bbPos THEN s + seatOffset ELSE s

NoBets == [r \in Rounds |-> [p \in Positions |-> 0]]

FreshRemains ==
  [p \in Positions |->
     IF \E s \in Seats : Pos(s) = p THEN InitChips[CHOOSE s \in Seats : Pos(s) = p] ELSE 0]
FreshRanges == [p \in Positions |-> cloneHandProbs]

Init ==
  /\ game = [history |-> <<>>, chips |-> InitChips,
             put |-> [s \in Seats |-> 0], high |-> 0, pot |-> 0, round |-> 0, folded |-> {}]
  /\ realRaise \in RealRaises
  /\ setUp = FALSE /\ phase = "idle"
  /\ turnIndex = 0 /\ discardPlayers = {} /\ board = {}
  /\ step = 0 /\ potSize = 0 /\ preflopRaises = 0 /\ flopRaises = 0 /\ lastRaise = 0
  /\ vRemains = FreshRemains /\ vRoundBet = [r \in Rounds |-> 0] /\ vBetting = NoBets
  /\ callSize = 0 /\ action = "none" /\ terminal = FALSE /\ isSucceed = TRUE
  /\ handRanges = FreshRanges /\ marks = [p \in Positions |-> {}]
  /\ states = 0 /\ requests = 0 /\ answers = 0 /\ dropped = 0

\* Wrong blinds, or no seat with two hole cards for the robot.
Reject ==
  /\ phase = "idle" /\ requests < MaxRequests
  /\ requests' = requests + 1
  /\ UNCHANGED <<game, realRaise, setUp, phase, request, figures, states, answers, dropped>>

\* A request for seat s, with as many lines of history as the game has.
Request(s) ==
  /\ phase = "idle" /\ requests < MaxRequests
  /\ Len(history) > bbPos /\ s \in Able
  /\ requests' = requests + 1
  /\ states' = states + 1
  /\ turnIndex' = TurnOf(s)
  /\ discardPlayers' = {Pos(f) : f \in game.folded}
  /\ board' \in (IF game.round = 0 THEN {{}} ELSE Boards)
  /\ phase' = "request"
  /\ UNCHANGED <<game, realRaise, setUp, potSize, preflopRaises, flopRaises, lastRaise,
                 vRemains, vRoundBet, vBetting, callSize, action, terminal, isSucceed,
                 handRanges, marks, step, answers, dropped>>

\* The handler returns, and its locals are gone.
Return ==
  /\ phase' = "idle"
  /\ turnIndex' = 0 /\ discardPlayers' = {} /\ board' = {}
  /\ step' = 0 /\ potSize' = 0 /\ preflopRaises' = 0 /\ flopRaises' = 0 /\ lastRaise' = 0
  /\ vRemains' = FreshRemains /\ vRoundBet' = [r \in Rounds |-> 0] /\ vBetting' = NoBets
  /\ callSize' = 0 /\ action' = "none" /\ terminal' = FALSE /\ isSucceed' = TRUE
  /\ handRanges' = FreshRanges /\ marks' = [p \in Positions |-> {}]
  /\ UNCHANGED <<game, realRaise, setUp, requests>>

\* It returns without an answer and does not delete the State.
Drop == Return /\ dropped' = dropped + 1 /\ UNCHANGED <<states, answers>>

TooShort ==
  /\ phase = "request" /\ Len(history) < SetupSize
  /\ Drop

\* At SetupSize lines the two hands and the five cards of the experiment are
\* kept for this request and all later ones. The log line reads four cards of
\* boardCards just after it was cleared: the program may crash.
SetUp ==
  /\ phase = "request" /\ Len(history) = SetupSize
  /\ setUp' = TRUE
  /\ board' = {}
  /\ phase' \in {"lines", "crashed"}
  /\ UNCHANGED <<game, realRaise, request, potSize, preflopRaises, flopRaises, lastRaise,
                 vRemains, vRoundBet, vBetting, callSize, action, terminal, isSucceed,
                 handRanges, marks, step, states, requests, answers, dropped>>

Later ==
  /\ phase = "request" /\ Len(history) > SetupSize
  /\ phase' = "lines"
  /\ UNCHANGED <<game, realRaise, setUp, request, figures, states, requests, answers, dropped>>

-----------------------------------------------------------------------------
(* The lines.                                                              *)

line == history[step + 1]
newPos == Pos(line.pos)
his_bet == IF step = OddLine THEN OddBet ELSE line.bet
beted == vBetting[line.round][newPos] + his_bet

\* A slip: the bet to beat is that of the last who bet.
RoundBetOf(old, new) == new

\* The highest bet of the round.
RoundBet(old, new) == IF old < new THEN new ELSE old

\* What every line does to the figures, the blinds' lines included.
Book ==
  /\ phase = "lines" /\ step < Len(history)
  /\ step' = step + 1
  /\ potSize' = potSize + his_bet
  /\ vRemains' = [vRemains EXCEPT ![newPos] = line.chips]
  /\ callSize' = vRoundBet[line.round] - vBetting[line.round][newPos]
  /\ vBetting' = [vBetting EXCEPT ![line.round][newPos] = beted]
  /\ vRoundBet' = [vRoundBet EXCEPT ![line.round] = RoundBet(@, beted)]
  /\ UNCHANGED <<game, realRaise, setUp, request, states, requests, answers, dropped>>

BlindLine ==
  /\ step <= bbPos
  /\ Book
  /\ UNCHANGED <<phase, preflopRaises, flopRaises, lastRaise, action, terminal, isSucceed,
                 handRanges, marks, board>>

\* "@Fuck you(0)!!!!": the engine's hand is over and the game's is not.
AfterTheEnd ==
  /\ step > bbPos /\ terminal
  /\ Book
  /\ isSucceed' = FALSE
  /\ phase' = "deal"
  /\ UNCHANGED <<preflopRaises, flopRaises, lastRaise, action, terminal, handRanges, marks, board>>

Distance(x, y) == IF x >= y THEN x - y ELSE y - x

\* One round of the search for the nearest size: of two as near, the later.
Nearer(x, sizes, tag, idx) ==
  IF Distance(x, sizes[tag]) >= Distance(x, sizes[idx]) THEN idx ELSE tag

OpeningSizes == <<6, 8, 10>>
OpeningActions == <<"RAISE2", "RAISE3", "RAISE4">>
OpeningAction(x) ==
  OpeningActions[Nearer(x, OpeningSizes, Nearer(x, OpeningSizes, 1, 2), 3)]

\* Integer division as the code has it, towards zero.
Quotient(x, y) == IF x >= 0 THEN x \div y ELSE -((-x) \div y)

\* A slip: the pot is taken without the call.
FactorOfPot(bet, call, pot) ==
  IF realRaise = 0 THEN Quotient(bet * 100, pot) ELSE Quotient((bet - call) * 100, pot)

\* The raise in hundredths of the pot.
Factor(bet, call, pot) ==
  IF realRaise = 0 THEN Quotient(bet * 100, pot)
  ELSE Quotient((bet - call) * 100, pot + call)

PotSizes == <<0, 50, 75, 100>>
PotActions == <<"CALL", "RAISE2", "RAISE3", "RAISE4">>
PotAction(x) ==
  PotActions[Nearer(x, PotSizes, Nearer(x, PotSizes, Nearer(x, PotSizes, 1, 2), 3), 4)]

Unraised == line.round = 0 /\ preflopRaises = 0

Passive == [FOLD |-> "FOLD", PASS |-> "CHECK", FOLLOW |-> "CALL", ALLIN |-> "ALLIN"]

\* The command for a line: of a raise, the size nearest to it, among the openings
\* for the first raise of the game and among shares of the pot for the others.
Command ==
  IF line.act # "RAISE" THEN Passive[line.act]
  ELSE IF Unraised THEN OpeningAction(beted)
  ELSE PotAction(Factor(his_bet, callSize', line.pot))

Raising == line.act \in {"RAISE", "ALLIN"}

\* The hands found on boardCards are erased. boardCards is that of the request,
\* or of the line before, until the first hand is looked up: so any of the hands
\* on it, and all if no other is left, come before that.
OnBoard(range) == {h \in DOMAIN range.odds : h[1] \in board \/ h[2] \in board}

\* What a look-up leaves in the marks: "blank" when no hand would take the
\* action, "unknown" when some hand has no node, "board" when the suits are not
\* alike any more.
Marked(range, removed, node) ==
  (IF ProbA(range, removed, line.round, node) = 0 THEN {"blank"} ELSE {})
  \cup (IF Known(range, removed, line.round, node) # DOMAIN range.odds \ removed
        THEN {"unknown"} ELSE {})
  \cup (IF line.round > 0 \/ removed # {} THEN {"board"} ELSE {})

UpdatesRange ==
  /\ newPos \notin discardPlayers /\ line.act # "FOLD"
  /\ Len(history) > RangeFrom + 1 /\ step > RangeFrom

UpdateRange ==
  LET range == handRanges[newPos]
      free  == DOMAIN range.odds \ OnBoard(range)
  IN  \E removed \in (IF free = {} THEN {OnBoard(range)} ELSE SUBSET OnBoard(range)),
         node \in Nodes(line.round) :
        LET looked == DOMAIN range.odds \ removed
        IN  /\ handRanges' = [handRanges EXCEPT
                 ![newPos] = Updated(range, removed, line.round, node)]
            /\ marks' = [marks EXCEPT ![newPos] = @ \cup Marked(range, removed, node)]
            /\ board' = IF looked = {} THEN board ELSE {}
            \* The first three cards or more of testboardCards are read.
            /\ IF looked # {} /\ line.round > 0 /\ ~setUp
               THEN phase' \in {"lines", "crashed"} ELSE phase' = "lines"

PlayLine ==
  /\ step > bbPos /\ ~terminal
  /\ Book
  /\ action' = Command
  /\ preflopRaises' = preflopRaises + (IF Raising /\ line.round = 0 THEN 1 ELSE 0)
  /\ flopRaises' = flopRaises + (IF Raising /\ line.round > 0 THEN 1 ELSE 0)
  /\ lastRaise' = IF line.act = "RAISE" /\ ~Unraised THEN his_bet ELSE lastRaise
  /\ IF UpdatesRange THEN UpdateRange ELSE UNCHANGED <<handRanges, marks, board, phase>>
  /\ terminal' \in BOOLEAN
  /\ UNCHANGED isSucceed

LinesDone ==
  /\ phase = "lines" /\ step = Len(history)
  /\ phase' = "deal"
  /\ UNCHANGED <<game, realRaise, setUp, request, figures, states, requests, answers, dropped>>

-----------------------------------------------------------------------------
(* The end.                                                                *)

\* distributeCards5 fails; or it does not, and there are no hole cards because
\* nothing was ever set up.
NoCards ==
  /\ phase = "deal"
  /\ Drop

\* A slip: the hole cards are not asked for.
DealtWithoutCards ==
  /\ phase = "deal"
  /\ phase' = "figures"
  /\ UNCHANGED <<game, realRaise, setUp, request, figures, states, requests, answers, dropped>>

Dealt ==
  /\ phase = "deal" /\ setUp
  /\ phase' = "figures"
  /\ UNCHANGED <<game, realRaise, setUp, request, figures, states, requests, answers, dropped>>

\* The figures the decision is made on. The round is that of the request's board.
table ==
  [potSize |-> potSize,
   callSize |-> vRoundBet[game.round] - vBetting[game.round][turnIndex],
   curRoundBet |-> vBetting[game.round][turnIndex],
   flopRaises |-> flopRaises,
   curRemains |-> vRemains[turnIndex],
   newPos |-> turnIndex,
   lastRaise |-> lastRaise]

\* A slip: the State is not deleted.
AnsweredWithoutDelete ==
  /\ phase = "figures"
  /\ Return
  /\ answers' = answers + 1
  /\ UNCHANGED <<states, dropped>>

\* The decision is made (module Decide) and the State deleted.
Answered ==
  /\ phase = "figures"
  /\ Return
  /\ states' = states - 1
  /\ answers' = answers + 1
  /\ UNCHANGED dropped

\* A deal for the show list fails.
Undecided ==
  /\ phase = "figures"
  /\ Drop

Next ==
  \/ Blinds \/ (\E s \in Seats : Play(s)) \/ NextRound
  \/ Reject \/ (\E s \in Seats : Request(s))
  \/ TooShort \/ SetUp \/ Later
  \/ BlindLine \/ AfterTheEnd \/ PlayLine \/ LinesDone
  \/ NoCards \/ Dealt \/ Answered \/ Undecided

Spec == Init /\ [][Next]_vars

-----------------------------------------------------------------------------
TypeOK ==
  /\ realRaise \in {0, 1} /\ setUp \in BOOLEAN
  /\ phase \in {"idle", "request", "lines", "deal", "figures", "crashed"}
  /\ step \in 0 .. Len(history)
  /\ turnIndex \in Positions /\ discardPlayers \subseteq Positions
  /\ potSize \in Nat /\ preflopRaises \in Nat /\ flopRaises \in Nat /\ lastRaise \in Nat
  /\ vRemains \in [Positions -> Nat]
  /\ vRoundBet \in [Rounds -> Nat]
  /\ vBetting \in [Rounds -> [Positions -> Nat]]
  /\ callSize \in Nat
  /\ action \in Actions \cup {"none"}
  /\ terminal \in BOOLEAN /\ isSucceed \in BOOLEAN

\* The figures belong to the game: stack by stack and bet by bet they are those
\* of the seats of the game, moved to the positions of the robot's table, and the
\* pot and the call are the game's. Only the line whose bet is replaced comes
\* between: it moves the pot, and the bet of its seat in its round, by the
\* difference.
Shift == IF Len(history) > OddLine THEN OddBet - history[OddLine + 1].bet ELSE 0
ShiftOf(s) ==
  IF Len(history) > OddLine /\ history[OddLine + 1].pos = s
     /\ history[OddLine + 1].round = game.round
  THEN Shift ELSE 0

TableAgrees ==
  phase = "figures" /\ isSucceed =>
    /\ potSize = game.pot + Shift
    /\ \A s \in Seats : /\ vRemains[Pos(s)] = game.chips[s]
                        /\ vBetting[game.round][Pos(s)] = game.put[s] + ShiftOf(s)
    /\ \E s \in Able : /\ Pos(s) = turnIndex
                       /\ Len(history) <= OddLine => table.callSize = ToCall(s)

\* Whatever was replayed, to the end or not, the figures are among those the
\* decision relies on: the blinds are in the pot, and so are the own bets and
\* the bet to call.
FiguresReplayed == phase = "figures" => table \in TableFields /\ Replayed(table)

\* The robot recognises its own raises: a raise of half the pot, three quarters
\* or the pot, as the decision computes it, comes back from the history as the
\* action it was. (Three quarters of a pot of 5 round down to 3, which is nearer
\* to the half; bets put up to the smallest bet are not of their size any more;
\* a third has no name in the replay; the first raise before the flop is named
\* by another list.)
PotWithCall == history[step].pot + (IF realRaise = 0 THEN 0 ELSE callSize)
OwnRaises ==
  {a \in Raises \ {"RAISE1"} :
     /\ PotWithCall # 5
     /\ ShareOf(history[step].pot, callSize, realRaise, a) >= bbSize
     /\ history[step].bet = BetOf(ShareOf(history[step].pot, callSize, realRaise, a),
                                  callSize, realRaise)}
OwnRaiseRecovered ==
  step > 2 /\ step # OddLine + 1 /\ phase = "lines" /\ history[step].act = "RAISE"
  /\ (history[step].round > 0 \/ preflopRaises > 1)
    => \A a \in OwnRaises : action = a

\* Requests that are answered leave no State behind.
OnlyDroppedLeak == states = dropped + (IF phase \in {"idle"} THEN 0 ELSE 1)

\* On a connection that has had an answer no later request reads past the end of
\* an empty vector: only the set-up's own log line may still do so.
AnsweredNeverCrashes ==
  phase = "crashed" /\ answers > 0 => Len(history) = SetupSize

\* The players whose range is no longer the one every player starts from.
Ranged == {p \in Positions : handRanges[p] # cloneHandProbs}

\* A range stays a distribution. It is emptied only by an action that no hand in
\* it would have taken: the pruning alone leaves the likeliest hand. And its
\* probabilities add up to 1 at most, unless some hand had no node.
RangesAreDistributions ==
  \A p \in Ranged :
    /\ DOMAIN handRanges[p].odds = {} => "blank" \in marks[p]
    /\ "unknown" \notin marks[p] => Mass(handRanges[p]) <= handRanges[p].unit

\* As long as no board is involved, hands that differ in their suits only are
\* equally likely: the clusters put them together.
SuitsAlike ==
  \A p \in Ranged : "board" \notin marks[p] =>
    LET odds == handRanges[p].odds
    IN  \A pair \in Alike :
          LET g == pair[1]  h == pair[2]
          IN  g \in DOMAIN odds => h \in DOMAIN odds /\ odds[g] = odds[h]
=============================================================================
