------------------------------- MODULE Decide -------------------------------
(***************************************************************************)
(* The last part of SessionHandle::handleRobotDecide2: from the figures    *)
(* the betting history leaves (pot, call, stack...) to the action and the  *)
(* bet of the answer.  The three places that must agree are written by     *)
(* different hands: getLegalActions2 computes the raise sizes it allows,   *)
(* the trained node or the initial regrets offer actions with weights, and *)
(* the bet branch computes the size again for the action drawn.            *)
(***************************************************************************)
EXTENDS Betting, Sequences

CONSTANTS Tables,       \* the figures a replayed history may leave
          Strategies,   \* what a tree node or the initial regrets may hold
          RaiseRules,   \* Configure::mRaiseRule, among 0, 1, 2
          RealRaises    \* Configure::mRealRaise, among 0, 1

NoTable == [potSize |-> 0, callSize |-> 0, curRoundBet |-> 0, flopRaises |-> 0,
            curRemains |-> 0, newPos |-> 0, lastRaise |-> 0]

ASSUME TablesAssumption == \A t \in Tables : t \in TableFields /\ Replayed(t)
ASSUME StrategiesAssumption ==
  \A s \in Strategies : DOMAIN s \subseteq Actions /\ \A a \in DOMAIN s : s[a] \in Nat
ASSUME ConfigAssumption == RaiseRules \subseteq {0, 1, 2} /\ RealRaises \subseteq {0, 1}

VARIABLES table,        \* the figures of the request being answered
          realRaise, raiseRule,
          phase,        \* where the handler is: "idle" between requests, "request" when the
                      \* history is replayed, "legal", "show", "bet", "answered", "dropped"
          validActions,
          strategySum,
          shown,        \* hands of the show list tried so far
          testHand,     \* testhands[0], which outlives the request
          action,       \* the action drawn, "none" before the draw and when there is nothing to draw
          aiAct, aiBet

config == <<realRaise, raiseRule>>
vars == <<table, config, phase, validActions, strategySum, shown, testHand,
          action, aiAct, aiBet>>

Opening == [RAISE1 |-> 4, RAISE2 |-> 6, RAISE3 |-> 8, RAISE4 |-> 10]

\* A slip: the call is not counted in the pot.
ShareOfPot(a) == (table.potSize * Percent[a]) \div 100

Share(a) == ShareOf(table.potSize, table.callSize, realRaise, a)

\* The fixed opening sizes.  The parameter is called stage_index, the caller
\* passes the seat.
Scripted == table.curRoundBet + table.callSize = 2 /\ table.newPos = 1

LegalSize(a) == IF Scripted THEN Opening[a] - table.curRoundBet ELSE Share(a)

\* A slip in the affordability test: the call is left out.
AffordableWithoutCall(a) == table.curRemains >= LegalSize(a)

Affordable(a) == table.curRemains >= LegalSize(a) + table.callSize

DoublesTheBet(a) ==
  \/ table.callSize = 0
  \/ table.curRoundBet + LegalSize(a) + table.callSize >= 2 * (table.curRoundBet + table.callSize)

LegalRaise(a) ==
  \/ raiseRule = 0 /\ a # "RAISE1" /\ Affordable(a) /\ DoublesTheBet(a)
  \/ raiseRule = 1 /\ Affordable(a) /\ LegalSize(a) > table.lastRaise
  \/ raiseRule = 2 /\ IF realRaise = 1 THEN Affordable(a) ELSE table.curRemains >= LegalSize(a)

MayRaise == table.flopRaises < 3 \/ table.newPos = 1

\* A slip: folding is offered whether or not there is something to call.
PassiveWithFold == {"FOLD"} \cup (IF table.callSize # 0 THEN {"CALL"} ELSE {"CHECK"})

Passive == IF table.callSize # 0 THEN {"FOLD", "CALL"} ELSE {"CHECK"}

LegalActions ==
  Passive \cup (IF MayRaise THEN {a \in Raises : LegalRaise(a)} \cup {"ALLIN"} ELSE {})

NoStrategy == [a \in {} |-> 0]

-----------------------------------------------------------------------------

Init == /\ table = NoTable
        /\ realRaise \in RealRaises
        /\ raiseRule \in RaiseRules
        /\ phase = "idle"
        /\ validActions = {}
        /\ strategySum = NoStrategy
        /\ shown = 0
        /\ testHand = "AsKh"
        /\ action = "none"
        /\ aiAct = 16 /\ aiBet = 0

\* A request whose history was replayed; at ten lines of history the hands of
\* the experiment are set up afresh.
Replay ==
  /\ phase = "idle"
  /\ phase' = "request"
  /\ table' \in Tables
  /\ testHand' \in {testHand, "AsKh"}
  /\ UNCHANGED <<config, validActions, strategySum, shown, action, aiAct, aiBet>>

GetLegalActions ==
  /\ phase = "request"
  /\ phase' = "legal"
  /\ validActions' = LegalActions
  /\ UNCHANGED <<table, config, strategySum, shown, testHand, action, aiAct, aiBet>>

\* The search and the look-ups of its tree, when the history could be restored
\* and searching is on for this stage.
Research ==
  /\ phase = "legal"
  /\ phase' = "show"
  /\ UNCHANGED <<table, config, validActions, strategySum, shown, testHand, action, aiAct, aiBet>>

\* No search: the regrets the rules of the game start from.
InitialRegret ==
  /\ phase = "legal"
  /\ phase' = "bet"
  /\ \E s \in Strategies : strategySum' = s
  /\ UNCHANGED <<table, config, validActions, shown, testHand, action, aiAct, aiBet>>

ShowList == <<"AsAh", "AsKh", "KsKh">>

\* A slip: the loop runs once too often, and past the end of the vector anything
\* may be read.
ShowHandInclusive ==
  /\ phase = "show" /\ shown <= Len(ShowList)
  /\ shown' = shown + 1
  /\ testHand' = IF shown < Len(ShowList) THEN ShowList[shown + 1] ELSE "past the end"
  /\ phase' = phase /\ \E s \in Strategies \cup {strategySum} : strategySum' = s
  /\ UNCHANGED <<table, config, validActions, action, aiAct, aiBet>>

\* One round of the loop over the show list: the hand replaces testhands[0];
\* the cards are dealt again, which may fail and drop the request; the node of
\* that hand, when the tree has it, replaces the strategy.
ShowHand ==
  /\ phase = "show" /\ shown < Len(ShowList)
  /\ shown' = shown + 1
  /\ testHand' = ShowList[shown + 1]
  /\ \/ phase' = "dropped" /\ UNCHANGED strategySum
     \/ phase' = phase /\ \E s \in Strategies \cup {strategySum} : strategySum' = s
  /\ UNCHANGED <<table, config, validActions, action, aiAct, aiBet>>

Shown ==
  /\ phase = "show" /\ shown = Len(ShowList)
  /\ phase' = "bet"
  /\ UNCHANGED <<table, config, validActions, strategySum, shown, testHand, action, aiAct, aiBet>>

\* The actions that may be drawn.  A strategy's actions that are not legal are
\* skipped.  When every weight left is 0 the weights are divided by 0, and any
\* of the actions may come out.
OfferedAndLegal == DOMAIN strategySum \cap validActions
Weighted == {a \in OfferedAndLegal : strategySum[a] > 0}
Drawable == IF DOMAIN strategySum = {} THEN validActions
            ELSE IF Weighted # {} THEN Weighted ELSE OfferedAndLegal

\* A slip: the smallest bet is not enforced.
RaiseBetUnclamped(a) == Share(a) + (IF realRaise = 1 THEN table.callSize ELSE 0)

RaiseBet(a) == BetOf(Share(a), table.callSize, realRaise)

Answer(act, bet) == aiAct' = act /\ aiBet' = bet

\* The action is drawn, and its code and its bet are put in the response.
Choose(a) ==
  /\ phase = "bet" /\ a \in Drawable
  /\ phase' = "answered"
  /\ action' = a
  /\ \/ a = "FOLD" /\ Answer(16, 0)
     \/ a = "CHECK" /\ Answer(32, 0)
     \/ a = "CALL" /\ Answer(IF table.curRemains = table.callSize THEN 256 ELSE 64, table.callSize)
     \/ a = "ALLIN" /\ Answer(256, table.curRemains)
     \/ a \in Raises /\ Answer(128, RaiseBet(a))
  /\ UNCHANGED <<table, config, validActions, strategySum, shown, testHand>>

\* "Decision making failure!!": no action is left, and the answer says fold.
ChooseNothing ==
  /\ phase = "bet" /\ Drawable = {}
  /\ phase' = "answered"
  /\ UNCHANGED <<table, config, validActions, strategySum, shown, testHand, action, aiAct, aiBet>>

\* The handler returns: everything but the configuration and testhands is local.
Return ==
  /\ phase \in {"answered", "dropped"}
  /\ phase' = "idle"
  /\ table' = NoTable
  /\ validActions' = {} /\ strategySum' = NoStrategy /\ shown' = 0
  /\ action' = "none" /\ aiAct' = 16 /\ aiBet' = 0
  /\ UNCHANGED <<config, testHand>>

Next == \/ Replay \/ GetLegalActions \/ Research \/ InitialRegret \/ ShowHand \/ Shown
        \/ \E a \in Actions : Choose(a)
        \/ ChooseNothing \/ Return

Spec == Init /\ [][Next]_vars

-----------------------------------------------------------------------------

\* Types of the request's figures, of the tables kept and of the answer.
TypeOK ==
  /\ table \in Tables \cup {NoTable}
  /\ realRaise \in RealRaises /\ raiseRule \in RaiseRules
  /\ phase \in {"idle", "request", "legal", "show", "bet", "answered", "dropped"}
  /\ validActions \subseteq Actions
  /\ strategySum \in Strategies \cup {NoStrategy}
  /\ shown \in 0..3
  /\ testHand \in {ShowList[i] : i \in 1..Len(ShowList)}
  /\ action \in Actions \cup {"none"}
  /\ aiAct \in {16, 32, 64, 128, 256}
  /\ aiBet \in Nat

\* A raise that is answered raises: it is more than the call, whatever rule is
\* configured, provided raises are counted on top of the call.  A third of a
\* small pot rounds down to nothing, and only the smallest bet and the blinds in
\* the pot keep such a raise from being a call.
RaiseRaises == aiAct = 128 /\ realRaise = 1 => aiBet > table.callSize

\* A raise that is answered can be paid from the stack, although its size is
\* computed twice, by the legality test and by the bet branch, from different
\* formulas.  The two places where the code does not keep this are outside: the
\* scripted opening sizes, which only the legality test knows, and a stack below
\* the smallest bet, which the bet branch enforces and the legality test ignores.
RaisePayable ==
  aiAct = 128 /\ ~Scripted /\ table.curRemains >= bbSize => aiBet <= table.curRemains

\* Facing a bet, a raise of half the pot or more at least doubles the bet to
\* beat.  The code tests this under rule 0 only; under every rule it follows
\* from the call being in the pot the share is taken of, and from the bet to
\* beat being in the pot already.
MinRaise ==
  action \in Raises \ {"RAISE1"} /\ realRaise = 1 /\ table.callSize > 0
    => table.curRoundBet + aiBet >= 2 * (table.curRoundBet + table.callSize)

\* An answer that says fold although checking is free comes only from a
\* decision that failed, where nothing the strategy offers is legal.
FreeFoldIsFailure ==
  phase = "answered" /\ aiAct = 16 /\ table.callSize = 0
    => /\ DOMAIN strategySum # {}
       /\ DOMAIN strategySum \cap LegalActions = {}
=============================================================================
