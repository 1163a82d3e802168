------------------------------ MODULE Betting ------------------------------
(***************************************************************************)
(* The vocabulary of bets that the replay of a history and the decision    *)
(* share: the actions of the abstract game, the sizes they stand for, and  *)
(* what a replayed history guarantees of the figures it leaves.            *)
(***************************************************************************)
EXTENDS Integers

bbSize == 2
Raises == {"RAISE1", "RAISE2", "RAISE3", "RAISE4"}
Actions == Raises \cup {"FOLD", "CALL", "CHECK", "ALLIN"}

Percent == [RAISE1 |-> 33, RAISE2 |-> 50, RAISE3 |-> 75, RAISE4 |-> 100]

\* The share of the pot a raise stands for: with the call in the pot when
\* mRealRaise is 1.
ShareOf(pot, call, realRaise, a) ==
  ((pot + (IF realRaise = 0 THEN 0 ELSE call)) * Percent[a]) \div 100

\* The bet of a raise: on top of the call when mRealRaise is 1, and never less
\* than the smallest bet.
BetOf(share, call, realRaise) ==
  LET bet == share + (IF realRaise = 1 THEN call ELSE 0)
  IN  IF bet < bbSize THEN bbSize ELSE bet

\* The figures a history leaves to the decision.
TableFields == [potSize : Nat, callSize : Nat, curRoundBet : Nat,
                flopRaises : Nat, curRemains : Nat \ {0}, newPos : Nat, lastRaise : Nat]

\* The blinds 1 and 2 are in the history, so they are in the pot; a bet to
\* call was paid by another player, and it is in the pot beside the own bet.
Replayed(t) == /\ t.potSize >= 3
               /\ t.potSize >= t.curRoundBet
               /\ t.callSize > 0 => t.potSize >= (2 * t.curRoundBet) + t.callSize
=============================================================================
