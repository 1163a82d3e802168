------------------------------ MODULE MCDecide ------------------------------
EXTENDS Decide

SmallTables ==
  {t \in [potSize : {3, 4, 9}, callSize : 0..3, curRoundBet : {0, 2}, flopRaises : {0, 3},
          curRemains : {1, 2, 3, 5, 9}, newPos : 0..1, lastRaise : {0, 2}] : Replayed(t)}

FewStrategies ==
  {NoStrategy, [a \in Actions |-> 0], [a \in {"FOLD"} |-> 1],
   [a \in {"RAISE2", "CALL"} |-> IF a = "RAISE2" THEN 1 ELSE 0]}
=============================================================================
