----------------------------- MODULE MCEvaluate -----------------------------
(* A small table and a short deck for TLC. *)
EXTENDS Evaluate

CONSTANTS c1, c2, c3, c4, c5, c6, k1

SomeBoards == {{}, {c1}, {c1, k1}}
SomeRanges == {AllHands, {{c1, c2}, {c2, c3}}}
WithNone == SomeRanges \cup {{}}
SomePairLists == {<<{c1, c2}, {c1, k1}>>, <<{c4, c5}>>}
=============================================================================
