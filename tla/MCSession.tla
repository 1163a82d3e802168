----------------------------- MODULE MCSession -----------------------------
(* Small connections for TLC. *)
EXTENDS Session

\* A packet without a body, one with a body and no reply, and one with both.
GoodKinds == {[len |-> 2, bad |-> FALSE, reply |-> 1], [len |-> 3, bad |-> FALSE, reply |-> 0],
              [len |-> 3, bad |-> FALSE, reply |-> 2]}
AllKinds == GoodKinds \cup {[len |-> 2, bad |-> TRUE, reply |-> 0]}
=============================================================================
