------------------------------ MODULE ByteFifo ------------------------------
(***************************************************************************)
(* What a connection needs of its buffers: the bytes that were taken come  *)
(* out once each and in order. A byte is its number in the stream of the   *)
(* bytes taken.                                                            *)
(***************************************************************************)
EXTENDS Naturals, Sequences

CONSTANT MaxChunk   \* the longest chunk appended at once

VARIABLES
  stream,   \* the bytes that have been taken and not given back
  taken     \* how many bytes have ever been taken

vars == <<stream, taken>>

Init == stream = <<>> /\ taken = 0

Take(n) ==
  /\ stream' = stream \o [i \in 1 .. n |-> taken + i]
  /\ taken' = taken + n

Recycle ==
  /\ \E n \in 1 .. Len(stream) : stream' = SubSeq(stream, n + 1, Len(stream))
  /\ UNCHANGED taken

Clear == stream' = <<>> /\ UNCHANGED taken

Next == (\E n \in 1 .. MaxChunk : Take(n)) \/ Recycle \/ Clear

Spec == Init /\ [][Next]_vars
=============================================================================
