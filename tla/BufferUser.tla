----------------------------- MODULE BufferUser -----------------------------
(***************************************************************************)
(* A SessionBuffer and the thread that uses it: the event loop appends     *)
(* what arrives in chunks, takes whole packets off the front, and clears   *)
(* the buffer when the connection ends. mLock is held for the whole of     *)
(* each operation, so the rounds of append are the only inner steps.       *)
(*                                                                         *)
(* A byte is its number in the stream of the bytes taken.                  *)
(***************************************************************************)
EXTENDS SessionBuffer

CONSTANTS
  MaxChunk,   \* the longest chunk: 8192 in conn_read_callback
  MaxBytes    \* bound: how many bytes are taken in a behaviour

ASSUME UserAssumption ==
  /\ MaxChunk \in Nat \ {0}
  /\ MaxBytes \in Nat

VARIABLES
  pc,      \* "ready", or "append" inside the loop of append
  data,    \* the chunk being appended
  \* History variables:
  taken,   \* how many bytes the buffer has taken
  held,    \* Contents when append was called
  moves    \* how often this append has moved bytes (2 stands for more)

vars == <<mBuffer, mHead, mTail, pc, data, taken, held, moves>>

Init ==
  /\ Allocated
  /\ pc = "ready" /\ data = <<>>
  /\ taken = 0 /\ held = <<>> /\ moves = 0

AppendCall(n) ==
  /\ pc = "ready" /\ ~TooLarge(n)
  /\ taken + n <= MaxBytes
  /\ pc' = "append"
  /\ data' = [i \in 1 .. n |-> taken + i]
  /\ held' = Contents
  /\ moves' = 0
  /\ UNCHANGED <<bufferVars, taken>>

AppendCopy ==
  /\ pc = "append" /\ Copy(data)
  /\ pc' = "ready"
  /\ taken' = taken + Len(data)
  /\ UNCHANGED <<data, held, moves>>

\* append returns false, and its callers do not look.
AppendRefused ==
  /\ pc = "append" /\ Full(Len(data))
  /\ pc' = "ready"
  /\ UNCHANGED <<bufferVars, data, taken, held, moves>>

AppendMove ==
  /\ pc = "append" /\ Move(Len(data))
  /\ moves' = IF moves < 2 THEN moves + 1 ELSE moves
  /\ UNCHANGED <<pc, data, taken, held>>

AppendLoop == AppendCopy \/ AppendRefused \/ AppendMove

Recycle(len) ==
  /\ pc = "ready" /\ recycle(len)
  /\ UNCHANGED <<pc, data, taken, held, moves>>

Clear ==
  /\ pc = "ready" /\ clear
  /\ UNCHANGED <<pc, data, taken, held, moves>>

Next ==
  \/ \E n \in 1 .. MaxChunk : AppendCall(n)
  \/ AppendLoop
  \/ \E len \in 1 .. Capacity : Recycle(len)
  \/ Clear

Spec == Init /\ [][Next]_vars

-----------------------------------------------------------------------------
TypeOK ==
  /\ mBuffer \in [0 .. Capacity - 1 -> Nat \cup {Garbage}]
  /\ mTail \in 0 .. Capacity /\ mHead \in 0 .. mTail
  /\ pc \in {"ready", "append"}
  /\ data \in Seq(1 .. MaxBytes) /\ Len(data) <= MaxChunk
  /\ taken \in 0 .. MaxBytes
  /\ held \in Seq(Nat \cup {Garbage})
  /\ moves \in 0 .. 2

\* With chunks of at most half of mCapacity the loop of append moves bytes once
\* at most, and then the chunk fits.
OneMove == 2 * MaxChunk <= Capacity => moves <= 1

\* "append succ. nSize=%ld, nLen=%ld": when append succeeds the buffer holds what
\* it held before, and then the chunk.
AppendSucc ==
  [][(pc = "append" /\ pc' = "ready" /\ taken' # taken) => Contents' = held \o data]_vars

\* What a connection wants of its buffer is a ByteFifo. As long as the bytes that
\* came, with the chunk being appended, are no more than mCapacity, every step is
\* one of ByteFifo or none. (Of what comes later the move loses or repeats bytes.)
Fifo == INSTANCE ByteFifo WITH stream <- Contents
Within == taken + (IF pc = "append" THEN Len(data) ELSE 0) <= Capacity
FifoWhileFits == Fifo!Init /\ [][Within => [Fifo!Next]_<<Contents, taken>>]_vars
=============================================================================
