--------------------------- MODULE SessionBuffer ---------------------------
(***************************************************************************)
(* The byte buffer of a connection (src/SessionBuffer.cpp): mCapacity      *)
(* bytes, of which those from mHead up to mTail are in use. One action per *)
(* operation, and one per round of the loop in append; the modules that    *)
(* use a buffer choose when they happen.                                   *)
(*                                                                         *)
(* resetTailOffset and resetHeadOffset, which nothing calls, are left out. *)
(***************************************************************************)
EXTENDS Naturals, Sequences

CONSTANTS
  Capacity,   \* mCapacity
  Garbage     \* what a byte that was never written holds

ASSUME CapacityAssumption == Capacity \in Nat \ {0}

VARIABLES mBuffer, mHead, mTail

bufferVars == <<mBuffer, mHead, mTail>>

\* The bytes in use, in the order in which buffer() hands them out.
bufSize == mTail - mHead
Contents == [i \in 1 .. bufSize |-> mBuffer[mHead + i - 1]]

Allocated ==
  /\ mBuffer = [i \in 0 .. Capacity - 1 |-> Garbage]
  /\ mHead = 0 /\ mTail = 0

clear == mHead' = 0 /\ mTail' = 0 /\ UNCHANGED mBuffer

-----------------------------------------------------------------------------
(* append. A chunk that is too large is refused; otherwise each round of   *)
(* the loop copies it behind mTail, gives up on a buffer that is full to   *)
(* its last byte, or moves bytes to the front to make room.                *)

remain == Capacity - mTail

TooLarge(size) == size > Capacity
Full(size) == remain < size /\ remain = 0

\* A variant that leaves mTail where it was.
CopyWithoutTail(data) ==
  /\ remain >= Len(data)
  /\ mBuffer' = [i \in DOMAIN mBuffer |->
                   IF i \in mTail .. mTail + Len(data) - 1
                   THEN data[i - mTail + 1] ELSE mBuffer[i]]
  /\ UNCHANGED <<mHead, mTail>>

Copy(data) ==
  /\ remain >= Len(data)
  /\ mBuffer' = [i \in DOMAIN mBuffer |->
                   IF i \in mTail .. mTail + Len(data) - 1
                   THEN data[i - mTail + 1] ELSE mBuffer[i]]
  /\ mTail' = mTail + Len(data)
  /\ UNCHANGED mHead

\* A variant that does not move the offsets with the bytes.
MoveBytesOnly(size) ==
  /\ remain < size /\ remain # 0
  /\ mBuffer' = [i \in DOMAIN mBuffer |->
                   IF i < remain THEN mBuffer[mHead + i] ELSE mBuffer[i]]
  /\ UNCHANGED <<mHead, mTail>>

\* memmove moves as many bytes as remained behind mTail, and not the bufSize
\* bytes in use.
Move(size) ==
  /\ remain < size /\ remain # 0
  /\ mBuffer' = [i \in DOMAIN mBuffer |->
                   IF i < remain THEN mBuffer[mHead + i] ELSE mBuffer[i]]
  /\ mHead' = 0
  /\ mTail' = remain

-----------------------------------------------------------------------------
\* A variant that checks len against what is free.
RecycleUnchecked(len) ==
  /\ len > 0 /\ len <= remain
  /\ mHead' = mHead + len
  /\ UNCHANGED <<mBuffer, mTail>>

\* recycle gives back the len oldest bytes, if there are that many.
recycle(len) ==
  /\ len > 0 /\ len <= bufSize
  /\ mHead' = mHead + len
  /\ UNCHANGED <<mBuffer, mTail>>
=============================================================================
