-------------------------- MODULE BufferUserProofs --------------------------
(***************************************************************************)
(* Theorems about SessionBuffer and its user, for every capacity.          *)
(***************************************************************************)
EXTENDS BufferUser, SequenceTheorems, TLAPS

\* What makes OneMove inductive: after one move the chunk fits.
RoomAfterMove ==
  2 * MaxChunk <= Capacity =>
    /\ moves <= 1
    /\ (pc = "append" /\ moves = 1) => remain >= Len(data)

\* The chunk being appended is what comes next in the stream.
DataNext ==
  pc = "append" => /\ Len(data) > 0 /\ taken + Len(data) <= MaxBytes
                   /\ \A i \in 1 .. Len(data) : data[i] = taken + i

\* The contents are a sequence.
ContentsOK ==
  /\ bufSize \in Nat
  /\ Contents \in Seq(Nat \cup {Garbage})
  /\ Len(Contents) = bufSize
  /\ \A i \in 1 .. bufSize : Contents[i] = mBuffer[mHead + i - 1]

LEMMA ContentsSeq == TypeOK => ContentsOK
<1> SUFFICES ASSUME TypeOK PROVE ContentsOK
  OBVIOUS
<1>1. bufSize \in Nat /\ mHead \in Nat /\ mTail \in Nat /\ mHead + bufSize = mTail
      /\ mTail <= Capacity /\ Capacity \in Nat
  BY CapacityAssumption DEF TypeOK, bufSize
<1>2. \A i \in 1 .. bufSize : mBuffer[mHead + i - 1] \in Nat \cup {Garbage}
  <2> TAKE i \in 1 .. bufSize
  <2>1. mHead + i - 1 \in 0 .. Capacity - 1
    BY <1>1
  <2> QED
    BY <2>1 DEF TypeOK
<1>3. Contents \in [1 .. bufSize -> Nat \cup {Garbage}]
  BY <1>2 DEF Contents
<1> QED
  BY <1>1, <1>3 DEF Contents, ContentsOK

LEMMA PrimedContents == TypeOK' => ContentsOK'
BY ContentsSeq, PTL

\* A chunk is a sequence of the next bytes of the stream.
LEMMA Chunk ==
  ASSUME TypeOK, NEW n \in 1 .. MaxChunk, taken + n <= MaxBytes
  PROVE  /\ [i \in 1 .. n |-> taken + i] \in Seq(1 .. MaxBytes)
         /\ Len([i \in 1 .. n |-> taken + i]) = n
<1>1. n \in Nat /\ taken \in Nat /\ MaxBytes \in Nat
  BY UserAssumption DEF TypeOK
<1>2. [i \in 1 .. n |-> taken + i] \in [1 .. n -> 1 .. MaxBytes]
  BY <1>1
<1> QED
  BY <1>1, <1>2

-----------------------------------------------------------------------------
LEMMA TypeStep == TypeOK /\ DataNext /\ [Next]_vars => TypeOK'
<1> SUFFICES ASSUME TypeOK, DataNext, [Next]_vars PROVE TypeOK'
  OBVIOUS
<1> USE CapacityAssumption, UserAssumption DEF bufferVars
<1>1. ASSUME NEW n \in 1 .. MaxChunk, AppendCall(n) PROVE TypeOK'
  <2>1. data' \in Seq(1 .. MaxBytes) /\ Len(data') <= MaxChunk
    BY <1>1, Chunk DEF AppendCall
  <2>2. held' \in Seq(Nat \cup {Garbage})
    BY <1>1, ContentsSeq DEF AppendCall, ContentsOK
  <2> QED
    BY <1>1, <2>1, <2>2 DEF AppendCall, TypeOK
<1>2. CASE AppendCopy
  <2>1. /\ Len(data) \in Nat /\ mTail + Len(data) <= Capacity
        /\ mTail \in Nat /\ mTail' = mTail + Len(data)
    BY <1>2 DEF AppendCopy, Copy, remain, TypeOK
  <2>2. \A i \in mTail .. mTail + Len(data) - 1 :
          data[i - mTail + 1] \in Nat \cup {Garbage}
    BY <2>1 DEF TypeOK
  <2>3. mBuffer' \in [0 .. Capacity - 1 -> Nat \cup {Garbage}]
    BY <1>2, <2>2 DEF AppendCopy, Copy, TypeOK
  <2>4. taken' \in 0 .. MaxBytes
    BY <1>2 DEF AppendCopy, DataNext, TypeOK
  <2> QED
    BY <1>2, <2>1, <2>3, <2>4 DEF AppendCopy, Copy, TypeOK
<1>3. CASE AppendRefused
  BY <1>3 DEF AppendRefused, TypeOK
<1>4. CASE AppendMove
  <2>1. /\ remain \in 0 .. Capacity - mTail
        /\ mHead' = 0 /\ mTail' = remain
    BY <1>4 DEF AppendMove, Move, remain, TypeOK
  <2>2. \A i \in 0 .. Capacity - 1 : i < remain =>
          mBuffer[mHead + i] \in Nat \cup {Garbage}
    BY <2>1 DEF TypeOK
  <2>3. mBuffer' \in [0 .. Capacity - 1 -> Nat \cup {Garbage}]
    BY <1>4, <2>2 DEF AppendMove, Move, TypeOK
  <2> QED
    BY <1>4, <2>1, <2>3 DEF AppendMove, Move, TypeOK
<1>5. ASSUME NEW len \in 1 .. Capacity, Recycle(len) PROVE TypeOK'
  BY <1>5 DEF Recycle, recycle, bufSize, TypeOK
<1>6. CASE Clear
  BY <1>6 DEF Clear, clear, TypeOK
<1>7. CASE UNCHANGED vars
  BY <1>7 DEF vars, TypeOK
<1> QED
  BY <1>1, <1>2, <1>3, <1>4, <1>5, <1>6, <1>7 DEF Next, AppendLoop

LEMMA DataNextStep == TypeOK /\ DataNext /\ [Next]_vars => DataNext'
<1> SUFFICES ASSUME TypeOK, DataNext, [Next]_vars PROVE DataNext'
  OBVIOUS
<1>1. ASSUME NEW n \in 1 .. MaxChunk, AppendCall(n) PROVE DataNext'
  BY <1>1, Chunk DEF AppendCall, DataNext
<1>2. CASE AppendCopy \/ AppendRefused
  BY <1>2 DEF AppendCopy, AppendRefused, DataNext
<1>3. CASE AppendMove \/ Clear \/ \E len \in 1 .. Capacity : Recycle(len)
  BY <1>3 DEF AppendMove, Clear, Recycle, DataNext
<1>4. CASE UNCHANGED vars
  BY <1>4 DEF vars, DataNext
<1> QED
  BY <1>1, <1>2, <1>3, <1>4 DEF Next, AppendLoop

\* The offsets stay inside the buffer and in order, so every copy, move and read
\* is inside its mCapacity bytes.
THEOREM OffsetsInside == Spec => [](TypeOK /\ DataNext)
<1>1. Init => TypeOK /\ DataNext
  BY CapacityAssumption, UserAssumption DEF Init, Allocated, TypeOK, DataNext
<1> QED
  BY <1>1, TypeStep, DataNextStep, PTL DEF Spec

\* With chunks of at most half the capacity an append moves bytes at most once, so
\* its loop has at most two rounds.
THEOREM AppendIsShort == Spec => []OneMove
<1>1. Init => RoomAfterMove
  BY DEF Init, RoomAfterMove
<1>2. TypeOK /\ RoomAfterMove /\ [Next]_vars => RoomAfterMove'
  <2> SUFFICES ASSUME TypeOK, RoomAfterMove, [Next]_vars, 2 * MaxChunk <= Capacity
               PROVE  /\ moves' <= 1
                      /\ (pc' = "append" /\ moves' = 1) => remain' >= Len(data')
    BY DEF RoomAfterMove
  <2> USE DEF bufferVars, remain
  <2>1. CASE AppendMove
    <3>1. Len(data) \in Nat /\ mTail \in Nat /\ Len(data) <= MaxChunk
      BY DEF TypeOK
    <3>2. pc = "append" /\ Capacity - mTail < Len(data) /\ mTail' = Capacity - mTail
      BY <2>1 DEF AppendMove, Move
    <3>3. moves = 0
      BY <3>2 DEF RoomAfterMove, TypeOK
    <3>4. Capacity - mTail' >= Len(data)
      BY <3>1, <3>2, CapacityAssumption, UserAssumption
    <3> QED
      BY <2>1, <3>3, <3>4 DEF AppendMove
  <2>2. CASE AppendCopy \/ AppendRefused \/ \E n \in 1 .. MaxChunk : AppendCall(n)
    BY <2>2 DEF AppendCopy, AppendRefused, AppendCall, RoomAfterMove
  <2>3. CASE Clear \/ \E len \in 1 .. Capacity : Recycle(len)
    BY <2>3 DEF Clear, Recycle, RoomAfterMove
  <2>4. CASE UNCHANGED vars
    BY <2>4 DEF vars, RoomAfterMove
  <2> QED
    BY <2>1, <2>2, <2>3, <2>4 DEF Next, AppendLoop
<1>3. RoomAfterMove => OneMove
  BY DEF RoomAfterMove, OneMove
<1> QED
  BY <1>1, <1>2, <1>3, OffsetsInside, PTL DEF Spec

-----------------------------------------------------------------------------
(* The refinement.                                                         *)

\* No more bytes lie in front of mTail than were ever taken, except inside an
\* append that takes the stream past the capacity.
TailTaken ==
  /\ pc = "append" => Len(data) <= Capacity
  /\ mTail <= taken \/ (pc = "append" /\ ~Within /\ mTail < Capacity)

LEMMA TailTakenStep ==
  ASSUME TypeOK, DataNext, TailTaken, [Next]_vars
  PROVE  TailTaken' /\ (Within => ~AppendMove)
<1> USE CapacityAssumption, UserAssumption DEF bufferVars
<1>1. /\ mTail \in Nat /\ mTail <= Capacity /\ taken \in Nat /\ Len(data) \in Nat
      /\ pc = "append" => Len(data) > 0
  BY DEF TypeOK, DataNext
<1>2. Within => ~AppendMove
  BY <1>1 DEF AppendMove, Move, remain, TailTaken, Within
<1>3. CASE AppendMove
  <2>1. /\ pc = "append" /\ pc' = pc /\ data' = data /\ taken' = taken
        /\ mTail' = Capacity - mTail /\ Capacity - mTail < Len(data)
    BY <1>3 DEF AppendMove, Move, remain
  <2>2. ~Within' /\ mTail' < Capacity
    BY <1>1, <1>2, <1>3, <2>1 DEF Within, TailTaken
  <2> QED
    BY <1>2, <2>1, <2>2 DEF TailTaken
<1>4. CASE AppendCopy
  <2>1. /\ pc = "append" /\ pc' = "ready" /\ taken' = taken + Len(data)
        /\ mTail' = mTail + Len(data) /\ mTail + Len(data) <= Capacity
    BY <1>1, <1>4 DEF AppendCopy, Copy, remain
  <2> QED
    BY <1>1, <1>2, <2>1 DEF TailTaken, Within
<1>5. CASE AppendRefused
  <2>1. pc' = "ready" /\ mTail = Capacity /\ mTail' = mTail /\ taken' = taken
    BY <1>1, <1>5 DEF AppendRefused, Full, remain
  <2> QED
    BY <1>1, <1>2, <2>1 DEF TailTaken
<1>6. ASSUME NEW n \in 1 .. MaxChunk, AppendCall(n)
      PROVE  TailTaken'
  <2>1. Len(data') = n
    BY <1>6, Chunk DEF AppendCall
  <2>2. pc = "ready" /\ n <= Capacity /\ mTail' = mTail /\ taken' = taken
    BY <1>6 DEF AppendCall, TooLarge
  <2> QED
    BY <1>1, <2>1, <2>2 DEF TailTaken
<1>7. CASE Clear \/ \E len \in 1 .. Capacity : Recycle(len)
  BY <1>1, <1>2, <1>7 DEF Clear, clear, Recycle, recycle, TailTaken
<1>8. CASE UNCHANGED vars
  BY <1>2, <1>8 DEF vars, TailTaken, Within
<1> QED
  BY <1>2, <1>3, <1>4, <1>5, <1>6, <1>7, <1>8 DEF Next, AppendLoop

\* A sequence that begins with s and goes on with t.
LEMMA ConcatIs ==
  ASSUME NEW S, NEW s \in Seq(S), NEW t \in Seq(S), NEW u \in Seq(S),
         Len(u) = Len(s) + Len(t),
         \A i \in 1 .. Len(s) : u[i] = s[i],
         \A i \in 1 .. Len(t) : u[Len(s) + i] = t[i]
  PROVE  u = s \o t
<1>1. /\ s \o t \in Seq(S)
      /\ Len(s \o t) = Len(u)
  OBVIOUS
<1>2. ASSUME NEW i \in 1 .. Len(u)
      PROVE  u[i] = (s \o t)[i]
  <2>1. CASE i <= Len(s)
    BY <2>1
  <2>2. CASE i > Len(s)
    <3>1. i - Len(s) \in 1 .. Len(t) /\ Len(s) + (i - Len(s)) = i
      BY <2>2
    <3>2. (s \o t)[i] = t[i - Len(s)]
      BY <2>2
    <3> QED
      BY <3>1, <3>2
  <2> QED
    BY <2>1, <2>2
<1> QED
  BY <1>1, <1>2, SeqEqual

\* Copying a chunk appends it to the contents.
LEMMA CopyTakes ==
  ASSUME TypeOK, TypeOK', DataNext, AppendCopy
  PROVE  Fifo!Take(Len(data)) /\ Len(data) \in 1 .. MaxChunk
<1> DEFINE S == Nat \cup {Garbage}
           chunk == [i \in 1 .. Len(data) |-> taken + i]
<1>1. /\ Len(data) \in 1 .. MaxChunk /\ taken \in Nat /\ mHead \in Nat /\ mTail \in Nat
      /\ mHead <= mTail /\ mTail <= Capacity /\ Capacity \in Nat
  BY CapacityAssumption, UserAssumption DEF TypeOK, DataNext, AppendCopy
<1>2. /\ chunk \in Seq(S) /\ Len(chunk) = Len(data)
      /\ \A i \in 1 .. Len(data) : chunk[i] = taken + i
  <2>1. chunk \in [1 .. Len(data) -> S]
    BY <1>1
  <2> QED
    BY <1>1, <2>1
<1>3. /\ bufSize \in Nat /\ Contents \in Seq(S) /\ Len(Contents) = bufSize
      /\ \A i \in 1 .. bufSize : Contents[i] = mBuffer[mHead + i - 1]
  BY ContentsSeq DEF ContentsOK
<1>4. /\ mHead' = mHead /\ mTail' = mTail + Len(data) /\ mTail' <= Capacity
      /\ bufSize' = bufSize + Len(data)
  BY <1>1 DEF AppendCopy, Copy, remain, bufSize
<1>5. /\ Contents' \in Seq(S) /\ Len(Contents') = bufSize'
      /\ \A i \in 1 .. bufSize' : Contents'[i] = mBuffer'[mHead' + i - 1]
  BY PrimedContents DEF ContentsOK
<1>7. \A j \in 0 .. Capacity - 1 :
        mBuffer'[j] = IF j \in mTail .. mTail + Len(data) - 1 THEN taken + (j - mTail + 1)
                                                            ELSE mBuffer[j]
  BY <1>1 DEF AppendCopy, Copy, DataNext, TypeOK
<1>8. ASSUME NEW i \in 1 .. bufSize
      PROVE  Contents'[i] = Contents[i]
  <2>1. /\ mHead + i - 1 \in 0 .. Capacity - 1 /\ mHead + i - 1 < mTail
        /\ i \in 1 .. bufSize'
    BY <1>1, <1>3, <1>4 DEF bufSize
  <2>2. mBuffer'[mHead + i - 1] = mBuffer[mHead + i - 1]
    BY <1>1, <1>7, <2>1
  <2> QED
    BY <1>3, <1>4, <1>5, <2>1, <2>2
<1>9. ASSUME NEW i \in 1 .. Len(data)
      PROVE  Contents'[bufSize + i] = chunk[i]
  <2> DEFINE j == mTail + i - 1
  <2>1. /\ j \in 0 .. Capacity - 1 /\ j \in mTail .. mTail + Len(data) - 1
        /\ j - mTail + 1 = i
        /\ bufSize + i \in 1 .. bufSize' /\ mHead + (bufSize + i) - 1 = j
    BY <1>1, <1>3, <1>4 DEF bufSize
  <2> HIDE DEF j
  <2>2. mBuffer'[j] = taken + (j - mTail + 1)
    BY <1>7, <2>1
  <2>3. Contents'[bufSize + i] = mBuffer'[j]
    BY <1>4, <1>5, <2>1
  <2> QED
    BY <1>2, <2>1, <2>2, <2>3
<1>10. Contents' = Contents \o chunk
  <2> HIDE DEF chunk, S
  <2>1. Len(Contents') = Len(Contents) + Len(chunk)
    BY <1>2, <1>3, <1>4, <1>5
  <2>2. \A i \in 1 .. Len(Contents) : Contents'[i] = Contents[i]
    BY <1>3, <1>8
  <2>3. \A i \in 1 .. Len(chunk) : Contents'[Len(Contents) + i] = chunk[i]
    BY <1>2, <1>3, <1>9
  <2>4. Contents \in Seq(S) /\ chunk \in Seq(S) /\ Contents' \in Seq(S)
    BY <1>2, <1>3, <1>5
  <2> QED
    BY <2>1, <2>2, <2>3, <2>4, ConcatIs
<1> QED
  BY <1>1, <1>10 DEF Fifo!Take, AppendCopy

\* Recycling takes the oldest bytes off the contents.
LEMMA RecycleGives ==
  ASSUME TypeOK, TypeOK', NEW len \in 1 .. Capacity, Recycle(len)
  PROVE  Fifo!Recycle
<1> DEFINE S == Nat \cup {Garbage}
           rest == SubSeq(Contents, len + 1, Len(Contents))
<1>1. /\ bufSize \in Nat /\ Contents \in Seq(S) /\ Len(Contents) = bufSize
      /\ \A i \in 1 .. bufSize : Contents[i] = mBuffer[mHead + i - 1]
  BY ContentsSeq DEF ContentsOK
<1>2. /\ len \in 1 .. bufSize /\ mHead \in Nat /\ mTail \in Nat
      /\ mHead' = mHead + len /\ bufSize' = bufSize - len /\ mBuffer' = mBuffer
  BY <1>1, CapacityAssumption DEF Recycle, recycle, bufSize, TypeOK
<1>3. /\ Contents' \in Seq(S) /\ Len(Contents') = bufSize'
      /\ \A i \in 1 .. bufSize' : Contents'[i] = mBuffer'[mHead' + i - 1]
  BY PrimedContents DEF ContentsOK
<1>4. \A i \in len + 1 .. bufSize : Contents[i] \in S
  BY <1>1, <1>2
<1>5. /\ rest \in Seq(S)
      /\ Len(rest) = bufSize - len
      /\ \A i \in 1 .. bufSize - len : rest[i] = Contents[len + i]
  <2>1. /\ SubSeq(Contents, len + 1, bufSize) \in Seq(S)
        /\ Len(SubSeq(Contents, len + 1, bufSize)) =
             IF len + 1 <= bufSize THEN bufSize - (len + 1) + 1 ELSE 0
        /\ \A i \in 1 .. bufSize - (len + 1) + 1 :
             SubSeq(Contents, len + 1, bufSize)[i] = Contents[len + 1 + i - 1]
    <3> HIDE DEF S
    <3>1. len + 1 \in Int /\ bufSize \in Int
      BY <1>1, <1>2
    <3> QED
      BY <1>4, <3>1, SubSeqProperties
  <2> QED
    BY <1>1, <1>2, <2>1
<1>6. ASSUME NEW i \in 1 .. bufSize - len
      PROVE  Contents'[i] = rest[i]
  <2>1. len + i \in 1 .. bufSize /\ mHead + len + i - 1 = mHead + (len + i) - 1
    BY <1>1, <1>2
  <2>2. Contents'[i] = mBuffer[mHead + len + i - 1]
    BY <1>2, <1>3
  <2>3. Contents[len + i] = mBuffer[mHead + (len + i) - 1]
    BY <1>1, <2>1
  <2> QED
    BY <1>5, <2>1, <2>2, <2>3
<1>7. Contents' = rest
  <2> HIDE DEF rest, S
  <2> QED
    BY <1>2, <1>3, <1>5, <1>6, SeqEqual
<1> QED
  BY <1>1, <1>2, <1>7 DEF Fifo!Recycle, Recycle

\* As long as no more than mCapacity bytes come, the buffer loses, repeats and
\* reorders none of them, however they are cut into chunks.
THEOREM ShortStreamsAreFifo == Spec => FifoWhileFits
<1>1. Init => Fifo!Init /\ TailTaken
  BY CapacityAssumption DEF Init, Allocated, Fifo!Init, Contents, bufSize, TailTaken
<1>2. TypeOK /\ TypeOK' /\ DataNext /\ TailTaken /\ [Next]_vars =>
        [Within => [Fifo!Next]_<<Contents, taken>>]_vars /\ TailTaken'
  <2> SUFFICES ASSUME TypeOK, TypeOK', DataNext, TailTaken, [Next]_vars, Within
               PROVE  [Fifo!Next]_<<Contents, taken>>
    BY TailTakenStep
  <2>1. CASE AppendCopy
    BY <2>1, CopyTakes DEF Fifo!Next
  <2>2. CASE \E len \in 1 .. Capacity : Recycle(len)
    BY <2>2, RecycleGives DEF Fifo!Next
  <2>3. CASE Clear
    <3>1. Contents' = <<>> /\ taken' = taken
      BY <2>3 DEF Clear, clear, Contents, bufSize
    <3> QED
      BY <3>1 DEF Fifo!Next, Fifo!Clear
  <2>4. CASE AppendRefused \/ (\E n \in 1 .. MaxChunk : AppendCall(n)) \/ UNCHANGED vars
    <3>1. UNCHANGED <<mBuffer, mHead, mTail, taken>>
      BY <2>4 DEF AppendRefused, AppendCall, vars, bufferVars
    <3>2. Contents' = Contents
      BY <3>1 DEF Contents, bufSize
    <3> QED
      BY <3>1, <3>2
  <2> QED
    BY <2>1, <2>2, <2>3, <2>4, TailTakenStep DEF Next, AppendLoop
<1> QED
  BY <1>1, <1>2, OffsetsInside, PTL DEF Spec, FifoWhileFits
=============================================================================
