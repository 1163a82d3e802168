--------------------------- MODULE SessionProofs ---------------------------
(***************************************************************************)
(* Theorems about a connection, for every packet, capacity and cut of the  *)
(* stream: which packets are processed, and that their replies are         *)
(* delivered in order.                                                     *)
(***************************************************************************)
EXTENDS Session, FoldLemmas

\* The bytes of the two buffers.
InByte == [packet : Nat, at : Nat] \cup {Garbage}
OutByte == [reply : Nat, at : Nat] \cup {Garbage}

\* The bytes of buffer b from h up to t: Contents of SessionBuffer.
Bytes(b, h, t) == [i \in 1 .. t - h |-> b[h + i - 1]]

\* FirstPackets and the replies to the first packets, of a client that sends ps.
FirstOf(ps, n) == FlattenSeq([k \in 1 .. n |-> BytesOf(k, ps[k].len)])
RepliesOf(ps, n) == FlattenSeq([k \in 1 .. n |-> FlattenSeq(Reply(k, ps[k]))])

\* Buffers of bytes of S.
Buffer(S) == [0 .. Capacity - 1 -> S]

\* TypeOK, and the types of the rest.
Types ==
  /\ TypeOK
  /\ packets \in Seq(PacketKinds)
  /\ rBuffer \in Buffer(InByte)
  /\ wBuffer \in Buffer(OutByte)
  /\ processed \in Seq(Seq(InByte))
  /\ outgoing \in Seq(Seq(OutByte)) /\ Len(outgoing) <= 2
  /\ pc # "packSend" => outgoing = <<>>
  /\ delivered \in Seq(OutByte)

Open == pc \notin {"closed", "deleted", "undefined"}

\* What was read, with the chunk being appended, is no more than mReadBuffer holds.
Fits == consumed + (IF pc = "append" THEN Len(Chunk) ELSE 0) <= Capacity

\* How many packets have been given back to mReadBuffer.
Given == IF pc = "packSend" THEN Len(processed) - 1 ELSE Len(processed)

\* Up to its capacity mReadBuffer never moves a byte: it is the stream, and its
\* head is at the end of the packets given back.
Reading ==
  Open /\ Fits =>
    /\ rTail = consumed
    /\ rHead = Len(FirstOf(packets, Given))
    /\ \A i \in 0 .. consumed - 1 : rBuffer[i] = Stream[i + 1]
    /\ pc = "packSend" => /\ Len(processed) \in 1 .. Len(packets)
                          /\ header = packets[Len(processed)]

\* The same of mWriteBuffer: what it has taken is what has been replied, but for
\* the pieces that are still to be appended.
Writing ==
  LET replies == RepliesOf(packets, Len(processed))
  IN  Open /\ consumed <= Capacity /\ Len(replies) <= Capacity =>
        /\ delivered \o Bytes(wBuffer, wHead, wTail) \o FlattenSeq(outgoing) = replies
        /\ wTail + Len(FlattenSeq(outgoing)) = Len(replies)

-----------------------------------------------------------------------------
(* The stream.                                                             *)

LEMMA Consts ==
  /\ HeadLen \in Nat /\ HeadLen >= 1 /\ Capacity \in Nat /\ Capacity >= 1
  /\ ReadSize \in Nat /\ ReadSize >= 1 /\ ReadSize <= Capacity
  /\ \A kind \in PacketKinds : kind.len \in Nat /\ kind.len >= HeadLen /\ kind.reply \in Nat
BY SessionAssumption DEF Kinds

LEMMA BytesOfType ==
  ASSUME NEW k \in Nat, NEW len \in Nat
  PROVE  /\ BytesOf(k, len) \in Seq([packet : Nat, at : Nat]) /\ Len(BytesOf(k, len)) = len
         /\ \A i \in 1 .. len : BytesOf(k, len)[i] = [packet |-> k, at |-> i]
<1>1. BytesOf(k, len) \in [1 .. len -> [packet : Nat, at : Nat]]
  BY DEF BytesOf
<1> QED
  BY <1>1 DEF BytesOf

LEMMA PiecesType ==
  ASSUME NEW ps \in Seq(PacketKinds), NEW n \in 0 .. Len(ps)
  PROVE  /\ [k \in 1 .. n |-> BytesOf(k, ps[k].len)] \in Seq(Seq([packet : Nat, at : Nat]))
         /\ Len([k \in 1 .. n |-> BytesOf(k, ps[k].len)]) = n
         /\ FirstOf(ps, n) \in Seq([packet : Nat, at : Nat])
<1> DEFINE S == [packet : Nat, at : Nat]
           s == [k \in 1 .. n |-> BytesOf(k, ps[k].len)]
<1>1. n \in Nat /\ \A k \in 1 .. n : k \in Nat /\ ps[k] \in PacketKinds
  OBVIOUS
<1>2. \A k \in 1 .. n : BytesOf(k, ps[k].len) \in Seq(S)
  BY <1>1, Consts, BytesOfType
<1>3. s \in [1 .. n -> Seq(S)]
  BY <1>2
<1>4. s \in Seq(Seq(S)) /\ Len(s) = n
  BY <1>1, <1>3
<1>5. FlattenSeq(s) \in Seq(S)
  <2> HIDE DEF s, S
  <2> QED
    BY <1>4, FlattenType
<1> QED
  BY <1>4, <1>5 DEF FirstOf

LEMMA ConcatAt ==
  ASSUME NEW S, NEW u \in Seq(S), NEW x \in Seq(S)
  PROVE  /\ Len(u) \in Nat /\ Len(x) \in Nat /\ Len(u \o x) = Len(u) + Len(x)
         /\ \A i \in 1 .. Len(u) : (u \o x)[i] = u[i]
         /\ \A i \in 1 .. Len(x) : (u \o x)[Len(u) + i] = x[i]
BY ConcatProperties

\* One packet more.
LEMMA FirstNext ==
  ASSUME NEW ps \in Seq(PacketKinds), NEW n \in 0 .. Len(ps) - 1
  PROVE  /\ FirstOf(ps, n + 1) = FirstOf(ps, n) \o BytesOf(n + 1, ps[n + 1].len)
         /\ Len(FirstOf(ps, n + 1)) = Len(FirstOf(ps, n)) + ps[n + 1].len
<1> DEFINE S == [packet : Nat, at : Nat]
           s == [k \in 1 .. n |-> BytesOf(k, ps[k].len)]
           t == [k \in 1 .. n + 1 |-> BytesOf(k, ps[k].len)]
<1>1. n \in Nat /\ n \in 0 .. Len(ps) /\ n + 1 \in 0 .. Len(ps) /\ n + 1 \in 1 .. Len(ps)
  OBVIOUS
<1>2. s \in Seq(Seq(S)) /\ Len(s) = n /\ t \in Seq(Seq(S)) /\ Len(t) = n + 1
  BY <1>1, PiecesType
<1>3. /\ \A i \in 1 .. n : t[i] = s[i]
      /\ t[n + 1] = BytesOf(n + 1, ps[n + 1].len)
  BY <1>1
<1>4. FlattenSeq(t) = FlattenSeq(s) \o BytesOf(n + 1, ps[n + 1].len)
  <2> HIDE DEF s, t, S
  <2> QED
    BY <1>2, <1>3, FlattenMore
<1>5. FirstOf(ps, n + 1) = FirstOf(ps, n) \o BytesOf(n + 1, ps[n + 1].len)
  BY <1>4 DEF FirstOf
<1>6. /\ FirstOf(ps, n) \in Seq(S) /\ BytesOf(n + 1, ps[n + 1].len) \in Seq(S)
      /\ Len(BytesOf(n + 1, ps[n + 1].len)) = ps[n + 1].len
  <2>1. ps[n + 1] \in PacketKinds /\ n + 1 \in Nat
    BY <1>1
  <2>2. ps[n + 1].len \in Nat
    BY <2>1, Consts
  <2> QED
    BY <1>1, <2>1, <2>2, PiecesType, BytesOfType
<1> QED
  BY <1>5, <1>6, ConcatAt

LEMMA FirstEmpty == \A ps : FirstOf(ps, 0) = <<>>
<1> TAKE ps
<1>1. [k \in 1 .. 0 |-> BytesOf(k, ps[k].len)] = <<>>
  OBVIOUS
<1> QED
  BY <1>1, FlattenEmpty DEF FirstOf

\* The stream goes on where its first packets end.
LEMMA FirstIsPrefix ==
  ASSUME NEW ps \in Seq(PacketKinds), NEW n \in 0 .. Len(ps)
  PROVE  LET whole == FirstOf(ps, Len(ps))
         IN  /\ Len(FirstOf(ps, n)) <= Len(whole)
             /\ \A i \in 1 .. Len(FirstOf(ps, n)) : whole[i] = FirstOf(ps, n)[i]
<1> DEFINE S == [packet : Nat, at : Nat]
           Prefix(m) == /\ Len(FirstOf(ps, n)) <= Len(FirstOf(ps, m))
                        /\ \A i \in 1 .. Len(FirstOf(ps, n)) : FirstOf(ps, m)[i] = FirstOf(ps, n)[i]
           All == {d \in Nat : n + d <= Len(ps) => Prefix(n + d)}
<1>1. n \in Nat /\ Len(ps) \in Nat /\ n + 0 = n
  OBVIOUS
<1>2. \A m \in 0 .. Len(ps) : FirstOf(ps, m) \in Seq(S) /\ Len(FirstOf(ps, m)) \in Nat
  <2>1. \A m \in 0 .. Len(ps) : FirstOf(ps, m) \in Seq(S)
    BY PiecesType
  <2> QED
    BY <2>1, LenProperties
<1>3. 0 \in All
  BY <1>1, <1>2
<1>4. ASSUME NEW d \in Nat, d \in All PROVE d + 1 \in All
  <2> SUFFICES ASSUME n + (d + 1) <= Len(ps) PROVE Prefix(n + (d + 1))
    OBVIOUS
  <2> DEFINE m == n + d
  <2>1. m \in 0 .. Len(ps) - 1 /\ m + 1 = n + (d + 1) /\ m \in 0 .. Len(ps) /\ m + 1 \in 0 .. Len(ps)
    BY <1>1
  <2>2. Prefix(m)
    BY <1>4, <2>1
  <2> HIDE DEF m
  <2> DEFINE x == BytesOf(m + 1, ps[m + 1].len)
  <2>3. FirstOf(ps, m + 1) = FirstOf(ps, m) \o x
    BY <2>1, FirstNext
  <2>4. x \in Seq(S)
    <3>1. ps[m + 1] \in PacketKinds /\ m + 1 \in Nat
      BY <2>1
    <3>2. ps[m + 1].len \in Nat
      BY <3>1, Consts
    <3> QED
      BY <3>1, <3>2, BytesOfType
  <2> HIDE DEF x
  <2>5. /\ Len(FirstOf(ps, m)) <= Len(FirstOf(ps, m + 1))
        /\ \A i \in 1 .. Len(FirstOf(ps, m)) : FirstOf(ps, m + 1)[i] = FirstOf(ps, m)[i]
    <3> DEFINE u == FirstOf(ps, m)
    <3>1. u \in Seq(S)
      BY <1>2, <2>1
    <3>2. Len(u) <= Len(u \o x) /\ \A i \in 1 .. Len(u) : (u \o x)[i] = u[i]
      <4> HIDE DEF u, S
      <4> QED
        BY <2>4, <3>1
    <3> QED
      BY <2>3, <3>2
  <2>6. Prefix(m + 1)
    BY <1>2, <2>1, <2>2, <2>5
  <2> QED
    BY <2>1, <2>6
<1>5. Nat \subseteq All
  <2> HIDE DEF All
  <2> QED
    BY <1>3, <1>4, NatInduct
<1>6. Len(ps) - n \in Nat /\ n + (Len(ps) - n) = Len(ps)
  BY <1>1
<1>7. Prefix(Len(ps))
  <2>1. Len(ps) - n \in All
    BY <1>5, <1>6
  <2> QED
    BY <1>6, <2>1
<1> QED
  BY <1>7

\* Where the packet after the first n lies in the stream.
LEMMA PacketInStream ==
  ASSUME NEW ps \in Seq(PacketKinds), NEW n \in 0 .. Len(ps) - 1
  PROVE  LET whole == FirstOf(ps, Len(ps))
             base == Len(FirstOf(ps, n))
         IN  /\ base \in Nat /\ base + ps[n + 1].len <= Len(whole)
             /\ \A i \in 1 .. ps[n + 1].len : whole[base + i] = [packet |-> n + 1, at |-> i]
<1> DEFINE S == [packet : Nat, at : Nat]
           u == FirstOf(ps, n)
           len == ps[n + 1].len
           x == BytesOf(n + 1, len)
           whole == FirstOf(ps, Len(ps))
<1>1. n \in 0 .. Len(ps) /\ n + 1 \in 0 .. Len(ps) /\ ps[n + 1] \in PacketKinds /\ n + 1 \in Nat
  OBVIOUS
<1>2. len \in Nat /\ u \in Seq(S)
  BY <1>1, Consts, PiecesType
<1>3. x \in Seq(S) /\ Len(x) = len /\ \A i \in 1 .. len : x[i] = [packet |-> n + 1, at |-> i]
  BY <1>1, <1>2, BytesOfType
<1>4. FirstOf(ps, n + 1) = u \o x
  BY FirstNext
<1>5. /\ Len(u \o x) <= Len(whole)
      /\ \A i \in 1 .. Len(u \o x) : whole[i] = (u \o x)[i]
  BY <1>1, <1>4, FirstIsPrefix
<1> HIDE DEF S, u, x, whole, len
<1>6. /\ Len(u) \in Nat /\ Len(u \o x) = Len(u) + len
      /\ \A i \in 1 .. len : (u \o x)[Len(u) + i] = x[i] /\ Len(u) + i \in 1 .. Len(u \o x)
  <2>1. /\ Len(u) \in Nat /\ Len(u \o x) = Len(u) + Len(x)
        /\ \A i \in 1 .. Len(x) : (u \o x)[Len(u) + i] = x[i]
    <3>1. u \in Seq(S) /\ x \in Seq(S)
      BY <1>2, <1>3
    <3> QED
      BY ONLY <3>1, ConcatAt
  <2> QED
    BY <1>2, <1>3, <2>1
<1>7. \A i \in 1 .. len : whole[Len(u) + i] = [packet |-> n + 1, at |-> i]
  BY <1>3, <1>5, <1>6
<1>8. Len(u) + len <= Len(whole)
  BY <1>5, <1>6
<1> QED
  BY <1>6, <1>7, <1>8 DEF u, whole, len
-----------------------------------------------------------------------------
(* The buffers.                                                            *)

LEMMA BytesType ==
  ASSUME NEW S, NEW b \in Buffer(S), NEW t \in 0 .. Capacity, NEW h \in 0 .. t
  PROVE  /\ Bytes(b, h, t) \in Seq(S) /\ Len(Bytes(b, h, t)) = t - h
         /\ \A i \in 1 .. t - h : Bytes(b, h, t)[i] = b[h + i - 1]
<1>1. t \in Nat /\ h \in Nat /\ t - h \in Nat /\ Capacity \in Nat
  BY Consts
<1>2. \A i \in 1 .. t - h : b[h + i - 1] \in S
  <2> TAKE i \in 1 .. t - h
  <2>1. h + i - 1 \in 0 .. Capacity - 1
    BY <1>1
  <2> QED
    BY <2>1 DEF Buffer
<1>3. Bytes(b, h, t) \in [1 .. t - h -> S]
  BY <1>2 DEF Bytes
<1> QED
  BY <1>1, <1>3 DEF Bytes

\* What a copy does to a buffer.
Copied(b, t, d) ==
  [i \in DOMAIN b |-> IF i \in t .. t + Len(d) - 1 THEN d[i - t + 1] ELSE b[i]]

LEMMA CopyIs ==
  ASSUME NEW S, NEW b \in Buffer(S), NEW t \in 0 .. Capacity, NEW h \in 0 .. t,
         NEW d \in Seq(S), t + Len(d) <= Capacity
  PROVE  /\ Copied(b, t, d) \in Buffer(S)
         /\ \A i \in 0 .. t - 1 : Copied(b, t, d)[i] = b[i]
         /\ \A i \in 1 .. Len(d) : Copied(b, t, d)[t + i - 1] = d[i]
         /\ Bytes(Copied(b, t, d), h, t + Len(d)) = Bytes(b, h, t) \o d
<1> DEFINE c == Copied(b, t, d)
           n == Len(d)
<1>1. /\ t \in Nat /\ h \in Nat /\ Capacity \in Nat /\ n \in Nat /\ t - h \in Nat
      /\ \A i \in 1 .. n : d[i] \in S
  BY Consts
<1>2. \A i \in 0 .. Capacity - 1 :
        c[i] = IF i \in t .. t + n - 1 THEN d[i - t + 1] ELSE b[i]
  BY DEF Copied, Buffer
<1>3. \A i \in 0 .. Capacity - 1 :
        (i \in t .. t + n - 1 => i - t + 1 \in 1 .. n) /\ b[i] \in S
  BY <1>1 DEF Buffer
<1>4. c \in Buffer(S)
  BY <1>1, <1>3 DEF Copied, Buffer
<1>5. \A i \in 0 .. t - 1 : i \in 0 .. Capacity - 1 /\ i \notin t .. t + n - 1
  BY <1>1
<1>6. \A i \in 0 .. t - 1 : c[i] = b[i]
  BY <1>2, <1>5
<1>7. \A i \in 1 .. n : /\ t + i - 1 \in 0 .. Capacity - 1 /\ t + i - 1 \in t .. t + n - 1
                        /\ (t + i - 1) - t + 1 = i
  BY <1>1
<1>8. \A i \in 1 .. n : c[t + i - 1] = d[i]
  <2> TAKE i \in 1 .. n
  <2> DEFINE j == t + i - 1
  <2>1. j \in 0 .. Capacity - 1 /\ j \in t .. t + n - 1 /\ j - t + 1 = i
    BY <1>7
  <2> HIDE DEF j
  <2>2. c[j] = d[j - t + 1]
    BY <1>2, <2>1
  <2> QED
    BY <2>1, <2>2 DEF j
<1> HIDE DEF c
<1>9. t + n \in 0 .. Capacity /\ h \in 0 .. t + n
  BY <1>1
<1> DEFINE old == Bytes(b, h, t)
           new == Bytes(c, h, t + n)
<1>10. /\ old \in Seq(S) /\ Len(old) = t - h /\ \A i \in 1 .. t - h : old[i] = b[h + i - 1]
       /\ new \in Seq(S) /\ Len(new) = t + n - h
       /\ \A i \in 1 .. t + n - h : new[i] = c[h + i - 1]
  <2>1. /\ old \in Seq(S) /\ Len(old) = t - h
        /\ \A i \in 1 .. t - h : old[i] = b[h + i - 1]
    BY BytesType
  <2> DEFINE m == t + n
  <2>2. m \in 0 .. Capacity /\ h \in 0 .. m
    BY <1>9
  <2> HIDE DEF m
  <2>3. /\ Bytes(c, h, m) \in Seq(S) /\ Len(Bytes(c, h, m)) = m - h
        /\ \A i \in 1 .. m - h : Bytes(c, h, m)[i] = c[h + i - 1]
    BY <1>4, <2>2, BytesType
  <2> QED
    BY <2>1, <2>3 DEF m
<1> HIDE DEF old, new, n
<1>11. /\ old \o d \in Seq(S) /\ Len(old \o d) = (t - h) + n
       /\ \A i \in 1 .. t - h : (old \o d)[i] = old[i]
       /\ \A i \in 1 .. n : (old \o d)[(t - h) + i] = d[i]
  <2>1. old \in Seq(S) /\ d \in Seq(S)
    BY <1>10
  <2>2. /\ Len(old \o d) = Len(old) + Len(d)
        /\ \A i \in 1 .. Len(old) : (old \o d)[i] = old[i]
        /\ \A i \in 1 .. Len(d) : (old \o d)[Len(old) + i] = d[i]
    BY ONLY <2>1, ConcatAt
  <2>3. old \o d \in Seq(S)
    BY <2>1
  <2> QED
    BY <1>10, <2>2, <2>3 DEF n
<1>12. ASSUME NEW i \in 1 .. t + n - h PROVE new[i] = (old \o d)[i]
  <2>1. CASE i <= t - h
    <3>1. i \in 1 .. t - h /\ h + i - 1 \in 0 .. t - 1
      BY <1>1, <2>1
    <3> QED
      BY <1>6, <1>10, <1>11, <3>1
  <2>2. CASE i > t - h
    <3> DEFINE k == i - (t - h)
    <3>1. k \in 1 .. n /\ (t - h) + k = i /\ t + k - 1 = h + i - 1
      BY <1>1, <2>2
    <3> HIDE DEF k
    <3>2. c[t + k - 1] = d[k]
      BY <1>8, <3>1 DEF n
    <3> QED
      BY <1>10, <1>11, <3>1, <3>2
  <2>3. i <= t - h \/ i > t - h
    BY <1>1
  <2> QED
    BY <2>1, <2>2, <2>3
<1>13. new = old \o d
  <2>1. Len(new) = Len(old \o d) /\ \A i \in 1 .. Len(new) : new[i] = (old \o d)[i]
    BY <1>1, <1>10, <1>11, <1>12
  <2> QED
    BY <1>10, <1>11, <2>1, SeqEqual
<1> QED
  BY <1>4, <1>6, <1>8, <1>13 DEF c, n, old, new

\* What a move leaves are bytes of the buffer.
LEMMA MoveType ==
  ASSUME NEW S, NEW b \in Buffer(S), NEW t \in 0 .. Capacity, NEW h \in 0 .. t
  PROVE  /\ [i \in DOMAIN b |-> IF i < Capacity - t THEN b[h + i] ELSE b[i]]
              \in Buffer(S)
         /\ Capacity - t \in 0 .. Capacity
<1>1. \A i \in 0 .. Capacity - 1 : i < Capacity - t => h + i \in 0 .. Capacity - 1
  BY Consts
<1> QED
  BY <1>1, Consts DEF Buffer

\* The operations of the two buffers, in these terms.
LEMMA BuffersAre ==
  /\ Read!Contents = Bytes(rBuffer, rHead, rTail)
  /\ Write!Contents = Bytes(wBuffer, wHead, wTail)
  /\ Read!bufSize = rTail - rHead /\ Write!bufSize = wTail - wHead
  /\ \A d : Read!Copy(d) => /\ rBuffer' = Copied(rBuffer, rTail, d) /\ rHead' = rHead
                            /\ Len(d) <= Capacity - rTail /\ rTail' = rTail + Len(d)
  /\ \A d : Write!Copy(d) => /\ wBuffer' = Copied(wBuffer, wTail, d) /\ wHead' = wHead
                             /\ Len(d) <= Capacity - wTail /\ wTail' = wTail + Len(d)
BY DEF Read!Contents, Write!Contents, Bytes, Read!bufSize, Write!bufSize, Read!Copy, Write!Copy,
       Copied, Read!remain, Write!remain
-----------------------------------------------------------------------------
(* The types.                                                              *)

LEMMA StreamType ==
  ASSUME packets \in Seq(PacketKinds)
  PROVE  /\ Len(packets) \in Nat /\ Stream = FirstOf(packets, Len(packets))
         /\ Stream \in Seq([packet : Nat, at : Nat]) /\ Len(Stream) \in Nat
<1>1. Len(packets) \in Nat /\ Len(packets) \in 0 .. Len(packets)
  OBVIOUS
<1>2. Stream = FirstOf(packets, Len(packets))
  BY DEF Stream, FirstPackets, FirstOf
<1>3. Stream \in Seq([packet : Nat, at : Nat])
  BY <1>1, <1>2, PiecesType
<1> QED
  BY <1>1, <1>2, <1>3, LenProperties

LEMMA Offsets ==
  ASSUME Types
  PROVE  /\ rHead \in Nat /\ rTail \in Nat /\ rHead <= rTail /\ rTail <= Capacity
         /\ wHead \in Nat /\ wTail \in Nat /\ wHead <= wTail /\ wTail <= Capacity
         /\ arrived \in Nat /\ consumed \in Nat /\ consumed <= arrived
         /\ arrived <= Len(Stream) /\ Capacity \in Nat /\ Len(Stream) \in Nat
BY StreamType, Consts DEF Types, TypeOK

\* One bufferevent_read takes the next bytes of the stream.
LEMMA ChunkIs ==
  ASSUME Types
  PROVE  /\ Chunk \in Seq(InByte) /\ Len(Chunk) \in Nat /\ consumed + Len(Chunk) <= arrived
         /\ \A i \in 1 .. Len(Chunk) : Chunk[i] = Stream[consumed + i]
<1> DEFINE e == IF arrived - consumed < ReadSize THEN arrived ELSE consumed + ReadSize
           S == [packet : Nat, at : Nat]
<1>1. /\ arrived \in Nat /\ consumed \in Nat /\ consumed <= arrived /\ arrived <= Len(Stream)
      /\ ReadSize \in Nat /\ Len(Stream) \in Nat
  BY Offsets, Consts
<1>2. e \in Nat /\ consumed <= e /\ e <= arrived
  BY <1>1
<1>3. Stream \in Seq(S) /\ Chunk = SubSeq(Stream, consumed + 1, e)
  BY StreamType DEF Chunk, Types
<1> HIDE DEF e, S
<1>4. \A i \in consumed + 1 .. e : Stream[i] \in S
  BY <1>1, <1>2, <1>3
<1>5. /\ Chunk \in Seq(S) /\ Len(Chunk) = e - consumed
      /\ \A i \in 1 .. e - consumed : Chunk[i] = Stream[consumed + i]
  <2>1. consumed + 1 \in Int /\ e \in Int
    BY <1>1, <1>2
  <2>2. /\ SubSeq(Stream, consumed + 1, e) \in Seq(S)
        /\ Len(SubSeq(Stream, consumed + 1, e)) =
             IF consumed + 1 <= e THEN e - (consumed + 1) + 1 ELSE 0
        /\ \A i \in 1 .. e - (consumed + 1) + 1 :
             SubSeq(Stream, consumed + 1, e)[i] = Stream[consumed + 1 + i - 1]
    BY <1>4, <2>1, SubSeqProperties
  <2>3. \A i \in 1 .. e - consumed : consumed + 1 + i - 1 = consumed + i
    BY <1>1, <1>2
  <2> QED
    BY <1>1, <1>2, <1>3, <2>2, <2>3
<1>6. Chunk \in Seq(InByte)
  <2>1. S \subseteq InByte
    BY DEF S, InByte
  <2> QED
    BY <1>5, <2>1
<1> QED
  BY <1>1, <1>2, <1>5, <1>6

LEMMA HeadersType == Types => Headers \subseteq PacketKinds
BY DEF Types, Headers

LEMMA ReplyType ==
  ASSUME NEW n \in Nat, NEW kind \in PacketKinds
  PROVE  /\ Reply(n, kind) \in Seq(Seq(OutByte)) /\ Len(Reply(n, kind)) <= 2
         /\ FlattenSeq(Reply(n, kind)) \in Seq(OutByte)
<1>1. kind.reply \in Nat
  BY Consts
<1> DEFINE head == <<[reply |-> n, at |-> 0]>>
           body == [i \in 1 .. kind.reply |-> [reply |-> n, at |-> i]]
<1>2. head \in Seq(OutByte)
  BY DEF OutByte
<1>3. body \in Seq(OutByte)
  <2>1. body \in [1 .. kind.reply -> OutByte]
    BY <1>1 DEF OutByte
  <2> QED
    BY <1>1, <2>1
<1>4. Reply(n, kind) = <<>> \/ Reply(n, kind) = <<head, body>>
  BY DEF Reply
<1> HIDE DEF head, body
<1>5. Reply(n, kind) \in Seq(Seq(OutByte)) /\ Len(Reply(n, kind)) <= 2
  <2>1. \A T : \A a, b \in T : /\ <<>> \in Seq(T) /\ Len(<<>>) <= 2
                                /\ <<a, b>> \in Seq(T) /\ Len(<<a, b>>) <= 2
    OBVIOUS
  <2> QED
    BY <1>2, <1>3, <1>4, <2>1
<1> QED
  BY <1>5, FlattenType

LEMMA ReadKeepsTypes ==
  ASSUME Types, AppendInput
  PROVE  Types'
<1>1. /\ rHead \in Nat /\ rTail \in Nat /\ rHead <= rTail /\ rTail <= Capacity /\ Capacity \in Nat
      /\ arrived \in Nat /\ consumed \in Nat /\ consumed <= arrived /\ arrived <= Len(Stream)
      /\ Len(Stream) \in Nat
  BY Offsets
<1>2. Chunk \in Seq(InByte) /\ Len(Chunk) \in Nat /\ consumed + Len(Chunk) <= arrived
  BY ChunkIs
<1>3. /\ UNCHANGED <<writeVars, packets, arrived, header, outgoing, processed, delivered>>
      /\ pc = "append" /\ pc' \in {"append", "dispatch"}
      /\ consumed' = consumed \/ consumed' = consumed + Len(Chunk)
  BY DEF AppendInput, Appended, Goto, streamVars
<1>4. Stream' = Stream
  BY <1>3 DEF Stream, FirstPackets, BytesOf
<1>5. rBuffer' \in Buffer(InByte) /\ rTail' \in 0 .. Capacity /\ rHead' \in 0 .. rTail'
  <2>0. rTail \in 0 .. Capacity /\ rHead \in 0 .. rTail /\ rBuffer \in Buffer(InByte)
    BY <1>1 DEF Types
  <2>1. CASE Read!Copy(Chunk)
    <3>1. /\ rBuffer' = Copied(rBuffer, rTail, Chunk) /\ rHead' = rHead
          /\ Len(Chunk) <= Capacity - rTail /\ rTail' = rTail + Len(Chunk)
      BY <2>1, BuffersAre
    <3>2. rTail + Len(Chunk) <= Capacity
      BY <1>1, <1>2, <3>1
    <3>3. rBuffer' \in Buffer(InByte)
      BY <1>2, <2>0, <3>1, <3>2, CopyIs
    <3> QED
      BY <1>1, <1>2, <3>1, <3>2, <3>3
  <2>2. CASE UNCHANGED readVars
    BY <2>0, <2>2 DEF readVars
  <2>3. CASE Read!Move(Len(Chunk))
    <3>1. /\ rBuffer' = [i \in DOMAIN rBuffer |->
                           IF i < Capacity - rTail THEN rBuffer[rHead + i] ELSE rBuffer[i]]
          /\ rHead' = 0 /\ rTail' = Capacity - rTail
      BY <2>3 DEF Read!Move, Read!remain
    <3> QED
      BY <2>0, <3>1, MoveType
  <2> QED
    BY <2>1, <2>2, <2>3 DEF AppendInput
<1>6. consumed' \in 0 .. arrived'
  BY <1>1, <1>2, <1>3
<1>7. TypeOK'
  BY <1>3, <1>4, <1>5, <1>6 DEF Types, TypeOK, writeVars
<1> QED
  BY <1>3, <1>5, <1>7 DEF Types, writeVars

LEMMA SendKeepsTypes ==
  ASSUME Types, PackSend
  PROVE  Types'
<1>1. /\ wHead \in Nat /\ wTail \in Nat /\ wHead <= wTail /\ wTail <= Capacity /\ Capacity \in Nat
  BY Offsets
<1>2. /\ outgoing \in Seq(Seq(OutByte)) /\ outgoing # <<>> /\ Len(outgoing) <= 2
      /\ pc = "packSend" /\ pc' = "packSend"
      /\ UNCHANGED <<readVars, streamVars, header, processed, delivered>>
  BY DEF PackSend, Types
<1> DEFINE piece == Head(outgoing)
<1>3. piece \in Seq(OutByte) /\ Tail(outgoing) \in Seq(Seq(OutByte)) /\ Len(Tail(outgoing)) <= 2
  BY <1>2
<1>4. outgoing' = outgoing \/ outgoing' = Tail(outgoing)
  BY DEF PackSend
<1> HIDE DEF piece
<1>5. wBuffer' \in Buffer(OutByte) /\ wTail' \in 0 .. Capacity /\ wHead' \in 0 .. wTail'
  <2>0. wTail \in 0 .. Capacity /\ wHead \in 0 .. wTail /\ wBuffer \in Buffer(OutByte)
        /\ Len(piece) \in Nat
    BY <1>1, <1>3 DEF Types
  <2>1. CASE Write!Copy(piece)
    <3>1. /\ wBuffer' = Copied(wBuffer, wTail, piece) /\ wHead' = wHead
          /\ Len(piece) <= Capacity - wTail /\ wTail' = wTail + Len(piece)
      BY <2>1, BuffersAre
    <3>2. wTail + Len(piece) <= Capacity
      BY <1>1, <2>0, <3>1
    <3>3. wBuffer' \in Buffer(OutByte)
      BY <1>3, <2>0, <3>1, <3>2, CopyIs
    <3> QED
      BY <1>1, <2>0, <3>1, <3>2, <3>3
  <2>2. CASE UNCHANGED writeVars
    BY <2>0, <2>2 DEF writeVars
  <2>3. CASE Write!Move(Len(piece))
    <3>1. /\ wBuffer' = [i \in DOMAIN wBuffer |->
                           IF i < Capacity - wTail THEN wBuffer[wHead + i] ELSE wBuffer[i]]
          /\ wHead' = 0 /\ wTail' = Capacity - wTail
      BY <2>3 DEF Write!Move, Write!remain
    <3> QED
      BY <2>0, <3>1, MoveType
  <2> QED
    BY <2>1, <2>2, <2>3 DEF PackSend, piece
<1>6. Stream' = Stream
  BY <1>2 DEF Stream, FirstPackets, BytesOf, streamVars
<1>7. TypeOK'
  BY <1>2, <1>5, <1>6 DEF Types, TypeOK, readVars, streamVars
<1>8. outgoing' \in Seq(Seq(OutByte)) /\ Len(outgoing') <= 2
  BY <1>2, <1>3, <1>4
<1> QED
  BY <1>2, <1>5, <1>7, <1>8 DEF Types, readVars, streamVars

LEMMA OthersKeepTypes ==
  ASSUME Types,
         Arrive \/ ReadInput \/ Incomplete \/ Shutdown \/ Process \/ Recycle \/ SendData
         \/ UseDeleted \/ Close
  PROVE  Types'
<1>1. /\ rHead \in Nat /\ rTail \in Nat /\ rHead <= rTail /\ rTail <= Capacity /\ Capacity \in Nat
      /\ wHead \in Nat /\ wTail \in Nat /\ wHead <= wTail /\ wTail <= Capacity
      /\ arrived \in Nat /\ consumed \in Nat /\ consumed <= arrived /\ arrived <= Len(Stream)
      /\ Len(Stream) \in Nat
  BY Offsets
<1>2. UNCHANGED <<rBuffer, wBuffer, packets>>
  BY DEF Arrive, ReadInput, Incomplete, Shutdown, Process, Recycle, SendData, UseDeleted, Close,
         readVars, writeVars, streamVars, Read!clear, Write!clear, Read!recycle, Write!recycle
<1>3. Stream' = Stream
  BY <1>2 DEF Stream, FirstPackets, BytesOf
<1>4. CASE Arrive
  <2>1. arrived' \in arrived + 1 .. Len(Stream) /\ UNCHANGED <<readVars, writeVars, consumed, pc,
          header, outgoing, processed, delivered>>
    BY <1>4 DEF Arrive
  <2>2. arrived' \in 0 .. Len(Stream) /\ consumed' \in 0 .. arrived'
    BY <1>1, <2>1
  <2> QED
    BY <1>2, <1>3, <2>1, <2>2 DEF Types, TypeOK, readVars, writeVars
<1>5. CASE ReadInput \/ Incomplete \/ UseDeleted
  <2>1. /\ UNCHANGED <<readVars, writeVars, streamVars, header, outgoing, processed, delivered>>
        /\ pc' \in {"append", "send", "undefined"} /\ pc # "packSend"
    BY <1>5 DEF ReadInput, Incomplete, UseDeleted, Goto
  <2> QED
    BY <1>2, <1>3, <2>1 DEF Types, TypeOK, readVars, writeVars, streamVars
<1>6. CASE Shutdown \/ Close
  <2>1. /\ UNCHANGED <<streamVars, header, outgoing, processed, delivered>>
        /\ pc' \in {"deleted", "closed"} /\ pc # "packSend"
        /\ rHead' = 0 /\ rTail' = 0 /\ wHead' = 0 /\ wTail' = 0
    BY <1>6 DEF Shutdown, Close, Goto, Read!clear, Write!clear
  <2> QED
    BY <1>1, <1>2, <1>3, <2>1 DEF Types, TypeOK, streamVars
<1>7. CASE Process
  <2> DEFINE piece == SubSeq(Read!Contents, 1, header'.len)
             m == Len(processed')
  <2>1. /\ UNCHANGED <<readVars, writeVars, streamVars, delivered>> /\ pc' = "packSend"
        /\ header' \in Headers /\ Read!bufSize >= header'.len
        /\ processed' = Append(processed, piece)
        /\ outgoing' = Reply(m, header')
    BY <1>7 DEF Process, Goto
  <2>2. header' \in PacketKinds /\ header'.len \in Nat
    BY <2>1, HeadersType, Consts
  <2>3. piece \in Seq(InByte)
    <3>1. rTail \in 0 .. Capacity /\ rHead \in 0 .. rTail /\ rBuffer \in Buffer(InByte)
      BY <1>1 DEF Types
    <3>2. Read!Contents \in Seq(InByte) /\ Len(Read!Contents) = rTail - rHead
      BY <3>1, BytesType, BuffersAre
    <3>3. header'.len <= Len(Read!Contents)
      BY <2>1, <3>2, BuffersAre
    <3>4. \A i \in 1 .. header'.len : Read!Contents[i] \in InByte
      BY <2>2, <3>2, <3>3
    <3>5. 1 \in Int /\ header'.len \in Int
      BY <2>2
    <3> QED
      BY <3>4, <3>5, SubSeqProperties
  <2> HIDE DEF piece
  <2>4. processed' \in Seq(Seq(InByte)) /\ m \in Nat
    <3>1. processed \in Seq(Seq(InByte))
      BY DEF Types
    <3> QED
      BY <2>1, <2>3, <3>1
  <2> HIDE DEF m
  <2>5. outgoing' \in Seq(Seq(OutByte)) /\ Len(outgoing') <= 2
    BY <2>1, <2>2, <2>4, ReplyType
  <2> QED
    BY <1>2, <1>3, <2>1, <2>2, <2>4, <2>5 DEF Types, TypeOK, readVars, writeVars, streamVars
<1>8. CASE Recycle
  <2>1. /\ UNCHANGED <<writeVars, streamVars, header, outgoing, processed, delivered>>
        /\ pc' = "dispatch" /\ outgoing = <<>>
        /\ header.len > 0 /\ header.len <= Read!bufSize /\ rHead' = rHead + header.len
        /\ rTail' = rTail
    BY <1>8 DEF Recycle, Goto, Read!recycle
  <2>2. header.len \in Nat
    BY Consts DEF Types, TypeOK
  <2>3. rHead' \in 0 .. rTail'
    BY <1>1, <2>1, <2>2, BuffersAre
  <2> QED
    BY <1>2, <1>3, <2>1, <2>3 DEF Types, TypeOK, writeVars, streamVars
<1>9. CASE SendData
  <2>1. /\ UNCHANGED <<readVars, streamVars, header, outgoing, processed>> /\ pc' = "idle"
        /\ pc = "send"
    BY <1>9 DEF SendData, Goto
  <2>2. wTail \in 0 .. Capacity /\ wHead \in 0 .. wTail /\ wBuffer \in Buffer(OutByte)
        /\ delivered \in Seq(OutByte)
    BY <1>1 DEF Types
  <2>3. CASE UNCHANGED <<writeVars, delivered>>
    BY <1>2, <1>3, <2>1, <2>3 DEF Types, TypeOK, readVars, writeVars, streamVars
  <2>4. CASE Write!recycle(Write!bufSize) /\ delivered' = delivered \o Write!Contents
    <3>1. wHead' = wTail /\ wTail' = wTail
      <4>1. wHead' = wHead + (wTail - wHead) /\ wTail' = wTail
        BY <2>4, BuffersAre DEF Write!recycle
      <4> QED
        BY <1>1, <4>1
    <3>2. Write!Contents \in Seq(OutByte)
      BY <2>2, BytesType, BuffersAre
    <3>3. delivered' \in Seq(OutByte)
      BY <2>2, <2>4, <3>2, ConcatProperties
    <3> QED
      BY <1>1, <1>2, <1>3, <2>1, <3>1, <3>3 DEF Types, TypeOK, readVars, streamVars
  <2> QED
    BY <1>9, <2>3, <2>4 DEF SendData
<1> QED
  BY <1>4, <1>5, <1>6, <1>7, <1>8, <1>9

LEMMA TypesStep ==
  ASSUME Types, [Next]_vars
  PROVE  Types'
<1>1. CASE UNCHANGED vars
  BY <1>1 DEF vars, Types, TypeOK, Stream, FirstPackets, BytesOf
<1> QED
  BY <1>1, ReadKeepsTypes, SendKeepsTypes, OthersKeepTypes DEF Next, Callbacks

LEMMA InitTypes == Init => Types
<1> SUFFICES ASSUME Init PROVE Types
  OBVIOUS
<1>1. /\ rBuffer = [i \in 0 .. Capacity - 1 |-> Garbage] /\ rHead = 0 /\ rTail = 0
      /\ wBuffer = [i \in 0 .. Capacity - 1 |-> Garbage] /\ wHead = 0 /\ wTail = 0
  BY DEF Init, Read!Allocated, Write!Allocated
<1>2. rBuffer \in Buffer(InByte) /\ wBuffer \in Buffer(OutByte)
  BY <1>1 DEF Buffer, InByte, OutByte
<1>3. packets \in Seq(PacketKinds)
  BY SessionAssumption DEF Init, BoundedSeq, SeqOf
<1>4. header \in PacketKinds
  BY SessionAssumption DEF Init
<1>5. outgoing = <<>> /\ processed = <<>> /\ delivered = <<>> /\ arrived = 0 /\ consumed = 0
      /\ pc = "idle"
  BY DEF Init
<1>6. /\ outgoing \in Seq(Seq(OutByte)) /\ Len(outgoing) <= 2
      /\ processed \in Seq(Seq(InByte)) /\ delivered \in Seq(OutByte)
  BY <1>5
<1>7. Len(Stream) \in Nat
  BY <1>3, StreamType
<1> QED
  BY <1>1, <1>2, <1>3, <1>4, <1>5, <1>6, <1>7, Consts DEF Types, TypeOK

\* The offsets of both buffers stay in order and inside them, whatever the
\* packets say and however they come: every byte the callbacks read or write is
\* inside the mCapacity bytes.
THEOREM OffsetsInOrder == Spec => []TypeOK
<1>1. Types => TypeOK
  BY DEF Types
<1> QED
  BY <1>1, InitTypes, TypesStep, PTL DEF Spec
-----------------------------------------------------------------------------
(* Reading.                                                                *)

\* The steps that leave what was read and processed.
LEMMA SameReading ==
  ASSUME Reading,
         UNCHANGED <<rBuffer, rHead, rTail, packets, consumed, header, processed>>,
         Open' => Open, Fits' => Fits, pc' = "packSend" <=> pc = "packSend"
  PROVE  Reading'
<1>1. Stream' = Stream
  BY DEF Stream, FirstPackets, BytesOf
<1>2. Given' = Given
  BY DEF Given
<1>3. FirstOf(packets, Given)' = FirstOf(packets, Given)
  BY <1>2
<1> QED
  BY <1>1, <1>3 DEF Reading

LEMMA ProcessedCount ==
  ASSUME Types, InOrder, consumed <= Capacity
  PROVE  /\ Len(processed) \in Nat /\ Len(packets) \in Nat /\ Len(processed) <= Len(packets)
         /\ DOMAIN processed = 1 .. Len(processed) /\ DOMAIN packets = 1 .. Len(packets)
<1>1. processed \in Seq(Seq(InByte)) /\ packets \in Seq(PacketKinds)
  BY DEF Types
<1>2. /\ Len(processed) \in Nat /\ Len(packets) \in Nat
      /\ DOMAIN processed = 1 .. Len(processed) /\ DOMAIN packets = 1 .. Len(packets)
  BY <1>1, LenProperties
<1>3. \A n \in 1 .. Len(processed) : n \in 1 .. Len(packets)
  BY <1>2 DEF InOrder
<1> QED
  BY <1>2, <1>3

\* Up to its capacity mReadBuffer takes a chunk without moving a byte.
LEMMA AppendReads ==
  ASSUME Types, Reading, AppendInput
  PROVE  Reading'
<1>1. /\ rHead \in Nat /\ rTail \in Nat /\ rHead <= rTail /\ rTail <= Capacity /\ Capacity \in Nat
      /\ arrived \in Nat /\ consumed \in Nat /\ consumed <= arrived
  BY Offsets
<1>2. /\ Chunk \in Seq(InByte) /\ Len(Chunk) \in Nat
      /\ \A i \in 1 .. Len(Chunk) : Chunk[i] = Stream[consumed + i]
  BY ChunkIs
<1>3. /\ UNCHANGED <<packets, arrived, header, processed>> /\ pc = "append" /\ Open
      /\ \/ Read!Move(Len(Chunk)) /\ consumed' = consumed /\ pc' = "append"
         \/ consumed' = consumed + Len(Chunk) /\ pc' = "dispatch"
  BY DEF AppendInput, Appended, Goto, streamVars, Open
<1>4. Stream' = Stream
  BY <1>3 DEF Stream, FirstPackets, BytesOf
<1>5. CASE ~Fits
  <2>1. ~Fits'
    <3>1. CASE consumed' = consumed /\ pc' = "append"
      <4>1. Chunk' = Chunk
        BY <1>3, <1>4, <3>1 DEF Chunk
      <4> QED
        BY <1>3, <1>5, <3>1, <4>1 DEF Fits
    <3>2. CASE consumed' = consumed + Len(Chunk) /\ pc' = "dispatch"
      BY <1>1, <1>2, <1>3, <1>5, <3>2 DEF Fits
    <3> QED
      BY <1>3, <3>1, <3>2
  <2> QED
    BY <2>1 DEF Reading
<1>6. CASE Fits
  <2>1. /\ rTail = consumed /\ rHead = Len(FirstOf(packets, Given))
        /\ \A i \in 0 .. consumed - 1 : rBuffer[i] = Stream[i + 1]
    BY <1>3, <1>6 DEF Reading
  <2>2. consumed + Len(Chunk) <= Capacity
    BY <1>3, <1>6 DEF Fits
  <2>3. ~Read!Move(Len(Chunk))
    BY <1>1, <1>2, <2>1, <2>2 DEF Read!Move, Read!remain
  <2>4. CASE Read!Copy(Chunk)
    <3>1. /\ rBuffer' = Copied(rBuffer, rTail, Chunk) /\ rHead' = rHead
          /\ rTail' = rTail + Len(Chunk)
      BY <2>4, BuffersAre
    <3>2. /\ \A i \in 0 .. rTail - 1 : rBuffer'[i] = rBuffer[i]
          /\ \A i \in 1 .. Len(Chunk) : rBuffer'[rTail + i - 1] = Chunk[i]
      <4>1. rTail \in 0 .. Capacity /\ rHead \in 0 .. rTail /\ rBuffer \in Buffer(InByte)
            /\ rTail + Len(Chunk) <= Capacity
        BY <1>1, <2>1, <2>2 DEF Types
      <4> QED
        BY <1>2, <3>1, <4>1, CopyIs
    <3>3. \A i \in 0 .. consumed' - 1 : rBuffer'[i] = Stream[i + 1]
      <4> TAKE i \in 0 .. consumed' - 1
      <4>1. CASE i < consumed
        <5>1. i \in 0 .. consumed - 1
          BY <1>1, <4>1
        <5> QED
          BY <2>1, <3>2, <5>1
      <4>2. CASE ~(i < consumed)
        <5> DEFINE j == i - consumed + 1
        <5>1. j \in 1 .. Len(Chunk) /\ consumed + j - 1 = i /\ consumed + j = i + 1
          BY <1>1, <1>2, <1>3, <2>3, <4>2
        <5> HIDE DEF j
        <5>2. rBuffer'[consumed + j - 1] = Chunk[j]
          BY <2>1, <3>2, <5>1
        <5> QED
          BY <1>2, <5>1, <5>2
      <4> QED
        BY <4>1, <4>2
    <3>4. Given' = Given
      BY <1>3, <2>3 DEF Given
    <3>5. FirstOf(packets, Given)' = FirstOf(packets, Given)
      BY <1>3, <3>4
    <3> QED
      BY <1>3, <1>4, <2>1, <2>3, <3>1, <3>3, <3>5 DEF Reading
  <2>5. CASE Read!Full(Len(Chunk)) /\ UNCHANGED readVars
    BY <1>1, <1>2, <2>1, <2>2, <2>5 DEF Read!Full, Read!remain
  <2> QED
    BY <2>3, <2>4, <2>5 DEF AppendInput
<1> QED
  BY <1>5, <1>6

\* In dispatch mReadBuffer begins with the packet after those processed.
LEMMA NextAtHead ==
  ASSUME Types, Reading, InOrder, consumed <= Capacity, pc = "dispatch",
         NEW n, n = Len(processed)
  PROVE  /\ n \in 0 .. Len(packets) /\ rHead = Len(FirstOf(packets, n))
         /\ Read!bufSize = consumed - rHead /\ consumed \in Nat /\ rHead \in Nat
         /\ HasHeader =>
              /\ n \in 0 .. Len(packets) - 1 /\ Headers = {packets[n + 1]}
              /\ \A m \in 1 .. packets[n + 1].len :
                   m <= consumed - rHead => SubSeq(Read!Contents, 1, m) = BytesOf(n + 1, m)
<1>1. /\ rHead \in Nat /\ rTail \in Nat /\ rHead <= rTail /\ rTail <= Capacity /\ Capacity \in Nat
      /\ consumed \in Nat /\ consumed <= Len(Stream) /\ Len(Stream) \in Nat
  BY Offsets
<1>2. /\ n \in Nat /\ Len(packets) \in Nat /\ n <= Len(packets)
      /\ DOMAIN packets = 1 .. Len(packets)
  BY ProcessedCount
<1>3. n \in 0 .. Len(packets)
  BY <1>2
<1>4. /\ rTail = consumed /\ rHead = Len(FirstOf(packets, n))
      /\ \A i \in 0 .. consumed - 1 : rBuffer[i] = Stream[i + 1]
  <2>1. Open /\ Fits /\ Given = n
    BY <1>1 DEF Open, Fits, Given
  <2> QED
    BY <2>1 DEF Reading
<1>5. packets \in Seq(PacketKinds) /\ Stream = FirstOf(packets, Len(packets))
  BY StreamType DEF Types
<1>6. Read!bufSize = consumed - rHead
  BY <1>4, BuffersAre
<1> SUFFICES ASSUME HasHeader
             PROVE  /\ n \in 0 .. Len(packets) - 1 /\ Headers = {packets[n + 1]}
                    /\ \A m \in 1 .. packets[n + 1].len :
                         m <= consumed - rHead => SubSeq(Read!Contents, 1, m) = BytesOf(n + 1, m)
  BY <1>1, <1>3, <1>4, <1>6
<1>7. n \in 0 .. Len(packets) - 1
  <2>1. n # Len(packets)
    <3> SUFFICES ASSUME n = Len(packets) PROVE FALSE
      OBVIOUS
    <3>1. rHead = Len(Stream)
      BY <1>4, <1>5
    <3> QED
      BY <1>1, <1>6, <3>1, Consts DEF HasHeader
  <2> QED
    <3>1. n \in Nat /\ Len(packets) \in Nat /\ n <= Len(packets)
      BY <1>2
    <3> QED
      BY ONLY <2>1, <3>1
<1> DEFINE len == packets[n + 1].len
<1>8. n + 1 \in 1 .. Len(packets) /\ packets[n + 1] \in PacketKinds
  <2>1. n + 1 \in 1 .. Len(packets)
    BY <1>7
  <2> QED
    BY <1>5, <2>1
<1>9. len \in Nat /\ len >= HeadLen /\ HeadLen \in Nat /\ HeadLen >= 1
  BY <1>8, Consts
<1>10. \A i \in 1 .. len : Stream[rHead + i] = [packet |-> n + 1, at |-> i]
  BY <1>4, <1>5, <1>7, PacketInStream
<1> HIDE DEF len
<1>11. /\ Read!Contents \in Seq(InByte) /\ Len(Read!Contents) = consumed - rHead
       /\ \A i \in 1 .. consumed - rHead : Read!Contents[i] = rBuffer[rHead + i - 1]
  <2>1. rTail \in 0 .. Capacity /\ rHead \in 0 .. rTail /\ rBuffer \in Buffer(InByte)
    BY <1>1 DEF Types
  <2>2. /\ Bytes(rBuffer, rHead, rTail) \in Seq(InByte)
        /\ Len(Bytes(rBuffer, rHead, rTail)) = rTail - rHead
        /\ \A i \in 1 .. rTail - rHead :
             Bytes(rBuffer, rHead, rTail)[i] = rBuffer[rHead + i - 1]
    BY <2>1, BytesType
  <2> QED
    BY <1>4, <2>2, BuffersAre
<1>12. ASSUME NEW m \in 1 .. len, m <= consumed - rHead
       PROVE  SubSeq(Read!Contents, 1, m) = BytesOf(n + 1, m)
  <2> DEFINE s == SubSeq(Read!Contents, 1, m)
             t == BytesOf(n + 1, m)
             S == [packet : Nat, at : Nat]
  <2>1. m \in Nat /\ n + 1 \in Nat
    BY <1>2, <1>9
  <2>2. t \in Seq(S) /\ Len(t) = m /\ \A i \in 1 .. m : t[i] = [packet |-> n + 1, at |-> i]
    BY <2>1, BytesOfType
  <2>3. \A i \in 1 .. m : Read!Contents[i] \in InByte
    BY <1>1, <1>11, <1>12
  <2>4. s \in Seq(InByte) /\ Len(s) = m /\ \A i \in 1 .. m : s[i] = Read!Contents[i]
    <3>1. 1 \in Int /\ m \in Int
      BY <2>1
    <3>2. /\ s \in Seq(InByte)
          /\ Len(s) = IF 1 <= m THEN m - 1 + 1 ELSE 0
          /\ \A i \in 1 .. m - 1 + 1 : s[i] = Read!Contents[1 + i - 1]
      BY <2>3, <3>1, SubSeqProperties
    <3>3. 1 <= m /\ m - 1 + 1 = m /\ \A i \in 1 .. m : 1 + i - 1 = i
      BY <2>1
    <3> HIDE DEF s
    <3> QED
      BY <3>2, <3>3
  <2>5. \A i \in 1 .. m : s[i] = t[i]
    <3> TAKE i \in 1 .. m
    <3>1. i \in 1 .. len /\ i \in 1 .. consumed - rHead /\ rHead + i - 1 \in 0 .. consumed - 1
          /\ (rHead + i - 1) + 1 = rHead + i
      BY <1>1, <1>9, <1>12, <2>1
    <3>2. rBuffer[rHead + i - 1] = Stream[rHead + i]
      BY <1>4, <3>1
    <3> HIDE DEF s, t
    <3> QED
      BY <1>10, <1>11, <2>2, <2>4, <3>1, <3>2
  <2>6. t \in Seq(InByte)
    <3>1. S \subseteq InByte
      BY DEF InByte
    <3> HIDE DEF t, S
    <3> QED
      BY <2>2, <3>1
  <2> HIDE DEF s, t
  <2>7. s = t
    BY <2>2, <2>4, <2>5, <2>6, SeqEqual
  <2> QED
    BY <2>7 DEF s, t
<1>13. Headers = {packets[n + 1]}
  <2>1. SubSeq(Read!Contents, 1, HeadLen) = BytesOf(n + 1, HeadLen)
    <3>1. HeadLen \in 1 .. len /\ HeadLen <= consumed - rHead
      BY <1>6, <1>9 DEF HasHeader
    <3> QED
      BY <1>12, <3>1
  <2>2. ASSUME NEW k \in DOMAIN packets, BytesOf(k, HeadLen) = BytesOf(n + 1, HeadLen)
        PROVE  k = n + 1
    <3>1. k \in Nat /\ n + 1 \in Nat /\ 1 \in 1 .. HeadLen
      BY <1>2, <1>9
    <3>2. /\ BytesOf(k, HeadLen)[1] = [packet |-> k, at |-> 1]
          /\ BytesOf(n + 1, HeadLen)[1] = [packet |-> n + 1, at |-> 1]
      BY <1>9, <3>1, BytesOfType
    <3>3. [packet |-> k, at |-> 1].packet = [packet |-> n + 1, at |-> 1].packet
      BY <2>2, <3>2
    <3> QED
      BY <3>3
  <2>3. n + 1 \in DOMAIN packets
    BY <1>2, <1>8
  <2>4. {k \in DOMAIN packets : SubSeq(Read!Contents, 1, HeadLen) = BytesOf(k, HeadLen)} = {n + 1}
    BY <2>1, <2>2, <2>3
  <2> QED
    BY <2>4 DEF Headers
<1> QED
  BY <1>7, <1>12, <1>13 DEF len

\* A packet that is processed is the next of the stream.
LEMMA ProcessIsNext ==
  ASSUME Types, Reading, InOrder, consumed <= Capacity, Process, NEW n, n = Len(processed)
  PROVE  /\ n \in 0 .. Len(packets) - 1 /\ header' = packets[n + 1]
         /\ processed' = Append(processed, BytesOf(n + 1, packets[n + 1].len))
         /\ rHead = Len(FirstOf(packets, n))
<1>1. /\ HasHeader /\ header' \in Headers /\ Read!bufSize >= header'.len
      /\ processed' = Append(processed, SubSeq(Read!Contents, 1, header'.len))
      /\ pc = "dispatch"
  BY DEF Process, Goto
<1> DEFINE len == packets[n + 1].len
<1>2. /\ n \in 0 .. Len(packets) - 1 /\ Headers = {packets[n + 1]}
      /\ rHead = Len(FirstOf(packets, n))
      /\ Read!bufSize = consumed - rHead /\ consumed \in Nat /\ rHead \in Nat
      /\ \A m \in 1 .. len :
           m <= consumed - rHead => SubSeq(Read!Contents, 1, m) = BytesOf(n + 1, m)
  BY <1>1, NextAtHead
<1>3. header' = packets[n + 1]
  BY <1>1, <1>2
<1>4. len \in Nat /\ len >= 1
  <2>1. packets[n + 1] \in PacketKinds
    BY <1>2 DEF Types
  <2> QED
    BY <2>1, Consts
<1>5. SubSeq(Read!Contents, 1, header'.len) = BytesOf(n + 1, len)
  <2>1. len \in 1 .. len /\ len <= consumed - rHead
    BY <1>1, <1>2, <1>3, <1>4
  <2> HIDE DEF len
  <2>2. header'.len = len
    BY <1>3 DEF len
  <2> QED
    BY <1>2, <2>1, <2>2
<1> QED
  BY <1>1, <1>2, <1>3, <1>5

\* The end of the chunk moves with what has arrived.
LEMMA PartLen ==
  ASSUME NEW S, NEW s \in Seq(S), NEW a \in 0 .. Len(s), NEW c \in 0 .. a
  PROVE  Len(SubSeq(s, c + 1, IF a - c < ReadSize THEN a ELSE c + ReadSize))
           = IF a - c < ReadSize THEN a - c ELSE ReadSize
<1> DEFINE e == IF a - c < ReadSize THEN a ELSE c + ReadSize
<1>1. /\ Len(s) \in Nat /\ a \in Nat /\ c \in Nat /\ c <= a /\ a <= Len(s) /\ ReadSize \in Nat
      /\ e \in Nat /\ c <= e /\ e <= a
      /\ e - c = IF a - c < ReadSize THEN a - c ELSE ReadSize
  BY Consts
<1> HIDE DEF e
<1>2. Len(SubSeq(s, c + 1, e)) = e - c
  <2>1. \A i \in c + 1 .. e : s[i] \in S
    BY <1>1
  <2>2. c + 1 \in Int /\ e \in Int
    BY <1>1
  <2>3. Len(SubSeq(s, c + 1, e)) = IF c + 1 <= e THEN e - (c + 1) + 1 ELSE 0
    BY <2>1, <2>2, SubSeqProperties
  <2> QED
    BY <1>1, <2>3
<1> QED
  BY <1>1, <1>2 DEF e

LEMMA ArriveFits ==
  ASSUME Types, Arrive
  PROVE  Fits' => Fits
<1>1. /\ arrived \in Nat /\ consumed \in Nat /\ consumed <= arrived /\ arrived <= Len(Stream)
      /\ Capacity \in Nat /\ Len(Stream) \in Nat /\ ReadSize \in Nat
  BY Offsets, Consts
<1>2. /\ UNCHANGED <<packets, consumed, pc>>
      /\ arrived' \in Nat /\ arrived <= arrived' /\ arrived' <= Len(Stream)
  BY <1>1 DEF Arrive
<1>3. Stream' = Stream
  BY <1>2 DEF Stream, FirstPackets, BytesOf
<1>4. Stream \in Seq([packet : Nat, at : Nat])
  BY StreamType DEF Types
<1>5. arrived \in 0 .. Len(Stream) /\ consumed \in 0 .. arrived
      /\ arrived' \in 0 .. Len(Stream) /\ consumed \in 0 .. arrived'
  BY <1>1, <1>2
<1>6. Len(Chunk) = IF arrived - consumed < ReadSize THEN arrived - consumed ELSE ReadSize
  BY <1>4, <1>5, PartLen DEF Chunk
<1>7. Len(Chunk') = IF arrived' - consumed < ReadSize THEN arrived' - consumed ELSE ReadSize
  <2>1. Chunk' = SubSeq(Stream, consumed + 1,
                        IF arrived' - consumed < ReadSize THEN arrived' ELSE consumed + ReadSize)
    BY <1>2, <1>3 DEF Chunk
  <2> QED
    BY <1>4, <1>5, <2>1, PartLen
<1>8. Len(Chunk) <= Len(Chunk') /\ Len(Chunk) \in Nat /\ Len(Chunk') \in Nat
  <2> DEFINE Size(c, a) == IF a - c < ReadSize THEN a - c ELSE ReadSize
  <2>1. \A c, a, b \in Nat : c <= a /\ a <= b =>
          Size(c, a) <= Size(c, b) /\ Size(c, a) \in Nat /\ Size(c, b) \in Nat
    BY Consts
  <2>2. /\ Size(consumed, arrived) <= Size(consumed, arrived')
        /\ Size(consumed, arrived) \in Nat /\ Size(consumed, arrived') \in Nat
    <3> HIDE DEF Size
    <3> QED
      BY <1>1, <1>2, <2>1
  <2> QED
    BY <1>6, <1>7, <2>2
<1> QED
  BY <1>1, <1>2, <1>8 DEF Fits

LEMMA ReadingStep ==
  ASSUME Types, Reading, InOrder, [Next]_vars
  PROVE  Reading'
<1>1. /\ consumed \in Nat /\ Capacity \in Nat
      /\ rHead \in Nat /\ rTail \in Nat
  BY Offsets
<1>2. CASE UNCHANGED vars
  <2>1. Stream' = Stream
    BY <1>2 DEF vars, Stream, FirstPackets, BytesOf
  <2>2. Fits' = Fits /\ Open' = Open
    BY <1>2, <2>1 DEF vars, Fits, Open, Chunk
  <2> QED
    BY <1>2, <2>2, SameReading DEF vars
<1>3. CASE Arrive
  <2>1. /\ UNCHANGED <<rBuffer, rHead, rTail, packets, consumed, header, processed, pc>>
    BY <1>3 DEF Arrive, readVars
  <2>2. Open' => Open
    BY <2>1 DEF Open
  <2> QED
    BY <1>3, <2>1, <2>2, ArriveFits, SameReading
<1>4. CASE ReadInput \/ Incomplete \/ PackSend \/ SendData
  <2>1. /\ UNCHANGED <<rBuffer, rHead, rTail, packets, consumed, header, processed>>
        /\ pc' = "packSend" <=> pc = "packSend"
        /\ pc # "append" /\ Open
    BY <1>4 DEF ReadInput, Incomplete, PackSend, SendData, Goto, readVars, streamVars, Open
  <2>2. Fits' => Fits
    <3>1. Fits <=> consumed <= Capacity
      BY <1>1, <2>1 DEF Fits
    <3>2. Fits' => consumed <= Capacity
      <4>1. CASE pc' = "append"
        <5>1. ReadInput
          BY <1>4, <4>1 DEF Incomplete, PackSend, SendData, Goto
        <5>2. Stream' = Stream /\ Chunk' = Chunk
          BY <5>1 DEF ReadInput, streamVars, Stream, FirstPackets, BytesOf, Chunk
        <5>3. Len(Chunk) \in Nat
          BY ChunkIs
        <5>4. Fits' => consumed + Len(Chunk) <= Capacity
          BY <2>1, <4>1, <5>2 DEF Fits
        <5> QED
          BY <1>1, <5>3, <5>4
      <4>2. CASE pc' # "append"
        BY <1>1, <2>1, <4>2 DEF Fits
      <4> QED
        BY <4>1, <4>2
    <3> QED
      BY <3>1, <3>2
  <2> QED
    BY <2>1, <2>2, SameReading
<1>5. CASE Shutdown \/ Close \/ UseDeleted
  <2>1. ~Open'
    BY <1>5 DEF Shutdown, Close, UseDeleted, Goto, Open
  <2> QED
    BY <2>1 DEF Reading
<1>6. CASE AppendInput
  BY <1>6, AppendReads
<1>7. CASE Process
  <2>1. UNCHANGED <<rBuffer, rHead, rTail, packets, consumed>> /\ pc' = "packSend" /\ Open
        /\ pc = "dispatch"
    BY <1>7 DEF Process, Goto, readVars, streamVars, Open
  <2>2. SUFFICES ASSUME consumed <= Capacity PROVE Reading'
    <3>1. Fits' => consumed <= Capacity
      BY <1>1, <2>1 DEF Fits
    <3> QED
      BY <2>2, <3>1 DEF Reading
  <2> DEFINE n == Len(processed)
  <2>3. /\ n \in 0 .. Len(packets) - 1 /\ header' = packets[n + 1]
        /\ processed' = Append(processed, BytesOf(n + 1, packets[n + 1].len))
        /\ rHead = Len(FirstOf(packets, n))
    BY <1>7, <2>2, ProcessIsNext
  <2>4. Len(processed') = n + 1 /\ n \in Nat /\ n + 1 \in 1 .. Len(packets)
    <3>1. n \in Nat /\ Len(packets) \in Nat
      BY <2>2, ProcessedCount
    <3>2. Len(processed') = n + 1
      BY <2>3
    <3> QED
      BY <2>3, <3>1, <3>2
  <2> HIDE DEF n
  <2>5. Given' = n
    BY <2>1, <2>4 DEF Given
  <2>6. Fits
    BY <1>1, <2>1, <2>2 DEF Fits
  <2>7. Stream' = Stream
    BY <2>1 DEF Stream, FirstPackets, BytesOf
  <2>8. rTail = consumed /\ \A i \in 0 .. consumed - 1 : rBuffer[i] = Stream[i + 1]
    BY <2>1, <2>6 DEF Reading
  <2>9. FirstOf(packets, Given)' = FirstOf(packets, n)
    BY <2>1, <2>5
  <2>10. /\ rTail' = consumed' /\ rHead' = Len(FirstOf(packets, Given)')
         /\ \A i \in 0 .. consumed' - 1 : rBuffer'[i] = Stream'[i + 1]
    BY <2>1, <2>3, <2>7, <2>8, <2>9
  <2>11. Len(processed') \in 1 .. Len(packets') /\ header' = packets'[Len(processed')]
    BY <2>1, <2>3, <2>4
  <2> QED
    BY <2>10, <2>11 DEF Reading
<1>8. CASE Recycle
  <2>1. /\ UNCHANGED <<rBuffer, rTail, packets, consumed, header, processed>>
        /\ pc = "packSend" /\ pc' = "dispatch" /\ Open /\ rHead' = rHead + header.len
    BY <1>8 DEF Recycle, Goto, Read!recycle, streamVars, Open
  <2>2. SUFFICES ASSUME consumed <= Capacity PROVE Reading'
    <3>1. Fits' => consumed <= Capacity
      BY <1>1, <2>1 DEF Fits
    <3> QED
      BY <2>2, <3>1 DEF Reading
  <2> DEFINE n == Len(processed) - 1
  <2>3. Fits /\ Given = n /\ Given' = Len(processed)
    BY <1>1, <2>1, <2>2 DEF Fits, Given
  <2>4. /\ rTail = consumed /\ rHead = Len(FirstOf(packets, n))
        /\ \A i \in 0 .. consumed - 1 : rBuffer[i] = Stream[i + 1]
        /\ Len(processed) \in 1 .. Len(packets) /\ header = packets[Len(processed)]
    BY <2>1, <2>3 DEF Reading
  <2>5. n \in 0 .. Len(packets) - 1 /\ n + 1 = Len(processed)
    <3>1. Len(packets) \in Nat
      BY <2>2, ProcessedCount
    <3> QED
      BY <2>4, <3>1
  <2>6. packets \in Seq(PacketKinds)
    BY DEF Types
  <2> HIDE DEF n
  <2>7. Len(FirstOf(packets, n + 1)) = Len(FirstOf(packets, n)) + packets[n + 1].len
    BY <2>5, <2>6, FirstNext
  <2>8. rHead' = Len(FirstOf(packets, Given)')
    BY <2>1, <2>3, <2>4, <2>5, <2>7
  <2>9. Stream' = Stream
    BY <2>1 DEF Stream, FirstPackets, BytesOf
  <2> QED
    BY <2>1, <2>4, <2>8, <2>9 DEF Reading
<1> QED
  BY <1>2, <1>3, <1>4, <1>5, <1>6, <1>7, <1>8 DEF Next, Callbacks

LEMMA InOrderStep ==
  ASSUME Types, Reading, InOrder, [Next]_vars
  PROVE  InOrder'
<1>1. CASE Process
  <2>1. UNCHANGED <<packets, consumed>>
    BY <1>1 DEF Process, streamVars
  <2>2. SUFFICES ASSUME consumed <= Capacity PROVE InOrder'
    BY <2>1 DEF InOrder
  <2> DEFINE n == Len(processed)
             x == BytesOf(n + 1, packets[n + 1].len)
  <2>3. n \in 0 .. Len(packets) - 1 /\ processed' = Append(processed, x)
    BY <1>1, <2>2, ProcessIsNext
  <2>4. /\ n \in Nat /\ Len(packets) \in Nat
        /\ DOMAIN processed = 1 .. n /\ DOMAIN packets = 1 .. Len(packets)
    BY <2>2, ProcessedCount
  <2>5. n + 1 \in DOMAIN packets
    BY <2>3, <2>4
  <2> HIDE DEF x
  <2>6. /\ DOMAIN processed' = 1 .. n + 1 /\ processed'[n + 1] = x
        /\ \A m \in 1 .. n : processed'[m] = processed[m]
    <3>1. processed \in Seq(Seq(InByte)) /\ processed' \in Seq(Seq(InByte))
      BY TypesStep DEF Types
    <3>2. Len(processed') = n + 1
      BY <2>3
    <3> QED
      BY <2>3, <3>1, <3>2
  <2> HIDE DEF n
  <2>7. \A m \in 1 .. n : m \in DOMAIN packets /\ processed[m] = BytesOf(m, packets[m].len)
    BY <2>2, <2>4 DEF InOrder
  <2>8. \A m \in 1 .. n + 1 : m \in 1 .. n \/ m = n + 1
    BY <2>4
  <2>9. \A m \in DOMAIN processed' :
          m \in DOMAIN packets /\ processed'[m] = BytesOf(m, packets[m].len)
    BY <2>5, <2>6, <2>7, <2>8 DEF x
  <2> QED
    BY <2>1, <2>9 DEF InOrder, BytesOf
<1>2. CASE [Arrive \/ ReadInput \/ AppendInput \/ Incomplete \/ Shutdown \/ PackSend \/ Recycle
            \/ SendData \/ UseDeleted \/ Close]_vars
  <2>1. UNCHANGED <<packets, processed>>
    BY <1>2 DEF Arrive, ReadInput, AppendInput, Appended, Incomplete, Shutdown, PackSend, Recycle,
                SendData, UseDeleted, Close, streamVars, vars
  <2>2. consumed' <= Capacity => consumed <= Capacity
    <3>1. consumed' = consumed \/ consumed' = consumed + Len(Chunk)
      BY <1>2 DEF Arrive, ReadInput, AppendInput, Appended, Incomplete, Shutdown, PackSend,
                  Recycle, SendData, UseDeleted, Close, streamVars, vars
    <3>2. Len(Chunk) \in Nat /\ consumed \in Nat /\ Capacity \in Nat
      BY ChunkIs, Offsets
    <3> QED
      BY <3>1, <3>2
  <2> QED
    BY <2>1, <2>2 DEF InOrder, BytesOf
<1> QED
  BY <1>1, <1>2 DEF Next, Callbacks

LEMMA InitReading == Init => Reading /\ InOrder
<1> SUFFICES ASSUME Init PROVE Reading /\ InOrder
  OBVIOUS
<1>1. rHead = 0 /\ rTail = 0 /\ consumed = 0 /\ processed = <<>> /\ pc = "idle"
  BY DEF Init, Read!Allocated
<1>2. Given = 0
  BY <1>1 DEF Given
<1>3. Len(FirstOf(packets, Given)) = 0
  BY <1>2, FirstEmpty
<1>4. Reading
  BY <1>1, <1>3 DEF Reading
<1> QED
  BY <1>1, <1>4 DEF InOrder

\* However the stream is cut, process is called for the packets of the stream,
\* in order and whole, as long as mReadBuffer was not given more than it holds.
THEOREM PacketsInOrder == Spec => []InOrder
<1> QED
  BY InitTypes, TypesStep, InitReading, ReadingStep, InOrderStep, PTL DEF Spec
-----------------------------------------------------------------------------
(* Writing.                                                                *)

LEMMA RepliesType ==
  ASSUME NEW ps \in Seq(PacketKinds), NEW n \in 0 .. Len(ps)
  PROVE  /\ [k \in 1 .. n |-> FlattenSeq(Reply(k, ps[k]))] \in Seq(Seq(OutByte))
         /\ Len([k \in 1 .. n |-> FlattenSeq(Reply(k, ps[k]))]) = n
         /\ RepliesOf(ps, n) \in Seq(OutByte)
<1> DEFINE s == [k \in 1 .. n |-> FlattenSeq(Reply(k, ps[k]))]
<1>1. n \in Nat /\ \A k \in 1 .. n : k \in Nat /\ ps[k] \in PacketKinds
  OBVIOUS
<1>2. \A k \in 1 .. n : FlattenSeq(Reply(k, ps[k])) \in Seq(OutByte)
  BY <1>1, ReplyType
<1>3. s \in [1 .. n -> Seq(OutByte)]
  BY <1>2
<1>4. s \in Seq(Seq(OutByte)) /\ Len(s) = n
  BY <1>1, <1>3
<1>5. FlattenSeq(s) \in Seq(OutByte)
  <2> HIDE DEF s
  <2> QED
    BY <1>4, FlattenType
<1> QED
  BY <1>4, <1>5 DEF RepliesOf

LEMMA RepliesNext ==
  ASSUME NEW ps \in Seq(PacketKinds), NEW n \in 0 .. Len(ps) - 1
  PROVE  LET more == FlattenSeq(Reply(n + 1, ps[n + 1]))
         IN  /\ RepliesOf(ps, n + 1) = RepliesOf(ps, n) \o more
             /\ RepliesOf(ps, n) \in Seq(OutByte) /\ more \in Seq(OutByte)
             /\ Len(RepliesOf(ps, n)) \in Nat /\ Len(more) \in Nat
             /\ Len(RepliesOf(ps, n + 1)) = Len(RepliesOf(ps, n)) + Len(more)
<1> DEFINE s == [k \in 1 .. n |-> FlattenSeq(Reply(k, ps[k]))]
           t == [k \in 1 .. n + 1 |-> FlattenSeq(Reply(k, ps[k]))]
           more == FlattenSeq(Reply(n + 1, ps[n + 1]))
<1>1. n \in Nat /\ n \in 0 .. Len(ps) /\ n + 1 \in 0 .. Len(ps) /\ n + 1 \in Nat
      /\ ps[n + 1] \in PacketKinds
  OBVIOUS
<1>2. /\ s \in Seq(Seq(OutByte)) /\ Len(s) = n /\ t \in Seq(Seq(OutByte)) /\ Len(t) = n + 1
      /\ RepliesOf(ps, n) \in Seq(OutByte)
  BY <1>1, RepliesType
<1>3. (\A i \in 1 .. n : t[i] = s[i]) /\ t[n + 1] = more
  BY <1>1
<1>4. FlattenSeq(t) = FlattenSeq(s) \o more
  <2> HIDE DEF s, t, more
  <2> QED
    BY <1>2, <1>3, FlattenMore
<1>5. RepliesOf(ps, n + 1) = RepliesOf(ps, n) \o more
  BY <1>4 DEF RepliesOf
<1>6. more \in Seq(OutByte)
  BY <1>1, ReplyType
<1> HIDE DEF more
<1>7. /\ Len(RepliesOf(ps, n)) \in Nat /\ Len(more) \in Nat
      /\ Len(RepliesOf(ps, n) \o more) = Len(RepliesOf(ps, n)) + Len(more)
  BY <1>2, <1>6, ConcatAt
<1> QED
  BY <1>2, <1>5, <1>6, <1>7 DEF more

LEMMA RepliesNone == \A ps : RepliesOf(ps, 0) = <<>>
<1> TAKE ps
<1>1. [k \in 1 .. 0 |-> FlattenSeq(Reply(k, ps[k]))] = <<>>
  OBVIOUS
<1> QED
  BY <1>1, FlattenEmpty DEF RepliesOf

\* A sequence of one or two members is its head and its tail.
LEMMA OneOrTwo ==
  ASSUME NEW T, NEW s \in Seq(T), s # <<>>, Len(s) <= 2
  PROVE  /\ Head(s) = s[1] /\ s[1] \in T /\ Tail(s) \in Seq(T)
         /\ \/ s = <<s[1]>> /\ Tail(s) = <<>>
            \/ s[2] \in T /\ s = <<s[1], s[2]>> /\ Tail(s) = <<s[2]>>
<1> DEFINE r == Tail(s)
<1>1. Len(s) \in Nat /\ Len(s) # 0
  BY EmptySeq
<1>2. /\ Head(s) = s[1] /\ s[1] \in T /\ r \in Seq(T)
      /\ Len(r) = Len(s) - 1 /\ \A i \in 1 .. Len(s) - 1 : r[i] = s[i + 1]
  BY <1>1, HeadTailProperties
<1> HIDE DEF r
<1>3. CASE Len(s) = 1
  <2> DEFINE t == <<s[1]>>
  <2>1. t \in Seq(T) /\ Len(t) = 1 /\ t[1] = s[1]
    BY <1>2
  <2> HIDE DEF t
  <2>2. s = t
    BY <1>3, <2>1, SeqEqual
  <2>3. Len(r) = 0
    BY <1>2, <1>3
  <2>4. r = <<>>
    BY <1>2, <2>3, EmptySeq
  <2> QED
    BY <1>2, <2>2, <2>4 DEF t, r
<1>4. CASE Len(s) = 2
  <2> DEFINE t == <<s[1], s[2]>>
             u == <<s[2]>>
  <2>1. s[2] \in T
    <3>1. 2 \in 1 .. Len(s)
      BY <1>4
    <3> QED
      BY <3>1
  <2>2. /\ t \in Seq(T) /\ Len(t) = 2 /\ t[1] = s[1] /\ t[2] = s[2]
        /\ u \in Seq(T) /\ Len(u) = 1 /\ u[1] = s[2]
    BY <1>2, <2>1
  <2> HIDE DEF t, u
  <2>3. s = t
    BY <1>4, <2>2, SeqEqual
  <2>4. r = u
    <3>1. Len(s) - 1 = 1 /\ 1 + 1 = 2 /\ 1 \in 1 .. 1
      BY <1>4
    <3>2. Len(r) = 1 /\ r[1] = s[2]
      BY <1>2, <3>1
    <3>3. \A i \in 1 .. 1 : i = 1
      OBVIOUS
    <3> QED
      BY <1>2, <2>2, <3>2, <3>3, SeqEqual
  <2> QED
    BY <1>2, <2>1, <2>3, <2>4 DEF t, u, r
<1> QED
  BY <1>1, <1>2, <1>3, <1>4 DEF r

\* The pieces of a reply are appended one by one.
LEMMA FlattenHead ==
  ASSUME NEW S, NEW s \in Seq(Seq(S)), s # <<>>, Len(s) <= 2
  PROVE  /\ FlattenSeq(s) = Head(s) \o FlattenSeq(Tail(s))
         /\ Head(s) \in Seq(S) /\ FlattenSeq(Tail(s)) \in Seq(S)
<1> DEFINE x == s[1]
           y == s[2]
<1>1. /\ Head(s) = x /\ x \in Seq(S) /\ Tail(s) \in Seq(Seq(S))
      /\ \/ s = <<x>> /\ Tail(s) = <<>>
         \/ y \in Seq(S) /\ s = <<x, y>> /\ Tail(s) = <<y>>
  BY OneOrTwo
<1>2. FlattenSeq(Tail(s)) \in Seq(S)
  BY <1>1, FlattenType
<1> HIDE DEF x, y
<1>3. CASE s = <<x>> /\ Tail(s) = <<>>
  <2>1. FlattenSeq(<<x>>) = x /\ x \o <<>> = x
    BY <1>1, FlattenOne, ConcatEmptySeq
  <2>2. FlattenSeq(s) = x /\ FlattenSeq(Tail(s)) = <<>>
    BY <1>3, <2>1, FlattenEmpty, Zenon
  <2> QED
    BY <1>1, <1>2, <2>1, <2>2, Zenon
<1>4. CASE y \in Seq(S) /\ s = <<x, y>> /\ Tail(s) = <<y>>
  <2>1. FlattenSeq(<<x, y>>) = x \o y /\ FlattenSeq(<<y>>) = y
    BY <1>1, <1>4, FlattenOne, FlattenTwo
  <2>2. FlattenSeq(s) = x \o y /\ FlattenSeq(Tail(s)) = y
    BY <1>4, <2>1, Zenon
  <2> QED
    BY <1>1, <1>2, <2>2, Zenon
<1> QED
  BY <1>1, <1>3, <1>4

\* The steps that leave what was replied.
LEMMA SameWriting ==
  ASSUME Writing,
         UNCHANGED <<wBuffer, wHead, wTail, packets, outgoing, processed, delivered>>,
         Open' => Open, consumed' <= Capacity => consumed <= Capacity
  PROVE  Writing'
BY DEF Writing

\* What mWriteBuffer holds, as far as the steps need it.
LEMMA WriteBytes ==
  ASSUME Types
  PROVE  /\ wTail \in 0 .. Capacity /\ wHead \in 0 .. wTail /\ wBuffer \in Buffer(OutByte)
         /\ Bytes(wBuffer, wHead, wTail) \in Seq(OutByte) /\ delivered \in Seq(OutByte)
         /\ delivered \o Bytes(wBuffer, wHead, wTail) \in Seq(OutByte)
<1>1. /\ wTail \in 0 .. Capacity /\ wHead \in 0 .. wTail /\ wBuffer \in Buffer(OutByte)
      /\ delivered \in Seq(OutByte)
  BY Offsets DEF Types
<1>2. Bytes(wBuffer, wHead, wTail) \in Seq(OutByte)
  BY <1>1, BytesType
<1> QED
  BY <1>1, <1>2, ConcatProperties

\* A reply goes to what is still to be appended.
LEMMA ProcessWrites ==
  ASSUME Types, Reading, InOrder, Writing, Process
  PROVE  Writing'
<1> DEFINE n == Len(processed)
           more == FlattenSeq(Reply(n + 1, packets[n + 1]))
           held == delivered \o Bytes(wBuffer, wHead, wTail)
<1>1. /\ UNCHANGED <<wBuffer, wHead, wTail, packets, consumed, delivered>> /\ Open
      /\ outgoing = <<>> /\ outgoing' = Reply(Len(processed'), header')
  BY DEF Process, Goto, writeVars, streamVars, Open, Types
<1>2. SUFFICES ASSUME consumed <= Capacity, Len(RepliesOf(packets, Len(processed'))) <= Capacity
               PROVE  /\ held \o FlattenSeq(outgoing') = RepliesOf(packets, Len(processed'))
                      /\ wTail + Len(FlattenSeq(outgoing')) = Len(RepliesOf(packets, Len(processed')))
  BY <1>1 DEF Writing
<1>3. /\ n \in 0 .. Len(packets) - 1 /\ header' = packets[n + 1] /\ Len(processed') = n + 1
  <2>1. /\ n \in 0 .. Len(packets) - 1 /\ header' = packets[n + 1]
        /\ processed' = Append(processed, BytesOf(n + 1, packets[n + 1].len))
    BY <1>2, ProcessIsNext
  <2>2. Len(processed') = n + 1
    BY <2>1
  <2> QED
    BY <2>1, <2>2
<1>4. packets \in Seq(PacketKinds)
  BY DEF Types
<1>5. /\ RepliesOf(packets, n + 1) = RepliesOf(packets, n) \o more
      /\ Len(RepliesOf(packets, n)) \in Nat /\ Len(more) \in Nat
      /\ Len(RepliesOf(packets, n + 1)) = Len(RepliesOf(packets, n)) + Len(more)
  <2> HIDE DEF n
  <2> QED
    BY <1>3, <1>4, RepliesNext
<1>6. FlattenSeq(outgoing') = more
  BY <1>1, <1>3
<1>7. Len(RepliesOf(packets, n)) <= Capacity
  <2>1. Len(RepliesOf(packets, n + 1)) <= Capacity /\ Capacity \in Nat
    BY <1>2, <1>3, Consts
  <2> QED
    BY <1>5, <2>1
<1>8. /\ held \o FlattenSeq(outgoing) = RepliesOf(packets, n)
      /\ wTail + Len(FlattenSeq(outgoing)) = Len(RepliesOf(packets, n))
  BY <1>1, <1>2, <1>7 DEF Writing
<1>9. held = RepliesOf(packets, n) /\ wTail = Len(RepliesOf(packets, n))
  <2>1. FlattenSeq(outgoing) = <<>> /\ Len(FlattenSeq(outgoing)) = 0
    BY <1>1, FlattenEmpty
  <2>2. held \in Seq(OutByte) /\ wTail \in Nat
    BY WriteBytes, Offsets
  <2> HIDE DEF held
  <2>3. held \o <<>> = held
    BY <2>2, ConcatEmptySeq
  <2> QED
    BY <1>8, <2>1, <2>2, <2>3
<1> HIDE DEF held, more, n
<1> QED
  BY <1>3, <1>5, <1>6, <1>9

\* Every piece of the replies finds room.
LEMMA PackSendWrites ==
  ASSUME Types, Writing, PackSend
  PROVE  Writing'
<1> DEFINE replies == RepliesOf(packets, Len(processed))
           bytes == Bytes(wBuffer, wHead, wTail)
           piece == Head(outgoing)
           rest == FlattenSeq(Tail(outgoing))
<1>1. /\ UNCHANGED <<packets, consumed, processed, delivered>> /\ Open /\ outgoing # <<>>
      /\ outgoing \in Seq(Seq(OutByte)) /\ Len(outgoing) <= 2
  BY DEF PackSend, streamVars, Open, Types
<1>2. SUFFICES ASSUME consumed <= Capacity, Len(replies) <= Capacity
               PROVE  /\ delivered \o Bytes(wBuffer', wHead', wTail') \o FlattenSeq(outgoing') = replies
                      /\ wTail' + Len(FlattenSeq(outgoing')) = Len(replies)
  BY <1>1 DEF Writing
<1>3. /\ delivered \o bytes \o FlattenSeq(outgoing) = replies
      /\ wTail + Len(FlattenSeq(outgoing)) = Len(replies)
  BY <1>1, <1>2 DEF Writing
<1>4. FlattenSeq(outgoing) = piece \o rest /\ piece \in Seq(OutByte) /\ rest \in Seq(OutByte)
  BY <1>1, FlattenHead
<1>5. /\ wTail \in 0 .. Capacity /\ wHead \in 0 .. wTail /\ wBuffer \in Buffer(OutByte)
      /\ bytes \in Seq(OutByte) /\ delivered \in Seq(OutByte)
  BY WriteBytes
<1>6. \/ Write!Copy(piece) /\ outgoing' = Tail(outgoing)
      \/ Write!Full(Len(piece))
      \/ Write!Move(Len(piece))
  BY DEF PackSend
<1> HIDE DEF piece, rest, bytes, replies
<1>7. /\ Len(piece) \in Nat /\ Len(rest) \in Nat
      /\ Len(FlattenSeq(outgoing)) = Len(piece) + Len(rest)
  BY <1>4, ConcatAt
<1>8. wTail + Len(piece) <= Capacity /\ wTail \in Nat /\ Capacity \in Nat
  BY <1>2, <1>3, <1>5, <1>7, Consts
<1>9. Write!Copy(piece) /\ outgoing' = Tail(outgoing)
  <2>1. ~(Capacity - wTail < Len(piece))
    BY <1>7, <1>8
  <2> QED
    BY <1>6, <2>1 DEF Write!Full, Write!Move, Write!remain
<1>10. wBuffer' = Copied(wBuffer, wTail, piece) /\ wHead' = wHead /\ wTail' = wTail + Len(piece)
  BY <1>9, BuffersAre
<1>11. Bytes(wBuffer', wHead', wTail') = bytes \o piece
  BY <1>4, <1>5, <1>8, <1>10, CopyIs DEF bytes
<1>12. FlattenSeq(outgoing') = rest
  BY <1>9 DEF rest
<1>13. delivered \o (bytes \o piece) \o rest = delivered \o bytes \o (piece \o rest)
  <2>1. /\ delivered \o (bytes \o piece) = (delivered \o bytes) \o piece
        /\ delivered \o bytes \in Seq(OutByte)
    BY <1>4, <1>5, ConcatAssociative, ConcatProperties
  <2>2. ((delivered \o bytes) \o piece) \o rest = (delivered \o bytes) \o (piece \o rest)
    BY <1>4, <2>1, ConcatAssociative
  <2> QED
    BY <2>1, <2>2
<1>14. wTail' + Len(rest) = Len(replies)
  <2>1. wTail + (Len(piece) + Len(rest)) = Len(replies)
    BY <1>3, <1>7
  <2>2. wTail \in Nat /\ Len(piece) \in Nat /\ Len(rest) \in Nat
    BY <1>7, <1>8
  <2>3. (wTail + Len(piece)) + Len(rest) = wTail + (Len(piece) + Len(rest))
    BY ONLY <2>2
  <2> QED
    BY <1>10, <2>1, <2>3
<1> QED
  BY <1>3, <1>4, <1>11, <1>12, <1>13, <1>14

\* What is sent leaves the buffer.
LEMMA SendWrites ==
  ASSUME Types, Writing, SendData
  PROVE  Writing'
<1> DEFINE replies == RepliesOf(packets, Len(processed))
           bytes == Bytes(wBuffer, wHead, wTail)
<1>1. /\ UNCHANGED <<packets, consumed, processed, outgoing>> /\ Open /\ outgoing = <<>>
  BY DEF SendData, Goto, streamVars, Open, Types
<1>2. CASE UNCHANGED <<writeVars, delivered>>
  BY <1>1, <1>2, SameWriting DEF writeVars
<1>3. CASE Write!recycle(Write!bufSize) /\ delivered' = delivered \o Write!Contents
  <2>1. SUFFICES ASSUME consumed <= Capacity, Len(replies) <= Capacity
                 PROVE  /\ delivered' \o Bytes(wBuffer', wHead', wTail') \o FlattenSeq(outgoing') = replies
                        /\ wTail' + Len(FlattenSeq(outgoing')) = Len(replies)
    BY <1>1 DEF Writing
  <2>2. /\ delivered \o bytes \o FlattenSeq(outgoing) = replies
        /\ wTail + Len(FlattenSeq(outgoing)) = Len(replies)
    BY <1>1, <2>1 DEF Writing
  <2>3. delivered' = delivered \o bytes
    BY <1>3, BuffersAre
  <2>4. wBuffer' = wBuffer /\ wHead' = wTail /\ wTail' = wTail
    <3>1. wBuffer' = wBuffer /\ wHead' = wHead + (wTail - wHead) /\ wTail' = wTail
      BY <1>3, BuffersAre DEF Write!recycle
    <3> QED
      BY <3>1, Offsets
  <2>5. Bytes(wBuffer, wTail, wTail) = <<>>
    <3>1. wTail - wTail = 0
      BY Offsets
    <3>2. [i \in 1 .. 0 |-> wBuffer[wTail + i - 1]] = <<>>
      OBVIOUS
    <3> QED
      BY <3>1, <3>2 DEF Bytes
  <2>6. delivered' \in Seq(OutByte)
    BY <2>3, WriteBytes
  <2>7. delivered' \o <<>> = delivered'
    BY <2>6, ConcatEmptySeq
  <2> HIDE DEF bytes, replies
  <2> QED
    BY <1>1, <2>2, <2>3, <2>4, <2>5, <2>7
<1> QED
  BY <1>2, <1>3 DEF SendData

LEMMA WritingStep ==
  ASSUME Types, Reading, InOrder, Writing, [Next]_vars
  PROVE  Writing'
<1>1. CASE [Arrive \/ ReadInput \/ AppendInput \/ Incomplete \/ Recycle]_vars
  <2>1. UNCHANGED <<wBuffer, wHead, wTail, packets, outgoing, processed, delivered>>
        /\ (Open' => Open)
    BY <1>1 DEF Arrive, ReadInput, AppendInput, Appended, Incomplete, Recycle, Goto, Open,
                writeVars, streamVars, vars
  <2>2. consumed' <= Capacity => consumed <= Capacity
    <3>1. consumed' = consumed \/ consumed' = consumed + Len(Chunk)
      BY <1>1 DEF Arrive, ReadInput, AppendInput, Appended, Incomplete, Recycle, streamVars, vars
    <3>2. Len(Chunk) \in Nat /\ consumed \in Nat /\ Capacity \in Nat
      BY ChunkIs, Offsets
    <3> QED
      BY <3>1, <3>2
  <2> QED
    BY <2>1, <2>2, SameWriting
<1>2. CASE Shutdown \/ Close \/ UseDeleted
  <2>1. ~Open'
    BY <1>2 DEF Shutdown, Close, UseDeleted, Goto, Open
  <2> QED
    BY <2>1 DEF Writing
<1> QED
  BY <1>1, <1>2, ProcessWrites, PackSendWrites, SendWrites DEF Next, Callbacks

LEMMA InitWriting == Init => Writing
<1> SUFFICES ASSUME Init PROVE Writing
  OBVIOUS
<1>1. wHead = 0 /\ wTail = 0 /\ processed = <<>> /\ outgoing = <<>> /\ delivered = <<>>
  BY DEF Init, Write!Allocated
<1>2. Bytes(wBuffer, wHead, wTail) = <<>>
  BY <1>1 DEF Bytes
<1>3. RepliesOf(packets, Len(processed)) = <<>>
  BY <1>1, RepliesNone
<1>4. delivered \o Bytes(wBuffer, wHead, wTail) \o FlattenSeq(outgoing) = <<>>
  <2>1. <<>> \o <<>> \o <<>> = <<>>
    OBVIOUS
  <2> QED
    BY <1>1, <1>2, <2>1, FlattenEmpty
<1>5. wTail + Len(FlattenSeq(outgoing)) = 0 /\ Len(<<>>) = 0
  BY <1>1, FlattenEmpty
<1> QED
  BY <1>3, <1>4, <1>5, Zenon DEF Writing

LEMMA WritingExact == Types /\ Writing => RepliesExact
<1> SUFFICES ASSUME Types, Writing PROVE RepliesExact
  OBVIOUS
<1>1. processed \in Seq(Seq(InByte))
  BY DEF Types
<1>2. DOMAIN processed = 1 .. Len(processed)
  BY <1>1, LenProperties
<1>3. FlattenSeq([n \in DOMAIN processed |-> FlattenSeq(Reply(n, packets[n]))])
        = RepliesOf(packets, Len(processed))
  BY <1>2 DEF RepliesOf
<1> QED
  BY <1>3, BuffersAre DEF Writing, RepliesExact, Open

\* What was delivered, what waits in mWriteBuffer and what is still to be
\* appended are the replies to the packets processed, in order, none lost and
\* none repeated, as long as what came and what was answered fits the buffers.
THEOREM RepliesAreExact == Spec => []RepliesExact
<1> QED
  BY InitTypes, TypesStep, InitReading, ReadingStep, InOrderStep, InitWriting, WritingStep,
     WritingExact, PTL DEF Spec
-----------------------------------------------------------------------------
(* What is left when the callback returns.                                 *)

\* No packet that has come completely is left in mReadBuffer.
NothingLeft ==
  pc \in {"send", "idle"} /\ consumed <= Capacity =>
    \/ Len(processed) = Len(packets)
    \/ consumed < Len(FirstOf(packets, Len(processed) + 1))

LEMMA NothingLeftStep ==
  ASSUME Types, Reading, InOrder, NothingLeft, [Next]_vars
  PROVE  NothingLeft'
<1>1. CASE Incomplete
  <2>1. /\ UNCHANGED <<packets, consumed, processed>> /\ pc = "dispatch"
        /\ HasHeader => \E kind \in Headers : Read!bufSize < kind.len
    BY <1>1 DEF Incomplete, Goto, streamVars
  <2> SUFFICES ASSUME consumed <= Capacity, Len(processed) # Len(packets)
               PROVE  consumed < Len(FirstOf(packets, Len(processed) + 1))
    BY <2>1 DEF NothingLeft
  <2> DEFINE n == Len(processed)
             len == packets[n + 1].len
             base == Len(FirstOf(packets, n))
  <2>2. /\ n \in 0 .. Len(packets) /\ rHead = base
        /\ Read!bufSize = consumed - rHead /\ consumed \in Nat /\ rHead \in Nat
        /\ HasHeader => Headers = {packets[n + 1]}
    BY <2>1, NextAtHead
  <2>3. n \in 0 .. Len(packets) - 1
    <3>1. n \in Nat /\ Len(packets) \in Nat /\ n <= Len(packets) /\ n # Len(packets)
      BY ProcessedCount
    <3> HIDE DEF n
    <3> QED
      BY ONLY <3>1
  <2>4. packets \in Seq(PacketKinds)
    BY DEF Types
  <2>5. len \in Nat /\ HeadLen \in Nat /\ HeadLen <= len
    <3>1. packets[n + 1] \in PacketKinds
      BY <2>3, <2>4
    <3> QED
      BY <3>1, Consts
  <2>6. Len(FirstOf(packets, n + 1)) = base + len
    <3> HIDE DEF n
    <3> QED
      BY <2>3, <2>4, FirstNext
  <2>7. Read!bufSize < len
    <3>1. CASE HasHeader
      BY <2>1, <2>2, <3>1
    <3>2. CASE ~HasHeader
      <4>1. ~(Read!bufSize >= HeadLen)
        BY <3>2 DEF HasHeader
      <4> DEFINE size == Read!bufSize
      <4>2. size \in Int
        BY <2>2
      <4> HIDE DEF size, len
      <4> QED
        BY <2>5, <4>1, <4>2 DEF size
    <3> QED
      BY <3>1, <3>2
  <2>8. consumed - rHead < len
    BY <2>2, <2>7
  <2> HIDE DEF n, len, base
  <2>9. consumed < base + len
    BY <2>2, <2>5, <2>8
  <2> QED
    BY <2>6, <2>9 DEF n
<1>2. CASE [Arrive \/ SendData]_vars
  <2>1. UNCHANGED <<packets, consumed, processed>> /\ (pc' \in {"send", "idle"} => pc \in {"send", "idle"})
    BY <1>2 DEF Arrive, SendData, Goto, streamVars, vars
  <2> QED
    BY <2>1 DEF NothingLeft
<1>3. CASE ReadInput \/ AppendInput \/ Shutdown \/ Process \/ PackSend \/ Recycle \/ UseDeleted
           \/ Close
  <2>1. pc' \notin {"send", "idle"}
    BY <1>3 DEF ReadInput, AppendInput, Appended, Shutdown, Process, PackSend, Recycle, UseDeleted,
                Close, Goto
  <2> QED
    BY <2>1 DEF NothingLeft
<1> QED
  BY <1>1, <1>2, <1>3 DEF Next, Callbacks

LEMMA InitNothingLeft == Init /\ Types => NothingLeft
<1> SUFFICES ASSUME Init, Types, Len(processed) # Len(packets)
             PROVE  consumed < Len(FirstOf(packets, Len(processed) + 1))
  BY DEF NothingLeft
<1>1. consumed = 0 /\ Len(processed) = 0 /\ packets \in Seq(PacketKinds)
  BY DEF Init, Types
<1>2. 0 \in 0 .. Len(packets) - 1 /\ Len(packets) \in Nat
  BY <1>1
<1>3. Len(FirstOf(packets, 0 + 1)) = Len(FirstOf(packets, 0)) + packets[0 + 1].len
  BY <1>1, <1>2, FirstNext
<1>4. Len(FirstOf(packets, 0)) = 0
  BY FirstEmpty
<1>5. packets[0 + 1].len \in Nat /\ packets[0 + 1].len >= 1
  <2>1. packets[0 + 1] \in PacketKinds
    BY <1>1, <1>2
  <2> QED
    BY <2>1, Consts
<1> QED
  BY <1>1, <1>3, <1>4, <1>5

\* When the callback returns to the event loop the next packet has not come as a
\* whole, unless all have been processed: no complete packet waits for more
\* input. This is what Served rests on.
THEOREM CompletePacketsTaken == Spec => []NothingLeft
<1> QED
  BY InitTypes, TypesStep, InitReading, ReadingStep, InOrderStep, InitNothingLeft,
     NothingLeftStep, PTL DEF Spec
=============================================================================
