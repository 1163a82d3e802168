------------------------------ MODULE Session ------------------------------
(***************************************************************************)
(* One connection: the libevent callbacks of src/Deploy.cpp and the        *)
(* SessionHandle they drive (src/SessionHandle.cpp), with its two          *)
(* SessionBuffers. The event loop is one thread, so the callbacks of a     *)
(* connection never overlap; a step here is a round of one of their loops. *)
(*                                                                         *)
(* A byte is the packet it belongs to and its place in it. The client      *)
(* sends its packets as one stream, which arrives in pieces of any size.   *)
(***************************************************************************)
EXTENDS Naturals, Sequences, SequencesExt

CONSTANTS
  PacketKinds,  \* what a packet may be: its length, and what becomes of it
  MaxPackets,   \* bound: how many packets the client sends
  HeadLen,      \* sizeof(tagMsgHeader)
  ReadSize,     \* sizeof(data) in conn_read_callback
  Capacity,     \* of each SessionBuffer
  Garbage,      \* a byte of a buffer that was never written
  MayFailWrite, \* whether bufferevent_write can fail
  MayClose      \* whether the connection can end

\* len: its length. bad: whether its header fails a check of dispatch. reply: how
\* long the body of the answer is, or 0 if process does not answer it (an unknown
\* command, or a request whose handler gives up).
Kinds == [len : Nat, bad : BOOLEAN, reply : Nat]

ASSUME SessionAssumption ==
  /\ HeadLen \in Nat \ {0} /\ MaxPackets \in Nat
  /\ Capacity \in Nat /\ ReadSize \in 1 .. Capacity
  /\ PacketKinds \subseteq Kinds /\ PacketKinds # {}
  /\ \A kind \in PacketKinds : kind.len >= HeadLen /\ kind.reply <= Capacity
  /\ MayFailWrite \in BOOLEAN /\ MayClose \in BOOLEAN

VARIABLES
  rBuffer, rHead, rTail,   \* mReadBuffer
  wBuffer, wHead, wTail,   \* mWriteBuffer
  packets,    \* what the client sends on this connection
  arrived,    \* how much of its stream has reached the bufferevent
  consumed,   \* how much of it conn_read_callback has read
  pc,         \* where the event loop is in the callbacks
  header,     \* the header that dispatch is working on
  outgoing,   \* the pieces that packSend has still to append
  processed,  \* the bytes that each call of process was about (history)
  delivered   \* what bufferevent_write took (history)

readVars == <<rBuffer, rHead, rTail>>
writeVars == <<wBuffer, wHead, wTail>>
streamVars == <<packets, arrived, consumed>>
vars == <<rBuffer, rHead, rTail, wBuffer, wHead, wTail, packets, arrived, consumed, pc,
          header, outgoing, processed, delivered>>

Read == INSTANCE SessionBuffer WITH mBuffer <- rBuffer, mHead <- rHead, mTail <- rTail
Write == INSTANCE SessionBuffer WITH mBuffer <- wBuffer, mHead <- wHead, mTail <- wTail

BytesOf(k, len) == [i \in 1 .. len |-> [packet |-> k, at |-> i]]
FirstPackets(n) == FlattenSeq([k \in 1 .. n |-> BytesOf(k, packets[k].len)])
Stream == FirstPackets(Len(packets))

\* packSend appends the header of the reply to the n-th call of process (here a
\* single byte), and then its body.
Reply(n, kind) ==
  IF kind.reply = 0 THEN <<>>
  ELSE << <<[reply |-> n, at |-> 0]>>, [i \in 1 .. kind.reply |-> [reply |-> n, at |-> i]] >>

\* The chunk being appended to mReadBuffer: one bufferevent_read.
Chunk == SubSeq(Stream, consumed + 1,
                IF arrived - consumed < ReadSize THEN arrived ELSE consumed + ReadSize)

-----------------------------------------------------------------------------
\* listener_callback makes the SessionHandle, whose buffers are empty.
Init ==
  /\ Read!Allocated /\ Write!Allocated
  /\ packets \in BoundedSeq(PacketKinds, MaxPackets)
  /\ arrived = 0 /\ consumed = 0
  /\ pc = "idle"
  /\ header = CHOOSE kind \in PacketKinds : TRUE
  /\ outgoing = <<>> /\ processed = <<>> /\ delivered = <<>>

Goto(from, to) == pc = from /\ pc' = to

Arrive ==
  /\ pc \notin {"closed", "deleted", "undefined"}
  /\ arrived < Len(Stream)
  /\ arrived' \in arrived + 1 .. Len(Stream)
  /\ UNCHANGED <<readVars, writeVars, packets, consumed, pc, header, outgoing, processed,
                 delivered>>

\* conn_read_callback: as long as there is input, read, append, dispatch, send.
ReadInput ==
  /\ consumed < arrived
  /\ Goto("idle", "append")
  /\ UNCHANGED <<readVars, writeVars, streamVars, header, outgoing, processed, delivered>>

\* A variant that takes the size of data for the number of bytes read.
AppendedWhole ==
  /\ Goto("append", "dispatch")
  /\ consumed' = consumed + ReadSize
  /\ UNCHANGED <<writeVars, packets, arrived, header, outgoing, processed, delivered>>

\* What was appended, or refused, is gone from the input.
Appended ==
  /\ Goto("append", "dispatch")
  /\ consumed' = consumed + Len(Chunk)
  /\ UNCHANGED <<writeVars, packets, arrived, header, outgoing, processed, delivered>>

AppendInput ==
  \/ Appended /\ Read!Copy(Chunk)
  \/ Appended /\ Read!Full(Len(Chunk)) /\ UNCHANGED readVars
  \/ /\ pc = "append" /\ Read!Move(Len(Chunk))
     /\ UNCHANGED <<writeVars, streamVars, pc, header, outgoing, processed, delivered>>

-----------------------------------------------------------------------------
(* dispatch.                                                               *)

HasHeader == Read!bufSize >= HeadLen

\* What the first HeadLen bytes of mReadBuffer say. Bytes that are not the header
\* of a packet may say anything.
Headers ==
  LET framed == {k \in DOMAIN packets :
                   SubSeq(Read!Contents, 1, HeadLen) = BytesOf(k, HeadLen)}
  IN  IF framed = {} THEN PacketKinds ELSE {packets[k] : k \in framed}

\* The header, or the packet, is not there yet.
Incomplete ==
  /\ Goto("dispatch", "send")
  /\ HasHeader => \E kind \in Headers : ~kind.bad /\ Read!bufSize < kind.len
  /\ UNCHANGED <<readVars, writeVars, streamVars, header, outgoing, processed, delivered>>

\* shutdown: the buffers are cleared, the bufferevent is freed and the
\* SessionHandle deletes itself.
Shutdown ==
  /\ Goto("dispatch", "deleted")
  /\ HasHeader /\ \E kind \in Headers : kind.bad
  /\ Read!clear /\ Write!clear
  /\ UNCHANGED <<streamVars, header, outgoing, processed, delivered>>

\* A variant that does not wait for the body.
ProcessHeaderOnly ==
  /\ Goto("dispatch", "packSend")
  /\ HasHeader /\ header' \in {kind \in Headers : ~kind.bad}
  /\ processed' = Append(processed, [i \in 1 .. header'.len |-> rBuffer[rHead + i - 1]])
  /\ outgoing' = Reply(Len(processed'), header')
  /\ UNCHANGED <<readVars, writeVars, streamVars, delivered>>

Process ==
  /\ Goto("dispatch", "packSend")
  /\ HasHeader /\ header' \in {kind \in Headers : ~kind.bad /\ Read!bufSize >= kind.len}
  /\ processed' = Append(processed, SubSeq(Read!Contents, 1, header'.len))
  /\ outgoing' = Reply(Len(processed'), header')
  /\ UNCHANGED <<readVars, writeVars, streamVars, delivered>>

\* packSend looks at no result of append: a piece that is refused is dropped.
PackSend ==
  /\ pc = "packSend" /\ outgoing # <<>>
  /\ LET piece == Head(outgoing)
     IN  \/ Write!Copy(piece) /\ outgoing' = Tail(outgoing)
         \/ Write!Full(Len(piece)) /\ outgoing' = Tail(outgoing) /\ UNCHANGED writeVars
         \/ Write!Move(Len(piece)) /\ UNCHANGED outgoing
  /\ UNCHANGED <<readVars, streamVars, pc, header, processed, delivered>>

\* A variant that leaves dispatch after one packet.
RecycleAndLeave ==
  /\ Goto("packSend", "send")
  /\ outgoing = <<>>
  /\ Read!recycle(header.len)
  /\ UNCHANGED <<writeVars, streamVars, header, outgoing, processed, delivered>>

Recycle ==
  /\ Goto("packSend", "dispatch")
  /\ outgoing = <<>>
  /\ Read!recycle(header.len)
  /\ UNCHANGED <<writeVars, streamVars, header, outgoing, processed, delivered>>

-----------------------------------------------------------------------------
(* sendData: nothing to send; all of it is taken; or nothing is, and it    *)
(* stays for the next call.                                                *)

\* A variant that forgets to recycle what was sent.
SendAgain ==
  /\ Goto("send", "idle")
  /\ \/ delivered' = delivered \o Write!Contents
     \/ MayFailWrite /\ UNCHANGED delivered
  /\ UNCHANGED <<readVars, writeVars, streamVars, header, outgoing, processed>>

SendData ==
  /\ Goto("send", "idle")
  /\ \/ /\ Write!bufSize > 0
        /\ Write!recycle(Write!bufSize)
        /\ delivered' = delivered \o Write!Contents
     \/ /\ Write!bufSize = 0 \/ MayFailWrite
        /\ UNCHANGED <<writeVars, delivered>>
  /\ UNCHANGED <<readVars, streamVars, header, outgoing, processed>>

\* conn_event_callback: the handle is deleted and the bufferevent freed, with
\* whatever was still to be sent.
Close ==
  /\ MayClose
  /\ Goto("idle", "closed")
  /\ Read!clear /\ Write!clear
  /\ UNCHANGED <<streamVars, header, outgoing, processed, delivered>>

\* After shutdown dispatch returns to conn_read_callback, which calls sendData of
\* the handle that is gone. What happens from there on is undefined.
UseDeleted ==
  /\ Goto("deleted", "undefined")
  /\ UNCHANGED <<readVars, writeVars, streamVars, header, outgoing, processed, delivered>>

Callbacks ==
  \/ ReadInput \/ AppendInput
  \/ Incomplete \/ Shutdown \/ Process \/ PackSend \/ Recycle
  \/ SendData \/ UseDeleted

Next == Arrive \/ Callbacks \/ Close

Spec == Init /\ [][Next]_vars

\* The event loop runs the callbacks to their end. Nothing obliges the client to
\* send, or the connection to end.
FairSpec == Spec /\ WF_vars(Callbacks)

-----------------------------------------------------------------------------
TypeOK ==
  /\ rTail \in 0 .. Capacity /\ rHead \in 0 .. rTail
  /\ wTail \in 0 .. Capacity /\ wHead \in 0 .. wTail
  /\ arrived \in 0 .. Len(Stream) /\ consumed \in 0 .. arrived
  /\ pc \in {"idle", "append", "dispatch", "packSend", "send", "closed", "deleted",
             "undefined"}
  /\ header \in PacketKinds

\* However the stream is cut into pieces, each call of process is about the next
\* packet of the stream, and about all of it, as long as mReadBuffer has not been
\* given more than it holds (it never wins back the room of what it gave away).
InOrder ==
  consumed <= Capacity =>
    \A n \in DOMAIN processed :
      n \in DOMAIN packets /\ processed[n] = BytesOf(n, packets[n].len)

\* What was delivered, what waits in mWriteBuffer and what packSend has still to
\* append are the replies to the packets processed, in order: a write that fails
\* neither loses nor repeats any, as long as the buffers hold what came and what
\* was answered.
RepliesExact ==
  LET replies == FlattenSeq([n \in DOMAIN processed |-> FlattenSeq(Reply(n, packets[n]))])
  IN  pc \notin {"closed", "deleted", "undefined"} /\ consumed <= Capacity
      /\ Len(replies) <= Capacity
        => delivered \o Write!Contents \o FlattenSeq(outgoing) = replies

\* Once all of a stream that fits mReadBuffer has come each of its packets is
\* processed, unless the connection ends.
Served ==
  \A k \in 1 .. MaxPackets :
    (k \in DOMAIN packets /\ arrived = Len(Stream) /\ Len(Stream) <= Capacity)
      ~> (Len(processed) >= k \/ pc \in {"closed", "undefined"})

\* conn_read_callback comes back to the event loop, however long the stream is.
CallbackReturns == (pc # "idle") ~> (pc \in {"idle", "closed", "undefined"})

\* "shutdown socket.": after it nothing uses the SessionHandle any more.
NothingAfterShutdown == pc # "undefined"
=============================================================================
