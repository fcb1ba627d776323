------------------------------ MODULE NetStream ------------------------------
(***************************************************************************)
(* One direction of a netplay connection, below the packets: the queue of  *)
(* a NetConnection (packetq.c), sendPacket (netsend.c), the socket, the    *)
(* read buffer and dataReadyCallback (netrcv.c).  The other modules take   *)
(* the connection as a FIFO of packets; this one shows how far that holds. *)
(*                                                                         *)
(* A packet is sent as `len` cells, of which the first HeaderSize are its  *)
(* header.  A cell <<id, len, k>> is the k-th of packet id; the len in it  *)
(* stands for the length field of the header.  Each call of send() and of  *)
(* recv() is a step, and so is each packet the receiver handles.           *)
(***************************************************************************)
EXTENDS Integers, Sequences

CONSTANTS
  HeaderSize,    \* sizeof (PacketHeader)
  Lengths,       \* the lengths of the packets, header included
  ReadBufSize,   \* NETPLAY_READBUFSIZE
  SocketSize,    \* cells that fit between send() and recv()
  MaxPackets,    \* bound: packets queued
  MaxSplits      \* bound: calls of send() that take a part of a packet

ASSUME StreamAssumption ==
  /\ HeaderSize \in Nat \ {0}
  /\ Lengths \subseteq HeaderSize .. ReadBufSize
  /\ ReadBufSize \in Nat /\ HeaderSize <= ReadBufSize
  /\ SocketSize \in Nat
  /\ MaxPackets \in Nat /\ MaxSplits \in Nat

VARIABLES
  queue,      \* conn->queue of the sender
  queued,     \* number of packets queued so far
  unsent,     \* len in sendPacket for the head of the queue, 0 outside it
  flushing,   \* the sender is in flushPacketQueue
  socket,     \* cells sent and not yet received
  readBuf,    \* conn->readBuf to conn->readEnd of the receiver
  reading,    \* where the receiver is in dataReadyCallback
  handled,    \* the ids of the packets given to their handlers
  closed,     \* the ends that have closed the connection
  splits      \* history: calls of send() that took a part of a packet

sendVars == <<queue, queued, unsent, flushing>>
readVars == <<readBuf, reading, handled>>
streamVars == <<sendVars, readVars, socket, closed, splits>>

-----------------------------------------------------------------------------
Packets == [id : 1 .. MaxPackets, len : Lengths]

Garbled == 0

Cells(p) == [k \in 1 .. p.len |-> <<p.id, p.len, k>>]

Cell == (1 .. MaxPackets) \X Lengths \X Nat

StreamTypeOK ==
  /\ queue \in Seq(Packets)
  /\ queued \in 0 .. MaxPackets
  /\ unsent \in Nat /\ flushing \in BOOLEAN
  /\ socket \in Seq(Cell) /\ Len(socket) <= SocketSize
  /\ readBuf \in Seq(Cell) /\ Len(readBuf) <= ReadBufSize
  /\ reading \in {"idle", "recv", "parse", "parsed"}
  /\ handled \in Seq(1 .. MaxPackets \cup {Garbled})
  /\ closed \subseteq {"sender", "receiver"}
  /\ splits \in 0 .. MaxSplits

InitStream ==
  /\ queue = <<>> /\ queued = 0 /\ unsent = 0 /\ flushing = FALSE
  /\ socket = <<>> /\ readBuf = <<>> /\ reading = "idle" /\ handled = <<>>
  /\ closed = {} /\ splits = 0

-----------------------------------------------------------------------------
(* The sender.  Packets are queued by handlers and menus, never in a flush. *)

Sending == "sender" \notin closed

(* Faulty: the link is put in front.                                       *)
Linked1st(p) == <<p>> \o queue

(* queuePacket                                                             *)
Linked(p) == Append(queue, p)

QueuePacket ==
  /\ Sending /\ ~flushing /\ queued < MaxPackets
  /\ \E len \in Lengths : queue' = Linked([id |-> queued + 1, len |-> len])
  /\ queued' = queued + 1
  /\ UNCHANGED <<unsent, flushing, readVars, socket, closed, splits>>

(* flushPacketQueues, from netInput and the handlers                       *)
FlushQueue ==
  /\ Sending /\ ~flushing /\ queue # <<>>
  /\ flushing' = TRUE
  /\ unsent' = Head(queue).len
  /\ UNCHANGED <<queue, queued, readVars, socket, closed, splits>>

(* The end of sendPacket: flushPacketQueueLinks goes to the next link.     *)
Sent ==
  /\ queue' = Tail(queue)
  /\ flushing' = (Tail(queue) # <<>>)
  /\ unsent' = IF Tail(queue) = <<>> THEN 0 ELSE Head(Tail(queue)).len

(* One call of send() in the loop of sendPacket, of which the socket takes *)
(* n cells.  After a part of the packet the next call passes the packet    *)
(* from its first cell again.                                              *)
SendSome ==
  /\ Sending /\ flushing /\ "receiver" \notin closed
  /\ \E n \in 1 .. unsent :
       /\ Len(socket) + n <= SocketSize
       /\ socket' = socket \o SubSeq(Cells(Head(queue)), 1, n)
       /\ IF n = unsent THEN Sent /\ UNCHANGED splits
          ELSE /\ splits < MaxSplits
               /\ splits' = splits + 1
               /\ unsent' = unsent - n
               /\ UNCHANGED <<queue, flushing>>
  /\ UNCHANGED <<queued, readVars, closed>>

(* Faulty: the link of a packet that could not be sent is deleted.         *)
SocketFullLosesPacket ==
  /\ Sending /\ flushing /\ "receiver" \notin closed
  /\ Len(socket) + unsent > SocketSize
  /\ queue' = Tail(queue)
  /\ flushing' = FALSE /\ unsent' = 0
  /\ UNCHANGED <<queued, readVars, socket, closed, splits>>

(* EAGAIN, at any time at which the socket has no room for all that is     *)
(* left: the packet stays in the queue, whole.                             *)
SocketFull ==
  /\ Sending /\ flushing /\ "receiver" \notin closed
  /\ Len(socket) + unsent > SocketSize
  /\ flushing' = FALSE /\ unsent' = 0
  /\ UNCHANGED <<queue, queued, readVars, socket, closed, splits>>

(* NetConnection_close at the sender: by the player, by ECONNRESET in a    *)
(* flush, or as its own dataReadyCallback read an end or an error.  The    *)
(* queue is deleted; the system may drop what is in the socket.            *)
SenderCloses ==
  /\ Sending
  /\ flushing => "receiver" \in closed
  /\ closed' = closed \cup {"sender"}
  /\ queue' = <<>> /\ flushing' = FALSE /\ unsent' = 0
  /\ socket' \in {socket, <<>>}
  /\ UNCHANGED <<queued, readVars, splits>>

-----------------------------------------------------------------------------
(* The receiver                                                            *)

Receiving == "receiver" \notin closed

ReceiverEnds ==
  /\ closed' = closed \cup {"receiver"}
  /\ reading' = "idle"
  /\ UNCHANGED <<sendVars, socket, readBuf, handled, splits>>

(* select() finds the socket readable: NetManager_process calls            *)
(* dataReadyCallback.                                                      *)
DataReady ==
  /\ Receiving /\ reading = "idle"
  /\ socket # <<>> \/ "sender" \in closed
  /\ reading' = "recv"
  /\ UNCHANGED <<sendVars, socket, readBuf, handled, closed, splits>>

(* Faulty: recv() is always given the size of the whole buffer.            *)
RoomAlways == ReadBufSize

(* The length given to recv()                                              *)
Room == ReadBufSize - Len(readBuf)

Recv ==
  /\ Receiving /\ reading = "recv"
  /\ \E n \in 1 .. Room :
       /\ n <= Len(socket)
       /\ readBuf' = readBuf \o SubSeq(socket, 1, n)
       /\ socket' = SubSeq(socket, n + 1, Len(socket))
  /\ reading' = "parse"
  /\ UNCHANGED <<sendVars, handled, closed, splits>>

(* EAGAIN                                                                  *)
RecvNothing ==
  /\ Receiving /\ reading = "recv" /\ Room > 0
  /\ socket = <<>> /\ Sending
  /\ reading' = "idle"
  /\ UNCHANGED <<sendVars, socket, readBuf, handled, closed, splits>>

(* Faulty: an end of the stream is taken for a lack of data.               *)
RecvZeroIgnored ==
  /\ Receiving /\ reading = "recv"
  /\ Room = 0 \/ (socket = <<>> /\ ~Sending)
  /\ reading' = "idle"
  /\ UNCHANGED <<sendVars, socket, readBuf, handled, closed, splits>>

(* recv() returns 0 at the end of the stream, and when asked for nothing.  *)
RecvZero ==
  /\ Receiving /\ reading = "recv"
  /\ Room = 0 \/ (socket = <<>> /\ ~Sending)
  /\ ReceiverEnds

HeaderRead == Len(readBuf) >= HeaderSize

(* What is at the front of the read buffer is the header of a packet.      *)
GoodHeader ==
  \A k \in 1 .. HeaderSize :
    readBuf[k] = <<readBuf[1][1], readBuf[1][2], k>>

(* The length a header states; anything if it is not a header.             *)
StatedLengths ==
  IF GoodHeader THEN {readBuf[1][2]} ELSE Lengths \cup {ReadBufSize + 1}

(* Faulty: a packet that just fills the data is taken as incomplete.       *)
CompleteStrictly(len) == HeaderRead /\ len < Len(readBuf)

Complete(len) == HeaderRead /\ len <= Len(readBuf)

(* What a handler gets with the first len cells: a packet as it was queued *)
(* or not.                                                                 *)
Content(len) ==
  IF \A k \in 1 .. len : readBuf[k] = <<readBuf[1][1], len, k>>
  THEN readBuf[1][1] ELSE Garbled

(* dataReceivedSingle within dataReceivedMulti                             *)
HandlePacket ==
  /\ Receiving /\ reading \in {"parse", "parsed"}
  /\ HeaderRead
  /\ \E len \in StatedLengths :
       /\ Complete(len)
       /\ handled' = Append(handled, Content(len))
       /\ readBuf' = SubSeq(readBuf, len + 1, Len(readBuf))
  /\ reading' = "parsed"
  /\ UNCHANGED <<sendVars, socket, closed, splits>>

(* No complete packet is left: recv() is called again if there was one.    *)
Incomplete ==
  /\ Receiving /\ reading \in {"parse", "parsed"}
  /\ HeaderRead => \E len \in StatedLengths : ~Complete(len)
  /\ reading' = IF reading = "parsed" THEN "recv" ELSE "idle"
  /\ UNCHANGED <<sendVars, socket, readBuf, handled, closed, splits>>

(* A bad type or length, or a handler that reports an error                *)
BadPacket ==
  /\ Receiving /\ reading \in {"parse", "parsed"}
  /\ HeaderRead
  /\ ~GoodHeader \/ \E len \in StatedLengths : Complete(len)
  /\ ReceiverEnds

(* The connection is closed by the player, or by an error of recv().       *)
ReceiverCloses ==
  /\ Receiving /\ reading \in {"idle", "recv"}
  /\ ReceiverEnds

-----------------------------------------------------------------------------
Send == FlushQueue \/ SendSome \/ SocketFull
Read == DataReady \/ Recv \/ RecvNothing \/ RecvZero \/ HandlePacket \/ Incomplete

NextStream ==
  \/ QueuePacket \/ Send \/ SenderCloses
  \/ Read \/ BadPacket \/ ReceiverCloses

(* Both programs poll the connection in every loop.  An end that the other *)
(* has closed is readable, and closes.                                     *)
StreamFairness ==
  /\ WF_streamVars(Send) /\ WF_streamVars(Read)
  /\ WF_streamVars("receiver" \in closed /\ SenderCloses)

StreamSpec == InitStream /\ [][NextStream]_streamVars /\ StreamFairness

-----------------------------------------------------------------------------
StreamOpen == closed = {}

NoSplit == splits = 0

(* What has been sent and not been handled, and how many were sent.        *)
Wire == readBuf \o socket
NumSent == queued - Len(queue)

(* The i-th cell of the wire belongs to a packet that begins on the wire:  *)
(* its cells are there in order, as far as the wire reaches, and the next  *)
(* packet follows.                                                         *)
InPacket(i) ==
  LET id == Wire[i][1]  len == Wire[i][2]  first == i - Wire[i][3] + 1
  IN  /\ first \in 1 .. i /\ i < first + len
      /\ \A j \in first .. first + len - 1 :
           j <= Len(Wire) => Wire[j] = <<id, len, j - first + 1>>
      /\ first + len <= Len(Wire) =>
           Wire[first + len][1] = id + 1 /\ Wire[first + len][3] = 1

(* Nothing is lost, repeated or reordered between queuePacket and the      *)
(* handlers: the read buffer and the socket hold together the cells of the *)
(* packets that are sent and not yet handled, each packet whole and in     *)
(* order, and the queue holds the packets that follow.                     *)
WholeStream ==
  StreamOpen /\ NoSplit =>
    /\ \A i \in 1 .. Len(Wire) : InPacket(i)
    /\ IF Wire = <<>> THEN NumSent = Len(handled)
       ELSE LET last == Wire[Len(Wire)]
            IN  Wire[1][1] = Len(handled) + 1 /\ last[1] = NumSent
                  /\ last[3] = last[2]
    /\ \A i \in 1 .. Len(queue) : queue[i].id = NumSent + i
    /\ unsent # 0 => unsent = Head(queue).len

(* The receiver never asks recv() for nothing, which would look like the   *)
(* end of the stream and close a working connection.                       *)
NeverFull == reading = "recv" /\ Receiving /\ NoSplit => Room > 0

(* What a handler gets is a packet as it was queued.                       *)
PacketsArriveWhole == \A i \in 1 .. Len(handled) : handled[i] # Garbled

(* As long as no packet is split the connection is what the other modules  *)
(* take it for: the packets are handled in the order they were queued.     *)
Pipe == INSTANCE PacketPipe WITH
  given <- queued, taken <- handled

PipeUntilSplit == Pipe!Init /\ [][~NoSplit' \/ Pipe!Next]_<<queued, handled>>

(* Every packet queued is handled, unless the connection is closed.        *)
Delivered ==
  \A n \in 1 .. MaxPackets :
    queued = n ~> (Len(handled) >= n \/ ~StreamOpen \/ ~NoSplit)

(* When one end closes, the other notices.                                 *)
CloseNoticed == ~StreamOpen ~> closed = {"sender", "receiver"}

(* The three buffers together hold the stream, and the last has room.      *)
StreamIsWhole == StreamTypeOK /\ WholeStream /\ NeverFull

(* Packets arrive, and so does the end of the connection.                  *)
AllArrives == Delivered /\ CloseNoticed
=============================================================================
