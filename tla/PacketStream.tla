---------------------------- MODULE PacketStream ----------------------------
(***************************************************************************)
(* The way of a packet from ClientSession::sendRawDirect to the client's   *)
(* ProtocolClient: PacketSender with its send queue and the edge-triggered *)
(* EPOLLOUT notification, the TCP stream, which keeps no boundaries, and   *)
(* Connection::slotReadyRead, which cuts the stream into packets again and *)
(* throws away what it holds when memory runs out or a packet is too large.*)
(***************************************************************************)
EXTENDS ByteStream

CONSTANTS
  N,           \* bound: packets sent in a behaviour
  BodyLen,     \* messageLen of each packet
  MaxBody,     \* MAX_REASONABLE_LEN of the client
  Capacity,    \* bytes the socket buffers of both ends hold
  SendMayFail, \* send() may fail with another error than EAGAIN
  MemoryRunsOut  \* std::bad_alloc in slotReadyRead or in a slot it calls

ASSUME SizesAssumption ==
  /\ N \in Nat /\ BodyLen \in [1..N -> Nat] /\ MaxBody \in Nat
  /\ Capacity \in Nat \ {0} /\ {SendMayFail, MemoryRunsOut} \subseteq BOOLEAN

VARIABLES
  sent,          \* packets given to sendPacket so far; they are numbered in that order
  sendQueue,     \* PacketSender::sendQueue_: the bytes of its buffers, in order
  writePending,  \* PacketSender::writePending_
  armed,         \* the socket is registered with EPOLLOUT
  edge,          \* epoll holds an EPOLLOUT event for the socket
  wire,          \* bytes accepted by send() that have not reached the client's process
  arrived,       \* bytes in the buffer of its QTcpSocket
  receiveBuffer, \* Connection::receiveBuffer_
  reading,       \* the client is in slotReadyRead
  inSlot,        \* and in a slot of a packet, where a dialog may run an event loop
  received,      \* history: packets the client emitted while it had discarded nothing
  discarded,     \* history: why receiveBuffer_ was cleared first: no, memory or size
  failed         \* history: the last flush ended with an error of send()

senderVars == <<sent, sendQueue, writePending, armed, failed>>
clientVars == <<arrived, receiveBuffer, reading, inSlot, received, discarded>>
vars == <<senderVars, edge, wire, clientVars>>

Reply(p) == Bytes(BodyLen, p)
Free == Capacity - Len(wire)

Init ==
  /\ sent = 0 /\ sendQueue = <<>> /\ writePending = FALSE
  /\ armed = FALSE /\ edge = FALSE
  /\ wire = <<>> /\ arrived = <<>> /\ receiveBuffer = <<>> /\ received = <<>>
  /\ reading = FALSE /\ inSlot = FALSE
  /\ discarded = "no" /\ failed = FALSE
----------------------------------------------------------------------------
(* PacketSender                                                            *)

\* armWriteNotification, the buffer being full.  The mutated form only notes it.
NoteOnly == writePending' = TRUE /\ UNCHANGED armed /\ edge' = FALSE
ArmWriteNotification == writePending' = TRUE /\ armed' = TRUE /\ edge' = FALSE

\* flushSendQueue on the bytes q: the queue gets empty, or the socket is full, or
\* send fails, after k bytes.  Mutated forms: writePending_ is not reset when the
\* queue is empty; send() is taken to accept everything, as if the socket blocked.
FlushStaysPending(q) ==
  LET k == IF Len(q) > Free THEN Free ELSE Len(q) IN
  /\ wire' = wire \o SubSeq(q, 1, k) /\ sendQueue' = Drop(q, k)
  /\ writePending' = (writePending \/ k < Len(q)) /\ armed' = (k < Len(q))
  /\ edge' = FALSE /\ failed' = FALSE
FlushBlocking(q) ==
  /\ wire' = wire \o q
  /\ sendQueue' = <<>> /\ writePending' = FALSE /\ armed' = FALSE /\ edge' = FALSE
  /\ failed' = FALSE
FlushSendQueue(q) ==
  \E k \in 0..Len(q) :
    /\ k <= Free
    /\ wire' = wire \o SubSeq(q, 1, k) /\ sendQueue' = Drop(q, k)
    /\ \/ /\ k = Len(q)
          /\ writePending' = FALSE /\ armed' = FALSE /\ edge' = FALSE
          /\ failed' = FALSE
       \/ /\ k < Len(q) /\ k = Free
          /\ ArmWriteNotification
          /\ failed' = FALSE
       \/ /\ SendMayFail /\ k < Len(q)
          /\ writePending' = FALSE /\ failed' = TRUE
          /\ edge' = FALSE /\ UNCHANGED armed

\* sendPacket: while a notification is awaited the packet only joins the queue.  The
\* mutated form sends it past the queue if it fits.
SendPacketAtOnce ==
  /\ sent < N
  /\ sent' = sent + 1
  /\ IF writePending /\ Len(Reply(sent + 1)) <= Free
       THEN /\ wire' = wire \o Reply(sent + 1)
            /\ UNCHANGED <<sendQueue, writePending, armed, edge, failed>>
       ELSE FlushSendQueue(sendQueue \o Reply(sent + 1))
  /\ UNCHANGED clientVars
SendPacket ==
  /\ sent < N
  /\ sent' = sent + 1
  /\ IF writePending
       THEN /\ sendQueue' = sendQueue \o Reply(sent + 1)
            /\ UNCHANGED <<writePending, armed, edge, wire, failed>>
       ELSE FlushSendQueue(sendQueue \o Reply(sent + 1))
  /\ UNCHANGED clientVars

\* handleWrite, on the event epoll reports once.
HandleWrite ==
  /\ edge
  /\ FlushSendQueue(sendQueue)
  /\ UNCHANGED <<sent, clientVars>>
----------------------------------------------------------------------------
(* epoll and the client                                                    *)

\* An event of the socket for another cause reports EPOLLOUT too.
WritableAgain ==
  /\ armed /\ Free > 0
  /\ edge' = TRUE
  /\ UNCHANGED <<senderVars, wire, clientVars>>


\* n bytes reach the client's process, which makes the server's socket writable.
Receive(n) == wire' = Drop(wire, n) /\ edge' = armed

\* The socket is readable: Qt takes what is there and slotReadyRead begins, with
\* readAll, which returns also what came during its last call.
ReadyRead ==
  /\ ~reading /\ reading' = TRUE
  /\ \E n \in 1..Len(wire) :
       /\ Receive(n)
       /\ receiveBuffer' = receiveBuffer \o arrived \o SubSeq(wire, 1, n)
  /\ arrived' = <<>>
  /\ UNCHANGED <<senderVars, inSlot, received, discarded>>

\* The event loop of a dialog takes bytes too, but Qt does not emit readyRead again
\* while a slot connected to it is running.
ArriveUnannounced ==
  /\ inSlot
  /\ \E n \in 1..Len(wire) : Receive(n) /\ arrived' = arrived \o SubSeq(wire, 1, n)
  /\ UNCHANGED <<senderVars, receiveBuffer, reading, inSlot, received, discarded>>

\* One turn of the loop, the packet being whole; the slots of its signal begin.
Extract ==
  /\ reading /\ Len(receiveBuffer) >= HeaderLen
  /\ \E len \in FrontLen(BodyLen, receiveBuffer, MaxBody + 1) :
       /\ len <= MaxBody /\ Len(receiveBuffer) >= HeaderLen + len
       /\ receiveBuffer' = Drop(receiveBuffer, HeaderLen + len)
  /\ received' = IF discarded = "no" THEN Append(received, FrontPacket(receiveBuffer))
                                    ELSE received
  /\ inSlot' = TRUE
  /\ UNCHANGED <<senderVars, edge, wire, arrived, reading, discarded>>

\* The whole buffer is thrown away, wherever in the stream it ends.
Discard(cause) ==
  /\ receiveBuffer' = <<>> /\ reading' = FALSE /\ inSlot' = FALSE
  /\ discarded' = IF discarded = "no" THEN cause ELSE discarded
  /\ UNCHANGED <<senderVars, received>>

\* messageLen is above the limit.
TooLarge ==
  /\ reading /\ Len(receiveBuffer) >= HeaderLen
  /\ \E len \in FrontLen(BodyLen, receiveBuffer, MaxBody + 1) : len > MaxBody
  /\ Discard("size")
  /\ UNCHANGED <<edge, wire, arrived>>

\* std::bad_alloc is caught: it came from the loop or a slot, or from readAll, which
\* then leaves the new bytes in the socket's buffer.  The connection stays up.
OutOfMemory ==
  /\ MemoryRunsOut
  /\ \/ reading /\ UNCHANGED <<edge, wire, arrived>>
     \/ /\ ~reading
        /\ \E n \in 1..Len(wire) : Receive(n) /\ arrived' = arrived \o SubSeq(wire, 1, n)
  /\ Discard("memory")

\* Less than a packet is left.
WaitForMore ==
  /\ reading
  /\ \/ Len(receiveBuffer) < HeaderLen
     \/ /\ Len(receiveBuffer) >= HeaderLen
        /\ \E len \in FrontLen(BodyLen, receiveBuffer, MaxBody + 1) :
             len <= MaxBody /\ Len(receiveBuffer) < HeaderLen + len
  /\ reading' = FALSE /\ inSlot' = FALSE
  /\ UNCHANGED <<senderVars, edge, wire, arrived, receiveBuffer, received, discarded>>

ClientStep ==
  ReadyRead \/ ArriveUnannounced \/ Extract \/ TooLarge \/ OutOfMemory \/ WaitForMore

Next == SendPacket \/ HandleWrite \/ WritableAgain \/ ClientStep

Spec == Init /\ [][Next]_vars
----------------------------------------------------------------------------
TypeOK ==
  /\ sent \in 0..N
  /\ sendQueue \in Seq((1..N) \X Nat) /\ wire \in Seq((1..N) \X Nat)
  /\ arrived \in Seq((1..N) \X Nat) /\ receiveBuffer \in Seq((1..N) \X Nat)
  /\ Len(wire) <= Capacity
  /\ {writePending, armed, edge, reading, inSlot, failed} \subseteq BOOLEAN
  /\ received \in Seq(0..N) /\ discarded \in {"no", "memory", "size"}

\* Cutting is the inverse of queueing: whatever the sizes of the partial sends and
\* of the chunks read, and whatever arrives while a dialog is open, the client has
\* emitted the packets in the order of sendPacket, each once, and the bytes between
\* the two ends are those of the packets that follow.  So it is until receiveBuffer_
\* is thrown away, which for its size only a packet over the limit brings about, when
\* all packets before it have been emitted; after that nothing is claimed.
Emitted(n) == n <= Len(received) /\ \A i \in 1..n : received[i] = i
StreamIntact ==
  /\ discarded = "no" =>
       /\ Len(received) <= sent /\ Emitted(Len(received))
       /\ LET pending == receiveBuffer \o arrived \o wire \o sendQueue IN
          Starts(BodyLen, pending, Len(received) + 1) /\ Ends(BodyLen, pending, sent)
  /\ discarded = "size" => \E p \in 1..sent : BodyLen[p] > MaxBody /\ Emitted(p - 1)

\* Edge-triggered EPOLLOUT loses no wakeup: while bytes wait in the queue and no
\* send has failed, the socket is registered for writing, and either epoll holds
\* the event or the buffers are full and reading will raise it.
WriterWillWake ==
  sendQueue # <<>> /\ ~failed => writePending /\ armed /\ (edge \/ Free = 0)
============================================================================
