---------------------------- MODULE RequestStream ----------------------------
(***************************************************************************)
(* The way of a request from Connection::send of the client to the thread  *)
(* pool of the server: the buffers of Qt and TCP, the edge-triggered       *)
(* EPOLLIN event, ClientSession::handleRead with its PacketAssembler, and  *)
(* the end of the stream.                                                  *)
(***************************************************************************)
EXTENDS ByteStream

CONSTANTS
  R,           \* bound: requests of a behaviour
  RequestLen,  \* messageLen of each request
  MaxRequest,  \* config::MAX_REASONABLE_PACKET_BODY
  Chunk        \* config::SESSION_READ_BUFFER_SIZE

ASSUME RequestAssumption ==
  /\ R \in Nat /\ RequestLen \in [1..R -> Nat] /\ MaxRequest \in Nat
  /\ Chunk \in Nat \ {0}

VARIABLES
  requested,   \* requests given to Connection::send so far, numbered in that order
  outgoing,    \* bytes in the client's buffers and under way
  unread,      \* bytes in the server's socket
  link,        \* the client's end: "up", "ending" (closed, FIN under way), "ended", "broken"
  inEdge,      \* epoll holds an EPOLLIN event for the socket
  handling,    \* the main thread is in handleRead
  readBuffer,  \* PacketAssembler::readBuffer_
  tasks,       \* the vector handleRead builds, as the numbers of its requests
  submitted,   \* requests onRead has submitted to the pool
  closed       \* ClientSession::closed_

requestVars == <<requested, outgoing, unread, link, inEdge, handling, readBuffer, tasks,
                 submitted, closed>>
peerVars == <<requested, outgoing, link>>

InitRequests ==
  /\ requested = 0 /\ outgoing = <<>> /\ unread = <<>> /\ link = "up"
  /\ inEdge = FALSE /\ handling = FALSE /\ readBuffer = <<>>
  /\ tasks = <<>> /\ submitted = <<>> /\ closed = FALSE
----------------------------------------------------------------------------
(* The client and the network                                              *)

\* Connection::send while the socket is connected: write() takes all of the packet.
Send ==
  /\ link = "up" /\ ~closed /\ requested < R
  /\ requested' = requested + 1
  /\ outgoing' = outgoing \o Bytes(RequestLen, requested + 1)
  /\ UNCHANGED <<unread, link, inEdge, handling, readBuffer, tasks, submitted, closed>>

\* TCP delivers the next bytes, in pieces of any size.
Arrive ==
  /\ link # "broken" /\ ~closed
  /\ \E n \in 1..Len(outgoing) :
       /\ unread' = unread \o SubSeq(outgoing, 1, n)
       /\ outgoing' = Drop(outgoing, n)
  /\ inEdge' = TRUE
  /\ UNCHANGED <<requested, link, handling, readBuffer, tasks, submitted, closed>>

\* The client ends: its socket is aborted, with what Qt had not written.
Quit ==
  /\ link = "up" /\ ~closed
  /\ \E n \in 0..Len(outgoing) : outgoing' = SubSeq(outgoing, 1, n)
  /\ link' = "ending"
  /\ UNCHANGED <<requested, unread, inEdge, handling, readBuffer, tasks, submitted, closed>>

FinArrives ==
  /\ link = "ending" /\ outgoing = <<>> /\ ~closed
  /\ link' = "ended" /\ inEdge' = TRUE
  /\ UNCHANGED <<requested, outgoing, unread, handling, readBuffer, tasks, submitted, closed>>

\* A reset, a network failure.
Break ==
  /\ link # "broken" /\ ~closed
  /\ link' = "broken"
  /\ UNCHANGED <<requested, outgoing, unread, inEdge, handling, readBuffer, tasks,
                 submitted, closed>>
\* EPOLL_CTL_MOD looks at the socket again, and finds it readable.
ReadableAgain ==
  /\ unread # <<>> \/ link = "ended"
  /\ inEdge' = TRUE
  /\ UNCHANGED <<peerVars, unread, handling, readBuffer, tasks, submitted, closed>>
----------------------------------------------------------------------------
(* The server                                                              *)

\* onRead on the event; handleRead begins.
OnRead ==
  /\ inEdge /\ ~handling /\ ~closed
  /\ inEdge' = FALSE /\ handling' = TRUE
  /\ UNCHANGED <<peerVars, unread, readBuffer, tasks, submitted, closed>>

\* A whole packet is at the front of readBuffer_, with a body of len bytes.  The
\* mutated form wants a byte more than the packet has.
CompleteLate(len) ==
  /\ Len(readBuffer) > HeaderLen + len
  /\ len \in FrontLen(RequestLen, readBuffer, MaxRequest + 1)
Complete(len) ==
  /\ Len(readBuffer) >= HeaderLen
  /\ len \in FrontLen(RequestLen, readBuffer, MaxRequest + 1)
  /\ Len(readBuffer) >= HeaderLen + len
HasPacket == \E len \in 0..Len(readBuffer) : Complete(len)

\* handleRead returns its tasks and onRead submits them.  The mutated form drops the
\* tasks of a session that is being closed.
FinishIfOpen ==
  /\ handling' = FALSE
  /\ submitted' = IF closed' THEN submitted ELSE submitted \o tasks
  /\ tasks' = <<>>
Finish ==
  /\ handling' = FALSE /\ submitted' = submitted \o tasks /\ tasks' = <<>>

\* extractPacket, in the inner loop; the length is looked at afterwards.
ExtractPacket ==
  /\ handling
  /\ \E len \in 0..Len(readBuffer) :
       /\ Complete(len)
       /\ readBuffer' = Drop(readBuffer, HeaderLen + len)
       /\ IF len > MaxRequest
            THEN closed' = TRUE /\ Finish
            ELSE /\ tasks' = Append(tasks, FrontPacket(readBuffer))
                 /\ UNCHANGED <<closed, handling, submitted>>
  /\ UNCHANGED <<peerVars, unread, inEdge>>

\* recv takes at most a chunk, and appendData keeps it.
Recv ==
  /\ handling /\ ~HasPacket /\ unread # <<>>
  /\ LET n == IF Len(unread) < Chunk THEN Len(unread) ELSE Chunk IN
       /\ readBuffer' = readBuffer \o SubSeq(unread, 1, n)
       /\ unread' = Drop(unread, n)
  /\ UNCHANGED <<peerVars, inEdge, handling, tasks, submitted, closed>>

\* EAGAIN.  Mutated form: handleRead is content with less than a chunk.
StopShort ==
  /\ handling /\ ~HasPacket /\ Len(unread) < Chunk /\ link \in {"up", "ending"}
  /\ UNCHANGED <<peerVars, unread, inEdge, readBuffer, closed>>
  /\ Finish
WouldBlock ==
  /\ handling /\ ~HasPacket /\ unread = <<>> /\ link \in {"up", "ending"}
  /\ UNCHANGED <<peerVars, unread, inEdge, readBuffer, closed>>
  /\ Finish

\* recv returns 0.
EndOfStream ==
  /\ handling /\ ~HasPacket /\ unread = <<>> /\ link = "ended"
  /\ closed' = TRUE
  /\ Finish
  /\ UNCHANGED <<peerVars, unread, inEdge, readBuffer>>

\* recv fails, or memory runs out in the loop: closeSession, which breaks the link.
ReadFails ==
  /\ handling
  /\ closed' = TRUE /\ link' = "broken"
  /\ Finish
  /\ UNCHANGED <<requested, outgoing, unread, inEdge, readBuffer>>

\* onError, on EPOLLERR or EPOLLHUP.
OnError ==
  /\ link = "broken" /\ ~handling /\ ~closed
  /\ closed' = TRUE
  /\ UNCHANGED <<peerVars, unread, inEdge, handling, readBuffer, tasks, submitted>>

HandleRead == ExtractPacket \/ Recv \/ WouldBlock \/ EndOfStream \/ ReadFails
Network == Arrive \/ FinArrives
RequestNext ==
  Send \/ Network \/ Quit \/ Break \/ ReadableAgain \/ OnRead \/ HandleRead \/ OnError

RequestSpec == InitRequests /\ [][RequestNext]_requestVars
----------------------------------------------------------------------------
RequestTypeOK ==
  /\ requested \in 0..R
  /\ outgoing \in Seq((1..R) \X Nat) /\ unread \in Seq((1..R) \X Nat)
  /\ readBuffer \in Seq((1..R) \X Nat)
  /\ link \in {"up", "ending", "ended", "broken"}
  /\ {inEdge, handling, closed} \subseteq BOOLEAN
  /\ tasks \in Seq(0..R) /\ submitted \in Seq(0..R)

Legal(r) == RequestLen[r] <= MaxRequest
AllLegal == \A r \in 1..requested : Legal(r)

\* What the pool gets is what the client sent, whatever the pieces TCP and recv make
\* of it: the requests in order, each once, none over the limit, even when the
\* session is closed in the same handleRead; and while the session is open, or closed
\* by the end of the stream, the bytes between the two ends are those of the requests
\* that follow.
RequestsIntact ==
  LET cut == submitted \o tasks IN
  /\ cut = [i \in 1..Len(cut) |-> i]
  /\ \A i \in 1..Len(cut) : Legal(i)
  /\ ~closed \/ (link = "ended" /\ AllLegal) =>
       LET pending == readBuffer \o unread \o outgoing IN
       /\ Starts(RequestLen, pending, Len(cut) + 1)
       /\ link = "up" => Ends(RequestLen, pending, requested)

\* Edge-triggered EPOLLIN strands nothing: outside handleRead, unread bytes or the
\* end of the stream have an event that will bring handleRead back, no whole packet
\* stays behind in the assembler, and a session closed at the end of the stream has
\* read all of it.
NothingStranded ==
  ~handling /\ link # "broken" =>
    /\ (unread # <<>> \/ link = "ended") /\ ~closed => inEdge
    /\ ~closed \/ AllLegal => ~HasPacket
    /\ closed /\ AllLegal => unread = <<>>
============================================================================
