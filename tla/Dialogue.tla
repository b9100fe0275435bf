------------------------------ MODULE Dialogue ------------------------------
(***************************************************************************)
(* Both directions of one connection: RequestStream and PacketStream share *)
(* the main thread, the registration with epoll and the closed session.    *)
(* Each request is answered by one packet, once a worker has handled it.   *)
(***************************************************************************)
EXTENDS RequestStream, PacketStream

dialogueVars == <<vars, requestVars>>

InitDialogue == Init /\ InitRequests

\* EPOLL_CTL_MOD, of armWriteNotification and at the end of flushSendQueue, makes a new
\* EPOLLIN event if bytes wait in the socket.  An error of send() returns before it.
Remodify ==
  IF ~failed' /\ (unread # <<>> \/ link = "ended")
    THEN ReadableAgain
    ELSE UNCHANGED requestVars

\* main executes a SendRaw command: isClosed is looked at, then sendRawDirect.
Answer ==
  /\ sent < Len(submitted) /\ ~handling /\ ~closed
  /\ SendPacket
  /\ IF writePending THEN UNCHANGED requestVars ELSE Remodify

\* onWrite.  On a closed socket send() fails and nothing changes.
OnWrite ==
  /\ ~handling /\ ~closed
  /\ HandleWrite
  /\ Remodify

\* The client reads while its end is up.
Read ==
  /\ link = "up"
  /\ ClientStep
  /\ UNCHANGED requestVars

\* An event that reports EPOLLIN reports EPOLLOUT too if it is asked for and possible.
ReadEvent ==
  /\ OnRead
  /\ IF armed /\ Free > 0 THEN WritableAgain ELSE UNCHANGED vars

Request ==
  /\ Send \/ Network \/ Quit \/ Break \/ HandleRead \/ OnError
  /\ UNCHANGED vars

\* The session is closed, or all was asked and answered.
Rest ==
  /\ closed \/ (sent = R /\ wire = <<>> /\ ~edge /\ ~inEdge /\ ~handling /\ ~reading)
  /\ UNCHANGED dialogueVars

NextDialogue == Answer \/ OnWrite \/ Read \/ ReadEvent \/ Request \/ Rest

DialogueSpec == InitDialogue /\ [][NextDialogue]_dialogueVars

\* The server's event loop handles what epoll reports, TCP delivers while the link is
\* up, and the client takes what has come, in its event loop or in that of a dialog.
\* Nothing is assumed of the workers, of the commands they push, or of the user, who
\* may leave a dialog open.
FairDialogue ==
  /\ DialogueSpec
  /\ WF_dialogueVars(OnWrite) /\ WF_dialogueVars(ReadEvent)
  /\ WF_dialogueVars(HandleRead /\ UNCHANGED vars)
  /\ WF_dialogueVars(Network /\ UNCHANGED vars)
  /\ WF_dialogueVars(wire # <<>> /\ Read)
----------------------------------------------------------------------------
DialogueTypeOK == TypeOK /\ RequestTypeOK /\ Len(submitted) >= sent

\* The requests reach the pool, however TCP cuts the stream and whatever answers are
\* sent meanwhile, up to the first one over the limit, unless the connection fails:
\* onRead is never left waiting for an event that does not come.
RequestsReachPool ==
  []<>(\/ Len(submitted) = requested \/ ~Legal(Len(submitted) + 1)
       \/ link # "up")

\* The answers given to sendPacket leave sendQueue_ and reach the client's process,
\* however slowly the client reads and whatever it does with the bytes, unless send()
\* has failed or the session ends: sendQueue_ is never left waiting for EPOLLOUT.
AnswersReachClient ==
  []<>((sendQueue = <<>> /\ wire = <<>>) \/ failed \/ closed \/ link # "up")
============================================================================
