----------------------------- MODULE MainThread -----------------------------
(***************************************************************************)
(* The main thread: the loop of EventPoller, the handlers of               *)
(* SessionManager it calls, the commands of ResultQueue it executes, and   *)
(* the shutdown sequence of main().  Each action is one handler, run to    *)
(* its end: the workers touch none of the maps a handler changes, and what *)
(* they share with it is behind a mutex or an atomic.                      *)
(***************************************************************************)
EXTENDS ServerState

\* delete session, and a mutated form that forgets it.
ForgetObject(s) == UNCHANGED life
DeleteObject(s) == life' = [life EXCEPT ![s] = "deleted"]

\* Erasing fd from sessions_ and inFlight_, and a form that keeps the entries.
KeepEntries(fd) == UNCHANGED <<sessions, inFlight>>
EraseEntries(fd) ==
  /\ sessions' = [sessions EXCEPT ![fd] = NoSession]
  /\ inFlight' = [inFlight EXCEPT ![fd] = -1]

\* SessionManager::closeClient: unregister, close, delete, erase.  It looks at
\* neither inFlight_ nor pendingDelete_.
CloseClient(fd) ==
  LET s == sessions[fd] IN
  IF s = NoSession
    THEN UNCHANGED <<sessions, inFlight, life, closed, wantWrite, byUserID>>
    ELSE /\ byUserID' = Unregistered(userID[s], s)
         /\ closed' = closed \cup {s}
         /\ wantWrite' = wantWrite \ {s}
         /\ DeleteObject(s)
         /\ EraseEntries(fd)

\* The tasks in flight under fd, n of them submitted by the handler that asks.
\* The mutated form sees none.
PendingIgnored(fd, n) == 0
Pending(fd, n) == (IF inFlight[fd] = -1 THEN 0 ELSE inFlight[fd]) + n

\* closeSession now, delete when the last task is done.  The mutated form of the
\* first step does not note the deletion.
NotePendingNot(fd) == UNCHANGED pendingDelete
NotePending(fd) == pendingDelete' = pendingDelete \cup {fd}
Defer(fd, n) ==
  /\ NotePending(fd)
  /\ inFlight' = [inFlight EXCEPT ![fd] = Pending(fd, n)]
  /\ closed' = closed \cup ({sessions[fd]} \cap Sessions)
  /\ wantWrite' = wantWrite \ {sessions[fd]}
  /\ UNCHANGED <<sessions, life, byUserID>>

\* SessionManager::closeOrDefer, after n tasks were submitted under fd.
CloseOrDefer(fd, n) ==
  IF Pending(fd, n) > 0
    THEN Defer(fd, n)
    ELSE CloseClient(fd) /\ UNCHANGED pendingDelete
----------------------------------------------------------------------------
(* EventPoller::startEventLoop                                             *)

BetweenBatches == mode = "loop" /\ drained = 0 /\ ready = <<>>

\* What epoll may report: client sockets in the interest list, the listening
\* socket, the eventfd once something was pushed.
Reportable(e) ==
  \/ \E s \in Sessions : Open(s) /\ FdOf[s] = e.fd
                         /\ (e.ev \in {"out", "inout"} => s \in wantWrite)
  \/ e.fd = Listener /\ e.ev \in {"in", "err"}
  \/ e.fd = EventFd /\ e.ev = "in" /\ commands # <<>>

\* One batch: distinct descriptors, in any order; some may be left out.
EpollWait ==
  /\ Sane /\ BetweenBatches
  /\ \E n \in 1..MaxEvents : \E batch \in [1..n -> {e \in Event : Reportable(e)}] :
       /\ \A i, j \in 1..n : i # j => batch[i].fd # batch[j].fd
       /\ ready' = batch
  /\ UNCHANGED <<managerVars, objectVars, byUserID, taskVars, queueVars, mode>>

\* The event at the head of the batch is of one of the kinds evs and is consumed.
HandleEvent(fd, evs) ==
  /\ Sane /\ mode = "loop" /\ drained = 0
  /\ ready # <<>> /\ Head(ready).fd = fd /\ Head(ready).ev \in evs
  /\ ready' = Tail(ready)
  /\ UNCHANGED <<userID, mode>>

\* accept() and SessionManager::onNewConnection.  The kernel returns a number
\* that is not open; pendingDelete_ is not consulted.
Accept(s) ==
  LET fd == FdOf[s] IN
  /\ HandleEvent(Listener, {"in"})
  /\ life[s] = "unborn"
  /\ \A r \in Sessions : Open(r) => FdOf[r] # fd
  /\ EagerReuse \/ sessions[fd] = NoSession
  /\ life' = [life EXCEPT ![s] = "live"]
  /\ sessions' = [sessions EXCEPT ![fd] = s]
  /\ inFlight' = [inFlight EXCEPT ![fd] = 0]
  /\ UNCHANGED <<pendingDelete, closed, wantWrite, byUserID, taskVars, queueVars>>

\* accept() or fcntl() fails and the new socket, if any, is closed.
AcceptFails ==
  /\ HandleEvent(Listener, {"in"})
  /\ UNCHANGED <<managerVars, life, closed, wantWrite, byUserID, taskVars, queueVars>>

\* An error on the listening socket ends the loop and drops the rest of the batch.
ListenerError ==
  /\ Sane /\ mode = "loop" /\ drained = 0
  /\ ready # <<>> /\ Head(ready).fd = Listener /\ Head(ready).ev = "err"
  /\ ready' = <<>> /\ mode' = "test"
  /\ UNCHANGED <<managerVars, objectVars, byUserID, taskVars, queueVars>>

\* The head of the loop sees ShutdownSignal.
ShutdownRequested ==
  /\ Sane /\ BetweenBatches
  /\ mode' = "test"
  /\ UNCHANGED <<managerVars, objectVars, byUserID, taskVars, queueVars, ready>>
----------------------------------------------------------------------------
(* Handlers of client sockets                                              *)

\* ++inFlight_ and ThreadPool::submit for n packets of s.
Submit(s, n) ==
  LET new == submitted+1 .. submitted+n IN
  /\ submitted' = submitted + n
  /\ phase' = [t \in Tasks |-> IF t \in new THEN "queued" ELSE phase[t]]
  /\ owner' = [t \in Tasks |-> IF t \in new THEN s ELSE owner[t]]
  /\ UNCHANGED frame

\* SessionManager::onRead on an open session: n whole packets were read, and
\* then the socket was empty or (ended) the peer was gone, the stream was bad or
\* recv failed, and handleRead closed the session.
ReadPackets(fd, n, ended) ==
  /\ Submit(sessions[fd], n)
  /\ IF ended
       THEN CloseOrDefer(fd, n)
       ELSE /\ inFlight' = [inFlight EXCEPT ![fd] = @ + n]
            /\ UNCHANGED <<sessions, pendingDelete, life, closed, wantWrite, byUserID>>

\* onRead on a session closed earlier in the batch: recv fails with EBADF.
ReadClosed(fd) == CloseOrDefer(fd, 0) /\ UNCHANGED taskVars

OnRead(fd) ==
  /\ IF sessions[fd] = NoSession
       THEN UNCHANGED <<managerVars, life, closed, wantWrite, byUserID, taskVars>>
       ELSE \/ /\ sessions[fd] \in closed
               /\ ReadClosed(fd)
            \/ /\ sessions[fd] \notin closed
               /\ \E n \in 0..(MaxTasks - submitted), ended \in BOOLEAN :
                    ReadPackets(fd, n, ended)
  /\ UNCHANGED queueVars

HandleRead(fd) == HandleEvent(fd, {"in"}) /\ OnRead(fd)

\* EPOLLIN and EPOLLOUT in one event: onRead, then onWrite before any other event.
HandleReadWrite(fd) ==
  /\ Sane /\ mode = "loop" /\ drained = 0
  /\ ready # <<>> /\ Head(ready) = [fd |-> fd, ev |-> "inout"]
  /\ ready' = <<[fd |-> fd, ev |-> "out"]>> \o Tail(ready)
  /\ OnRead(fd)
  /\ UNCHANGED <<userID, mode>>

\* PacketSender::flushSendQueue leaves the socket registered with EPOLLOUT or
\* without it; only a slow peer makes send() fail with EAGAIN.
Flush(s) ==
  \E blocked \in BOOLEAN :
    /\ blocked => s \in SlowPeers
    /\ wantWrite' = IF blocked THEN wantWrite \cup {s} ELSE wantWrite \ {s}

\* SessionManager::onWrite: a closed session is deleted at once.
OnWrite(fd) ==
  LET s == sessions[fd] IN
  \/ s = NoSession /\ UNCHANGED <<managerVars, life, closed, wantWrite, byUserID>>
  \/ s # NoSession /\ s \in closed /\ CloseClient(fd) /\ UNCHANGED pendingDelete
  \/ s # NoSession /\ s \notin closed /\ Flush(s)
     /\ UNCHANGED <<managerVars, life, closed, byUserID>>

HandleWrite(fd) == HandleEvent(fd, {"out"}) /\ OnWrite(fd) /\ UNCHANGED <<taskVars, queueVars>>

\* SessionManager::onError
HandleError(fd) ==
  /\ HandleEvent(fd, {"err"})
  /\ CloseOrDefer(fd, 0)
  /\ UNCHANGED <<taskVars, queueVars>>
----------------------------------------------------------------------------
(* Commands                                                                *)

\* ResultQueue::drain takes every command pushed so far.
HandleEventFd ==
  /\ HandleEvent(EventFd, {"in"})
  /\ drained' = Len(commands)
  /\ UNCHANGED <<managerVars, life, closed, wantWrite, byUserID, taskVars, commands>>

\* The command main executes next.  The mutated form runs past the last one.
NextCommandOverrun(type) ==
  /\ Sane /\ drained > 0 /\ Head(commands).type = type
  /\ commands' = Tail(commands)
  /\ UNCHANGED <<drained, userID, submitted, owner, frame, loopVars>>
NextCommand(type) ==
  /\ Sane /\ drained > 0 /\ Head(commands).type = type
  /\ commands' = Tail(commands) /\ drained' = drained - 1
  /\ UNCHANGED <<userID, submitted, owner, frame, loopVars>>

\* The session under the number the command carries, whoever pushed it.
ExecuteSendRaw ==
  LET s == sessions[Head(commands).fd] IN
  /\ NextCommand("SendRaw")
  /\ IF s # NoSession /\ s \notin closed THEN Flush(s) ELSE UNCHANGED wantWrite
  /\ UNCHANGED <<managerVars, life, closed, byUserID, phase>>

\* SessionManager::requestCloseClient
ExecuteClose ==
  LET fd == Head(commands).fd IN
  /\ NextCommand("Close")
  /\ IF sessions[fd] = NoSession
       THEN UNCHANGED <<managerVars, life, closed, wantWrite, byUserID>>
       ELSE CloseOrDefer(fd, 0)
  /\ UNCHANGED phase

\* SessionManager::onTaskDone.  The second form does not decrement.
OnTaskDoneNoDecrement(fd) ==
  IF inFlight[fd] = 0 /\ fd \in pendingDelete
    THEN pendingDelete' = pendingDelete \ {fd} /\ CloseClient(fd)
    ELSE UNCHANGED <<managerVars, life, closed, wantWrite, byUserID>>
OnTaskDone(fd) ==
  IF inFlight[fd] \in {0, 1} /\ fd \in pendingDelete
    THEN pendingDelete' = pendingDelete \ {fd} /\ CloseClient(fd)
    ELSE /\ inFlight' = IF inFlight[fd] > 0 THEN [inFlight EXCEPT ![fd] = @ - 1]
                                            ELSE inFlight
         /\ UNCHANGED <<pendingDelete, sessions, life, closed, wantWrite, byUserID>>

ExecuteTaskDone ==
  /\ NextCommand("TaskDone")
  /\ OnTaskDone(Head(commands).fd)
  /\ phase' = [phase EXCEPT ![Head(commands).by] = "retired"]
----------------------------------------------------------------------------
(* The end of main()                                                       *)

\* while (hasPendingTasks()) { drain; execute; sleep }
TestPending ==
  /\ Sane /\ mode = "test" /\ drained = 0 /\ HasPendingTasks
  /\ mode' = "drain"
  /\ UNCHANGED <<managerVars, objectVars, byUserID, taskVars, queueVars, ready>>

DrainAtShutdown ==
  /\ Sane /\ mode = "drain" /\ drained = 0
  /\ mode' = "test" /\ drained' = Len(commands)
  /\ UNCHANGED <<managerVars, objectVars, byUserID, taskVars, commands, ready>>

\* ThreadPool::stop joins the idle workers, and ~SessionManager deletes every
\* session of the map, unregistering only those not closed yet.
Exit ==
  /\ Sane /\ mode = "test" /\ drained = 0 /\ ~HasPendingTasks
  /\ LET mapped == {sessions[fd] : fd \in Fds} \cap Sessions IN
     /\ life' = [s \in Sessions |-> IF s \in mapped THEN "deleted" ELSE life[s]]
     /\ closed' = closed \cup mapped
     /\ wantWrite' = wantWrite \ mapped
     /\ byUserID' = [u \in Users |->
          IF byUserID[u] \in mapped \ closed /\ userID[byUserID[u]] = u
            THEN NoSession ELSE byUserID[u]]
  /\ sessions' = [fd \in Fds |-> NoSession]
  /\ mode' = "exited"
  /\ UNCHANGED <<inFlight, pendingDelete, userID, taskVars, queueVars, ready>>

MainStep ==
  \/ EpollWait \/ ListenerError \/ ShutdownRequested
  \/ \E s \in Sessions : Accept(s)
  \/ AcceptFails
  \/ \E fd \in Fds : HandleRead(fd) \/ HandleReadWrite(fd) \/ HandleWrite(fd) \/ HandleError(fd)
  \/ HandleEventFd
  \/ ExecuteSendRaw \/ ExecuteClose \/ ExecuteTaskDone
  \/ TestPending \/ DrainAtShutdown \/ Exit

\* What main does after the event loop.
ShutdownStep ==
  /\ mode # "loop"
  /\ ExecuteSendRaw \/ ExecuteClose \/ ExecuteTaskDone \/ TestPending \/ DrainAtShutdown \/ Exit
============================================================================
