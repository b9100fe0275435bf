---------------------------- MODULE ServerTypes ----------------------------
(***************************************************************************)
(* What holds of Server whatever the constants: types, the order of the    *)
(* queue of commands, maps that agree, counters that never run ahead of    *)
(* the work, and a quiet end.                                              *)
(***************************************************************************)
EXTENDS Server, FiniteSetTheorems, TLAPS

\* The part of TypeOK that closing a session changes.
ManagerTypeOK ==
  /\ sessions \in [Fds -> Sessions \cup {NoSession}]
  /\ inFlight \in [Fds -> Nat \cup {-1}]
  /\ pendingDelete \subseteq Fds
  /\ life \in [Sessions -> {"unborn", "live", "deleted"}]
  /\ closed \subseteq Sessions
  /\ wantWrite \subseteq Sessions
  /\ byUserID \in [Users -> Sessions \cup {NoSession}]

TaskTypeOK ==
  /\ submitted \in 0..MaxTasks
  /\ phase \in [Tasks -> Phases]
  /\ owner \in [Tasks -> Sessions]
  /\ frame \in [Tasks -> Frame]

QueueTypeOK ==
  /\ commands \in Seq(Command)
  /\ drained \in 0..Len(commands)

LoopTypeOK ==
  /\ ready \in Seq(Event)
  /\ mode \in {"loop", "test", "drain", "exited"}

RestTypeOK ==
  /\ userID \in [Sessions -> Users \cup {NoUser}]
  /\ fault \in {"none", "task", "peer"}

LEMMA TypeParts ==
  TypeOK <=> ManagerTypeOK /\ TaskTypeOK /\ QueueTypeOK /\ LoopTypeOK /\ RestTypeOK
BY DEF TypeOK, ManagerTypeOK, TaskTypeOK, QueueTypeOK, LoopTypeOK, RestTypeOK

LEMMA TypePartsPrime ==
  TypeOK' <=> ManagerTypeOK' /\ TaskTypeOK' /\ QueueTypeOK' /\ LoopTypeOK' /\ RestTypeOK'
BY DEF TypeOK, ManagerTypeOK, TaskTypeOK, QueueTypeOK, LoopTypeOK, RestTypeOK

\* Every part is a state predicate of its own variables.
LEMMA ManagerTypeStutter ==
  ManagerTypeOK /\ UNCHANGED <<managerVars, life, closed, wantWrite, byUserID>> => ManagerTypeOK'
BY DEF ManagerTypeOK, managerVars
LEMMA TaskTypeStutter == TaskTypeOK /\ UNCHANGED taskVars => TaskTypeOK'
BY DEF TaskTypeOK, taskVars
LEMMA QueueTypeStutter == QueueTypeOK /\ UNCHANGED queueVars => QueueTypeOK'
BY DEF QueueTypeOK, queueVars
LEMMA LoopTypeStutter == LoopTypeOK /\ UNCHANGED loopVars => LoopTypeOK'
BY DEF LoopTypeOK, loopVars
----------------------------------------------------------------------------
\* closeClient, and closeOrDefer after n submissions, keep the types.
LEMMA CloseClientType ==
  ASSUME ManagerTypeOK, RestTypeOK, NEW fd \in Fds, CloseClient(fd)
  PROVE  /\ sessions' \in [Fds -> Sessions \cup {NoSession}]
         /\ inFlight' \in [Fds -> Nat \cup {-1}]
         /\ life' \in [Sessions -> {"unborn", "live", "deleted"}]
         /\ closed' \subseteq Sessions
         /\ wantWrite' \subseteq Sessions
         /\ byUserID' \in [Users -> Sessions \cup {NoSession}]
<1>1. CASE sessions[fd] = NoSession
  BY <1>1 DEF ManagerTypeOK, CloseClient
<1>2. CASE sessions[fd] # NoSession
  <2>1. sessions[fd] \in Sessions
    BY <1>2 DEF ManagerTypeOK
  <2>2. byUserID' = Unregistered(userID[sessions[fd]], sessions[fd])
    BY <1>2 DEF CloseClient
  <2>3. byUserID' \in [Users -> Sessions \cup {NoSession}]
    BY <2>2 DEF Unregistered, ManagerTypeOK
  <2> QED
    BY <1>2, <2>1, <2>3 DEF ManagerTypeOK, CloseClient, DeleteObject, EraseEntries
<1> QED BY <1>1, <1>2

LEMMA PendingType ==
  ASSUME ManagerTypeOK, NEW fd \in Fds, NEW n \in Nat
  PROVE  Pending(fd, n) \in Nat
BY DEF Pending, ManagerTypeOK

LEMMA CloseOrDeferType ==
  ASSUME ManagerTypeOK, RestTypeOK, NEW fd \in Fds, NEW n \in Nat, CloseOrDefer(fd, n)
  PROVE  ManagerTypeOK'
<1>1. CASE Pending(fd, n) > 0
  <2>1. Defer(fd, n)
    BY <1>1 DEF CloseOrDefer
  <2> QED BY <2>1, PendingType DEF Defer, NotePending, ManagerTypeOK
<1>2. CASE ~(Pending(fd, n) > 0)
  <2>1. CloseClient(fd) /\ UNCHANGED pendingDelete
    BY <1>2 DEF CloseOrDefer
  <2> QED BY <2>1, CloseClientType DEF ManagerTypeOK
<1> QED BY <1>1, <1>2

\* Submitting keeps the types of the task variables.
LEMMA SubmitType ==
  ASSUME TaskTypeOK, NEW s \in Sessions, NEW n \in 0..(MaxTasks - submitted), Submit(s, n)
  PROVE  TaskTypeOK'
BY BoundsAssumption DEF TaskTypeOK, Submit, Phases

LEMMA FlushType ==
  ASSUME ManagerTypeOK, NEW s \in Sessions, Flush(s)
  PROVE  wantWrite' \subseteq Sessions
BY DEF Flush, ManagerTypeOK

LEMMA PushType ==
  ASSUME QueueTypeOK, NEW type \in {"SendRaw", "Close", "TaskDone"}, NEW s \in Sessions,
         NEW t \in Tasks, Push(type, s, t), UNCHANGED drained
  PROVE  QueueTypeOK'
<1> DEFINE c == [type |-> type, fd |-> FdOf[s], to |-> s, by |-> t]
<1>1. c \in Command
  BY FdsAssumption DEF Command
<1>2. commands' \in Seq(Command) /\ Len(commands') = Len(commands) + 1
  BY <1>1 DEF Push, QueueTypeOK
<1> QED BY <1>2 DEF QueueTypeOK
----------------------------------------------------------------------------
\* The handlers of the main thread.
LEMMA EventTail ==
  ASSUME LoopTypeOK, ready # <<>>
  PROVE  Head(ready) \in Event /\ Tail(ready) \in Seq(Event)
BY DEF LoopTypeOK

LEMMA CommandTail ==
  ASSUME QueueTypeOK, drained > 0
  PROVE  /\ Head(commands) \in Command
         /\ Tail(commands) \in Seq(Command)
         /\ Len(Tail(commands)) = Len(commands) - 1
         /\ commands # <<>>
BY DEF QueueTypeOK

LEMMA NextCommandType ==
  ASSUME TypeOK, NEW type, NextCommand(type)
  PROVE  /\ QueueTypeOK' /\ LoopTypeOK' /\ RestTypeOK'
         /\ Head(commands) \in Command
<1> USE TypeParts
<1>1. QueueTypeOK'
  BY CommandTail DEF NextCommand, QueueTypeOK
<1>2. LoopTypeOK'
  BY LoopTypeStutter DEF NextCommand
<1> QED BY <1>1, <1>2, CommandTail DEF NextCommand, Sane, RestTypeOK

LEMMA HandleEventType ==
  ASSUME TypeOK, NEW fd, NEW evs, HandleEvent(fd, evs)
  PROVE  LoopTypeOK' /\ RestTypeOK'
<1>1. LoopTypeOK'
  BY TypeParts, EventTail DEF HandleEvent, LoopTypeOK
<1> QED BY <1>1, TypeParts DEF HandleEvent, Sane, RestTypeOK

LEMMA OnReadType ==
  ASSUME TypeOK, NEW fd \in Fds, OnRead(fd)
  PROVE  ManagerTypeOK' /\ TaskTypeOK' /\ QueueTypeOK'
<1> USE TypeParts
<1>1. QueueTypeOK'
  BY QueueTypeStutter DEF OnRead
<1>2. CASE sessions[fd] = NoSession
  BY <1>1, <1>2, ManagerTypeStutter, TaskTypeStutter DEF OnRead
<1>3. CASE sessions[fd] # NoSession /\ sessions[fd] \in closed
  <2>1. ReadClosed(fd)
    BY <1>3 DEF OnRead
  <2> QED BY <1>1, <2>1, CloseOrDeferType, TaskTypeStutter DEF ReadClosed
<1>4. CASE sessions[fd] # NoSession /\ sessions[fd] \notin closed
  <2>1. sessions[fd] \in Sessions
    BY <1>4 DEF ManagerTypeOK
  <2>2. PICK n \in 0..(MaxTasks - submitted), ended \in BOOLEAN : ReadPackets(fd, n, ended)
    BY <1>4 DEF OnRead
  <2>3. TaskTypeOK'
    BY <2>1, <2>2, SubmitType DEF ReadPackets
  <2>4. n \in Nat
    BY BoundsAssumption DEF TaskTypeOK
  <2>5. CASE ended
    BY <1>1, <2>2, <2>3, <2>4, <2>5, CloseOrDeferType DEF ReadPackets
  <2>6. CASE ~ended
    <3>1. inFlight' = [inFlight EXCEPT ![fd] = inFlight[fd] + n]
      BY <2>2, <2>6 DEF ReadPackets
    <3>2. inFlight' \in [Fds -> Nat \cup {-1}]
      BY <3>1, <2>4 DEF ManagerTypeOK
    <3> QED BY <1>1, <2>2, <2>3, <2>6, <3>2 DEF ReadPackets, ManagerTypeOK
  <2> QED BY <2>5, <2>6
<1> QED BY <1>2, <1>3, <1>4

LEMMA CommandsType ==
  ASSUME TypeOK, ExecuteSendRaw \/ ExecuteClose \/ ExecuteTaskDone
  PROVE  TypeOK'
<1> USE TypeParts
<1> SUFFICES ManagerTypeOK' /\ TaskTypeOK' /\ QueueTypeOK' /\ LoopTypeOK' /\ RestTypeOK'
  BY TypePartsPrime
<1> DEFINE fd == Head(commands).fd
<1>1. CASE ExecuteSendRaw
  <2>1. QueueTypeOK' /\ LoopTypeOK' /\ RestTypeOK' /\ Head(commands) \in Command
    BY <1>1, NextCommandType DEF ExecuteSendRaw
  <2>2. fd \in Fds
    BY <2>1 DEF Command
  <2>3. wantWrite' \subseteq Sessions
    <3>1. CASE sessions[fd] # NoSession /\ sessions[fd] \notin closed
      <4>1. sessions[fd] \in Sessions /\ Flush(sessions[fd])
        BY <1>1, <2>2, <3>1 DEF ExecuteSendRaw, ManagerTypeOK
      <4> QED BY <4>1, FlushType
    <3>2. CASE ~(sessions[fd] # NoSession /\ sessions[fd] \notin closed)
      BY <1>1, <3>2 DEF ExecuteSendRaw, ManagerTypeOK
    <3> QED BY <3>1, <3>2
  <2>4. ManagerTypeOK'
    BY <1>1, <2>3 DEF ExecuteSendRaw, ManagerTypeOK, managerVars
  <2>5. TaskTypeOK'
    BY <1>1, TaskTypeStutter DEF ExecuteSendRaw, NextCommand, taskVars
  <2> QED BY <2>1, <2>4, <2>5
<1>2. CASE ExecuteClose
  <2>1. QueueTypeOK' /\ LoopTypeOK' /\ RestTypeOK' /\ Head(commands) \in Command
    BY <1>2, NextCommandType DEF ExecuteClose
  <2>2. fd \in Fds
    BY <2>1 DEF Command
  <2>3. ManagerTypeOK'
    BY <1>2, <2>2, CloseOrDeferType, ManagerTypeStutter DEF ExecuteClose
  <2>4. TaskTypeOK'
    BY <1>2, TaskTypeStutter DEF ExecuteClose, NextCommand, taskVars
  <2> QED BY <2>1, <2>3, <2>4
<1>3. CASE ExecuteTaskDone
  <2>1. QueueTypeOK' /\ LoopTypeOK' /\ RestTypeOK' /\ Head(commands) \in Command
    BY <1>3, NextCommandType DEF ExecuteTaskDone
  <2>2. fd \in Fds /\ OnTaskDone(fd)
    BY <1>3, <2>1 DEF Command, ExecuteTaskDone
  <2>3. ManagerTypeOK'
    <3>1. CASE inFlight[fd] \in {0, 1} /\ fd \in pendingDelete
      <4>1. CloseClient(fd) /\ pendingDelete' = pendingDelete \ {fd}
        BY <2>2, <3>1 DEF OnTaskDone
      <4> QED BY <2>2, <4>1, CloseClientType DEF ManagerTypeOK
    <3>2. CASE ~(inFlight[fd] \in {0, 1} /\ fd \in pendingDelete)
      <4>1. inFlight' \in [Fds -> Nat \cup {-1}]
        BY <2>2, <3>2 DEF OnTaskDone, ManagerTypeOK
      <4> QED BY <2>2, <3>2, <4>1 DEF OnTaskDone, ManagerTypeOK
    <3> QED BY <3>1, <3>2
  <2>4. TaskTypeOK'
    BY <1>3 DEF ExecuteTaskDone, NextCommand, TaskTypeOK, Phases
  <2> QED BY <2>1, <2>3, <2>4
<1> QED BY <1>1, <1>2, <1>3

LEMMA MainType ==
  ASSUME TypeOK, MainStep
  PROVE  TypeOK'
<1> USE TypeParts
<1> SUFFICES ManagerTypeOK' /\ TaskTypeOK' /\ QueueTypeOK' /\ LoopTypeOK' /\ RestTypeOK'
  BY TypePartsPrime
<1> USE ManagerTypeStutter, TaskTypeStutter, QueueTypeStutter, LoopTypeStutter
<1>1. CASE EpollWait
  <2>1. PICK n \in 1..MaxEvents : \E batch \in [1..n -> {e \in Event : Reportable(e)}] : ready' = batch
    BY <1>1 DEF EpollWait
  <2>2. ready' \in Seq(Event)
    BY <2>1
  <2> QED BY <1>1, <2>2 DEF EpollWait, LoopTypeOK, RestTypeOK, Sane, objectVars, ManagerTypeOK, managerVars
<1>2. CASE ListenerError \/ ShutdownRequested
  <2>1. /\ UNCHANGED <<managerVars, life, closed, wantWrite, byUserID>>
        /\ UNCHANGED taskVars /\ UNCHANGED queueVars /\ UNCHANGED <<userID, fault>>
    BY <1>2 DEF ListenerError, ShutdownRequested, Sane, objectVars
  <2>2. LoopTypeOK'
    <3>1. mode' = "test" /\ (ready' = <<>> \/ ready' = ready)
      BY <1>2 DEF ListenerError, ShutdownRequested
    <3>2. <<>> \in Seq(Event)
      OBVIOUS
    <3> QED BY <3>1, <3>2 DEF LoopTypeOK
  <2> QED BY <2>1, <2>2 DEF RestTypeOK
<1>3. CASE \E s \in Sessions : Accept(s)
  <2>1. PICK s \in Sessions : Accept(s)
    BY <1>3
  <2>2. LoopTypeOK' /\ RestTypeOK'
    BY <2>1, HandleEventType DEF Accept
  <2>3. FdOf[s] \in Fds
    BY FdsAssumption
  <2>4. ManagerTypeOK'
    BY <2>1, <2>3 DEF Accept, ManagerTypeOK
  <2> QED BY <2>1, <2>2, <2>4 DEF Accept
<1>4. CASE AcceptFails
  <2>1. LoopTypeOK' /\ RestTypeOK'
    BY <1>4, HandleEventType DEF AcceptFails
  <2> QED BY <1>4, <2>1 DEF AcceptFails
<1>5. CASE \E fd \in Fds : HandleRead(fd) \/ HandleReadWrite(fd) \/ HandleWrite(fd) \/ HandleError(fd)
  <2> SUFFICES ASSUME NEW fd \in Fds,
                      HandleRead(fd) \/ HandleReadWrite(fd) \/ HandleWrite(fd) \/ HandleError(fd)
               PROVE  ManagerTypeOK' /\ TaskTypeOK' /\ QueueTypeOK' /\ LoopTypeOK' /\ RestTypeOK'
    BY <1>5
  <2>1. CASE HandleRead(fd)
    BY <2>1, HandleEventType, OnReadType DEF HandleRead
  <2>2. CASE HandleReadWrite(fd)
    <3>1. Tail(ready) \in Seq(Event) /\ [fd |-> fd, ev |-> "out"] \in Event
      BY <2>2, EventTail DEF HandleReadWrite, Event
    <3>5. ready' \in Seq(Event)
      BY <2>2, <3>1 DEF HandleReadWrite
    <3>6. LoopTypeOK' /\ RestTypeOK'
      BY <2>2, <3>5 DEF HandleReadWrite, LoopTypeOK, RestTypeOK, Sane
    <3> QED BY <2>2, <3>6, OnReadType DEF HandleReadWrite
  <2>3. CASE HandleWrite(fd)
    <3>1. LoopTypeOK' /\ RestTypeOK' /\ TaskTypeOK' /\ QueueTypeOK' /\ OnWrite(fd)
      BY <2>3, HandleEventType DEF HandleWrite
    <3>2. CASE sessions[fd] = NoSession
      BY <3>1, <3>2 DEF OnWrite
    <3>3. CASE sessions[fd] # NoSession /\ sessions[fd] \in closed
      <4>1. CloseClient(fd) /\ UNCHANGED pendingDelete
        BY <3>1, <3>3 DEF OnWrite
      <4> QED BY <3>1, <4>1, CloseClientType DEF ManagerTypeOK
    <3>4. CASE sessions[fd] # NoSession /\ sessions[fd] \notin closed
      <4>1. Flush(sessions[fd]) /\ UNCHANGED <<managerVars, life, closed, byUserID>>
        BY <3>1, <3>4 DEF OnWrite
      <4>2. sessions[fd] \in Sessions
        BY <3>4 DEF ManagerTypeOK
      <4> QED BY <3>1, <4>1, <4>2, FlushType DEF ManagerTypeOK, managerVars
    <3> QED BY <3>2, <3>3, <3>4
  <2>4. CASE HandleError(fd)
    BY <2>4, HandleEventType, CloseOrDeferType DEF HandleError
  <2> QED BY <2>1, <2>2, <2>3, <2>4
<1>6. CASE HandleEventFd
  <2>1. LoopTypeOK' /\ RestTypeOK'
    BY <1>6, HandleEventType DEF HandleEventFd
  <2> QED BY <1>6, <2>1 DEF HandleEventFd, QueueTypeOK
<1>7. CASE ExecuteSendRaw \/ ExecuteClose \/ ExecuteTaskDone
  BY <1>7, CommandsType, TypePartsPrime
<1>8. CASE TestPending \/ DrainAtShutdown
  BY <1>8 DEF TestPending, DrainAtShutdown, LoopTypeOK, RestTypeOK, Sane, objectVars, QueueTypeOK
<1>9. CASE Exit
  <2>1. ManagerTypeOK'
    BY <1>9 DEF Exit, ManagerTypeOK
  <2> QED BY <1>9, <2>1 DEF Exit, LoopTypeOK, RestTypeOK, Sane
<1> QED BY <1>1, <1>2, <1>3, <1>4, <1>5, <1>6, <1>7, <1>8, <1>9 DEF MainStep
----------------------------------------------------------------------------
\* The workers.
LEMMA StepType ==
  ASSUME TypeOK, NEW t \in Tasks, NEW from, NEW s, Step(t, from, s)
  PROVE  /\ LoopTypeOK'
         /\ fault' = fault
         /\ UNCHANGED <<managerVars, life, closed, wantWrite, submitted, owner, drained>>
BY TypeParts, LoopTypeStutter DEF Step, Sane

LEMMA GoToType ==
  ASSUME TaskTypeOK, NEW t \in Tasks, NEW to \in Phases, GoTo(t, to)
  PROVE  phase' \in [Tasks -> Phases]
BY DEF GoTo, TaskTypeOK

LEMMA SetFrameType ==
  ASSUME TaskTypeOK, NEW t \in Tasks, NEW user \in Users \cup {NoUser},
         NEW rcpts \in SUBSET Users, NEW peer \in Sessions \cup {NoSession},
         SetFrame(t, user, rcpts, peer)
  PROVE  frame' \in [Tasks -> Frame]
<1>1. [user |-> user, rcpts |-> rcpts, peer |-> peer] \in Frame
  BY DEF Frame
<1> QED BY <1>1 DEF SetFrame, TaskTypeOK

LEMMA WorkerType ==
  ASSUME TypeOK, NEW t \in Tasks, TaskStep(t)
  PROVE  TypeOK'
<1> USE TypeParts
<1> SUFFICES ManagerTypeOK' /\ TaskTypeOK' /\ QueueTypeOK' /\ LoopTypeOK' /\ RestTypeOK'
  BY TypePartsPrime
<1> USE ManagerTypeStutter, TaskTypeStutter, QueueTypeStutter, LoopTypeStutter
<1>o. owner[t] \in Sessions /\ frame[t] \in Frame
  BY DEF TaskTypeOK
<1>f. /\ frame[t].user \in Users \cup {NoUser} /\ frame[t].rcpts \in SUBSET Users
      /\ frame[t].peer \in Sessions \cup {NoSession}
  BY <1>o DEF Frame
<1>1. CASE Take(t)
  <2>1. TaskTypeOK'
    BY <1>1, GoToType DEF Take, TaskTypeOK, Phases, Handling
  <2> QED BY <1>1, <2>1 DEF Take, objectVars, RestTypeOK, Sane
<1>2. CASE CheckOpen(t)
  <2>1. /\ LoopTypeOK' /\ fault' = fault
        /\ UNCHANGED <<managerVars, life, closed, wantWrite, submitted, owner, drained>>
    BY <1>2, StepType DEF CheckOpen
  <2>2. phase' \in [Tasks -> Phases]
    BY <1>2, GoToType DEF CheckOpen, Phases, Handling
  <2>3. frame' \in [Tasks -> Frame]
    <3>1. CASE UNCHANGED frame
      BY <3>1 DEF TaskTypeOK
    <3>2. CASE \E u \in UsersOf[owner[t]] : SetFrame(t, u, {}, NoSession)
      BY <3>2, <1>o, SetFrameType, UsersAssumption
    <3> QED BY <1>2, <3>1, <3>2 DEF CheckOpen
  <2> QED BY <1>2, <2>1, <2>2, <2>3 DEF CheckOpen, TaskTypeOK, RestTypeOK, queueVars
<1>3. CASE Authenticate(t)
  <2>1. /\ LoopTypeOK' /\ fault' = fault
        /\ UNCHANGED <<managerVars, life, closed, wantWrite, submitted, owner, drained>>
    BY <1>3, StepType DEF Authenticate
  <2>2. phase' \in [Tasks -> Phases]
    BY <1>3, GoToType DEF Authenticate, Phases, Handling
  <2>3. RestTypeOK'
    BY <1>3, <1>o, <1>f, <2>1 DEF Authenticate, RestTypeOK
  <2> QED BY <1>3, <2>1, <2>2, <2>3 DEF Authenticate, TaskTypeOK, queueVars
<1>4. CASE RegisterUser(t)
  <2>1. ManagerTypeOK'
    BY <1>4, <1>o DEF RegisterUser, ManagerTypeOK, managerVars, objectVars, Registered
  <2>2. TaskTypeOK'
    BY <1>4, GoToType DEF RegisterUser, TaskTypeOK, Phases, Handling
  <2> QED BY <1>4, <2>1, <2>2 DEF RegisterUser, objectVars, RestTypeOK, Sane
<1>5. CASE Reply(t) \/ RequestClose(t)
  <2>1. /\ LoopTypeOK' /\ fault' = fault
        /\ UNCHANGED <<managerVars, life, closed, wantWrite, submitted, owner, drained>>
    BY <1>5, StepType DEF Reply, RequestClose
  <2>2. phase' \in [Tasks -> Phases]
    BY <1>5, GoToType DEF Reply, RequestClose, Phases
  <2>3. QueueTypeOK'
    BY <1>5, <1>o, <2>1, PushType DEF Reply, RequestClose
  <2> QED BY <1>5, <2>1, <2>2, <2>3 DEF Reply, RequestClose, TaskTypeOK, RestTypeOK
<1>6. CASE ReadSender(t)
  <2>1. /\ LoopTypeOK' /\ fault' = fault
        /\ UNCHANGED <<managerVars, life, closed, wantWrite, submitted, owner, drained>>
    BY <1>6, StepType DEF ReadSender
  <2>2. phase' \in [Tasks -> Phases]
    BY <1>6, GoToType DEF ReadSender, Phases, Handling
  <2>3. frame' \in [Tasks -> Frame]
    <3>1. CASE UNCHANGED frame
      BY <3>1 DEF TaskTypeOK
    <3>2. CASE \E members \in SUBSET Users :
                 SetFrame(t, userID[owner[t]], members \ {userID[owner[t]]}, NoSession)
      BY <3>2, <1>o, SetFrameType DEF RestTypeOK
    <3> QED BY <1>6, <3>1, <3>2 DEF ReadSender
  <2> QED BY <1>6, <2>1, <2>2, <2>3 DEF ReadSender, TaskTypeOK, RestTypeOK, queueVars
<1>7. CASE FindRecipient(t)
  <2>1. PICK u \in frame[t].rcpts :
          /\ SetFrame(t, frame[t].user, frame[t].rcpts \ {u}, byUserID[u])
          /\ GoTo(t, IF byUserID[u] = NoSession THEN "find" ELSE "push")
    BY <1>7 DEF FindRecipient
  <2>2. byUserID[u] \in Sessions \cup {NoSession}
    BY <1>f DEF ManagerTypeOK
  <2>3. frame' \in [Tasks -> Frame]
    BY <1>f, <2>1, <2>2, SetFrameType
  <2>4. phase' \in [Tasks -> Phases]
    BY <2>1, GoToType DEF Phases, Handling
  <2>5. TaskTypeOK'
    BY <1>7, <2>3, <2>4 DEF FindRecipient, TaskTypeOK
  <2> QED BY <1>7, <2>5 DEF FindRecipient, objectVars, RestTypeOK, Sane
<1>8. CASE PushToRecipient(t)
  <2>1. /\ LoopTypeOK' /\ fault' = fault
        /\ UNCHANGED <<managerVars, life, closed, wantWrite, submitted, owner, drained>>
    BY <1>8, StepType DEF PushToRecipient
  <2>2. phase' \in [Tasks -> Phases]
    BY <1>8, GoToType DEF PushToRecipient, Phases, Handling
  <2>3. frame[t].peer \in Sessions
    BY <1>8, <1>f DEF PushToRecipient
  <2>4. QueueTypeOK'
    BY <1>8, <2>1, <2>3, PushType DEF PushToRecipient
  <2> QED BY <1>8, <2>1, <2>2, <2>4 DEF PushToRecipient, TaskTypeOK, RestTypeOK
<1>9. CASE LogRecipient(t) \/ EndBroadcast(t)
  <2>1. /\ LoopTypeOK' /\ fault' = fault
        /\ UNCHANGED <<managerVars, life, closed, wantWrite, submitted, owner, drained>>
    BY <1>9, StepType DEF LogRecipient, EndBroadcast
  <2>2. phase' \in [Tasks -> Phases]
    BY <1>9, GoToType DEF LogRecipient, EndBroadcast, Phases, Handling
  <2>3. UNCHANGED <<userID, byUserID, frame, commands>>
    BY <1>9 DEF LogRecipient, EndBroadcast
  <2> QED BY <2>1, <2>2, <2>3 DEF TaskTypeOK, RestTypeOK, queueVars
<1>10. CASE Finish(t)
  <2>1. TaskTypeOK'
    BY <1>10, GoToType DEF Finish, TaskTypeOK, Phases
  <2>2. QueueTypeOK'
    BY <1>10, <1>o, PushType DEF Finish
  <2> QED BY <1>10, <2>1, <2>2 DEF Finish, objectVars, RestTypeOK, Sane
<1>11. CASE OwnerDeleted(t) \/ PeerDeleted(t)
  <2>1. UNCHANGED <<managerVars, objectVars, byUserID, taskVars, queueVars, loopVars>>
    BY <1>11 DEF OwnerDeleted, PeerDeleted
  <2>2. fault' \in {"task", "peer"}
    BY <1>11 DEF OwnerDeleted, PeerDeleted
  <2> QED BY <2>1, <2>2 DEF RestTypeOK, objectVars
<1> QED BY <1>1, <1>2, <1>3, <1>4, <1>5, <1>6, <1>7, <1>8, <1>9, <1>10, <1>11 DEF TaskStep
----------------------------------------------------------------------------
LEMMA TypeInit == Init => TypeOK
<1> SUFFICES ASSUME Init PROVE TypeOK
  OBVIOUS
<1> USE SessionsAssumption, BoundsAssumption DEF Init
<1>1. ManagerTypeOK
  BY DEF ManagerTypeOK
<1>2. [user |-> NoUser, rcpts |-> {}, peer |-> NoSession] \in Frame
  BY DEF Frame
<1>3. TaskTypeOK
  BY <1>2 DEF TaskTypeOK, Phases
<1>4. QueueTypeOK /\ LoopTypeOK /\ RestTypeOK
  BY DEF QueueTypeOK, LoopTypeOK, RestTypeOK
<1> QED BY <1>1, <1>3, <1>4, TypeParts

LEMMA TypeNext == TypeOK /\ [Next]_vars => TypeOK'
<1> SUFFICES ASSUME TypeOK, [Next]_vars PROVE TypeOK'
  OBVIOUS
<1>1. CASE MainStep
  BY <1>1, MainType
<1>2. CASE \E t \in Tasks : TaskStep(t)
  BY <1>2, WorkerType
<1>3. CASE UNCHANGED vars
  BY <1>3 DEF TypeOK, vars, managerVars, objectVars, taskVars, queueVars, loopVars
<1> QED BY <1>1, <1>2, <1>3 DEF Next, Terminated

\* The variables never leave their types, for all constants.
THEOREM TypeCorrect == Spec => []TypeOK
BY TypeInit, TypeNext, PTL DEF Spec
----------------------------------------------------------------------------
(* The queue of commands and the counters, in any environment.             *)

Active(t) == phase[t] \notin {"none", "retired"}

\* Tasks are numbered in the order of their submission.
Numbering == \A t \in Tasks : t > submitted => phase[t] = "none"

\* A TaskDone in the queue reports a task that has returned, and no other does.
DoneCommands ==
  /\ \A i \in 1..Len(commands) : commands[i].type = "TaskDone" =>
       phase[commands[i].by] = "returned" /\ commands[i].fd = FdOf[owner[commands[i].by]]
  /\ \A i, j \in 1..Len(commands) :
       i # j /\ commands[i].type = "TaskDone" /\ commands[j].type = "TaskDone"
         => commands[i].by # commands[j].by

\* main executes no command after the end.
ExitedIdle == mode = "exited" => drained = 0

QueueInv == Numbering /\ DoneCommands /\ ExitedIdle

LEMMA OutstandingFinite ==
  ASSUME NEW fd
  PROVE  /\ IsFiniteSet(Outstanding(fd))
         /\ Outstanding(fd) \subseteq Tasks
         /\ Cardinality(Outstanding(fd)) \in Nat
<1>1. IsFiniteSet(Tasks)
  BY BoundsAssumption, FS_Interval DEF Tasks
<1>2. Outstanding(fd) \subseteq Tasks
  BY DEF Outstanding
<1> QED BY <1>1, <1>2, FS_Subset, FS_CardinalityType

LEMMA NoneOutstanding ==
  ASSUME NEW fd, Cardinality(Outstanding(fd)) = 0
  PROVE  Outstanding(fd) = {}
BY OutstandingFinite, FS_EmptySet

LEMMA SameTasks ==
  ASSUME QueueInv, UNCHANGED <<submitted, phase, owner, commands>>,
         mode' = "exited" => drained' = 0
  PROVE  QueueInv'
BY DEF QueueInv, Numbering, DoneCommands, ExitedIdle

\* Removing a command that is not a TaskDone.
LEMMA OtherCommand ==
  ASSUME TypeOK, QueueInv, NEW type, NextCommand(type), UNCHANGED phase
  PROVE  QueueInv' /\ mode # "exited" /\ mode' = mode /\ ready' = ready
<1>1. /\ drained > 0 /\ commands' = Tail(commands)
      /\ UNCHANGED <<submitted, owner, ready, mode>>
  BY DEF NextCommand, loopVars
<1>2. /\ Len(commands') = Len(commands) - 1
      /\ \A i \in 1..Len(commands') : commands'[i] = commands[i+1] /\ i+1 \in 1..Len(commands)
  BY <1>1 DEF TypeOK
<1>3. mode # "exited"
  BY <1>1 DEF QueueInv, ExitedIdle
<1>4. DoneCommands'
  <2>1. ASSUME NEW i \in 1..Len(commands'), commands'[i].type = "TaskDone"
        PROVE  /\ phase'[commands'[i].by] = "returned"
               /\ commands'[i].fd = FdOf[owner'[commands'[i].by]]
    BY <1>1, <1>2, <2>1 DEF QueueInv, DoneCommands
  <2>2. ASSUME NEW i \in 1..Len(commands'), NEW j \in 1..Len(commands'), i # j,
               commands'[i].type = "TaskDone", commands'[j].type = "TaskDone"
        PROVE  commands'[i].by # commands'[j].by
    BY <1>2, <2>2 DEF QueueInv, DoneCommands
  <2> QED BY <2>1, <2>2 DEF DoneCommands
<1> QED BY <1>1, <1>3, <1>4 DEF QueueInv, Numbering, ExitedIdle

\* onRead: no task of the new ones was counted before.
LEMMA SubmitQueue ==
  ASSUME TypeOK, QueueInv, NEW s \in Sessions, NEW n \in 0..(MaxTasks - submitted),
         Submit(s, n), mode # "exited", UNCHANGED <<mode, queueVars>>
  PROVE  /\ QueueInv'
         /\ \A t \in Tasks : Active(t) => phase'[t] = phase[t] /\ owner'[t] = owner[t]
         /\ \A t \in Tasks : Active(t)' /\ ~Active(t) => phase'[t] = "queued" /\ owner'[t] = s
         /\ \A g \in Fds : g # FdOf[s] => Outstanding(g)' = Outstanding(g)
         /\ Cardinality(Outstanding(FdOf[s])') = Cardinality(Outstanding(FdOf[s])) + n
<1> DEFINE fd == FdOf[s]
           new == submitted+1 .. submitted+n
<1>1. fd \in Fds
  BY FdsAssumption
<1>2. n \in Nat /\ submitted \in Nat /\ submitted + n <= MaxTasks
  BY BoundsAssumption DEF TypeOK
<1>3. new \subseteq Tasks /\ \A t \in new : phase[t] = "none"
  <2>1. ASSUME NEW t \in new PROVE t \in Tasks /\ t > submitted
    BY <1>2, <2>1, BoundsAssumption DEF Tasks
  <2> QED BY <2>1 DEF QueueInv, Numbering
<1>4. /\ submitted' = submitted + n
      /\ phase' = [t \in Tasks |-> IF t \in new THEN "queued" ELSE phase[t]]
      /\ owner' = [t \in Tasks |-> IF t \in new THEN s ELSE owner[t]]
  BY DEF Submit
<1>5. \A t \in Tasks : t > submitted + n => t \notin new
  BY <1>2 DEF Tasks
<1>6. IsFiniteSet(new) /\ Cardinality(new) = n
  BY <1>2, FS_Interval
<1> HIDE DEF new
<1>7. /\ Outstanding(fd)' = Outstanding(fd) \cup new
      /\ Outstanding(fd) \cap new = {}
      /\ \A g \in Fds : g # fd => Outstanding(g)' = Outstanding(g)
  BY <1>1, <1>3, <1>4 DEF Outstanding
<1>8. Cardinality(Outstanding(fd)') = Cardinality(Outstanding(fd)) + n
  <2>1. Cardinality(Outstanding(fd) \cup new)
          = Cardinality(Outstanding(fd)) + Cardinality(new) - Cardinality({})
    BY <1>6, <1>7, OutstandingFinite, FS_Union
  <2> QED BY <1>2, <1>6, <1>7, <2>1, FS_EmptySet, OutstandingFinite
<1>9. QueueInv'
  <2>1. Numbering'
    BY <1>2, <1>4, <1>5 DEF QueueInv, Numbering, Tasks
  <2>2. \A i \in 1..Len(commands) : commands[i].by \in Tasks
    <3>1. \A i \in 1..Len(commands) : commands[i] \in Command
      BY DEF TypeOK
    <3> QED BY <3>1 DEF Command
  <2>3. DoneCommands'
    BY <1>3, <1>4, <2>2 DEF QueueInv, DoneCommands, queueVars
  <2> QED BY <2>1, <2>3 DEF QueueInv, ExitedIdle, queueVars
<1>10. /\ \A t \in Tasks : Active(t) => phase'[t] = phase[t] /\ owner'[t] = owner[t]
       /\ \A t \in Tasks : Active(t)' /\ ~Active(t) => phase'[t] = "queued" /\ owner'[t] = s
  BY <1>3, <1>4 DEF Active
<1> QED BY <1>7, <1>8, <1>9, <1>10

\* onTaskDone: the command leaves the queue, and its task is reported.
LEMMA TaskDoneQueue ==
  ASSUME TypeOK, QueueInv, ExecuteTaskDone
  PROVE  /\ QueueInv'
         /\ mode # "exited"
         /\ \E fd \in Fds, t \in Tasks :
              /\ fd = Head(commands).fd /\ t = Head(commands).by
              /\ OnTaskDone(fd)
              /\ phase[t] = "returned" /\ fd = FdOf[owner[t]]
              /\ phase' = [phase EXCEPT ![t] = "retired"]
              /\ t \in Outstanding(fd)
              /\ Outstanding(fd)' = Outstanding(fd) \ {t}
              /\ \A g \in Fds : g # fd => Outstanding(g)' = Outstanding(g)
<1>0. Head(commands).fd \in Fds /\ Head(commands).by \in Tasks
  <2>1. Head(commands) \in Command
    BY NextCommandType DEF ExecuteTaskDone
  <2> QED BY <2>1 DEF Command
\* Constants, so that priming a set indexed by them primes the set only.
<1>c. PICK fd \in Fds, t \in Tasks : fd = Head(commands).fd /\ t = Head(commands).by
  BY <1>0
<1>1. /\ drained > 0 /\ Head(commands).type = "TaskDone"
      /\ commands' = Tail(commands) /\ drained' = drained - 1
      /\ UNCHANGED <<submitted, owner, mode>>
      /\ phase' = [phase EXCEPT ![t] = "retired"]
      /\ OnTaskDone(fd)
  BY <1>c DEF ExecuteTaskDone, NextCommand, loopVars
<1>2. /\ Len(commands) > 0 /\ Head(commands) = commands[1] /\ commands[1] \in Command
      /\ Len(commands') = Len(commands) - 1
      /\ \A i \in 1..Len(commands') : commands'[i] = commands[i+1]
  BY <1>1 DEF TypeOK
<1>3. phase[t] = "returned" /\ fd = FdOf[owner[t]]
  BY <1>c, <1>1, <1>2 DEF QueueInv, DoneCommands
<1>4. mode # "exited"
  BY <1>1 DEF QueueInv, ExitedIdle
<1>5. /\ t \in Outstanding(fd)
      /\ Outstanding(fd)' = Outstanding(fd) \ {t}
      /\ \A g \in Fds : g # fd => Outstanding(g)' = Outstanding(g)
  <2>1. phase' = [phase EXCEPT ![t] = "retired"] /\ phase \in [Tasks -> Phases]
    BY <1>1 DEF TypeOK
  <2>2. owner' = owner
    BY <1>1
  <2> QED BY <1>3, <2>1, <2>2 DEF Outstanding
<1>6. QueueInv'
  <2>1. Numbering'
    BY <1>1, <1>3 DEF QueueInv, Numbering, TypeOK
  <2>2. \A i \in 2..Len(commands) : commands[i].type = "TaskDone" => commands[i].by # t
    BY <1>c, <1>1, <1>2 DEF QueueInv, DoneCommands
  <2>3. \A i \in 1..Len(commands) : commands[i] \in Command
    BY DEF TypeOK
  <2>4. DoneCommands'
    <3>1. ASSUME NEW i \in 1..Len(commands'), commands'[i].type = "TaskDone"
          PROVE  /\ phase'[commands'[i].by] = "returned"
                 /\ commands'[i].fd = FdOf[owner'[commands'[i].by]]
      <4>1. i+1 \in 2..Len(commands) /\ commands'[i] = commands[i+1]
        BY <1>2
      <4>2. commands[i+1].by \in Tasks /\ commands[i+1].by # t
        BY <2>2, <2>3, <3>1, <4>1 DEF Command
      <4> QED BY <1>1, <3>1, <4>1, <4>2 DEF QueueInv, DoneCommands, TypeOK
    <3>2. ASSUME NEW i \in 1..Len(commands'), NEW j \in 1..Len(commands'), i # j,
                 commands'[i].type = "TaskDone", commands'[j].type = "TaskDone"
          PROVE  commands'[i].by # commands'[j].by
      BY <1>2, <3>2 DEF QueueInv, DoneCommands
    <3> QED BY <3>1, <3>2 DEF DoneCommands
  <2> QED BY <1>1, <1>4, <2>1, <2>4 DEF QueueInv, ExitedIdle
<1> QED BY <1>c, <1>1, <1>3, <1>4, <1>5, <1>6

\* A worker moves an active task to an active phase and pushes at most one command;
\* only Finish pushes a TaskDone, and it takes the task to "returned".
LEMMA WorkerFrame ==
  ASSUME TypeOK, NEW t \in Tasks, TaskStep(t)
  PROVE  /\ UNCHANGED <<sessions, inFlight, pendingDelete, life, closed, wantWrite,
                        submitted, owner, drained, ready, mode>>
         /\ phase[t] \notin {"none", "returned", "retired"}
         /\ \/ /\ \E to \in {"returned"} : phase' = [phase EXCEPT ![t] = to]
               /\ Push("TaskDone", owner[t], t)
            \/ /\ \E to \in Phases \ {"none", "retired", "returned"} :
                    phase' = [phase EXCEPT ![t] = to]
               /\ \/ commands' = commands
                  \/ \E type \in {"SendRaw", "Close"}, s \in Sessions : Push(type, s, t)
<1>o. owner[t] \in Sessions /\ frame[t].peer \in Sessions \cup {NoSession}
  <2>1. owner[t] \in Sessions /\ frame[t] \in Frame
    BY DEF TypeOK
  <2> QED BY <2>1 DEF Frame
<1>p. \A u \in Tasks : phase[u] \in Phases
  BY DEF TypeOK
<1>1. CASE Take(t)
  BY <1>1 DEF Take, GoTo, managerVars, objectVars, queueVars, loopVars, Phases, Handling
<1>2. CASE CheckOpen(t)
  BY <1>2 DEF CheckOpen, Step, GoTo, managerVars, loopVars, Phases, Handling
<1>3. CASE Authenticate(t)
  BY <1>3 DEF Authenticate, Step, GoTo, managerVars, loopVars, Phases, Handling
<1>4. CASE RegisterUser(t)
  BY <1>4 DEF RegisterUser, GoTo, managerVars, objectVars, queueVars, loopVars, Phases, Handling
<1>5. CASE Reply(t) \/ RequestClose(t)
  BY <1>5, <1>o DEF Reply, RequestClose, Step, GoTo, managerVars, loopVars, Phases
<1>6. CASE ReadSender(t)
  BY <1>6 DEF ReadSender, Step, GoTo, managerVars, loopVars, Phases, Handling
<1>7. CASE FindRecipient(t)
  <2>1. PICK u : GoTo(t, IF byUserID[u] = NoSession THEN "find" ELSE "push")
    BY <1>7 DEF FindRecipient
  <2>2. \E to \in {"find", "push"} : phase' = [phase EXCEPT ![t] = to]
    BY <2>1 DEF GoTo
  <2> QED BY <1>7, <2>2 DEF FindRecipient, managerVars, objectVars, queueVars, loopVars,
                            Phases, Handling
<1>8. CASE PushToRecipient(t)
  BY <1>8, <1>o DEF PushToRecipient, Step, GoTo, managerVars, loopVars, Phases, Handling
<1>9. CASE LogRecipient(t) \/ EndBroadcast(t)
  BY <1>9 DEF LogRecipient, EndBroadcast, Step, GoTo, managerVars, loopVars, Phases, Handling
<1>10. CASE Finish(t)
  BY <1>10 DEF Finish, GoTo, managerVars, objectVars, loopVars
<1>11. CASE OwnerDeleted(t) \/ PeerDeleted(t)
  <2>1. /\ UNCHANGED <<managerVars, objectVars, taskVars, queueVars, loopVars>>
        /\ phase[t] \in Handling
    BY <1>11 DEF OwnerDeleted, PeerDeleted, Handling
  <2>2. phase' = [phase EXCEPT ![t] = phase[t]]
    BY <2>1 DEF TypeOK, taskVars
  <2>3. phase[t] \in Phases \ {"none", "retired", "returned"}
    BY <2>1 DEF Phases, Handling
  <2> QED BY <2>1, <2>2, <2>3 DEF managerVars, objectVars, taskVars, queueVars, loopVars
<1> QED BY <1>1, <1>2, <1>3, <1>4, <1>5, <1>6, <1>7, <1>8, <1>9, <1>10, <1>11 DEF TaskStep

\* A worker's step neither submits nor reports a task.
LEMMA WorkerQueue ==
  ASSUME TypeOK, QueueInv, NEW t \in Tasks, TaskStep(t)
  PROVE  /\ QueueInv'
         /\ \A u \in Tasks : Active(u)' <=> Active(u)
         /\ \A g : Outstanding(g)' = Outstanding(g)
<1>1. /\ UNCHANGED <<sessions, inFlight, pendingDelete, life, closed, wantWrite,
                     submitted, owner, drained, ready, mode>>
      /\ phase[t] \notin {"none", "returned", "retired"}
  BY WorkerFrame
<1>2. PICK to \in Phases \ {"none", "retired"} : phase' = [phase EXCEPT ![t] = to]
  BY WorkerFrame DEF Phases
<1>3. \A u \in Tasks : /\ Active(u)' <=> Active(u)
                       /\ phase[u] = "returned" => phase'[u] = "returned"
  BY <1>1, <1>2 DEF Active, TypeOK
<1>4. \A g : Outstanding(g)' = Outstanding(g)
  BY <1>1, <1>3 DEF Outstanding, Active
<1>5. Numbering' /\ ExitedIdle'
  BY <1>1, <1>2 DEF QueueInv, Numbering, ExitedIdle, TypeOK
<1>6. \A i \in 1..Len(commands) : commands[i].by \in Tasks
  <2>1. \A i \in 1..Len(commands) : commands[i] \in Command
    BY DEF TypeOK
  <2> QED BY <2>1 DEF Command
<1>7. DoneCommands'
  <2>1. CASE commands' = commands
    BY <1>1, <1>3, <1>6, <2>1 DEF QueueInv, DoneCommands
  <2>2. CASE \E type \in {"SendRaw", "Close"}, s \in Sessions : Push(type, s, t)
    <3>1. PICK c : commands' = Append(commands, c) /\ c.type # "TaskDone"
      BY <2>2 DEF Push
    <3>2. /\ Len(commands') = Len(commands) + 1 /\ Len(commands) \in Nat
          /\ \A i \in 1..Len(commands) : commands'[i] = commands[i]
          /\ commands'[Len(commands) + 1] = c
      BY <3>1 DEF TypeOK
    <3>3. \A i \in 1..Len(commands') : commands'[i].type = "TaskDone" => i \in 1..Len(commands)
      BY <3>1, <3>2
    <3> QED BY <1>1, <1>3, <1>6, <3>2, <3>3 DEF QueueInv, DoneCommands
  <2>3. CASE Push("TaskDone", owner[t], t) /\ phase' = [phase EXCEPT ![t] = "returned"]
    <3>1. PICK c : /\ commands' = Append(commands, c)
                   /\ c.type = "TaskDone" /\ c.by = t /\ c.fd = FdOf[owner[t]]
      BY <2>3 DEF Push
    <3>2. /\ Len(commands') = Len(commands) + 1 /\ Len(commands) \in Nat
          /\ \A i \in 1..Len(commands) : commands'[i] = commands[i]
          /\ commands'[Len(commands) + 1] = c
      BY <3>1 DEF TypeOK
    <3>3. \A i \in 1..Len(commands) : commands[i].type = "TaskDone" => commands[i].by # t
      BY <1>1 DEF QueueInv, DoneCommands
    <3>4. phase'[t] = "returned"
      BY <2>3 DEF TypeOK
    <3>5. ASSUME NEW i \in 1..Len(commands'), commands'[i].type = "TaskDone"
          PROVE  /\ phase'[commands'[i].by] = "returned"
                 /\ commands'[i].fd = FdOf[owner'[commands'[i].by]]
      <4>1. CASE i \in 1..Len(commands)
        BY <1>1, <1>3, <1>6, <3>2, <3>5, <4>1 DEF QueueInv, DoneCommands
      <4>2. CASE i = Len(commands) + 1
        BY <1>1, <3>1, <3>2, <3>4, <4>2
      <4> QED BY <3>2, <4>1, <4>2
    <3>6. ASSUME NEW i \in 1..Len(commands'), NEW j \in 1..Len(commands'), i # j,
                 commands'[i].type = "TaskDone", commands'[j].type = "TaskDone"
          PROVE  commands'[i].by # commands'[j].by
      <4>1. CASE i \in 1..Len(commands) /\ j \in 1..Len(commands)
        BY <3>2, <3>6, <4>1 DEF QueueInv, DoneCommands
      <4>2. CASE i = Len(commands) + 1 /\ j \in 1..Len(commands)
        BY <3>1, <3>2, <3>3, <3>6, <4>2
      <4>3. CASE j = Len(commands) + 1 /\ i \in 1..Len(commands)
        BY <3>1, <3>2, <3>3, <3>6, <4>3
      <4> QED BY <3>2, <3>6, <4>1, <4>2, <4>3
    <3> QED BY <3>5, <3>6 DEF DoneCommands
  <2> QED BY <2>1, <2>2, <2>3, WorkerFrame
<1> QED BY <1>3, <1>4, <1>5, <1>7 DEF QueueInv
----------------------------------------------------------------------------
(* Maps, counters and the end, in any environment.                         *)

\* The inductive invariant: a counter is bounded only because each TaskDone in
\* the queue belongs to a task of its own, under that task's number.
AnyInv == TypeOK /\ MapsAgree /\ QueueInv /\ CounterBounded /\ TeardownQuiet

\* What becomes of maps and counter when the session under fd is deleted.
LEMMA CloseClientMaps ==
  ASSUME TypeOK, MapsAgree, mode # "exited", UNCHANGED mode, NEW fd \in Fds, CloseClient(fd)
  PROVE  /\ MapsAgree'
         /\ inFlight'[fd] = -1
         /\ \A g \in Fds : g # fd => inFlight'[g] = inFlight[g]
<1>1. CASE sessions[fd] = NoSession
  BY <1>1 DEF CloseClient, MapsAgree, Open
<1>2. CASE sessions[fd] # NoSession
  <2> DEFINE s == sessions[fd]
  <2>1. s \in Sessions /\ FdOf[s] = fd /\ life[s] = "live"
    BY <1>2 DEF TypeOK, MapsAgree
  <2>2. /\ closed' = closed \cup {s}
        /\ life' = [life EXCEPT ![s] = "deleted"]
        /\ sessions' = [sessions EXCEPT ![fd] = NoSession]
        /\ inFlight' = [inFlight EXCEPT ![fd] = -1]
    BY <1>2 DEF CloseClient, DeleteObject, EraseEntries
  <2> QED
    BY <2>1, <2>2, FdsAssumption, SessionsAssumption DEF TypeOK, MapsAgree, Open
<1> QED BY <1>1, <1>2

\* closeOrDefer after n submissions under fd.
LEMMA CloseOrDeferMaps ==
  ASSUME TypeOK, MapsAgree, mode # "exited", UNCHANGED mode, NEW fd \in Fds, NEW n \in Nat,
         CloseOrDefer(fd, n), n = 0 \/ sessions[fd] # NoSession
  PROVE  /\ MapsAgree'
         /\ inFlight'[fd] = -1 \/ (inFlight[fd] \in Nat /\ inFlight'[fd] = inFlight[fd] + n)
         /\ \A g \in Fds : g # fd => inFlight'[g] = inFlight[g]
<1>1. CASE Pending(fd, n) > 0
  <2>1. sessions[fd] # NoSession
    BY <1>1 DEF MapsAgree, Pending
  <2> DEFINE s == sessions[fd]
  <2>2. s \in Sessions /\ FdOf[s] = fd /\ inFlight[fd] \in Nat
    BY <2>1 DEF TypeOK, MapsAgree
  <2>3. Pending(fd, n) = inFlight[fd] + n
    BY <2>2 DEF Pending
  <2>4. /\ closed' = closed \cup {s}
        /\ inFlight' = [inFlight EXCEPT ![fd] = inFlight[fd] + n]
        /\ UNCHANGED <<sessions, life>>
    BY <1>1, <2>2, <2>3 DEF CloseOrDefer, Defer
  <2> QED BY <2>1, <2>2, <2>4 DEF TypeOK, MapsAgree, Open
<1>2. CASE ~(Pending(fd, n) > 0)
  BY <1>2, CloseClientMaps DEF CloseOrDefer
<1> QED BY <1>1, <1>2

\* Tasks and counters untouched: the bound stays.
LEMMA SameCounters ==
  ASSUME CounterBounded, UNCHANGED <<phase, owner>>,
         \A g \in Fds : inFlight'[g] \in {-1, inFlight[g]}
  PROVE  CounterBounded'
<1>1. \A g : Outstanding(g)' = Outstanding(g)
  BY DEF Outstanding
<1>2. \A g \in Fds : Cardinality(Outstanding(g)) \in Nat
  BY OutstandingFinite
<1> QED BY <1>1, <1>2 DEF CounterBounded

LEMMA OnReadMaps ==
  ASSUME AnyInv, NEW fd \in Fds, OnRead(fd), mode # "exited", UNCHANGED mode
  PROVE  MapsAgree' /\ QueueInv' /\ CounterBounded'
<1> USE DEF AnyInv
<1>1. CASE sessions[fd] = NoSession
  <2>1. UNCHANGED <<sessions, inFlight, life, closed, submitted, phase, owner, commands, drained>>
    BY <1>1 DEF OnRead, managerVars, taskVars, queueVars
  <2> QED BY <2>1, SameTasks, SameCounters DEF MapsAgree, Open
<1>2. CASE sessions[fd] # NoSession /\ sessions[fd] \in closed
  <2>1. CloseOrDefer(fd, 0) /\ UNCHANGED <<submitted, phase, owner, commands, drained>>
    BY <1>2 DEF OnRead, ReadClosed, taskVars, queueVars
  <2>2. MapsAgree' /\ \A g \in Fds : inFlight'[g] \in {-1, inFlight[g]}
    BY <2>1, CloseOrDeferMaps
  <2> QED BY <2>1, <2>2, SameTasks, SameCounters
<1>3. CASE sessions[fd] # NoSession /\ sessions[fd] \notin closed
  <2>1. PICK n \in 0..(MaxTasks - submitted), ended \in BOOLEAN : ReadPackets(fd, n, ended)
    BY <1>3 DEF OnRead
  <2>2. Submit(sessions[fd], n) /\ UNCHANGED queueVars
    BY <2>1 DEF ReadPackets, OnRead
  <2>3. sessions[fd] \in Sessions /\ FdOf[sessions[fd]] = fd /\ inFlight[fd] \in Nat
    BY <1>3 DEF TypeOK, MapsAgree
  <2>4. n \in Nat
    BY BoundsAssumption DEF TypeOK
  <2>5. /\ QueueInv'
        /\ \A g \in Fds : g # fd => Outstanding(g)' = Outstanding(g)
        /\ Cardinality(Outstanding(fd)') = Cardinality(Outstanding(fd)) + n
    BY <2>2, <2>3, SubmitQueue
  <2>6. /\ MapsAgree'
        /\ inFlight'[fd] = -1 \/ inFlight'[fd] = inFlight[fd] + n
        /\ \A g \in Fds : g # fd => inFlight'[g] = inFlight[g]
    <3>1. CASE ended
      BY <1>3, <2>1, <2>4, <3>1, CloseOrDeferMaps DEF ReadPackets
    <3>2. CASE ~ended
      <4>1. /\ inFlight' = [inFlight EXCEPT ![fd] = inFlight[fd] + n]
            /\ UNCHANGED <<sessions, life, closed>>
        BY <2>1, <3>2 DEF ReadPackets
      <4> QED BY <1>3, <2>3, <2>4, <4>1 DEF TypeOK, MapsAgree, Open
    <3> QED BY <3>1, <3>2
  <2>7. \A g \in Fds : Cardinality(Outstanding(g)) \in Nat
    BY OutstandingFinite
  <2>8. ASSUME NEW g \in Fds PROVE inFlight'[g] <= Cardinality(Outstanding(g)')
    BY <2>3, <2>4, <2>5, <2>6, <2>7 DEF CounterBounded
  <2> QED BY <2>5, <2>6, <2>8 DEF CounterBounded
<1> QED BY <1>1, <1>2, <1>3

LEMMA TaskDoneMaps ==
  ASSUME AnyInv, ExecuteTaskDone
  PROVE  MapsAgree' /\ QueueInv' /\ CounterBounded' /\ mode' # "exited"
<1> USE DEF AnyInv
<1>1. QueueInv' /\ mode # "exited" /\ mode' = mode
  BY TaskDoneQueue DEF ExecuteTaskDone, NextCommand, loopVars
<1>2. PICK fd \in Fds, t \in Tasks :
        /\ OnTaskDone(fd)
        /\ t \in Outstanding(fd)
        /\ Outstanding(fd)' = Outstanding(fd) \ {t}
        /\ \A g \in Fds : g # fd => Outstanding(g)' = Outstanding(g)
  BY TaskDoneQueue
<1>3. /\ \A g \in Fds : Cardinality(Outstanding(g)) \in Nat
      /\ Cardinality(Outstanding(fd)') = Cardinality(Outstanding(fd)) - 1
      /\ Cardinality(Outstanding(fd)') \in Nat
  BY <1>2, OutstandingFinite, FS_RemoveElement, FS_Subset, FS_CardinalityType
<1>4. /\ MapsAgree'
      /\ inFlight'[fd] \in {-1, 0, inFlight[fd] - 1}
      /\ \A g \in Fds : g # fd => inFlight'[g] = inFlight[g]
  <2>1. CASE inFlight[fd] \in {0, 1} /\ fd \in pendingDelete
    BY <1>1, <1>2, <2>1, CloseClientMaps DEF OnTaskDone
  <2>2. CASE ~(inFlight[fd] \in {0, 1} /\ fd \in pendingDelete)
    <3>1. /\ inFlight' = IF inFlight[fd] > 0 THEN [inFlight EXCEPT ![fd] = inFlight[fd] - 1]
                                             ELSE inFlight
          /\ UNCHANGED <<sessions, life, closed>>
      BY <1>2, <2>2 DEF OnTaskDone
    <3>2. inFlight[fd] \in Nat \cup {-1}
      BY DEF TypeOK
    <3> QED BY <1>1, <3>1, <3>2 DEF TypeOK, MapsAgree, Open
  <2> QED BY <2>1, <2>2
<1>5. ASSUME NEW g \in Fds PROVE inFlight'[g] <= Cardinality(Outstanding(g)')
  <2>1. inFlight[g] \in Nat \cup {-1}
    BY DEF TypeOK
  <2> QED BY <1>2, <1>3, <1>4, <2>1 DEF CounterBounded
<1> QED BY <1>1, <1>4, <1>5 DEF CounterBounded

LEMMA MainMaps ==
  ASSUME AnyInv, MainStep
  PROVE  MapsAgree' /\ QueueInv' /\ CounterBounded' /\ TeardownQuiet'
<1> USE DEF AnyInv
\* Handlers that close and delete nothing, and commands executed on no map.
<1>1. CASE \/ EpollWait \/ ListenerError \/ ShutdownRequested \/ AcceptFails \/ HandleEventFd
           \/ TestPending \/ DrainAtShutdown
  <2>1. /\ UNCHANGED <<sessions, inFlight, life, closed, submitted, phase, owner, commands>>
        /\ mode # "exited" /\ mode' # "exited"
    BY <1>1 DEF EpollWait, BetweenBatches, ListenerError, ShutdownRequested, AcceptFails,
                HandleEventFd, HandleEvent, TestPending, DrainAtShutdown,
                managerVars, objectVars, taskVars, queueVars
  <2> QED BY <2>1, SameTasks, SameCounters DEF MapsAgree, Open, TeardownQuiet
<1>2. CASE ExecuteSendRaw
  <2>1. UNCHANGED <<sessions, inFlight, life, closed, phase>> /\ NextCommand("SendRaw")
    BY <1>2 DEF ExecuteSendRaw, managerVars
  <2>2. QueueInv' /\ mode # "exited" /\ mode' = mode /\ owner' = owner
    BY <2>1, OtherCommand DEF NextCommand
  <2> QED BY <2>1, <2>2, SameCounters DEF MapsAgree, Open, TeardownQuiet
<1>3. ASSUME NEW s \in Sessions, Accept(s)
      PROVE  MapsAgree' /\ QueueInv' /\ CounterBounded' /\ TeardownQuiet'
  <2> DEFINE fd == FdOf[s]
  <2>1. /\ fd \in Fds /\ life[s] = "unborn" /\ mode = "loop" /\ mode' = mode
        /\ \A r \in Sessions : Open(r) => FdOf[r] # fd
        /\ life' = [life EXCEPT ![s] = "live"]
        /\ sessions' = [sessions EXCEPT ![fd] = s]
        /\ inFlight' = [inFlight EXCEPT ![fd] = 0]
        /\ UNCHANGED <<closed, submitted, phase, owner, commands, drained>>
    BY <1>3, FdsAssumption DEF Accept, HandleEvent, taskVars, queueVars
  <2>2. MapsAgree'
    BY <2>1, SessionsAssumption DEF TypeOK, MapsAgree, Open
  <2>3. \A g : Outstanding(g)' = Outstanding(g) /\ Cardinality(Outstanding(g)) \in Nat
    BY <2>1, OutstandingFinite DEF Outstanding
  <2>4. CounterBounded'
    BY <2>1, <2>3 DEF TypeOK, CounterBounded
  <2> QED BY <2>1, <2>2, <2>4, SameTasks DEF TeardownQuiet
<1>4. ASSUME NEW fd \in Fds, HandleRead(fd) \/ HandleReadWrite(fd)
      PROVE  MapsAgree' /\ QueueInv' /\ CounterBounded' /\ TeardownQuiet'
  <2>1. OnRead(fd) /\ mode = "loop" /\ mode' = mode
    BY <1>4 DEF HandleRead, HandleReadWrite, HandleEvent
  <2> QED BY <2>1, OnReadMaps DEF TeardownQuiet
<1>5. ASSUME NEW fd \in Fds, HandleWrite(fd) \/ HandleError(fd)
      PROVE  MapsAgree' /\ QueueInv' /\ CounterBounded' /\ TeardownQuiet'
  <2>1. /\ mode = "loop" /\ mode' = mode
        /\ UNCHANGED <<submitted, phase, owner, commands, drained>>
    BY <1>5 DEF HandleWrite, HandleError, HandleEvent, taskVars, queueVars
  <2>2. \/ CloseClient(fd) \/ CloseOrDefer(fd, 0)
        \/ UNCHANGED <<sessions, inFlight, life, closed>>
    BY <1>5 DEF HandleWrite, HandleError, OnWrite, managerVars
  <2>3. MapsAgree' /\ \A g \in Fds : inFlight'[g] \in {-1, inFlight[g]}
    <3>1. CASE CloseClient(fd)
      BY <2>1, <3>1, CloseClientMaps
    <3>2. CASE CloseOrDefer(fd, 0)
      BY <2>1, <3>2, CloseOrDeferMaps
    <3>3. CASE UNCHANGED <<sessions, inFlight, life, closed>>
      BY <2>1, <3>3 DEF MapsAgree, Open
    <3> QED BY <2>2, <3>1, <3>2, <3>3
  <2> QED BY <2>1, <2>3, SameTasks, SameCounters DEF TeardownQuiet
<1>6. CASE ExecuteClose
  <2>c. PICK fd : fd = Head(commands).fd
    OBVIOUS
  <2>1. NextCommand("Close") /\ UNCHANGED phase
    BY <1>6 DEF ExecuteClose
  <2>2. QueueInv' /\ mode # "exited" /\ mode' = mode /\ owner' = owner
    BY <2>1, OtherCommand DEF NextCommand
  <2>3. fd \in Fds
    <3>1. Head(commands) \in Command
      BY <2>1, NextCommandType
    <3> QED BY <2>c, <3>1 DEF Command
  <2>4. MapsAgree' /\ \A g \in Fds : inFlight'[g] \in {-1, inFlight[g]}
    <3>1. CASE sessions[fd] = NoSession
      <4>1. UNCHANGED <<sessions, inFlight, life, closed>>
        BY <1>6, <2>c, <3>1 DEF ExecuteClose, managerVars
      <4> QED BY <2>2, <4>1 DEF MapsAgree, Open
    <3>2. CASE sessions[fd] # NoSession
      <4>1. CloseOrDefer(fd, 0)
        BY <1>6, <2>c, <3>2 DEF ExecuteClose
      <4> QED BY <2>2, <2>3, <4>1, CloseOrDeferMaps
    <3> QED BY <3>1, <3>2
  <2> QED BY <2>1, <2>2, <2>4, SameCounters DEF TeardownQuiet
<1>7. CASE ExecuteTaskDone
  BY <1>7, TaskDoneMaps DEF TeardownQuiet
<1>8. CASE Exit
  <2> DEFINE mapped == {sessions[fd] : fd \in Fds} \cap Sessions
  <2>1. /\ mode' = "exited" /\ drained = 0 /\ ~HasPendingTasks
        /\ life' = [s \in Sessions |-> IF s \in mapped THEN "deleted" ELSE life[s]]
        /\ closed' = closed \cup mapped
        /\ sessions' = [fd \in Fds |-> NoSession]
        /\ UNCHANGED <<inFlight, submitted, phase, owner, commands, drained>>
    BY <1>8 DEF Exit, taskVars, queueVars
  <2>2. \A s \in Sessions : Open(s) => s \in mapped
    BY FdsAssumption DEF MapsAgree
  <2>3. MapsAgree'
    BY <2>1, <2>2 DEF MapsAgree, Open
  <2>4. TeardownQuiet'
    BY <2>1 DEF TeardownQuiet, HasPendingTasks, Queued, Running
  <2> QED BY <2>1, <2>3, <2>4, SameTasks, SameCounters
<1> QED BY <1>1, <1>2, <1>3, <1>4, <1>5, <1>6, <1>7, <1>8 DEF MainStep

LEMMA AnyNext ==
  ASSUME AnyInv, [Next]_vars
  PROVE  AnyInv'
<1> USE DEF AnyInv
<1>1. TypeOK'
  BY TypeNext
<1>2. CASE MainStep
  BY <1>1, <1>2, MainMaps
<1>3. CASE \E t \in Tasks : TaskStep(t)
  <2>1. PICK t \in Tasks : TaskStep(t)
    BY <1>3
  <2>2. /\ UNCHANGED <<sessions, inFlight, life, closed, mode>>
        /\ phase[t] \notin {"none", "returned", "retired"}
    BY <2>1, WorkerFrame
  <2>3. QueueInv' /\ \A g : Outstanding(g)' = Outstanding(g)
    BY <2>1, WorkerQueue
  <2>4. mode # "exited"
    BY <2>2 DEF TypeOK, Phases, TeardownQuiet, HasPendingTasks, Queued, Running
  <2> QED BY <1>1, <2>2, <2>3, <2>4 DEF MapsAgree, Open, CounterBounded, TeardownQuiet
<1>4. CASE UNCHANGED vars
  <2>1. UNCHANGED <<sessions, inFlight, life, closed, submitted, phase, owner, commands, drained, mode>>
    BY <1>4 DEF vars, managerVars, objectVars, taskVars, queueVars, loopVars
  <2>2. QueueInv'
    BY <2>1 DEF QueueInv, Numbering, DoneCommands, ExitedIdle
  <2> QED BY <1>1, <2>1, <2>2, SameCounters
         DEF MapsAgree, Open, TeardownQuiet, HasPendingTasks, Queued, Running
<1> QED BY <1>2, <1>3, <1>4 DEF Next, Terminated

LEMMA AnyInit == Init => AnyInv
<1> SUFFICES ASSUME Init PROVE AnyInv
  OBVIOUS
<1>1. TypeOK
  BY TypeInit
<1>2. MapsAgree /\ TeardownQuiet
  BY DEF Init, MapsAgree, Open, TeardownQuiet
<1>3. QueueInv
  BY DEF Init, QueueInv, Numbering, DoneCommands, ExitedIdle
<1>4. CounterBounded
  BY OutstandingFinite DEF Init, CounterBounded
<1> QED BY <1>1, <1>2, <1>3, <1>4 DEF AnyInv

\* sessions_ and inFlight_ agree with each other and with the objects they name,
\* even when numbers are reused under mapped sessions and onWrite deletes early.
THEOREM MapsAlwaysAgree == Spec => []MapsAgree
<1>1. AnyInv => MapsAgree
  BY DEF AnyInv
<1> QED BY <1>1, AnyInit, AnyNext, PTL DEF Spec

\* inFlight_ never exceeds the number of unreported tasks, so a deferred deletion
\* never waits for a TaskDone that nobody will push.
THEOREM CountersNeverAhead == Spec => []CounterBounded
<1>1. AnyInv => CounterBounded
  BY DEF AnyInv
<1> QED BY <1>1, AnyInit, AnyNext, PTL DEF Spec

\* No task waits or runs once main() destroys the registry and the sessions.
THEOREM TeardownIsQuiet == Spec => []TeardownQuiet
<1>1. AnyInv => TeardownQuiet
  BY DEF AnyInv
<1> QED BY <1>1, AnyInit, AnyNext, PTL DEF Spec
----------------------------------------------------------------------------
(* The command queue, as CommandQueue has it.                              *)

LEMMA PushSeen ==
  ASSUME TypeOK, NEW t \in Tasks, NEW s \in Sessions, NEW type \in {"SendRaw", "Close", "TaskDone"},
         Push(type, s, t), UNCHANGED drained
  PROVE  SharedQueue!Push
<1>1. [type |-> type, fd |-> FdOf[s], to |-> s, by |-> t] \in Command
  BY FdsAssumption DEF Command
<1> QED BY <1>1 DEF Push, SharedQueue!Push

LEMMA WorkerQueueSeen ==
  ASSUME TypeOK, NEW t \in Tasks, TaskStep(t)
  PROVE  [SharedQueue!Next]_(SharedQueue!vars)
<1>1. UNCHANGED drained
  BY DEF TaskStep, Take, CheckOpen, Authenticate, RegisterUser, Reply, RequestClose, ReadSender,
     FindRecipient, PushToRecipient, LogRecipient, EndBroadcast, Finish, OwnerDeleted, PeerDeleted,
     Step, queueVars
<1>2. CASE UNCHANGED commands
  BY <1>1, <1>2 DEF SharedQueue!vars
<1>3. owner[t] \in Sessions /\ frame[t].peer \in Sessions \cup {NoSession}
  BY DEF TypeOK, Frame
<1>4. CASE Reply(t) \/ RequestClose(t) \/ Finish(t)
  <2>1. \E type \in {"SendRaw", "Close", "TaskDone"} : Push(type, owner[t], t)
    BY <1>4 DEF Reply, RequestClose, Finish
  <2> QED BY <1>1, <1>3, <2>1, PushSeen DEF SharedQueue!Next
<1>5. CASE PushToRecipient(t)
  <2>1. frame[t].peer \in Sessions /\ Push("SendRaw", frame[t].peer, t)
    BY <1>3, <1>5 DEF PushToRecipient
  <2> QED BY <1>1, <2>1, PushSeen DEF SharedQueue!Next
<1> QED
  BY <1>2, <1>4, <1>5 DEF TaskStep, Take, CheckOpen, Authenticate, RegisterUser, ReadSender,
     FindRecipient, LogRecipient, EndBroadcast, OwnerDeleted, PeerDeleted, queueVars

LEMMA MainQueueSeen ==
  ASSUME TypeOK, MainStep
  PROVE  [SharedQueue!Next]_(SharedQueue!vars)
<1>1. CASE HandleEventFd \/ DrainAtShutdown
  BY <1>1 DEF HandleEventFd, HandleEvent, DrainAtShutdown, SharedQueue!Next, SharedQueue!Drain
<1>2. CASE ExecuteSendRaw \/ ExecuteClose \/ ExecuteTaskDone
  BY <1>2 DEF ExecuteSendRaw, ExecuteClose, ExecuteTaskDone, NextCommand,
     SharedQueue!Next, SharedQueue!Execute
<1>3. CASE UNCHANGED queueVars
  BY <1>3 DEF queueVars, SharedQueue!vars
<1> QED
  BY <1>1, <1>2, <1>3 DEF MainStep, EpollWait, ListenerError, ShutdownRequested, Accept,
     AcceptFails, HandleRead, HandleReadWrite, OnRead, HandleWrite, HandleError, TestPending, Exit

\* Of the command queue the server needs no more than CommandQueue promises, the
\* promise that ResultQueue keeps: a worker appends one command, and main takes all
\* there are, only when it has executed those it holds.
THEOREM ServerUsesCommandQueue == Spec => UsesCommandQueue
<1>1. Init => SharedQueue!Init
  BY DEF Init, SharedQueue!Init
<1>2. TypeOK /\ [Next]_vars => [SharedQueue!Next]_(SharedQueue!vars)
  <2> SUFFICES ASSUME TypeOK, [Next]_vars PROVE [SharedQueue!Next]_(SharedQueue!vars)
    OBVIOUS
  <2>1. CASE UNCHANGED vars
    BY <2>1 DEF vars, queueVars, SharedQueue!vars
  <2> QED BY <2>1, MainQueueSeen, WorkerQueueSeen DEF Next, Terminated
<1> QED BY <1>1, <1>2, TypeCorrect, PTL DEF Spec, UsesCommandQueue, SharedQueue!Spec
============================================================================
