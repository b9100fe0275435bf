---------------------------- MODULE ServerSafety ----------------------------
(***************************************************************************)
(* The deferred deletion of SessionManager is right for every number of    *)
(* connections, numbers, users, tasks and workers, provided that no number *)
(* is reused under a mapped session and that no peer is slow; then the     *)
(* registry points to live sessions, and what a task pushes for its own    *)
(* session reaches that session.                                           *)
(***************************************************************************)
EXTENDS ServerTypes

\* The session of an active task is the one mapped under its number.
OwnersMapped ==
  mode # "exited" => \A t \in Tasks : Active(t) => sessions[FdOf[owner[t]]] = owner[t]

CounterCardinality ==
  mode # "exited" =>
    \A fd \in Fds : sessions[fd] # NoSession => inFlight[fd] = Cardinality(Outstanding(fd))

\* Without slow peers EPOLLOUT is never asked for.
NoWrites ==
  /\ wantWrite = {}
  /\ \A i \in 1..Len(ready) : ready[i].ev \notin {"out", "inout"}

ClosedBorn == \A s \in closed : life[s] # "unborn"

ObjectInv == MapsAgree /\ NoLeak /\ ClosedBorn
CountInv == OwnersMapped /\ CounterCardinality

\* The inductive invariant.
Inv == TypeOK /\ ObjectInv /\ CountInv /\ QueueInv /\ NoWrites /\ DeferredHasWork

Environment == ~EagerReuse /\ SlowPeers = {}
----------------------------------------------------------------------------
\* A session is mapped only before the end, and then the counter is exact.
LEMMA MappedFacts ==
  ASSUME TypeOK, ObjectInv, NEW fd \in Fds, sessions[fd] # NoSession
  PROVE  /\ mode # "exited"
         /\ sessions[fd] \in Sessions
         /\ FdOf[sessions[fd]] = fd
         /\ life[sessions[fd]] = "live"
         /\ inFlight[fd] \in Nat
<1>1. sessions[fd] \in Sessions /\ inFlight[fd] \in Nat \cup {-1}
  BY DEF TypeOK
<1>2. life[sessions[fd]] = "live" /\ FdOf[sessions[fd]] = fd
  BY DEF ObjectInv, MapsAgree
<1>3. mode # "exited"
  BY <1>1, <1>2 DEF ObjectInv, NoLeak
<1> QED BY <1>1, <1>2, <1>3 DEF ObjectInv, MapsAgree
----------------------------------------------------------------------------
\* Closing: what closeClient and closeOrDefer do to the maps.
LEMMA CloseClientObjects ==
  ASSUME TypeOK, ObjectInv, NEW fd \in Fds, CloseClient(fd), UNCHANGED mode
  PROVE  ObjectInv'
<1>1. CASE sessions[fd] = NoSession
  BY <1>1 DEF CloseClient, ObjectInv, MapsAgree, NoLeak, ClosedBorn, Open
<1>2. CASE sessions[fd] # NoSession
  <2> DEFINE s == sessions[fd]
  <2>1. /\ mode # "exited" /\ s \in Sessions /\ FdOf[s] = fd /\ life[s] = "live"
    BY <1>2, MappedFacts
  <2>2. /\ closed' = closed \cup {s}
        /\ life' = [life EXCEPT ![s] = "deleted"]
        /\ sessions' = [sessions EXCEPT ![fd] = NoSession]
        /\ inFlight' = [inFlight EXCEPT ![fd] = -1]
    BY <1>2 DEF CloseClient, DeleteObject, EraseEntries
  <2>3. MapsAgree'
    BY <2>1, <2>2, FdsAssumption, SessionsAssumption DEF TypeOK, ObjectInv, MapsAgree, Open
  <2>4. NoLeak'
    BY <2>1, <2>2, FdsAssumption DEF TypeOK, ObjectInv, NoLeak
  <2>5. ClosedBorn'
    BY <2>1, <2>2 DEF TypeOK, ObjectInv, ClosedBorn
  <2> QED BY <2>3, <2>4, <2>5 DEF ObjectInv
<1> QED BY <1>1, <1>2

LEMMA DeferObjects ==
  ASSUME TypeOK, ObjectInv, NEW fd \in Fds, NEW n \in Nat, Defer(fd, n),
         n = 0 \/ sessions[fd] # NoSession, Pending(fd, n) > 0,
         mode # "exited", UNCHANGED mode
  PROVE  ObjectInv' /\ sessions[fd] # NoSession
<1>1. sessions[fd] # NoSession
  BY DEF ObjectInv, MapsAgree, Pending
<1> DEFINE s == sessions[fd]
<1>2. /\ s \in Sessions /\ FdOf[s] = fd /\ life[s] = "live" /\ inFlight[fd] \in Nat
  BY <1>1, MappedFacts
<1>3. /\ closed' = closed \cup {s}
      /\ inFlight' = [inFlight EXCEPT ![fd] = Pending(fd, n)]
      /\ UNCHANGED <<sessions, life>>
  BY <1>2 DEF Defer
<1>4. Pending(fd, n) \in Nat
  BY <1>2 DEF Pending
<1>5. MapsAgree'
  BY <1>1, <1>2, <1>3, <1>4 DEF TypeOK, ObjectInv, MapsAgree, Open
<1>6. NoLeak' /\ ClosedBorn'
  BY <1>2, <1>3 DEF TypeOK, ObjectInv, NoLeak, ClosedBorn
<1> QED BY <1>1, <1>5, <1>6 DEF ObjectInv

\* Both, and what becomes of the deferred deletions.
LEMMA CloseOrDeferObjects ==
  ASSUME TypeOK, ObjectInv, DeferredHasWork, NEW fd \in Fds, NEW n \in Nat,
         CloseOrDefer(fd, n), n = 0 \/ sessions[fd] # NoSession,
         wantWrite = {}, mode # "exited", UNCHANGED mode
  PROVE  ObjectInv' /\ DeferredHasWork' /\ wantWrite' = {}
<1>1. CASE Pending(fd, n) > 0
  <2>1. Defer(fd, n)
    BY <1>1 DEF CloseOrDefer
  <2>2. ObjectInv' /\ sessions[fd] # NoSession
    BY <1>1, <2>1, DeferObjects
  <2>3. sessions[fd] \in Sessions /\ FdOf[sessions[fd]] = fd
    BY <2>2, MappedFacts
  <2>4. /\ closed' = closed \cup {sessions[fd]} /\ pendingDelete' = pendingDelete \cup {fd}
        /\ UNCHANGED sessions /\ wantWrite' = {}
        /\ inFlight' = [inFlight EXCEPT ![fd] = Pending(fd, n)]
    BY <2>1, <2>3 DEF Defer, NotePending
  <2>5. \A g \in Fds : g # fd => sessions[g] # sessions[fd]
    BY <2>2, <2>3, SessionsAssumption DEF ObjectInv, MapsAgree
  <2>6. DeferredHasWork'
    BY <1>1, <2>4, <2>5 DEF TypeOK, DeferredHasWork
  <2> QED BY <2>2, <2>4, <2>6
<1>2. CASE ~(Pending(fd, n) > 0)
  <2>1. CloseClient(fd) /\ UNCHANGED pendingDelete
    BY <1>2 DEF CloseOrDefer
  <2>2. ObjectInv'
    BY <2>1, CloseClientObjects
  <2>3. CASE sessions[fd] = NoSession
    BY <2>1, <2>2, <2>3 DEF CloseClient, DeferredHasWork
  <2>4. CASE sessions[fd] # NoSession
    <3>1. sessions[fd] \in Sessions /\ FdOf[sessions[fd]] = fd /\ inFlight[fd] \in Nat
      BY <2>4, MappedFacts
    <3>2. inFlight[fd] = 0
      BY <1>2, <3>1 DEF Pending
    <3>3. fd \notin pendingDelete
      BY <3>2 DEF DeferredHasWork
    <3>4. /\ closed' = closed \cup {sessions[fd]} /\ wantWrite' = {}
          /\ sessions' = [sessions EXCEPT ![fd] = NoSession]
          /\ inFlight' = [inFlight EXCEPT ![fd] = -1]
      BY <2>1, <2>4 DEF CloseClient, EraseEntries
    <3>5. \A g \in Fds : g # fd => sessions[g] # sessions[fd]
      BY <2>4, <3>1 DEF ObjectInv, MapsAgree
    <3>6. NoSession \notin closed'
      BY <3>1, <3>4, SessionsAssumption DEF TypeOK
    <3>7. DeferredHasWork'
      BY <2>1, <3>3, <3>4, <3>5, <3>6 DEF TypeOK, DeferredHasWork
    <3> QED BY <2>2, <3>4, <3>7
  <2> QED BY <2>3, <2>4
<1> QED BY <1>1, <1>2

\* A handler that closes under fd and submits nothing keeps the counters exact.
LEMMA CloseOrDeferCount ==
  ASSUME TypeOK, ObjectInv, CountInv, NEW fd \in Fds, CloseOrDefer(fd, 0),
         mode # "exited", UNCHANGED <<mode, phase, owner>>
  PROVE  CountInv'
<1>1. \A g : Outstanding(g)' = Outstanding(g)
  BY DEF Outstanding
<1>2. CASE sessions[fd] = NoSession
  <2>1. inFlight[fd] = -1
    BY <1>2 DEF ObjectInv, MapsAgree
  <2>2. UNCHANGED <<sessions, inFlight>>
    BY <1>2, <2>1 DEF CloseOrDefer, Pending, CloseClient
  <2> QED BY <1>1, <2>2 DEF CountInv, OwnersMapped, CounterCardinality, Active
<1>3. CASE sessions[fd] # NoSession /\ inFlight[fd] > 0
  <2>1. inFlight[fd] \in Nat
    BY <1>3, MappedFacts
  <2>2. Pending(fd, 0) = inFlight[fd] /\ Pending(fd, 0) > 0
    BY <1>3, <2>1 DEF Pending
  <2>3. UNCHANGED <<sessions, inFlight>>
    BY <2>2 DEF CloseOrDefer, Defer, TypeOK
  <2> QED BY <1>1, <2>3 DEF CountInv, OwnersMapped, CounterCardinality, Active
<1>4. CASE sessions[fd] # NoSession /\ ~(inFlight[fd] > 0)
  <2>1. inFlight[fd] \in Nat
    BY <1>4, MappedFacts
  <2>2. inFlight[fd] = 0 /\ ~(Pending(fd, 0) > 0)
    BY <1>4, <2>1 DEF Pending
  <2>3. Outstanding(fd) = {}
    BY <1>4, <2>2, NoneOutstanding DEF CountInv, CounterCardinality
  <2>4. /\ sessions' = [sessions EXCEPT ![fd] = NoSession]
        /\ inFlight' = [inFlight EXCEPT ![fd] = -1]
    BY <1>4, <2>2 DEF CloseOrDefer, CloseClient, EraseEntries
  <2>5. OwnersMapped'
    BY <2>3, <2>4 DEF CountInv, OwnersMapped, Active, Outstanding, TypeOK
  <2>6. CounterCardinality'
    BY <1>1, <2>4 DEF CountInv, CounterCardinality, TypeOK
  <2> QED BY <2>5, <2>6 DEF CountInv
<1> QED BY <1>2, <1>3, <1>4
----------------------------------------------------------------------------
\* onRead: the counter grows by the number of tasks submitted.
LEMMA ReadPacketsInv ==
  ASSUME Inv, NEW fd \in Fds, sessions[fd] # NoSession, sessions[fd] \notin closed,
         NEW n \in 0..(MaxTasks - submitted), NEW ended \in BOOLEAN,
         ReadPackets(fd, n, ended), UNCHANGED <<mode, queueVars>>
  PROVE  ObjectInv' /\ CountInv' /\ QueueInv' /\ DeferredHasWork' /\ wantWrite' = {}
<1> USE DEF Inv
<1> DEFINE s == sessions[fd]
<1>1. /\ mode # "exited" /\ s \in Sessions /\ FdOf[s] = fd /\ inFlight[fd] \in Nat
  BY MappedFacts
<1>2. n \in Nat /\ Submit(s, n)
  BY BoundsAssumption DEF TypeOK, ReadPackets
<1>3. /\ QueueInv'
      /\ \A t \in Tasks : Active(t) => phase'[t] = phase[t] /\ owner'[t] = owner[t]
      /\ \A t \in Tasks : Active(t)' /\ ~Active(t) => phase'[t] = "queued" /\ owner'[t] = s
      /\ \A g \in Fds : g # fd => Outstanding(g)' = Outstanding(g)
      /\ Cardinality(Outstanding(fd)') = Cardinality(Outstanding(fd)) + n
  BY <1>1, <1>2, SubmitQueue
<1>4. inFlight[fd] = Cardinality(Outstanding(fd))
  BY <1>1 DEF CountInv, CounterCardinality
<1>5. Pending(fd, n) = inFlight[fd] + n
  BY <1>1 DEF Pending
<1>6. UNCHANGED sessions => OwnersMapped'
  BY <1>1, <1>3 DEF CountInv, OwnersMapped
<1>7. UNCHANGED sessions /\ inFlight' = [inFlight EXCEPT ![fd] = inFlight[fd] + n]
        => CounterCardinality'
  BY <1>1, <1>3, <1>4 DEF CountInv, CounterCardinality, TypeOK
<1>8. CASE ended
  <2>1. CloseOrDefer(fd, n)
    BY <1>8 DEF ReadPackets
  <2>2. ObjectInv' /\ DeferredHasWork' /\ wantWrite' = {}
    BY <1>1, <1>2, <2>1, CloseOrDeferObjects DEF NoWrites
  <2>3. CASE n = 0
    <3>1. UNCHANGED <<phase, owner>>
      <4>1. submitted+1 .. submitted+0 = {}
        BY DEF TypeOK
      <4> QED BY <1>2, <2>3, <4>1 DEF Submit, TypeOK
    <3> QED BY <1>1, <1>3, <2>1, <2>2, <2>3, <3>1, CloseOrDeferCount
  <2>4. CASE n # 0
    <3>1. Defer(fd, n)
      BY <1>1, <1>2, <1>5, <2>1, <2>4 DEF CloseOrDefer
    <3>2. UNCHANGED sessions /\ inFlight' = [inFlight EXCEPT ![fd] = inFlight[fd] + n]
      BY <1>5, <3>1 DEF Defer
    <3> QED BY <1>3, <1>6, <1>7, <2>2, <3>2 DEF CountInv
  <2> QED BY <2>3, <2>4
<1>9. CASE ~ended
  <2>1. /\ inFlight' = [inFlight EXCEPT ![fd] = inFlight[fd] + n]
        /\ UNCHANGED <<sessions, pendingDelete, life, closed, wantWrite>>
    BY <1>9 DEF ReadPackets
  <2>2. ObjectInv'
    BY <1>1, <1>2, <2>1 DEF ObjectInv, MapsAgree, NoLeak, ClosedBorn, Open, TypeOK
  <2>3. DeferredHasWork'
    BY <1>1, <1>2, <2>1 DEF DeferredHasWork, TypeOK
  <2> QED BY <1>3, <1>6, <1>7, <2>1, <2>2, <2>3 DEF CountInv, NoWrites
<1> QED BY <1>8, <1>9

\* onTaskDone: the counter shrinks with the set it counts, and the last task of
\* a deferred session deletes it.
LEMMA TaskDoneInv ==
  ASSUME Inv, ExecuteTaskDone
  PROVE  ObjectInv' /\ CountInv' /\ QueueInv' /\ NoWrites' /\ DeferredHasWork'
<1> USE DEF Inv
<1>1. QueueInv' /\ mode # "exited" /\ UNCHANGED <<submitted, owner, ready, mode>>
  BY TaskDoneQueue DEF ExecuteTaskDone, NextCommand, loopVars
<1>2. PICK fd \in Fds, t \in Tasks :
        /\ OnTaskDone(fd)
        /\ phase[t] = "returned" /\ fd = FdOf[owner[t]]
        /\ phase' = [phase EXCEPT ![t] = "retired"]
        /\ t \in Outstanding(fd)
        /\ Outstanding(fd)' = Outstanding(fd) \ {t}
        /\ \A g \in Fds : g # fd => Outstanding(g)' = Outstanding(g)
  BY TaskDoneQueue
<1>3. /\ sessions[fd] = owner[t] /\ owner[t] \in Sessions /\ sessions[fd] # NoSession
  <2>1. owner[t] \in Sessions
    BY <1>2 DEF TypeOK
  <2>2. sessions[fd] = owner[t]
    BY <1>1, <1>2 DEF CountInv, OwnersMapped, Active
  <2> QED BY <2>1, <2>2, SessionsAssumption
<1>4. /\ inFlight[fd] = Cardinality(Outstanding(fd)) /\ inFlight[fd] \in Nat
      /\ Cardinality(Outstanding(fd)') = inFlight[fd] - 1
  <2>1. inFlight[fd] = Cardinality(Outstanding(fd))
    BY <1>1, <1>2, <1>3 DEF CountInv, CounterCardinality
  <2>2. Cardinality(Outstanding(fd)') = Cardinality(Outstanding(fd)) - 1
    <3>1. IsFiniteSet(Outstanding(fd)) /\ t \in Outstanding(fd)
      BY <1>2, OutstandingFinite
    <3>2. Cardinality(Outstanding(fd) \ {t}) = Cardinality(Outstanding(fd)) - 1
      BY <3>1, FS_RemoveElement
    <3> QED BY <1>2, <3>2
  <2> QED BY <2>1, <2>2, OutstandingFinite
<1>5. inFlight[fd] > 0
  BY <1>2, <1>4, NoneOutstanding
<1>6. CASE inFlight[fd] = 1 /\ fd \in pendingDelete
  <2>1. pendingDelete' = pendingDelete \ {fd} /\ CloseClient(fd)
    BY <1>2, <1>6 DEF OnTaskDone
  <2>2. ObjectInv'
    BY <1>1, <1>2, <2>1, CloseClientObjects
  <2>3. /\ sessions' = [sessions EXCEPT ![fd] = NoSession]
        /\ inFlight' = [inFlight EXCEPT ![fd] = -1]
        /\ closed' = closed \cup {sessions[fd]} /\ wantWrite' = wantWrite \ {sessions[fd]}
    BY <1>3, <2>1 DEF CloseClient, EraseEntries
  <2>4. Outstanding(fd) = {t}
    <3>1. Cardinality(Outstanding(fd)') = 0
      BY <1>4, <1>6
    <3>2. Outstanding(fd)' = {}
      BY <1>2, <3>1, OutstandingFinite, FS_RemoveElement, FS_EmptySet
    <3> QED BY <1>2, <3>2
  <2>5. OwnersMapped'
    BY <1>1, <1>2, <2>3, <2>4 DEF CountInv, OwnersMapped, Active, Outstanding, TypeOK
  <2>6. CounterCardinality'
    BY <1>1, <1>2, <2>3 DEF CountInv, CounterCardinality, TypeOK
  <2>7. \A g \in Fds : g # fd => sessions[g] # sessions[fd]
    BY <1>2, <1>3 DEF ObjectInv, MapsAgree
  <2>8. NoSession \notin closed'
    BY <1>3, <2>3, SessionsAssumption DEF TypeOK
  <2>9. DeferredHasWork'
    BY <1>1, <1>2, <2>1, <2>3, <2>7, <2>8 DEF DeferredHasWork, TypeOK
  <2> QED BY <1>1, <2>2, <2>3, <2>5, <2>6, <2>9 DEF CountInv, NoWrites
<1>7. CASE ~(inFlight[fd] = 1 /\ fd \in pendingDelete)
  <2>1. /\ inFlight' = [inFlight EXCEPT ![fd] = inFlight[fd] - 1]
        /\ UNCHANGED <<pendingDelete, sessions, life, closed, wantWrite>>
    BY <1>2, <1>4, <1>5, <1>7 DEF OnTaskDone
  <2>2. ObjectInv'
    BY <1>1, <1>2, <1>4, <1>5, <2>1 DEF ObjectInv, MapsAgree, NoLeak, ClosedBorn, Open, TypeOK
  <2>3. OwnersMapped'
    BY <1>1, <1>2, <2>1 DEF CountInv, OwnersMapped, Active, TypeOK
  <2>4. CounterCardinality'
    BY <1>1, <1>2, <1>4, <2>1 DEF CountInv, CounterCardinality, TypeOK
  <2>5. DeferredHasWork'
    BY <1>1, <1>2, <1>4, <1>5, <1>7, <2>1 DEF DeferredHasWork, TypeOK
  <2> QED BY <1>1, <2>1, <2>2, <2>3, <2>4, <2>5 DEF CountInv, NoWrites
<1> QED BY <1>6, <1>7
----------------------------------------------------------------------------
\* Steps that change no map: the parts of the invariant depend on these variables.
LEMMA Unmapped ==
  ASSUME Inv, UNCHANGED <<sessions, inFlight, pendingDelete, life, closed, phase, owner>>,
         mode' = "exited" <=> mode = "exited"
  PROVE  ObjectInv' /\ CountInv' /\ DeferredHasWork'
<1> USE DEF Inv
<1>1. \A g : Outstanding(g)' = Outstanding(g)
  BY DEF Outstanding
<1>2. ObjectInv'
  BY DEF ObjectInv, MapsAgree, NoLeak, ClosedBorn, Open
<1>3. CountInv'
  BY <1>1 DEF CountInv, OwnersMapped, CounterCardinality, Active
<1>4. DeferredHasWork'
  BY DEF DeferredHasWork
<1> QED BY <1>2, <1>3, <1>4

\* The rest of the batch holds no request to write.
LEMMA BatchTail ==
  ASSUME Inv, NEW fd, NEW evs, HandleEvent(fd, evs)
  PROVE  /\ \A i \in 1..Len(ready') : ready'[i].ev \notin {"out", "inout"}
         /\ Head(ready).ev \notin {"out", "inout"}
         /\ mode = "loop" /\ mode' = mode /\ drained = 0
<1> USE DEF Inv
<1>1. ready # <<>> /\ ready' = Tail(ready) /\ mode = "loop" /\ mode' = mode /\ drained = 0
  BY DEF HandleEvent
<1>2. /\ Head(ready) = ready[1] /\ 1 \in 1..Len(ready)
      /\ \A i \in 1..Len(ready') : ready'[i] = ready[i+1] /\ i+1 \in 1..Len(ready)
  BY <1>1 DEF TypeOK
<1> QED BY <1>1, <1>2 DEF NoWrites

LEMMA OnReadInv ==
  ASSUME Inv, NEW fd \in Fds, OnRead(fd), mode # "exited", UNCHANGED mode
  PROVE  ObjectInv' /\ CountInv' /\ QueueInv' /\ DeferredHasWork' /\ wantWrite' = {}
<1> USE DEF Inv
<1>1. CASE sessions[fd] = NoSession
  <2>1. UNCHANGED <<sessions, inFlight, pendingDelete, life, closed, wantWrite, submitted,
                    phase, owner, commands, drained>>
    BY <1>1 DEF OnRead, managerVars, taskVars, queueVars
  <2> QED BY <2>1, Unmapped, SameTasks DEF NoWrites
<1>2. CASE sessions[fd] # NoSession /\ sessions[fd] \in closed
  <2>1. CloseOrDefer(fd, 0) /\ UNCHANGED <<submitted, phase, owner, commands, drained>>
    BY <1>2 DEF OnRead, ReadClosed, taskVars, queueVars
  <2>2. ObjectInv' /\ DeferredHasWork' /\ wantWrite' = {}
    BY <2>1, CloseOrDeferObjects DEF NoWrites
  <2> QED BY <2>1, <2>2, CloseOrDeferCount, SameTasks
<1>3. CASE sessions[fd] # NoSession /\ sessions[fd] \notin closed
  <2>1. PICK n \in 0..(MaxTasks - submitted), ended \in BOOLEAN : ReadPackets(fd, n, ended)
    BY <1>3 DEF OnRead
  <2> QED BY <1>3, <2>1, ReadPacketsInv DEF OnRead
<1> QED BY <1>1, <1>2, <1>3

LEMMA AcceptInv ==
  ASSUME Inv, Environment, NEW s \in Sessions, Accept(s)
  PROVE  ObjectInv' /\ CountInv' /\ QueueInv' /\ NoWrites' /\ DeferredHasWork'
<1> USE DEF Inv
<1> DEFINE fd == FdOf[s]
<1>1. fd \in Fds
  BY FdsAssumption
<1>2. /\ life[s] = "unborn" /\ sessions[fd] = NoSession
      /\ life' = [life EXCEPT ![s] = "live"]
      /\ sessions' = [sessions EXCEPT ![fd] = s]
      /\ inFlight' = [inFlight EXCEPT ![fd] = 0]
      /\ UNCHANGED <<pendingDelete, closed, wantWrite, submitted, phase, owner, commands, drained>>
  BY DEF Accept, Environment, taskVars, queueVars
<1>3. /\ mode = "loop" /\ mode' = mode /\ drained = 0
      /\ \A i \in 1..Len(ready') : ready'[i].ev \notin {"out", "inout"}
  BY BatchTail DEF Accept
<1>4. s \notin closed
  BY <1>2 DEF ObjectInv, ClosedBorn
<1>5. ObjectInv'
  <2>1. MapsAgree'
    BY <1>1, <1>2, <1>3, SessionsAssumption DEF TypeOK, ObjectInv, MapsAgree, Open
  <2>2. NoLeak'
    BY <1>1, <1>2, <1>3, FdsAssumption, SessionsAssumption DEF TypeOK, ObjectInv, NoLeak
  <2>3. ClosedBorn'
    BY <1>2 DEF TypeOK, ObjectInv, ClosedBorn
  <2> QED BY <2>1, <2>2, <2>3 DEF ObjectInv
<1>6. \A t \in Tasks : Active(t) => FdOf[owner[t]] # fd
  <2> SUFFICES ASSUME NEW t \in Tasks, Active(t), FdOf[owner[t]] = fd PROVE FALSE
    OBVIOUS
  <2>1. owner[t] \in Sessions
    BY DEF TypeOK
  <2>2. sessions[fd] = owner[t]
    BY <1>3 DEF CountInv, OwnersMapped
  <2> QED BY <1>2, <2>1, <2>2, SessionsAssumption
<1>7. OwnersMapped'
  BY <1>2, <1>3, <1>6 DEF CountInv, OwnersMapped, Active, TypeOK
<1>8. /\ \A g : Outstanding(g)' = Outstanding(g)
      /\ Outstanding(fd) = {}
  BY <1>2, <1>6 DEF Outstanding, Active
<1>9. CounterCardinality'
  BY <1>1, <1>2, <1>3, <1>8, FS_EmptySet DEF CountInv, CounterCardinality, TypeOK
<1>10. DeferredHasWork'
  <2>1. fd \notin pendingDelete
    BY <1>1, <1>2, <1>3, SessionsAssumption DEF DeferredHasWork, TypeOK
  <2> QED BY <1>1, <1>2, <1>3, <1>4, <2>1 DEF DeferredHasWork, TypeOK
<1>11. QueueInv'
  BY <1>2, <1>3, SameTasks
<1> QED BY <1>2, <1>3, <1>5, <1>7, <1>9, <1>10, <1>11 DEF CountInv, NoWrites

LEMMA MainInv ==
  ASSUME Inv, Environment, MainStep
  PROVE  ObjectInv' /\ CountInv' /\ QueueInv' /\ NoWrites' /\ DeferredHasWork'
<1> USE DEF Inv
<1>1. CASE EpollWait
  <2>1. PICK n \in 1..MaxEvents : \E batch \in [1..n -> {e \in Event : Reportable(e)}] : ready' = batch
    BY <1>1 DEF EpollWait
  <2>2. n \in Nat /\ Len(ready') = n /\ \A i \in 1..n : Reportable(ready'[i])
    BY <2>1, BoundsAssumption
  <2>3. \A i \in 1..n : ready'[i].ev \notin {"out", "inout"}
    BY <2>2 DEF Reportable, NoWrites
  <2>4. UNCHANGED <<sessions, inFlight, pendingDelete, life, closed, wantWrite, submitted,
                    phase, owner, commands, drained, mode>>
    BY <1>1 DEF EpollWait, managerVars, objectVars, taskVars, queueVars
  <2> QED BY <2>2, <2>3, <2>4, Unmapped, SameTasks DEF NoWrites, QueueInv, ExitedIdle
<1>2. CASE ListenerError \/ ShutdownRequested \/ TestPending \/ DrainAtShutdown
  <2>1. /\ UNCHANGED <<sessions, inFlight, pendingDelete, life, closed, wantWrite, submitted,
                       phase, owner, commands>>
        /\ ready' = ready \/ ready' = <<>>
        /\ mode # "exited" /\ mode' \in {"test", "drain"}
    BY <1>2 DEF BetweenBatches, ListenerError, ShutdownRequested, TestPending, DrainAtShutdown,
                managerVars, objectVars, taskVars, queueVars
  <2> QED BY <2>1, Unmapped, SameTasks DEF NoWrites
<1>3. CASE \E s \in Sessions : Accept(s)
  BY <1>3, AcceptInv
<1>4. CASE AcceptFails \/ HandleEventFd
  <2>1. /\ UNCHANGED <<sessions, inFlight, pendingDelete, life, closed, wantWrite, submitted,
                       phase, owner, commands>>
    BY <1>4 DEF AcceptFails, HandleEventFd, managerVars, taskVars, queueVars
  <2>2. /\ mode = "loop" /\ mode' = mode
        /\ \A i \in 1..Len(ready') : ready'[i].ev \notin {"out", "inout"}
    BY <1>4, BatchTail DEF AcceptFails, HandleEventFd
  <2> QED BY <2>1, <2>2, Unmapped, SameTasks DEF NoWrites
<1>5. CASE \E fd \in Fds : HandleRead(fd) \/ HandleReadWrite(fd) \/ HandleWrite(fd) \/ HandleError(fd)
  <2>1. PICK fd \in Fds : HandleRead(fd) \/ HandleReadWrite(fd) \/ HandleWrite(fd) \/ HandleError(fd)
    BY <1>5
  <2>2. CASE HandleRead(fd)
    <3>1. /\ mode = "loop" /\ mode' = mode
          /\ \A i \in 1..Len(ready') : ready'[i].ev \notin {"out", "inout"}
      BY <2>2, BatchTail DEF HandleRead
    <3>2. OnRead(fd)
      BY <2>2 DEF HandleRead
    <3> QED BY <3>1, <3>2, OnReadInv DEF NoWrites
  <2>3. CASE HandleReadWrite(fd)
    <3>1. ready # <<>> /\ Head(ready).ev = "inout"
      BY <2>3 DEF HandleReadWrite
    <3>2. Head(ready) = ready[1] /\ 1 \in 1..Len(ready)
      BY <3>1 DEF TypeOK
    <3> QED BY <3>1, <3>2 DEF NoWrites
  <2>4. CASE HandleWrite(fd)
    BY <2>4, BatchTail DEF HandleWrite, HandleEvent
  <2>5. CASE HandleError(fd)
    <3>1. /\ mode = "loop" /\ mode' = mode /\ drained = 0
          /\ \A i \in 1..Len(ready') : ready'[i].ev \notin {"out", "inout"}
      BY <2>5, BatchTail DEF HandleError
    <3>2. CloseOrDefer(fd, 0) /\ UNCHANGED <<submitted, phase, owner, commands, drained>>
      BY <2>5 DEF HandleError, taskVars, queueVars
    <3>3. ObjectInv' /\ DeferredHasWork' /\ wantWrite' = {}
      BY <3>1, <3>2, CloseOrDeferObjects DEF NoWrites
    <3> QED BY <3>1, <3>2, <3>3, CloseOrDeferCount, SameTasks DEF NoWrites
  <2> QED BY <2>1, <2>2, <2>3, <2>4, <2>5
<1>6. CASE ExecuteSendRaw
  <2>1. /\ UNCHANGED <<sessions, inFlight, pendingDelete, life, closed, phase>>
        /\ NextCommand("SendRaw")
    BY <1>6 DEF ExecuteSendRaw, managerVars
  <2>2. QueueInv' /\ mode' = mode /\ ready' = ready /\ owner' = owner
    BY <2>1, OtherCommand DEF NextCommand
  <2>3. wantWrite' = {}
    BY <1>6 DEF ExecuteSendRaw, Flush, NoWrites, Environment
  <2> QED BY <2>1, <2>2, <2>3, Unmapped DEF NoWrites
<1>7. CASE ExecuteClose
  <2>c. PICK fd : fd = Head(commands).fd
    OBVIOUS
  <2>1. NextCommand("Close") /\ UNCHANGED phase
    BY <1>7 DEF ExecuteClose
  <2>2. QueueInv' /\ mode # "exited" /\ mode' = mode /\ ready' = ready /\ owner' = owner
    BY <2>1, OtherCommand DEF NextCommand
  <2>3. fd \in Fds
    <3>1. Head(commands) \in Command
      BY <2>1, NextCommandType
    <3> QED BY <2>c, <3>1 DEF Command
  <2>4. CASE sessions[fd] = NoSession
    <3>1. UNCHANGED <<sessions, inFlight, pendingDelete, life, closed, wantWrite>>
      BY <1>7, <2>c, <2>4 DEF ExecuteClose, managerVars
    <3> QED BY <2>1, <2>2, <3>1, Unmapped DEF NoWrites
  <2>5. CASE sessions[fd] # NoSession
    <3>1. CloseOrDefer(fd, 0)
      BY <1>7, <2>c, <2>5 DEF ExecuteClose
    <3>2. ObjectInv' /\ DeferredHasWork' /\ wantWrite' = {}
      BY <2>2, <2>3, <3>1, CloseOrDeferObjects DEF NoWrites
    <3> QED BY <2>1, <2>2, <2>3, <3>1, <3>2, CloseOrDeferCount DEF NoWrites
  <2> QED BY <2>4, <2>5
<1>8. CASE ExecuteTaskDone
  BY <1>8, TaskDoneInv
<1>9. CASE Exit
  <2> DEFINE mapped == {sessions[fd] : fd \in Fds} \cap Sessions
  <2>1. /\ mode' = "exited" /\ drained = 0
        /\ life' = [s \in Sessions |-> IF s \in mapped THEN "deleted" ELSE life[s]]
        /\ closed' = closed \cup mapped
        /\ wantWrite' = wantWrite \ mapped
        /\ sessions' = [fd \in Fds |-> NoSession]
        /\ UNCHANGED <<submitted, phase, owner, commands, drained, ready>>
    BY <1>9 DEF Exit, taskVars, queueVars
  <2>2. \A s \in Sessions : life[s] = "live" => s \in mapped
    BY FdsAssumption DEF ObjectInv, NoLeak
  <2>3. \A s \in Sessions : life'[s] # "live"
    BY <2>1, <2>2
  <2>4. ObjectInv'
    BY <2>1, <2>3 DEF ObjectInv, MapsAgree, NoLeak, ClosedBorn, Open, TypeOK
  <2>5. QueueInv'
    BY <2>1, SameTasks
  <2> QED BY <2>1, <2>4, <2>5 DEF CountInv, OwnersMapped, CounterCardinality, NoWrites, DeferredHasWork
<1> QED BY <1>1, <1>2, <1>3, <1>4, <1>5, <1>6, <1>7, <1>8, <1>9 DEF MainStep
----------------------------------------------------------------------------
LEMMA WorkerInv ==
  ASSUME Inv, NEW t \in Tasks, TaskStep(t)
  PROVE  ObjectInv' /\ CountInv' /\ QueueInv' /\ NoWrites' /\ DeferredHasWork'
<1> USE DEF Inv
<1>1. UNCHANGED <<sessions, inFlight, pendingDelete, life, closed, wantWrite, owner, ready, mode>>
  BY WorkerFrame
<1>2. /\ QueueInv'
      /\ \A u \in Tasks : Active(u)' <=> Active(u)
      /\ \A g : Outstanding(g)' = Outstanding(g)
  BY WorkerQueue
<1>3. ObjectInv' /\ DeferredHasWork' /\ NoWrites'
  BY <1>1 DEF ObjectInv, MapsAgree, NoLeak, ClosedBorn, Open, DeferredHasWork, NoWrites
<1>4. CountInv'
  BY <1>1, <1>2 DEF CountInv, OwnersMapped, CounterCardinality
<1> QED BY <1>2, <1>3, <1>4
----------------------------------------------------------------------------
LEMMA InitInv == Init => Inv
<1> SUFFICES ASSUME Init PROVE Inv
  OBVIOUS
<1>1. TypeOK
  BY TypeInit
<1>2. \A g : Outstanding(g) = {}
  BY DEF Init, Outstanding
<1>3. ObjectInv
  BY DEF Init, ObjectInv, MapsAgree, NoLeak, ClosedBorn, Open
<1>4. CountInv
  BY DEF Init, CountInv, OwnersMapped, CounterCardinality, Active
<1>5. QueueInv /\ NoWrites
  BY DEF Init, QueueInv, Numbering, DoneCommands, ExitedIdle, NoWrites
<1>6. DeferredHasWork
  BY DEF Init, DeferredHasWork
<1> QED BY <1>1, <1>3, <1>4, <1>5, <1>6 DEF Inv

LEMMA NextInv ==
  ASSUME Environment, Inv, [Next]_vars
  PROVE  Inv'
<1>1. TypeOK'
  BY TypeNext DEF Inv
<1>2. CASE MainStep
  BY <1>1, <1>2, MainInv DEF Inv
<1>3. CASE \E t \in Tasks : TaskStep(t)
  BY <1>1, <1>3, WorkerInv DEF Inv
<1>4. CASE UNCHANGED vars
  <2>1. UNCHANGED <<sessions, inFlight, pendingDelete, life, closed, wantWrite, submitted,
                    phase, owner, commands, drained, ready, mode>>
    BY <1>4 DEF vars, managerVars, objectVars, taskVars, queueVars, loopVars
  <2>2. QueueInv' /\ NoWrites'
    BY <2>1 DEF Inv, QueueInv, Numbering, DoneCommands, ExitedIdle, NoWrites
  <2> QED BY <1>1, <2>1, <2>2, Unmapped DEF Inv
<1> QED BY <1>2, <1>3, <1>4 DEF Next, Terminated

\* The deferred deletion is right: in every behaviour in which no number is reused
\* under a mapped session and no peer is slow, no session is deleted under a task.
THEOREM SessionsOutliveTasks ==
  ASSUME Environment
  PROVE  Spec => []TaskSessionAlive
<1>1. Inv /\ [Next]_vars => Inv'
  BY NextInv
<1>2. Inv => TaskSessionAlive
  <2> SUFFICES ASSUME Inv, mode # "exited", NEW t \in Queued \cup Running
               PROVE  life[owner[t]] = "live"
    BY DEF TaskSessionAlive
  <2>1. t \in Tasks /\ Active(t)
    BY DEF Queued, Running, Active, Handling
  <2>2. owner[t] \in Sessions /\ sessions[FdOf[owner[t]]] = owner[t]
    BY <2>1 DEF Inv, TypeOK, CountInv, OwnersMapped
  <2> QED BY <2>2, FdsAssumption, MappedFacts, SessionsAssumption DEF Inv
<1> QED BY <1>1, <1>2, InitInv, PTL DEF Spec

\* inFlight_ counts exactly the unreported tasks of the mapped session.
THEOREM CountersExact ==
  ASSUME Environment
  PROVE  Spec => []CounterExact
<1>1. Inv /\ [Next]_vars => Inv'
  BY NextInv
<1>2. Inv => CounterExact
  <2> SUFFICES ASSUME Inv, mode # "exited", NEW fd \in Fds, sessions[fd] # NoSession
               PROVE  /\ inFlight[fd] = Cardinality(Outstanding(fd))
                      /\ \A t \in Outstanding(fd) : owner[t] = sessions[fd]
    BY DEF CounterExact
  <2> QED BY DEF Inv, CountInv, CounterCardinality, OwnersMapped, Outstanding, Active
<1> QED BY <1>1, <1>2, InitInv, PTL DEF Spec

\* Every deferred deletion has a task in flight that will carry it out.
THEOREM DeletionsHappen ==
  ASSUME Environment
  PROVE  Spec => []DeferredHasWork
<1>1. Inv /\ [Next]_vars => Inv'
  BY NextInv
<1>2. Inv => DeferredHasWork
  BY DEF Inv
<1> QED BY <1>1, <1>2, InitInv, PTL DEF Spec

\* No ClientSession object is ever lost: a live one is in the map, and main()
\* leaves none behind.
THEOREM NothingLeaks ==
  ASSUME Environment
  PROVE  Spec => []NoLeak
<1>1. Inv /\ [Next]_vars => Inv'
  BY NextInv
<1>2. Inv => NoLeak
  BY DEF Inv, ObjectInv
<1> QED BY <1>1, <1>2, InitInv, PTL DEF Spec
\* No worker ever dereferences a deleted session through the pointer its task has
\* captured: the promise of Task.h, kept while no peer is slow.
THEOREM NoTaskDereferencesDeleted ==
  ASSUME Environment
  PROVE  Spec => []NoTaskFault
<1>1. Init => Inv /\ AnyInv /\ NoTaskFault
  BY InitInv, AnyInit DEF Init, NoTaskFault
<1>2. Inv /\ AnyInv /\ NoTaskFault /\ [Next]_vars => Inv' /\ AnyInv' /\ NoTaskFault'
  <2> SUFFICES ASSUME Inv, AnyInv, NoTaskFault, [Next]_vars
               PROVE  NoTaskFault'
    BY NextInv, AnyNext
  <2>1. ASSUME NEW t \in Tasks PROVE ~OwnerDeleted(t)
    <3> SUFFICES ASSUME OwnerDeleted(t) PROVE FALSE
      OBVIOUS
    <3>1. Active(t) /\ t \in Running /\ life[owner[t]] = "deleted"
      BY <2>1 DEF OwnerDeleted, Active, Handling, Running
    <3>2. mode # "exited"
      BY <3>1 DEF AnyInv, TeardownQuiet, HasPendingTasks
    <3>3. owner[t] \in Sessions /\ sessions[FdOf[owner[t]]] = owner[t]
      BY <2>1, <3>1, <3>2 DEF Inv, TypeOK, CountInv, OwnersMapped
    <3> QED BY <3>1, <3>3, FdsAssumption, MappedFacts, SessionsAssumption DEF Inv
  <2>2. fault' \in {fault, "peer"}
    <3>1. CASE MainStep
      BY <3>1 DEF MainStep, EpollWait, ListenerError, ShutdownRequested, Accept, AcceptFails,
         HandleRead, HandleReadWrite, HandleWrite, HandleError, HandleEventFd, HandleEvent,
         ExecuteSendRaw, ExecuteClose, ExecuteTaskDone, NextCommand, TestPending,
         DrainAtShutdown, Exit, Sane
    <3>2. ASSUME NEW t \in Tasks, TaskStep(t) PROVE fault' \in {fault, "peer"}
      BY <2>1, <3>2 DEF TaskStep, Take, CheckOpen, Authenticate, RegisterUser, Reply,
         RequestClose, ReadSender, FindRecipient, PushToRecipient, LogRecipient, EndBroadcast,
         Finish, PeerDeleted, Step, Sane
    <3>3. CASE UNCHANGED vars
      BY <3>3 DEF vars
    <3> QED BY <3>1, <3>2, <3>3 DEF Next, Terminated
  <2> QED BY <2>2 DEF NoTaskFault
<1> QED BY <1>1, <1>2, PTL DEF Spec
----------------------------------------------------------------------------
(* Refinement: SessionLifetime sees each session with its own tasks.       *)

\* The tasks of a mapped session are those counted under its number.
LEMMA WorkOfMapped ==
  ASSUME Inv, NEW fd \in Fds, sessions[fd] # NoSession
  PROVE  /\ WorkFor(sessions[fd]) = Outstanding(fd)
         /\ inFlight[fd] = 0 <=> WorkFor(sessions[fd]) = {}
         /\ SessionState(sessions[fd]) = IF sessions[fd] \in closed THEN "closing" ELSE "open"
<1>1. /\ mode # "exited" /\ FdOf[sessions[fd]] = fd /\ inFlight[fd] \in Nat
      /\ life[sessions[fd]] = "live"
  BY MappedFacts DEF Inv
<1>2. WorkFor(sessions[fd]) = Outstanding(fd)
  BY <1>1 DEF WorkFor, Outstanding, Inv, CountInv, OwnersMapped, Active
<1>3. inFlight[fd] = Cardinality(Outstanding(fd)) /\ IsFiniteSet(Outstanding(fd))
  BY <1>1, OutstandingFinite DEF Inv, CountInv, CounterCardinality
<1>4. inFlight[fd] = 0 <=> Outstanding(fd) = {}
  BY <1>3, FS_EmptySet
<1> QED BY <1>1, <1>2, <1>4 DEF SessionState

\* Steps that touch neither the objects nor the tasks are not seen.
LEMMA Unseen ==
  ASSUME UNCHANGED <<life, closed, phase, owner>>
  PROVE  UNCHANGED Lifetime!vars
BY DEF Lifetime!vars, SessionState, WorkFor, Queued, Running

\* What becomes of the session under fd when closeOrDefer has run.
LEMMA ClosedOrDeferred ==
  ASSUME Inv, NEW fd \in Fds, NEW n \in Nat, CloseOrDefer(fd, n), sessions[fd] # NoSession
  PROVE  /\ closed' = closed \cup {sessions[fd]}
         /\ life' = IF inFlight[fd] + n = 0 THEN [life EXCEPT ![sessions[fd]] = "deleted"]
                                            ELSE life
<1>1. sessions[fd] \in Sessions /\ inFlight[fd] \in Nat
  BY MappedFacts DEF Inv
<1>2. Pending(fd, n) = inFlight[fd] + n
  BY <1>1 DEF Pending
<1>3. Pending(fd, n) > 0 <=> ~(inFlight[fd] + n = 0)
  BY <1>1, <1>2
<1>4. CASE Pending(fd, n) > 0
  BY <1>1, <1>3, <1>4 DEF CloseOrDefer, Defer
<1>5. CASE ~(Pending(fd, n) > 0)
  BY <1>3, <1>5 DEF CloseOrDefer, CloseClient, DeleteObject
<1> QED BY <1>4, <1>5

\* How Start looks from here: s has the new tasks T.
StartedHere(s, T) ==
  /\ \A r \in Sessions : WorkFor(r) \cap T = {}
  /\ \A r \in Sessions : WorkFor(r)' = IF r = s THEN WorkFor(s) \cup T ELSE WorkFor(r)
  /\ (Queued \cup Running)' = (Queued \cup Running) \cup T

LEMMA StartSeen ==
  ASSUME NEW s \in Sessions, life[s] = "live", s \notin closed, NEW T, StartedHere(s, T)
  PROVE  Lifetime!Start(s, T)
<1> DEFINE Work == [r \in Sessions |-> WorkFor(r)]
<1>1. Work' = [Work EXCEPT ![s] = WorkFor(s) \cup T]
  BY DEF StartedHere
<1>2. \A r \in Sessions : Work[r] \cap T = {}
  BY DEF StartedHere
<1>3. [r \in Sessions |-> SessionState(r)][s] = "open"
  BY DEF SessionState
<1> QED BY <1>1, <1>2, <1>3 DEF Lifetime!Start, StartedHere

LEMMA CloseSeen ==
  ASSUME Inv, NEW s \in Sessions, life[s] = "live", s \notin closed, NEW T, StartedHere(s, T),
         closed' = closed \cup {s},
         life' = IF WorkFor(s) \cup T = {} THEN [life EXCEPT ![s] = "deleted"] ELSE life
  PROVE  Lifetime!Close(s, T)
<1> DEFINE St == [r \in Sessions |-> SessionState(r)]
           Work == [r \in Sessions |-> WorkFor(r)]
<1>1. Lifetime!Start(s, T)
  BY StartSeen
<1>2. Work'[s] = WorkFor(s) \cup T
  BY DEF StartedHere
<1>3. life \in [Sessions -> {"unborn", "live", "deleted"}]
  BY DEF Inv, TypeOK
<1>4. \A r \in Sessions : SessionState(r)' = IF r = s
        THEN IF WorkFor(s) \cup T = {} THEN "deleted" ELSE "closing" ELSE SessionState(r)
  <2>1. CASE WorkFor(s) \cup T = {}
    BY <1>3, <2>1 DEF SessionState
  <2>2. CASE WorkFor(s) \cup T # {}
    BY <1>3, <2>2 DEF SessionState
  <2> QED BY <2>1, <2>2
<1>5. St' = [St EXCEPT ![s] = IF Work'[s] = {} THEN "deleted" ELSE "closing"]
  BY <1>2, <1>4
<1> QED BY <1>1, <1>5 DEF Lifetime!Close

\* onError, Close, and onRead on a closed session.
LEMMA ClosingSeen ==
  ASSUME Inv, mode # "exited", NEW fd \in Fds, CloseOrDefer(fd, 0), UNCHANGED <<phase, owner>>
  PROVE  [Lifetime!Next]_(Lifetime!vars)
<1> DEFINE s == sessions[fd]
<1>1. CASE s = NoSession
  <2>1. inFlight[fd] = -1
    BY <1>1 DEF Inv, ObjectInv, MapsAgree
  <2>2. UNCHANGED <<life, closed>>
    BY <1>1, <2>1 DEF CloseOrDefer, Pending, CloseClient
  <2> QED BY <2>2, Unseen
<1>2. CASE s # NoSession
  <2>1. s \in Sessions /\ life[s] = "live" /\ inFlight[fd] \in Nat
    BY <1>2, MappedFacts DEF Inv
  <2>2. /\ closed' = closed \cup {s}
        /\ life' = IF inFlight[fd] = 0 THEN [life EXCEPT ![s] = "deleted"] ELSE life
    BY <1>2, <2>1, ClosedOrDeferred
  <2>3. CASE s \in closed
    <3>1. inFlight[fd] > 0
      BY <2>3 DEF Inv, DeferredHasWork
    <3> QED BY <2>1, <2>2, <2>3, <3>1, Unseen
  <2>4. CASE s \notin closed
    <3>1. StartedHere(s, {})
      BY DEF StartedHere, WorkFor, Queued, Running
    <3>2. WorkFor(s) \cup {} = {} <=> inFlight[fd] = 0
      BY <1>2, WorkOfMapped
    <3>3. Lifetime!Close(s, {})
      BY <2>1, <2>2, <2>4, <3>1, <3>2, CloseSeen
    <3> QED BY <2>1, <3>3 DEF Lifetime!Next
  <2> QED BY <2>3, <2>4
<1> QED BY <1>1, <1>2

\* onRead on an open session.
LEMMA ReadSeen ==
  ASSUME Inv, NEW fd \in Fds, sessions[fd] # NoSession, sessions[fd] \notin closed,
         NEW n \in 0..(MaxTasks - submitted), NEW ended \in BOOLEAN,
         ReadPackets(fd, n, ended)
  PROVE  [Lifetime!Next]_(Lifetime!vars)
<1> DEFINE s == sessions[fd]
           new == submitted+1 .. submitted+n
<1>1. s \in Sessions /\ life[s] = "live" /\ inFlight[fd] \in Nat
  BY MappedFacts DEF Inv
<1>2. n \in Nat /\ submitted \in Nat /\ submitted + n <= MaxTasks /\ MaxTasks \in Nat
  BY BoundsAssumption DEF Inv, TypeOK
<1>3. new \subseteq Tasks /\ \A t \in new : phase[t] = "none"
  BY <1>2 DEF Tasks, Inv, QueueInv, Numbering
<1>4. /\ phase' = [t \in Tasks |-> IF t \in new THEN "queued" ELSE phase[t]]
      /\ owner' = [t \in Tasks |-> IF t \in new THEN s ELSE owner[t]]
  BY DEF ReadPackets, Submit
<1>5. StartedHere(s, new)
  <2>1. \A r \in Sessions : WorkFor(r) \cap new = {}
    BY <1>3 DEF WorkFor
  <2>2. \A r \in Sessions : WorkFor(r)' = IF r = s THEN WorkFor(s) \cup new ELSE WorkFor(r)
    BY <1>3, <1>4 DEF WorkFor
  <2>3. (Queued \cup Running)' = (Queued \cup Running) \cup new
    BY <1>3, <1>4 DEF Queued, Running, Handling
  <2> QED BY <2>1, <2>2, <2>3 DEF StartedHere
<1>6. CASE ended
  <2>1. CloseOrDefer(fd, n)
    BY <1>6 DEF ReadPackets
  <2>2. inFlight[fd] + n = 0 <=> WorkFor(s) \cup new = {}
    <3>1. n = 0 <=> new = {}
      BY <1>2
    <3> QED BY <1>1, <1>2, <3>1, WorkOfMapped
  <2>3. /\ closed' = closed \cup {s}
        /\ life' = IF inFlight[fd] + n = 0 THEN [life EXCEPT ![s] = "deleted"] ELSE life
    BY <1>2, <2>1, ClosedOrDeferred
  <2>4. Lifetime!Close(s, new)
    BY <1>1, <1>5, <2>2, <2>3, CloseSeen
  <2> QED BY <1>1, <1>3, <2>4 DEF Lifetime!Next
<1>7. CASE ~ended
  <2>1. UNCHANGED <<life, closed>>
    BY <1>7 DEF ReadPackets
  <2>2. UNCHANGED [r \in Sessions |-> SessionState(r)]
    BY <2>1 DEF SessionState
  <2>3. Lifetime!Read(s, new)
    BY <1>1, <1>5, <2>2, StartSeen DEF Lifetime!Read
  <2> QED BY <1>1, <1>3, <2>3 DEF Lifetime!Next
<1> QED BY <1>6, <1>7

\* onTaskDone.
LEMMA ReportSeen ==
  ASSUME Inv, ExecuteTaskDone
  PROVE  Lifetime!Next
<1> DEFINE St == [r \in Sessions |-> SessionState(r)]
           Work == [r \in Sessions |-> WorkFor(r)]
<1>1. mode # "exited" /\ UNCHANGED owner
  BY TaskDoneQueue DEF Inv, ExecuteTaskDone, NextCommand
<1>2. PICK fd \in Fds, t \in Tasks :
        /\ OnTaskDone(fd)
        /\ phase[t] = "returned" /\ fd = FdOf[owner[t]]
        /\ phase' = [phase EXCEPT ![t] = "retired"]
        /\ t \in Outstanding(fd)
  BY TaskDoneQueue DEF Inv
<1> DEFINE s == owner[t]
<1>3. s \in Sessions /\ sessions[fd] = s /\ sessions[fd] # NoSession
  BY <1>1, <1>2, SessionsAssumption DEF Inv, TypeOK, CountInv, OwnersMapped, Active
<1>4. life[s] = "live" /\ inFlight[fd] \in Nat
  BY <1>3, MappedFacts DEF Inv
<1>5. t \in WorkFor(s) /\ t \notin Queued \cup Running
  BY <1>2 DEF WorkFor, Queued, Running, Handling
<1>6. Work' = [Work EXCEPT ![s] = WorkFor(s) \ {t}]
  BY <1>1, <1>2, <1>3 DEF WorkFor, Inv, TypeOK
<1>7. UNCHANGED (Queued \cup Running)
  BY <1>2 DEF Queued, Running, Handling, Inv, TypeOK
<1>8. WorkFor(s) = {t} <=> inFlight[fd] = 1
  <2>1. WorkFor(s) = Outstanding(fd) /\ inFlight[fd] = Cardinality(Outstanding(fd))
    BY <1>1, <1>3, WorkOfMapped DEF Inv, CountInv, CounterCardinality
  <2>2. Cardinality({t}) = 1
    BY FS_Singleton
  <2>3. ASSUME inFlight[fd] = 1 PROVE Outstanding(fd) \ {t} = {}
    <3>1. IsFiniteSet(Outstanding(fd)) /\ t \in Outstanding(fd)
      BY <1>2, OutstandingFinite
    <3>2. /\ IsFiniteSet(Outstanding(fd) \ {t})
          /\ Cardinality(Outstanding(fd) \ {t}) = Cardinality(Outstanding(fd)) - 1
      BY <3>1, FS_RemoveElement
    <3>3. Cardinality(Outstanding(fd) \ {t}) = 0
      BY <2>1, <2>3, <3>2
    <3> QED BY <3>2, <3>3, FS_EmptySet
  <2> QED BY <1>2, <2>1, <2>2, <2>3
<1>9. inFlight[fd] > 0
  BY <1>3, <1>4, <1>5, WorkOfMapped
<1>10. s \in closed <=> fd \in pendingDelete
  BY <1>1, <1>2, <1>3 DEF Inv, DeferredHasWork
<1>11. life \in [Sessions -> {"unborn", "live", "deleted"}]
  BY DEF Inv, TypeOK
<1>12. St' = IF s \in closed /\ WorkFor(s) = {t} THEN [St EXCEPT ![s] = "deleted"] ELSE St
  <2>1. CASE s \in closed /\ WorkFor(s) = {t}
    <3>1. closed' = closed \cup {s} /\ life' = [life EXCEPT ![s] = "deleted"]
      BY <1>2, <1>3, <1>8, <1>10, <2>1 DEF OnTaskDone, CloseClient, DeleteObject
    <3> QED BY <1>3, <1>11, <2>1, <3>1 DEF SessionState
  <2>2. CASE ~(s \in closed /\ WorkFor(s) = {t})
    <3>1. UNCHANGED <<life, closed>>
      BY <1>2, <1>8, <1>9, <1>10, <2>2 DEF OnTaskDone
    <3>2. St' = St
      BY <3>1 DEF SessionState
    <3> QED BY <2>2, <3>2
  <2> QED BY <2>1, <2>2
<1>13. St[s] = IF s \in closed THEN "closing" ELSE "open"
  BY <1>3, <1>4 DEF SessionState
<1>14. Lifetime!Report(s, t)
  BY <1>3, <1>5, <1>6, <1>7, <1>12, <1>13 DEF Lifetime!Report
<1> QED BY <1>2, <1>3, <1>14 DEF Lifetime!Next

\* main() ends.
LEMMA ExitSeen ==
  ASSUME Inv, Exit
  PROVE  Lifetime!Next
<1>1. Queued \cup Running = {} /\ UNCHANGED <<phase, owner>>
  BY DEF Exit, HasPendingTasks, taskVars
<1>2. /\ UNCHANGED [r \in Sessions |-> WorkFor(r)]
      /\ UNCHANGED (Queued \cup Running)
  BY <1>1 DEF WorkFor, Queued, Running
<1> DEFINE mapped == {sessions[fd] : fd \in Fds} \cap Sessions
<1>3. life' = [s \in Sessions |-> IF s \in mapped THEN "deleted" ELSE life[s]]
  BY DEF Exit
<1>4. \A s \in Sessions : life[s] = "live" => s \in mapped
  BY FdsAssumption DEF Inv, ObjectInv, NoLeak
<1>5. \A s \in mapped : life[s] = "live"
  BY MappedFacts, SessionsAssumption DEF Inv
<1>6. life \in [Sessions -> {"unborn", "live", "deleted"}]
  BY DEF Inv, TypeOK
<1>7. \A s \in Sessions : SessionState(s)'
                            = IF SessionState(s) = "unborn" THEN "unborn" ELSE "deleted"
  BY <1>3, <1>4, <1>5, <1>6 DEF SessionState
<1>8. Lifetime!End
  BY <1>1, <1>2, <1>7 DEF Lifetime!End
<1> QED BY <1>8 DEF Lifetime!Next

\* A connection is accepted.
LEMMA AcceptSeen ==
  ASSUME Inv, NEW s \in Sessions, Accept(s)
  PROVE  Lifetime!Next
<1>1. life[s] = "unborn" /\ life' = [life EXCEPT ![s] = "live"] /\ UNCHANGED <<closed, phase, owner>>
  BY DEF Accept, taskVars
<1>2. s \notin closed
  BY <1>1 DEF Inv, ObjectInv, ClosedBorn
<1>3. life \in [Sessions -> {"unborn", "live", "deleted"}]
  BY DEF Inv, TypeOK
<1>4. [r \in Sessions |-> SessionState(r)]'
        = [[r \in Sessions |-> SessionState(r)] EXCEPT ![s] = "open"]
  BY <1>1, <1>2, <1>3 DEF SessionState
<1>5. /\ UNCHANGED [r \in Sessions |-> WorkFor(r)]
      /\ UNCHANGED (Queued \cup Running)
  BY <1>1 DEF WorkFor, Queued, Running
<1>6. Lifetime!Connect(s)
  BY <1>1, <1>4, <1>5 DEF Lifetime!Connect, SessionState
<1> QED BY <1>6 DEF Lifetime!Next

\* Of what a worker does, SessionLifetime sees only the end of the task.
LEMMA WorkerSeen ==
  ASSUME Inv, NEW t \in Tasks, TaskStep(t)
  PROVE  [Lifetime!Next]_(Lifetime!vars)
<1>1. UNCHANGED <<life, closed, owner>>
  BY WorkerFrame DEF Inv
<1>2. /\ UNCHANGED [r \in Sessions |-> SessionState(r)]
      /\ UNCHANGED [r \in Sessions |-> WorkFor(r)]
  <2>1. \A u \in Tasks : Active(u)' <=> Active(u)
    BY WorkerQueue DEF Inv
  <2> QED BY <1>1, <2>1 DEF SessionState, WorkFor, Active
<1>3. CASE Finish(t)
  <2>1. t \in Queued \cup Running /\ phase' = [phase EXCEPT ![t] = "returned"]
    BY <1>3 DEF Finish, GoTo, Running
  <2>2. (Queued \cup Running)' = (Queued \cup Running) \ {t}
    BY <2>1 DEF Queued, Running, Handling, Inv, TypeOK
  <2>3. Lifetime!Return(t)
    BY <1>2, <2>1, <2>2 DEF Lifetime!Return
  <2> QED BY <2>3 DEF Lifetime!Next
<1>4. CASE ~Finish(t)
  <2>1. PICK to \in Handling \cup {"done"} :
          phase' \in {phase, [phase EXCEPT ![t] = to]} /\ (phase' # phase => t \in Queued \cup Running)
    BY <1>4, ZenonT(30) DEF TaskStep, Take, CheckOpen, Authenticate, RegisterUser, Reply, RequestClose,
       ReadSender, FindRecipient, PushToRecipient, LogRecipient, EndBroadcast, OwnerDeleted,
       PeerDeleted, Step, GoTo, Handling, Queued, Running, taskVars
  <2>2. (Queued \cup Running)' = Queued \cup Running
    BY <2>1 DEF Queued, Running, Handling, Inv, TypeOK
  <2> QED BY <1>2, <2>2 DEF Lifetime!vars
<1> QED BY <1>3, <1>4

LEMMA MainSeen ==
  ASSUME Inv, MainStep
  PROVE  [Lifetime!Next]_(Lifetime!vars)
<1>1. CASE \/ EpollWait \/ ListenerError \/ ShutdownRequested \/ AcceptFails \/ HandleEventFd
           \/ ExecuteSendRaw \/ TestPending \/ DrainAtShutdown
  <2>1. UNCHANGED <<life, closed, phase, owner>>
    BY <1>1 DEF EpollWait, ListenerError, ShutdownRequested, AcceptFails, HandleEventFd,
       ExecuteSendRaw, NextCommand, TestPending, DrainAtShutdown, objectVars, taskVars
  <2> QED BY <2>1, Unseen
<1>2. ASSUME NEW fd \in Fds, HandleRead(fd) PROVE [Lifetime!Next]_(Lifetime!vars)
  <2>1. mode # "exited" /\ OnRead(fd)
    BY <1>2 DEF HandleRead, HandleEvent
  <2>2. CASE UNCHANGED <<life, closed, phase, owner>>
    BY <2>2, Unseen
  <2>3. CASE ReadClosed(fd)
    BY <2>1, <2>3, ClosingSeen DEF ReadClosed, taskVars
  <2>4. ASSUME sessions[fd] # NoSession, sessions[fd] \notin closed,
               NEW n \in 0..(MaxTasks - submitted), NEW ended \in BOOLEAN,
               ReadPackets(fd, n, ended)
        PROVE  [Lifetime!Next]_(Lifetime!vars)
    BY <2>4, ReadSeen
  <2> QED BY <2>1, <2>2, <2>3, <2>4 DEF OnRead, taskVars
<1>3. ASSUME NEW fd \in Fds, HandleError(fd) PROVE [Lifetime!Next]_(Lifetime!vars)
  BY <1>3, ClosingSeen DEF HandleError, HandleEvent, taskVars
<1>4. CASE ExecuteClose
  <2>1. commands # <<>> /\ Head(commands).fd \in Fds /\ mode # "exited"
    BY <1>4, NextCommandType DEF ExecuteClose, NextCommand, Inv, TypeOK, QueueInv, ExitedIdle, Command
  <2>2. UNCHANGED <<phase, owner>>
    BY <1>4 DEF ExecuteClose, NextCommand
  <2>3. CASE UNCHANGED <<life, closed>>
    BY <2>2, <2>3, Unseen
  <2>4. CASE CloseOrDefer(Head(commands).fd, 0)
    BY <2>1, <2>2, <2>4, ClosingSeen
  <2> QED BY <1>4, <2>3, <2>4 DEF ExecuteClose
<1>5. ASSUME NEW fd \in Fds, HandleReadWrite(fd) \/ HandleWrite(fd) PROVE FALSE
  <2>1. ready # <<>> /\ Head(ready).ev \in {"out", "inout"}
    BY <1>5 DEF HandleReadWrite, HandleWrite, HandleEvent
  <2>2. Head(ready) = ready[1] /\ 1 \in 1..Len(ready)
    BY <2>1 DEF Inv, TypeOK
  <2> QED BY <2>1, <2>2 DEF Inv, NoWrites
<1> QED BY <1>1, <1>2, <1>3, <1>4, <1>5, AcceptSeen, ReportSeen, ExitSeen DEF MainStep

\* The manager keeps the promises of SessionLifetime, whatever the number of
\* connections, descriptor numbers, tasks and workers.
THEOREM ManagerRefinesLifetime ==
  ASSUME Environment
  PROVE  Spec => ImplementsSessionLifetime
<1>1. Init => Lifetime!Init
  BY DEF Init, Lifetime!Init, SessionState, WorkFor, Queued, Running, Handling
<1>2. Inv /\ [Next]_vars => Inv'
  BY NextInv
<1>3. Inv /\ [Next]_vars => [Lifetime!Next]_(Lifetime!vars)
  <2> SUFFICES ASSUME Inv, [Next]_vars PROVE [Lifetime!Next]_(Lifetime!vars)
    OBVIOUS
  <2>1. CASE UNCHANGED vars
    BY <2>1, Unseen DEF vars, objectVars, taskVars
  <2> QED BY <2>1, MainSeen, WorkerSeen DEF Next, Terminated
<1> QED BY <1>1, <1>2, <1>3, InitInv, PTL DEF Spec, ImplementsSessionLifetime, Lifetime!Spec
----------------------------------------------------------------------------
(* The registry, and whom a command reaches.                               *)

\* What main does to the tasks and to their locals: it starts some, reports one,
\* and touches no other.
LEMMA MainTasks ==
  ASSUME TypeOK, QueueInv, MainStep
  PROVE  /\ UNCHANGED <<userID, frame>>
         /\ \/ /\ commands' = commands
               /\ \A t \in Tasks : Active(t) => phase'[t] = phase[t] /\ owner'[t] = owner[t]
               /\ \A t \in Tasks : phase'[t] \in {phase[t], "queued"}
            \/ /\ commands # <<>> /\ commands' = Tail(commands)
               /\ Head(commands).type # "TaskDone"
               /\ UNCHANGED <<phase, owner>>
            \/ /\ commands # <<>> /\ commands' = Tail(commands)
               /\ Head(commands).type = "TaskDone"
               /\ phase' = [phase EXCEPT ![Head(commands).by] = "retired"]
               /\ UNCHANGED owner
<1>1. CASE \/ EpollWait \/ ListenerError \/ ShutdownRequested \/ AcceptFails \/ HandleEventFd
           \/ TestPending \/ DrainAtShutdown \/ Exit \/ \E s \in Sessions : Accept(s)
  <2>1. UNCHANGED <<userID, frame, commands, phase, owner>>
    BY <1>1 DEF EpollWait, ListenerError, ShutdownRequested, AcceptFails, HandleEventFd, HandleEvent,
                TestPending, DrainAtShutdown, Exit, Accept, objectVars, taskVars, queueVars
  <2> QED BY <2>1
<1>2. ASSUME NEW fd \in Fds, HandleWrite(fd) \/ HandleError(fd)
      PROVE  UNCHANGED <<userID, frame, commands, phase, owner>>
  BY <1>2 DEF HandleWrite, HandleError, HandleEvent, taskVars, queueVars
<1>3. ASSUME NEW fd \in Fds, HandleRead(fd) \/ HandleReadWrite(fd)
      PROVE  /\ UNCHANGED <<userID, frame, commands>>
             /\ \A t \in Tasks : Active(t) => phase'[t] = phase[t] /\ owner'[t] = owner[t]
             /\ \A t \in Tasks : phase'[t] \in {phase[t], "queued"}
  <2>1. OnRead(fd) /\ mode = "loop" /\ mode' = mode /\ UNCHANGED userID
    BY <1>3 DEF HandleRead, HandleReadWrite, HandleEvent
  <2>2. UNCHANGED queueVars
    BY <2>1 DEF OnRead
  <2>3. CASE UNCHANGED taskVars
    BY <2>1, <2>2, <2>3 DEF taskVars, queueVars
  <2>4. CASE ~UNCHANGED taskVars
    <3>1. PICK n \in 0..(MaxTasks - submitted), ended \in BOOLEAN : ReadPackets(fd, n, ended)
      BY <2>1, <2>4 DEF OnRead, ReadClosed
    <3>2. Submit(sessions[fd], n) /\ sessions[fd] # NoSession
      BY <2>1, <2>4, <3>1 DEF ReadPackets, OnRead
    <3>3. sessions[fd] \in Sessions
      BY <3>2 DEF TypeOK
    <3>4. \A t \in Tasks : Active(t) => phase'[t] = phase[t] /\ owner'[t] = owner[t]
      BY <2>1, <2>2, <3>2, <3>3, SubmitQueue
    <3> QED BY <2>1, <2>2, <3>2, <3>4 DEF Submit, queueVars
  <2> QED BY <2>3, <2>4
<1>4. CASE ExecuteSendRaw \/ ExecuteClose \/ ExecuteTaskDone
  <2>1. commands # <<>>
    BY <1>4 DEF ExecuteSendRaw, ExecuteClose, ExecuteTaskDone, NextCommand, TypeOK
  <2> QED BY <1>4, <2>1 DEF ExecuteSendRaw, ExecuteClose, ExecuteTaskDone, NextCommand
<1> QED BY <1>1, <1>2, <1>3, <1>4 DEF MainStep

\* What main does to the objects and the registry before the end: at most one
\* session is born, or deleted together with the entry of its own user.
LEMMA MainEntries ==
  ASSUME TypeOK, MainStep, ~Exit
  PROVE  \/ UNCHANGED <<life, byUserID>>
         \/ \E s \in Sessions : life' = [life EXCEPT ![s] = "live"] /\ UNCHANGED byUserID
         \/ \E s \in Sessions : /\ life' = [life EXCEPT ![s] = "deleted"]
                                /\ byUserID' = Unregistered(userID[s], s)
<1> DEFINE Deletes == \E s \in Sessions : /\ life' = [life EXCEPT ![s] = "deleted"]
                                          /\ byUserID' = Unregistered(userID[s], s)
<1>1. ASSUME NEW fd, CloseClient(fd), fd \in Fds
      PROVE  UNCHANGED <<life, byUserID>> \/ Deletes
  <2>1. sessions[fd] \in Sessions \cup {NoSession}
    BY <1>1 DEF TypeOK
  <2> QED BY <1>1, <2>1 DEF CloseClient, DeleteObject
<1>2. ASSUME NEW fd \in Fds, NEW n \in Nat, CloseOrDefer(fd, n)
      PROVE  UNCHANGED <<life, byUserID>> \/ Deletes
  BY <1>1, <1>2 DEF CloseOrDefer, Defer
<1>3. ASSUME NEW fd \in Fds, OnRead(fd) PROVE UNCHANGED <<life, byUserID>> \/ Deletes
  <2>1. CASE UNCHANGED <<life, byUserID>>
    BY <2>1
  <2>2. CASE \E n \in Nat : CloseOrDefer(fd, n)
    BY <1>2, <2>2
  <2> QED BY <1>3, <2>1, <2>2, BoundsAssumption DEF OnRead, ReadClosed, ReadPackets, TypeOK
<1>4. CASE \E fd \in Fds : HandleRead(fd) \/ HandleReadWrite(fd)
  BY <1>3, <1>4 DEF HandleRead, HandleReadWrite
<1>5. CASE \E fd \in Fds : HandleWrite(fd) \/ HandleError(fd)
  BY <1>1, <1>2, <1>5 DEF HandleWrite, HandleError, OnWrite
<1>6. CASE ExecuteClose \/ ExecuteTaskDone
  <2>1. commands # <<>> /\ Head(commands) \in Command
    BY <1>6, NextCommandType DEF ExecuteClose, ExecuteTaskDone, NextCommand, TypeOK
  <2>2. Head(commands).fd \in Fds
    BY <2>1 DEF Command
  <2> QED BY <1>1, <1>2, <1>6, <2>2 DEF ExecuteClose, ExecuteTaskDone, OnTaskDone
<1>7. CASE \/ EpollWait \/ ListenerError \/ ShutdownRequested \/ AcceptFails \/ HandleEventFd
           \/ TestPending \/ DrainAtShutdown \/ ExecuteSendRaw \/ \E s \in Sessions : Accept(s)
  BY <1>7 DEF EpollWait, ListenerError, ShutdownRequested, AcceptFails, HandleEventFd,
              TestPending, DrainAtShutdown, ExecuteSendRaw, Accept, objectVars
<1> QED BY <1>4, <1>5, <1>6, <1>7 DEF MainStep

\* A connection presents the credentials of one user only.
OneUserEach == \A s \in Sessions : \A u, v \in UsersOf[s] : u = v

\* The handler of an AuthRequest holds a user of its own session, and registers
\* the one it has set.
LoginsOwn ==
  \A t \in Tasks :
    /\ phase[t] \in {"auth", "register"} => frame[t].user \in UsersOf[owner[t]]
    /\ phase[t] = "register" => userID[owner[t]] = frame[t].user

EntriesOwned ==
  mode # "exited" =>
    \A u \in Users : LET s == byUserID[u] IN
      s # NoSession => life[s] = "live" /\ userID[s] = u /\ u \in UsersOf[s]

RegistryInv == Inv /\ LoginsOwn /\ EntriesOwned

LEMMA MainRegistry ==
  ASSUME RegistryInv, MainStep
  PROVE  LoginsOwn' /\ EntriesOwned'
<1> USE DEF RegistryInv
<1>1. TypeOK /\ QueueInv
  BY DEF Inv
<1>2. UNCHANGED <<userID, frame>>
  BY <1>1, MainTasks
<1>3. \A t \in Tasks : phase'[t] \in {"auth", "register"} =>
        phase'[t] = phase[t] /\ owner'[t] = owner[t]
  BY <1>1, MainTasks DEF Active, TypeOK
<1>4. LoginsOwn'
  BY <1>2, <1>3 DEF LoginsOwn
<1>5. EntriesOwned'
  <2> SUFFICES ASSUME mode' # "exited", NEW u \in Users, byUserID'[u] # NoSession
               PROVE  /\ life'[byUserID'[u]] = "live" /\ userID'[byUserID'[u]] = u
                      /\ u \in UsersOf[byUserID'[u]]
    BY DEF EntriesOwned
  <2>1. mode # "exited"
    <3>1. CASE mode = "loop"
      BY <3>1
    <3>2. CASE drained > 0
      BY <1>1, <3>2 DEF QueueInv, ExitedIdle
    <3>3. CASE ~(mode = "loop" \/ drained > 0)
      <4>1. TestPending \/ DrainAtShutdown
        BY <1>1, <3>3 DEF MainStep, EpollWait, BetweenBatches, ListenerError, ShutdownRequested,
              Accept, AcceptFails, HandleRead, HandleReadWrite, HandleWrite, HandleError,
              HandleEventFd, HandleEvent, ExecuteSendRaw, ExecuteClose, ExecuteTaskDone,
              NextCommand, Exit
      <4> QED BY <4>1 DEF TestPending, DrainAtShutdown
    <3> QED BY <3>1, <3>2, <3>3
  <2> DEFINE Owned(s) == life[s] = "live" /\ userID[s] = u /\ u \in UsersOf[s]
  <2>2. byUserID[u] # NoSession => byUserID[u] \in Sessions /\ Owned(byUserID[u])
    BY <1>1, <2>1 DEF EntriesOwned, TypeOK
  <2>e. ~Exit
    BY DEF Exit
  <2>3. byUserID'[u] = byUserID[u]
    BY <1>1, <2>e, MainEntries DEF Unregistered, TypeOK
  <2>4. life'[byUserID[u]] = "live"
    <3>1. ASSUME NEW s \in Sessions, byUserID' = Unregistered(userID[s], s)
          PROVE  byUserID[u] # s
      BY <1>1, <2>2, <2>3, <3>1, SessionsAssumption DEF Unregistered, TypeOK
    <3> QED BY <1>1, <2>e, <2>2, <2>3, <3>1, MainEntries DEF TypeOK
  <2> QED BY <1>2, <2>2, <2>3, <2>4
<1> QED BY <1>4, <1>5

LEMMA WorkerRegistry ==
  ASSUME RegistryInv, OneUserEach, NEW t \in Tasks, TaskStep(t)
  PROVE  LoginsOwn' /\ EntriesOwned'
<1> USE DEF RegistryInv
<1>1. TypeOK /\ UNCHANGED <<life, owner, mode>>
  BY WorkerFrame DEF Inv
<1>2. owner[t] \in Sessions /\ phase \in [Tasks -> Phases] /\ frame \in [Tasks -> Frame]
      /\ userID \in [Sessions -> Users \cup {NoUser}]
      /\ byUserID \in [Users -> Sessions \cup {NoSession}]
  BY <1>1 DEF TypeOK
<1>3. CASE Authenticate(t)
  <2>1. /\ userID' = [userID EXCEPT ![owner[t]] = frame[t].user]
        /\ phase[t] = "auth" /\ phase' = [phase EXCEPT ![t] = "register"]
        /\ UNCHANGED <<byUserID, frame>>
    BY <1>3 DEF Authenticate, Step, GoTo
  <2>2. frame[t].user \in UsersOf[owner[t]]
    BY <2>1 DEF LoginsOwn
  <2>3. LoginsOwn'
    BY <1>1, <1>2, <2>1, <2>2 DEF LoginsOwn, OneUserEach
  <2>4. EntriesOwned'
    BY <1>1, <1>2, <2>1, <2>2 DEF EntriesOwned, OneUserEach
  <2> QED BY <2>3, <2>4
<1>4. CASE RegisterUser(t)
  <2>1. /\ phase[t] = "register" /\ phase' = [phase EXCEPT ![t] = "reply"]
        /\ byUserID' = Registered(frame[t].user, owner[t])
        /\ UNCHANGED <<userID, frame>>
    BY <1>4 DEF RegisterUser, GoTo, objectVars
  <2>2. userID[owner[t]] = frame[t].user /\ frame[t].user \in UsersOf[owner[t]]
    BY <2>1 DEF LoginsOwn
  <2>3. LoginsOwn'
    BY <1>1, <1>2, <2>1 DEF LoginsOwn
  <2>4. mode # "exited" => life[owner[t]] = "live"
    <3>1. Active(t)
      BY <2>1 DEF Active
    <3>2. mode # "exited" => sessions[FdOf[owner[t]]] = owner[t]
      BY <3>1 DEF Inv, CountInv, OwnersMapped
    <3> QED BY <1>2, <3>2, FdsAssumption, SessionsAssumption DEF Inv, ObjectInv, MapsAgree
  <2>5. EntriesOwned'
    BY <1>1, <1>2, <2>1, <2>2, <2>4 DEF EntriesOwned, Registered
  <2> QED BY <2>3, <2>5
<1>5. CASE ~(Authenticate(t) \/ RegisterUser(t))
  <2>1. /\ UNCHANGED <<userID, byUserID>>
        /\ \A u \in Tasks \ {t} : phase'[u] = phase[u] /\ frame'[u] = frame[u]
        /\ phase'[t] # "register"
        /\ phase'[t] = "auth" => frame'[t].user \in UsersOf[owner[t]]
    <3>1. CASE CheckOpen(t)
      BY <1>2, <3>1 DEF CheckOpen, GoTo, SetFrame
    <3>2. CASE FindRecipient(t)
      BY <1>2, <3>2 DEF FindRecipient, GoTo, SetFrame, objectVars
    <3>3. CASE ReadSender(t)
      BY <1>2, <3>3 DEF ReadSender, GoTo, SetFrame
    <3>4. CASE \/ Take(t) \/ Reply(t) \/ RequestClose(t) \/ PushToRecipient(t) \/ LogRecipient(t)
               \/ EndBroadcast(t) \/ Finish(t)
      BY <1>2, <3>4 DEF Take, Reply, RequestClose, PushToRecipient, LogRecipient, EndBroadcast,
                        Finish, GoTo, objectVars
    <3>5. CASE OwnerDeleted(t) \/ PeerDeleted(t)
      <4>1. phase[t] # "register" /\ UNCHANGED <<userID, byUserID, phase, frame>>
        BY <3>5 DEF OwnerDeleted, PeerDeleted, objectVars, taskVars
      <4> QED BY <4>1 DEF LoginsOwn
    <3> QED BY <1>5, <3>1, <3>2, <3>3, <3>4, <3>5 DEF TaskStep
  <2>2. LoginsOwn'
    BY <1>1, <2>1 DEF LoginsOwn
  <2> QED BY <1>1, <2>1, <2>2 DEF EntriesOwned
<1> QED BY <1>3, <1>4, <1>5

\* Every pointer in SessionRegistry points to a live session, in the same
\* environment and if no connection logs in as a second user.
THEOREM RegistryPointsToLive ==
  ASSUME Environment, OneUserEach
  PROVE  Spec => []RegistryLive
<1>1. Init => RegistryInv
  <2>1. Init => LoginsOwn /\ EntriesOwned
    BY DEF Init, LoginsOwn, EntriesOwned
  <2> QED BY <2>1, InitInv DEF RegistryInv
<1>2. RegistryInv /\ [Next]_vars => RegistryInv'
  <2> SUFFICES ASSUME RegistryInv, [Next]_vars PROVE RegistryInv'
    OBVIOUS
  <2>1. Inv'
    BY NextInv DEF RegistryInv
  <2>2. CASE UNCHANGED vars
    BY <2>1, <2>2 DEF RegistryInv, LoginsOwn, EntriesOwned, vars, objectVars, taskVars, loopVars
  <2> QED BY <2>1, <2>2, MainRegistry, WorkerRegistry DEF RegistryInv, Next, Terminated
<1>3. RegistryInv => RegistryLive
  BY DEF RegistryInv, EntriesOwned, RegistryLive
<1> QED BY <1>1, <1>2, <1>3, PTL DEF Spec
----------------------------------------------------------------------------
(* Entries of other sessions                                               *)

\* In any environment, an entry of SessionRegistry is erased only together with the
\* session it points to: closing an older connection of a user leaves the entry of the
\* newer one alone, because unregisterUser compares the pointer.
THEOREM EntriesOutliveOthers == Spec => EntryOutlivesOthers
<1> DEFINE Kept == \A u \in Users : byUserID[u] # NoSession /\ byUserID'[u] = NoSession
                     => life'[byUserID[u]] = "deleted"
<1>1. ASSUME TypeOK, MainStep, ~Exit PROVE Kept
  <2>1. CASE \E s \in Sessions : /\ life' = [life EXCEPT ![s] = "deleted"]
                                 /\ byUserID' = Unregistered(userID[s], s)
    <3> SUFFICES ASSUME NEW u \in Users, byUserID[u] # NoSession, byUserID'[u] = NoSession
                 PROVE  life'[byUserID[u]] = "deleted"
      OBVIOUS
    <3>1. PICK s \in Sessions : /\ life' = [life EXCEPT ![s] = "deleted"]
                               /\ byUserID' = Unregistered(userID[s], s)
      BY <2>1
    <3>2. byUserID[u] = s
      BY <1>1, <3>1 DEF TypeOK, Unregistered
    <3> QED BY <1>1, <3>1, <3>2 DEF TypeOK
  <2>2. CASE UNCHANGED byUserID
    BY <2>2
  <2> QED BY <1>1, <2>1, <2>2, MainEntries
<1>2. ASSUME TypeOK, Exit PROVE Kept
  BY <1>2 DEF Exit, TypeOK
<1>3. ASSUME TypeOK, NEW t \in Tasks, TaskStep(t) PROVE Kept
  <2>1. CASE UNCHANGED byUserID
    BY <2>1
  <2>2. CASE RegisterUser(t)
    <3>1. owner[t] \in Sessions /\ NoSession \notin Sessions
      BY <1>3, SessionsAssumption DEF TypeOK
    <3> QED BY <1>3, <2>2, <3>1 DEF RegisterUser, Registered, TypeOK
  <2> QED BY <1>3, <2>1, <2>2
       DEF TaskStep, Take, CheckOpen, Authenticate, Reply, RequestClose, ReadSender,
           FindRecipient, PushToRecipient, LogRecipient, EndBroadcast, Finish, OwnerDeleted,
           PeerDeleted
<1>4. TypeOK /\ [Next]_vars => [Kept]_vars
  BY <1>1, <1>2, <1>3 DEF Next, Terminated
<1> QED BY <1>4, TypeCorrect, PTL DEF Spec, EntryOutlivesOthers
----------------------------------------------------------------------------
\* A command other than TaskDone was pushed by a task not yet reported, whose
\* TaskDone, if it is in the queue at all, comes after it.
CommandsOwned ==
  \A i \in 1..Len(commands) :
    commands[i].type # "TaskDone" =>
      /\ phase[commands[i].by] \notin {"none", "retired"}
      /\ commands[i].fd = FdOf[commands[i].to]
      /\ \A j \in 1..Len(commands) :
           commands[j].type = "TaskDone" /\ commands[j].by = commands[i].by => i < j

CommandInv == Inv /\ CommandsOwned

LEMMA CommandFacts ==
  ASSUME TypeOK, NEW i \in 1..Len(commands)
  PROVE  commands[i].by \in Tasks
<1>1. commands[i] \in Command
  BY DEF TypeOK
<1> QED BY <1>1 DEF Command

LEMMA MainCommands ==
  ASSUME CommandInv, MainStep
  PROVE  CommandsOwned'
<1> USE DEF CommandInv
<1>1. TypeOK /\ QueueInv
  BY DEF Inv
<1>2. CASE /\ commands' = commands
           /\ \A t \in Tasks : Active(t) => phase'[t] = phase[t] /\ owner'[t] = owner[t]
           /\ \A t \in Tasks : phase'[t] \in {phase[t], "queued"}
  BY <1>1, <1>2, CommandFacts DEF CommandsOwned, Active
<1>3. CASE commands # <<>> /\ commands' = Tail(commands)
           /\ Head(commands).type # "TaskDone" /\ UNCHANGED <<phase, owner>>
  <2>1. /\ Len(commands') = Len(commands) - 1
        /\ \A i \in 1..Len(commands') : commands'[i] = commands[i+1] /\ i+1 \in 1..Len(commands)
    BY <1>1, <1>3 DEF TypeOK
  <2> SUFFICES ASSUME NEW i \in 1..Len(commands'), commands'[i].type # "TaskDone"
               PROVE  /\ phase'[commands'[i].by] \notin {"none", "retired"}
                      /\ commands'[i].fd = FdOf[commands'[i].to]
                      /\ \A j \in 1..Len(commands') :
                           commands'[j].type = "TaskDone" /\ commands'[j].by = commands'[i].by
                             => i < j
    BY DEF CommandsOwned
  <2>2. i+1 \in 1..Len(commands) /\ commands'[i] = commands[i+1]
    BY <2>1
  <2>3. ASSUME NEW j \in 1..Len(commands'), commands'[j].type = "TaskDone",
               commands'[j].by = commands'[i].by
        PROVE  i < j
    BY <2>1, <2>2, <2>3 DEF CommandsOwned
  <2> QED BY <1>3, <2>2, <2>3 DEF CommandsOwned
<1>4. CASE commands # <<>> /\ commands' = Tail(commands) /\ Head(commands).type = "TaskDone"
           /\ phase' = [phase EXCEPT ![Head(commands).by] = "retired"] /\ UNCHANGED owner
  <2>1. /\ Len(commands') = Len(commands) - 1 /\ 1 \in 1..Len(commands)
        /\ Head(commands) = commands[1]
        /\ \A i \in 1..Len(commands') : commands'[i] = commands[i+1] /\ i+1 \in 1..Len(commands)
    BY <1>1, <1>4 DEF TypeOK
  <2>2. phase \in [Tasks -> Phases] /\ commands[1].by \in Tasks
    BY <1>1, <2>1, CommandFacts DEF TypeOK
  <2> SUFFICES ASSUME NEW i \in 1..Len(commands'), commands'[i].type # "TaskDone"
               PROVE  /\ phase'[commands'[i].by] \notin {"none", "retired"}
                      /\ commands'[i].fd = FdOf[commands'[i].to]
                      /\ \A j \in 1..Len(commands') :
                           commands'[j].type = "TaskDone" /\ commands'[j].by = commands'[i].by
                             => i < j
    BY DEF CommandsOwned
  <2>3. i+1 \in 1..Len(commands) /\ commands'[i] = commands[i+1] /\ commands[i+1].by \in Tasks
    BY <1>1, <2>1, CommandFacts
  <2>4. commands[i+1].by # commands[1].by
    BY <1>4, <2>1, <2>3 DEF CommandsOwned
  <2>5. ASSUME NEW j \in 1..Len(commands'), commands'[j].type = "TaskDone",
               commands'[j].by = commands'[i].by
        PROVE  i < j
    <3>1. j+1 \in 1..Len(commands) /\ commands'[j] = commands[j+1]
      BY <2>1
    <3>2. i+1 < j+1
      BY <2>3, <2>5, <3>1 DEF CommandsOwned
    <3> QED BY <3>2
  <2> QED BY <1>4, <2>1, <2>2, <2>3, <2>4, <2>5 DEF CommandsOwned
<1> QED BY <1>1, <1>2, <1>3, <1>4, MainTasks

LEMMA WorkerCommands ==
  ASSUME CommandInv, NEW t \in Tasks, TaskStep(t)
  PROVE  CommandsOwned'
<1> USE DEF CommandInv
<1>1. TypeOK /\ DoneCommands /\ owner' = owner /\ Active(t)
  BY WorkerFrame DEF Inv, QueueInv, Active
<1>2. Len(commands) \in Nat /\ commands \in Seq(Command)
  BY <1>1 DEF TypeOK
<1>3. \A u \in Tasks : Active(u) => Active(u)'
  BY <1>1, WorkerQueue DEF Inv
<1>4. CASE UNCHANGED commands
  BY <1>1, <1>3, <1>4, CommandFacts DEF CommandsOwned, Active
<1>5. CASE \E type, s : Push(type, s, t)
  <2>1. PICK c : commands' = Append(commands, c) /\ c.by = t /\ c.fd = FdOf[c.to]
    BY <1>5 DEF Push
  <2>2. /\ Len(commands') = Len(commands) + 1
        /\ \A i \in 1..Len(commands) : commands'[i] = commands[i]
        /\ commands'[Len(commands) + 1] = c
    BY <1>2, <2>1
  <2>3. ASSUME NEW i \in 1..Len(commands'), commands'[i].type # "TaskDone"
        PROVE  /\ phase'[commands'[i].by] \notin {"none", "retired"}
               /\ commands'[i].fd = FdOf[commands'[i].to]
               /\ \A j \in 1..Len(commands') :
                    commands'[j].type = "TaskDone" /\ commands'[j].by = commands'[i].by => i < j
    <3>1. CASE i \in 1..Len(commands)
      <4>1. commands'[i] = commands[i] /\ commands[i].by \in Tasks
        BY <1>1, <2>2, <3>1, CommandFacts
      <4>2. ASSUME NEW j \in 1..Len(commands'), commands'[j].type = "TaskDone",
                   commands'[j].by = commands'[i].by
            PROVE  i < j
        BY <1>2, <2>2, <2>3, <3>1, <4>1, <4>2 DEF CommandsOwned
      <4> QED BY <1>3, <2>3, <3>1, <4>1, <4>2 DEF CommandsOwned, Active
    <3>2. CASE i = Len(commands) + 1
      <4>1. commands'[i] = c
        BY <2>2, <3>2
      <4>2. \A j \in 1..Len(commands) : commands[j].type = "TaskDone" => commands[j].by # t
        BY WorkerFrame, <1>1 DEF DoneCommands
      <4>3. ASSUME NEW j \in 1..Len(commands'), commands'[j].type = "TaskDone",
                   commands'[j].by = commands'[i].by
            PROVE  i < j
        BY <1>2, <2>1, <2>2, <2>3, <3>2, <4>1, <4>2, <4>3
      <4> QED BY <1>1, <1>3, <2>1, <4>1, <4>3 DEF Active
    <3> QED BY <1>2, <2>2, <3>1, <3>2
  <2> QED BY <2>3 DEF CommandsOwned
<1> QED BY <1>1, <1>4, <1>5, WorkerFrame

\* Whatever the clients send, messages for other users included: a command that a
\* task pushed for the session it captured is executed on that session, which is
\* still mapped, if numbers are not reused under mapped sessions and no peer is
\* slow.  Of the commands for the recipients of a message nothing is claimed.
THEOREM OwnCommandsArrive ==
  ASSUME Environment
  PROVE  Spec => []OwnCommandsFindTheirSession
<1>1. Init => CommandInv
  <2>1. Init => CommandsOwned
    BY DEF Init, CommandsOwned
  <2> QED BY <2>1, InitInv DEF CommandInv
<1>2. CommandInv /\ [Next]_vars => CommandInv'
  <2> SUFFICES ASSUME CommandInv, [Next]_vars PROVE CommandInv'
    OBVIOUS
  <2>1. Inv'
    BY NextInv DEF CommandInv
  <2>2. CASE UNCHANGED vars
    <3>1. UNCHANGED <<commands, phase, owner>>
      BY <2>2 DEF vars, taskVars, queueVars
    <3> QED BY <2>1, <3>1 DEF CommandInv, CommandsOwned
  <2> QED BY <2>1, <2>2, MainCommands, WorkerCommands DEF CommandInv, Next, Terminated
<1>3. CommandInv => OwnCommandsFindTheirSession
  <2> SUFFICES ASSUME CommandInv, drained > 0, Head(commands).to = owner[Head(commands).by]
               PROVE  sessions[Head(commands).fd] = Head(commands).to
    BY DEF OwnCommandsFindTheirSession
  <2>1. Head(commands) = commands[1] /\ 1 \in 1..Len(commands) /\ mode # "exited"
    BY DEF CommandInv, Inv, TypeOK, QueueInv, ExitedIdle
  <2>2. commands[1].by \in Tasks
    BY <2>1, CommandFacts DEF CommandInv, Inv
  <2>3. Active(commands[1].by) /\ commands[1].fd = FdOf[owner[commands[1].by]]
    <3>1. CASE commands[1].type = "TaskDone"
      BY <2>1, <3>1 DEF CommandInv, Inv, QueueInv, DoneCommands, Active
    <3>2. CASE commands[1].type # "TaskDone"
      BY <2>1, <3>2 DEF CommandInv, CommandsOwned, Active
    <3> QED BY <3>1, <3>2
  <2> QED BY <2>1, <2>2, <2>3 DEF CommandInv, Inv, CountInv, OwnersMapped
<1> QED BY <1>1, <1>2, <1>3, PTL DEF Spec
============================================================================
