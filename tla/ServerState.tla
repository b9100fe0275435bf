---------------------------- MODULE ServerState ----------------------------
(***************************************************************************)
(* The memory shared by the server's threads: the maps of SessionManager,  *)
(* the ClientSession objects, the SessionRegistry, the tasks given to the  *)
(* ThreadPool, the ResultQueue and the event loop of EventPoller.  The     *)
(* handlers of the main thread are in MainThread, the steps of the workers *)
(* in WorkerThreads; Server puts the two together.                         *)
(***************************************************************************)
EXTENDS Integers, Sequences, FiniteSets

CONSTANTS
  Sessions,    \* the ClientSession objects, one per accepted connection
  NoSession,   \* nullptr
  Fds,         \* descriptor numbers of client sockets
  Listener,    \* the listening socket
  EventFd,     \* the eventfd of ResultQueue
  FdOf,        \* the number accept() returns for each connection
  EagerReuse,  \* TRUE: accept() returns any number that is not open (POSIX).
               \* FALSE: only numbers under which no session is still mapped
  Users,       \* positive userIDs
  NoUser,      \* userID -1
  UsersOf,     \* for each session, the results of getUserID in its AuthRequests
  SlowPeers,   \* sessions whose send() may fail with EAGAIN
  Kinds,       \* the kinds of packets the clients send
  MaxTasks,    \* bound: packets read in a behaviour
  NumWorkers,  \* threads of the pool
  MaxEvents    \* events returned by one epoll_wait

PacketKinds == {"request", "auth", "message", "disconnect", "ignored"}

ASSUME SessionsAssumption == NoSession \notin Sessions /\ Sessions # {}
ASSUME FdsAssumption ==
  /\ Listener \notin Fds /\ EventFd \notin Fds /\ Listener # EventFd
  /\ FdOf \in [Sessions -> Fds]
ASSUME UsersAssumption ==
  /\ NoUser \notin Users
  /\ UsersOf \in [Sessions -> SUBSET (Users \cup {NoUser})]
ASSUME EnvironmentAssumption ==
  EagerReuse \in BOOLEAN /\ SlowPeers \subseteq Sessions /\ Kinds \subseteq PacketKinds
ASSUME BoundsAssumption ==
  MaxTasks \in Nat /\ NumWorkers \in Nat \ {0} /\ MaxEvents \in Nat \ {0}

VARIABLES
  sessions,       \* SessionManager::sessions_; NoSession where the map has no entry
  inFlight,       \* SessionManager::inFlight_; -1 where the map has no entry
  pendingDelete,  \* SessionManager::pendingDelete_
  life,           \* each ClientSession object: unborn, live or deleted
  closed,         \* sessions whose closed_ is set
  userID,         \* ClientSession::userID_
  wantWrite,      \* sessions registered with EPOLLOUT
  byUserID,       \* SessionRegistry::byUserID_
  submitted,      \* number of tasks submitted so far; they are numbered in that order
  phase,          \* where each task is
  owner,          \* the session pointer captured by the task
  frame,          \* locals of the task's handler: user, rcpts, peer
  commands,       \* commands not yet executed, oldest first
  drained,        \* how many of them main holds; the others are in ResultQueue::queue_
  ready,          \* events of the current batch still to be handled
  mode,           \* where main() is: loop, test, drain or exited
  fault           \* "none", or whose deleted session was dereferenced

managerVars == <<sessions, inFlight, pendingDelete>>
objectVars  == <<life, closed, userID, wantWrite>>
taskVars    == <<submitted, phase, owner, frame>>
queueVars   == <<commands, drained>>
loopVars    == <<ready, mode>>
vars == <<managerVars, objectVars, byUserID, taskVars, queueVars, loopVars, fault>>
----------------------------------------------------------------------------
Tasks == 1..MaxTasks

\* Phases in which a worker runs the handler of a task.
Handling == {"check", "auth", "register", "reply", "message", "find", "push",
             "log", "disconnect"}
Phases == {"none", "queued", "done", "returned", "retired"} \cup Handling

\* Tasks a worker holds: taken from the queue, TaskDone not yet pushed.
Running == {t \in Tasks : phase[t] \in Handling \cup {"done"}}
Queued  == {t \in Tasks : phase[t] = "queued"}

\* ThreadPool::hasPendingTasks.  One mutated form forgets the deque, the other
\* never forgets a task.
OnlyRunning == Running # {}
EverSubmitted == submitted > 0
HasPendingTasks == Queued # {} \/ Running # {}

\* Tasks submitted under number fd whose TaskDone main has not executed.
Outstanding(fd) ==
  {t \in Tasks : phase[t] \notin {"none", "retired"} /\ FdOf[owner[t]] = fd}

\* A connection whose socket is open; its number cannot be returned by accept().
Open(s) == life[s] = "live" /\ s \notin closed

Command == [type : {"SendRaw", "Close", "TaskDone"},
            fd   : Fds,
            to   : Sessions,   \* the session whose method pushed the command
            by   : Tasks]      \* the task that pushed it

Event == [fd : Fds \cup {Listener, EventFd}, ev : {"in", "out", "inout", "err"}]

Frame == [user : Users \cup {NoUser}, rcpts : SUBSET Users,
          peer : Sessions \cup {NoSession}]

\* The program has not dereferenced a deleted session, and does not in this step.
Sane == fault = "none" /\ UNCHANGED fault

\* ResultQueue::push; the window between the append and the write to the
\* eventfd is in module ResultQueue.
Push(type, s, t) ==
  commands' = Append(commands, [type |-> type, fd |-> FdOf[s], to |-> s, by |-> t])

\* SessionRegistry::registerUser ignores userIDs that are not positive.
Registered(u, s) ==
  IF u \in Users THEN [byUserID EXCEPT ![u] = s] ELSE byUserID

\* SessionRegistry::unregisterUser.  Its mutated forms erase the entry without
\* comparing the pointer, and do not erase it.
UnregisteredNever(u, s) == byUserID
UnregisteredByKey(u, s) ==
  IF u \in Users THEN [byUserID EXCEPT ![u] = NoSession] ELSE byUserID
Unregistered(u, s) ==
  IF u \in Users /\ byUserID[u] = s
    THEN [byUserID EXCEPT ![u] = NoSession] ELSE byUserID

Init ==
  /\ sessions = [fd \in Fds |-> NoSession]
  /\ inFlight = [fd \in Fds |-> -1]
  /\ pendingDelete = {}
  /\ life = [s \in Sessions |-> "unborn"]
  /\ closed = {}
  /\ userID = [s \in Sessions |-> NoUser]
  /\ wantWrite = {}
  /\ byUserID = [u \in Users |-> NoSession]
  /\ submitted = 0
  /\ phase = [t \in Tasks |-> "none"]
  /\ owner = [t \in Tasks |-> CHOOSE s \in Sessions : TRUE]  \* read only once submitted
  /\ frame = [t \in Tasks |-> [user |-> NoUser, rcpts |-> {}, peer |-> NoSession]]
  /\ commands = <<>>
  /\ drained = 0
  /\ ready = <<>>
  /\ mode = "loop"
  /\ fault = "none"

TypeOK ==
  /\ sessions \in [Fds -> Sessions \cup {NoSession}]
  /\ inFlight \in [Fds -> Nat \cup {-1}]
  /\ pendingDelete \subseteq Fds
  /\ life \in [Sessions -> {"unborn", "live", "deleted"}]
  /\ closed \subseteq Sessions
  /\ userID \in [Sessions -> Users \cup {NoUser}]
  /\ wantWrite \subseteq Sessions
  /\ byUserID \in [Users -> Sessions \cup {NoSession}]
  /\ submitted \in 0..MaxTasks
  /\ phase \in [Tasks -> Phases]
  /\ owner \in [Tasks -> Sessions]
  /\ frame \in [Tasks -> Frame]
  /\ commands \in Seq(Command)
  /\ drained \in 0..Len(commands)
  /\ ready \in Seq(Event)
  /\ mode \in {"loop", "test", "drain", "exited"}
  /\ fault \in {"none", "task", "peer"}
============================================================================
