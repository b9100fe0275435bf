------------------------------- MODULE Server -------------------------------
(***************************************************************************)
(* The server: its main thread and its workers, interleaved.               *)
(***************************************************************************)
EXTENDS MainThread, WorkerThreads

\* The process has ended, or what it does is undefined.
Terminated == (mode = "exited" \/ fault # "none") /\ UNCHANGED vars

Next == MainStep \/ (\E t \in Tasks : TaskStep(t)) \/ Terminated

Spec == Init /\ [][Next]_vars

\* The operating system runs every thread: a worker that holds a task, and main
\* once it has left the event loop and polls without blocking.
Fairness ==
  /\ \A t \in Tasks : WF_vars(TaskStep(t))
  /\ WF_vars(ShutdownStep)
FairSpec == Spec /\ Fairness
----------------------------------------------------------------------------
(* What holds whatever the kernel's choice of numbers and however slow the *)
(* peers.                                                                  *)

\* The maps of SessionManager agree with the objects they name: sessions_ maps a
\* number to a live session accepted under that number, sessions_ and inFlight_
\* have the same keys, and an open connection can be reached through its own
\* number (a later connection never hides a connection that is still open).
MapsAgree ==
  /\ \A fd \in Fds : sessions[fd] # NoSession =>
       life[sessions[fd]] = "live" /\ FdOf[sessions[fd]] = fd
  /\ mode # "exited" => \A fd \in Fds : (sessions[fd] = NoSession) = (inFlight[fd] = -1)
  /\ \A s \in Sessions : Open(s) => sessions[FdOf[s]] = s

\* The counter never runs ahead of the work: inFlight_[fd] is at most the number
\* of tasks submitted under fd and not yet reported, so a deferred deletion never
\* waits for a TaskDone that nobody will push.
CounterBounded == \A fd \in Fds : inFlight[fd] <= Cardinality(Outstanding(fd))

\* main() destroys the sessions, the registry and the queue only after the last
\* task has ended: no worker runs, and no task waits, when the destructors run.
TeardownQuiet == mode = "exited" => ~HasPendingTasks

\* A user's entry disappears from SessionRegistry only together with the session
\* it points to: closing an older connection of the same user does not make the
\* newer one unreachable.
EntryOutlivesOthers ==
  [][\A u \in Users : byUserID[u] # NoSession /\ byUserID'[u] = NoSession
       => life'[byUserID[u]] = "deleted"]_vars

\* Once main() has left the event loop it ends, unless a dangling pointer was
\* used: the loop on hasPendingTasks cannot spin for ever.
ShutdownTerminates == mode = "test" ~> (mode = "exited" \/ fault # "none")
\* Main and the workers use the command queue as CommandQueue promises it and no
\* other way; ResultQueue implements that promise.
SharedQueue == INSTANCE CommandQueue
UsesCommandQueue == SharedQueue!Spec
----------------------------------------------------------------------------
(* What the deferred deletion of SessionManager is for.  These hold when   *)
(* no number is reused under a mapped session and no peer is slow; the     *)
(* README says what breaks each of them otherwise.                         *)

\* The session captured by a task that is queued or running has not been deleted
\* (Task.h: while the in-flight counter is above zero the session is not deleted).
TaskSessionAlive ==
  mode # "exited" => \A t \in Queued \cup Running : life[owner[t]] = "live"

\* inFlight_[fd] counts exactly the tasks submitted for the session mapped under
\* fd whose TaskDone has not been executed, across onRead, Close, errors and
\* TaskDone in any order.
CounterExact ==
  mode # "exited" =>
    \A fd \in Fds : sessions[fd] # NoSession =>
      /\ inFlight[fd] = Cardinality(Outstanding(fd))
      /\ \A t \in Outstanding(fd) : owner[t] = sessions[fd]

\* A session is closed and still in the map exactly while its deletion is
\* deferred, and then a task is in flight whose TaskDone will delete it: no
\* deletion is forgotten and none is left in pendingDelete_ for a later client.
DeferredHasWork ==
  mode # "exited" =>
    \A fd \in Fds :
      /\ fd \in pendingDelete <=> sessions[fd] \in closed
      /\ fd \in pendingDelete => inFlight[fd] > 0

\* No ClientSession object is lost: until main() ends, every live one is in the
\* map, and after it none is left.
NoLeak ==
  \A s \in Sessions : life[s] = "live" => mode # "exited" /\ sessions[FdOf[s]] = s

\* Every pointer in SessionRegistry points to a live session.  Needs also that
\* a connection presents the credentials of one user only.
RegistryLive ==
  mode # "exited" =>
    \A u \in Users : byUserID[u] # NoSession => life[byUserID[u]] = "live"

\* What a task pushes for the session it captured (the reply, Close, TaskDone) is
\* executed on that very session, although the command carries only its number,
\* and although the client may have left, and another may have come, since.
\* Nothing is claimed of the commands that a message pushes for its recipients:
\* no task of theirs keeps them mapped, and such a command may find no session or
\* that of another client (main.cpp:93).
OwnCommandsFindTheirSession ==
  drained > 0 /\ Head(commands).to = owner[Head(commands).by] =>
    sessions[Head(commands).fd] = Head(commands).to

\* The life a session has for SessionLifetime, which knows of no number, no map and
\* no counter.
SessionState(s) ==
  IF life[s] = "live" THEN IF s \in closed THEN "closing" ELSE "open" ELSE life[s]
WorkFor(s) == {t \in Tasks : phase[t] \notin {"none", "retired"} /\ owner[t] = s}

Lifetime == INSTANCE SessionLifetime WITH
  state <- [s \in Sessions |-> SessionState(s)],
  work <- [s \in Sessions |-> WorkFor(s)],
  using <- Queued \cup Running

\* The maps and the counter of SessionManager, kept by number, carry out the
\* deferred deletion of SessionLifetime: whatever the order of onRead, onError,
\* Close and TaskDone, and with a number handed out again as soon as the entry of
\* its old session is erased (not already after close(), as the kernel may), a
\* closed session lives exactly until its last task has been reported.
ImplementsSessionLifetime == Lifetime!Spec
----------------------------------------------------------------------------
(* What the comments promise and the code does not keep.                   *)

\* No worker dereferences a deleted session of its own task.
NoTaskFault == fault # "task"

\* sendRaw on a session found in the registry is safe from any thread.
NoPeerFault == fault # "peer"
============================================================================
