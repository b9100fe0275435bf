----------------------------- MODULE ThreadPool -----------------------------
(***************************************************************************)
(* ThreadPool: a deque of tasks under a mutex, a condition variable for    *)
(* new tasks and one for idleness.  A step is one critical section, or one *)
(* call made outside of them (notify, the task itself, join).  A wait on a *)
(* condition variable evaluates its predicate and goes to sleep in one     *)
(* step, since both happen under the mutex; a sleeper may also wake up     *)
(* spuriously.  The caller is the main thread, the only one that submits,  *)
(* waits for idleness and stops.                                           *)
(***************************************************************************)
EXTENDS Naturals, Sequences, FiniteSets

CONSTANTS
  Workers,   \* threads of the pool
  MaxTasks   \* bound: tasks submitted in a behaviour

ASSUME WorkersAssumption == Workers # {} /\ IsFiniteSet(Workers)
ASSUME MaxTasksAssumption == MaxTasks \in Nat

VARIABLES
  tasks,      \* ThreadPool::tasks_
  inFlight,   \* ThreadPool::inFlight_
  stopping,   \* ThreadPool::stopping_
  worker,     \* each worker: test, asleep, run, decrement or exited
  holds,      \* the task each worker took last, 0 before the first
  caller,     \* main: free, notify, waitIdle, asleep, idle, notifyAll, join, stopped
  submitted,  \* number of tasks accepted so far
  finished    \* history: tasks that ended

vars == <<tasks, inFlight, stopping, worker, holds, caller, submitted, finished>>

Tasks == 1..MaxTasks

Init ==
  /\ tasks = <<>> /\ inFlight = 0 /\ stopping = FALSE
  /\ worker = [w \in Workers |-> "test"]
  /\ holds = [w \in Workers |-> 0]
  /\ caller = "free"
  /\ submitted = 0 /\ finished = {}

\* cvNewTask_.notify_one and notify_all; notify_one forgotten.
WakeNone == UNCHANGED worker
WakeOne ==
  IF \E w \in Workers : worker[w] = "asleep"
    THEN \E w \in Workers : worker[w] = "asleep" /\ worker' = [worker EXCEPT ![w] = "test"]
    ELSE UNCHANGED worker
WakeAll ==
  worker' = [w \in Workers |-> IF worker[w] = "asleep" THEN "test" ELSE worker[w]]
----------------------------------------------------------------------------
(* workerLoop                                                              *)

\* Leave the loop when stopping and no task is left; mutated: when stopping.
LeavesEarly == stopping
Leaves == stopping /\ tasks = <<>>

\* Pop the first task and count it; mutated: pop without counting.
PopUncounted(w) ==
  /\ tasks # <<>>
  /\ holds' = [holds EXCEPT ![w] = Head(tasks)]
  /\ tasks' = Tail(tasks) /\ UNCHANGED inFlight
Pop(w) ==
  /\ tasks # <<>>
  /\ holds' = [holds EXCEPT ![w] = Head(tasks)]
  /\ tasks' = Tail(tasks) /\ inFlight' = inFlight + 1

\* The predicate of cvNewTask_.wait, then exit or pop.
Test(w) ==
  /\ worker[w] = "test"
  /\ \/ /\ tasks = <<>> /\ ~stopping
        /\ worker' = [worker EXCEPT ![w] = "asleep"]
        /\ UNCHANGED <<tasks, inFlight, holds>>
     \/ /\ Leaves
        /\ worker' = [worker EXCEPT ![w] = "exited"]
        /\ UNCHANGED <<tasks, inFlight, holds>>
     \/ /\ ~Leaves /\ Pop(w)
        /\ worker' = [worker EXCEPT ![w] = "run"]
  /\ UNCHANGED <<stopping, caller, submitted, finished>>

SpuriousWakeup(w) ==
  /\ worker[w] = "asleep"
  /\ worker' = [worker EXCEPT ![w] = "test"]
  /\ UNCHANGED <<tasks, inFlight, stopping, holds, caller, submitted, finished>>

\* The task returns, or throws and the exception is swallowed.
Run(w) ==
  /\ worker[w] = "run"
  /\ worker' = [worker EXCEPT ![w] = "decrement"]
  /\ finished' = finished \cup {holds[w]}
  /\ UNCHANGED <<tasks, inFlight, stopping, holds, caller, submitted>>

\* --inFlight_, and cvIdle_.notify_all when the pool became idle.  The mutated
\* forms notify nobody, and forget the decrement.
WakeCallerNever == UNCHANGED caller
WakeCallerIfIdle == caller' = IF caller = "asleep" /\ tasks = <<>> /\ inFlight = 1
                                THEN "waitIdle" ELSE caller
DecrementForgotten(w) ==
  /\ worker[w] = "decrement"
  /\ WakeCallerIfIdle
  /\ worker' = [worker EXCEPT ![w] = "test"]
  /\ UNCHANGED <<tasks, inFlight, stopping, holds, submitted, finished>>
Decrement(w) ==
  /\ worker[w] = "decrement"
  /\ inFlight' = inFlight - 1
  /\ WakeCallerIfIdle
  /\ worker' = [worker EXCEPT ![w] = "test"]
  /\ UNCHANGED <<tasks, stopping, holds, submitted, finished>>

WorkerStep(w) == Test(w) \/ Run(w) \/ Decrement(w)
----------------------------------------------------------------------------
(* The caller                                                              *)

\* submit, under the lock; notify_one follows after the lock is released.  Once
\* stopping, submit and stop return without effect.
Submit ==
  /\ caller = "free" /\ ~stopping /\ submitted < MaxTasks
  /\ tasks' = Append(tasks, submitted + 1) /\ submitted' = submitted + 1
  /\ caller' = "notify"
  /\ UNCHANGED <<inFlight, stopping, worker, holds, finished>>

NotifyOne ==
  /\ caller = "notify"
  /\ WakeOne
  /\ caller' = "free"
  /\ UNCHANGED <<tasks, inFlight, stopping, holds, submitted, finished>>

HasQueuedTasks == tasks # <<>>   \* mutated: tasks being run do not count
HasPendingTasks == tasks # <<>> \/ inFlight > 0

\* waitIdle: the call, its wait on cvIdle_ and its return.
WaitIdle ==
  /\ caller \in {"free", "waitIdle"}
  /\ caller' = IF HasPendingTasks THEN "asleep" ELSE "idle"
  /\ UNCHANGED <<tasks, inFlight, stopping, worker, holds, submitted, finished>>

CallerWakesSpuriously ==
  /\ caller = "asleep" /\ caller' = "waitIdle"
  /\ UNCHANGED <<tasks, inFlight, stopping, worker, holds, submitted, finished>>

IdleReturns ==
  /\ caller = "idle" /\ caller' = "free"
  /\ UNCHANGED <<tasks, inFlight, stopping, worker, holds, submitted, finished>>

\* stop: set stopping_ under the lock, notify_all, join every worker.
BeginStop ==
  /\ caller = "free" /\ ~stopping
  /\ stopping' = TRUE /\ caller' = "notifyAll"
  /\ UNCHANGED <<tasks, inFlight, worker, holds, submitted, finished>>

NotifyAll ==
  /\ caller = "notifyAll"
  /\ WakeAll
  /\ caller' = "join"
  /\ UNCHANGED <<tasks, inFlight, stopping, holds, submitted, finished>>

Join ==
  /\ caller = "join" /\ \A w \in Workers : worker[w] = "exited"
  /\ caller' = "stopped"
  /\ UNCHANGED <<tasks, inFlight, stopping, worker, holds, submitted, finished>>

Stopped == caller = "stopped" /\ UNCHANGED vars

CallerStep == NotifyOne \/ WaitIdle \/ IdleReturns \/ NotifyAll \/ Join

Next ==
  \/ \E w \in Workers : WorkerStep(w) \/ SpuriousWakeup(w)
  \/ Submit \/ CallerStep \/ CallerWakesSpuriously \/ BeginStop \/ Stopped

Spec == Init /\ [][Next]_vars

\* Every worker is scheduled and main finishes the call it has begun; nothing
\* wakes a sleeper but a notification.
FairSpec ==
  /\ Spec
  /\ \A w \in Workers : WF_vars(WorkerStep(w))
  /\ WF_vars(NotifyOne) /\ WF_vars(NotifyAll) /\ WF_vars(Join)
  /\ WF_vars(caller = "waitIdle" /\ WaitIdle)
----------------------------------------------------------------------------
Busy == {w \in Workers : worker[w] \in {"run", "decrement"}}

TypeOK ==
  /\ tasks \in Seq(Tasks)
  /\ inFlight \in Nat
  /\ stopping \in BOOLEAN
  /\ worker \in [Workers -> {"test", "asleep", "run", "decrement", "exited"}]
  /\ holds \in [Workers -> 0..MaxTasks]
  /\ caller \in {"free", "notify", "waitIdle", "asleep", "idle", "notifyAll", "join", "stopped"}
  /\ submitted \in 0..MaxTasks
  /\ finished \subseteq Tasks

\* inFlight_, which hasPendingTasks and waitIdle trust, is the number of workers
\* between the pop of a task and the section that follows it.
InFlightExact == inFlight = Cardinality(Busy)

\* A return of waitIdle and of stop means what main() relies on before it destroys
\* what the tasks use: every task submitted so far has ended.
AllEndedOnReturn == caller \in {"idle", "stopped"} => finished = 1..submitted

\* No wakeup is missed.  A worker sleeps only while every task of the deque has another
\* worker on its way to it, or submit is about to notify: one notify_one for a task is
\* enough, whatever the workers do between the unlock and the call.  None sleeps once
\* stop has notified, and the caller of waitIdle sleeps only while a worker, or a task
\* that will get one, is there to wake it.
OnTheirWay == Cardinality({w \in Workers : worker[w] = "test"})
NoWakeupLost ==
  /\ (\E w \in Workers : worker[w] = "asleep") =>
       \/ Len(tasks) <= OnTheirWay
       \/ caller = "notify" /\ Len(tasks) = OnTheirWay + 1
  /\ caller \in {"join", "stopped"} => \A w \in Workers : worker[w] # "asleep"
  /\ caller = "asleep" => HasPendingTasks

\* The pool in one glance: which tasks wait, which are held by a worker, which have
\* ended, in the order of submission (see TaskPool).
HeldTasks == {holds[w] : w \in {v \in Workers : worker[v] = "run"}}
Pool == INSTANCE TaskPool WITH
          NumWorkers <- Cardinality(Workers),
          queued <- tasks, running <- HeldTasks, finished <- finished,
          stopped <- (caller = "stopped")
ImplementsTaskPool == Pool!Spec

\* No notification is missed: a submitted task is run even if every worker was
\* asleep, about to sleep, or busy when submit called notify_one.
EveryTaskRuns == \A t \in Tasks : submitted >= t ~> t \in finished

\* stop() returns: every worker leaves its loop, the sleeping ones included.
StopReturns == stopping ~> caller = "stopped"

\* waitIdle() returns: the last worker to become idle wakes the caller.
WaitIdleReturns == caller \in {"waitIdle", "asleep"} ~> caller = "idle"
============================================================================
