----------------------------- MODULE PoolSafety -----------------------------
(***************************************************************************)
(* Theorems about ThreadPool, for any number of workers and tasks: its     *)
(* counter is exact, its calls return when what they wait for is over, no  *)
(* wakeup is missed, and it implements TaskPool.                           *)
(***************************************************************************)
EXTENDS ThreadPool, FiniteSetTheorems, SequenceTheorems, TLAPS

Running == {w \in Workers : worker[w] = "run"}

\* The tasks 1 to Taken have left the deque.
Taken == submitted - Len(tasks)

\* The deque holds the tasks submitted last, in the order of submission.
QueueInOrder ==
  /\ Len(tasks) <= submitted
  /\ \A i \in 1..Len(tasks) : tasks[i] = Taken + i

\* A task that has left the deque is held by one worker or has ended.
TakenOnce ==
  /\ \A w, v \in Running : holds[w] = holds[v] => w = v
  /\ HeldTasks \cap finished = {}
  /\ HeldTasks \cup finished = 1..Taken

\* A worker leaves for good, and the caller is told, only when nothing is left.
QuietOnReturn ==
  /\ \A w \in Workers : worker[w] = "exited" => stopping /\ tasks = <<>>
  /\ caller = "idle" => tasks = <<>> /\ Busy = {}
  /\ caller = "stopped" => \A w \in Workers : worker[w] = "exited"

Inv == TypeOK /\ QueueInOrder /\ TakenOnce /\ InFlightExact /\ QuietOnReturn
----------------------------------------------------------------------------
LEMMA InitInv == Init => Inv
<1> SUFFICES ASSUME Init PROVE Inv
  OBVIOUS
<1>1. TypeOK
  <2>1. tasks \in Seq(Tasks)
    BY EmptySeq DEF Init
  <2>2. 0 \in 0..MaxTasks
    BY MaxTasksAssumption
  <2>3. holds \in [Workers -> 0..MaxTasks]
    BY <2>2 DEF Init
  <2> QED BY <2>1, <2>2, <2>3 DEF Init, TypeOK
<1>2. QueueInOrder
  BY DEF Init, QueueInOrder, Taken
<1>3. Running = {} /\ HeldTasks = {} /\ Busy = {}
  BY DEF Init, Running, HeldTasks, Busy
<1>4. TakenOnce
  BY <1>3 DEF Init, TakenOnce, Taken
<1>5. InFlightExact
  BY <1>3, FS_EmptySet DEF Init, InFlightExact
<1>6. QuietOnReturn
  BY DEF Init, QuietOnReturn
<1> QED BY <1>1, <1>2, <1>4, <1>5, <1>6 DEF Inv

\* What the parts depend on.
LEMMA QueueStutter == QueueInOrder /\ UNCHANGED <<tasks, submitted>> => QueueInOrder'
BY DEF QueueInOrder, Taken

LEMMA TakenStutter ==
  ASSUME TakenOnce, Running' = Running, UNCHANGED <<holds, finished>>, Taken' = Taken
  PROVE  TakenOnce'
<1>1. HeldTasks' = HeldTasks
  BY DEF HeldTasks, Running
<1> QED BY <1>1 DEF TakenOnce

LEMMA CounterStutter ==
  InFlightExact /\ Busy' = Busy /\ UNCHANGED inFlight => InFlightExact'
BY DEF InFlightExact

LEMMA BusyFinite == IsFiniteSet(Busy) /\ Cardinality(Busy) \in Nat
BY WorkersAssumption, FS_Subset, FS_CardinalityType DEF Busy
----------------------------------------------------------------------------
(* The workers                                                             *)

\* A worker that sleeps, leaves or wakes up.
LEMMA TestIdleKeeps ==
  ASSUME Inv, NEW w \in Workers, Test(w), UNCHANGED <<tasks, inFlight, holds>>
  PROVE  Inv'
<1>1. /\ worker[w] = "test" /\ UNCHANGED <<stopping, caller, submitted, finished>>
      /\ \/ worker' = [worker EXCEPT ![w] = "asleep"]
         \/ worker' = [worker EXCEPT ![w] = "exited"] /\ stopping /\ tasks = <<>>
  <2>1. ~Pop(w)
    <3> SUFFICES ASSUME Pop(w) PROVE FALSE
      OBVIOUS
    <3>1. inFlight' = inFlight + 1 /\ inFlight \in Nat
      BY DEF Pop, Inv, TypeOK
    <3> QED BY <3>1
  <2> QED BY <2>1 DEF Test, Leaves
<1>2. Running' = Running /\ Busy' = Busy
  BY <1>1 DEF Running, Busy, Inv, TypeOK
<1>3. TypeOK'
  BY <1>1 DEF Inv, TypeOK
<1>4. QuietOnReturn'
  BY <1>1, <1>2 DEF Inv, QuietOnReturn, TypeOK
<1> QED
  BY <1>1, <1>2, <1>3, <1>4, QueueStutter, TakenStutter, CounterStutter
  DEF Inv, Taken

\* A worker that takes a task.
LEMMA PopKeeps ==
  ASSUME Inv, NEW w \in Workers, worker[w] = "test", Pop(w),
         worker' = [worker EXCEPT ![w] = "run"],
         UNCHANGED <<stopping, caller, submitted, finished>>
  PROVE  Inv'
<1> USE DEF Inv
<1>1. /\ tasks \in Seq(Tasks) /\ tasks # <<>> /\ Len(tasks) \in Nat \ {0}
      /\ Head(tasks) = tasks[1]
      /\ tasks' \in Seq(Tasks) /\ Len(tasks') = Len(tasks) - 1
      /\ \A i \in 1..Len(tasks') : tasks'[i] = tasks[i + 1]
  BY HeadTailProperties, EmptySeq DEF Pop, TypeOK
<1>2. /\ submitted \in Nat /\ Len(tasks) <= submitted /\ Taken' = Taken + 1
      /\ holds' = [holds EXCEPT ![w] = Taken + 1] /\ Taken + 1 \in Tasks /\ Taken \in Nat
  <2>1. submitted \in Nat /\ submitted <= MaxTasks /\ Len(tasks) <= submitted
    BY MaxTasksAssumption DEF QueueInOrder, TypeOK
  <2>2. Taken \in Nat /\ Taken + 1 \in Tasks /\ Taken' = Taken + 1
    BY <1>1, <2>1, MaxTasksAssumption DEF Taken, Tasks
  <2>3. Head(tasks) = Taken + 1
    BY <1>1 DEF QueueInOrder
  <2> QED BY <2>1, <2>2, <2>3 DEF Pop
<1>3. Running' = Running \cup {w} /\ w \notin Running /\ Busy' = Busy \cup {w} /\ w \notin Busy
  BY DEF Running, Busy, TypeOK
<1>4. HeldTasks = {holds[v] : v \in Running} /\ HeldTasks' = {holds'[v] : v \in Running'}
  BY DEF HeldTasks, Running
<1>5. HeldTasks' = HeldTasks \cup {Taken + 1}
  BY <1>2, <1>3, <1>4 DEF TypeOK, Running
<1>6. TypeOK'
  BY <1>1, <1>2, MaxTasksAssumption DEF TypeOK, Pop, Tasks
<1>7. QueueInOrder'
  BY <1>1, <1>2 DEF QueueInOrder, Taken
<1>8. TakenOnce'
  <2>1. 1..Taken' = (1..Taken) \cup {Taken + 1} /\ Taken + 1 \notin 1..Taken
    BY <1>2
  <2>2. \A v \in Running : holds[v] \in 1..Taken /\ holds'[v] = holds[v]
    BY <1>2, <1>3, <1>4 DEF TakenOnce, TypeOK, Running
  <2>3. \A v, u \in Running' : holds'[v] = holds'[u] => v = u
    BY <1>2, <1>3, <2>1, <2>2 DEF TakenOnce, TypeOK
  <2> QED BY <1>5, <2>1, <2>3 DEF TakenOnce
<1>9. InFlightExact'
  BY <1>3, BusyFinite, FS_AddElement DEF InFlightExact, Pop
<1>10. QuietOnReturn'
  BY <1>1 DEF QuietOnReturn, TypeOK
<1> QED BY <1>6, <1>7, <1>8, <1>9, <1>10

LEMMA TestKeeps ==
  ASSUME Inv, NEW w \in Workers, Test(w)
  PROVE  Inv'
BY TestIdleKeeps, PopKeeps DEF Test

\* The task of a worker ends.
LEMMA RunKeeps ==
  ASSUME Inv, NEW w \in Workers, Run(w)
  PROVE  Inv'
<1> USE DEF Inv
<1>1. /\ worker[w] = "run" /\ worker' = [worker EXCEPT ![w] = "decrement"]
      /\ finished' = finished \cup {holds[w]}
      /\ UNCHANGED <<tasks, inFlight, stopping, holds, caller, submitted>>
  BY DEF Run
<1>2. Running' = Running \ {w} /\ w \in Running /\ Busy' = Busy
  BY <1>1 DEF Running, Busy, TypeOK
<1>3. HeldTasks = {holds[v] : v \in Running} /\ HeldTasks' = {holds[v] : v \in Running'}
  BY <1>1 DEF HeldTasks, Running
<1>4. HeldTasks' = HeldTasks \ {holds[w]} /\ holds[w] \in HeldTasks
  BY <1>2, <1>3 DEF TakenOnce
<1>5. Taken \in Nat /\ 1..Taken \subseteq Tasks /\ Taken' = Taken
  BY <1>1, MaxTasksAssumption, LenProperties DEF Taken, QueueInOrder, TypeOK, Tasks
<1>6. TypeOK'
  BY <1>1, <1>4, <1>5 DEF TypeOK, TakenOnce
<1>7. TakenOnce'
  BY <1>1, <1>2, <1>4, <1>5 DEF TakenOnce
<1>8. QuietOnReturn'
  BY <1>1, <1>2 DEF QuietOnReturn, TypeOK
<1> QED BY <1>1, <1>2, <1>6, <1>7, <1>8, QueueStutter, CounterStutter

\* A worker gives its count back.
LEMMA DecrementKeeps ==
  ASSUME Inv, NEW w \in Workers, Decrement(w)
  PROVE  Inv'
<1> USE DEF Inv
<1>1. /\ worker[w] = "decrement" /\ worker' = [worker EXCEPT ![w] = "test"]
      /\ inFlight' = inFlight - 1 /\ caller' \in {caller, "waitIdle"}
      /\ UNCHANGED <<tasks, stopping, holds, submitted, finished>>
  BY DEF Decrement, WakeCallerIfIdle
<1>2. Running' = Running /\ Busy' = Busy \ {w} /\ w \in Busy
  BY <1>1 DEF Running, Busy, TypeOK
<1>3. InFlightExact' /\ inFlight' \in Nat
  <2>1. IsFiniteSet(Busy \ {w}) /\ Cardinality(Busy \ {w}) = Cardinality(Busy) - 1
    BY <1>2, BusyFinite, FS_RemoveElement
  <2>2. Cardinality(Busy \ {w}) \in Nat
    BY <2>1, FS_CardinalityType
  <2> QED BY <1>1, <1>2, <2>1, <2>2 DEF InFlightExact
<1>4. TypeOK'
  BY <1>1, <1>3 DEF TypeOK
<1>5. QuietOnReturn'
  BY <1>1, <1>2 DEF QuietOnReturn, TypeOK
<1> QED BY <1>1, <1>2, <1>3, <1>4, <1>5, QueueStutter, TakenStutter DEF Taken

\* Waking up changes nobody who holds or counts a task.
LEMMA WakingKeeps ==
  ASSUME Inv, worker' \in [Workers -> {"test", "asleep", "run", "decrement", "exited"}],
         \A w \in Workers : worker'[w] = worker[w] \/ (worker[w] = "asleep" /\ worker'[w] = "test"),
         UNCHANGED <<tasks, inFlight, stopping, holds, submitted, finished>>,
         caller' = caller \/ (caller \in {"notify", "notifyAll"} /\ caller' \in {"free", "join"})
  PROVE  Inv'
<1> USE DEF Inv
<1>1. Running' = Running /\ Busy' = Busy
  BY DEF Running, Busy
<1>2. TypeOK'
  BY DEF TypeOK
<1>3. QuietOnReturn'
  BY <1>1 DEF QuietOnReturn
<1> QED BY <1>1, <1>2, <1>3, QueueStutter, TakenStutter, CounterStutter DEF Taken
----------------------------------------------------------------------------
(* The caller                                                              *)

LEMMA SubmitKeeps == Inv /\ Submit => Inv'
<1> SUFFICES ASSUME Inv, Submit PROVE Inv'
  OBVIOUS
<1> USE DEF Inv
<1>1. /\ caller = "free" /\ ~stopping /\ submitted < MaxTasks /\ submitted' = submitted + 1
      /\ tasks' = Append(tasks, submitted + 1) /\ caller' = "notify"
      /\ UNCHANGED <<inFlight, stopping, worker, holds, finished>>
  BY DEF Submit
<1>2. /\ Len(tasks') = Len(tasks) + 1 /\ tasks' \in Seq(Tasks) /\ Len(tasks) \in Nat
      /\ \A i \in 1..Len(tasks) : tasks'[i] = tasks[i]
      /\ tasks'[Len(tasks) + 1] = submitted + 1
  BY <1>1, MaxTasksAssumption, AppendProperties, LenProperties DEF TypeOK, Tasks
<1>3. Taken' = Taken /\ Taken \in Int
  BY <1>1, <1>2 DEF Taken, TypeOK, Tasks
<1>4. Running' = Running /\ Busy' = Busy
  BY <1>1 DEF Running, Busy
<1>5. TypeOK'
  BY <1>1, <1>2, MaxTasksAssumption DEF TypeOK
<1>6. QueueInOrder'
  BY <1>1, <1>2, <1>3 DEF QueueInOrder, Taken, TypeOK
<1>7. QuietOnReturn'
  BY <1>1, <1>4 DEF QuietOnReturn
<1> QED BY <1>1, <1>3, <1>4, <1>5, <1>6, <1>7, TakenStutter, CounterStutter

\* The steps of the caller that change nothing but where it is, and stopping_.
LEMMA CallerKeeps ==
  ASSUME Inv, WaitIdle \/ CallerWakesSpuriously \/ IdleReturns \/ BeginStop \/ Join
  PROVE  Inv'
<1> USE DEF Inv
<1>1. UNCHANGED <<tasks, inFlight, worker, holds, submitted, finished>>
      /\ (stopping' = stopping \/ stopping')
      /\ caller' \in {"asleep", "idle", "waitIdle", "free", "notifyAll", "stopped"}
  BY DEF WaitIdle, CallerWakesSpuriously, IdleReturns, BeginStop, Join
<1>2. Running' = Running /\ Busy' = Busy
  BY <1>1 DEF Running, Busy
<1>3. TypeOK'
  BY <1>1 DEF TypeOK, WaitIdle, CallerWakesSpuriously, IdleReturns, BeginStop, Join
<1>4. caller' = "idle" => tasks = <<>> /\ Busy = {}
  <2> SUFFICES ASSUME caller' = "idle" PROVE tasks = <<>> /\ Busy = {}
    OBVIOUS
  <2>1. tasks = <<>> /\ ~(inFlight > 0)
    BY DEF WaitIdle, CallerWakesSpuriously, IdleReturns, BeginStop, Join, HasPendingTasks
  <2>2. Cardinality(Busy) = 0
    BY <2>1 DEF InFlightExact, TypeOK
  <2> QED BY <2>1, <2>2, BusyFinite, FS_EmptySet
<1>5. caller' = "stopped" => \A w \in Workers : worker[w] = "exited"
  BY DEF WaitIdle, CallerWakesSpuriously, IdleReturns, BeginStop, Join
<1>6. QuietOnReturn'
  BY <1>1, <1>2, <1>4, <1>5 DEF QuietOnReturn
<1> QED BY <1>1, <1>2, <1>3, <1>6, QueueStutter, TakenStutter, CounterStutter DEF Taken

LEMMA StepInv == Inv /\ [Next]_vars => Inv'
<1> SUFFICES ASSUME Inv, [Next]_vars PROVE Inv'
  OBVIOUS
<1>1. ASSUME NEW w \in Workers, SpuriousWakeup(w) PROVE Inv'
  BY <1>1, WakingKeeps DEF SpuriousWakeup, Inv, TypeOK
<1>2. CASE NotifyOne
  BY <1>2, WakingKeeps DEF NotifyOne, WakeOne, Inv, TypeOK
<1>3. CASE NotifyAll
  BY <1>3, WakingKeeps DEF NotifyAll, WakeAll, Inv, TypeOK
<1>4. CASE UNCHANGED vars
  <2>1. Running' = Running /\ Busy' = Busy
    BY <1>4 DEF vars, Running, Busy
  <2>2. TypeOK' /\ QuietOnReturn'
    BY <1>4, <2>1 DEF vars, Inv, TypeOK, QuietOnReturn
  <2> QED BY <1>4, <2>1, <2>2, QueueStutter, TakenStutter, CounterStutter DEF vars, Inv, Taken
<1> QED
  BY <1>1, <1>2, <1>3, <1>4, TestKeeps, RunKeeps, DecrementKeeps, SubmitKeeps, CallerKeeps
  DEF Next, WorkerStep, CallerStep, Stopped
----------------------------------------------------------------------------
(* Theorems                                                                *)

\* The inductive invariant: order of the deque, tasks taken once, an exact counter, and
\* nothing left when a call returns.
THEOREM Invariance == Spec => []Inv
BY InitInv, StepInv, PTL DEF Spec

\* TypeOK for any number of workers and tasks; inFlight_ never goes below zero.
THEOREM PoolTypes == Spec => []TypeOK
BY Invariance, PTL DEF Inv

\* hasPendingTasks and waitIdle can trust inFlight_: it is the number of workers
\* between the pop of a task and the section that follows it.
THEOREM PoolCounter == Spec => []InFlightExact
BY Invariance, PTL DEF Inv

\* When waitIdle or stop returns, every task submitted so far has ended.
THEOREM PoolReturns == Spec => []AllEndedOnReturn
<1>1. Inv => AllEndedOnReturn
  <2> SUFFICES ASSUME Inv, caller \in {"idle", "stopped"} PROVE finished = 1..submitted
    BY DEF AllEndedOnReturn
  <2>1. tasks = <<>> /\ Running = {}
    <3>1. CASE caller = "idle"
      BY <3>1 DEF Inv, QuietOnReturn, Busy, Running
    <3>2. CASE caller = "stopped"
      BY <3>2, WorkersAssumption DEF Inv, QuietOnReturn, Running
    <3> QED BY <3>1, <3>2
  <2>2. HeldTasks = {} /\ Taken = submitted
    BY <2>1 DEF HeldTasks, Running, Taken, Inv, TypeOK
  <2> QED BY <2>2 DEF Inv, TakenOnce
<1> QED BY <1>1, Invariance, PTL
----------------------------------------------------------------------------
(* Wakeups                                                                 *)

\* Where the caller is tells whether stop has begun, and the other way around.
Phased ==
  /\ caller \in {"notifyAll", "join", "stopped"} => stopping
  /\ stopping => caller \in {"notifyAll", "join", "stopped"}
Woken == NoWakeupLost /\ Phased

Looking == {w \in Workers : worker[w] = "test"}
LEMMA LookingFinite == IsFiniteSet(Looking) /\ OnTheirWay = Cardinality(Looking) /\ OnTheirWay \in Nat
BY WorkersAssumption, FS_Subset, FS_CardinalityType DEF Looking, OnTheirWay

\* One worker more, or one less, on its way.
LEMMA LookingMore ==
  ASSUME NEW w \in Workers, w \notin Looking, Looking' = Looking \cup {w}
  PROVE  OnTheirWay' = OnTheirWay + 1
<1>1. OnTheirWay' = Cardinality(Looking')
  BY DEF OnTheirWay, Looking
<1> QED BY <1>1, LookingFinite, FS_AddElement
LEMMA LookingLess ==
  ASSUME NEW w \in Looking, Looking' = Looking \ {w}
  PROVE  OnTheirWay' = OnTheirWay - 1
<1>1. OnTheirWay' = Cardinality(Looking')
  BY DEF OnTheirWay, Looking
<1> QED BY <1>1, LookingFinite, FS_RemoveElement
LEMMA LookingSame == Looking' = Looking => OnTheirWay' = OnTheirWay
BY DEF OnTheirWay, Looking

\* A task taken is one task and one worker less; a worker goes to sleep, or leaves,
\* only if nothing is left to take.
LEMMA TestWoken ==
  ASSUME Inv, Woken, NEW w \in Workers, Test(w)
  PROVE  Woken'
<1>1. /\ w \in Looking /\ Looking' = Looking \ {w}
      /\ UNCHANGED <<stopping, caller>>
      /\ worker' \in [Workers -> {"test", "asleep", "run", "decrement", "exited"}]
  BY DEF Test, Looking, Inv, TypeOK
<1>2. OnTheirWay' = OnTheirWay - 1 /\ OnTheirWay \in Nat
  BY <1>1, LookingLess, LookingFinite
<1>3. CASE tasks = <<>> /\ UNCHANGED <<tasks, inFlight, holds>>
           /\ \/ ~stopping /\ worker' = [worker EXCEPT ![w] = "asleep"]
              \/ worker' = [worker EXCEPT ![w] = "exited"]
  <2>1. OnTheirWay' \in Nat /\ Len(tasks) = 0
    <3>1. OnTheirWay' = Cardinality(Looking')
      BY DEF OnTheirWay, Looking
    <3> QED BY <1>1, <1>3, <3>1, LookingFinite, FS_RemoveElement, FS_CardinalityType
  <2>2. ~stopping \/ \A v \in Workers : worker'[v] = "asleep" => worker[v] = "asleep"
    BY <1>3 DEF Inv, TypeOK
  <2>3. UNCHANGED <<tasks, inFlight, stopping, caller>>
    BY <1>1, <1>3
  <2>4. caller \in {"join", "stopped"} => \A v \in Workers : worker'[v] # "asleep"
    BY <2>2 DEF Woken, Phased, NoWakeupLost
  <2>5. Len(tasks') <= OnTheirWay'
    BY <2>1, <2>3
  <2> QED BY <2>3, <2>4, <2>5 DEF Woken, Phased, NoWakeupLost, HasPendingTasks
<1>4. CASE Pop(w) /\ worker' = [worker EXCEPT ![w] = "run"]
  <2>1. tasks # <<>> /\ Len(tasks) \in Nat /\ Len(tasks') = Len(tasks) - 1
        /\ inFlight' = inFlight + 1 /\ inFlight \in Nat
    BY <1>4, HeadTailProperties, LenProperties, EmptySeq DEF Pop, Inv, TypeOK
  <2>2. \A v \in Workers : worker'[v] = "asleep" => worker[v] = "asleep"
    BY <1>4 DEF Inv, TypeOK
  <2> QED BY <1>1, <1>2, <2>1, <2>2 DEF Woken, Phased, NoWakeupLost, HasPendingTasks
<1>5. \/ /\ tasks = <<>> /\ UNCHANGED <<tasks, inFlight, holds>>
        /\ \/ ~stopping /\ worker' = [worker EXCEPT ![w] = "asleep"]
           \/ worker' = [worker EXCEPT ![w] = "exited"]
      \/ Pop(w) /\ worker' = [worker EXCEPT ![w] = "run"]
  BY ZenonT(30) DEF Test, Leaves
<1> QED BY <1>3, <1>4, <1>5

LEMMA RunWoken ==
  ASSUME Inv, Woken, NEW w \in Workers, Run(w)
  PROVE  Woken'
<1>1. Looking' = Looking /\ \A v \in Workers : worker'[v] = "asleep" => worker[v] = "asleep"
  BY DEF Run, Looking, Inv, TypeOK
<1> QED BY <1>1, LookingSame DEF Run, Woken, Phased, NoWakeupLost, HasPendingTasks

\* The worker that leaves the pool idle wakes the caller.
LEMMA DecrementWoken ==
  ASSUME Inv, Woken, NEW w \in Workers, Decrement(w)
  PROVE  Woken'
<1>1. /\ w \notin Looking /\ Looking' = Looking \cup {w}
      /\ \A v \in Workers : worker'[v] = "asleep" => worker[v] = "asleep"
  BY DEF Decrement, Looking, Inv, TypeOK
<1>2. OnTheirWay' = OnTheirWay + 1 /\ OnTheirWay \in Nat /\ Len(tasks) \in Nat
  BY <1>1, LookingMore, LookingFinite, LenProperties DEF Inv, TypeOK
<1>3. w \in Busy /\ inFlight \in Nat
  BY DEF Decrement, Busy, Inv, TypeOK
<1>4. inFlight # 0
  BY <1>3, BusyFinite, FS_EmptySet DEF Inv, InFlightExact
<1>5. caller' = "asleep" => caller = "asleep" /\ (tasks # <<>> \/ inFlight # 1)
  BY DEF Decrement, WakeCallerIfIdle
<1>6. caller' = caller \/ (caller = "asleep" /\ caller' = "waitIdle")
  BY DEF Decrement, WakeCallerIfIdle
<1>7. inFlight' = inFlight - 1 /\ UNCHANGED <<tasks, stopping>>
  BY DEF Decrement
<1> QED
  BY <1>1, <1>2, <1>3, <1>4, <1>5, <1>6, <1>7 DEF Woken, Phased, NoWakeupLost, HasPendingTasks

\* A worker woken, by mistake or by notify_one, is one more on its way.
LEMMA WakeOneWoken ==
  ASSUME Inv, Woken, NEW w \in Workers, worker[w] = "asleep",
         worker' = [worker EXCEPT ![w] = "test"], UNCHANGED <<tasks, inFlight, stopping>>,
         caller' = caller \/ (caller = "notify" /\ caller' = "free")
  PROVE  Woken'
<1>1. /\ w \notin Looking /\ Looking' = Looking \cup {w}
      /\ \A v \in Workers : worker'[v] = "asleep" => worker[v] = "asleep"
  BY DEF Looking, Inv, TypeOK
<1>2. OnTheirWay' = OnTheirWay + 1 /\ OnTheirWay \in Nat /\ Len(tasks) \in Nat
  BY <1>1, LookingMore, LookingFinite, LenProperties DEF Inv, TypeOK
<1> QED BY <1>1, <1>2 DEF Woken, Phased, NoWakeupLost, HasPendingTasks

LEMMA NotifyWoken ==
  ASSUME Inv, Woken, NotifyOne \/ NotifyAll
  PROVE  Woken'
<1>1. CASE NotifyOne /\ \E w \in Workers : worker[w] = "asleep"
  BY <1>1, WakeOneWoken DEF NotifyOne, WakeOne
<1>2. CASE NotifyOne /\ ~ \E w \in Workers : worker[w] = "asleep"
  <2>1. /\ UNCHANGED <<worker, tasks, inFlight, stopping>>
        /\ caller = "notify" /\ caller' = "free"
    BY <1>2 DEF NotifyOne, WakeOne
  <2> QED BY <1>2, <2>1 DEF Woken, Phased, NoWakeupLost
<1>3. CASE NotifyAll
  <2>1. /\ \A w \in Workers : worker'[w] # "asleep"
        /\ caller = "notifyAll" /\ caller' = "join" /\ stopping' = stopping
    BY <1>3 DEF NotifyAll, WakeAll
  <2> QED BY <2>1 DEF Woken, Phased, NoWakeupLost
<1> QED BY <1>1, <1>2, <1>3

\* The caller moves on; submit adds a task and a notification to come.
LEMMA CallerWoken ==
  ASSUME Inv, Woken,
         Submit \/ WaitIdle \/ CallerWakesSpuriously \/ IdleReturns \/ BeginStop \/ Join
  PROVE  Woken'
<1>1. OnTheirWay' = OnTheirWay /\ OnTheirWay \in Nat /\ worker' = worker
  <2>1. worker' = worker
    BY DEF Submit, WaitIdle, CallerWakesSpuriously, IdleReturns, BeginStop, Join
  <2> QED BY <2>1, LookingSame, LookingFinite DEF Looking
<1>2. CASE Submit
  <2>1. Len(tasks') = Len(tasks) + 1 /\ Len(tasks) \in Nat
    <3>1. submitted + 1 \in Tasks /\ tasks' = Append(tasks, submitted + 1)
      BY <1>2, MaxTasksAssumption DEF Submit, Inv, TypeOK, Tasks
    <3> QED BY <3>1, AppendProperties, LenProperties DEF Inv, TypeOK
  <2> QED BY <1>1, <1>2, <2>1 DEF Submit, Woken, Phased, NoWakeupLost
<1>3. CASE WaitIdle
  BY <1>1, <1>3 DEF WaitIdle, Woken, Phased, NoWakeupLost, HasPendingTasks
<1>4. CASE CallerWakesSpuriously \/ IdleReturns \/ BeginStop
  BY <1>1, <1>4 DEF CallerWakesSpuriously, IdleReturns, BeginStop, Woken, Phased, NoWakeupLost
<1>5. CASE Join
  BY <1>1, <1>5 DEF Join, Woken, Phased, NoWakeupLost
<1> QED BY <1>2, <1>3, <1>4, <1>5

LEMMA StepWoken == Inv /\ Woken /\ [Next]_vars => Woken'
<1> SUFFICES ASSUME Inv, Woken, [Next]_vars PROVE Woken'
  OBVIOUS
<1>1. ASSUME NEW w \in Workers, SpuriousWakeup(w) PROVE Woken'
  BY <1>1, WakeOneWoken DEF SpuriousWakeup
<1>2. CASE UNCHANGED vars
  <2>1. Looking' = Looking
    BY <1>2 DEF vars, Looking
  <2> QED BY <1>2, <2>1, LookingSame DEF vars, Woken, Phased, NoWakeupLost, HasPendingTasks
<1> QED
  BY <1>1, <1>2, TestWoken, RunWoken, DecrementWoken, NotifyWoken, CallerWoken
  DEF Next, WorkerStep, CallerStep, Stopped

\* No worker sleeps while a task of the deque has none on its way to it, none sleeps
\* once stop has notified, and the caller of waitIdle never sleeps with an idle pool:
\* notify_one outside the lock, one per task, is enough for any number of workers.
THEOREM PoolWakes == Spec => []NoWakeupLost
<1>1. Init => Woken
  BY EmptySeq DEF Init, Woken, Phased, NoWakeupLost
<1>2. Woken => NoWakeupLost
  BY DEF Woken
<1> QED BY <1>1, <1>2, StepWoken, Invariance, PTL DEF Spec

----------------------------------------------------------------------------
(* Refinement: TaskPool sees a task while a worker holds it, between the   *)
(* pop and the end of the call.                                            *)

\* TaskPool counts with its own instance of FiniteSets.
LEMMA SameCardinality == ASSUME NEW S PROVE Pool!Cardinality(S) = Cardinality(S)
BY DEF Cardinality, Pool!Cardinality

\* At most one task per worker, and one less while a worker holds none.
LEMMA HeldBound ==
  ASSUME TypeOK, NEW w \in Workers, worker[w] = "test"
  PROVE  Cardinality(HeldTasks) < Cardinality(Workers)
<1> DEFINE F == [v \in Running |-> holds[v]]
<1>1. IsFiniteSet(Running) /\ Cardinality(Running) < Cardinality(Workers)
  <2>1. Running \subseteq Workers \ {w} /\ IsFiniteSet(Workers \ {w})
    BY WorkersAssumption, FS_RemoveElement DEF Running
  <2>2. Cardinality(Workers \ {w}) = Cardinality(Workers) - 1 /\ Cardinality(Workers) \in Nat
    BY WorkersAssumption, FS_RemoveElement, FS_CardinalityType
  <2>3. IsFiniteSet(Running) /\ Cardinality(Running) <= Cardinality(Workers \ {w})
    BY <2>1, FS_Subset
  <2>4. Cardinality(Running) \in Nat
    BY <2>3, FS_CardinalityType
  <2> QED BY <2>2, <2>3, <2>4
<1>2. F \in Surjection(Running, HeldTasks)
  BY DEF Surjection, HeldTasks, Running
<1>3. IsFiniteSet(HeldTasks) /\ Cardinality(HeldTasks) <= Cardinality(Running)
  BY <1>1, <1>2, FS_Surjection
<1>4. /\ Cardinality(HeldTasks) \in Nat /\ Cardinality(Running) \in Nat
      /\ Cardinality(Workers) \in Nat
  BY <1>1, <1>3, WorkersAssumption, FS_CardinalityType
<1> QED BY <1>1, <1>3, <1>4

LEMMA InitMaps == Init => Pool!Init
BY DEF Init, Pool!Init, HeldTasks

LEMMA SubmitMaps == Inv /\ Submit => Pool!Submit
<1> SUFFICES ASSUME Inv, Submit PROVE Pool!Submit
  OBVIOUS
<1>1. HeldTasks' = HeldTasks
  BY DEF Submit, HeldTasks
<1>2. Taken \in Nat /\ Len(tasks) + Taken = submitted /\ submitted \in Nat
  BY MaxTasksAssumption, LenProperties DEF Inv, TypeOK, QueueInOrder, Taken
<1>3. Cardinality(HeldTasks \cup finished) = Taken
  <2>1. Cardinality(1..Taken) = IF 1 > Taken THEN 0 ELSE Taken - 1 + 1
    BY <1>2, FS_Interval
  <2>2. Cardinality(1..Taken) = Taken
    BY <1>2, <2>1
  <2> QED BY <2>2 DEF Inv, TakenOnce
<1>4. Len(tasks) \in Nat
  BY LenProperties DEF Inv, TypeOK
<1>5. Len(tasks) + Cardinality(HeldTasks \cup finished) + 1 = submitted + 1
  BY <1>2, <1>3, <1>4
<1>6. submitted + 1 <= MaxTasks
  BY <1>2, MaxTasksAssumption DEF Submit
<1> QED BY <1>1, <1>5, <1>6, SameCardinality DEF Submit, Pool!Submit

LEMMA PopMaps ==
  ASSUME Inv, NEW w \in Workers, worker[w] = "test", Pop(w),
         worker' = [worker EXCEPT ![w] = "run"], UNCHANGED <<caller, finished>>
  PROVE  Pool!Take
<1>1. tasks # <<>> /\ tasks' = Tail(tasks) /\ holds' = [holds EXCEPT ![w] = Head(tasks)]
  BY DEF Pop
<1>2. HeldTasks' = HeldTasks \cup {Head(tasks)}
  BY <1>1 DEF HeldTasks, Inv, TypeOK
<1>3. Cardinality(HeldTasks) < Cardinality(Workers)
  BY HeldBound DEF Inv
<1> QED BY <1>1, <1>2, <1>3, SameCardinality DEF Pool!Take

LEMMA RunMaps ==
  ASSUME Inv, NEW w \in Workers, Run(w)
  PROVE  Pool!Finish
<1>1. /\ worker[w] = "run" /\ worker' = [worker EXCEPT ![w] = "decrement"]
      /\ finished' = finished \cup {holds[w]} /\ UNCHANGED <<tasks, holds, caller>>
  BY DEF Run
<1>2. HeldTasks = {holds[v] : v \in Running} /\ HeldTasks' = {holds[v] : v \in Running'}
  BY <1>1 DEF HeldTasks, Running
<1>3. Running' = Running \ {w} /\ w \in Running
  BY <1>1 DEF Running, Inv, TypeOK
<1>4. HeldTasks' = HeldTasks \ {holds[w]} /\ holds[w] \in HeldTasks
  BY <1>2, <1>3 DEF Inv, TakenOnce
<1> QED BY <1>1, <1>4 DEF Pool!Finish

LEMMA JoinMaps == Inv /\ Join => Pool!Stop
<1> SUFFICES ASSUME Inv, Join PROVE Pool!Stop
  OBVIOUS
<1>1. tasks = <<>> /\ Running = {}
  BY WorkersAssumption DEF Join, Inv, QuietOnReturn, Running
<1>2. HeldTasks = {} /\ HeldTasks' = {}
  BY <1>1 DEF HeldTasks, Running, Join
<1> QED BY <1>1, <1>2 DEF Join, Pool!Stop

\* Any other step leaves the picture as it is.
LEMMA SameHeld ==
  ASSUME UNCHANGED holds, Running' = Running
  PROVE  HeldTasks' = HeldTasks
BY DEF HeldTasks, Running

LEMMA StepMaps == Inv /\ [Next]_vars => [Pool!Next]_(Pool!vars)
<1> SUFFICES ASSUME Inv, [Next]_vars, ~UNCHANGED Pool!vars PROVE Pool!Next
  OBVIOUS
<1>1. ASSUME NEW w \in Workers, Test(w) PROVE Pool!Next
  <2>1. CASE UNCHANGED <<tasks, holds>>
    <3>1. ~Pop(w)
      BY <2>1 DEF Pop, Inv, TypeOK
    <3>2. HeldTasks' = HeldTasks
      BY <1>1, <2>1, <3>1 DEF Test, HeldTasks, Inv, TypeOK
    <3> QED BY <1>1, <2>1, <3>2 DEF Test, Pool!vars
  <2>2. CASE ~UNCHANGED <<tasks, holds>>
    BY <1>1, <2>2, PopMaps DEF Test, Pool!Next
  <2> QED BY <2>1, <2>2
<1>2. ASSUME NEW w \in Workers, Run(w) PROVE Pool!Next
  BY <1>2, RunMaps DEF Pool!Next
<1>3. ASSUME NEW w \in Workers, Decrement(w) \/ SpuriousWakeup(w) PROVE FALSE
  <2>1. Running' = Running
    BY <1>3 DEF Decrement, SpuriousWakeup, Running, Inv, TypeOK
  <2> QED BY <1>3, <2>1, SameHeld
    DEF Decrement, SpuriousWakeup, WakeCallerIfIdle, Pool!vars
<1>4. CASE Submit
  BY <1>4, SubmitMaps DEF Pool!Next
<1>5. CASE NotifyOne \/ NotifyAll
  <2>1. Running' = Running
    BY <1>5 DEF NotifyOne, NotifyAll, WakeOne, WakeAll, Running, Inv, TypeOK
  <2> QED BY <1>5, <2>1, SameHeld DEF NotifyOne, NotifyAll, Pool!vars
<1>6. CASE Join
  BY <1>6, JoinMaps DEF Pool!Next
<1>7. CASE WaitIdle \/ CallerWakesSpuriously \/ IdleReturns \/ BeginStop
  <2>1. Running' = Running
    BY <1>7 DEF WaitIdle, CallerWakesSpuriously, IdleReturns, BeginStop, Running
  <2> QED BY <1>7, <2>1, SameHeld
    DEF WaitIdle, CallerWakesSpuriously, IdleReturns, BeginStop, Pool!vars
<1>8. CASE UNCHANGED vars
  <2>1. Running' = Running
    BY <1>8 DEF vars, Running
  <2> QED BY <1>8, <2>1, SameHeld DEF vars, Pool!vars
<1> QED
  BY <1>1, <1>2, <1>3, <1>4, <1>5, <1>6, <1>7, <1>8
  DEF Next, WorkerStep, CallerStep, Stopped

\* The pool keeps the promises of TaskPool, whatever the number of its threads:
\* tasks leave the deque in the order of submission, each for one worker, and stop
\* returns with none waiting or running.
THEOREM PoolRefines == Spec => ImplementsTaskPool
BY InitMaps, StepMaps, Invariance, PTL DEF Spec, ImplementsTaskPool, Pool!Spec
============================================================================
