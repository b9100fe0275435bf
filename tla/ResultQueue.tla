---------------------------- MODULE ResultQueue ----------------------------
(***************************************************************************)
(* ResultQueue: the commands of the workers and the eventfd that wakes the *)
(* main thread.  The mutex covers only the deque; push writes to the       *)
(* eventfd after releasing it, and drain reads the eventfd after taking    *)
(* the deque.  A command is its number in the order of the pushes.         *)
(***************************************************************************)
EXTENDS Integers, Sequences

CONSTANTS
  Producers,  \* the workers
  MaxPush     \* bound: commands pushed in a behaviour

ASSUME MaxPushAssumption == MaxPush \in Nat

VARIABLES
  queue,    \* ResultQueue::queue_
  eventFd,  \* the counter of the eventfd
  pc,       \* each producer: idle, or appended and about to write (signal)
  main,     \* the main thread: wait (in epoll_wait), swap, read, execute
  out,      \* the deque drain returns
  pushed,   \* history: the commands in the order they entered the deque
  done      \* history: the commands main executed

vars == <<queue, eventFd, pc, main, out, pushed, done>>

Init ==
  /\ queue = <<>> /\ out = <<>> /\ pushed = <<>> /\ done = <<>>
  /\ eventFd = 0
  /\ pc = [p \in Producers |-> "idle"]
  /\ main = "wait"

\* push, under the lock.
AppendCommand(p) ==
  /\ pc[p] = "idle" /\ Len(pushed) < MaxPush
  /\ queue' = Append(queue, Len(pushed) + 1)
  /\ pushed' = Append(pushed, Len(pushed) + 1)
  /\ pc' = [pc EXCEPT ![p] = "signal"]
  /\ UNCHANGED <<eventFd, main, out, done>>

\* push, after the lock: write(eventFd_, 1).  The counter cannot reach its limit
\* of 2^64 - 2, where write would return EAGAIN and leave it readable.
Signal(p) ==
  /\ pc[p] = "signal"
  /\ eventFd' = eventFd + 1
  /\ pc' = [pc EXCEPT ![p] = "idle"]
  /\ UNCHANGED <<queue, main, out, pushed, done>>

\* The eventfd is registered level-triggered: epoll_wait reports it while the
\* counter is above zero.  A timeout of epoll_wait does not call drain.
EpollReturns ==
  /\ main = "wait" /\ eventFd > 0
  /\ main' = "swap"
  /\ UNCHANGED <<queue, eventFd, pc, out, pushed, done>>

\* drain, under the lock.  Mutated forms: one command at a time, and a copy.
SwapOne ==
  /\ main = "swap"
  /\ out' = SubSeq(queue, 1, 1) /\ queue' = SubSeq(queue, 2, Len(queue))
  /\ main' = "read"
  /\ UNCHANGED <<eventFd, pc, pushed, done>>
SwapCopies ==
  /\ main = "swap"
  /\ out' = queue
  /\ main' = "read"
  /\ UNCHANGED <<queue, eventFd, pc, pushed, done>>
Swap ==
  /\ main = "swap"
  /\ out' = queue /\ queue' = <<>>
  /\ main' = "read"
  /\ UNCHANGED <<eventFd, pc, pushed, done>>

\* drain, after the lock: read until EAGAIN; one read resets the counter.  The
\* mutated form takes one off the counter, as a semaphore eventfd would, and does
\* not stop at zero.
ReadSemaphore ==
  /\ main = "read"
  /\ eventFd' = eventFd - 1
  /\ main' = IF eventFd > 0 THEN "read" ELSE "execute"
  /\ UNCHANGED <<queue, pc, out, pushed, done>>
ReadEventFd ==
  /\ main = "read"
  /\ eventFd' = 0
  /\ main' = IF eventFd > 0 THEN "read" ELSE "execute"
  /\ UNCHANGED <<queue, pc, out, pushed, done>>

\* The loop over the drained commands, then back to epoll_wait.
Execute ==
  /\ main = "execute"
  /\ IF out = <<>>
       THEN main' = "wait" /\ UNCHANGED <<out, done>>
       ELSE done' = Append(done, Head(out)) /\ out' = Tail(out) /\ UNCHANGED main
  /\ UNCHANGED <<queue, eventFd, pc, pushed>>

MainStep == EpollReturns \/ Swap \/ ReadEventFd \/ Execute

\* No command left to push, and nothing to wake main.
Quiet ==
  /\ main = "wait" /\ eventFd = 0 /\ \A p \in Producers : pc[p] = "idle"
  /\ Len(pushed) = MaxPush
  /\ UNCHANGED vars

Next == (\E p \in Producers : AppendCommand(p) \/ Signal(p)) \/ MainStep \/ Quiet

Spec == Init /\ [][Next]_vars

\* Every thread is scheduled; nobody has to push.
FairSpec == Spec /\ WF_vars(MainStep) /\ \A p \in Producers : WF_vars(Signal(p))
----------------------------------------------------------------------------
Commands == 1..MaxPush

TypeOK ==
  /\ queue \in Seq(Commands) /\ out \in Seq(Commands)
  /\ pushed \in Seq(Commands) /\ done \in Seq(Commands)
  /\ eventFd \in Nat
  /\ pc \in [Producers -> {"idle", "signal"}]
  /\ main \in {"wait", "swap", "read", "execute"}

\* Whatever the interleaving of push with the two halves of drain, a command is
\* neither lost nor executed twice, and commands are executed in the order in
\* which they entered the deque: a TaskDone never overtakes the reply pushed
\* before it.
NothingLost == pushed = done \o out \o queue

\* The two halves of push and of drain, each with a step outside the lock, make up
\* one step of CommandQueue each: main takes every command that entered the deque,
\* once, in the order of the pushes, and never while it still holds some.
Commanding == INSTANCE CommandQueue WITH
  Command <- Commands, commands <- out \o queue, drained <- Len(out)
ImplementsCommandQueue == Commanding!Spec

\* A push whose write to the eventfd comes while main sleeps in epoll_wait, or a
\* signal already there when main goes back to it, is acted upon: everything
\* pushed by then is executed, the commands an earlier drain left behind included.
SignalWakesMain ==
  \A k \in Commands :
    (/\ main = "wait" /\ Len(pushed) = k
     /\ eventFd > 0 \/ \E p \in Producers : pc[p] = "signal")
      ~> Len(done) >= k

\* ResultQueue.h: push puts the command and notifies the main thread, which takes
\* all commands and executes them.
EveryCommandExecuted == \A k \in Commands : Len(pushed) >= k ~> Len(done) >= k
============================================================================
