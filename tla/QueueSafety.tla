----------------------------- MODULE QueueSafety -----------------------------
(***************************************************************************)
(* Theorems about ResultQueue, for any number of producers and commands:   *)
(* whatever the interleaving of push and drain, no command is lost,        *)
(* executed twice or overtaken.                                            *)
(***************************************************************************)
EXTENDS ResultQueue, SequenceTheorems, TLAPS

\* Between two drains main holds no command.
MainHoldsNone == main \in {"wait", "swap"} => out = <<>>

\* Commands are numbered in the order in which they enter the deque.
Numbered == \A i \in 1..Len(pushed) : pushed[i] = i

Inv == TypeOK /\ NothingLost /\ MainHoldsNone /\ Numbered
----------------------------------------------------------------------------
\* Moving the first element of t to the end of s.
LEMMA MoveHead ==
  ASSUME NEW S, NEW s \in Seq(S), NEW t \in Seq(S), t # <<>>
  PROVE  Append(s, Head(t)) \o Tail(t) = s \o t
<1>1. /\ Head(t) \in S /\ Tail(t) \in Seq(S) /\ Len(Tail(t)) = Len(t) - 1
      /\ \A i \in 1..Len(Tail(t)) : Tail(t)[i] = t[i + 1]
      /\ Head(t) = t[1] /\ Len(t) \in Nat \ {0} /\ Len(s) \in Nat
  BY HeadTailProperties, EmptySeq, LenProperties
<1>2. /\ Append(s, Head(t)) \in Seq(S) /\ Len(Append(s, Head(t))) = Len(s) + 1
      /\ \A i \in 1..Len(s) : Append(s, Head(t))[i] = s[i]
      /\ Append(s, Head(t))[Len(s) + 1] = Head(t)
  BY <1>1, AppendProperties
<1> DEFINE u == Append(s, Head(t)) \o Tail(t)
           v == s \o t
<1>3. u \in Seq(S) /\ v \in Seq(S) /\ Len(u) = Len(v) /\ Len(v) = Len(s) + Len(t)
  BY <1>1, <1>2, ConcatProperties
<1>4. ASSUME NEW i \in 1..Len(u) PROVE u[i] = v[i]
  <2>1. v[i] = IF i <= Len(s) THEN s[i] ELSE t[i - Len(s)]
    BY <1>3, ConcatProperties
  <2>2. u[i] = IF i <= Len(s) + 1 THEN Append(s, Head(t))[i] ELSE Tail(t)[i - (Len(s) + 1)]
    BY <1>1, <1>2, <1>3, ConcatProperties
  <2>3. CASE i <= Len(s)
    BY <1>1, <1>2, <2>1, <2>2, <2>3
  <2>4. CASE i = Len(s) + 1
    BY <1>1, <1>2, <2>1, <2>2, <2>4
  <2>5. CASE i > Len(s) + 1
    <3>1. i - (Len(s) + 1) \in 1..Len(Tail(t))
      BY <1>1, <1>3, <2>5
    <3> QED BY <1>1, <2>1, <2>2, <2>5, <3>1
  <2> QED BY <1>1, <2>3, <2>4, <2>5
<1> HIDE DEF u, v
<1>5. u = v
  BY <1>3, <1>4, SeqEqual
<1> QED BY <1>5 DEF u, v

\* Appending behind a sequence that stands before.
LEMMA AppendBehind ==
  ASSUME NEW S, NEW s \in Seq(S), NEW t \in Seq(S), NEW c \in S
  PROVE  s \o Append(t, c) = Append(s \o t, c)
<1>1. s \o t \in Seq(S) /\ <<c>> \in Seq(S)
  BY ConcatProperties
<1>2. Append(t, c) = t \o <<c>> /\ Append(s \o t, c) = (s \o t) \o <<c>>
  BY <1>1, AppendIsConcat
<1>3. (s \o t) \o <<c>> = s \o (t \o <<c>>)
  BY <1>1, ConcatAssociative
<1> QED BY <1>2, <1>3

\* Taking the first element of a sequence that another follows.
LEMMA TailOfConcat ==
  ASSUME NEW S, NEW s \in Seq(S), NEW t \in Seq(S), s # <<>>
  PROVE  Tail(s) \o t = Tail(s \o t)
<1>1. /\ Tail(s) \in Seq(S) /\ Len(Tail(s)) = Len(s) - 1
      /\ \A i \in 1..Len(Tail(s)) : Tail(s)[i] = s[i + 1]
      /\ Len(s) \in Nat \ {0} /\ Len(t) \in Nat
  BY HeadTailProperties, EmptySeq, LenProperties
<1> DEFINE w == s \o t
           u == Tail(s) \o t
<1>2. /\ w \in Seq(S) /\ Len(w) = Len(s) + Len(t)
      /\ \A i \in 1..Len(w) : w[i] = IF i <= Len(s) THEN s[i] ELSE t[i - Len(s)]
  BY ConcatProperties
<1>3. /\ u \in Seq(S) /\ Len(u) = Len(s) - 1 + Len(t)
      /\ \A i \in 1..Len(u) : u[i] = IF i <= Len(s) - 1 THEN Tail(s)[i] ELSE t[i - (Len(s) - 1)]
  BY <1>1, ConcatProperties
<1> HIDE DEF w, u
<1>4. w # <<>>
  BY <1>1, <1>2, EmptySeq
<1>5. /\ Tail(w) \in Seq(S) /\ Len(Tail(w)) = Len(w) - 1
      /\ \A i \in 1..Len(Tail(w)) : Tail(w)[i] = w[i + 1]
  BY <1>2, <1>4, HeadTailProperties
<1>6. ASSUME NEW i \in 1..Len(u) PROVE u[i] = Tail(w)[i]
  <2>1. i \in 1..Len(Tail(w)) /\ i + 1 \in 1..Len(w)
    BY <1>1, <1>2, <1>3, <1>5
  <2> QED BY <1>1, <1>2, <1>3, <1>5, <2>1
<1>7. u = Tail(w)
  BY <1>1, <1>2, <1>3, <1>5, <1>6, SeqEqual
<1> QED BY <1>7 DEF u, w

LEMMA InitInv == Init => Inv
<1> SUFFICES ASSUME Init PROVE Inv
  OBVIOUS
<1>1. TypeOK
  BY EmptySeq DEF Init, TypeOK
<1>2. NothingLost
  BY DEF Init, NothingLost
<1> QED BY <1>1, <1>2 DEF Init, Inv, MainHoldsNone, Numbered

LEMMA AppendKeeps ==
  ASSUME Inv, NEW p \in Producers, AppendCommand(p)
  PROVE  Inv'
<1> DEFINE c == Len(pushed) + 1
<1>1. /\ Len(pushed) < MaxPush /\ queue' = Append(queue, c) /\ pushed' = Append(pushed, c)
      /\ pc' = [pc EXCEPT ![p] = "signal"] /\ UNCHANGED <<eventFd, main, out, done>>
  BY DEF AppendCommand
<1>2. c \in Commands /\ Len(pushed) \in Nat
  BY <1>1, MaxPushAssumption, LenProperties DEF Inv, TypeOK, Commands
<1>3. /\ queue' \in Seq(Commands) /\ pushed' \in Seq(Commands) /\ Len(pushed') = c
      /\ \A i \in 1..Len(pushed) : pushed'[i] = pushed[i]
      /\ pushed'[c] = c
  BY <1>1, <1>2, AppendProperties DEF Inv, TypeOK
<1> HIDE DEF c
<1>4. TypeOK'
  BY <1>1, <1>3 DEF Inv, TypeOK
<1>5. NothingLost'
  <2> DEFINE before == done \o out
  <2>1. before \in Seq(Commands) /\ queue \in Seq(Commands) /\ pushed = before \o queue
    BY ConcatProperties DEF Inv, TypeOK, NothingLost
  <2> HIDE DEF before
  <2>2. before \o Append(queue, c) = Append(before \o queue, c)
    BY <1>2, <2>1, AppendBehind
  <2>3. pushed' = before \o queue'
    BY <1>1, <2>1, <2>2
  <2> QED BY <1>1, <2>3 DEF NothingLost, before
<1>6. Numbered'
  BY <1>2, <1>3 DEF Inv, Numbered, c
<1> QED BY <1>1, <1>4, <1>5, <1>6 DEF Inv, MainHoldsNone

LEMMA SwapKeeps == Inv /\ Swap => Inv'
<1> SUFFICES ASSUME Inv, Swap PROVE Inv'
  OBVIOUS
<1>1. /\ out = <<>> /\ out' = queue /\ queue' = <<>> /\ main' = "read"
      /\ UNCHANGED <<eventFd, pc, pushed, done>>
  BY DEF Swap, Inv, MainHoldsNone
<1>2. TypeOK'
  BY <1>1, EmptySeq DEF Inv, TypeOK
<1>3. NothingLost'
  <2>1. done \in Seq(Commands) /\ queue \in Seq(Commands)
    BY DEF Inv, TypeOK
  <2>2. pushed = done \o queue
    BY <1>1, <2>1, ConcatEmptySeq DEF Inv, NothingLost
  <2>3. (done \o queue) \o <<>> = done \o queue
    BY <2>1, ConcatProperties, ConcatEmptySeq
  <2> QED BY <1>1, <2>2, <2>3 DEF NothingLost
<1> QED BY <1>1, <1>2, <1>3 DEF Inv, MainHoldsNone, Numbered

LEMMA ExecuteKeeps == Inv /\ Execute => Inv'
<1> SUFFICES ASSUME Inv, Execute PROVE Inv'
  OBVIOUS
<1>1. CASE out = <<>>
  BY <1>1 DEF Execute, Inv, TypeOK, NothingLost, MainHoldsNone, Numbered
<1>2. CASE out # <<>>
  <2>1. /\ done' = Append(done, Head(out)) /\ out' = Tail(out)
        /\ main = "execute" /\ UNCHANGED <<main, queue, eventFd, pc, pushed>>
    BY <1>2 DEF Execute
  <2>2. out \in Seq(Commands) /\ done \in Seq(Commands) /\ queue \in Seq(Commands)
    BY DEF Inv, TypeOK
  <2>3. Head(out) \in Commands /\ out' \in Seq(Commands) /\ done' \in Seq(Commands)
    BY <1>2, <2>1, <2>2, HeadTailProperties, AppendProperties
  <2>4. done' \o out' = done \o out
    BY <1>2, <2>1, <2>2, MoveHead
  <2> QED BY <2>1, <2>3, <2>4 DEF Inv, TypeOK, NothingLost, MainHoldsNone, Numbered
<1> QED BY <1>1, <1>2

LEMMA StepInv == Inv /\ [Next]_vars => Inv'
<1> SUFFICES ASSUME Inv, [Next]_vars PROVE Inv'
  OBVIOUS
<1>1. ASSUME NEW p \in Producers, Signal(p) PROVE Inv'
  BY <1>1 DEF Signal, Inv, TypeOK, NothingLost, MainHoldsNone, Numbered
<1>2. CASE EpollReturns
  BY <1>2 DEF EpollReturns, Inv, TypeOK, NothingLost, MainHoldsNone, Numbered
<1>3. CASE ReadEventFd
  BY <1>3 DEF ReadEventFd, Inv, TypeOK, NothingLost, MainHoldsNone, Numbered
<1>4. CASE UNCHANGED vars
  BY <1>4 DEF vars, Inv, TypeOK, NothingLost, MainHoldsNone, Numbered
<1> QED
  BY <1>1, <1>2, <1>3, <1>4, AppendKeeps, SwapKeeps, ExecuteKeeps DEF Next, MainStep, Quiet
----------------------------------------------------------------------------
\* The inductive invariant: beside NothingLost, that main holds no command between two
\* drains and that the deque was filled in the order of the numbers.
THEOREM Invariance == Spec => []Inv
BY InitInv, StepInv, PTL DEF Spec

\* TypeOK for any number of producers and commands.
THEOREM QueueTypes == Spec => []TypeOK
BY Invariance, PTL DEF Inv

\* A command that entered the deque is executed, about to be executed or still in it,
\* once, although push and drain touch the deque and the eventfd in separate steps.
THEOREM QueueLosesNothing == Spec => []NothingLost
BY Invariance, PTL DEF Inv

\* Main has executed the commands in the order in which they entered the deque: a
\* TaskDone never overtakes the reply the worker pushed before it.
ExecutedInOrder == \A i \in 1..Len(done) : done[i] = i
THEOREM QueueKeepsOrder == Spec => []ExecutedInOrder
<1>1. Inv => ExecutedInOrder
  <2> SUFFICES ASSUME Inv, NEW i \in 1..Len(done) PROVE done[i] = i
    BY DEF ExecutedInOrder
  <2>1. /\ done \in Seq(Commands) /\ out \in Seq(Commands) /\ queue \in Seq(Commands)
        /\ Len(done) \in Nat /\ Len(out) \in Nat /\ Len(queue) \in Nat
    BY LenProperties DEF Inv, TypeOK
  <2>2. /\ done \o out \in Seq(Commands) /\ Len(done \o out) = Len(done) + Len(out)
        /\ (done \o out)[i] = done[i]
    BY <2>1, ConcatProperties
  <2>3. Len(pushed) = Len(done \o out) + Len(queue) /\ pushed[i] = (done \o out)[i]
    BY <2>1, <2>2, ConcatProperties DEF Inv, NothingLost
  <2> QED BY <2>1, <2>2, <2>3 DEF Inv, Numbered
<1> QED BY <1>1, Invariance, PTL
----------------------------------------------------------------------------
(* Refinement: CommandQueue sees the commands main holds and the deque as  *)
(* one sequence.                                                           *)

LEMMA InitMaps == Init => Commanding!Init
BY EmptySeq, ConcatEmptySeq DEF Init, Commanding!Init

LEMMA AppendMaps ==
  ASSUME Inv, NEW p \in Producers, AppendCommand(p)
  PROVE  Commanding!Push
<1> DEFINE c == Len(pushed) + 1
<1>1. c \in Commands /\ queue' = Append(queue, c) /\ UNCHANGED out
  BY MaxPushAssumption, LenProperties DEF AppendCommand, Inv, TypeOK, Commands
<1>2. out \o Append(queue, c) = Append(out \o queue, c)
  BY <1>1, AppendBehind DEF Inv, TypeOK
<1> QED BY <1>1, <1>2 DEF Commanding!Push

LEMMA SwapMaps == Inv /\ Swap => Commanding!Drain
<1> SUFFICES ASSUME Inv, Swap PROVE Commanding!Drain
  OBVIOUS
<1>1. out = <<>> /\ out' = queue /\ queue' = <<>> /\ queue \in Seq(Commands)
  BY DEF Swap, Inv, TypeOK, MainHoldsNone
<1>2. out \o queue = queue /\ out' \o queue' = queue
  BY <1>1, ConcatEmptySeq
<1>3. Len(out) = 0
  BY <1>1, EmptySeq
<1> QED BY <1>1, <1>2, <1>3 DEF Commanding!Drain

LEMMA ExecuteMaps ==
  ASSUME Inv, Execute, out # <<>>
  PROVE  Commanding!Execute
<1>1. out' = Tail(out) /\ UNCHANGED queue /\ out \in Seq(Commands) /\ queue \in Seq(Commands)
  BY DEF Execute, Inv, TypeOK
<1>2. Tail(out) \o queue = Tail(out \o queue)
  BY <1>1, TailOfConcat
<1>3. Len(out) \in Nat /\ Len(out) > 0 /\ Len(Tail(out)) = Len(out) - 1
  BY <1>1, HeadTailProperties, EmptySeq, LenProperties
<1> QED BY <1>1, <1>2, <1>3 DEF Commanding!Execute

LEMMA StepMaps == Inv /\ [Next]_vars => [Commanding!Next]_(Commanding!vars)
<1> SUFFICES ASSUME Inv, [Next]_vars PROVE [Commanding!Next]_(Commanding!vars)
  OBVIOUS
<1>1. CASE UNCHANGED <<queue, out>>
  BY <1>1 DEF Commanding!vars
<1>2. CASE ~UNCHANGED <<queue, out>>
  <2>1. \/ \E p \in Producers : AppendCommand(p)
        \/ Swap
        \/ Execute /\ out # <<>>
    BY <1>2 DEF Next, MainStep, Signal, EpollReturns, ReadEventFd, Execute, Quiet, vars
  <2> QED BY <2>1, AppendMaps, SwapMaps, ExecuteMaps DEF Commanding!Next
<1> QED BY <1>1, <1>2

\* ResultQueue keeps the promises of CommandQueue, whatever the number of producers.
THEOREM QueueRefines == Spec => ImplementsCommandQueue
BY InitMaps, StepMaps, Invariance, PTL DEF Spec, ImplementsCommandQueue, Commanding!Spec
============================================================================
