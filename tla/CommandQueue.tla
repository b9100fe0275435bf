---------------------------- MODULE CommandQueue ----------------------------
(***************************************************************************)
(* What ResultQueue promises the two sides that use it, and what module    *)
(* ServerState takes for granted: one sequence of commands, to which a     *)
(* worker appends, and of which main, once it has executed the commands it *)
(* holds, takes all there are.                                             *)
(***************************************************************************)
EXTENDS Naturals, Sequences

CONSTANT Command

VARIABLES
  commands,  \* commands not yet executed, oldest first
  drained    \* how many of them main holds

vars == <<commands, drained>>

Init == commands = <<>> /\ drained = 0

Push == (\E c \in Command : commands' = Append(commands, c)) /\ UNCHANGED drained

Drain == drained = 0 /\ drained' = Len(commands) /\ UNCHANGED commands

Execute == drained > 0 /\ commands' = Tail(commands) /\ drained' = drained - 1

Next == Push \/ Drain \/ Execute

Spec == Init /\ [][Next]_vars
============================================================================
