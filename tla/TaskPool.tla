------------------------------ MODULE TaskPool ------------------------------
(***************************************************************************)
(* What ThreadPool promises its only client, the main thread, and what     *)
(* module WorkerThreads takes for granted: tasks are taken in the order    *)
(* they were submitted, each by one worker, at most NumWorkers at a time,  *)
(* and the pool stops only when no task is left.                           *)
(***************************************************************************)
EXTENDS Naturals, Sequences, FiniteSets

CONSTANTS MaxTasks, NumWorkers

VARIABLES
  queued,   \* tasks submitted and not taken, oldest first
  running,  \* tasks a worker holds
  finished, \* tasks that ended
  stopped   \* the workers are gone

vars == <<queued, running, finished, stopped>>

Init == queued = <<>> /\ running = {} /\ finished = {} /\ stopped = FALSE

\* Tasks are numbered in the order of submission.
Submit ==
  LET n == Len(queued) + Cardinality(running \cup finished) + 1 IN
  /\ ~stopped /\ n <= MaxTasks
  /\ queued' = Append(queued, n)
  /\ UNCHANGED <<running, finished, stopped>>

Take ==
  /\ queued # <<>> /\ Cardinality(running) < NumWorkers
  /\ running' = running \cup {Head(queued)} /\ queued' = Tail(queued)
  /\ UNCHANGED <<finished, stopped>>

Finish ==
  /\ \E t \in running : running' = running \ {t} /\ finished' = finished \cup {t}
  /\ UNCHANGED <<queued, stopped>>

Stop ==
  /\ queued = <<>> /\ running = {} /\ stopped' = TRUE
  /\ UNCHANGED <<queued, running, finished>>

Next == Submit \/ Take \/ Finish \/ Stop

Spec == Init /\ [][Next]_vars
============================================================================
