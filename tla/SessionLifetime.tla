--------------------------- MODULE SessionLifetime ---------------------------
(***************************************************************************)
(* What SessionManager promises about the life of a ClientSession, without *)
(* its maps, its counters, the descriptor numbers and the command queue: a *)
(* session that closes is deleted at once when no task works for it, and   *)
(* otherwise with the report of its last task; no session outlives main(), *)
(* and main() ends when no task uses a session.                            *)
(***************************************************************************)
CONSTANTS Sessions, Tasks

VARIABLES
  state,  \* each session: unborn, open, closing or deleted
  work,   \* for each session, its tasks that main has not heard the end of
  using   \* the tasks that may still use their session

vars == <<state, work, using>>

Init ==
  /\ state = [s \in Sessions |-> "unborn"]
  /\ work = [s \in Sessions |-> {}]
  /\ using = {}

Connect(s) ==
  /\ state[s] = "unborn" /\ state' = [state EXCEPT ![s] = "open"]
  /\ UNCHANGED <<work, using>>

\* New tasks T for an open session.
Start(s, T) ==
  /\ state[s] = "open" /\ \A r \in Sessions : work[r] \cap T = {}
  /\ work' = [work EXCEPT ![s] = @ \cup T]
  /\ using' = using \cup T

Read(s, T) == Start(s, T) /\ UNCHANGED state

\* The session closes, after a last read or with T = {}.
Close(s, T) ==
  /\ Start(s, T)
  /\ state' = [state EXCEPT ![s] = IF work'[s] = {} THEN "deleted" ELSE "closing"]

Return(t) == t \in using /\ using' = using \ {t} /\ UNCHANGED <<state, work>>

Report(s, t) ==
  /\ state[s] # "deleted" /\ t \in work[s] \ using
  /\ work' = [work EXCEPT ![s] = @ \ {t}]
  /\ state' = IF state[s] = "closing" /\ work[s] = {t}
                THEN [state EXCEPT ![s] = "deleted"] ELSE state
  /\ UNCHANGED using

End ==
  /\ using = {}
  /\ state' = [s \in Sessions |-> IF state[s] = "unborn" THEN "unborn" ELSE "deleted"]
  /\ UNCHANGED <<work, using>>

Next ==
  \/ \E s \in Sessions, T \in SUBSET Tasks : Read(s, T) \/ Close(s, T)
  \/ \E s \in Sessions, t \in Tasks : Report(s, t)
  \/ \E s \in Sessions : Connect(s)
  \/ \E t \in Tasks : Return(t)
  \/ End

Spec == Init /\ [][Next]_vars
============================================================================
