--------------------------- MODULE WorkerThreads ---------------------------
(***************************************************************************)
(* The workers of ThreadPool and what their tasks do to the shared memory: *)
(* the lambda of SessionManager::onRead, PacketDispatcher::dispatch and,   *)
(* of the services, every access to a session, to the SessionRegistry and  *)
(* to the ResultQueue.  A step is one such access.  The database is left   *)
(* out: its answers are choices.                                           *)
(***************************************************************************)
EXTENDS ServerState

\* A step of task t of phase from, which dereferences session s.
Step(t, from, s) ==
  /\ Sane /\ phase[t] = from /\ life[s] = "live"
  /\ UNCHANGED <<managerVars, life, closed, wantWrite, submitted, owner, drained, loopVars>>

SetFrame(t, user, rcpts, peer) ==
  frame' = [frame EXCEPT ![t] = [user |-> user, rcpts |-> rcpts, peer |-> peer]]

GoTo(t, to) == phase' = [phase EXCEPT ![t] = to]

\* A free worker takes the oldest task of the deque.
Take(t) ==
  /\ Sane /\ phase[t] = "queued" /\ \A u \in Queued : t <= u
  /\ Cardinality(Running) < NumWorkers
  /\ GoTo(t, "check")
  /\ UNCHANGED <<managerVars, objectVars, byUserID, submitted, owner, frame, queueVars,
                 loopVars>>

\* isClosed(), then the kind of the packet chooses the handler.
CheckOpen(t) ==
  /\ Step(t, "check", owner[t])
  /\ UNCHANGED <<userID, byUserID, commands>>
  /\ \/ owner[t] \in closed /\ GoTo(t, "done") /\ UNCHANGED frame
     \/ /\ owner[t] \notin closed
        /\ \E kind \in Kinds :
             \/ kind = "request" /\ GoTo(t, "reply") /\ UNCHANGED frame
             \/ kind = "message" /\ GoTo(t, "message") /\ UNCHANGED frame
             \/ kind = "disconnect" /\ GoTo(t, "disconnect") /\ UNCHANGED frame
             \/ kind = "ignored" /\ GoTo(t, "done") /\ UNCHANGED frame
             \/ /\ kind = "auth" /\ GoTo(t, "auth")
                /\ \E u \in UsersOf[owner[t]] : SetFrame(t, u, {}, NoSession)

\* AuthService::handleAuthRequest, once the password matched: setAuthenticated,
\* registerUser, and the reply that every other request gets too.
Authenticate(t) ==
  /\ Step(t, "auth", owner[t])
  /\ userID' = [userID EXCEPT ![owner[t]] = frame[t].user]
  /\ GoTo(t, "register")
  /\ UNCHANGED <<byUserID, frame, commands>>

RegisterUser(t) ==
  /\ Sane /\ phase[t] = "register"
  /\ byUserID' = Registered(frame[t].user, owner[t])
  /\ GoTo(t, "reply")
  /\ UNCHANGED <<managerVars, objectVars, submitted, owner, frame, queueVars, loopVars>>

Reply(t) ==
  /\ Step(t, "reply", owner[t])
  /\ Push("SendRaw", owner[t], t)
  /\ GoTo(t, "done")
  /\ UNCHANGED <<userID, byUserID, frame>>

\* PacketDispatcher::handleDisconnectRequest
RequestClose(t) ==
  /\ Step(t, "disconnect", owner[t])
  /\ Push("Close", owner[t], t)
  /\ GoTo(t, "done")
  /\ UNCHANGED <<userID, byUserID, frame>>

\* MessageService::handleMessageSend: the sender's userID, the members of the chat.
ReadSender(t) ==
  LET sender == userID[owner[t]] IN
  /\ Step(t, "message", owner[t])
  /\ IF sender = NoUser
       THEN GoTo(t, "done") /\ UNCHANGED frame
       ELSE /\ GoTo(t, "find")
            /\ \E members \in SUBSET Users :
                 SetFrame(t, sender, members \ {sender}, NoSession)
  /\ UNCHANGED <<userID, byUserID, commands>>

\* broadcastToChat: findByUserID, sendRaw, and getUsername for the log.
FindRecipient(t) ==
  /\ Sane /\ phase[t] = "find"
  /\ \E u \in frame[t].rcpts :
       /\ SetFrame(t, frame[t].user, frame[t].rcpts \ {u}, byUserID[u])
       /\ GoTo(t, IF byUserID[u] = NoSession THEN "find" ELSE "push")
  /\ UNCHANGED <<managerVars, objectVars, byUserID, submitted, owner, queueVars, loopVars>>

PushToRecipient(t) ==
  /\ frame[t].peer # NoSession
  /\ Step(t, "push", frame[t].peer)
  /\ Push("SendRaw", frame[t].peer, t)
  /\ GoTo(t, "log")
  /\ UNCHANGED <<userID, byUserID, frame>>

LogRecipient(t) ==
  /\ frame[t].peer # NoSession
  /\ Step(t, "log", frame[t].peer)
  /\ GoTo(t, "find")
  /\ UNCHANGED <<userID, byUserID, frame, commands>>

EndBroadcast(t) ==
  /\ frame[t].rcpts = {}
  /\ Step(t, "find", owner[t])
  /\ GoTo(t, "done")
  /\ UNCHANGED <<userID, byUserID, frame, commands>>

\* The task ends by pushing TaskDone, and the worker is free again.
Finish(t) ==
  /\ Sane /\ phase[t] = "done"
  /\ Push("TaskDone", owner[t], t)
  /\ GoTo(t, "returned")
  /\ UNCHANGED <<managerVars, objectVars, byUserID, submitted, owner, frame, drained,
                 loopVars>>

\* A step that dereferences a deleted session has undefined behaviour: the model
\* says nothing of what the program does after it.
OwnerDeleted(t) ==
  /\ phase[t] \in Handling \ {"register", "push", "log"}
  /\ phase[t] = "find" => frame[t].rcpts = {}
  /\ life[owner[t]] = "deleted"
  /\ fault = "none" /\ fault' = "task"
  /\ UNCHANGED <<managerVars, objectVars, byUserID, taskVars, queueVars, loopVars>>

PeerDeleted(t) ==
  /\ phase[t] \in {"push", "log"}
  /\ frame[t].peer # NoSession /\ life[frame[t].peer] = "deleted"
  /\ fault = "none" /\ fault' = "peer"
  /\ UNCHANGED <<managerVars, objectVars, byUserID, taskVars, queueVars, loopVars>>

TaskStep(t) ==
  \/ Take(t) \/ CheckOpen(t) \/ Authenticate(t) \/ RegisterUser(t) \/ Reply(t)
  \/ RequestClose(t) \/ ReadSender(t) \/ FindRecipient(t) \/ PushToRecipient(t)
  \/ LogRecipient(t) \/ EndBroadcast(t) \/ Finish(t) \/ OwnerDeleted(t) \/ PeerDeleted(t)
============================================================================
