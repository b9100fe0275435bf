------------------------------ MODULE Storage ------------------------------
(***************************************************************************)
(* The repositories and the services that call them.  All workers share    *)
(* one SQLite connection, which serialises its calls; a step is one call,  *)
(* and the calls of different requests interleave.  What belongs to the    *)
(* connection is shared: the open transaction, the last rowid and the      *)
(* number of rows of the last change.                                      *)
(***************************************************************************)
EXTENDS Integers, FiniteSets

CONSTANTS
  Requests,    \* packets that may come, each handled by one worker
  MaxRequests, \* of them so many come
  Kind,        \* of each request: create, message, list, register or delete
  Users,       \* userIDs
  Pair,        \* the user who sends a request, and of a create request the peer
  Names,       \* usernames
  NameOf,      \* of a register or delete request: the username
  Registered,  \* usernames that exist at the start
  ChatNumbers, \* chatIDs that clients send, of whatever chat: the server checks none
  MaxFailures  \* statements that may fail: SQLITE_BUSY keeps the open transaction,
               \* SQLITE_FULL and SQLITE_IOERR roll it back

Kinds == {"create", "message", "list", "register", "delete"}

ASSUME RequestsAssumption ==
  /\ IsFiniteSet(Requests) /\ IsFiniteSet(Users) /\ IsFiniteSet(Names)
  /\ Kind \in [Requests -> Kinds] /\ MaxRequests \in Nat
  /\ Pair \in [Requests -> Users \X Users] /\ \A r \in Requests : Pair[r][1] # Pair[r][2]
  /\ NameOf \in [Requests -> Names] /\ Registered \subseteq Names
  /\ ChatNumbers \subseteq Nat \ {0} /\ MaxFailures \in Nat

VARIABLES
  db,       \* what the connection sees: users, chats, members, messages, next rowids
  saved,    \* the database as it was at BEGIN, NoTransaction outside a transaction
  rowid,    \* sqlite3_last_insert_rowid of the connection
  changes,  \* sqlite3_changes of the connection
  failures, \* statements that have failed
  pc,       \* the call each request makes next
  chatID,   \* local of findOrCreateDirectChat, field of MessageSend; -1 for none
  success,  \* the result the service puts in the reply
  rows,     \* what a SELECT of chats or members returned to a request
  lost,     \* history: requests between BEGIN and end whose transaction was ended by
            \* SQLite after an error, or by the COMMIT or ROLLBACK of another request
  mixed     \* history: requests that wrote or read a row in the transaction of another,
            \* or whose rowid another one has overwritten before they read it

vars == <<db, saved, rowid, changes, failures, pc, chatID, success, rows, lost, mixed>>
connVars == <<db, saved, rowid, changes, failures, lost>>

NoTransaction == [users |-> {}, chats |-> {}, members |-> {}, messages |-> {},
                  nextUser |-> 0, nextChat |-> 0, nextMessage |-> 0]
InTransaction == saved # NoTransaction

FirstCall(kind) ==
  CASE kind = "create" -> "peer" [] kind = "message" -> "save" [] kind = "list" -> "list"
    [] kind = "register" -> "exists" [] kind = "delete" -> "erase"

\* An AUTOINCREMENT counter is a row of the database: ROLLBACK restores it.
Init ==
  /\ db = [users |-> Registered, chats |-> {}, members |-> {}, messages |-> {},
           nextUser |-> Cardinality(Users) + Cardinality(Registered) + 1,
           nextChat |-> 1, nextMessage |-> 1]
  /\ saved = NoTransaction /\ rowid = 0 /\ changes = 0 /\ failures = 0
  /\ \E come \in SUBSET Requests :
       /\ Cardinality(come) <= MaxRequests
       /\ pc = [r \in Requests |-> IF r \in come THEN FirstCall(Kind[r]) ELSE "done"]
  /\ chatID = [r \in Requests |-> -1]
  /\ success = [r \in Requests |-> FALSE]
  /\ rows = [r \in Requests |-> {}]
  /\ lost = {} /\ mixed = {}

At(r, place) == pc[r] = place
GoTo(r, place) == pc' = [pc EXCEPT ![r] = place]
Answer(r, ok) == GoTo(r, "done") /\ success' = [success EXCEPT ![r] = ok]

PairSet(r) == {Pair[r][1], Pair[r][2]}
MembersIn(d, id) == {m[2] : m \in {n \in d.members : n[1] = id}}
Members(id) == MembersIn(db, id)

\* Requests between their BEGIN and their end.  The open transaction is of the one
\* among them that has not lost its own.
InsidePlaces == {"insert", "rowid", "member1", "member2", "commit", "rollback"}
Inside == {r \in Requests : pc[r] \in InsidePlaces}
Owns(r) == InTransaction /\ r \in Inside \ lost

\* What is left of the database when the open transaction is rolled back.
Stored == IF InTransaction THEN saved ELSE db

\* Rows of chats that a transaction has not committed.
Uncommitted(ids) ==
  InTransaction /\ \E id \in ids : id \in db.chats \ saved.chats \/ MembersIn(saved, id) # Members(id)
ReadsChats(r, ids) == mixed' = mixed \cup (IF Uncommitted(ids) THEN {r} ELSE {})
----------------------------------------------------------------------------
(* Statements of the connection, whatever request makes them               *)

\* SQLite takes back the open transaction, of whatever request, and goes on in
\* autocommit mode.
RolledBack ==
  /\ InTransaction /\ db' = saved /\ saved' = NoTransaction
  /\ lost' = lost \cup Inside
Failure ==
  /\ failures < MaxFailures /\ failures' = failures + 1
  /\ UNCHANGED <<db, saved, lost>> \/ RolledBack

\* A statement that fails without having written.
ReadFails == Failure /\ UNCHANGED <<rowid, changes>>

\* The last rowid is of the connection: a request that has yet to read its own now
\* reads this one.
Overwritten == {q \in Requests : At(q, "rowid") /\ rowid' # rowid}

\* A statement that writes.  Outside a transaction it is committed at once; the
\* transaction of another request takes it in.
Writes(r, newDb, newRowid, n) ==
  /\ db' = newDb /\ rowid' = newRowid /\ changes' = n
  /\ mixed' = mixed \cup Overwritten \cup (IF InTransaction /\ ~Owns(r) THEN {r} ELSE {})
  /\ UNCHANGED <<saved, failures, lost>>

\* A write that fails, perhaps after it has set the rowid; one that violates a
\* constraint has no other effect.
WriteFails(newRowid) ==
  /\ Failure /\ rowid' \in {rowid, newRowid} /\ changes' \in {0, changes}
  /\ mixed' = mixed \cup Overwritten
Refused == UNCHANGED <<db, saved, rowid, failures, lost, mixed>> /\ changes' \in {0, changes}
----------------------------------------------------------------------------
(* ChatService::handleCreateChatRequest and                                *)
(* ChatRepository::findOrCreateDirectChat                                  *)

\* getUserID of the peer: not found, or not authenticated, or the user itself.
LookUpPeer(r) ==
  /\ At(r, "peer")
  /\ \/ GoTo(r, "find") /\ UNCHANGED <<connVars, success>>
     \/ Answer(r, FALSE) /\ UNCHANGED connVars
     \/ ReadFails /\ Answer(r, FALSE)
  /\ UNCHANGED <<chatID, rows, mixed>>

\* The SELECT: a chat of exactly these two members, uncommitted rows included.  One
\* that cannot be prepared ends the request, one that fails later finds no chat.
Find(r) ==
  /\ At(r, "find")
  /\ \/ \E id \in db.chats :
          /\ Members(id) = PairSet(r)
          /\ chatID' = [chatID EXCEPT ![r] = id] /\ Answer(r, TRUE)
          /\ ReadsChats(r, {id}) /\ UNCHANGED connVars
     \/ /\ \A id \in db.chats : Members(id) # PairSet(r)
        /\ GoTo(r, "begin") /\ UNCHANGED <<connVars, chatID, success, mixed>>
     \/ /\ ReadFails /\ UNCHANGED <<chatID, mixed>>
        /\ Answer(r, FALSE) \/ (GoTo(r, "begin") /\ UNCHANGED success)
  /\ UNCHANGED rows

\* BEGIN fails inside a transaction.  The mutated form goes on all the same.
BeginUnchecked(r) ==
  /\ At(r, "begin")
  /\ saved' = IF InTransaction THEN saved ELSE db
  /\ GoTo(r, "insert")
  /\ UNCHANGED <<db, rowid, changes, failures, chatID, success, rows, lost, mixed>>
Begin(r) ==
  /\ At(r, "begin")
  /\ \/ /\ ~InTransaction /\ saved' = db /\ UNCHANGED <<failures, success>>
        /\ GoTo(r, "insert")
     \/ /\ InTransaction /\ UNCHANGED <<saved, failures>>
        /\ Answer(r, FALSE)
     \/ /\ failures < MaxFailures /\ failures' = failures + 1 /\ UNCHANGED saved
        /\ Answer(r, FALSE)
  /\ UNCHANGED <<db, rowid, changes, chatID, rows, lost, mixed>>

\* The mutated form does not look at the result.
AddsChat(r) ==
  Writes(r, [db EXCEPT !.chats = @ \cup {db.nextChat}, !.nextChat = @ + 1], db.nextChat, 1)
InsertChatUnchecked(r) ==
  /\ At(r, "insert") /\ GoTo(r, "rowid")
  /\ AddsChat(r) \/ WriteFails(db.nextChat)
  /\ UNCHANGED <<chatID, success, rows>>
InsertChat(r) ==
  /\ At(r, "insert")
  /\ \/ AddsChat(r) /\ GoTo(r, "rowid")
     \/ WriteFails(db.nextChat) /\ GoTo(r, "rollback")
  /\ UNCHANGED <<chatID, success, rows>>

LastInsertRowid(r) ==
  /\ At(r, "rowid")
  /\ chatID' = [chatID EXCEPT ![r] = rowid]
  /\ GoTo(r, "member1")
  /\ UNCHANGED <<connVars, success, rows, mixed>>

\* chat_members has a primary key over both columns.
InsertMember(r, place, user, next) ==
  LET newRowid == Cardinality(db.members) + 1 IN
  /\ At(r, place)
  /\ \/ /\ <<chatID[r], user>> \notin db.members
        /\ Writes(r, [db EXCEPT !.members = @ \cup {<<chatID[r], user>>}], newRowid, 1)
        /\ GoTo(r, next)
     \/ /\ WriteFails(newRowid) \/ (<<chatID[r], user>> \in db.members /\ Refused)
        /\ GoTo(r, "rollback")
  /\ UNCHANGED <<chatID, success, rows>>

InsertMembers(r) ==
  \/ InsertMember(r, "member1", Pair[r][1], "member2")
  \/ InsertMember(r, "member2", Pair[r][2], "commit")

\* COMMIT and ROLLBACK end the transaction that is open, of whatever request, and
\* fail if none is.  The mutated form does not look at the result.
EndsFor(r) == saved' = NoTransaction /\ lost' = lost \cup (Inside \ {r}) /\ UNCHANGED failures
NothingToEnd == ~InTransaction /\ UNCHANGED <<db, saved, failures, lost>>
CommitUnchecked(r) ==
  /\ At(r, "commit") /\ Answer(r, TRUE)
  /\ (InTransaction /\ EndsFor(r) /\ UNCHANGED db) \/ NothingToEnd \/ Failure
  /\ UNCHANGED <<rowid, changes, chatID, rows, mixed>>
Commit(r) ==
  /\ At(r, "commit")
  /\ \/ InTransaction /\ EndsFor(r) /\ UNCHANGED db /\ Answer(r, TRUE)
     \/ /\ NothingToEnd \/ Failure
        /\ GoTo(r, "rollback") /\ UNCHANGED success
  /\ UNCHANGED <<rowid, changes, chatID, rows, mixed>>

\* ROLLBACK takes back whatever the connection wrote since BEGIN, other requests'
\* rows included.  The mutated form commits what was done so far.
RollbackCommits(r) ==
  /\ At(r, "rollback") /\ Answer(r, FALSE)
  /\ (InTransaction /\ EndsFor(r) /\ UNCHANGED db) \/ NothingToEnd
  /\ UNCHANGED <<rowid, changes, chatID, rows, mixed>>
Rollback(r) ==
  /\ At(r, "rollback") /\ Answer(r, FALSE)
  /\ (InTransaction /\ EndsFor(r) /\ db' = saved) \/ NothingToEnd
  /\ UNCHANGED <<rowid, changes, chatID, rows, mixed>>

CreateStep(r) ==
  LookUpPeer(r) \/ Find(r) \/ Begin(r) \/ InsertChat(r) \/ LastInsertRowid(r)
    \/ InsertMembers(r) \/ Commit(r) \/ Rollback(r)
----------------------------------------------------------------------------
(* The other requests, each statement autocommitted outside a transaction  *)

\* ChatService::handleChatListRequest: the chats a user shares with another.  A
\* failure while rows are read ends the list there.
ChatsOf(user) == {id \in db.chats : user \in Members(id) /\ Members(id) # {user}}
GetUserChats(r) ==
  /\ At(r, "list")
  /\ \E ids \in SUBSET ChatsOf(Pair[r][1]) :
       /\ (ids = ChatsOf(Pair[r][1]) /\ UNCHANGED connVars) \/ ReadFails
       /\ rows' = [rows EXCEPT ![r] = ids]
       /\ ReadsChats(r, ids)
  /\ Answer(r, TRUE)
  /\ UNCHANGED chatID

\* MessageService::handleMessageSend: saveMessage, whose failure is only logged, then
\* getChatMemberIDs, for the recipients.  Nothing says that the chat exists or that
\* the sender is in it, and there is no foreign key.
SaveMessage(r) ==
  /\ At(r, "save")
  /\ \E id \in ChatNumbers : chatID' = [chatID EXCEPT ![r] = id]
  /\ \/ /\ Writes(r, [db EXCEPT !.messages = @ \cup {r}, !.nextMessage = @ + 1],
                  db.nextMessage, 1)
        /\ success' = [success EXCEPT ![r] = TRUE]
     \/ WriteFails(db.nextMessage) /\ UNCHANGED success
  /\ GoTo(r, "members")
  /\ UNCHANGED rows

GetChatMemberIDs(r) ==
  /\ At(r, "members")
  /\ \E users \in SUBSET Members(chatID[r]) :
       /\ (users = Members(chatID[r]) /\ UNCHANGED connVars) \/ ReadFails
       /\ rows' = [rows EXCEPT ![r] = users \ {Pair[r][1]}]
  /\ ReadsChats(r, {chatID[r]})
  /\ GoTo(r, "done")
  /\ UNCHANGED <<chatID, success>>

\* AuthService::handleRegisterRequest: userExists, which takes a failed SELECT for
\* an unknown name, then addUser.  The username is UNIQUE.
UserExists(r) ==
  /\ At(r, "exists")
  /\ \/ NameOf[r] \in db.users /\ Answer(r, FALSE) /\ UNCHANGED connVars
     \/ /\ (NameOf[r] \notin db.users /\ UNCHANGED connVars) \/ ReadFails
        /\ GoTo(r, "add") /\ UNCHANGED success
  /\ UNCHANGED <<chatID, rows, mixed>>

AddUser(r) ==
  /\ At(r, "add")
  /\ \/ /\ NameOf[r] \notin db.users
        /\ Writes(r, [db EXCEPT !.users = @ \cup {NameOf[r]}, !.nextUser = @ + 1],
                  db.nextUser, 1)
        /\ Answer(r, TRUE)
     \/ /\ WriteFails(db.nextUser) \/ (NameOf[r] \in db.users /\ Refused)
        /\ Answer(r, FALSE)
  /\ UNCHANGED <<chatID, rows>>

\* AuthService::handleDeleteRequest: the DELETE, then sqlite3_changes.
DeleteUser(r) ==
  /\ At(r, "erase")
  /\ \/ /\ Writes(r, [db EXCEPT !.users = @ \ {NameOf[r]}], rowid,
                  IF NameOf[r] \in db.users THEN 1 ELSE 0)
        /\ GoTo(r, "changes") /\ UNCHANGED success
     \/ WriteFails(rowid) /\ Answer(r, FALSE)
  /\ UNCHANGED <<chatID, rows>>

CountChanges(r) ==
  /\ At(r, "changes")
  /\ Answer(r, changes > 0)
  /\ UNCHANGED <<connVars, chatID, rows, mixed>>

Terminated == (\A r \in Requests : At(r, "done")) /\ UNCHANGED vars

Next ==
  \/ \E r \in Requests :
       \/ CreateStep(r) \/ GetUserChats(r) \/ SaveMessage(r) \/ GetChatMemberIDs(r)
       \/ UserExists(r) \/ AddUser(r) \/ DeleteUser(r) \/ CountChanges(r)
  \/ Terminated

Spec == Init /\ [][Next]_vars
----------------------------------------------------------------------------
Creators == {r \in Requests : Kind[r] = "create"}

Places == InsidePlaces \cup
  {"peer", "find", "begin", "save", "members", "list", "exists", "add", "erase", "changes", "done"}

Database == [users : SUBSET Names, chats : SUBSET (Nat \ {0}),
             members : SUBSET ((Nat \ {0}) \X Users), messages : SUBSET Requests,
             nextUser : Nat, nextChat : Nat, nextMessage : Nat]

TypeOK ==
  /\ db \in Database /\ saved \in Database
  /\ rowid \in Nat /\ changes \in {0, 1} /\ failures \in 0..MaxFailures
  /\ pc \in [Requests -> Places]
  /\ chatID \in [Requests -> (Nat \ {0}) \cup {-1}]
  /\ success \in [Requests -> BOOLEAN]
  /\ rows \in [Requests -> SUBSET (Users \cup Nat)]
  /\ lost \subseteq Requests /\ mixed \subseteq Requests

\* The connection has no lock around a transaction, but the failure of a second
\* BEGIN acts as one: while a transaction is open, exactly one of the requests
\* between BEGIN and end has opened it, and the others have lost theirs; outside a
\* transaction all of these have.  Until a statement has failed none has: the others'
\* COMMITs and ROLLBACKs leave it alone.
OneTransaction ==
  /\ InTransaction <=> Inside \ lost # {}
  /\ \A r, q \in Inside \ lost : r = q
  /\ failures = 0 => lost = {}

\* Members are committed two by two: whatever statement fails and whatever the
\* other requests write, a chat keeps one of the two users of a request, without
\* the other, only if this request goes on after its transaction has been ended.
MembersInPairs ==
  \A m \in Stored.members :
    \E r \in Creators :
      /\ chatID[r] = m[1] /\ m[2] \in PairSet(r)
      /\ r \in lost \/ PairSet(r) \subseteq MembersIn(Stored, m[1])

\* A request that has kept to its own transaction, whatever the others do, was
\* answered what is stored, also after ROLLBACKs: a chat it opened exists, with its
\* two users, and with others only if a request of them lost its transaction, or
\* read another's rowid, and goes by the same number; a chat it listed exists; its
\* message is stored when it was reported so, and goes to members of its chat only.
AnswersStored ==
  \A r \in Requests \ (lost \cup mixed) :
    /\ Kind[r] = "create" /\ success[r] =>
         /\ chatID[r] \in Stored.chats /\ PairSet(r) \subseteq MembersIn(Stored, chatID[r])
         /\ \/ PairSet(r) = MembersIn(Stored, chatID[r])
            \/ \E q \in Creators \cap (lost \cup mixed) : chatID[q] = chatID[r]
    /\ Kind[r] = "list" => rows[r] \subseteq Stored.chats
    /\ Kind[r] = "message" /\ success[r] => r \in Stored.messages
    /\ Kind[r] = "message" /\ At(r, "done") =>
         rows[r] \subseteq MembersIn(Stored, chatID[r]) \ {Pair[r][1]}
============================================================================
