------------------------------- MODULE Client -------------------------------
(***************************************************************************)
(* The client: one thread, driven by the user, by the socket's signals and *)
(* by the dialogs, whose nested event loops keep slotReadyRead on the      *)
(* stack.  The server is external: its workers take the requests of the    *)
(* connection in any order, and their answers come in any order.           *)
(***************************************************************************)
EXTENDS Integers, Sequences, FiniteSets

CONSTANTS
  Names,         \* usernames the user types
  NoUser,        \* no username yet
  Chats,         \* chatIDs; they are positive
  MaxSent,       \* bound: packets the user makes the client send
  MaxPeer,       \* bound: messages of other users
  MemoryRunsOut  \* std::bad_alloc in Connection

ASSUME ClientAssumption ==
  /\ NoUser \notin Names /\ Chats \subseteq Nat \ {0}
  /\ MaxSent \in Nat /\ MaxPeer \in Nat /\ MemoryRunsOut \in BOOLEAN

VARIABLES
  socket,          \* Connection::socket_: connecting, connected or closed
  state,           \* Session::state_
  pendingUsername, \* AuthController::pendingUsername_
  username,        \* Session::username_
  window,          \* the window shown: account or chat; none once the client quits
  list,            \* chatIDs of the items of chatsListWidget, in order
  selected,        \* chatID of the selected item, 0 for none
  currentChat,     \* ChatWindow::currentChatID_
  history,         \* chats of the messages shown in messagesTextBrowser
  messageID,       \* ProtocolClient::messageID_
  inbox,           \* Connection::receiveBuffer_, cut into packets
  unread,          \* arrived while slotReadyRead was on the stack: not announced
  garbled,         \* receiveBuffer_ does not begin with a header
  dialog,          \* open from slotReadyRead: none, choose (a user) or notice
  requests,        \* on their way to the server or in its tasks
  answers,         \* on their way to the client
  serverUser,      \* the username the server has for this connection
  serverChats,     \* the user's chats in the server's database
  peerSent,        \* messages of other users so far
  erred,           \* history: a Transport error was reported on a connection still open
  lost             \* history: a login since the last attempt gets no answer

loginVars == <<state, pendingUsername, username, window>>
chatVars == <<list, selected, currentChat, history>>
inVars == <<inbox, unread, garbled>>
serverVars == <<answers, serverUser, serverChats, peerSent>>
vars == <<loginVars, chatVars, inVars, serverVars, socket, messageID, dialog, requests, erred, lost>>

Listed == {list[i] : i \in 1..Len(list)}
Packets(s) == {s[i] : i \in 1..Len(s)}
Idle == window # "none" /\ inbox = <<>> /\ dialog = "none"
MayAct == Idle /\ messageID < MaxSent

Init ==
  /\ socket = "connecting" /\ state = "Disconnected"
  /\ pendingUsername = NoUser /\ username = NoUser /\ window = "account"
  /\ list = <<>> /\ selected = 0 /\ currentChat = 0 /\ history = {}
  /\ messageID = 0 /\ inbox = <<>> /\ unread = <<>> /\ garbled = FALSE /\ dialog = "none"
  /\ requests = {} /\ answers = {} /\ serverUser = NoUser /\ serverChats = {}
  /\ peerSent = 0 /\ erred = FALSE /\ lost = FALSE
----------------------------------------------------------------------------
(* Sending                                                                 *)

\* MainController::slotError with a Transport error, emitted in the middle of a
\* slot.  The mutated form only logs.
SlotErrorLogs(next) == state' = next
SlotError(next) == state' = "Disconnected"

\* Connection::send: the state is next if the packet went out.
ConnectionSend(packet, next) ==
  \/ /\ socket = "connected"
     /\ requests' = requests \cup {packet}
     /\ state' = next /\ UNCHANGED erred
  \/ socket # "connected" /\ SlotError(next) /\ UNCHANGED <<requests, erred>>
  \/ /\ socket = "connected" /\ MemoryRunsOut
     /\ SlotError(next) /\ erred' = TRUE /\ UNCHANGED requests

\* ProtocolClient::send...Request
Send(request, next) ==
  /\ ConnectionSend(request, next)
  /\ messageID' = messageID + 1
----------------------------------------------------------------------------
(* The user                                                                *)

\* slotAuthRequested: a second attempt is ignored while one is under way.  The
\* mutated form does not look.
AuthAgain(name) ==
  /\ MayAct /\ window = "account"
  /\ pendingUsername' = name
  /\ Send([id |-> messageID, kind |-> "auth", name |-> name], "Authenticating")
  /\ lost' = FALSE
  /\ UNCHANGED <<username, window, chatVars, inVars, serverVars, socket, dialog>>
SlotAuthRequested(name) ==
  /\ MayAct /\ window = "account" /\ state # "Authenticating"
  /\ pendingUsername' = name
  /\ Send([id |-> messageID, kind |-> "auth", name |-> name], "Authenticating")
  /\ lost' = FALSE
  /\ UNCHANGED <<username, window, chatVars, inVars, serverVars, socket, dialog>>

\* slotRegRequested and slotDelRequested
SlotAccountRequested ==
  /\ MayAct /\ window = "account"
  /\ Send([id |-> messageID, kind |-> "account"], state)
  /\ UNCHANGED <<pendingUsername, username, window, chatVars, inVars, serverVars, socket, dialog,
                 lost>>

SlotFindUserRequested ==
  /\ MayAct /\ window = "chat"
  /\ Send([id |-> messageID, kind |-> "find"], state)
  /\ UNCHANGED <<pendingUsername, username, window, chatVars, inVars, serverVars, socket, dialog,
                 lost>>

\* slotClickedSendButton and slotMessageSendRequested: the message is shown, then sent.
SlotMessageSendRequested ==
  /\ MayAct /\ window = "chat" /\ currentChat # 0
  /\ history' = history \cup {currentChat}
  /\ Send([id |-> messageID, kind |-> "message", chat |-> currentChat], state)
  /\ UNCHANGED <<pendingUsername, username, window, list, selected, currentChat, inVars,
                 serverVars, socket, dialog, lost>>

\* slotChatSelectionChanged: another item, or the current one is deselected.
SlotChatSelectionChanged ==
  /\ Idle /\ window = "chat"
  /\ \/ \E c \in Listed \ {selected} : selected' = c /\ currentChat' = c
     \/ selected # 0 /\ selected' = 0 /\ UNCHANGED currentChat
  /\ history' = {}
  /\ UNCHANGED <<loginVars, list, inVars, serverVars, socket, messageID, dialog, requests, erred,
                 lost>>

\* slotAboutToQuit; the connection ends with the process.
SlotAboutToQuit ==
  /\ Idle /\ Send([id |-> messageID, kind |-> "disconnect"], state)
  /\ window' = "none" /\ socket' = "closed"
  /\ UNCHANGED <<pendingUsername, username, chatVars, inVars, serverVars, dialog, lost>>

UserStep ==
  \/ \E n \in Names : SlotAuthRequested(n)
  \/ SlotAccountRequested \/ SlotFindUserRequested \/ SlotMessageSendRequested
  \/ SlotChatSelectionChanged \/ SlotAboutToQuit
----------------------------------------------------------------------------
(* The socket                                                              *)

SlotConnected ==
  /\ Idle /\ socket = "connecting"
  /\ socket' = "connected" /\ state' = "Connected"
  /\ UNCHANGED <<pendingUsername, username, window, chatVars, inVars, serverVars, messageID,
                 dialog, requests, erred, lost>>

\* errorOccurred and disconnected: refused, closed or reset.  A dialog may be open.
SlotDisconnected ==
  /\ window # "none" /\ (inbox = <<>> \/ dialog # "none") /\ socket # "closed"
  /\ socket' = "closed" /\ state' = "Disconnected"
  /\ requests' = {} /\ answers' = {}
  /\ UNCHANGED <<pendingUsername, username, window, chatVars, inVars, serverUser, serverChats,
                 peerSent, messageID, dialog, erred, lost>>

\* What is thrown away: a Transport error if the memory ran out, else a Protocol error,
\* which slotError only logs.  Bytes of a cut packet may be left in front of the next.
Forget(packets) ==
  /\ inbox' = <<>> /\ garbled' \in BOOLEAN
  /\ lost' = (lost \/ \E a \in Packets(packets) : a.kind = "auth")
OutOfMemory == MemoryRunsOut /\ erred' = TRUE /\ state' = "Disconnected"
ProtocolError == UNCHANGED <<erred, state>>

\* slotReadyRead: readAll takes also what arrived unannounced.  Behind bytes that are
\* no header it is taken for a packet too large, of an unknown type or not complete.
Chunks == {<<a>> : a \in answers} \cup {s \in answers \X answers : s[1] # s[2]}

ReadyRead ==
  /\ Idle /\ socket = "connected" /\ unread' = <<>>
  /\ \E s \in Chunks :
       /\ answers' = answers \ Packets(s)
       /\ \/ ~garbled /\ inbox' = unread \o s /\ UNCHANGED <<state, erred, garbled, lost>>
          \/ Forget(unread \o s) /\ (OutOfMemory \/ (garbled /\ ProtocolError))
  /\ UNCHANGED <<pendingUsername, username, window, chatVars, serverUser, serverChats, peerSent,
                 socket, messageID, dialog, requests>>

\* The loop of slotReadyRead ends early: no memory for the body, or an answer that
\* lists chats or users and is over the limit.
Ready == window # "none" /\ dialog = "none" /\ inbox # <<>>
Front == Head(inbox)
ClearBuffer ==
  /\ Ready /\ Forget(inbox)
  /\ OutOfMemory \/ (Front.kind \in {"list", "find"} /\ ProtocolError)
  /\ UNCHANGED <<pendingUsername, username, window, chatVars, unread, serverVars, socket,
                 messageID, dialog, requests>>

\* Qt does not emit readyRead again while a slot connected to it is running.
ArriveUnannounced ==
  /\ dialog # "none" /\ socket = "connected"
  /\ \E a \in answers :
       /\ answers' = answers \ {a}
       /\ unread' = Append(unread, a)
  /\ UNCHANGED <<loginVars, chatVars, inbox, garbled, serverUser, serverChats, peerSent, socket,
                 messageID, dialog, requests, erred, lost>>
----------------------------------------------------------------------------
(* processIncomingPacket, on the packet at the front of inbox              *)

Take(kind) ==
  /\ Ready /\ Front.kind = kind
  /\ inbox' = Tail(inbox)
  /\ UNCHANGED <<unread, garbled, serverVars, socket>>

\* slotRawPacketReceived catches what the parser throws: the packet is gone.
BadPacket ==
  /\ MemoryRunsOut /\ Take(Front.kind)
  /\ ProtocolError /\ lost' = (lost \/ Front.kind = "auth")
  /\ UNCHANGED <<pendingUsername, username, window, chatVars, messageID, dialog, requests>>

SlotAuthFinished ==
  /\ Take("auth")
  /\ IF Front.ok
       THEN /\ username' = pendingUsername /\ window' = "chat"
            /\ Send([id |-> messageID, kind |-> "list"], "Authenticated")
       ELSE /\ state' = "Disconnected"
            /\ UNCHANGED <<username, window, messageID, requests, erred>>
  /\ UNCHANGED <<pendingUsername, chatVars, dialog, lost>>

\* slotRegistrationFinished and slotDeleteFinished
SlotAccountFinished ==
  /\ Take("account")
  /\ UNCHANGED <<loginVars, chatVars, messageID, dialog, requests, erred, lost>>

SlotUsersFound ==
  /\ Take("find")
  /\ dialog' = IF Front.ok THEN "choose" ELSE "notice"
  /\ UNCHANGED <<loginVars, chatVars, messageID, requests, erred, lost>>

\* addChat: a chat that is listed is not added again.  The mutated form adds it.
AddChatAgain(c) == list' = Append(list, c)
AddChat(c) == list' = IF c \in Listed THEN list ELSE Append(list, c)

\* The mutated form does not look at success; chatID is then 0.
ChatCreatedUnchecked ==
  /\ Take("create") /\ AddChat(Front.chat)
  /\ UNCHANGED <<loginVars, selected, currentChat, history, messageID, dialog, requests, erred,
                 lost>>
SlotChatCreated ==
  /\ Take("create")
  /\ IF Front.ok THEN AddChat(Front.chat) /\ UNCHANGED dialog
                 ELSE dialog' = "notice" /\ UNCHANGED list
  /\ UNCHANGED <<loginVars, selected, currentChat, history, messageID, requests, erred, lost>>

\* setChatList: clearing the widget deselects its item, which runs
\* slotChatSelectionChanged for the item that is still the current one.
Arranged(chats) ==
  CHOOSE s \in [1..Cardinality(chats) -> chats] : {s[i] : i \in DOMAIN s} = chats
SlotChatListReceived ==
  /\ Take("list")
  /\ list' = Arranged(Front.chats)
  /\ selected' = 0
  /\ history' = IF selected # 0 THEN {} ELSE history
  /\ UNCHANGED <<loginVars, currentChat, messageID, dialog, requests, erred, lost>>

\* appendIncomingMessage.  The mutated form shows it in any chat.
AppendAny(c) == history' = history \cup {c}
AppendIncomingMessage(c) ==
  IF c = currentChat THEN history' = history \cup {c} ELSE UNCHANGED history

SlotMessageReceived ==
  /\ Take("message")
  /\ AppendIncomingMessage(Front.chat)
  /\ UNCHANGED <<loginVars, list, selected, currentChat, messageID, dialog, requests, erred, lost>>

\* The nested event loop ends; slotUsersFound then asks for a chat with the user
\* chosen, if one was.
CloseDialog ==
  /\ dialog # "none" /\ dialog' = "none"
  /\ \/ /\ dialog = "choose" /\ messageID < MaxSent
        /\ Send([id |-> messageID, kind |-> "create"], state)
     \/ UNCHANGED <<state, messageID, requests, erred>>
  /\ UNCHANGED <<pendingUsername, username, window, chatVars, inVars, serverVars, socket, lost>>

ProcessIncomingPacket ==
  \/ SlotAuthFinished \/ SlotAccountFinished \/ SlotUsersFound \/ SlotChatCreated
  \/ SlotChatListReceived \/ SlotMessageReceived
----------------------------------------------------------------------------
(* The server, as the client sees it                                       *)

\* PacketDispatcher::dispatch catches what a service throws: no answer then.
Answer(a) == answers' = answers \cup {a} \/ UNCHANGED answers
Outcome(r, ok) == Answer([id |-> r.id, kind |-> r.kind, ok |-> ok])

\* PacketDispatcher drops a query that is too long, and answers no message.
HandleRequest(r) ==
  /\ socket = "connected" /\ requests' = requests \ {r}
  /\ \/ /\ r.kind = "auth"
        /\ \/ serverUser' = r.name /\ Outcome(r, TRUE)
           \/ Outcome(r, FALSE) /\ UNCHANGED serverUser
        /\ UNCHANGED serverChats
     \/ /\ r.kind = "account" /\ Outcome(r, TRUE)
        /\ UNCHANGED <<serverUser, serverChats>>
     \/ /\ r.kind = "list" /\ Answer([id |-> r.id, kind |-> r.kind, chats |-> serverChats])
        /\ UNCHANGED <<serverUser, serverChats>>
     \/ /\ r.kind = "find"
        /\ \E ok \in BOOLEAN : Outcome(r, ok)
        /\ UNCHANGED <<serverUser, serverChats>>
     \/ /\ r.kind = "create"
        /\ \/ \E c \in Chats :
                /\ Answer([id |-> r.id, kind |-> r.kind, ok |-> TRUE, chat |-> c])
                /\ serverChats' = serverChats \cup {c}
           \/ /\ Answer([id |-> r.id, kind |-> r.kind, ok |-> FALSE, chat |-> 0])
              /\ UNCHANGED serverChats
        /\ UNCHANGED serverUser
     \/ r.kind = "message" /\ UNCHANGED <<answers, serverUser, serverChats>>
  /\ lost' = (lost \/ (r.kind = "auth" /\ answers' = answers))
  /\ UNCHANGED <<loginVars, chatVars, inVars, peerSent, socket, messageID, dialog, erred>>

\* Another user writes, in a chat it may just have created.
PeerWrites ==
  /\ socket = "connected" /\ serverUser # NoUser /\ peerSent < MaxPeer
  /\ peerSent' = peerSent + 1
  /\ \E c \in Chats :
       /\ serverChats' = serverChats \cup {c}
       /\ answers' = answers \cup {[id |-> -peerSent - 1, kind |-> "message", chat |-> c]}
  /\ UNCHANGED <<loginVars, chatVars, inVars, serverUser, socket, messageID, dialog, requests,
                 erred, lost>>
----------------------------------------------------------------------------
\* The process has ended, or the user does nothing more.
Rest == UNCHANGED vars

Next ==
  \/ UserStep \/ SlotConnected \/ SlotDisconnected \/ ReadyRead \/ ClearBuffer
  \/ ArriveUnannounced \/ BadPacket \/ ProcessIncomingPacket \/ CloseDialog
  \/ (\E r \in requests : HandleRequest(r)) \/ PeerWrites \/ Rest

Spec == Init /\ [][Next]_vars
----------------------------------------------------------------------------
States == {"Disconnected", "Connected", "Authenticating", "Authenticated"}

Request ==
  [id : Nat, kind : {"auth"}, name : Names] \cup [id : Nat, kind : {"message"}, chat : Chats]
    \cup [id : Nat, kind : {"account", "find", "list", "create", "disconnect"}]
Packet ==
  [id : Int, kind : {"auth", "account", "find"}, ok : BOOLEAN]
    \cup [id : Int, kind : {"list"}, chats : SUBSET Chats]
    \cup [id : Int, kind : {"create"}, ok : BOOLEAN, chat : Chats \cup {0}]
    \cup [id : Int, kind : {"message"}, chat : Chats]

TypeOK ==
  /\ socket \in {"connecting", "connected", "closed"} /\ state \in States
  /\ {pendingUsername, username, serverUser} \subseteq Names \cup {NoUser}
  /\ window \in {"account", "chat", "none"} /\ dialog \in {"none", "choose", "notice"}
  /\ list \in Seq(Chats) /\ {selected, currentChat} \subseteq Chats \cup {0}
  /\ history \subseteq Chats /\ serverChats \subseteq Chats
  /\ {messageID, peerSent} \subseteq Nat /\ {garbled, erred, lost} \subseteq BOOLEAN
  /\ requests \subseteq Request /\ answers \subseteq Packet
  /\ {inbox, unread} \subseteq Seq(Packet)
  /\ dialog # "none" => window = "chat"

\* The name the client shows on the user's own messages is the one the server gives
\* to them: in the chat window username_ is what the server accepted on this
\* connection, although an AuthResponse does not say which login it answers.
LoginIsReal == window = "chat" /\ ~erred => username = serverUser

\* The list names a chat once, and only chats the user has, in whatever order the
\* answers to ChatListRequest and CreateChatRequest come.
ListedOnce == Cardinality(Listed) = Len(list) /\ Listed \subseteq serverChats

\* Every message shown belongs to the chat in which the next one will be sent,
\* whatever arrives or is reloaded between two selections.
HistoryOfCurrentChat == history \subseteq {currentChat}

\* While the account window waits for a login, the connection is open and the login is
\* on its way, as a request, an answer or a packet read, unless the server gave none or
\* a Protocol error swallowed it.  slotAuthRequested ignores the user in this state:
\* whatever else ends an attempt must have set the state, or nothing would.
LoginUnderWay ==
  window = "account" /\ state = "Authenticating" /\ ~lost =>
    /\ socket = "connected"
    /\ \E x \in requests \cup answers \cup Packets(inbox) : x.kind = "auth"
============================================================================
