---------------------------- MODULE ClientSafety ----------------------------
(***************************************************************************)
(* Theorems about Client, for any usernames, chats and numbers of packets, *)
(* with a server that answers in any order, or not at all.                 *)
(***************************************************************************)
EXTENDS Client, FiniteSetTheorems, SequenceTheorems, TLAPS

Coming == answers \cup Packets(inbox) \cup Packets(unread)

\* What is on its way names chats the user has.
Truthful ==
  /\ IsFiniteSet(serverChats)
  /\ \A a \in Coming :
       /\ a.kind = "list" => a.chats \subseteq serverChats
       /\ a.kind = "create" /\ a.ok => a.chat \in serverChats

\* Users and chats are asked for from the chat window only.
ChatKinds == {"find", "create"}
AskedInChat == window = "account" => \A x \in requests \cup Coming : x.kind \notin ChatKinds

\* A login on its way: as a request, as an answer, as an answer that was read.
Logins(S) == {x \in S : x.kind = "auth"}
ReadLogins == {i \in 1..Len(inbox) : inbox[i].kind = "auth"}
NoLogin == Logins(requests) = {} /\ Logins(answers) = {} /\ ReadLogins = {}
OneLogin ==
  /\ \A q, r \in Logins(requests) : q = r
  /\ \A a, b \in Logins(answers) : a = b
  /\ \A i, j \in ReadLogins : i = j
  /\ Logins(requests) # {} => Logins(answers) = {} /\ ReadLogins = {}
  /\ Logins(answers) # {} => ReadLogins = {}
  /\ Logins(Packets(unread)) = {}

\* One login at a time, for pendingUsername_, and only while the state says so.
MustBeIdle == window # "none" /\ (state # "Authenticating" \/ window = "chat" \/ socket # "connected")
LoginOK ==
  ~erred =>
    /\ OneLogin
    /\ MustBeIdle => NoLogin
    /\ \A r \in Logins(requests) : r.name = pendingUsername
    /\ \A a \in Logins(Coming) : a.ok => serverUser = pendingUsername
    /\ window = "chat" => username = serverUser

Inv ==
  TypeOK /\ Truthful /\ AskedInChat /\ LoginOK /\ ListedOnce /\ HistoryOfCurrentChat
----------------------------------------------------------------------------
(* Packets and buffers                                                     *)

LEMMA PacketFields ==
  ASSUME NEW a \in Packet
  PROVE  /\ a.kind \in {"auth", "account", "find", "list", "create", "message"}
         /\ a.kind \in {"auth", "account", "find", "create"} => a.ok \in BOOLEAN
         /\ a.kind = "list" => a.chats \subseteq Chats
         /\ a.kind = "create" => a.chat \in Chats \cup {0}
         /\ a.kind = "message" => a.chat \in Chats
BY DEF Packet

LEMMA RequestFields ==
  ASSUME NEW r \in Request
  PROVE  /\ r.kind \in {"auth", "account", "find", "list", "create", "disconnect", "message"}
         /\ r.id \in Nat
         /\ r.kind = "auth" => r.name \in Names
BY DEF Request

LEMMA InPackets ==
  ASSUME NEW s \in Seq(Packet), NEW i \in 1..Len(s)
  PROVE  s[i] \in Packet /\ s[i] \in Packets(s)
BY ElementOfSeq DEF Packets

LEMMA ComingType ==
  ASSUME TypeOK
  PROVE  Coming \subseteq Packet
BY InPackets DEF TypeOK, Coming, Packets

LEMMA PacketsConcat ==
  ASSUME NEW s \in Seq(Packet), NEW t \in Seq(Packet)
  PROVE  Packets(s \o t) = Packets(s) \cup Packets(t)
<1> DEFINE u == s \o t
<1>1. /\ Len(s) \in Nat /\ Len(t) \in Nat /\ Len(u) = Len(s) + Len(t)
      /\ \A i \in 1..Len(s) + Len(t) : u[i] = IF i <= Len(s) THEN s[i] ELSE t[i - Len(s)]
  BY ConcatProperties, LenProperties
<1> HIDE DEF u
<1>2. ASSUME NEW i \in 1..Len(u) PROVE u[i] \in Packets(s) \cup Packets(t)
  <2>1. CASE i <= Len(s)
    <3>1. i \in 1..Len(s) /\ u[i] = s[i]
      BY <1>1, <2>1
    <3> QED BY <3>1 DEF Packets
  <2>2. CASE i > Len(s)
    <3>1. i - Len(s) \in 1..Len(t) /\ u[i] = t[i - Len(s)]
      BY <1>1, <2>2
    <3> QED BY <3>1 DEF Packets
  <2> QED BY <1>1, <2>1, <2>2
<1>3. ASSUME NEW i \in 1..Len(s) PROVE s[i] \in Packets(u)
  <2>1. i \in 1..Len(u) /\ u[i] = s[i]
    BY <1>1
  <2> QED BY <2>1 DEF Packets
<1>4. ASSUME NEW i \in 1..Len(t) PROVE t[i] \in Packets(u)
  <2>1. Len(s) + i \in 1..Len(u) /\ u[Len(s) + i] = t[i]
    BY <1>1
  <2> QED BY <2>1 DEF Packets
<1>5. Packets(u) = Packets(s) \cup Packets(t)
  BY <1>2, <1>3, <1>4 DEF Packets
<1> QED BY <1>5 DEF u

LEMMA PacketsEmpty == Packets(<<>>) = {}
BY EmptySeq DEF Packets

\* A slot takes the packet at the front.
LEMMA TakeEffect ==
  ASSUME TypeOK, NEW kind, Take(kind)
  PROVE  /\ window # "none" /\ dialog = "none"
         /\ Front \in Packet /\ Front.kind = kind /\ Front \in Coming
         /\ inbox' \in Seq(Packet) /\ Len(inbox) \in Nat \ {0} /\ Len(inbox') = Len(inbox) - 1
         /\ inbox[1] = Front
         /\ \A i \in 1..Len(inbox') : i + 1 \in 1..Len(inbox) /\ inbox'[i] = inbox[i + 1]
         /\ Coming' \subseteq Coming
         /\ UNCHANGED <<unread, garbled, answers, serverUser, serverChats, peerSent, socket>>
<1>1. inbox \in Seq(Packet) /\ inbox # <<>> /\ inbox' = Tail(inbox)
  BY DEF TypeOK, Take, Ready
<1>2. /\ inbox' \in Seq(Packet) /\ Len(inbox) \in Nat \ {0} /\ Len(inbox') = Len(inbox) - 1
      /\ Head(inbox) = inbox[1]
      /\ \A i \in 1..Len(inbox') : inbox'[i] = inbox[i + 1]
  BY <1>1, HeadTailProperties, EmptySeq, LenProperties
<1>3. \A i \in 1..Len(inbox') : i + 1 \in 1..Len(inbox)
  BY <1>2
<1>4. 1 \in 1..Len(inbox)
  BY <1>2
<1>5. Front \in Packet /\ Front \in Coming
  BY <1>1, <1>2, <1>4, InPackets DEF Front, Coming
<1>6. UNCHANGED <<unread, garbled, answers, serverUser, serverChats, peerSent, socket>>
  BY DEF Take, serverVars
<1>7. Packets(inbox') \subseteq Packets(inbox)
  BY <1>2, <1>3 DEF Packets
<1>8. Coming' \subseteq Coming
  BY <1>6, <1>7 DEF Coming, Packets
<1> QED BY <1>2, <1>3, <1>5, <1>6, <1>8 DEF Take, Ready, Front

\* A call of readAll takes one or two answers, each once.
LEMMA ChunkFields ==
  ASSUME NEW s \in Chunks
  PROVE  /\ s \in Seq(answers) /\ Len(s) \in {1, 2}
         /\ \A i, j \in 1..Len(s) : s[i] = s[j] => i = j
<1>1. CASE \E a \in answers : s = <<a>>
  BY <1>1
<1>2. CASE \E a, b \in answers : s = <<a, b>> /\ a # b
  BY <1>2
<1>3. (\E a \in answers : s = <<a>>) \/ (\E a, b \in answers : s = <<a, b>> /\ a # b)
  BY DEF Chunks
<1> QED BY <1>1, <1>2, <1>3

\* What a buffer holds when answers are added to its end.
LEMMA Extended ==
  ASSUME TypeOK, NEW w \in Seq(Packet), NEW s \in Seq(answers)
  PROVE  /\ w \o s \in Seq(Packet) /\ s \in Seq(Packet)
         /\ Len(w) \in Nat /\ Len(s) \in Nat /\ Len(w \o s) = Len(w) + Len(s)
         /\ \A i \in 1..Len(w) + Len(s) :
              IF i <= Len(w) THEN (w \o s)[i] = w[i]
              ELSE i - Len(w) \in 1..Len(s) /\ (w \o s)[i] = s[i - Len(w)]
         /\ Packets(w \o s) = Packets(w) \cup Packets(s) /\ Packets(s) \subseteq answers
<1>1. s \in Seq(Packet)
  <2>1. answers \subseteq Packet
    BY DEF TypeOK
  <2> QED BY <2>1, SeqMonotonic
<1>2. /\ Len(w) \in Nat /\ Len(s) \in Nat /\ w \o s \in Seq(Packet)
      /\ Len(w \o s) = Len(w) + Len(s)
      /\ \A i \in 1..Len(w) + Len(s) : (w \o s)[i] = IF i <= Len(w) THEN w[i] ELSE s[i - Len(w)]
  BY ONLY <1>1, w \in Seq(Packet), ConcatProperties, LenProperties
<1>3. \A i \in 1..Len(w) + Len(s) : ~(i <= Len(w)) => i - Len(w) \in 1..Len(s)
  BY <1>2
<1>4. Packets(s) \subseteq answers
  BY ElementOfSeq DEF Packets
<1>5. Packets(w \o s) = Packets(w) \cup Packets(s)
  BY <1>1, PacketsConcat
<1> QED BY <1>1, <1>2, <1>3, <1>4, <1>5
----------------------------------------------------------------------------
(* What the actions do                                                     *)

\* Whatever the outcome, a request that is sent is the only new one, and the state is
\* next unless the connection is closed or an error is recorded.
LEMMA SendEffect ==
  ASSUME TypeOK, NEW request \in Request, NEW next \in States, Send(request, next)
  PROVE  /\ requests' \in SUBSET Request /\ requests \subseteq requests'
         /\ requests' \subseteq requests \cup {request}
         /\ messageID' \in Nat /\ erred' \in BOOLEAN /\ state' \in States /\ (erred => erred')
         /\ \/ socket = "connected" /\ state' = next
            \/ socket # "connected" /\ requests' = requests /\ state' = "Disconnected"
            \/ erred'
<1>1. /\ requests \subseteq Request /\ messageID \in Nat /\ erred \in BOOLEAN
  BY DEF TypeOK
<1>2. messageID' \in Nat
  BY <1>1 DEF Send
<1>3. CASE socket = "connected" /\ requests' = requests \cup {request} /\ state' = next
             /\ erred' = erred
  BY <1>1, <1>2, <1>3
<1>4. CASE socket # "connected" /\ state' = "Disconnected" /\ requests' = requests
             /\ erred' = erred
  BY <1>1, <1>2, <1>4 DEF States
<1>5. CASE state' = "Disconnected" /\ erred' = TRUE /\ requests' = requests
  BY <1>1, <1>2, <1>5 DEF States
<1> QED BY <1>3, <1>4, <1>5 DEF Send, ConnectionSend, SlotError

\* slotReadyRead takes the answers in order, or throws away all it has read.
LEMMA ReadEffect ==
  ASSUME TypeOK, ReadyRead
  PROVE  /\ Idle /\ socket = "connected" /\ unread' = <<>>
         /\ \E s \in Chunks :
              /\ answers' = answers \ Packets(s)
              /\ s \in Seq(answers) /\ Len(s) \in {1, 2}
              /\ \A i, j \in 1..Len(s) : s[i] = s[j] => i = j
              /\ \/ inbox' = unread \o s /\ UNCHANGED <<state, erred, lost>>
                 \/ /\ inbox' = <<>>
                    /\ lost' = (lost \/ \E a \in Packets(unread) \cup Packets(s) : a.kind = "auth")
                    /\ OutOfMemory \/ ProtocolError
         /\ {inbox', unread'} \subseteq Seq(Packet) /\ {garbled', lost'} \subseteq BOOLEAN
         /\ Coming' \subseteq Coming
         /\ UNCHANGED <<pendingUsername, username, window, chatVars, serverUser, serverChats,
                        peerSent, socket, messageID, dialog, requests>>
<1>1. PICK s \in Chunks :
        /\ answers' = answers \ Packets(s)
        /\ \/ ~garbled /\ inbox' = unread \o s /\ UNCHANGED <<state, erred, garbled, lost>>
           \/ Forget(unread \o s) /\ (OutOfMemory \/ (garbled /\ ProtocolError))
  BY DEF ReadyRead
<1>2. /\ s \in Seq(answers) /\ Len(s) \in {1, 2}
      /\ \A i, j \in 1..Len(s) : s[i] = s[j] => i = j
  BY ChunkFields
<1>3. inbox \in Seq(Packet) /\ unread \in Seq(Packet) /\ {garbled, lost} \subseteq BOOLEAN
  BY DEF TypeOK
<1>4. /\ unread \o s \in Seq(Packet) /\ Packets(s) \subseteq answers
      /\ Packets(unread \o s) = Packets(unread) \cup Packets(s)
  BY <1>2, <1>3, Extended
<1>5. /\ \/ inbox' = unread \o s /\ UNCHANGED <<state, erred, lost>>
         \/ /\ inbox' = <<>>
            /\ lost' = (lost \/ \E a \in Packets(unread) \cup Packets(s) : a.kind = "auth")
            /\ OutOfMemory \/ ProtocolError
      /\ garbled' \in BOOLEAN /\ lost' \in BOOLEAN
  BY <1>1, <1>3, <1>4 DEF Forget
<1>6. unread' = <<>> /\ inbox' \in Seq(Packet) /\ unread' \in Seq(Packet)
  BY <1>4, <1>5, EmptySeq DEF ReadyRead
<1>7. Packets(inbox') \subseteq Packets(unread) \cup answers /\ Packets(unread') = {}
  BY <1>4, <1>5, <1>6, PacketsEmpty
<1>8. Coming' = answers' \cup Packets(inbox') \cup Packets(unread')
  BY DEF Coming, Packets
<1>9. Coming' \subseteq Coming
  BY <1>1, <1>7, <1>8 DEF Coming
<1> QED BY <1>1, <1>2, <1>5, <1>6, <1>9 DEF ReadyRead

\* ClearBuffer throws away what was read and not yet processed.
LEMMA ClearEffect ==
  ASSUME TypeOK, ClearBuffer
  PROVE  /\ Ready /\ inbox' = <<>> /\ Packets(inbox') = {}
         /\ lost' = (lost \/ \E a \in Packets(inbox) : a.kind = "auth")
         /\ OutOfMemory \/ ProtocolError
         /\ inbox' \in Seq(Packet) /\ {garbled', lost'} \subseteq BOOLEAN
         /\ Coming' \subseteq Coming
         /\ UNCHANGED <<pendingUsername, username, window, chatVars, unread, serverVars, socket,
                        messageID, dialog, requests>>
<1>1. inbox' = <<>> /\ Packets(inbox') = {} /\ inbox' \in Seq(Packet)
  BY PacketsEmpty, EmptySeq DEF ClearBuffer, Forget
<1>2. UNCHANGED <<unread, answers>>
  BY DEF ClearBuffer, serverVars
<1>3. Coming' \subseteq Coming
  BY <1>1, <1>2 DEF Coming, Packets
<1> QED BY <1>1, <1>3 DEF ClearBuffer, Forget, TypeOK

LEMMA ArriveEffect ==
  ASSUME TypeOK, ArriveUnannounced
  PROVE  /\ dialog # "none" /\ socket = "connected"
         /\ answers' \subseteq answers /\ unread' \in Seq(Packet)
         /\ Packets(unread') \subseteq Packets(unread) \cup answers
         /\ Coming' \subseteq Coming
         /\ UNCHANGED <<loginVars, chatVars, inbox, garbled, serverUser, serverChats, peerSent,
                        socket, messageID, dialog, requests, erred, lost>>
<1>1. PICK a \in answers : answers' = answers \ {a} /\ unread' = Append(unread, a)
  BY DEF ArriveUnannounced
<1>2. unread \in Seq(Packet) /\ a \in Packet
  BY DEF TypeOK
<1>3. /\ unread' \in Seq(Packet) /\ Len(unread') = Len(unread) + 1 /\ Len(unread) \in Nat
      /\ unread'[Len(unread) + 1] = a
      /\ \A i \in 1..Len(unread) : unread'[i] = unread[i]
  BY <1>1, <1>2, AppendProperties, LenProperties
<1>4. Packets(unread') \subseteq Packets(unread) \cup {a}
  BY <1>3 DEF Packets
<1>5. Coming' = answers' \cup Packets(inbox') \cup Packets(unread') /\ inbox' = inbox
  BY DEF Coming, Packets, ArriveUnannounced
<1>6. Coming' \subseteq Coming
  BY <1>1, <1>4, <1>5 DEF Coming
<1> QED BY <1>1, <1>3, <1>4, <1>6 DEF ArriveUnannounced

\* setChatList shows every chat of the answer, each once.
LEMMA ArrangedFields ==
  ASSUME NEW S, IsFiniteSet(S)
  PROVE  /\ Arranged(S) \in Seq(S) /\ Len(Arranged(S)) = Cardinality(S)
         /\ {Arranged(S)[i] : i \in 1..Len(Arranged(S))} = S
<1> DEFINE n == Cardinality(S)
           IsArrangement(s) == s \in [1..n -> S] /\ {s[i] : i \in DOMAIN s} = S
<1>1. n \in Nat /\ ExistsBijection(1..n, S)
  BY FS_CardinalityType
<1>2. PICK f \in Bijection(1..n, S) : TRUE
  BY <1>1 DEF ExistsBijection
<1>3. f \in [1..n -> S] /\ \A x \in S : \E i \in 1..n : f[i] = x
  BY <1>2 DEF Bijection, Surjection, Injection
<1>4. IsArrangement(f)
  BY <1>3
<1>5. IsArrangement(Arranged(S))
  BY <1>4 DEF Arranged
<1>6. Arranged(S) \in Seq(S) /\ Len(Arranged(S)) = n /\ DOMAIN Arranged(S) = 1..n
  BY <1>1, <1>5
<1> QED BY <1>5, <1>6

LEMMA ListedTypes ==
  ASSUME TypeOK, Truthful, ListedOnce
  PROVE  Listed \subseteq Chats /\ IsFiniteSet(Listed) /\ IsFiniteSet(serverChats)
<1>1. Listed \subseteq serverChats /\ IsFiniteSet(serverChats) /\ serverChats \subseteq Chats
  BY DEF ListedOnce, Truthful, TypeOK
<1> QED BY <1>1, FS_Subset

\* The packet at the front tells the truth, and is not for another window.
LEMMA FrontIsTrue ==
  ASSUME Inv, NEW kind, Take(kind)
  PROVE  /\ kind = "list" => Front.chats \subseteq serverChats /\ IsFiniteSet(Front.chats)
         /\ kind = "create" /\ Front.ok => Front.chat \in serverChats
         /\ kind = "message" => Front.chat \in Chats
         /\ kind \in ChatKinds => window = "chat"
<1>1. TypeOK /\ Truthful /\ AskedInChat
  BY DEF Inv
<1>2. Front \in Packet /\ Front \in Coming /\ Front.kind = kind /\ window # "none"
  BY <1>1, TakeEffect
<1>3. IsFiniteSet(serverChats) /\ kind = "list" => Front.chats \subseteq serverChats
  BY <1>1, <1>2 DEF Truthful
<1>4. kind = "list" => IsFiniteSet(Front.chats)
  BY <1>1, <1>2, FS_Subset DEF Truthful
<1>5. kind = "create" /\ Front.ok => Front.chat \in serverChats
  BY <1>1, <1>2 DEF Truthful
<1>6. kind = "message" => Front.chat \in Chats
  BY <1>2, PacketFields
<1>7. kind \in ChatKinds => window = "chat"
  BY <1>1, <1>2 DEF AskedInChat, TypeOK
<1> QED BY <1>1, <1>2, <1>3, <1>4, <1>5, <1>6, <1>7 DEF Truthful
----------------------------------------------------------------------------
(* The types                                                               *)

LEMMA RequestsSent ==
  ASSUME TypeOK
  PROVE  /\ \A n \in Names : [id |-> messageID, kind |-> "auth", name |-> n] \in Request
         /\ \A k \in {"account", "find", "list", "create", "disconnect"} :
              [id |-> messageID, kind |-> k] \in Request
         /\ currentChat # 0 => [id |-> messageID, kind |-> "message", chat |-> currentChat] \in Request
BY DEF TypeOK, Request

LEMMA UserTypes ==
  ASSUME Inv, UserStep
  PROVE  TypeOK'
<1> USE DEF Inv
<1>1. ASSUME NEW n \in Names, SlotAuthRequested(n) PROVE TypeOK'
  <2> DEFINE q == [id |-> messageID, kind |-> "auth", name |-> n]
  <2>1. q \in Request
    BY RequestsSent
  <2>2. Send(q, "Authenticating") /\ "Authenticating" \in States
    BY <1>1 DEF SlotAuthRequested, States
  <2> HIDE DEF q
  <2>3. /\ requests' \subseteq Request /\ messageID' \in Nat /\ erred' \in BOOLEAN
        /\ state' \in States
    BY <2>1, <2>2, SendEffect
  <2> QED BY <1>1, <2>3 DEF SlotAuthRequested, TypeOK, chatVars, inVars, serverVars
<1>2. CASE SlotAccountRequested
  <2> DEFINE q == [id |-> messageID, kind |-> "account"]
  <2>1. q \in Request /\ state \in States
    BY RequestsSent DEF TypeOK
  <2>2. Send(q, state)
    BY <1>2 DEF SlotAccountRequested
  <2> HIDE DEF q
  <2>3. /\ requests' \subseteq Request /\ messageID' \in Nat /\ erred' \in BOOLEAN
        /\ state' \in States
    BY <2>1, <2>2, SendEffect
  <2> QED BY <1>2, <2>3 DEF SlotAccountRequested, TypeOK, chatVars, inVars, serverVars
<1>3. CASE SlotFindUserRequested
  <2> DEFINE q == [id |-> messageID, kind |-> "find"]
  <2>1. q \in Request /\ state \in States
    BY RequestsSent DEF TypeOK
  <2>2. Send(q, state)
    BY <1>3 DEF SlotFindUserRequested
  <2> HIDE DEF q
  <2>3. /\ requests' \subseteq Request /\ messageID' \in Nat /\ erred' \in BOOLEAN
        /\ state' \in States
    BY <2>1, <2>2, SendEffect
  <2> QED BY <1>3, <2>3 DEF SlotFindUserRequested, TypeOK, chatVars, inVars, serverVars
<1>4. CASE SlotMessageSendRequested
  <2> DEFINE q == [id |-> messageID, kind |-> "message", chat |-> currentChat]
  <2>1. q \in Request /\ state \in States
    BY <1>4, RequestsSent DEF TypeOK, SlotMessageSendRequested
  <2>2. Send(q, state)
    BY <1>4 DEF SlotMessageSendRequested
  <2> HIDE DEF q
  <2>3. /\ requests' \subseteq Request /\ messageID' \in Nat /\ erred' \in BOOLEAN
        /\ state' \in States
    BY <2>1, <2>2, SendEffect
  <2>4. history' \subseteq Chats
    BY <1>4 DEF SlotMessageSendRequested, TypeOK
  <2> QED BY <1>4, <2>3, <2>4 DEF SlotMessageSendRequested, TypeOK, inVars, serverVars
<1>5. CASE SlotChatSelectionChanged
  <2>1. Listed \subseteq Chats
    BY ListedTypes
  <2>2. selected' \in Chats \cup {0} /\ currentChat' \in Chats \cup {0} /\ history' = {}
    BY <1>5, <2>1 DEF SlotChatSelectionChanged, TypeOK
  <2> QED BY <1>5, <2>2 DEF SlotChatSelectionChanged, TypeOK, loginVars, inVars, serverVars
<1>6. CASE SlotAboutToQuit
  <2> DEFINE q == [id |-> messageID, kind |-> "disconnect"]
  <2>1. q \in Request /\ state \in States
    BY RequestsSent DEF TypeOK
  <2>2. Send(q, state) /\ dialog' = "none"
    BY <1>6 DEF SlotAboutToQuit, Idle
  <2> HIDE DEF q
  <2>3. /\ requests' \subseteq Request /\ messageID' \in Nat /\ erred' \in BOOLEAN
        /\ state' \in States
    BY <2>1, <2>2, SendEffect
  <2> QED BY <1>6, <2>2, <2>3 DEF SlotAboutToQuit, TypeOK, chatVars, inVars, serverVars
<1> QED BY <1>1, <1>2, <1>3, <1>4, <1>5, <1>6 DEF UserStep

LEMMA SocketTypes ==
  ASSUME Inv, \/ SlotConnected \/ SlotDisconnected \/ ReadyRead \/ ClearBuffer
              \/ ArriveUnannounced
  PROVE  TypeOK'
<1> USE DEF Inv
<1>1. CASE SlotConnected
  BY <1>1 DEF SlotConnected, TypeOK, States, chatVars, inVars, serverVars
<1>2. CASE SlotDisconnected
  BY <1>2 DEF SlotDisconnected, TypeOK, States, chatVars, inVars
<1>3. CASE ReadyRead
  <2>1. /\ inbox' \in Seq(Packet) /\ unread' \in Seq(Packet) /\ {garbled', lost'} \subseteq BOOLEAN
        /\ UNCHANGED <<pendingUsername, username, window, chatVars, serverUser, serverChats,
                       peerSent, socket, messageID, dialog, requests>>
    BY <1>3, ReadEffect
  <2>2. answers' \subseteq answers /\ state' \in States /\ erred' \in BOOLEAN
    BY <1>3 DEF ReadyRead, TypeOK, States, OutOfMemory, ProtocolError
  <2> QED BY <2>1, <2>2 DEF TypeOK, chatVars
<1>4. CASE ArriveUnannounced
  <2>1. /\ unread' \in Seq(Packet) /\ answers' \subseteq answers
        /\ UNCHANGED <<loginVars, chatVars, inbox, garbled, serverUser, serverChats, peerSent,
                       socket, messageID, dialog, requests, erred, lost>>
    BY <1>4, ArriveEffect
  <2> QED BY <2>1 DEF TypeOK, loginVars, chatVars
<1>5. CASE ClearBuffer
  <2>1. /\ inbox' \in Seq(Packet) /\ {garbled', lost'} \subseteq BOOLEAN
        /\ UNCHANGED <<pendingUsername, username, window, chatVars, unread, serverVars, socket,
                       messageID, dialog, requests>>
    BY <1>5, ClearEffect
  <2>2. state' \in States /\ erred' \in BOOLEAN
    BY <1>5, ClearEffect DEF TypeOK, States, OutOfMemory, ProtocolError
  <2> QED BY <2>1, <2>2 DEF TypeOK, chatVars, serverVars
<1> QED BY <1>1, <1>2, <1>3, <1>4, <1>5

LEMMA PacketTypes ==
  ASSUME Inv, ProcessIncomingPacket \/ BadPacket
  PROVE  TypeOK'
<1> USE DEF Inv
<1>a. ASSUME NEW kind, Take(kind)
      PROVE  /\ window # "none" /\ dialog = "none" /\ inbox' \in Seq(Packet)
             /\ UNCHANGED <<unread, garbled, answers, serverUser, serverChats, peerSent, socket>>
  BY <1>a, TakeEffect
<1>1. CASE SlotAuthFinished
  <2>1. /\ window # "none" /\ dialog' = "none" /\ inbox' \in Seq(Packet)
        /\ UNCHANGED <<unread, garbled, answers, serverUser, serverChats, peerSent, socket>>
    BY <1>1, <1>a DEF SlotAuthFinished
  <2>2. CASE Front.ok
    <3> DEFINE q == [id |-> messageID, kind |-> "list"]
    <3>1. q \in Request /\ "Authenticated" \in States
      BY RequestsSent DEF States
    <3>2. Send(q, "Authenticated") /\ username' = pendingUsername /\ window' = "chat"
      BY <1>1, <2>2 DEF SlotAuthFinished
    <3> HIDE DEF q
    <3>3. /\ requests' \subseteq Request /\ messageID' \in Nat /\ erred' \in BOOLEAN
          /\ state' \in States
      BY <3>1, <3>2, SendEffect
    <3> QED BY <1>1, <2>1, <3>2, <3>3 DEF SlotAuthFinished, TypeOK, chatVars
  <2>3. CASE ~Front.ok
    BY <1>1, <2>1, <2>3 DEF SlotAuthFinished, TypeOK, chatVars, States
  <2> QED BY <2>2, <2>3
<1>2. CASE SlotAccountFinished
  BY <1>2, <1>a DEF SlotAccountFinished, TypeOK, loginVars, chatVars
<1>3. CASE SlotUsersFound
  <2>1. window = "chat" /\ window' = window /\ dialog' \in {"choose", "notice"}
    BY <1>3, FrontIsTrue DEF SlotUsersFound, ChatKinds, loginVars
  <2> QED BY <1>3, <1>a, <2>1 DEF SlotUsersFound, TypeOK, loginVars, chatVars
<1>4. CASE SlotChatCreated
  <2>1. window = "chat" /\ window' = window /\ dialog' \in {"none", "notice"}
    BY <1>4, <1>a, FrontIsTrue DEF SlotChatCreated, ChatKinds, loginVars
  <2>2. list' \in Seq(Chats)
    <3>1. list \in Seq(Chats)
      BY DEF TypeOK
    <3>2. CASE Front.ok
      <4>1. Front.chat \in Chats
        BY <1>4, <3>2, FrontIsTrue DEF SlotChatCreated, TypeOK
      <4> QED BY <1>4, <3>1, <3>2, <4>1, AppendProperties DEF SlotChatCreated, AddChat
    <3>3. CASE ~Front.ok
      BY <1>4, <3>1, <3>3 DEF SlotChatCreated
    <3> QED BY <3>2, <3>3
  <2> QED BY <1>4, <1>a, <2>1, <2>2 DEF SlotChatCreated, TypeOK, loginVars
<1>5. CASE SlotChatListReceived
  <2>1. list' \in Seq(Chats)
    <3>1. Front.chats \subseteq Chats /\ IsFiniteSet(Front.chats)
      BY <1>5, FrontIsTrue DEF SlotChatListReceived, TypeOK
    <3>2. list' \in Seq(Front.chats)
      BY <1>5, <3>1, ArrangedFields DEF SlotChatListReceived
    <3> QED BY <3>1, <3>2, SeqMonotonic
  <2>2. selected' = 0 /\ history' \subseteq Chats
    BY <1>5 DEF SlotChatListReceived, TypeOK
  <2> QED BY <1>5, <1>a, <2>1, <2>2 DEF SlotChatListReceived, TypeOK, loginVars
<1>6. CASE SlotMessageReceived
  <2>1. history' \subseteq Chats
    BY <1>6, FrontIsTrue DEF SlotMessageReceived, AppendIncomingMessage, TypeOK
  <2> QED BY <1>6, <1>a, <2>1 DEF SlotMessageReceived, TypeOK, loginVars
<1>7. CASE BadPacket
  <2>1. Take(Front.kind)
    BY <1>7 DEF BadPacket
  <2> QED BY <1>7, <1>a, <2>1 DEF BadPacket, ProtocolError, TypeOK, chatVars
<1> QED BY <1>1, <1>2, <1>3, <1>4, <1>5, <1>6, <1>7 DEF ProcessIncomingPacket

LEMMA DialogTypes ==
  ASSUME Inv, CloseDialog
  PROVE  TypeOK'
<1>1. /\ requests' \subseteq Request /\ messageID' \in Nat /\ erred' \in BOOLEAN
      /\ state' \in States
  <2> DEFINE q == [id |-> messageID, kind |-> "create"]
  <2>1. TypeOK /\ q \in Request /\ state \in States
    BY RequestsSent DEF Inv, TypeOK
  <2>2. CASE Send(q, state)
    <3> HIDE DEF q
    <3> QED BY <2>1, <2>2, SendEffect
  <2>3. CASE UNCHANGED <<state, messageID, requests, erred>>
    BY <2>3 DEF Inv, TypeOK
  <2> QED BY <2>2, <2>3 DEF CloseDialog
<1> QED BY <1>1 DEF CloseDialog, Inv, TypeOK, chatVars, inVars, serverVars

\* The answers of the server are packets, and name only chats.
LEMMA ServerAnswers ==
  ASSUME Inv, NEW r \in requests, HandleRequest(r)
  PROVE  /\ socket = "connected" /\ requests' = requests \ {r}
         /\ serverChats' \subseteq Chats /\ serverChats \subseteq serverChats'
         /\ IsFiniteSet(serverChats')
         /\ serverUser' \in Names \cup {NoUser} /\ (r.kind # "auth" => serverUser' = serverUser)
         /\ \/ answers' = answers
            \/ \E a \in Packet :
                 /\ answers' = answers \cup {a} /\ a.kind = r.kind
                 /\ a.kind = "list" => a.chats \subseteq serverChats'
                 /\ a.kind = "create" /\ a.ok => a.chat \in serverChats'
                 /\ a.kind = "auth" /\ a.ok => serverUser' = r.name
         /\ lost' \in BOOLEAN /\ lost' = (lost \/ (r.kind = "auth" /\ answers' = answers))
         /\ UNCHANGED <<loginVars, chatVars, inVars, peerSent, socket, messageID, dialog, erred>>
<1>0. lost' \in BOOLEAN /\ lost' = (lost \/ (r.kind = "auth" /\ answers' = answers))
  BY DEF HandleRequest, Inv, TypeOK
<1>1. /\ r \in Request /\ serverChats \subseteq Chats /\ serverUser \in Names \cup {NoUser}
      /\ IsFiniteSet(serverChats)
  BY DEF Inv, TypeOK, Truthful
<1>2. /\ r.id \in Int /\ (r.kind = "auth" => r.name \in Names)
  BY <1>1, RequestFields
<1> DEFINE Told(a) ==
             /\ a \in Packet /\ answers' = answers \cup {a} /\ a.kind = r.kind
             /\ a.kind = "list" => a.chats \subseteq serverChats'
             /\ a.kind = "create" /\ a.ok => a.chat \in serverChats'
             /\ a.kind = "auth" /\ a.ok => serverUser' = r.name
           Kept == /\ serverChats' \subseteq Chats /\ serverChats \subseteq serverChats'
                   /\ IsFiniteSet(serverChats') /\ serverUser' \in Names \cup {NoUser}
                   /\ (r.kind # "auth" => serverUser' = serverUser)
<1>3. CASE r.kind = "auth"
  <2>1. serverChats' = serverChats
    BY <1>3 DEF HandleRequest
  <2>2. PICK ok \in BOOLEAN :
          /\ \/ answers' = answers \cup {[id |-> r.id, kind |-> r.kind, ok |-> ok]}
             \/ answers' = answers
          /\ IF ok THEN serverUser' = r.name ELSE serverUser' = serverUser
    BY <1>3 DEF HandleRequest, Outcome, Answer
  <2>3. answers' = answers \/ Told([id |-> r.id, kind |-> r.kind, ok |-> ok])
    BY <1>2, <1>3, <2>1, <2>2 DEF Packet
  <2>4. Kept
    BY <1>1, <1>2, <1>3, <2>1, <2>2
  <2> QED BY <1>0, <2>3, <2>4 DEF HandleRequest
<1>4. CASE r.kind \in {"account", "find"}
  <2>1. serverChats' = serverChats /\ serverUser' = serverUser
    BY <1>4 DEF HandleRequest
  <2>2. \/ answers' = answers
        \/ \E ok \in BOOLEAN : answers' = answers \cup {[id |-> r.id, kind |-> r.kind, ok |-> ok]}
    BY <1>4 DEF HandleRequest, Outcome, Answer
  <2>3. ASSUME NEW ok \in BOOLEAN,
               answers' = answers \cup {[id |-> r.id, kind |-> r.kind, ok |-> ok]}
        PROVE  Told([id |-> r.id, kind |-> r.kind, ok |-> ok])
    BY <1>2, <1>4, <2>3 DEF Packet
  <2>4. Kept
    BY <1>1, <2>1
  <2> QED BY <1>0, <2>2, <2>3, <2>4 DEF HandleRequest
<1>5. CASE r.kind = "list"
  <2>1. /\ serverChats' = serverChats /\ serverUser' = serverUser
        /\ \/ answers' = answers \cup {[id |-> r.id, kind |-> r.kind, chats |-> serverChats]}
           \/ answers' = answers
    BY <1>5 DEF HandleRequest, Answer
  <2>2. answers' = answers \/ Told([id |-> r.id, kind |-> r.kind, chats |-> serverChats])
    BY <1>1, <1>2, <1>5, <2>1 DEF Packet
  <2>3. Kept
    BY <1>1, <2>1
  <2> QED BY <1>0, <2>2, <2>3 DEF HandleRequest
<1>6. CASE r.kind = "create"
  <2>1. serverUser' = serverUser
    BY <1>6 DEF HandleRequest
  <2> DEFINE Made(c) == [id |-> r.id, kind |-> r.kind, ok |-> TRUE, chat |-> c]
             Refused == [id |-> r.id, kind |-> r.kind, ok |-> FALSE, chat |-> 0]
  <2>2. CASE \E c \in Chats :
               /\ serverChats' = serverChats \cup {c}
               /\ answers' = answers \cup {Made(c)} \/ answers' = answers
    <3>1. PICK c \in Chats :
            /\ serverChats' = serverChats \cup {c}
            /\ answers' = answers \cup {Made(c)} \/ answers' = answers
      BY <2>2
    <3>2. answers' = answers \/ Told(Made(c))
      BY <1>2, <1>6, <3>1 DEF Packet
    <3>3. Kept
      BY <1>1, <2>1, <3>1, FS_AddElement
    <3> QED BY <1>0, <3>2, <3>3 DEF HandleRequest
  <2>3. CASE /\ serverChats' = serverChats
             /\ answers' = answers \cup {Refused} \/ answers' = answers
    <3>1. answers' = answers \/ Told(Refused)
      BY <1>2, <1>6, <2>3 DEF Packet
    <3>2. Kept
      BY <1>1, <2>1, <2>3
    <3> QED BY <1>0, <3>1, <3>2 DEF HandleRequest
  <2> QED BY <1>6, <2>2, <2>3 DEF HandleRequest, Answer
<1>7. CASE r.kind = "message"
  <2>1. UNCHANGED <<answers, serverUser, serverChats>>
    BY <1>7 DEF HandleRequest
  <2> QED BY <1>0, <1>1, <2>1 DEF HandleRequest
<1> QED BY <1>3, <1>4, <1>5, <1>6, <1>7 DEF HandleRequest

LEMMA PeerAnswers ==
  ASSUME Inv, PeerWrites
  PROVE  /\ serverChats' \subseteq Chats /\ serverChats \subseteq serverChats'
         /\ IsFiniteSet(serverChats')
         /\ peerSent' \in Nat /\ \E a \in Packet : a.kind = "message" /\ answers' = answers \cup {a}
         /\ UNCHANGED <<loginVars, chatVars, inVars, serverUser, socket, messageID, dialog, requests,
                        erred, lost>>
<1>1. PICK c \in Chats :
        /\ serverChats' = serverChats \cup {c}
        /\ answers' = answers \cup {[id |-> -peerSent - 1, kind |-> "message", chat |-> c]}
  BY DEF PeerWrites
<1>2. peerSent \in Nat /\ serverChats \subseteq Chats /\ IsFiniteSet(serverChats)
  BY DEF Inv, TypeOK, Truthful
<1>3. [id |-> -peerSent - 1, kind |-> "message", chat |-> c] \in Packet
  BY <1>2 DEF Packet
<1>4. IsFiniteSet(serverChats') /\ peerSent' \in Nat
  BY <1>1, <1>2, FS_AddElement DEF PeerWrites
<1> QED BY <1>1, <1>2, <1>3, <1>4 DEF PeerWrites

LEMMA ServerSideTypes ==
  ASSUME Inv, (\E r \in requests : HandleRequest(r)) \/ PeerWrites
  PROVE  TypeOK'
<1>1. CASE \E r \in requests : HandleRequest(r)
  <2>1. PICK r \in requests : HandleRequest(r)
    BY <1>1
  <2>2. answers' \subseteq Packet /\ requests' \subseteq requests /\ serverChats' \subseteq Chats
        /\ serverUser' \in Names \cup {NoUser} /\ lost' \in BOOLEAN
        /\ UNCHANGED <<loginVars, chatVars, inVars, peerSent, socket, messageID, dialog, erred>>
    <3>1. answers \subseteq Packet
      BY DEF Inv, TypeOK
    <3> QED BY <2>1, <3>1, ServerAnswers
  <2> QED BY <2>2 DEF Inv, TypeOK, loginVars, chatVars, inVars
<1>2. CASE PeerWrites
  <2>1. answers \subseteq Packet
    BY DEF Inv, TypeOK
  <2>2. answers' \subseteq Packet
    BY <1>2, <2>1, PeerAnswers
  <2> QED BY <1>2, <2>2, PeerAnswers DEF Inv, TypeOK, loginVars, chatVars, inVars
<1> QED BY <1>1, <1>2
----------------------------------------------------------------------------
(* The chats that are on their way                                         *)

\* An action other than the server's brings no answer and no chat.
NothingTold == Coming' \subseteq Coming /\ serverChats' = serverChats

LEMMA TruthfulKept ==
  ASSUME Truthful, NothingTold
  PROVE  Truthful'
BY DEF Truthful, NothingTold

LEMMA BuffersKept ==
  ASSUME UNCHANGED <<inVars, answers>>
  PROVE  Coming' = Coming /\ ReadLogins' = ReadLogins
BY DEF Coming, Packets, ReadLogins, inVars

LEMMA ClientTellsNothing ==
  ASSUME Inv, \/ UserStep \/ SlotConnected \/ SlotDisconnected \/ ReadyRead \/ ClearBuffer
              \/ ArriveUnannounced \/ BadPacket \/ ProcessIncomingPacket \/ CloseDialog
  PROVE  NothingTold
<1>1. CASE UserStep
  <2>1. UNCHANGED <<inVars, serverVars>>
    BY <1>1 DEF UserStep, SlotAuthRequested, SlotAccountRequested, SlotFindUserRequested,
                SlotMessageSendRequested, SlotChatSelectionChanged, SlotAboutToQuit
  <2> QED BY <2>1, BuffersKept DEF NothingTold, serverVars
<1>2. CASE SlotConnected
  BY <1>2, BuffersKept DEF SlotConnected, NothingTold, serverVars
<1>3. CASE SlotDisconnected
  <2>1. Packets(inbox)' = Packets(inbox) /\ Packets(unread)' = Packets(unread)
    BY <1>3 DEF SlotDisconnected, inVars, Packets
  <2> QED BY <1>3, <2>1 DEF SlotDisconnected, NothingTold, Coming
<1>4. CASE ReadyRead
  BY <1>4, ReadEffect DEF NothingTold, Inv
<1>5. CASE ArriveUnannounced
  BY <1>5, ArriveEffect DEF NothingTold, Inv
<1>6. CASE ProcessIncomingPacket
  <2>1. PICK kind \in {"auth", "account", "find", "create", "list", "message"} : Take(kind)
    BY <1>6 DEF ProcessIncomingPacket, SlotAuthFinished, SlotAccountFinished, SlotUsersFound,
                SlotChatCreated, SlotChatListReceived, SlotMessageReceived
  <2> QED BY <2>1, TakeEffect DEF NothingTold, Inv
<1>7. CASE CloseDialog
  BY <1>7, BuffersKept DEF CloseDialog, NothingTold, serverVars
<1>8. CASE ClearBuffer
  BY <1>8, ClearEffect DEF NothingTold, Inv, serverVars
<1>9. CASE BadPacket
  <2>1. Take(Front.kind)
    BY <1>9 DEF BadPacket
  <2> QED BY <2>1, TakeEffect DEF NothingTold, Inv
<1> QED BY <1>1, <1>2, <1>3, <1>4, <1>5, <1>6, <1>7, <1>8, <1>9

LEMMA ServerTells ==
  ASSUME Inv, (\E r \in requests : HandleRequest(r)) \/ PeerWrites
  PROVE  Truthful'
<1> DEFINE True(a) == /\ a.kind = "list" => a.chats \subseteq serverChats'
                      /\ a.kind = "create" /\ a.ok => a.chat \in serverChats'
<1>1. /\ IsFiniteSet(serverChats') /\ serverChats \subseteq serverChats' /\ UNCHANGED inVars
      /\ answers' = answers \/ \E a \in Packet : answers' = answers \cup {a} /\ True(a)
  <2>1. CASE \E r \in requests : HandleRequest(r)
    BY <2>1, ServerAnswers
  <2>2. CASE PeerWrites
    BY <2>2, PeerAnswers
  <2> QED BY <2>1, <2>2
<1>2. Packets(inbox)' = Packets(inbox) /\ Packets(unread)' = Packets(unread)
  BY <1>1 DEF inVars, Packets
<1>3. \A a \in Coming : True(a)
  BY <1>1 DEF Inv, Truthful
<1>4. \A a \in Coming' : True(a)
  BY <1>1, <1>2, <1>3 DEF Coming
<1> QED BY <1>1, <1>4 DEF Truthful

LEMMA TruthfulInvariance ==
  ASSUME Inv, [Next]_vars
  PROVE  Truthful'
<1>1. CASE \/ UserStep \/ SlotConnected \/ SlotDisconnected \/ ReadyRead \/ ClearBuffer
           \/ ArriveUnannounced \/ BadPacket \/ ProcessIncomingPacket \/ CloseDialog
  BY <1>1, ClientTellsNothing, TruthfulKept DEF Inv
<1>2. CASE (\E r \in requests : HandleRequest(r)) \/ PeerWrites
  BY <1>2, ServerTells
<1>3. CASE UNCHANGED vars
  BY <1>3, BuffersKept, TruthfulKept DEF Inv, NothingTold, vars, serverVars
<1> QED BY <1>1, <1>2, <1>3 DEF Next, Rest

\* Only the chat window sends a query for users or chats, and it is never left for the
\* account window.
LEMMA AskedInChatInvariance ==
  ASSUME Inv, [Next]_vars
  PROVE  AskedInChat'
<1> SUFFICES ASSUME window' = "account"
             PROVE  \A x \in requests' \cup Coming' : x.kind \notin ChatKinds
  BY DEF AskedInChat
<1> DEFINE Fresh == {x \in requests' \cup Coming' : x \notin requests \cup Coming}
<1>1. SUFFICES window = "account" /\ \A x \in Fresh : x.kind \notin ChatKinds
  BY DEF Inv, AskedInChat
<1>2. CASE UserStep
  <2>1. Coming' = Coming
    <3>1. UNCHANGED <<inVars, answers>>
      BY <1>2 DEF UserStep, SlotAuthRequested, SlotAccountRequested, SlotFindUserRequested,
                  SlotMessageSendRequested, SlotChatSelectionChanged, SlotAboutToQuit, serverVars
    <3> QED BY <3>1, BuffersKept
  <2>2. window = "account"
    BY <1>2 DEF UserStep, SlotAuthRequested, SlotAccountRequested, SlotFindUserRequested,
                SlotMessageSendRequested, SlotChatSelectionChanged, SlotAboutToQuit, loginVars
  <2>3. \A x \in requests' : x \notin requests => x.kind \notin ChatKinds
    BY <1>2, <2>2 DEF UserStep, SlotAuthRequested, SlotAccountRequested, SlotFindUserRequested,
                SlotMessageSendRequested, SlotChatSelectionChanged, SlotAboutToQuit, Send,
                ConnectionSend, ChatKinds
  <2> QED BY <2>1, <2>2, <2>3
<1>3. CASE \/ SlotConnected \/ SlotDisconnected \/ ReadyRead \/ ClearBuffer \/ BadPacket
           \/ ArriveUnannounced
  <2>1. Coming' \subseteq Coming
    BY <1>3, ClientTellsNothing DEF NothingTold
  <2>2. window = "account" /\ requests' \subseteq requests
    BY <1>3 DEF SlotConnected, SlotDisconnected, ReadyRead, ClearBuffer, BadPacket,
                ArriveUnannounced, loginVars
  <2> QED BY <2>1, <2>2
<1>4. CASE ProcessIncomingPacket
  <2>1. Coming' \subseteq Coming
    BY <1>4, ClientTellsNothing DEF NothingTold
  <2>2. window = "account" /\ requests' = requests
    BY <1>4 DEF ProcessIncomingPacket, SlotAuthFinished, SlotAccountFinished, SlotUsersFound,
                SlotChatCreated, SlotChatListReceived, SlotMessageReceived, loginVars
  <2> QED BY <2>1, <2>2
<1>5. CASE CloseDialog
  BY <1>5 DEF Inv, TypeOK, CloseDialog
<1>6. CASE \E r \in requests : HandleRequest(r)
  <2>1. PICK r \in requests : HandleRequest(r)
    BY <1>6
  <2>2. /\ UNCHANGED <<loginVars, inVars>> /\ requests' \subseteq requests
        /\ answers' = answers \/ \E a \in Packet : answers' = answers \cup {a} /\ a.kind = r.kind
    BY <2>1, ServerAnswers
  <2>3. Packets(inbox)' = Packets(inbox) /\ Packets(unread)' = Packets(unread)
    BY <2>2 DEF inVars, Packets
  <2>4. window = "account"
    BY <2>2 DEF loginVars
  <2>5. r.kind \notin ChatKinds
    BY <2>4 DEF Inv, AskedInChat
  <2>6. \A a \in answers' : a \notin answers => a.kind \notin ChatKinds
    BY <2>2, <2>5
  <2> QED BY <2>2, <2>3, <2>4, <2>6 DEF Coming
<1>7. CASE PeerWrites
  <2>1. /\ UNCHANGED <<loginVars, inVars, requests>>
        /\ \E a \in Packet : answers' = answers \cup {a} /\ a.kind = "message"
    BY <1>7, PeerAnswers
  <2>2. Packets(inbox)' = Packets(inbox) /\ Packets(unread)' = Packets(unread)
    BY <2>1 DEF inVars, Packets
  <2>3. \A a \in answers' : a \notin answers => a.kind \notin ChatKinds
    BY <2>1 DEF ChatKinds
  <2> QED BY <2>1, <2>2, <2>3 DEF Coming, loginVars
<1>8. CASE UNCHANGED vars
  BY <1>8, BuffersKept DEF vars, serverVars, loginVars
<1> QED BY <1>2, <1>3, <1>4, <1>5, <1>6, <1>7, <1>8 DEF Next, Rest
----------------------------------------------------------------------------
(* Chats and messages shown                                                *)

LEMMA ListedOnceInvariance ==
  ASSUME Inv, [Next]_vars
  PROVE  ListedOnce'
<1> USE DEF Inv
<1>1. ASSUME list' = list, serverChats \subseteq serverChats' PROVE ListedOnce'
  BY <1>1 DEF ListedOnce, Listed
<1>2. list \in Seq(Chats) /\ IsFiniteSet(Listed) /\ Len(list) \in Nat
  BY ListedTypes, LenProperties DEF TypeOK
<1>3. CASE \/ UserStep \/ SlotConnected \/ SlotDisconnected \/ ReadyRead \/ ClearBuffer
           \/ ArriveUnannounced \/ BadPacket \/ CloseDialog
  <2>1. list' = list
    BY <1>3 DEF UserStep, SlotAuthRequested, SlotAccountRequested, SlotFindUserRequested,
                SlotMessageSendRequested, SlotChatSelectionChanged, SlotAboutToQuit, SlotConnected,
                SlotDisconnected, ReadyRead, ClearBuffer, ArriveUnannounced, BadPacket,
                CloseDialog, chatVars
  <2> QED BY <1>1, <1>3, <2>1, ClientTellsNothing DEF NothingTold
<1>4. CASE SlotAuthFinished \/ SlotAccountFinished \/ SlotUsersFound \/ SlotMessageReceived
  <2>1. list' = list
    BY <1>4 DEF SlotAuthFinished, SlotAccountFinished, SlotUsersFound, SlotMessageReceived, chatVars
  <2> QED BY <1>1, <1>4, <2>1, ClientTellsNothing DEF NothingTold, ProcessIncomingPacket
<1>5. CASE SlotChatCreated
  <2>1. serverChats' = serverChats
    BY <1>5, ClientTellsNothing DEF NothingTold, ProcessIncomingPacket
  <2>2. CASE ~Front.ok \/ Front.chat \in Listed
    BY <1>1, <1>5, <2>1, <2>2 DEF SlotChatCreated, AddChat
  <2>3. CASE Front.ok /\ Front.chat \notin Listed
    <3> DEFINE c == Front.chat
    <3>1. list' = Append(list, c) /\ c \in serverChats /\ c \in Chats
      BY <1>5, <2>3, FrontIsTrue DEF SlotChatCreated, AddChat, TypeOK
    <3> HIDE DEF c
    <3>2. /\ Len(list') = Len(list) + 1 /\ list'[Len(list) + 1] = c
          /\ \A i \in 1..Len(list) : list'[i] = list[i]
      BY <1>2, <3>1, AppendProperties
    <3>3. Listed' = Listed \cup {c}
      BY <1>2, <3>2 DEF Listed
    <3>4. Cardinality(Listed') = Cardinality(Listed) + 1
      BY <1>2, <2>3, <3>3, FS_AddElement DEF c
    <3> QED BY <2>1, <3>1, <3>2, <3>3, <3>4 DEF ListedOnce
  <2> QED BY <2>2, <2>3
<1>6. CASE SlotChatListReceived
  <2>1. serverChats' = serverChats
    BY <1>6, ClientTellsNothing DEF NothingTold, ProcessIncomingPacket
  <2> DEFINE S == Front.chats
  <2>2. list' = Arranged(S) /\ S \subseteq serverChats /\ IsFiniteSet(S)
    BY <1>6, FrontIsTrue DEF SlotChatListReceived
  <2> HIDE DEF S
  <2>3. Len(list') = Cardinality(S) /\ Listed' = S
    BY <2>2, ArrangedFields DEF Listed
  <2> QED BY <2>1, <2>2, <2>3 DEF ListedOnce
<1>7. CASE (\E r \in requests : HandleRequest(r)) \/ PeerWrites
  BY <1>1, <1>7, ServerAnswers, PeerAnswers DEF chatVars
<1>8. CASE UNCHANGED vars
  BY <1>1, <1>8 DEF vars, chatVars, serverVars
<1> QED BY <1>3, <1>4, <1>5, <1>6, <1>7, <1>8 DEF Next, Rest, ProcessIncomingPacket

LEMMA HistoryInvariance ==
  ASSUME HistoryOfCurrentChat, [Next]_vars
  PROVE  HistoryOfCurrentChat'
<1>1. CASE UserStep
  BY <1>1 DEF UserStep, SlotAuthRequested, SlotAccountRequested, SlotFindUserRequested,
              SlotMessageSendRequested, SlotChatSelectionChanged, SlotAboutToQuit, chatVars,
              HistoryOfCurrentChat
<1>2. CASE \/ SlotConnected \/ SlotDisconnected \/ ReadyRead \/ ClearBuffer
           \/ ArriveUnannounced \/ BadPacket \/ CloseDialog
  BY <1>2 DEF SlotConnected, SlotDisconnected, ReadyRead, ClearBuffer, ArriveUnannounced, BadPacket,
              CloseDialog, chatVars, HistoryOfCurrentChat
<1>3. CASE ProcessIncomingPacket
  BY <1>3 DEF ProcessIncomingPacket, SlotAuthFinished, SlotAccountFinished, SlotUsersFound,
              SlotChatCreated, SlotChatListReceived, SlotMessageReceived, AppendIncomingMessage,
              chatVars, HistoryOfCurrentChat
<1>4. CASE (\E r \in requests : HandleRequest(r)) \/ PeerWrites
  BY <1>4 DEF HandleRequest, PeerWrites, chatVars, HistoryOfCurrentChat
<1>5. CASE UNCHANGED vars
  BY <1>5 DEF vars, chatVars, HistoryOfCurrentChat
<1> QED BY <1>1, <1>2, <1>3, <1>4, <1>5 DEF Next, Rest
----------------------------------------------------------------------------
(* The login                                                               *)

\* Most actions neither start nor move a login.
LEMMA LoginKept ==
  ASSUME LoginOK, erred => erred',
         ~erred' => /\ Logins(requests') \subseteq Logins(requests)
                    /\ Logins(answers') \subseteq Logins(answers)
                    /\ Logins(Coming') \subseteq Logins(Coming)
                    /\ Logins(Packets(unread')) = {}
                    /\ ReadLogins = {} => ReadLogins' = {}
                    /\ \A i, j \in ReadLogins' : i = j
                    /\ MustBeIdle' => MustBeIdle
                    /\ window' = "chat" => window = "chat"
                    /\ UNCHANGED <<pendingUsername, username, serverUser>>
  PROVE  LoginOK'
<1> SUFFICES ASSUME ~erred'
             PROVE  /\ OneLogin'
                    /\ MustBeIdle' => NoLogin'
                    /\ \A r \in Logins(requests') : r.name = pendingUsername'
                    /\ \A a \in Logins(Coming') : a.ok => serverUser' = pendingUsername'
                    /\ window' = "chat" => username' = serverUser'
  BY DEF LoginOK, Logins
<1>1. /\ OneLogin /\ (MustBeIdle => NoLogin)
      /\ \A r \in Logins(requests) : r.name = pendingUsername
      /\ \A a \in Logins(Coming) : a.ok => serverUser = pendingUsername
      /\ window = "chat" => username = serverUser
  BY DEF LoginOK
<1>2. Logins(requests)' = Logins(requests') /\ Logins(answers)' = Logins(answers')
      /\ Logins(Packets(unread))' = Logins(Packets(unread'))
  BY DEF Logins, Packets
<1>3. OneLogin'
  BY <1>1, <1>2 DEF OneLogin
<1>4. MustBeIdle' => NoLogin'
  BY <1>1, <1>2 DEF NoLogin
<1> QED BY <1>1, <1>3, <1>4

\* A request that is not a login, sent from any slot that leaves the user alone.
LEMMA LoginKeptSending ==
  ASSUME Inv, NEW request \in Request, request.kind # "auth", Send(request, state),
         UNCHANGED <<pendingUsername, username, inVars, answers, serverUser>>,
         \/ UNCHANGED <<window, socket>>
         \/ window' = "none"
  PROVE  LoginOK'
<1>1. /\ TypeOK /\ LoginOK /\ state \in States
  BY DEF Inv, TypeOK
<1>2. /\ requests' \subseteq requests \cup {request} /\ (erred => erred')
      /\ \/ socket = "connected" /\ state' = state
         \/ socket # "connected"
         \/ erred'
  BY <1>1, SendEffect
<1>3. Coming' = Coming /\ ReadLogins' = ReadLogins /\ Packets(unread') = Packets(unread)
  BY BuffersKept DEF Packets, inVars
<1>4. Logins(requests') \subseteq Logins(requests)
  BY <1>2 DEF Logins
<1>5. ~erred' => (MustBeIdle' => MustBeIdle)
  BY <1>2 DEF MustBeIdle
<1>6. ~erred' => /\ Logins(Packets(unread')) = {} /\ \A i, j \in ReadLogins' : i = j
  BY <1>1, <1>2, <1>3 DEF LoginOK, OneLogin
<1>7. window' = "chat" => window = "chat"
  OBVIOUS
<1> QED BY <1>1, <1>2, <1>3, <1>4, <1>5, <1>6, <1>7, LoginKept

LEMMA LoginUser ==
  ASSUME Inv, UserStep
  PROVE  LoginOK'
<1>0. TypeOK /\ LoginOK
  BY DEF Inv
<1>1. ASSUME NEW n \in Names, SlotAuthRequested(n) PROVE LoginOK'
  <2> DEFINE q == [id |-> messageID, kind |-> "auth", name |-> n]
  <2>1. q \in Request /\ q.kind = "auth" /\ q.name = n
    BY <1>0, RequestsSent
  <2>2. /\ Send(q, "Authenticating") /\ "Authenticating" \in States
        /\ UNCHANGED <<inVars, answers, serverUser, username, window, socket>>
        /\ pendingUsername' = n /\ window = "account" /\ state # "Authenticating"
    BY <1>1 DEF SlotAuthRequested, States, serverVars
  <2> HIDE DEF q
  <2>3. /\ requests' \subseteq requests \cup {q} /\ (erred => erred')
        /\ \/ socket = "connected" /\ state' = "Authenticating"
           \/ socket # "connected" /\ requests' = requests
           \/ erred'
    BY <1>0, <2>1, <2>2, SendEffect
  <2>4. Coming' = Coming /\ ReadLogins' = ReadLogins
    BY <2>2, BuffersKept
  <2> SUFFICES ASSUME ~erred' PROVE LoginOK'
    BY DEF LoginOK
  <2>5. NoLogin /\ Logins(Packets(unread)) = {}
    BY <1>0, <2>2, <2>3 DEF LoginOK, MustBeIdle, OneLogin
  <2>6. Logins(Packets(inbox)) = {}
    BY <2>5 DEF NoLogin, ReadLogins, Logins, Packets
  <2>7. Logins(answers)' = {} /\ ReadLogins' = {} /\ Logins(Packets(unread))' = {}
    BY <2>2, <2>4, <2>5 DEF NoLogin, Logins, Packets, inVars
  <2>8. Logins(Coming)' = {}
    BY <2>4, <2>5, <2>6 DEF NoLogin, Logins, Coming
  <2>9. \A r \in Logins(requests)' : r = q
    BY <2>3, <2>5 DEF NoLogin, Logins
  <2>10. MustBeIdle' => Logins(requests)' = {}
    BY <2>2, <2>3, <2>5 DEF MustBeIdle, NoLogin, Logins
  <2>11. OneLogin' /\ (MustBeIdle' => NoLogin')
    BY <2>7, <2>9, <2>10 DEF OneLogin, NoLogin
  <2> QED BY <2>1, <2>2, <2>8, <2>9, <2>11 DEF LoginOK
<1>2. CASE SlotAccountRequested
  <2> DEFINE q == [id |-> messageID, kind |-> "account"]
  <2>1. q \in Request /\ q.kind # "auth" /\ Send(q, state)
    BY <1>0, <1>2, RequestsSent DEF SlotAccountRequested
  <2> HIDE DEF q
  <2> QED BY <1>2, <2>1, LoginKeptSending DEF SlotAccountRequested, serverVars
<1>3. CASE SlotFindUserRequested
  <2> DEFINE q == [id |-> messageID, kind |-> "find"]
  <2>1. q \in Request /\ q.kind # "auth" /\ Send(q, state)
    BY <1>0, <1>3, RequestsSent DEF SlotFindUserRequested
  <2> HIDE DEF q
  <2> QED BY <1>3, <2>1, LoginKeptSending DEF SlotFindUserRequested, serverVars
<1>4. CASE SlotMessageSendRequested
  <2> DEFINE q == [id |-> messageID, kind |-> "message", chat |-> currentChat]
  <2>1. q \in Request /\ q.kind # "auth" /\ Send(q, state)
    BY <1>0, <1>4, RequestsSent DEF SlotMessageSendRequested
  <2> HIDE DEF q
  <2> QED BY <1>4, <2>1, LoginKeptSending DEF SlotMessageSendRequested, serverVars
<1>5. CASE SlotChatSelectionChanged
  <2>1. UNCHANGED <<loginVars, inVars, serverVars, socket, requests, erred>>
    BY <1>5 DEF SlotChatSelectionChanged
  <2>2. Coming' = Coming /\ ReadLogins' = ReadLogins /\ MustBeIdle' = MustBeIdle
    BY <2>1, BuffersKept DEF serverVars, MustBeIdle, loginVars
  <2> QED BY <1>0, <2>1, <2>2 DEF LoginOK, OneLogin, NoLogin, Logins, Packets, loginVars, inVars,
                                  serverVars
<1>6. CASE SlotAboutToQuit
  <2> DEFINE q == [id |-> messageID, kind |-> "disconnect"]
  <2>1. q \in Request /\ q.kind # "auth" /\ Send(q, state)
    BY <1>0, <1>6, RequestsSent DEF SlotAboutToQuit
  <2> HIDE DEF q
  <2> QED BY <1>6, <2>1, LoginKeptSending DEF SlotAboutToQuit, serverVars
<1> QED BY <1>1, <1>2, <1>3, <1>4, <1>5, <1>6 DEF UserStep

\* What a Protocol error throws away may have been the login.
LEMMA LoginThrownAway ==
  ASSUME LoginOK, ProtocolError, Coming' \subseteq Coming, answers' \subseteq answers, inbox' = <<>>,
         unread' = <<>> \/ unread' = unread,
         UNCHANGED <<requests, pendingUsername, username, window, socket, serverUser>>
  PROVE  LoginOK'
<1>1. SUFFICES ASSUME ~erred' PROVE LoginOK'
  BY DEF LoginOK
<1>2. OneLogin /\ UNCHANGED <<state, erred>>
  BY <1>1 DEF LoginOK, ProtocolError
<1>3. ReadLogins' = {} /\ (MustBeIdle' => MustBeIdle)
  BY <1>2, EmptySeq DEF ReadLogins, MustBeIdle
<1>4. Logins(Packets(unread')) = {}
  BY <1>2, PacketsEmpty DEF OneLogin, Logins
<1>5. /\ Logins(requests') \subseteq Logins(requests) /\ Logins(answers') \subseteq Logins(answers)
      /\ Logins(Coming') \subseteq Logins(Coming)
  BY DEF Logins
<1> QED BY <1>2, <1>3, <1>4, <1>5, LoginKept

LEMMA LoginSocket ==
  ASSUME Inv, \/ SlotConnected \/ SlotDisconnected \/ ReadyRead \/ ClearBuffer
              \/ ArriveUnannounced
  PROVE  LoginOK'
<1>0. TypeOK /\ LoginOK
  BY DEF Inv
<1>a. SUFFICES ASSUME ~erred' PROVE LoginOK'
  BY DEF LoginOK
<1>1. CASE SlotConnected
  <2>1. /\ UNCHANGED <<inVars, answers, requests, erred, pendingUsername, username, window, serverUser>>
        /\ socket = "connecting"
    BY <1>1 DEF SlotConnected, serverVars
  <2>2. Coming' = Coming /\ ReadLogins' = ReadLogins /\ Packets(unread') = Packets(unread)
    BY <2>1, BuffersKept DEF inVars, Packets
  <2>3. MustBeIdle' => MustBeIdle
    BY <2>1 DEF MustBeIdle
  <2>4. OneLogin
    BY <1>0, <1>a, <2>1 DEF LoginOK
  <2> QED BY <1>0, <2>1, <2>2, <2>3, <2>4, LoginKept DEF OneLogin
<1>2. CASE SlotDisconnected
  <2>1. /\ UNCHANGED <<inVars, erred, pendingUsername, username, window, dialog, serverUser>>
        /\ requests' = {} /\ answers' = {}
        /\ window # "none" /\ (inbox = <<>> \/ dialog # "none")
    BY <1>2 DEF SlotDisconnected
  <2>2. /\ Coming' \subseteq Coming /\ ReadLogins' = ReadLogins
        /\ Packets(unread)' = Packets(unread)
    BY <2>1 DEF Coming, ReadLogins, Packets, inVars
  <2>3. /\ OneLogin /\ (MustBeIdle => NoLogin) /\ (window = "chat" => username = serverUser)
        /\ \A a \in Logins(Coming) : a.ok => serverUser = pendingUsername
    BY <1>0, <1>a, <2>1 DEF LoginOK
  <2>4. ReadLogins = {}
    <3>1. CASE inbox = <<>>
      BY <3>1, EmptySeq DEF ReadLogins
    <3>2. CASE dialog # "none"
      BY <1>0, <2>3, <3>2 DEF TypeOK, MustBeIdle, NoLogin
    <3> QED BY <2>1, <3>1, <3>2
  <2>5. Logins(requests)' = {} /\ Logins(answers)' = {} /\ ReadLogins' = {}
        /\ Logins(Packets(unread))' = {} /\ Logins(Coming)' \subseteq Logins(Coming)
    BY <2>1, <2>2, <2>3, <2>4 DEF Logins, OneLogin
  <2>6. OneLogin' /\ NoLogin'
    BY <2>5 DEF OneLogin, NoLogin
  <2> QED BY <2>1, <2>3, <2>5, <2>6 DEF LoginOK
<1>3. CASE ReadyRead /\ inbox' = <<>>
  <2>1. /\ answers' \subseteq answers /\ unread' = <<>> /\ Coming' \subseteq Coming
        /\ UNCHANGED <<requests, pendingUsername, username, window, socket, serverUser>>
    BY <1>3, <1>0, ReadEffect
  <2>2. ProtocolError
    BY <1>3, <1>0, <1>a, ReadEffect DEF OutOfMemory, ProtocolError
  <2> QED BY <1>0, <1>3, <2>1, <2>2, LoginThrownAway
<1>4. CASE ClearBuffer
  <2>1. /\ UNCHANGED <<answers, unread>> /\ Coming' \subseteq Coming /\ inbox' = <<>>
        /\ UNCHANGED <<requests, pendingUsername, username, window, socket, serverUser>>
    BY <1>4, <1>0, ClearEffect DEF serverVars
  <2>2. ProtocolError
    BY <1>4, <1>0, <1>a, ClearEffect DEF OutOfMemory
  <2> QED BY <1>0, <2>1, <2>2, LoginThrownAway
<1>5. CASE ReadyRead /\ inbox' # <<>>
  <2>1. PICK s \in Chunks :
          /\ answers' = answers \ Packets(s)
          /\ s \in Seq(answers) /\ Len(s) \in {1, 2} /\ unread' = <<>>
          /\ \A i, j \in 1..Len(s) : s[i] = s[j] => i = j
          /\ inbox' = unread \o s /\ UNCHANGED <<state, erred>>
    BY <1>5, <1>0, <1>a, ReadEffect
  <2>2. /\ Idle /\ Coming' \subseteq Coming
        /\ UNCHANGED <<pendingUsername, username, window, serverUser, socket, requests>>
    BY <1>5, <1>0, ReadEffect
  <2>3. /\ OneLogin /\ (MustBeIdle => NoLogin) /\ (window = "chat" => username = serverUser)
        /\ \A r \in Logins(requests) : r.name = pendingUsername
        /\ \A a \in Logins(Coming) : a.ok => serverUser = pendingUsername
    BY <1>0, <1>a, <2>1 DEF LoginOK
  <2>4. /\ Len(unread) \in Nat /\ Len(s) \in Nat /\ Len(inbox') = Len(unread) + Len(s)
        /\ \A i \in 1..Len(unread) + Len(s) :
             IF i <= Len(unread) THEN inbox'[i] = unread[i]
             ELSE i - Len(unread) \in 1..Len(s) /\ inbox'[i] = s[i - Len(unread)]
    <3>1. unread \in Seq(Packet)
      BY <1>0 DEF TypeOK
    <3> QED BY <1>0, <2>1, <3>1, Extended
  <2>5. \A i \in 1..Len(unread) : unread[i].kind # "auth"
    BY <2>3 DEF OneLogin, Logins, Packets
  <2>6. \A i \in 1..Len(s) : s[i] \in answers
    BY <2>1, ElementOfSeq
  <2>7. \A i \in ReadLogins' :
          i - Len(unread) \in 1..Len(s) /\ s[i - Len(unread)] \in Logins(answers)
    BY <2>4, <2>5, <2>6 DEF ReadLogins, Logins
  <2>8. \A i, j \in ReadLogins' : i = j
    <3> SUFFICES ASSUME NEW i \in ReadLogins', NEW j \in ReadLogins' PROVE i = j
      OBVIOUS
    <3>1. s[i - Len(unread)] = s[j - Len(unread)]
      BY <2>3, <2>7 DEF OneLogin
    <3>2. i - Len(unread) = j - Len(unread)
      BY <2>1, <2>7, <3>1
    <3>3. i \in Int /\ j \in Int
      BY <2>4 DEF ReadLogins
    <3> QED BY <2>4, <3>2, <3>3
  <2>9. Logins(answers)' \subseteq Logins(answers) /\ (ReadLogins' # {} => Logins(answers)' = {})
    <3>1. Logins(answers)' \subseteq Logins(answers)
      BY <2>1 DEF Logins
    <3>2. ASSUME NEW i \in ReadLogins', NEW a \in Logins(answers)' PROVE FALSE
      <4>1. a = s[i - Len(unread)]
        BY <2>3, <2>7, <3>1 DEF OneLogin
      <4>2. a \in Packets(s)
        BY <2>7, <4>1 DEF Packets
      <4> QED BY <2>1, <4>2 DEF Logins
    <3> QED BY <3>1, <3>2
  <2>10. Logins(requests)' = Logins(requests) /\ Logins(Packets(unread))' = {}
    BY <2>1, <2>2, EmptySeq DEF Logins, Packets
  <2>11. ReadLogins' # {} => Logins(requests) = {}
    BY <2>3, <2>7 DEF OneLogin
  <2>12. OneLogin'
    BY <2>3, <2>8, <2>9, <2>10, <2>11 DEF OneLogin
  <2>13. MustBeIdle' => NoLogin'
    <3>1. MustBeIdle' => MustBeIdle
      BY <2>1, <2>2 DEF MustBeIdle
    <3>2. NoLogin => ReadLogins' = {}
      BY <2>7 DEF NoLogin
    <3> QED BY <2>3, <2>9, <2>10, <3>1, <3>2 DEF NoLogin
  <2>14. Logins(Coming)' \subseteq Logins(Coming)
    BY <2>2 DEF Logins
  <2> QED BY <2>2, <2>3, <2>10, <2>12, <2>13, <2>14 DEF LoginOK
<1>6. CASE ArriveUnannounced
  <2>1. /\ dialog # "none" /\ answers' \subseteq answers /\ Coming' \subseteq Coming
        /\ Packets(unread') \subseteq Packets(unread) \cup answers
        /\ UNCHANGED <<loginVars, inbox, serverUser, socket, requests, erred>>
    BY <1>0, <1>6, ArriveEffect
  <2>2. OneLogin /\ NoLogin
    BY <1>0, <1>a, <2>1 DEF LoginOK, TypeOK, MustBeIdle
  <2>3. /\ Logins(Packets(unread')) = {} /\ ReadLogins' = ReadLogins
        /\ MustBeIdle' = MustBeIdle
    BY <2>1, <2>2 DEF OneLogin, NoLogin, Logins, ReadLogins, MustBeIdle, loginVars
  <2>4. /\ Logins(requests') \subseteq Logins(requests) /\ Logins(answers') \subseteq Logins(answers)
        /\ Logins(Coming') \subseteq Logins(Coming)
    BY <2>1 DEF Logins
  <2> QED BY <1>0, <2>1, <2>2, <2>3, <2>4, LoginKept DEF NoLogin, loginVars
<1> QED BY <1>1, <1>2, <1>3, <1>4, <1>5, <1>6

LEMMA LoginPacket ==
  ASSUME Inv, ProcessIncomingPacket \/ BadPacket
  PROVE  LoginOK'
<1>0. TypeOK /\ LoginOK
  BY DEF Inv
<1>a. SUFFICES ASSUME ~erred' PROVE LoginOK'
  BY DEF LoginOK
<1>1. CASE SlotAuthFinished
  <2>1. Take("auth") /\ pendingUsername' = pendingUsername
    BY <1>1 DEF SlotAuthFinished
  <2>2. /\ window # "none" /\ Front.kind = "auth" /\ Front \in Coming
        /\ Len(inbox) \in Nat \ {0} /\ inbox[1] = Front
        /\ \A i \in 1..Len(inbox') : i + 1 \in 1..Len(inbox) /\ inbox'[i] = inbox[i + 1]
        /\ Coming' \subseteq Coming
        /\ UNCHANGED <<unread, answers, serverUser>>
    BY <1>0, <2>1, TakeEffect
  <2>3. ~erred
    <3>1. CASE Front.ok
      <4> DEFINE q == [id |-> messageID, kind |-> "list"]
      <4>1. q \in Request /\ "Authenticated" \in States /\ Send(q, "Authenticated")
        BY <1>0, <1>1, <3>1, RequestsSent DEF States, SlotAuthFinished
      <4> HIDE DEF q
      <4> QED BY <1>0, <1>a, <4>1, SendEffect
    <3>2. CASE ~Front.ok
      BY <1>1, <1>a, <3>2 DEF SlotAuthFinished
    <3> QED BY <3>1, <3>2
  <2>4. OneLogin /\ \A a \in Logins(Coming) : a.ok => serverUser = pendingUsername
    BY <1>0, <2>3 DEF LoginOK
  <2>5. 1 \in ReadLogins
    BY <2>2 DEF ReadLogins
  <2>6. Logins(requests) = {} /\ Logins(answers) = {} /\ Logins(Packets(unread)) = {}
    BY <2>4, <2>5 DEF OneLogin
  <2>7. ReadLogins' = {}
    <3> SUFFICES ASSUME NEW i \in ReadLogins' PROVE FALSE
      OBVIOUS
    <3>1. i \in 1..Len(inbox') /\ i + 1 \in ReadLogins
      BY <2>2 DEF ReadLogins
    <3>2. i + 1 = 1
      BY <2>4, <2>5, <3>1 DEF OneLogin
    <3> QED BY <3>1, <3>2
  <2>8. Logins(requests)' = {}
    BY <1>1, <2>6 DEF SlotAuthFinished, Send, ConnectionSend, Logins
  <2>9. Logins(answers)' = {} /\ Logins(Packets(unread))' = {}
        /\ Logins(Coming)' \subseteq Logins(Coming)
    BY <2>2, <2>6 DEF Logins, Packets
  <2>10. OneLogin' /\ NoLogin'
    BY <2>7, <2>8, <2>9 DEF OneLogin, NoLogin
  <2>11. window' = "chat" => username' = serverUser'
    <3>1. CASE Front.ok
      <4>1. username' = pendingUsername /\ Front \in Logins(Coming)
        BY <1>1, <2>2, <3>1 DEF SlotAuthFinished, Logins
      <4> QED BY <2>2, <2>4, <3>1, <4>1
    <3>2. CASE ~Front.ok
      BY <1>0, <1>1, <2>2, <2>3, <3>2 DEF SlotAuthFinished, LoginOK
    <3> QED BY <3>1, <3>2
  <2> QED BY <2>1, <2>2, <2>4, <2>8, <2>9, <2>10, <2>11 DEF LoginOK
<1>2. CASE SlotAccountFinished \/ SlotUsersFound \/ SlotChatCreated \/ SlotChatListReceived
           \/ SlotMessageReceived \/ BadPacket
  <2>1. PICK kind : Take(kind)
    BY <1>2 DEF SlotAccountFinished, SlotUsersFound, SlotChatCreated, SlotChatListReceived,
                SlotMessageReceived, BadPacket
  <2>2. UNCHANGED <<loginVars, requests, erred>>
    BY <1>2 DEF SlotAccountFinished, SlotUsersFound, SlotChatCreated, SlotChatListReceived,
                SlotMessageReceived, BadPacket, ProtocolError, loginVars
  <2>3. /\ \A i \in 1..Len(inbox') : i + 1 \in 1..Len(inbox) /\ inbox'[i] = inbox[i + 1]
        /\ Coming' \subseteq Coming
        /\ UNCHANGED <<unread, answers, serverUser, socket>>
    BY <1>0, <2>1, TakeEffect
  <2>4. OneLogin
    BY <1>0, <1>a, <2>2 DEF LoginOK
  <2>5. \A i \in ReadLogins' : i \in Nat /\ i + 1 \in ReadLogins
    BY <2>3 DEF ReadLogins
  <2>6. (ReadLogins = {} => ReadLogins' = {}) /\ \A i, j \in ReadLogins' : i = j
    <3>1. \A i, j \in ReadLogins' : i + 1 = j + 1
      BY <2>4, <2>5 DEF OneLogin
    <3> QED BY <2>5, <3>1
  <2>7. /\ Logins(requests') \subseteq Logins(requests) /\ Logins(answers') \subseteq Logins(answers)
        /\ Logins(Coming') \subseteq Logins(Coming) /\ Logins(Packets(unread')) = {}
    BY <2>2, <2>3, <2>4 DEF Logins, OneLogin, Packets
  <2>8. MustBeIdle' = MustBeIdle
    BY <2>2, <2>3 DEF MustBeIdle, loginVars
  <2> QED BY <1>0, <2>2, <2>3, <2>6, <2>7, <2>8, LoginKept DEF loginVars
<1> QED BY <1>1, <1>2 DEF ProcessIncomingPacket

LEMMA LoginDialog ==
  ASSUME Inv, CloseDialog
  PROVE  LoginOK'
<1> DEFINE q == [id |-> messageID, kind |-> "create"]
<1>0. TypeOK /\ LoginOK
  BY DEF Inv
<1>1. q \in Request /\ q.kind # "auth"
  BY <1>0, RequestsSent
<1>2. /\ UNCHANGED <<pendingUsername, username, window, inVars, answers, serverUser, socket>>
      /\ Send(q, state) \/ UNCHANGED <<state, requests, erred>>
  BY DEF CloseDialog, serverVars
<1> HIDE DEF q
<1>3. CASE Send(q, state)
  BY <1>1, <1>2, <1>3, LoginKeptSending
<1>4. CASE UNCHANGED <<state, requests, erred>>
  <2>1. Coming' = Coming /\ ReadLogins' = ReadLogins /\ Packets(unread)' = Packets(unread)
    BY <1>2, BuffersKept DEF Packets, inVars
  <2>2. MustBeIdle' = MustBeIdle
    BY <1>2, <1>4 DEF MustBeIdle
  <2> QED BY <1>0, <1>2, <1>4, <2>1, <2>2 DEF LoginOK, OneLogin, NoLogin, Logins
<1> QED BY <1>2, <1>3, <1>4

LEMMA LoginServer ==
  ASSUME Inv, (\E r \in requests : HandleRequest(r)) \/ PeerWrites
  PROVE  LoginOK'
<1>0. TypeOK /\ LoginOK
  BY DEF Inv
<1>a. SUFFICES ASSUME ~erred' PROVE LoginOK'
  BY DEF LoginOK
<1>1. ASSUME NEW r \in requests, HandleRequest(r), r.kind = "auth" PROVE LoginOK'
  <2>1. /\ requests' = requests \ {r} /\ serverUser' \in Names \cup {NoUser}
        /\ \/ answers' = answers
           \/ \E a \in Packet :
                /\ answers' = answers \cup {a} /\ a.kind = "auth"
                /\ a.ok => serverUser' = r.name
        /\ UNCHANGED <<loginVars, inVars, socket, erred>>
    BY <1>1, ServerAnswers
  <2>2. r \in Logins(requests) /\ r.name = pendingUsername /\ OneLogin /\ ~MustBeIdle
    BY <1>0, <1>1, <1>a, <2>1 DEF LoginOK, Logins, NoLogin
  <2>3. Logins(answers) = {} /\ ReadLogins = {} /\ Logins(Packets(unread)) = {}
    BY <2>2 DEF OneLogin
  <2>4. Logins(Packets(inbox)) = {}
    BY <2>3 DEF ReadLogins, Logins, Packets
  <2>5. /\ Packets(inbox)' = Packets(inbox) /\ Packets(unread)' = Packets(unread)
        /\ ReadLogins' = ReadLogins /\ MustBeIdle' = MustBeIdle
    BY <2>1 DEF Packets, ReadLogins, MustBeIdle, inVars, loginVars
  <2>6. Logins(requests)' = {}
    BY <2>1, <2>2 DEF OneLogin, Logins
  <2>7. /\ \A a, b \in Logins(answers)' : a = b
        /\ \A a \in Logins(answers)' : a.ok => serverUser' = pendingUsername
    BY <2>1, <2>2, <2>3 DEF Logins
  <2>8. Logins(Coming)' = Logins(answers)'
    BY <2>3, <2>4, <2>5 DEF Coming, Logins
  <2>9. OneLogin' /\ ~MustBeIdle'
    BY <2>2, <2>3, <2>5, <2>6, <2>7 DEF OneLogin, Logins
  <2>10. window' # "chat"
    BY <2>1, <2>2 DEF MustBeIdle, loginVars
  <2> QED BY <2>1, <2>6, <2>7, <2>8, <2>9, <2>10 DEF LoginOK, loginVars
<1>2. ASSUME /\ UNCHANGED <<loginVars, inVars, socket, erred, serverUser>> /\ requests' \subseteq requests
             /\ answers' = answers
                \/ \E a \in Packet : answers' = answers \cup {a} /\ a.kind # "auth"
      PROVE  LoginOK'
  <2>1. /\ Packets(inbox)' = Packets(inbox) /\ Packets(unread)' = Packets(unread)
        /\ ReadLogins' = ReadLogins /\ MustBeIdle' = MustBeIdle
    BY <1>2 DEF Packets, ReadLogins, MustBeIdle, inVars, loginVars
  <2>2. Logins(answers)' = Logins(answers) /\ Logins(requests)' \subseteq Logins(requests)
    BY <1>2 DEF Logins
  <2>3. Logins(Coming)' = Logins(Coming)
    BY <2>1, <2>2 DEF Coming, Logins
  <2>4. OneLogin
    BY <1>0, <1>2, <1>a DEF LoginOK
  <2>5. Logins(Packets(unread))' = {} /\ \A i, j \in ReadLogins' : i = j
    BY <2>1, <2>4 DEF OneLogin, Logins
  <2> QED BY <1>0, <1>2, <2>1, <2>2, <2>3, <2>5, LoginKept DEF loginVars, Logins, Packets, Coming
<1>3. ASSUME NEW r \in requests, HandleRequest(r), r.kind # "auth" PROVE LoginOK'
  BY <1>2, <1>3, ServerAnswers
<1>4. CASE PeerWrites
  BY <1>2, <1>4, PeerAnswers
<1> QED BY <1>1, <1>3, <1>4

LEMMA LoginInvariance ==
  ASSUME Inv, [Next]_vars
  PROVE  LoginOK'
<1>1. CASE UNCHANGED vars
  <2>1. Coming' = Coming /\ ReadLogins' = ReadLogins /\ Packets(unread)' = Packets(unread)
    BY <1>1, BuffersKept DEF vars, serverVars, Packets, inVars
  <2>2. UNCHANGED <<loginVars, answers, requests, socket, erred, serverUser>>
    BY <1>1 DEF vars, serverVars
  <2>3. MustBeIdle' = MustBeIdle
    BY <2>2 DEF MustBeIdle, loginVars
  <2>4. (erred => erred') /\ LoginOK
    BY <2>2 DEF Inv
  <2>5. ~erred' => Logins(Packets(unread'))= {} /\ \A i, j \in ReadLogins' : i = j
    <3>1. Packets(unread') = Packets(unread)
      BY <2>1 DEF Packets
    <3> QED BY <2>1, <2>2, <2>4, <3>1 DEF LoginOK, OneLogin
  <2> QED BY <2>1, <2>2, <2>3, <2>4, <2>5, LoginKept DEF loginVars
<1> QED BY <1>1, LoginUser, LoginSocket, LoginPacket, LoginDialog, LoginServer DEF Next, Rest
----------------------------------------------------------------------------
(* The theorems                                                            *)

LEMMA TypeInvariance ==
  ASSUME Inv, [Next]_vars
  PROVE  TypeOK'
<1>1. CASE UNCHANGED vars
  BY <1>1 DEF Inv, TypeOK, vars, loginVars, chatVars, inVars, serverVars
<1> QED BY <1>1, UserTypes, SocketTypes, PacketTypes, DialogTypes, ServerSideTypes DEF Next, Rest

LEMMA InitInv == Init => Inv
<1> SUFFICES ASSUME Init PROVE Inv
  OBVIOUS
<1>1. TypeOK
  <2>1. list \in Seq(Chats) /\ {inbox, unread} \subseteq Seq(Packet)
    BY EmptySeq DEF Init
  <2>2. {messageID, peerSent} \subseteq Nat /\ {selected, currentChat} \subseteq {0}
    BY DEF Init
  <2> QED BY <2>1, <2>2 DEF Init, TypeOK, States
<1>2. Packets(inbox) = {} /\ Packets(unread) = {} /\ Coming = {} /\ ReadLogins = {}
  BY PacketsEmpty, EmptySeq DEF Init, Coming, ReadLogins
<1>3. Truthful
  BY <1>2, FS_EmptySet DEF Init, Truthful
<1>4. AskedInChat
  BY <1>2 DEF Init, AskedInChat
<1>5. LoginOK
  BY <1>2 DEF Init, LoginOK, OneLogin, NoLogin, Logins
<1>6. Listed = {} /\ Len(list) = 0
  BY DEF Init, Listed
<1>7. ListedOnce /\ HistoryOfCurrentChat
  BY <1>6, FS_EmptySet DEF Init, ListedOnce, HistoryOfCurrentChat
<1> QED BY <1>1, <1>3, <1>4, <1>5, <1>7 DEF Inv

\* The whole of what the client relies on, for every order of the answers and of the
\* user's actions, also while a dialog of slotReadyRead is open.
THEOREM ClientInvariance == Spec => []Inv
<1>1. Inv /\ [Next]_vars => Inv'
  BY TypeInvariance, TruthfulInvariance, AskedInChatInvariance, LoginInvariance,
     ListedOnceInvariance, HistoryInvariance DEF Inv
<1> QED BY <1>1, InitInv, PTL DEF Spec

\* Every variable of the client keeps its type; a dialog is open over the chat window
\* only.
THEOREM ClientTypes == Spec => []TypeOK
BY ClientInvariance, PTL DEF Inv

\* In the chat window Session::username_ is the user the server has for the connection,
\* unless the socket reported an error without disconnecting.
THEOREM LoginsAreReal == Spec => []LoginIsReal
<1>1. Inv => LoginIsReal
  BY DEF Inv, LoginOK, LoginIsReal
<1> QED BY <1>1, ClientInvariance, PTL

\* The list of chats names each chat once, and only chats of the user.
THEOREM ChatsListedOnce == Spec => []ListedOnce
BY ClientInvariance, PTL DEF Inv

\* The messages shown are those of the chat that is written to.
THEOREM HistoryIsOfOneChat == Spec => []HistoryOfCurrentChat
BY ClientInvariance, PTL DEF Inv

----------------------------------------------------------------------------
(* The login that the client waits for                                     *)

\* What holds of the login under way holds after a step that keeps it or loses it.
LEMMA UnderWayKept ==
  ASSUME LoginUnderWay,
         window' = "account" /\ state' = "Authenticating" /\ ~lost' =>
           /\ window = "account" /\ state = "Authenticating" /\ ~lost /\ socket' = socket
           /\ Logins(requests \cup answers \cup Packets(inbox))
                \subseteq requests' \cup answers' \cup Packets(inbox')
  PROVE  LoginUnderWay'
<1>1. Packets(inbox)' = Packets(inbox')
  BY DEF Packets
<1> QED BY <1>1 DEF LoginUnderWay, Logins

LEMMA UnderWayUser ==
  ASSUME LoginUnderWay, UserStep
  PROVE  LoginUnderWay'
<1>1. ASSUME NEW n \in Names, SlotAuthRequested(n) PROVE LoginUnderWay'
  <2>1. Send([id |-> messageID, kind |-> "auth", name |-> n], "Authenticating") /\ UNCHANGED socket
    BY <1>1 DEF SlotAuthRequested
  <2>2. \/ socket' = "connected" /\ [id |-> messageID, kind |-> "auth", name |-> n] \in requests'
        \/ state' = "Disconnected"
    BY <2>1 DEF Send, ConnectionSend, SlotError
  <2> QED BY <2>2 DEF LoginUnderWay
<1>2. CASE SlotAccountRequested \/ SlotFindUserRequested \/ SlotMessageSendRequested
  <2>1. UNCHANGED <<window, socket, inbox, answers, lost>>
    BY <1>2 DEF SlotAccountRequested, SlotFindUserRequested, SlotMessageSendRequested,
                inVars, serverVars
  <2>2. requests \subseteq requests' /\ state' \in {state, "Disconnected"}
    BY <1>2 DEF SlotAccountRequested, SlotFindUserRequested, SlotMessageSendRequested,
                Send, ConnectionSend, SlotError
  <2>3. Packets(inbox') = Packets(inbox)
    BY <2>1 DEF Packets
  <2> QED BY <2>1, <2>2, <2>3, UnderWayKept DEF Logins
<1>3. CASE SlotChatSelectionChanged
  <2>1. UNCHANGED <<window, state, socket, inbox, answers, requests, lost>>
    BY <1>3 DEF SlotChatSelectionChanged, loginVars, inVars, serverVars
  <2>2. Packets(inbox') = Packets(inbox)
    BY <2>1 DEF Packets
  <2> QED BY <2>1, <2>2, UnderWayKept DEF Logins
<1>4. CASE SlotAboutToQuit
  BY <1>4 DEF SlotAboutToQuit, LoginUnderWay
<1> QED BY <1>1, <1>2, <1>3, <1>4 DEF UserStep

\* What the client reads is in its buffer, unless it is thrown away.
LEMMA UnderWayRead ==
  ASSUME Inv, LoginUnderWay, ReadyRead
  PROVE  LoginUnderWay'
<1>1. PICK s \in Chunks :
        /\ answers' = answers \ Packets(s)
        /\ s \in Seq(answers)
        /\ \/ inbox' = unread \o s /\ UNCHANGED <<state, erred, lost>>
           \/ /\ inbox' = <<>>
              /\ lost' = (lost \/ \E a \in Packets(unread) \cup Packets(s) : a.kind = "auth")
              /\ OutOfMemory \/ ProtocolError
  BY ReadEffect DEF Inv
<1>2. UNCHANGED <<window, socket, requests>> /\ Packets(inbox) = {}
  BY PacketsEmpty DEF ReadyRead, Idle
<1>3. CASE inbox' = unread \o s /\ UNCHANGED <<state, erred, lost>>
  <2>1. Packets(s) \subseteq Packets(unread \o s)
    <3>1. TypeOK /\ unread \in Seq(Packet)
      BY DEF Inv, TypeOK
    <3> QED BY <1>1, <3>1, Extended
  <2>2. answers \subseteq answers' \cup Packets(inbox')
    BY <1>1, <1>3, <2>1
  <2> QED BY <1>2, <1>3, <2>2, UnderWayKept DEF Logins
<1>4. CASE OutOfMemory
  BY <1>4 DEF OutOfMemory, LoginUnderWay
<1>5. CASE /\ lost' = (lost \/ \E a \in Packets(unread) \cup Packets(s) : a.kind = "auth")
           /\ ProtocolError
  <2>1. ~lost' => ~lost /\ Logins(Packets(s)) = {}
    BY <1>5 DEF Logins
  <2>2. Logins(answers) \subseteq answers' \cup Logins(Packets(s))
    BY <1>1 DEF Logins
  <2>3. UNCHANGED state
    BY <1>5 DEF ProtocolError
  <2> QED BY <1>2, <2>1, <2>2, <2>3, UnderWayKept DEF Logins
<1> QED BY <1>1, <1>3, <1>4, <1>5

LEMMA UnderWayClear ==
  ASSUME Inv, LoginUnderWay, ClearBuffer
  PROVE  LoginUnderWay'
<1>1. /\ lost' = (lost \/ \E a \in Packets(inbox) : a.kind = "auth")
      /\ UNCHANGED <<window, socket, requests, answers>>
      /\ OutOfMemory \/ ProtocolError
  BY ClearEffect DEF Inv, serverVars
<1>2. CASE OutOfMemory
  BY <1>2 DEF OutOfMemory, LoginUnderWay
<1>3. CASE ProtocolError
  <2>1. UNCHANGED state /\ (~lost' => ~lost /\ Logins(Packets(inbox)) = {})
    BY <1>1, <1>3 DEF ProtocolError, Logins
  <2> QED BY <1>1, <2>1, UnderWayKept DEF Logins
<1> QED BY <1>1, <1>2, <1>3

\* The slots take the front packet; only the slot of a login takes a login.
LEMMA UnderWayPacket ==
  ASSUME Inv, LoginUnderWay, ProcessIncomingPacket \/ BadPacket
  PROVE  LoginUnderWay'
<1>1. CASE SlotAuthFinished
  <2>1. window' = "chat" \/ state' = "Disconnected"
    BY <1>1 DEF SlotAuthFinished
  <2> QED BY <2>1 DEF LoginUnderWay
<1>2. ASSUME NEW kind, Take(kind), UNCHANGED <<window, state, requests>>,
             lost' = (lost \/ kind = "auth") \/ (kind # "auth" /\ UNCHANGED lost)
      PROVE  LoginUnderWay'
  <2>0. ~lost' => ~lost /\ kind # "auth"
    BY <1>2
  <2>1. /\ Len(inbox) \in Nat \ {0} /\ Len(inbox') = Len(inbox) - 1
        /\ inbox[1] = Front /\ Front.kind = kind
        /\ \A i \in 1..Len(inbox') : inbox'[i] = inbox[i + 1]
        /\ UNCHANGED <<answers, socket>>
    BY <1>2, TakeEffect DEF Inv
  <2>2. kind # "auth" => Logins(Packets(inbox)) \subseteq Packets(inbox')
    <3> SUFFICES ASSUME kind # "auth", NEW i \in 1..Len(inbox), inbox[i].kind = "auth"
                 PROVE  inbox[i] \in Packets(inbox')
      BY DEF Logins, Packets
    <3>1. i # 1
      BY <2>1
    <3>2. i - 1 \in 1..Len(inbox') /\ inbox'[i - 1] = inbox[i]
      BY <2>1, <3>1
    <3> QED BY <3>2 DEF Packets
  <2>3. kind # "auth" => Logins(requests \cup answers \cup Packets(inbox))
                           \subseteq requests' \cup answers' \cup Packets(inbox')
    BY <1>2, <2>1, <2>2 DEF Logins
  <2> QED BY <1>2, <2>0, <2>1, <2>3, UnderWayKept
<1>3. CASE SlotAccountFinished \/ SlotUsersFound \/ SlotChatCreated \/ SlotChatListReceived
           \/ SlotMessageReceived
  <2>1. \E kind \in {"account", "find", "create", "list", "message"} : Take(kind)
    BY <1>3 DEF SlotAccountFinished, SlotUsersFound, SlotChatCreated, SlotChatListReceived,
                SlotMessageReceived
  <2>2. UNCHANGED <<window, state, requests, lost>>
    BY <1>3 DEF SlotAccountFinished, SlotUsersFound, SlotChatCreated, SlotChatListReceived,
                SlotMessageReceived, loginVars
  <2> QED BY <1>2, <2>1, <2>2
<1>4. CASE BadPacket
  <2>1. Take(Front.kind) /\ UNCHANGED <<window, state, requests>>
        /\ lost' = (lost \/ Front.kind = "auth")
    BY <1>4 DEF BadPacket, ProtocolError
  <2> QED BY <1>2, <2>1
<1> QED BY <1>1, <1>3, <1>4 DEF ProcessIncomingPacket

\* The server answers every login it takes, or the login is lost.
LEMMA UnderWayServer ==
  ASSUME Inv, LoginUnderWay, NEW r \in requests, HandleRequest(r)
  PROVE  LoginUnderWay'
<1>1. /\ requests' = requests \ {r} /\ UNCHANGED <<window, state, socket, inbox>>
      /\ lost' = (lost \/ (r.kind = "auth" /\ answers' = answers))
      /\ answers' = answers \/ \E a : answers' = answers \cup {a} /\ a.kind = r.kind
  BY ServerAnswers DEF loginVars, inVars
<1>2. Packets(inbox)' = Packets(inbox) /\ Packets(inbox') = Packets(inbox)
  BY <1>1 DEF Packets
<1>3. CASE r.kind = "auth"
  BY <1>1, <1>2, <1>3 DEF LoginUnderWay
<1>4. CASE r.kind # "auth"
  BY <1>1, <1>2, <1>4, UnderWayKept DEF Logins
<1> QED BY <1>3, <1>4

LEMMA UnderWayStep ==
  ASSUME Inv, LoginUnderWay, [Next]_vars
  PROVE  LoginUnderWay'
<1>1. CASE SlotConnected \/ SlotDisconnected
  BY <1>1 DEF SlotConnected, SlotDisconnected, LoginUnderWay
<1>2. CASE ArriveUnannounced \/ CloseDialog
  <2>1. window' = "chat"
    BY <1>2 DEF ArriveUnannounced, CloseDialog, loginVars, Inv, TypeOK
  <2> QED BY <2>1 DEF LoginUnderWay
<1>3. CASE PeerWrites \/ UNCHANGED vars
  <2>1. UNCHANGED <<window, state, socket, inbox, requests, lost>> /\ answers \subseteq answers'
    BY <1>3 DEF PeerWrites, vars, loginVars, inVars, serverVars
  <2>2. Packets(inbox') = Packets(inbox)
    BY <2>1 DEF Packets
  <2> QED BY <2>1, <2>2, UnderWayKept DEF Logins
<1> QED BY <1>1, <1>2, <1>3, UnderWayUser, UnderWayRead, UnderWayClear, UnderWayPacket,
           UnderWayServer DEF Next, Rest

\* A login that the client waits for is under way, or the server or a Protocol error
\* has lost it: every other end of an attempt sets the state.
THEOREM LoginsUnderWay == Spec => []LoginUnderWay
<1>1. Init => LoginUnderWay
  BY DEF Init, LoginUnderWay
<1>2. Inv /\ LoginUnderWay /\ [Next]_vars => LoginUnderWay'
  BY UnderWayStep
<1> QED BY <1>1, <1>2, ClientInvariance, PTL DEF Spec
============================================================================
