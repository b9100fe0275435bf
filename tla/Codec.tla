-------------------------------- MODULE Codec --------------------------------
(***************************************************************************)
(* Building a packet from its data and parsing it at the other end:        *)
(* PacketBuilder, PacketParser, ByteWriter and ByteReader, the same files  *)
(* in server and client.  A step is one call of ByteWriter or ByteReader.  *)
(* A byte is one of B values; lengths and counts are uint16_t, two bytes,  *)
(* and wrap at W.                                                          *)
(***************************************************************************)
EXTENDS Integers, Sequences

CONSTANTS
  B,        \* values of a byte: 256
  Strings,  \* strings the packets carry
  Ids,      \* values of chatID
  Longest   \* bound: entries of a list, but for lists of W + 1 entries

W == B * B

ASSUME BytesAssumption == B \in Nat \ {0, 1}
ASSUME DataAssumption ==
  /\ Strings \subseteq Seq(0..B-1) /\ Ids \subseteq 0..(W * W - 1)
  /\ Longest \in Nat

VARIABLES
  state,       \* build, parse, or what parseData returned: accepted, refused
  type,        \* the PacketType
  size,        \* entries of the list of the packet, 0 if it has none
  written,     \* the values written so far
  needed,      \* history: bytes the first k of them need, for each k
  body,        \* the bytes of the body
  messageLen,  \* the length the header gives
  cursor,      \* bytes of the body read so far
  read         \* the values read so far

dataVars == <<type, size>>
writeVars == <<written, needed, body>>
readVars == <<cursor, read>>
vars == <<state, dataVars, writeVars, messageLen, readVars>>
----------------------------------------------------------------------------
(* The layout of each type: the values before the entries of a list, the   *)
(* count among them, and the values of an entry.  Built is what            *)
(* buildPacket writes, Read what parseData reads.                          *)

Layout(fields, item) == [fields |-> fields, item |-> item]
Empty == {"ConnectRequest", "ConnectResponse", "DisconnectRequest", "ChatListRequest"}
Credentials == {"RegisterRequest", "AuthRequest", "DeleteRequest"}
Outcomes == {"RegisterResponse", "AuthResponse", "DeleteResponse"}
OneName == {"FindUserRequest", "CreateChatRequest"}
Types == Empty \cup Credentials \cup Outcomes \cup OneName \cup
  {"MessageSend", "MessageReceive", "CreateChatResponse", "FindUserResponse",
   "ChatListResponse"}

Built == [t \in Types |->
  CASE t \in Empty               -> Layout(<<>>, <<>>)
    [] t \in Credentials         -> Layout(<<"string", "string">>, <<>>)
    [] t \in Outcomes            -> Layout(<<"bool">>, <<>>)
    [] t \in OneName             -> Layout(<<"string">>, <<>>)
    [] t = "MessageSend"         -> Layout(<<"uint32", "string">>, <<>>)
    [] t = "MessageReceive"      -> Layout(<<"string", "uint32", "string">>, <<>>)
    [] t = "CreateChatResponse"  -> Layout(<<"bool", "uint32", "string">>, <<>>)
    [] t = "FindUserResponse"    -> Layout(<<"count">>, <<"string">>)
    [] t = "ChatListResponse"    -> Layout(<<"count">>, <<"uint32", "string">>)]

Read == [t \in Types |->
  CASE t \in Empty               -> Layout(<<>>, <<>>)
    [] t \in Credentials         -> Layout(<<"string", "string">>, <<>>)
    [] t \in Outcomes            -> Layout(<<"bool">>, <<>>)
    [] t \in OneName             -> Layout(<<"string">>, <<>>)
    [] t = "MessageSend"         -> Layout(<<"uint32", "string">>, <<>>)
    [] t = "MessageReceive"      -> Layout(<<"string", "uint32", "string">>, <<>>)
    [] t = "CreateChatResponse"  -> Layout(<<"bool", "uint32", "string">>, <<>>)
    [] t = "FindUserResponse"    -> Layout(<<"count">>, <<"string">>)
    [] t = "ChatListResponse"    -> Layout(<<"count">>, <<"uint32", "string">>)]

\* The kind of the k-th value, and how many there are with n entries in the list.
FieldAt(layout, k) ==
  LET f == Len(layout.fields) IN
  IF k <= f THEN layout.fields[k] ELSE layout.item[((k - f - 1) % Len(layout.item)) + 1]
Total(layout, n) == Len(layout.fields) + n * Len(layout.item)

IsList(t) == Built[t].item # <<>>
Sizes(t) == IF IsList(t) THEN 0..Longest \cup {W + 1} ELSE {0}

\* The values a packet can carry.
ValuesOf(field) ==
  CASE field = "bool"   -> {0, 1}
    [] field = "uint32" -> Ids
    [] field = "string" -> Strings
    [] field = "count"  -> {size}
----------------------------------------------------------------------------
(* ByteWriter and PacketBuilder                                            *)

Shift(v) == v \div B
WriteUint(width, v) ==
  CASE width = 1 -> <<v % B>>
    [] width = 2 -> <<Shift(v) % B, v % B>>
    [] width = 4 -> <<Shift(Shift(Shift(v))) % B, Shift(Shift(v)) % B, Shift(v) % B, v % B>>

\* Mutated form: the length is cast, the string is not.
WriteWholeString(s) == WriteUint(2, Len(s) % W) \o s
WriteString(s) == LET length == Len(s) % W IN WriteUint(2, length) \o SubSeq(s, 1, length)

WriteField(field, v) ==
  CASE field = "bool"   -> WriteUint(1, v)
    [] field = "uint32" -> WriteUint(4, v)
    [] field = "string" -> WriteString(v)
    [] field = "count"  -> WriteUint(2, v % W)

\* Bytes a value needs, when a string of W bytes or more is cut.
NeededBy(field, v) ==
  CASE field = "bool"   -> 1
    [] field = "uint32" -> 4
    [] field = "string" -> 2 + (Len(v) % W)
    [] field = "count"  -> 2
Needed(k) == IF k = 0 THEN 0 ELSE needed[k]

\* The k-th value of the data.  A list longer than Longest repeats its first entry.
Choices(k) ==
  LET layout == Built[type] IN
  {v \in ValuesOf(FieldAt(layout, k)) :
     size > Longest /\ k > Total(layout, 1) => v = written[k - Len(layout.item)]}

WriteValue ==
  LET k == Len(written) + 1
      field == FieldAt(Built[type], k) IN
  /\ state = "build" /\ k <= Total(Built[type], size)
  /\ \E v \in Choices(k) :
       /\ written' = Append(written, v)
       /\ needed' = Append(needed, Needed(k - 1) + NeededBy(field, v))
       /\ body' = body \o WriteField(field, v)
  /\ UNCHANGED <<state, dataVars, messageLen, readVars>>

\* buildPacket puts the header before the body; messageLen is cast to uint16_t.
BuildPacket ==
  /\ state = "build" /\ Len(written) = Total(Built[type], size)
  /\ messageLen' = Len(body) % W
  /\ state' = "parse"
  /\ UNCHANGED <<dataVars, writeVars, readVars>>
----------------------------------------------------------------------------
(* ByteReader and PacketParser, on the first messageLen bytes of the body. *)
(* With too few bytes left the value is zero and the cursor stays; a       *)
(* string whose characters are missing has lost its length all the same.   *)

Result(value, next) == [value |-> value, next |-> next]

BigEndian(width, at) ==
  CASE width = 1 -> body[at + 1]
    [] width = 2 -> body[at + 1] * B + body[at + 2]
    [] width = 4 -> ((body[at + 1] * B + body[at + 2]) * B + body[at + 3]) * B + body[at + 4]
ReadUint(width, at) ==
  IF messageLen - at < width THEN Result(0, at) ELSE Result(BigEndian(width, at), at + width)

\* Mutated form: the length counts its own two bytes.
ReadStringInclusive(at) ==
  LET length == ReadUint(2, at) IN
  IF messageLen - at < length.value THEN Result(<<>>, length.next)
  ELSE Result(SubSeq(body, at + 3, at + length.value), at + length.value)
ReadString(at) ==
  LET length == ReadUint(2, at) IN
  IF messageLen - length.next < length.value THEN Result(<<>>, length.next)
  ELSE Result(SubSeq(body, length.next + 1, length.next + length.value),
              length.next + length.value)

ReadField(field, at) ==
  CASE field = "bool"   -> [ReadUint(1, at) EXCEPT !.value = IF @ # 0 THEN 1 ELSE 0]
    [] field = "uint32" -> ReadUint(4, at)
    [] field = "string" -> ReadString(at)
    [] field = "count"  -> ReadUint(2, at)

\* The loop over the list runs as often as the count that was read says.
ToRead ==
  LET layout == Read[type] IN
  IF layout.item = <<>> \/ read = <<>> THEN Len(layout.fields) ELSE Total(layout, read[1])

ReadValue ==
  /\ state = "parse" /\ Len(read) < ToRead
  /\ LET r == ReadField(FieldAt(Read[type], Len(read) + 1), cursor) IN
       read' = Append(read, r.value) /\ cursor' = r.next
  /\ UNCHANGED <<state, dataVars, writeVars, messageLen>>

\* return remaining == 0; the packets without data are accepted whatever their body.
EndParse ==
  /\ state = "parse" /\ Len(read) = ToRead
  /\ state' = IF cursor = messageLen \/ type \in Empty THEN "accepted" ELSE "refused"
  /\ UNCHANGED <<dataVars, writeVars, messageLen, readVars>>
----------------------------------------------------------------------------
Init ==
  /\ state = "build" /\ type \in Types /\ size \in Sizes(type)
  /\ written = <<>> /\ needed = <<>> /\ body = <<>> /\ messageLen = 0
  /\ cursor = 0 /\ read = <<>>

Next == WriteValue \/ BuildPacket \/ ReadValue \/ EndParse

Spec == Init /\ [][Next]_vars
----------------------------------------------------------------------------
\* What the k-th value is on the wire: a string of W bytes or more is cut to its
\* length modulo W, and so is the count.
Sent(k) ==
  LET field == FieldAt(Built[type], k) IN
  CASE field = "string" -> SubSeq(written[k], 1, Len(written[k]) % W)
    [] field = "count"  -> written[k] % W
    [] OTHER            -> written[k]

Parsed == state \in {"accepted", "refused"}

\* A packet whose body fits in messageLen is accepted, and read as it was written,
\* value by value; a string too long for its length loses its end, and nothing that
\* follows it is moved.
RoundTrip ==
  Parsed /\ Needed(Len(written)) < W =>
    state = "accepted" /\ read = [k \in 1..Len(written) |-> Sent(k)]

\* When the data are too long for messageLen (a user with many chats) the receiver
\* gets the beginning of the body: the values that lie wholly in it, as far as the
\* count says, are the ones that were written, whatever is made of the rest.
CutKeepsPrefix ==
  Parsed =>
    \A k \in 1..Total(Built[type], size % W) :
      Needed(k) <= messageLen => k <= Len(read) /\ read[k] = Sent(k)
============================================================================
