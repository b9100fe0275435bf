----------------------------- MODULE ByteStream -----------------------------
(***************************************************************************)
(* Packets as bytes, for both directions of a connection.  A byte is the   *)
(* number of the packet it belongs to and its place in it; lens gives the  *)
(* messageLen of each packet of a direction.                               *)
(***************************************************************************)
EXTENDS Integers, Sequences

CONSTANT HeaderLen   \* sizeof(PacketHeaderRaw)

ASSUME HeaderAssumption == HeaderLen \in Nat \ {0}

Size(lens, p) == HeaderLen + lens[p]
Bytes(lens, p) == [i \in 1..Size(lens, p) |-> <<p, i>>]
Drop(s, n) == SubSeq(s, n + 1, Len(s))

\* Reading messageLen at the front of a buffer: that of a packet when the buffer
\* starts with a header, and any length up to limit when it does not.
HeaderAtFront(s) == \A i \in 1..HeaderLen : s[i] = <<s[1][1], i>>
FrontLen(lens, s, limit) ==
  IF HeaderAtFront(s) THEN {lens[s[1][1]]} ELSE 0..limit
FrontPacket(s) == IF HeaderAtFront(s) THEN s[1][1] ELSE 0

\* s is made of the bytes of the packets first, first + 1 and so on, in order.
Starts(lens, s, first) ==
  \A i \in 1..Len(s) :
    /\ i = 1 => s[1] = <<first, 1>>
    /\ i > 1 => LET b == s[i - 1] IN
         s[i] = IF b[2] = Size(lens, b[1]) THEN <<b[1] + 1, 1>> ELSE <<b[1], b[2] + 1>>
Ends(lens, s, last) == s # <<>> => s[Len(s)] = <<last, Size(lens, last)>>
============================================================================
