---------------------------- MODULE StreamSafety ----------------------------
(***************************************************************************)
(* Theorems about PacketStream, RequestStream and Dialogue, for any number *)
(* and sizes of packets, requests and answers, any limits, chunk and       *)
(* capacity of the socket.  They rest on lemmas that both directions of a  *)
(* connection need of ByteStream: adding a packet at the end of a stream,  *)
(* taking one from its front and moving bytes between two buffers keep the *)
(* stream made of packets.  The two streams of a connection keep their     *)
(* properties when they share it.                                          *)
(***************************************************************************)
EXTENDS Dialogue, SequenceTheorems, TLAPS
----------------------------------------------------------------------------
(* Streams of bytes                                                        *)

\* No byte of a packet is away from the others: those before it are in s, those
\* after it follow as far as s goes.
Packed(lens, s) ==
  \A j \in 1..Len(s) :
    LET p == s[j][1]  i == s[j][2] IN
      /\ i \in 1..Size(lens, p)
      /\ \A k \in 1..Size(lens, p) :
           /\ j - i + k >= 1
           /\ j - i + k <= Len(s) => s[j - i + k] = <<p, k>>

\* The bytes are those of packets that have a length.
Sized(lens, s) == \A i \in 1..Len(s) : s[i][2] \in Nat /\ Size(lens, s[i][1]) \in Nat

Stream(lens, s, first) == Starts(lens, s, first) /\ Packed(lens, s)
----------------------------------------------------------------------------
LEMMA SizeType ==
  ASSUME NEW P, NEW lens \in [P -> Nat], NEW p \in P
  PROVE  Size(lens, p) \in Nat \ {0} /\ Size(lens, p) >= HeaderLen /\ HeaderLen \in Nat \ {0}
BY HeaderAssumption DEF Size

LEMMA BytesType ==
  ASSUME NEW P, NEW lens \in [P -> Nat], NEW p \in P
  PROVE  /\ Bytes(lens, p) \in Seq(P \X Nat) /\ Len(Bytes(lens, p)) = Size(lens, p)
         /\ \A i \in 1..Size(lens, p) : Bytes(lens, p)[i] = <<p, i>>
<1>1. Size(lens, p) \in Nat
  BY SizeType
<1>2. \A i \in 1..Size(lens, p) : <<p, i>> \in P \X Nat
  BY <1>1
<1> QED BY <1>1, <1>2 DEF Bytes

LEMMA DropType ==
  ASSUME NEW S, NEW s \in Seq(S), NEW n \in 0..Len(s)
  PROVE  /\ Drop(s, n) \in Seq(S) /\ Len(Drop(s, n)) = Len(s) - n
         /\ \A i \in 1..Len(s) - n : Drop(s, n)[i] = s[n + i]
<1>1. Len(s) \in Nat /\ n + 1 \in Int /\ \A i \in n + 1..Len(s) : s[i] \in S
  BY LenProperties, ElementOfSeq
<1>2. /\ SubSeq(s, n + 1, Len(s)) \in Seq(S)
      /\ Len(SubSeq(s, n + 1, Len(s))) = IF n + 1 <= Len(s) THEN Len(s) - (n + 1) + 1 ELSE 0
      /\ \A i \in 1..Len(s) - (n + 1) + 1 : SubSeq(s, n + 1, Len(s))[i] = s[n + 1 + i - 1]
  BY <1>1, SubSeqProperties
<1> QED BY <1>1, <1>2 DEF Drop

LEMMA TakeType ==
  ASSUME NEW S, NEW s \in Seq(S), NEW n \in 0..Len(s)
  PROVE  /\ SubSeq(s, 1, n) \in Seq(S) /\ Len(SubSeq(s, 1, n)) = n
         /\ \A i \in 1..n : SubSeq(s, 1, n)[i] = s[i]
<1>1. Len(s) \in Nat /\ n \in Int /\ \A i \in 1..n : s[i] \in S
  BY LenProperties, ElementOfSeq
<1>2. /\ SubSeq(s, 1, n) \in Seq(S)
      /\ Len(SubSeq(s, 1, n)) = IF 1 <= n THEN n - 1 + 1 ELSE 0
      /\ \A i \in 1..n - 1 + 1 : SubSeq(s, 1, n)[i] = s[1 + i - 1]
  BY <1>1, SubSeqProperties
<1> QED BY <1>1, <1>2

\* Two pieces of a buffer, put together again.
LEMMA Rejoin ==
  ASSUME NEW S, NEW s \in Seq(S), NEW n \in 0..Len(s)
  PROVE  SubSeq(s, 1, n) \o Drop(s, n) = s
<1>1. Len(s) \in Nat
  BY LenProperties
<1>2. 1 \in 1..Len(s) + 1 /\ n \in 1 - 1..Len(s) /\ Len(s) \in n..Len(s)
  BY <1>1
<1>3. SubSeq(s, 1, n) \o SubSeq(s, n + 1, Len(s)) = SubSeq(s, 1, Len(s))
  BY <1>2, ConcatAdjacentSubSeq
<1> QED BY <1>3, SubSeqFull DEF Drop

LEMMA ConcatAt ==
  ASSUME NEW S, NEW s \in Seq(S), NEW t \in Seq(S), NEW i \in 1..Len(s) + Len(t)
  PROVE  (s \o t)[i] = IF i <= Len(s) THEN s[i] ELSE t[i - Len(s)]
BY ConcatProperties

LEMMA DropConcat ==
  ASSUME NEW S, NEW s \in Seq(S), NEW t \in Seq(S), NEW n \in 0..Len(s)
  PROVE  Drop(s, n) \o t = Drop(s \o t, n)
<1> DEFINE u == Drop(s, n) \o t
           v == Drop(s \o t, n)
<1>1. /\ Len(s) \in Nat /\ Len(t) \in Nat /\ s \o t \in Seq(S)
      /\ Len(s \o t) = Len(s) + Len(t) /\ n \in 0..Len(s \o t)
  BY LenProperties, ConcatProperties
<1>2. u \in Seq(S) /\ v \in Seq(S) /\ Len(u) = Len(s) - n + Len(t) /\ Len(v) = Len(u)
  <2>1. Drop(s, n) \in Seq(S) /\ Len(Drop(s, n)) = Len(s) - n
    BY DropType
  <2>2. u \in Seq(S) /\ Len(u) = Len(s) - n + Len(t)
    <3> DEFINE d == Drop(s, n)
    <3>1. d \in Seq(S) /\ Len(d) = Len(s) - n
      BY <2>1
    <3> HIDE DEF d
    <3>2. d \o t \in Seq(S) /\ Len(d \o t) = Len(d) + Len(t)
      BY <3>1, ConcatProperties
    <3> QED BY <3>1, <3>2 DEF d
  <2>3. v \in Seq(S) /\ Len(v) = Len(s) + Len(t) - n
    <3> DEFINE w == s \o t
    <3>1. w \in Seq(S) /\ n \in 0..Len(w) /\ Len(w) = Len(s) + Len(t)
      BY <1>1
    <3> HIDE DEF w
    <3>2. Drop(w, n) \in Seq(S) /\ Len(Drop(w, n)) = Len(w) - n
      BY <3>1, DropType
    <3> QED BY <3>1, <3>2 DEF w
  <2> QED BY <1>1, <2>2, <2>3
<1>3. ASSUME NEW i \in 1..Len(u) PROVE u[i] = v[i]
  <2>1. v[i] = (s \o t)[n + i]
    <3> DEFINE w == s \o t
    <3>1. w \in Seq(S) /\ n \in 0..Len(w) /\ i \in 1..Len(w) - n
      BY <1>1, <1>2
    <3> HIDE DEF w
    <3>2. Drop(w, n)[i] = w[n + i]
      BY <3>1, DropType
    <3> QED BY <3>2 DEF w
  <2>2. (s \o t)[n + i] = IF n + i <= Len(s) THEN s[n + i] ELSE t[n + i - Len(s)]
    <3>1. n + i \in 1..Len(s) + Len(t)
      BY <1>1, <1>2
    <3> QED BY ONLY <3>1, s \in Seq(S), t \in Seq(S), ConcatAt
  <2>3. u[i] = IF i <= Len(s) - n THEN Drop(s, n)[i] ELSE t[i - (Len(s) - n)]
    <3> DEFINE d == Drop(s, n)
    <3>1. d \in Seq(S) /\ Len(d) = Len(s) - n
      BY DropType
    <3>2. i \in 1..Len(d) + Len(t)
      BY <1>2, <3>1
    <3> HIDE DEF d
    <3>3. (d \o t)[i] = IF i <= Len(d) THEN d[i] ELSE t[i - Len(d)]
      BY ONLY <3>1, <3>2, t \in Seq(S), ConcatAt
    <3> QED BY <3>1, <3>3 DEF d
  <2>4. i <= Len(s) - n => Drop(s, n)[i] = s[n + i]
    <3> SUFFICES ASSUME i <= Len(s) - n PROVE Drop(s, n)[i] = s[n + i]
      OBVIOUS
    <3>1. i \in 1..Len(s) - n
      BY <1>1, <1>2
    <3> QED BY <3>1, DropType
  <2>5. i - (Len(s) - n) = n + i - Len(s)
    BY <1>1, <1>2
  <2> QED BY <1>1, <1>2, <2>1, <2>2, <2>3, <2>4, <2>5
<1> HIDE DEF u, v
<1>4. u = v
  BY <1>2, <1>3, SeqEqual
<1> QED BY <1>4 DEF u, v
----------------------------------------------------------------------------
(* Streams of packets                                                      *)

\* The packet at the front, as far as it is there.
LEMMA FrontBytes ==
  ASSUME NEW lens, NEW s, NEW first, Stream(lens, s, first), Len(s) \in Nat \ {0},
         NEW k \in 1..Size(lens, first), k <= Len(s)
  PROVE  s[k] = <<first, k>>
<1>1. 1 \in 1..Len(s) /\ s[1] = <<first, 1>>
  <2>1. 1 \in 1..Len(s)
    OBVIOUS
  <2>2. 1 = 1 => s[1] = <<first, 1>>
    BY <2>1 DEF Stream, Starts
  <2> QED BY <2>1, <2>2
<1>2. s[1][1] = first /\ s[1][2] = 1 /\ 1 - 1 + k = k
  BY <1>1
<1> QED BY <1>1, <1>2 DEF Stream, Packed

\* The byte that follows another.
LEMMA ByteBefore ==
  ASSUME NEW lens, NEW s, NEW first, Stream(lens, s, first), NEW i \in 1..Len(s), i > 1
  PROVE  s[i] = IF s[i - 1][2] = Size(lens, s[i - 1][1])
                THEN <<s[i - 1][1] + 1, 1>> ELSE <<s[i - 1][1], s[i - 1][2] + 1>>
BY DEF Stream, Starts

LEMMA ByteType ==
  ASSUME NEW P, NEW s \in Seq(P \X Nat), NEW j \in 1..Len(s)
  PROVE  s[j][1] \in P /\ s[j][2] \in Nat
BY ElementOfSeq

LEMMA EmptyStream ==
  ASSUME NEW lens, NEW s, NEW first, Len(s) = 0
  PROVE  Stream(lens, s, first)
BY DEF Stream, Starts, Packed

\* The bytes at the front of a stream.
LEMMA TakeStream ==
  ASSUME NEW P, NEW lens \in [P -> Nat], NEW s \in Seq(P \X Nat), NEW first,
         Stream(lens, s, first), NEW n \in 0..Len(s)
  PROVE  Stream(lens, SubSeq(s, 1, n), first)
<1> DEFINE t == SubSeq(s, 1, n)
<1>1. Len(t) = n /\ \A i \in 1..n : t[i] = s[i]
  BY TakeType
<1>2. Len(s) \in Nat
  BY LenProperties
<1> HIDE DEF t
<1>3. Starts(lens, t, first)
  <2> SUFFICES ASSUME NEW i \in 1..Len(t)
               PROVE  /\ i = 1 => t[1] = <<first, 1>>
                      /\ i > 1 => t[i] = IF t[i - 1][2] = Size(lens, t[i - 1][1])
                                          THEN <<t[i - 1][1] + 1, 1>>
                                          ELSE <<t[i - 1][1], t[i - 1][2] + 1>>
    BY DEF Starts
  <2>1. i \in 1..Len(s) /\ t[i] = s[i] /\ (i > 1 => t[i - 1] = s[i - 1])
    BY SMTT(30), <1>1, <1>2
  <2> QED BY <2>1 DEF Stream, Starts
<1>4. Packed(lens, t)
  <2> SUFFICES ASSUME NEW j \in 1..Len(t)
               PROVE  /\ t[j][2] \in 1..Size(lens, t[j][1])
                      /\ \A k \in 1..Size(lens, t[j][1]) :
                           /\ j - t[j][2] + k >= 1
                           /\ j - t[j][2] + k <= Len(t) => t[j - t[j][2] + k] = <<t[j][1], k>>
    BY DEF Packed
  <2>1. j \in 1..Len(s) /\ t[j] = s[j]
    BY <1>1, <1>2
  <2>2. s[j][1] \in P /\ Size(lens, s[j][1]) \in Nat
    <3>1. s[j] \in P \X Nat
      BY <2>1, ElementOfSeq, Zenon
    <3>2. s[j][1] \in P
      BY <3>1
    <3> QED BY <3>2, SizeType
  <2>3. t[j][2] \in 1..Size(lens, t[j][1])
    BY <2>1 DEF Stream, Packed
  <2>4. ASSUME NEW k \in 1..Size(lens, t[j][1])
        PROVE  /\ j - t[j][2] + k >= 1
               /\ j - t[j][2] + k <= Len(t) => t[j - t[j][2] + k] = <<t[j][1], k>>
    <3>1. /\ j - s[j][2] + k >= 1
          /\ j - s[j][2] + k <= Len(s) => s[j - s[j][2] + k] = <<s[j][1], k>>
      BY <2>1 DEF Stream, Packed
    <3> DEFINE pos == j - s[j][2] + k
    <3>2. pos \in Int /\ Len(t) <= Len(s)
      <4>1. s[j][2] \in Int /\ k \in Int /\ j \in Int
        BY <2>1, <2>2, <2>3
      <4>2. pos \in Int
        BY <4>1
      <4>3. Len(t) <= Len(s)
        BY <1>1, <1>2
      <4> QED BY <4>2, <4>3
    <3>3. pos >= 1 /\ pos <= Len(t) => t[pos] = s[pos]
      BY <1>1, <3>2
    <3> QED BY SMTT(30), <1>1, <1>2, <2>1, <3>1, <3>2, <3>3
  <2> QED BY <2>3, <2>4
<1> QED BY <1>3, <1>4 DEF Stream, t

\* The rest of a stream, t, when its first packet, of Z bytes, is taken away.
LEMMA RestStarts ==
  ASSUME NEW lens, NEW s, NEW t, NEW first, Stream(lens, s, first), Len(s) \in Nat,
         NEW Z \in 1..Len(s), Z = Size(lens, first), Len(t) = Len(s) - Z,
         \A i \in 1..Len(s) - Z : t[i] = s[Z + i]
  PROVE  Starts(lens, t, first + 1)
<1> SUFFICES ASSUME NEW i \in 1..Len(t)
             PROVE  /\ i = 1 => t[1] = <<first + 1, 1>>
                    /\ i > 1 => t[i] = IF t[i - 1][2] = Size(lens, t[i - 1][1])
                                        THEN <<t[i - 1][1] + 1, 1>>
                                        ELSE <<t[i - 1][1], t[i - 1][2] + 1>>
  BY DEF Starts
<1>1. PICK m \in 1..Len(s) : m = Z + i
  OBVIOUS
<1>2. m > 1 /\ t[i] = s[m]
  BY <1>1
<1>3. s[m] = IF s[m - 1][2] = Size(lens, s[m - 1][1])
             THEN <<s[m - 1][1] + 1, 1>> ELSE <<s[m - 1][1], s[m - 1][2] + 1>>
  BY <1>2, ByteBefore
<1>4. CASE i = 1
  <2>1. m - 1 = Z /\ Z \in 1..Size(lens, first) /\ Len(s) \in Nat \ {0}
    BY <1>1, <1>4
  <2>2. s[Z] = <<first, Z>>
    BY <2>1, FrontBytes
  <2>3. s[Z][1] = first /\ s[Z][2] = Z
    BY <2>2
  <2> QED BY <1>2, <1>3, <1>4, <2>1, <2>3
<1>5. CASE i > 1
  <2>1. i - 1 \in 1..Len(s) - Z /\ Z + (i - 1) = m - 1
    BY <1>1, <1>5
  <2>2. t[i - 1] = s[m - 1]
    BY <2>1
  <2> QED BY <1>2, <1>3, <1>5, <2>2
<1> QED BY <1>4, <1>5

LEMMA RestPacked ==
  ASSUME NEW lens, NEW s, NEW t, NEW first, Stream(lens, s, first), Len(s) \in Nat,
         NEW Z \in 1..Len(s), Z = Size(lens, first), Len(t) = Len(s) - Z,
         \A i \in 1..Len(s) - Z : t[i] = s[Z + i],
         Sized(lens, s)
  PROVE  Packed(lens, t)
<1> SUFFICES ASSUME NEW j \in 1..Len(t)
             PROVE  /\ t[j][2] \in 1..Size(lens, t[j][1])
                    /\ \A k \in 1..Size(lens, t[j][1]) :
                         /\ j - t[j][2] + k >= 1
                         /\ j - t[j][2] + k <= Len(t) => t[j - t[j][2] + k] = <<t[j][1], k>>
  BY DEF Packed
<1>1. PICK m \in 1..Len(s) : m = Z + j
  OBVIOUS
<1>2. PICK q, i : q = t[j][1] /\ i = t[j][2]
  OBVIOUS
<1>3. t[j] = s[m]
  BY <1>1
<1>4. i \in Nat /\ s[m][1] = q /\ s[m][2] = i /\ Size(lens, q) \in Nat
  BY <1>2, <1>3 DEF Sized
<1>5. i \in 1..Size(lens, q)
  BY <1>4 DEF Stream, Packed
<1>6. ASSUME NEW k \in 1..Size(lens, q)
      PROVE  m - i + k >= 1 /\ (m - i + k <= Len(s) => s[m - i + k] = <<q, k>>)
  BY <1>4, <1>6 DEF Stream, Packed
<1>7. i >= 1 /\ 1 \in 1..Size(lens, q) /\ m \in Int /\ j \in Int /\ i \in Int
  BY <1>4, <1>5
<1>8. j - i + 1 >= 1
  <2> SUFFICES ASSUME j - i + 1 < 1 PROVE FALSE
    BY <1>7
  <2>1. PICK b : b = m - i + 1
    OBVIOUS
  <2>2. b >= 1 /\ (b <= Len(s) => s[b] = <<q, 1>>)
    BY <1>6, <1>7, <2>1
  <2>3. b \in 1..Z /\ b <= Len(s)
    <3>1. b = Z + (j - i + 1)
      BY <1>1, <1>7, <2>1
    <3>2. b <= Z
      BY <1>7, <3>1
    <3> QED BY <1>7, <2>1, <2>2, <3>2
  <2>4. s[b] = <<first, b>>
    BY <2>3, FrontBytes
  <2>5. q = first /\ b = 1
    BY <2>2, <2>3, <2>4
  <2>6. i <= Z
    BY <1>5, <2>5
  <2> QED BY <1>1, <1>7, <2>1, <2>5, <2>6
<1>9. ASSUME NEW k \in 1..Size(lens, q)
      PROVE  j - i + k >= 1 /\ (j - i + k <= Len(t) => t[j - i + k] = <<q, k>>)
  <2>1. PICK b : b = j - i + k
    OBVIOUS
  <2>2. b \in Int /\ b >= 1 /\ Z + b = m - i + k
    <3>1. k \in Int /\ k >= 1
      BY <1>4
    <3>2. b \in Int /\ b >= 1
      BY <1>7, <1>8, <2>1, <3>1
    <3>3. Z \in Int /\ Z + b = m - i + k
      BY <1>1, <1>7, <2>1, <3>1
    <3> QED BY <3>2, <3>3
  <2>3. ASSUME b <= Len(t) PROVE t[b] = <<q, k>>
    <3>1. b \in 1..Len(s) - Z /\ m - i + k <= Len(s)
      BY <2>2, <2>3
    <3>2. s[m - i + k] = <<q, k>>
      BY <1>6, <3>1
    <3> QED BY <2>2, <3>1, <3>2
  <2> QED BY <2>1, <2>2, <2>3
<1> QED BY <1>2, <1>5, <1>9

\* A packet taken from the front.
LEMMA DropPacket ==
  ASSUME NEW P, NEW lens \in [P -> Nat], NEW s \in Seq(P \X Nat), NEW first \in P,
         Stream(lens, s, first), Size(lens, first) <= Len(s)
  PROVE  Stream(lens, Drop(s, Size(lens, first)), first + 1)
<1>1. PICK Z \in 1..Len(s) : Z = Size(lens, first)
  BY LenProperties, SizeType
<1>2. Len(s) \in Nat /\ Z \in 0..Len(s)
  BY LenProperties
<1>3. Len(Drop(s, Z)) = Len(s) - Z /\ \A i \in 1..Len(s) - Z : Drop(s, Z)[i] = s[Z + i]
  BY <1>2, DropType
<1>4. Sized(lens, s)
  <2> SUFFICES ASSUME NEW i \in 1..Len(s)
               PROVE  s[i][2] \in Nat /\ Size(lens, s[i][1]) \in Nat
    BY DEF Sized
  <2>1. s[i][1] \in P /\ s[i][2] \in Nat
    BY ByteType
  <2> QED BY <2>1, SizeType
<1>5. PICK t : t = Drop(s, Z)
  OBVIOUS
<1>6. Len(t) = Len(s) - Z /\ \A i \in 1..Len(s) - Z : t[i] = s[Z + i]
  BY <1>3, <1>5
<1>7. Starts(lens, t, first + 1)
  BY <1>1, <1>2, <1>6, RestStarts
<1>8. Packed(lens, t)
  BY <1>1, <1>2, <1>4, <1>6, RestPacked
<1> QED BY <1>1, <1>5, <1>7, <1>8 DEF Stream

LEMMA DropEnds ==
  ASSUME NEW S, NEW lens, NEW s \in Seq(S), NEW n \in 0..Len(s), NEW last, Ends(lens, s, last)
  PROVE  Ends(lens, Drop(s, n), last)
<1>1. Len(s) \in Nat
  BY LenProperties
<1>2. /\ Drop(s, n) \in Seq(S) /\ Len(Drop(s, n)) = Len(s) - n
      /\ \A i \in 1..Len(s) - n : Drop(s, n)[i] = s[n + i]
  BY DropType
<1> SUFFICES ASSUME Drop(s, n) # <<>>
             PROVE  Drop(s, n)[Len(Drop(s, n))] = <<last, Size(lens, last)>>
  BY DEF Ends
<1>3. Len(s) - n \in 1..Len(s) - n
  BY <1>1, <1>2, EmptySeq
<1>4. s # <<>> /\ n + (Len(s) - n) = Len(s)
  BY <1>1, <1>3, EmptySeq
<1> QED BY <1>2, <1>3, <1>4 DEF Ends
\* u is s, of n bytes, with the Z bytes of packet p after it.
Added(lens, s, u, n, Z, p) ==
  /\ n \in Nat /\ Z \in Nat \ {0} /\ Z = Size(lens, p) /\ Len(s) = n /\ Len(u) = n + Z
  /\ \A i \in 1..n : u[i] = s[i]
  /\ \A i \in 1..Z : u[n + i] = <<p, i>>

EndsAt(lens, s, n, last) == n > 0 => s[n] = <<last, Size(lens, last)>>

LEMMA AddedStarts ==
  ASSUME NEW lens, NEW s, NEW u, NEW first, NEW last, NEW p, NEW n, NEW Z,
         Added(lens, s, u, n, Z, p), Stream(lens, s, first), EndsAt(lens, s, n, last),
         p = last + 1, n = 0 => first = p
  PROVE  Starts(lens, u, first)
<1>0. /\ n \in Nat /\ Z \in Nat \ {0} /\ Z = Size(lens, p) /\ Len(s) = n /\ Len(u) = n + Z
      /\ \A i \in 1..n : u[i] = s[i]
      /\ \A i \in 1..Z : u[n + i] = <<p, i>>
      /\ n > 0 => s[n] = <<last, Size(lens, last)>>
  BY DEF Added, EndsAt
<1> USE <1>0
<1> SUFFICES ASSUME NEW i \in 1..Len(u)
             PROVE  /\ i = 1 => u[1] = <<first, 1>>
                    /\ i > 1 => u[i] = IF u[i - 1][2] = Size(lens, u[i - 1][1])
                                        THEN <<u[i - 1][1] + 1, 1>>
                                        ELSE <<u[i - 1][1], u[i - 1][2] + 1>>
  BY DEF Starts
<1>1. CASE i <= n
  <2>1. i \in 1..Len(s) /\ u[i] = s[i] /\ (i > 1 => u[i - 1] = s[i - 1])
    BY <1>1
  <2> QED BY <2>1 DEF Stream, Starts
<1>2. CASE i = n + 1
  <2>1. u[i] = <<p, 1>>
    BY <1>2
  <2>2. n > 0 => u[n] = <<last, Size(lens, last)>> /\ i - 1 = n
    BY <1>2
  <2>3. n > 0 => u[i - 1][1] = last /\ u[i - 1][2] = Size(lens, last)
    BY <2>2
  <2> QED BY <1>2, <2>1, <2>3
<1>3. CASE i > n + 1
  <2>1. PICK k : k = i - n
    OBVIOUS
  <2>2. k \in 1..Z /\ k - 1 \in 1..Z /\ n + k = i /\ n + (k - 1) = i - 1
    BY <1>3, <2>1
  <2>3. u[i] = <<p, k>> /\ u[i - 1] = <<p, k - 1>>
    BY <2>2
  <2>4. u[i - 1][1] = p /\ u[i - 1][2] = k - 1
    BY <2>3
  <2>5. k - 1 # Z /\ (k - 1) + 1 = k /\ i # 1
    BY <1>3, <2>2
  <2> QED BY <2>3, <2>4, <2>5
<1> QED BY <1>1, <1>2, <1>3

LEMMA AddedPacked ==
  ASSUME NEW lens, NEW s, NEW u, NEW first, NEW last, NEW p, NEW n, NEW Z,
         Added(lens, s, u, n, Z, p), Stream(lens, s, first), EndsAt(lens, s, n, last),
         Sized(lens, s)
  PROVE  Packed(lens, u)
<1>0. /\ n \in Nat /\ Z \in Nat \ {0} /\ Z = Size(lens, p) /\ Len(s) = n /\ Len(u) = n + Z
      /\ \A i \in 1..n : u[i] = s[i]
      /\ \A i \in 1..Z : u[n + i] = <<p, i>>
      /\ n > 0 => s[n] = <<last, Size(lens, last)>>
  BY DEF Added, EndsAt
<1> USE <1>0
<1> SUFFICES ASSUME NEW j \in 1..Len(u)
             PROVE  /\ u[j][2] \in 1..Size(lens, u[j][1])
                    /\ \A k \in 1..Size(lens, u[j][1]) :
                         /\ j - u[j][2] + k >= 1
                         /\ j - u[j][2] + k <= Len(u) => u[j - u[j][2] + k] = <<u[j][1], k>>
  BY DEF Packed
<1>1. CASE j <= n
  <2>1. PICK q, i : q = s[j][1] /\ i = s[j][2]
    OBVIOUS
  <2>2. u[j][1] = q /\ u[j][2] = i /\ j \in 1..Len(s)
    BY <1>1, <2>1
  <2>3. i \in Nat /\ Size(lens, q) \in Nat
    BY <2>1, <2>2 DEF Sized
  <2>4. i \in 1..Size(lens, q)
    BY <2>1, <2>2 DEF Stream, Packed
  <2>5. ASSUME NEW k \in 1..Size(lens, q)
        PROVE  j - i + k >= 1 /\ (j - i + k <= n => s[j - i + k] = <<q, k>>)
    BY <2>1, <2>2, <2>5 DEF Stream, Packed
  <2>6. ASSUME NEW k \in 1..Size(lens, q)
        PROVE  j - i + k >= 1 /\ (j - i + k <= Len(u) => u[j - i + k] = <<q, k>>)
    <3>1. PICK b : b = j - i + k
      OBVIOUS
    <3>2. b >= 1 /\ (b <= n => s[b] = <<q, k>>) /\ b \in Int
      BY <2>3, <2>5, <3>1
    <3>3. ASSUME b > n PROVE FALSE
      <4>1. PICK m : m = n - j + i
        OBVIOUS
      <4>2. m \in 1..Size(lens, q) /\ m < k /\ j - i + m = n /\ n > 0
        BY <1>1, <2>3, <2>4, <3>1, <3>3, <4>1
      <4>3. s[n] = <<q, m>>
        BY <2>5, <4>2
      <4>4. q = last /\ m = Size(lens, last)
        BY <4>2, <4>3
      <4> QED BY <2>3, <4>2, <4>4
    <3>4. b \in 1..n
      BY <3>2, <3>3
    <3> QED BY <3>1, <3>2, <3>4
  <2> QED BY <2>2, <2>4, <2>6
<1>2. CASE j > n
  <2>1. PICK i : i = j - n
    OBVIOUS
  <2>2. i \in 1..Z /\ n + i = j
    BY <1>2, <2>1
  <2>3. u[j] = <<p, i>>
    BY <2>2
  <2>4. u[j][1] = p /\ u[j][2] = i
    BY <2>3
  <2>5. ASSUME NEW k \in 1..Z
        PROVE  j - i + k >= 1 /\ (j - i + k <= Len(u) => u[j - i + k] = <<p, k>>)
    <3>1. j - i + k = n + k /\ n + k >= 1
      BY <2>2
    <3>2. u[n + k] = <<p, k>>
      OBVIOUS
    <3> QED BY <3>1, <3>2
  <2> QED BY <2>2, <2>4, <2>5
<1> QED BY <1>1, <1>2

LEMMA AllSized ==
  ASSUME NEW P, NEW lens \in [P -> Nat], NEW s \in Seq(P \X Nat)
  PROVE  Sized(lens, s)
<1> SUFFICES ASSUME NEW i \in 1..Len(s)
             PROVE  s[i][2] \in Nat /\ Size(lens, s[i][1]) \in Nat
  BY DEF Sized
<1>1. s[i][1] \in P /\ s[i][2] \in Nat
  BY ByteType
<1> QED BY <1>1, SizeType

\* A packet put at the end.
LEMMA AddPacket ==
  ASSUME NEW P, NEW lens \in [P -> Nat], NEW s \in Seq(P \X Nat), NEW first, NEW last \in Nat,
         last + 1 \in P, Stream(lens, s, first), Ends(lens, s, last),
         s = <<>> => first = last + 1
  PROVE  /\ Stream(lens, s \o Bytes(lens, last + 1), first)
         /\ Ends(lens, s \o Bytes(lens, last + 1), last + 1)
<1>1. PICK p : p = last + 1
  OBVIOUS
<1>2. PICK n, Z : n = Len(s) /\ Z = Size(lens, p)
  OBVIOUS
<1>3. n \in Nat /\ Z \in Nat \ {0}
  BY <1>1, <1>2, SizeType, LenProperties
<1>4. PICK b : b = Bytes(lens, p)
  OBVIOUS
<1>5. b \in Seq(P \X Nat) /\ Len(b) = Z /\ \A i \in 1..Z : b[i] = <<p, i>>
  <2>1. p \in P
    BY <1>1
  <2>2. /\ Bytes(lens, p) \in Seq(P \X Nat) /\ Len(Bytes(lens, p)) = Size(lens, p)
        /\ \A i \in 1..Size(lens, p) : Bytes(lens, p)[i] = <<p, i>>
    BY <2>1, BytesType
  <2> QED BY <1>2, <1>4, <2>2
<1>6. PICK u : u = s \o b
  OBVIOUS
<1>7. /\ u \in Seq(P \X Nat) /\ Len(u) = n + Z
      /\ \A i \in 1..n + Z : u[i] = IF i <= n THEN s[i] ELSE b[i - n]
  <2>1. s \in Seq(P \X Nat) /\ b \in Seq(P \X Nat)
    BY <1>5
  <2>2. /\ s \o b \in Seq(P \X Nat) /\ Len(s \o b) = Len(s) + Len(b)
        /\ \A i \in 1..Len(s) + Len(b) :
             (s \o b)[i] = IF i <= Len(s) THEN s[i] ELSE b[i - Len(s)]
    BY <2>1, ConcatProperties
  <2>3. Len(s) = n /\ Len(b) = Z /\ s \o b = u
    BY <1>2, <1>5, <1>6
  <2> QED BY <2>2, <2>3
<1>8. ASSUME NEW i \in 1..n PROVE u[i] = s[i]
  <2>1. i \in 1..n + Z /\ i <= n
    BY <1>3
  <2> QED BY <1>7, <2>1
<1>9. ASSUME NEW i \in 1..Z PROVE u[n + i] = <<p, i>>
  <2>1. n + i \in 1..n + Z /\ ~(n + i <= n) /\ (n + i) - n = i
    BY <1>3
  <2>2. u[n + i] = b[i]
    BY <1>7, <2>1
  <2> QED BY <1>5, <2>2
<1>10. EndsAt(lens, s, n, last)
  BY <1>2, <1>3, EmptySeq DEF Ends, EndsAt
<1>11. n = 0 => first = p
  BY <1>1, <1>2, EmptySeq
<1>12. Sized(lens, s)
  BY AllSized
<1>13. Added(lens, s, u, n, Z, p)
  BY <1>2, <1>3, <1>7, <1>8, <1>9 DEF Added
<1>14. Starts(lens, u, first)
  BY <1>1, <1>10, <1>11, <1>13, AddedStarts
<1>15. Packed(lens, u)
  BY <1>10, <1>12, <1>13, AddedPacked
<1>16. Ends(lens, u, p)
  <2>1. u[n + Z] = <<p, Z>>
    <3>1. Z \in 1..Z
      BY <1>3
    <3> QED BY <1>9, <3>1
  <2> QED BY <1>2, <1>7, <2>1 DEF Ends
<1> QED BY <1>1, <1>4, <1>6, <1>14, <1>15, <1>16 DEF Stream
----------------------------------------------------------------------------
(* The buffer in which packets are looked for, and the bytes that follow   *)

LEMMA BufferAtFront ==
  ASSUME NEW S, NEW s \in Seq(S), NEW rest \in Seq(S)
  PROVE  /\ s \o rest \in Seq(S) /\ Len(s \o rest) = Len(s) + Len(rest)
         /\ Len(s) \in Nat /\ Len(rest) \in Nat
         /\ \A i \in 1..Len(s) : (s \o rest)[i] = s[i]
<1>1. Len(s) \in Nat /\ Len(rest) \in Nat
  BY LenProperties
<1>2. /\ s \o rest \in Seq(S) /\ Len(s \o rest) = Len(s) + Len(rest)
      /\ \A i \in 1..Len(s) + Len(rest) :
           (s \o rest)[i] = IF i <= Len(s) THEN s[i] ELSE rest[i - Len(s)]
  BY ConcatProperties
<1>3. ASSUME NEW i \in 1..Len(s) PROVE (s \o rest)[i] = s[i]
  <2>1. i \in 1..Len(s) + Len(rest) /\ i <= Len(s)
    BY <1>1
  <2> QED BY <1>2, <2>1
<1> QED BY <1>1, <1>2, <1>3

\* The header at the front of a stream is that of its first packet.
LEMMA HeaderRead ==
  ASSUME NEW P, NEW lens \in [P -> Nat], NEW s \in Seq(P \X Nat), NEW rest \in Seq(P \X Nat),
         NEW first, Stream(lens, s \o rest, first), Len(s) >= HeaderLen
  PROVE  first \in P /\ s[1][1] = first /\ HeaderAtFront(s)
<1>1. PICK t : t = s \o rest
  OBVIOUS
<1>2. /\ t \in Seq(P \X Nat) /\ Len(t) = Len(s) + Len(rest)
      /\ Len(s) \in Nat /\ Len(rest) \in Nat
      /\ \A i \in 1..Len(s) : t[i] = s[i]
  BY <1>1, BufferAtFront
<1>3. HeaderLen \in Nat \ {0} /\ 1 \in 1..Len(s) /\ Len(t) \in Nat \ {0}
  <2>1. HeaderLen \in Nat \ {0} /\ Len(s) \in Nat /\ Len(rest) \in Nat
    BY <1>2, HeaderAssumption
  <2>2. Len(t) = Len(s) + Len(rest)
    BY <1>2
  <2> QED BY <2>1, <2>2
<1>4. s[1] = <<first, 1>>
  <2>1. 1 \in 1..Len(t) /\ 1 = 1
    BY <1>2, <1>3
  <2>2. t[1] = <<first, 1>>
    BY <1>1, <2>1 DEF Stream, Starts
  <2> QED BY <1>2, <1>3, <2>2
<1>5. first \in P
  <2>1. s[1][1] \in P
    BY <1>3, ByteType
  <2> QED BY <1>4, <2>1
<1>6. Size(lens, first) \in Nat /\ Size(lens, first) >= HeaderLen
  BY <1>5, SizeType
<1>7. ASSUME NEW k \in 1..HeaderLen PROVE s[k] = <<first, k>>
  <2>1. k \in 1..Size(lens, first) /\ k <= Len(t) /\ k \in 1..Len(s)
    <3>1. Len(s) \in Nat /\ Len(rest) \in Nat /\ Len(t) = Len(s) + Len(rest)
      BY <1>2
    <3>2. HeaderLen \in Nat /\ k \in Nat
      BY <1>3
    <3> QED BY <1>6, <3>1, <3>2
  <2>2. Stream(lens, t, first)
    BY <1>1
  <2>3. t[k] = <<first, k>>
    BY <1>3, <2>1, <2>2, FrontBytes
  <2> QED BY <1>2, <2>1, <2>3
<1>8. s[1][1] = first
  BY <1>4
<1>9. HeaderAtFront(s)
  BY <1>7, <1>8 DEF HeaderAtFront
<1> QED BY <1>5, <1>8, <1>9

\* Packet first is whole in the buffer s.
Whole(P, lens, s, rest, first) ==
  /\ lens \in [P -> Nat] /\ s \in Seq(P \X Nat) /\ rest \in Seq(P \X Nat) /\ first \in P
  /\ Stream(lens, s \o rest, first) /\ Len(s) >= Size(lens, first)

\* It is cut from the buffer.
LEMMA CutPacket ==
  ASSUME NEW P, NEW lens, NEW s, NEW rest, NEW first, Whole(P, lens, s, rest, first)
  PROVE  /\ Drop(s, Size(lens, first)) \in Seq(P \X Nat)
         /\ Stream(lens, Drop(s, Size(lens, first)) \o rest, first + 1)
<1>0. /\ lens \in [P -> Nat] /\ s \in Seq(P \X Nat) /\ rest \in Seq(P \X Nat) /\ first \in P
      /\ Stream(lens, s \o rest, first) /\ Len(s) >= Size(lens, first)
  BY DEF Whole
<1>1. PICK Z : Z = Size(lens, first)
  OBVIOUS
<1>2. PICK t : t = s \o rest
  OBVIOUS
<1>3. t \in Seq(P \X Nat) /\ Len(t) = Len(s) + Len(rest) /\ Len(s) \in Nat /\ Len(rest) \in Nat
  BY <1>0, <1>2, BufferAtFront
<1>4. Z \in Nat \ {0} /\ Z \in 0..Len(s) /\ Z \in 0..Len(t) /\ Z <= Len(t)
  <2>1. Z \in Nat \ {0} /\ Z <= Len(s)
    BY <1>0, <1>1, SizeType
  <2> QED BY <1>3, <2>1
<1>5. Drop(s, Z) \o rest = Drop(t, Z)
  BY <1>0, <1>2, <1>4, DropConcat
<1>6. Drop(s, Z) \in Seq(P \X Nat)
  BY <1>0, <1>4, DropType
<1>7. Stream(lens, t, first)
  BY <1>0, <1>2
<1>8. Stream(lens, Drop(t, Z), first + 1)
  BY <1>0, <1>1, <1>3, <1>4, <1>7, DropPacket
<1> QED BY <1>1, <1>2, <1>5, <1>6, <1>8

\* When nothing is left, the packet taken was the last.
LEMMA LastTaken ==
  ASSUME NEW P, NEW lens, NEW t, NEW first, NEW last,
         Whole(P, lens, t, <<>>, first), Ends(lens, t, last)
  PROVE  /\ Ends(lens, Drop(t, Size(lens, first)), last)
         /\ Drop(t, Size(lens, first)) = <<>> => first = last
<1>0. /\ lens \in [P -> Nat] /\ t \in Seq(P \X Nat) /\ first \in P
      /\ Stream(lens, t, first) /\ Len(t) >= Size(lens, first)
  BY ConcatEmptySeq DEF Whole
<1>1. PICK Z : Z = Size(lens, first)
  OBVIOUS
<1>2. Z \in Nat \ {0} /\ Z \in 0..Len(t) /\ Len(t) \in Nat
  <2>1. Z \in Nat \ {0} /\ Z <= Len(t) /\ Len(t) \in Nat
    BY <1>0, <1>1, SizeType, LenProperties
  <2> QED BY <2>1
<1>3. Ends(lens, Drop(t, Z), last)
  BY <1>0, <1>2, DropEnds
<1>4. ASSUME Drop(t, Z) = <<>> PROVE first = last
  <2>1. Len(Drop(t, Z)) = Len(t) - Z /\ Len(Drop(t, Z)) = 0
    BY <1>0, <1>2, <1>4, DropType, EmptySeq
  <2>2. Z = Len(t) /\ t # <<>>
    BY <1>0, <1>2, <2>1, EmptySeq
  <2>3. t[Z] = <<last, Size(lens, last)>>
    BY <2>2 DEF Ends
  <2>4. Z \in 1..Size(lens, first) /\ Len(t) \in Nat \ {0} /\ Z <= Len(t)
    BY <1>1, <1>2, <2>2
  <2>5. t[Z] = <<first, Z>>
    BY <1>0, <2>4, FrontBytes
  <2> QED BY <2>3, <2>5
<1> QED BY <1>1, <1>3, <1>4

\* Three buffers in a row.
LEMMA Regroup ==
  ASSUME NEW S, NEW a \in Seq(S), NEW b \in Seq(S), NEW c \in Seq(S)
  PROVE  a \o b \o c = a \o (b \o c) /\ b \o c \in Seq(S) /\ a \o b \o c \in Seq(S)
<1>1. a \o b \in Seq(S) /\ b \o c \in Seq(S)
  OBVIOUS
<1>2. a \o b \o c = a \o (b \o c)
  OBVIOUS
<1>3. (a \o b) \o c \in Seq(S)
  BY <1>1
<1> QED BY <1>1, <1>2, <1>3

\* The same bytes, some of them one buffer further.
LEMMA Moved ==
  ASSUME NEW S, NEW a \in Seq(S), NEW b \in Seq(S), NEW k \in 0..Len(b)
  PROVE  /\ (a \o SubSeq(b, 1, k)) \o Drop(b, k) = a \o b
         /\ a \o SubSeq(b, 1, k) \in Seq(S) /\ Drop(b, k) \in Seq(S)
<1>1. PICK t, d : t = SubSeq(b, 1, k) /\ d = Drop(b, k)
  OBVIOUS
<1>2. t \in Seq(S) /\ d \in Seq(S) /\ t \o d = b
  BY <1>1, TakeType, DropType, Rejoin
<1>3. (a \o t) \o d = a \o (t \o d)
  <2>1. a \in Seq(S) /\ t \in Seq(S) /\ d \in Seq(S)
    BY <1>2
  <2> QED BY <2>1, Regroup
<1>4. a \o t \in Seq(S)
  BY <1>2, ConcatProperties
<1> QED BY <1>1, <1>2, <1>3, <1>4
\* The end of the bytes is lost.
LEMMA PrefixStream ==
  ASSUME NEW P, NEW lens \in [P -> Nat], NEW s \in Seq(P \X Nat), NEW t \in Seq(P \X Nat),
         NEW first, Stream(lens, s \o t, first)
  PROVE  Stream(lens, s, first)
<1>1. CASE s = <<>>
  <2>1. Len(s) = 0
    BY <1>1
  <2> QED BY <2>1, EmptyStream
<1>2. CASE s # <<>>
  <2>1. Len(s) \in Nat \ {0} /\ Len(t) \in Nat
    BY <1>2, EmptySeq, LenProperties
  <2>2. PICK n : n = Len(s)
    OBVIOUS
  <2>3. PICK u : u = s \o t
    OBVIOUS
  <2>4. u \in Seq(P \X Nat) /\ Len(u) = n + Len(t)
    BY <2>2, <2>3, BufferAtFront
  <2>5. n \in 0..Len(u) /\ 1 \in 1..n /\ n \in 1..n
    BY <2>1, <2>2, <2>4
  <2>6. SubSeq(s \o t, 1, n) = SubSeq(s, 1, n)
    BY <2>2, <2>5, SubSeqOfConcat1
  <2>7. SubSeq(s, 1, n) = s
    BY <2>2, SubSeqFull
  <2>8. Stream(lens, SubSeq(u, 1, n), first)
    <3>1. Stream(lens, u, first)
      BY <2>3
    <3> QED BY <2>4, <2>5, <3>1, TakeStream
  <2> QED BY <2>3, <2>6, <2>7, <2>8
<1> QED BY <1>1, <1>2
----------------------------------------------------------------------------
\* s is made of the packets after the one numbered n up to the one numbered last.
Between(lens, s, n, last) ==
  Stream(lens, s, n + 1) /\ Ends(lens, s, last) /\ (s = <<>> => n = last)

LEMMA NothingBetween ==
  ASSUME NEW lens, NEW n, NEW last, n = last
  PROVE  Between(lens, <<>>, n, last)
<1>1. Len(<<>>) = 0
  OBVIOUS
<1>2. Stream(lens, <<>>, n + 1)
  BY <1>1, EmptyStream
<1> QED BY <1>2 DEF Between, Ends

LEMMA OneMore ==
  ASSUME NEW P, NEW lens \in [P -> Nat], NEW s \in Seq(P \X Nat), NEW n, NEW last \in Nat,
         last + 1 \in P, Between(lens, s, n, last)
  PROVE  Between(lens, s \o Bytes(lens, last + 1), n, last + 1)
<1>1. PICK b : b = Bytes(lens, last + 1)
  OBVIOUS
<1>2. Stream(lens, s, n + 1) /\ Ends(lens, s, last) /\ (s = <<>> => n + 1 = last + 1)
  BY DEF Between
<1>3. Stream(lens, s \o b, n + 1) /\ Ends(lens, s \o b, last + 1)
  BY <1>1, <1>2, AddPacket
<1>4. b \in Seq(P \X Nat) /\ Len(b) = Size(lens, last + 1)
  BY <1>1, BytesType
<1>5. Len(b) # 0
  BY <1>4, SizeType
<1>6. s \o b # <<>>
  <2>1. Len(s \o b) = Len(s) + Len(b) /\ Len(s) \in Nat /\ Len(b) \in Nat
    BY <1>4, BufferAtFront
  <2> QED BY <1>5, <2>1
<1> QED BY <1>1, <1>3, <1>6 DEF Between

LEMMA OneLess ==
  ASSUME NEW P, NEW lens \in [P -> Nat], NEW s \in Seq(P \X Nat), NEW rest \in Seq(P \X Nat),
         NEW n, NEW last, n + 1 \in P, Between(lens, s \o rest, n, last),
         Len(s) >= Size(lens, n + 1)
  PROVE  Between(lens, Drop(s, Size(lens, n + 1)) \o rest, n + 1, last)
<1>1. PICK m \in P : m = n + 1
  OBVIOUS
<1>2. Whole(P, lens, s, rest, m) /\ Stream(lens, s \o rest, m) /\ Ends(lens, s \o rest, last)
  BY <1>1 DEF Between, Whole
<1>3. PICK d : d = Drop(s, Size(lens, m)) \o rest
  OBVIOUS
<1>4. Stream(lens, d, m + 1)
  BY <1>2, <1>3, CutPacket
<1>5. Ends(lens, d, last) /\ (d = <<>> => m = last)
  <2>1. PICK t : t = s \o rest
    OBVIOUS
  <2>2. PICK Z : Z = Size(lens, m)
    OBVIOUS
  <2>3. Z \in 0..Len(s) /\ Z <= Len(t) /\ t \in Seq(P \X Nat)
    <3>1. t \in Seq(P \X Nat) /\ Len(t) = Len(s) + Len(rest) /\ Len(s) \in Nat /\ Len(rest) \in Nat
      BY <2>1, BufferAtFront
    <3>2. Z \in Nat /\ Z <= Len(s)
      BY <1>2, <2>2, SizeType DEF Whole
    <3> QED BY <3>1, <3>2
  <2>4. d = Drop(t, Z)
    BY <1>3, <2>1, <2>2, <2>3, DropConcat
  <2>5. Whole(P, lens, t, <<>>, m) /\ Ends(lens, t, last)
    BY <1>2, <2>1, <2>2, <2>3, ConcatEmptySeq, EmptySeq DEF Whole
  <2>6. Ends(lens, Drop(t, Size(lens, m)), last)
        /\ (Drop(t, Size(lens, m)) = <<>> => m = last)
    BY ONLY <2>5, LastTaken
  <2> QED BY <2>2, <2>4, <2>6
<1> QED BY <1>1, <1>3, <1>4, <1>5 DEF Between

\* The first packet of a stream has the number of one of its bytes.
LEMMA FirstNumber ==
  ASSUME NEW P, NEW lens, NEW s \in Seq(P \X Nat), NEW rest \in Seq(P \X Nat), NEW first,
         Stream(lens, s \o rest, first), Len(s) >= HeaderLen
  PROVE  first \in P
<1>1. PICK t : t = s \o rest
  OBVIOUS
<1>2. /\ Len(t) = Len(s) + Len(rest) /\ Len(s) \in Nat /\ Len(rest) \in Nat
      /\ \A i \in 1..Len(s) : t[i] = s[i]
  BY <1>1, BufferAtFront
<1>3. 1 \in 1..Len(s) /\ 1 \in 1..Len(t) /\ 1 = 1
  <2>1. Len(s) \in Nat /\ Len(rest) \in Nat /\ HeaderLen \in Nat \ {0}
    BY <1>2, HeaderAssumption
  <2>2. Len(t) = Len(s) + Len(rest)
    BY <1>2
  <2> QED BY <2>1, <2>2
<1>4. t[1] = <<first, 1>>
  BY <1>1, <1>3 DEF Stream, Starts
<1>5. s[1] = <<first, 1>> /\ s[1][1] \in P
  BY <1>2, <1>3, <1>4, ByteType
<1> QED BY <1>5

LEMMA WiderType ==
  ASSUME NEW m \in Int, NEW n \in Int, m <= n, NEW s \in Seq((1..m) \X Nat)
  PROVE  s \in Seq((1..n) \X Nat)
<1>1. (1..m) \X Nat \subseteq (1..n) \X Nat
  OBVIOUS
<1> QED BY <1>1
----------------------------------------------------------------------------
(* The answers                                                             *)

\* What has reached the client's process, and all bytes under way.
Held == receiveBuffer \o arrived
Pending == Held \o wire \o sendQueue

\* Only bytes of packets that were sent are under way.
BytesOK ==
  /\ sendQueue \in Seq((1..sent) \X Nat) /\ wire \in Seq((1..sent) \X Nat)
  /\ arrived \in Seq((1..sent) \X Nat) /\ receiveBuffer \in Seq((1..sent) \X Nat)

RestOK ==
  /\ sent \in 0..N /\ Len(wire) <= Capacity
  /\ {writePending, armed, edge, reading, inSlot, failed} \subseteq BOOLEAN
  /\ received \in Seq(0..N) /\ discarded \in {"no", "memory", "size"}

\* A sender that waits for EPOLLOUT will get it, also while its queue is not looked at.
WakePending ==
  /\ writePending => armed /\ (edge \/ Free = 0)
  /\ sendQueue # <<>> /\ ~failed => writePending

\* What the client has emitted, and what is still under way.
Intact ==
  discarded = "no" =>
    /\ Len(received) <= sent
    /\ \A i \in 1..Len(received) : received[i] = i
    /\ Between(BodyLen, Pending, Len(received), sent)

\* The packet for whose size the buffer was thrown away.
Oversize ==
  discarded = "size" => \E p \in 1..sent : BodyLen[p] > MaxBody /\ Emitted(p - 1)

ReplyInv == BytesOK /\ RestOK /\ WakePending /\ Intact /\ Oversize
----------------------------------------------------------------------------
LEMMA ReplyInit == Init => ReplyInv
<1> SUFFICES ASSUME Init PROVE ReplyInv
  OBVIOUS
<1>1. /\ sent = 0 /\ sendQueue = <<>> /\ wire = <<>> /\ receiveBuffer = <<>>
      /\ arrived = <<>> /\ received = <<>> /\ Len(received) = 0 /\ Len(wire) = 0
      /\ discarded = "no"
  BY DEF Init
<1>2. BytesOK
  BY <1>1 DEF BytesOK
<1>3. RestOK
  <2>1. sent \in 0..N /\ Len(wire) <= Capacity
    BY <1>1, SizesAssumption
  <2>2. received \in Seq(0..N)
    BY <1>1, EmptySeq
  <2>3. {writePending, armed, edge, reading, inSlot, failed} \subseteq BOOLEAN
    BY DEF Init
  <2> QED BY <1>1, <2>1, <2>2, <2>3 DEF RestOK
<1>4. WakePending
  BY <1>1 DEF Init, WakePending
<1>5. Pending = <<>>
  BY <1>1 DEF Pending, Held
<1>6. Between(BodyLen, Pending, 0, 0)
  BY <1>5, NothingBetween
<1>7. Intact /\ Oversize
  BY <1>1, <1>6 DEF Intact, Oversize
<1> QED BY <1>2, <1>3, <1>4, <1>7 DEF ReplyInv

\* The bytes given to flushSendQueue go to the socket or stay in the queue.
LEMMA FlushKeeps ==
  ASSUME NEW S, wire \in Seq(S), receiveBuffer \in Seq(S), NEW q \in Seq(S),
         Len(wire) <= Capacity, RestOK, FlushSendQueue(q)
  PROVE  /\ wire' \in Seq(S) /\ sendQueue' \in Seq(S) /\ Len(wire') <= Capacity
         /\ wire' \o sendQueue' = wire \o q
         /\ {writePending', armed', edge', failed'} \subseteq BOOLEAN
         /\ WakePending'
<1>1. PICK k \in 0..Len(q) :
        /\ k <= Free
        /\ wire' = wire \o SubSeq(q, 1, k) /\ sendQueue' = Drop(q, k)
        /\ \/ /\ k = Len(q)
              /\ writePending' = FALSE /\ armed' = FALSE /\ edge' = FALSE /\ failed' = FALSE
           \/ /\ k < Len(q) /\ k = Free
              /\ writePending' = TRUE /\ armed' = TRUE /\ edge' = FALSE /\ failed' = FALSE
           \/ /\ SendMayFail /\ k < Len(q)
              /\ writePending' = FALSE /\ failed' = TRUE
              /\ edge' = FALSE /\ UNCHANGED armed
  BY DEF FlushSendQueue, ArmWriteNotification
<1>2. wire' \in Seq(S) /\ sendQueue' \in Seq(S) /\ wire' \o sendQueue' = wire \o q
  <2>1. /\ (wire \o SubSeq(q, 1, k)) \o Drop(q, k) = wire \o q
        /\ wire \o SubSeq(q, 1, k) \in Seq(S) /\ Drop(q, k) \in Seq(S)
    BY Moved
  <2> QED BY <1>1, <2>1
<1>3. /\ Len(wire) \in Nat /\ Len(q) \in Nat /\ Len(wire') = Len(wire) + k
      /\ Len(sendQueue') = Len(q) - k
  <2>1. PICK t : t = SubSeq(q, 1, k)
    OBVIOUS
  <2>2. t \in Seq(S) /\ Len(t) = k
    BY <2>1, TakeType
  <2>3. wire' = wire \o t
    BY <1>1, <2>1
  <2>4. Len(wire') = Len(wire) + Len(t)
    BY <2>2, <2>3, ConcatProperties
  <2>5. Len(Drop(q, k)) = Len(q) - k
    BY DropType
  <2> QED BY <1>1, <2>2, <2>4, <2>5, LenProperties
<1>4. Len(wire') <= Capacity /\ (k = Free => Free' = 0)
  BY <1>1, <1>3, SizesAssumption DEF Free
<1>5. {writePending', armed', edge', failed'} \subseteq BOOLEAN
  BY <1>1 DEF RestOK
<1>6. k = Len(q) => sendQueue' = <<>>
  BY <1>2, <1>3, EmptySeq
<1>7. WakePending'
  BY <1>1, <1>4, <1>6 DEF WakePending
<1> QED BY <1>2, <1>4, <1>5, <1>7

\* The packet that was too large stays so while the client keeps what it has emitted.
LEMMA OversizeStays ==
  ASSUME ReplyInv, sent' \in Nat, sent' >= sent, UNCHANGED received,
         discarded' = "size" => discarded = "size"
  PROVE  Oversize'
<1> SUFFICES ASSUME discarded' = "size"
             PROVE  \E p \in 1..sent' : BodyLen[p] > MaxBody /\ Emitted(p - 1)'
  BY DEF Oversize
<1>1. PICK p \in 1..sent : BodyLen[p] > MaxBody /\ Emitted(p - 1)
  BY DEF ReplyInv, Oversize
<1>2. p \in 1..sent' /\ Emitted(p - 1)'
  BY <1>1 DEF ReplyInv, RestOK, Emitted
<1> QED BY <1>1, <1>2

\* sendPacket puts the bytes of the next packet at the end of all that are under way.
LEMMA ReplySent ==
  ASSUME ReplyInv, SendPacket
  PROVE  ReplyInv'
<1>1. /\ sent < N /\ sent' = sent + 1 /\ sent \in Nat /\ N \in Nat /\ sent + 1 \in 1..N
      /\ UNCHANGED clientVars
  BY SizesAssumption DEF ReplyInv, RestOK, SendPacket
<1> DEFINE S == (1..sent + 1) \X Nat
<1>2. PICK b : b = Bytes(BodyLen, sent + 1)
  OBVIOUS
<1>3. b \in Seq(S)
  <2>1. BodyLen \in [1..N -> Nat]
    BY SizesAssumption
  <2>2. Size(BodyLen, sent + 1) \in Nat /\ \A i \in 1..Size(BodyLen, sent + 1) : i \in Nat
    BY <1>1, <2>1, SizeType
  <2>3. sent + 1 \in 1..sent + 1
    BY <1>1
  <2> QED BY <1>2, <2>2, <2>3 DEF Bytes
<1>4. /\ sendQueue \in Seq(S) /\ wire \in Seq(S) /\ arrived \in Seq(S)
      /\ receiveBuffer \in Seq(S) /\ Held \in Seq(S)
  <2>1. (1..sent) \X Nat \subseteq S
    BY <1>1
  <2>2. receiveBuffer \in Seq(S) /\ arrived \in Seq(S)
    BY <2>1 DEF ReplyInv, BytesOK
  <2> QED BY <2>1, <2>2, ConcatProperties DEF ReplyInv, BytesOK, Held
<1> HIDE DEF S
<1>5. PICK q : q = sendQueue \o b
  OBVIOUS
<1>6. q \in Seq(S)
  BY <1>3, <1>4, <1>5, ConcatProperties
<1>7. /\ wire' \in Seq(S) /\ sendQueue' \in Seq(S) /\ Len(wire') <= Capacity
      /\ wire' \o sendQueue' = wire \o q
      /\ {writePending', armed', edge', failed'} \subseteq BOOLEAN
      /\ WakePending'
  <2>1. CASE writePending
    <3>1. sendQueue' = q /\ UNCHANGED <<writePending, armed, edge, wire, failed>>
      BY <1>2, <1>5, <2>1 DEF SendPacket, Reply
    <3>2. WakePending'
      BY <2>1, <3>1 DEF ReplyInv, WakePending, Free
    <3> QED BY <1>4, <1>6, <3>1, <3>2 DEF ReplyInv, RestOK
  <2>2. CASE ~writePending
    <3>1. FlushSendQueue(q)
      BY <1>2, <1>5, <2>2 DEF SendPacket, Reply
    <3>2. RestOK /\ Len(wire) <= Capacity
      BY DEF ReplyInv, RestOK
    <3> QED BY <1>4, <1>6, <3>1, <3>2, FlushKeeps
  <2> QED BY <2>1, <2>2
<1>8. BytesOK'
  BY <1>1, <1>4, <1>7 DEF BytesOK, S, clientVars
<1>9. RestOK'
  BY <1>1, <1>7 DEF ReplyInv, RestOK, clientVars
<1>10. Pending' = Pending \o b
  <2>1. \A x, y, z \in Seq(S) : (x \o y) \o z = x \o (y \o z)
    BY ConcatAssociative
  <2>2. Pending' = (Held \o wire') \o sendQueue'
    BY <1>1 DEF Pending, Held, clientVars
  <2>3. @ = Held \o (wire' \o sendQueue')
    BY ONLY <1>4, <1>7, <2>1
  <2>4. @ = Held \o (wire \o (sendQueue \o b))
    BY <1>5, <1>7
  <2>5. wire \o (sendQueue \o b) = (wire \o sendQueue) \o b
    BY ONLY <1>3, <1>4, <2>1
  <2>6. wire \o sendQueue \in Seq(S)
    BY <1>4, ConcatProperties
  <2>7. Held \o ((wire \o sendQueue) \o b) = (Held \o (wire \o sendQueue)) \o b
    BY SMTT(30), <1>3, <1>4, <2>1, <2>6
  <2>8. Held \o (wire \o sendQueue) = Pending
    BY <1>4, <2>1 DEF Pending
  <2> QED BY <2>2, <2>3, <2>4, <2>5, <2>7, <2>8
<1>11. Intact'
  <2> SUFFICES ASSUME discarded = "no"
               PROVE  /\ Len(received) <= sent + 1
                      /\ \A i \in 1..Len(received) : received[i] = i
                      /\ Between(BodyLen, Pending', Len(received), sent + 1)
    BY <1>1 DEF Intact, clientVars
  <2>2. /\ Len(received) <= sent /\ \A i \in 1..Len(received) : received[i] = i
        /\ Between(BodyLen, Pending, Len(received), sent)
    BY DEF ReplyInv, Intact
  <2>3. Len(received) <= sent + 1
    BY <1>1, <2>2, LenProperties DEF ReplyInv, RestOK
  <2>4. Pending \in Seq((1..N) \X Nat)
    <3>1. (1..sent) \X Nat \subseteq (1..N) \X Nat
      BY <1>1
    <3>2. /\ receiveBuffer \in Seq((1..N) \X Nat) /\ arrived \in Seq((1..N) \X Nat)
          /\ wire \in Seq((1..N) \X Nat) /\ sendQueue \in Seq((1..N) \X Nat)
      BY <3>1 DEF ReplyInv, BytesOK
    <3> QED BY <3>2, ConcatProperties DEF Pending, Held
  <2>5. BodyLen \in [1..N -> Nat]
    BY SizesAssumption
  <2>6. Between(BodyLen, Pending \o Bytes(BodyLen, sent + 1), Len(received), sent + 1)
    BY <1>1, <2>2, <2>4, <2>5, OneMore
  <2> QED BY <1>2, <1>10, <2>2, <2>3, <2>6
<1>12. Oversize'
  BY <1>1, OversizeStays DEF clientVars
<1> QED BY <1>7, <1>8, <1>9, <1>11, <1>12 DEF ReplyInv
\* handleWrite moves bytes from the queue to the socket.
LEMMA ReplyWritten ==
  ASSUME ReplyInv, HandleWrite
  PROVE  ReplyInv'
<1>1. FlushSendQueue(sendQueue) /\ UNCHANGED <<sent, clientVars>>
  BY DEF HandleWrite
<1> DEFINE S == (1..sent) \X Nat
<1>2. /\ sendQueue \in Seq(S) /\ wire \in Seq(S) /\ arrived \in Seq(S)
      /\ receiveBuffer \in Seq(S) /\ Held \in Seq(S)
  BY ConcatProperties DEF ReplyInv, BytesOK, Held
<1> HIDE DEF S
<1>3. /\ wire' \in Seq(S) /\ sendQueue' \in Seq(S) /\ Len(wire') <= Capacity
      /\ wire' \o sendQueue' = wire \o sendQueue
      /\ {writePending', armed', edge', failed'} \subseteq BOOLEAN
      /\ WakePending'
  <2>1. RestOK /\ Len(wire) <= Capacity
    BY DEF ReplyInv, RestOK
  <2> QED BY <1>1, <1>2, <2>1, FlushKeeps
<1>4. BytesOK'
  BY <1>1, <1>2, <1>3 DEF BytesOK, S, clientVars
<1>5. RestOK'
  BY <1>1, <1>3 DEF ReplyInv, RestOK, clientVars
<1>6. Pending' = Pending
  <2>1. \A x, y, z \in Seq(S) : (x \o y) \o z = x \o (y \o z)
    BY ConcatAssociative
  <2>2. Pending' = (Held \o wire') \o sendQueue'
    BY <1>1 DEF Pending, Held, clientVars
  <2>3. @ = Held \o (wire' \o sendQueue')
    BY <1>2, <1>3, <2>1
  <2>4. @ = Held \o (wire \o sendQueue)
    BY <1>3
  <2>5. @ = Pending
    BY <1>2, <2>1 DEF Pending
  <2> QED BY <2>2, <2>3, <2>4, <2>5
<1>7. Intact'
  BY <1>1, <1>6 DEF ReplyInv, Intact, clientVars
<1>8. Oversize'
  BY <1>1, OversizeStays DEF clientVars, ReplyInv, RestOK
<1> QED BY <1>3, <1>4, <1>5, <1>7, <1>8 DEF ReplyInv

LEMMA ReplyWritable ==
  ASSUME ReplyInv, WritableAgain
  PROVE  ReplyInv'
<1>1. edge' = TRUE /\ UNCHANGED <<senderVars, wire, clientVars>>
  BY DEF WritableAgain
<1> USE <1>1 DEF senderVars, clientVars
<1>2. BytesOK' /\ RestOK'
  BY DEF ReplyInv, BytesOK, RestOK
<1>3. WakePending'
  BY DEF ReplyInv, WakePending
<1>4. Intact'
  BY DEF ReplyInv, Intact, Pending, Held
<1>5. Oversize'
  BY OversizeStays DEF ReplyInv, RestOK
<1> QED BY <1>2, <1>3, <1>4, <1>5 DEF ReplyInv

\* n bytes leave the socket.
LEMMA Leaving ==
  ASSUME ReplyInv, NEW n \in 1..Len(wire), Receive(n), UNCHANGED senderVars
  PROVE  /\ Len(wire) \in Nat /\ n \in 0..Len(wire)
         /\ wire' \in Seq((1..sent) \X Nat) /\ SubSeq(wire, 1, n) \in Seq((1..sent) \X Nat)
         /\ Len(wire') <= Capacity /\ WakePending'
<1>1. wire' = Drop(wire, n) /\ edge' = armed
  BY DEF Receive
<1>2. wire \in Seq((1..sent) \X Nat)
  BY DEF ReplyInv, BytesOK
<1>3. Len(wire) \in Nat /\ n \in 0..Len(wire)
  BY <1>2, LenProperties
<1>4. wire' \in Seq((1..sent) \X Nat) /\ SubSeq(wire, 1, n) \in Seq((1..sent) \X Nat)
  BY <1>1, <1>2, <1>3, DropType, TakeType
<1>5. Len(wire') = Len(wire) - n
  BY <1>1, <1>2, <1>3, DropType
<1>6. Len(wire') <= Capacity
  BY <1>3, <1>5, SizesAssumption DEF ReplyInv, RestOK
<1>7. WakePending'
  BY <1>1 DEF ReplyInv, WakePending, senderVars
<1> QED BY <1>3, <1>4, <1>6, <1>7

\* Bytes move from the socket to the client, behind those it holds.
LEMMA ReplyTaken ==
  ASSUME ReplyInv, NEW n \in 1..Len(wire), Receive(n),
         UNCHANGED <<senderVars, received, discarded>>,
         {reading', inSlot'} \subseteq BOOLEAN,
         receiveBuffer' \in Seq((1..sent) \X Nat), arrived' \in Seq((1..sent) \X Nat),
         Held' = Held \o SubSeq(wire, 1, n)
  PROVE  ReplyInv'
<1> USE DEF senderVars
<1>1. wire' = Drop(wire, n) /\ edge' = armed
  BY DEF Receive
<1>2. /\ Len(wire) \in Nat /\ n \in 0..Len(wire) /\ wire' \in Seq((1..sent) \X Nat)
      /\ Len(wire') <= Capacity /\ WakePending'
  BY Leaving
<1>3. BytesOK'
  BY <1>2 DEF ReplyInv, BytesOK
<1>4. RestOK'
  BY <1>1, <1>2 DEF ReplyInv, RestOK
<1>5. Pending' = Pending
  <2>1. PICK S : S = (1..sent) \X Nat
    OBVIOUS
  <2>2. receiveBuffer \in Seq(S) /\ arrived \in Seq(S) /\ wire \in Seq(S)
    BY <2>1 DEF ReplyInv, BytesOK
  <2>3. PICK h : h = Held
    OBVIOUS
  <2>4. h \in Seq(S)
    BY <2>2, <2>3, ConcatProperties DEF Held
  <2>5. (h \o SubSeq(wire, 1, n)) \o Drop(wire, n) = h \o wire
    <3>1. PICK w, k : w = wire /\ k = n
      OBVIOUS
    <3>2. w \in Seq(S) /\ k \in 0..Len(w)
      BY <1>2, <2>2, <3>1
    <3>3. (h \o SubSeq(w, 1, k)) \o Drop(w, k) = h \o w
      BY ONLY <2>4, <3>2, Moved
    <3> QED BY <3>1, <3>3
  <2>6. Held' \o wire' = Held \o wire
    BY <1>1, <2>3, <2>5
  <2> QED BY <2>6 DEF Pending
<1>6. Intact'
  BY <1>5 DEF ReplyInv, Intact
<1>7. Oversize'
  BY OversizeStays DEF ReplyInv, RestOK
<1> QED BY <1>2, <1>3, <1>4, <1>6, <1>7 DEF ReplyInv

\* readAll takes what Qt holds and what has just come.
LEMMA ReplyRead ==
  ASSUME ReplyInv, ReadyRead
  PROVE  ReplyInv'
<1>1. PICK n \in 1..Len(wire) :
        /\ Receive(n)
        /\ receiveBuffer' = receiveBuffer \o arrived \o SubSeq(wire, 1, n)
  BY DEF ReadyRead
<1>2. /\ reading' = TRUE /\ arrived' = <<>>
      /\ UNCHANGED <<senderVars, inSlot, received, discarded>>
  BY DEF ReadyRead
<1>3. PICK S : S = (1..sent) \X Nat
  OBVIOUS
<1>4. receiveBuffer \in Seq(S) /\ arrived \in Seq(S) /\ SubSeq(wire, 1, n) \in Seq(S)
  BY <1>1, <1>2, <1>3, Leaving DEF ReplyInv, BytesOK
<1>5. receiveBuffer' \in Seq(S) /\ arrived' \in Seq(S)
  <2>1. receiveBuffer \o arrived \in Seq(S)
    BY <1>4, ConcatProperties
  <2>2. receiveBuffer \o arrived \o SubSeq(wire, 1, n) \in Seq(S)
    BY <1>4, <2>1, ConcatProperties
  <2> QED BY <1>1, <1>2, <2>2, EmptySeq
<1>6. Held' = Held \o SubSeq(wire, 1, n)
  BY <1>1, <1>2, <1>5, ConcatEmptySeq DEF Held
<1>7. {reading', inSlot'} \subseteq BOOLEAN
  BY <1>2 DEF ReplyInv, RestOK
<1> QED BY <1>1, <1>2, <1>3, <1>5, <1>6, <1>7, ReplyTaken

\* A dialog's event loop adds bytes to those Qt holds.
LEMMA ReplyUnannounced ==
  ASSUME ReplyInv, ArriveUnannounced
  PROVE  ReplyInv'
<1>1. PICK n \in 1..Len(wire) : Receive(n) /\ arrived' = arrived \o SubSeq(wire, 1, n)
  BY DEF ArriveUnannounced
<1>2. UNCHANGED <<senderVars, receiveBuffer, reading, inSlot, received, discarded>>
  BY DEF ArriveUnannounced
<1>3. PICK S : S = (1..sent) \X Nat
  OBVIOUS
<1>4. receiveBuffer \in Seq(S) /\ arrived \in Seq(S) /\ SubSeq(wire, 1, n) \in Seq(S)
  BY <1>1, <1>2, <1>3, Leaving DEF ReplyInv, BytesOK
<1>5. receiveBuffer' \in Seq(S) /\ arrived' \in Seq(S)
  BY <1>1, <1>2, <1>4, ConcatProperties
<1>6. Held' = Held \o SubSeq(wire, 1, n)
  <2>1. (receiveBuffer \o arrived) \o SubSeq(wire, 1, n)
          = receiveBuffer \o (arrived \o SubSeq(wire, 1, n))
    BY <1>4, Regroup
  <2> QED BY <1>1, <1>2, <2>1 DEF Held
<1>7. {reading', inSlot'} \subseteq BOOLEAN
  BY <1>2 DEF ReplyInv, RestOK
<1> QED BY <1>1, <1>2, <1>3, <1>5, <1>6, <1>7, ReplyTaken

\* The receive buffer, and the rest of what is under way.
LEMMA PendingRest ==
  ASSUME NEW S, receiveBuffer \in Seq(S), arrived \in Seq(S), wire \in Seq(S),
         sendQueue \in Seq(S)
  PROVE  /\ Pending = receiveBuffer \o (arrived \o wire \o sendQueue)
         /\ arrived \o wire \o sendQueue \in Seq(S)
<1>1. PICK r, a, w, q : r = receiveBuffer /\ a = arrived /\ w = wire /\ q = sendQueue
  OBVIOUS
<1>2. r \in Seq(S) /\ a \in Seq(S) /\ w \in Seq(S) /\ q \in Seq(S)
  BY <1>1
<1>3. PICK aw : aw = a \o w
  OBVIOUS
<1>4. (r \o a) \o w = r \o aw /\ aw \in Seq(S)
  BY ONLY <1>2, <1>3, Regroup
<1>5. (r \o aw) \o q = r \o (aw \o q) /\ aw \o q \in Seq(S)
  BY ONLY <1>2, <1>4, Regroup
<1> QED BY <1>1, <1>3, <1>4, <1>5 DEF Pending, Held

\* What lies at the front of the buffer once a header is there.
LEMMA FrontReply ==
  ASSUME ReplyInv, Len(receiveBuffer) >= HeaderLen, discarded = "no"
  PROVE  /\ Len(received) + 1 \in 1..sent
         /\ FrontPacket(receiveBuffer) = Len(received) + 1
         /\ \A limit : FrontLen(BodyLen, receiveBuffer, limit) = {BodyLen[Len(received) + 1]}
<1>1. PICK rest : rest = arrived \o wire \o sendQueue
  OBVIOUS
<1>2. PICK f : f = Len(received) + 1
  OBVIOUS
<1>3. sent \in Nat /\ N \in Nat /\ sent <= N /\ BodyLen \in [1..N -> Nat]
  BY SizesAssumption DEF ReplyInv, RestOK
<1>4. Pending = receiveBuffer \o rest /\ rest \in Seq((1..sent) \X Nat)
  <2>1. PICK S : S = (1..sent) \X Nat
    OBVIOUS
  <2>2. /\ receiveBuffer \in Seq(S) /\ arrived \in Seq(S) /\ wire \in Seq(S)
        /\ sendQueue \in Seq(S)
    BY <2>1 DEF ReplyInv, BytesOK
  <2> QED BY <1>1, <2>1, <2>2, PendingRest
<1>5. Stream(BodyLen, receiveBuffer \o rest, f)
  BY <1>2, <1>4 DEF ReplyInv, Intact, Between
<1>6. receiveBuffer \in Seq((1..sent) \X Nat)
  BY DEF ReplyInv, BytesOK
<1>7. f \in 1..sent
  BY <1>4, <1>5, <1>6, FirstNumber
<1>8. receiveBuffer \in Seq((1..N) \X Nat) /\ rest \in Seq((1..N) \X Nat)
  BY <1>3, <1>4, <1>6, WiderType
<1>9. receiveBuffer[1][1] = f /\ HeaderAtFront(receiveBuffer)
  BY <1>3, <1>5, <1>8, HeaderRead
<1>10. /\ FrontPacket(receiveBuffer) = f
       /\ \A limit : FrontLen(BodyLen, receiveBuffer, limit) = {BodyLen[f]}
  BY <1>9 DEF FrontPacket, FrontLen
<1> QED BY <1>2, <1>7, <1>10

LEMMA ReplyExtracted ==
  ASSUME ReplyInv, Extract
  PROVE  ReplyInv'
<1>1. PICK len \in FrontLen(BodyLen, receiveBuffer, MaxBody + 1) :
        /\ len <= MaxBody /\ Len(receiveBuffer) >= HeaderLen + len
        /\ receiveBuffer' = Drop(receiveBuffer, HeaderLen + len)
  BY DEF Extract
<1>2. /\ Len(receiveBuffer) >= HeaderLen
      /\ received' = IF discarded = "no" THEN Append(received, FrontPacket(receiveBuffer))
                                        ELSE received
      /\ inSlot' = TRUE
      /\ UNCHANGED <<sent, sendQueue, writePending, armed, failed, edge, wire, arrived, reading,
                     discarded>>
  BY DEF Extract, senderVars
<1>3. /\ sendQueue \in Seq((1..sent) \X Nat) /\ wire \in Seq((1..sent) \X Nat)
      /\ arrived \in Seq((1..sent) \X Nat) /\ receiveBuffer \in Seq((1..sent) \X Nat)
  BY DEF ReplyInv, BytesOK
<1>4. /\ sent \in Nat /\ N \in Nat /\ sent <= N /\ BodyLen \in [1..N -> Nat] /\ MaxBody \in Nat
      /\ HeaderLen \in Nat \ {0} /\ received \in Seq(0..N) /\ Len(received) \in Nat
  BY SizesAssumption, HeaderAssumption, LenProperties DEF ReplyInv, RestOK
<1>5. Len(receiveBuffer) \in Nat /\ 1 \in 1..Len(receiveBuffer)
  BY <1>2, <1>3, <1>4, LenProperties
<1>6. receiveBuffer[1][1] \in 1..sent
  BY <1>3, <1>5, ByteType
<1>7. len \in Nat
  BY <1>1, <1>4, <1>6 DEF FrontLen
<1>8. FrontPacket(receiveBuffer) \in 0..N
  BY <1>4, <1>6 DEF FrontPacket
<1>9. BytesOK'
  <2>1. HeaderLen + len \in 0..Len(receiveBuffer)
    BY <1>1, <1>4, <1>5, <1>7
  <2>2. receiveBuffer' \in Seq((1..sent) \X Nat)
    BY <1>1, <1>3, <2>1, DropType
  <2> QED BY <1>2, <1>3, <2>2 DEF BytesOK
<1>10. /\ received' \in Seq(0..N)
       /\ discarded = "no" =>
            /\ Len(received') = Len(received) + 1
            /\ \A i \in 1..Len(received) : received'[i] = received[i]
            /\ received'[Len(received) + 1] = FrontPacket(receiveBuffer)
  <2>1. CASE discarded = "no"
    BY <1>2, <1>4, <1>8, <2>1, AppendProperties
  <2>2. CASE discarded # "no"
    BY <1>2, <1>4, <2>2
  <2> QED BY <2>1, <2>2
<1>11. RestOK'
  BY <1>2, <1>10 DEF ReplyInv, RestOK
<1>12. WakePending'
  BY <1>2 DEF ReplyInv, WakePending, Free
<1>13. Intact'
  <2> SUFFICES ASSUME discarded = "no"
               PROVE  /\ Len(received') <= sent
                      /\ \A i \in 1..Len(received') : received'[i] = i
                      /\ Between(BodyLen, Pending', Len(received'), sent)
    BY <1>2 DEF Intact
  <2>1. PICK m \in Nat : m = Len(received)
    BY <1>4
  <2>2. /\ m <= sent /\ \A i \in 1..m : received[i] = i
        /\ Between(BodyLen, Pending, m, sent)
    BY <2>1 DEF ReplyInv, Intact
  <2>3. /\ m + 1 \in 1..sent /\ FrontPacket(receiveBuffer) = m + 1 /\ len = BodyLen[m + 1]
    BY <1>1, <1>2, <2>1, FrontReply
  <2>4. m + 1 \in 1..N /\ Size(BodyLen, m + 1) = HeaderLen + len
    BY <1>4, <2>3 DEF Size
  <2>5. PICK rest : rest = arrived \o wire \o sendQueue
    OBVIOUS
  <2>6. receiveBuffer \in Seq((1..N) \X Nat) /\ rest \in Seq((1..N) \X Nat)
        /\ Pending = receiveBuffer \o rest
    <3>1. /\ sendQueue \in Seq((1..N) \X Nat) /\ wire \in Seq((1..N) \X Nat)
          /\ arrived \in Seq((1..N) \X Nat) /\ receiveBuffer \in Seq((1..N) \X Nat)
      BY SMTT(30), <1>3, <1>4, WiderType
    <3> QED BY <2>5, <3>1, PendingRest
  <2>7. Between(BodyLen, Drop(receiveBuffer, Size(BodyLen, m + 1)) \o rest, m + 1, sent)
    <3>1. Len(receiveBuffer) >= Size(BodyLen, m + 1)
      BY <1>1, <2>4
    <3>2. Between(BodyLen, receiveBuffer \o rest, m, sent)
      BY <2>2, <2>6
    <3> QED BY <1>4, <2>4, <2>6, <3>1, <3>2, OneLess
  <2>8. Pending' = Drop(receiveBuffer, Size(BodyLen, m + 1)) \o rest
    <3>1. /\ receiveBuffer' \in Seq((1..sent) \X Nat) /\ arrived' \in Seq((1..sent) \X Nat)
          /\ wire' \in Seq((1..sent) \X Nat) /\ sendQueue' \in Seq((1..sent) \X Nat)
      BY <1>2, <1>9 DEF BytesOK
    <3>2. PICK d, a, w, q : d = receiveBuffer' /\ a = arrived /\ w = wire /\ q = sendQueue
      OBVIOUS
    <3>3. PICK S : S = (1..sent) \X Nat
      OBVIOUS
    <3>4. d \in Seq(S) /\ a \in Seq(S) /\ w \in Seq(S) /\ q \in Seq(S)
      BY <1>2, <3>1, <3>2, <3>3
    <3>5. PICK aw : aw = a \o w
      OBVIOUS
    <3>6. (d \o a) \o w = d \o aw /\ aw \in Seq(S)
      BY <3>4, <3>5, Regroup
    <3>7. (d \o aw) \o q = d \o (aw \o q)
      BY <3>4, <3>6, Regroup
    <3>8. Pending' = d \o a \o w \o q
      BY <1>2, <3>2 DEF Pending, Held
    <3> QED BY <1>1, <2>4, <2>5, <3>2, <3>5, <3>6, <3>7, <3>8
  <2>9. Len(received') = m + 1 /\ m + 1 <= sent
    BY <1>10, <2>1, <2>3
  <2>10. ASSUME NEW i \in 1..Len(received') PROVE received'[i] = i
    <3>1. CASE i \in 1..m
      BY <1>10, <2>1, <2>2, <3>1
    <3>2. CASE i = m + 1
      <4>1. received'[m + 1] = FrontPacket(receiveBuffer)
        BY <1>10, <2>1
      <4>2. received'[m + 1] = m + 1
        BY <2>3, <4>1
      <4> QED BY <3>2, <4>2
    <3> QED BY <2>9, <3>1, <3>2
  <2> QED BY <2>7, <2>8, <2>9, <2>10
<1>14. Oversize'
  <2>1. CASE discarded = "no"
    BY <1>2, <2>1 DEF Oversize
  <2>2. CASE discarded # "no"
    BY <1>2, <1>4, <2>2, OversizeStays
  <2> QED BY <2>1, <2>2
<1> QED BY <1>9, <1>11, <1>12, <1>13, <1>14 DEF ReplyInv

\* A packet was too large: all before it have been emitted.
LEMMA ReplyTooLarge ==
  ASSUME ReplyInv, TooLarge
  PROVE  ReplyInv'
<1>1. /\ Len(receiveBuffer) >= HeaderLen /\ receiveBuffer' = <<>>
      /\ reading' = FALSE /\ inSlot' = FALSE
      /\ discarded' = IF discarded = "no" THEN "size" ELSE discarded
      /\ UNCHANGED <<sent, sendQueue, writePending, armed, failed, edge, wire, arrived, received>>
  BY DEF TooLarge, Discard, senderVars
<1>2. PICK len \in FrontLen(BodyLen, receiveBuffer, MaxBody + 1) : len > MaxBody
  BY DEF TooLarge
<1>3. BytesOK'
  BY <1>1 DEF ReplyInv, BytesOK
<1>4. RestOK'
  BY <1>1 DEF ReplyInv, RestOK
<1>5. WakePending'
  BY <1>1 DEF ReplyInv, WakePending, Free
<1>6. Intact'
  BY <1>1 DEF Intact
<1>7. Oversize'
  <2>1. CASE discarded = "no"
    <3>1. PICK p : p = Len(received) + 1
      OBVIOUS
    <3>2. p \in 1..sent /\ len = BodyLen[p]
      BY <1>1, <1>2, <2>1, <3>1, FrontReply
    <3>3. Len(received) \in Nat /\ p - 1 = Len(received)
      BY <3>1, LenProperties DEF ReplyInv, RestOK
    <3>4. Emitted(p - 1)'
      BY <1>1, <2>1, <3>3 DEF ReplyInv, Intact, Emitted
    <3> QED BY <1>1, <1>2, <3>2, <3>4 DEF Oversize
  <2>2. CASE discarded # "no"
    BY <1>1, <2>2, OversizeStays DEF ReplyInv, RestOK
  <2> QED BY <2>1, <2>2
<1> QED BY <1>3, <1>4, <1>5, <1>6, <1>7 DEF ReplyInv

\* Memory has run out, and the claim ends.
LEMMA ReplyLost ==
  ASSUME ReplyInv, OutOfMemory
  PROVE  ReplyInv'
<1>1. /\ receiveBuffer' = <<>> /\ reading' = FALSE /\ inSlot' = FALSE
      /\ discarded' = IF discarded = "no" THEN "memory" ELSE discarded
      /\ UNCHANGED <<senderVars, received>>
  BY DEF OutOfMemory, Discard
<1>2. UNCHANGED <<sent, sendQueue, writePending, armed, failed>>
  BY <1>1 DEF senderVars
<1>3. /\ wire' \in Seq((1..sent) \X Nat) /\ arrived' \in Seq((1..sent) \X Nat)
      /\ Len(wire') <= Capacity /\ WakePending' /\ edge' \in BOOLEAN
  <2>1. CASE reading /\ UNCHANGED <<edge, wire, arrived>>
    BY <1>2, <2>1 DEF ReplyInv, BytesOK, RestOK, WakePending, Free
  <2>2. CASE ~reading
    <3>1. PICK n \in 1..Len(wire) : Receive(n) /\ arrived' = arrived \o SubSeq(wire, 1, n)
      BY <2>2 DEF OutOfMemory
    <3>2. /\ wire' \in Seq((1..sent) \X Nat) /\ SubSeq(wire, 1, n) \in Seq((1..sent) \X Nat)
          /\ Len(wire') <= Capacity /\ WakePending'
      BY <1>1, <3>1, Leaving
    <3>3. PICK S : S = (1..sent) \X Nat
      OBVIOUS
    <3>4. arrived \in Seq(S) /\ SubSeq(wire, 1, n) \in Seq(S)
      BY <3>2, <3>3 DEF ReplyInv, BytesOK
    <3>5. arrived' \in Seq(S)
      BY <3>1, <3>4, ConcatProperties
    <3>6. edge' \in BOOLEAN
      BY <3>1 DEF Receive, ReplyInv, RestOK
    <3> QED BY <3>2, <3>3, <3>5, <3>6
  <2> QED BY <2>1, <2>2 DEF OutOfMemory
<1>4. BytesOK'
  BY <1>1, <1>2, <1>3, EmptySeq DEF ReplyInv, BytesOK
<1>5. RestOK'
  BY <1>1, <1>2, <1>3 DEF ReplyInv, RestOK
<1>6. Intact'
  BY <1>1 DEF Intact
<1>7. Oversize'
  BY <1>1, <1>2, OversizeStays DEF ReplyInv, RestOK
<1> QED BY <1>3, <1>4, <1>5, <1>6, <1>7 DEF ReplyInv

LEMMA ReplyWaits ==
  ASSUME ReplyInv, {reading', inSlot'} \subseteq BOOLEAN,
         UNCHANGED <<sent, sendQueue, writePending, armed, failed, edge, wire, arrived,
                     receiveBuffer, received, discarded>>
  PROVE  ReplyInv'
<1>1. BytesOK' /\ RestOK'
  BY DEF ReplyInv, BytesOK, RestOK
<1>2. WakePending'
  BY DEF ReplyInv, WakePending, Free
<1>3. Intact'
  BY DEF ReplyInv, Intact, Pending, Held
<1>4. Oversize'
  BY OversizeStays DEF ReplyInv, RestOK
<1> QED BY <1>1, <1>2, <1>3, <1>4 DEF ReplyInv

LEMMA ReplyStep == ReplyInv /\ [Next]_vars => ReplyInv'
<1> SUFFICES ASSUME ReplyInv, [Next]_vars PROVE ReplyInv'
  OBVIOUS
<1>1. CASE SendPacket
  BY <1>1, ReplySent
<1>2. CASE HandleWrite
  BY <1>2, ReplyWritten
<1>3. CASE WritableAgain
  BY <1>3, ReplyWritable
<1>4. CASE ReadyRead
  BY <1>4, ReplyRead
<1>5. CASE Extract
  BY <1>5, ReplyExtracted
<1>6. CASE TooLarge
  BY <1>6, ReplyTooLarge
<1>7. CASE WaitForMore
  BY <1>7, ReplyWaits DEF WaitForMore, senderVars
<1>8. CASE UNCHANGED vars
  BY <1>8, ReplyWaits DEF vars, senderVars, clientVars, ReplyInv, RestOK
<1>9. CASE ArriveUnannounced
  BY <1>9, ReplyUnannounced
<1>10. CASE OutOfMemory
  BY <1>10, ReplyLost
<1> QED BY <1>1, <1>2, <1>3, <1>4, <1>5, <1>6, <1>7, <1>8, <1>9, <1>10 DEF Next, ClientStep
----------------------------------------------------------------------------
LEMMA ReplyTypes == ReplyInv => TypeOK
<1> SUFFICES ASSUME ReplyInv PROVE TypeOK
  OBVIOUS
<1>1. sent \in Int /\ N \in Int /\ sent <= N
  BY SizesAssumption DEF ReplyInv, RestOK
<1>2. /\ sendQueue \in Seq((1..N) \X Nat) /\ wire \in Seq((1..N) \X Nat)
      /\ arrived \in Seq((1..N) \X Nat) /\ receiveBuffer \in Seq((1..N) \X Nat)
  BY <1>1, WiderType DEF ReplyInv, BytesOK
<1> QED BY <1>2 DEF ReplyInv, RestOK, TypeOK

LEMMA ReplyOrder == ReplyInv => StreamIntact
<1> SUFFICES ASSUME ReplyInv PROVE StreamIntact
  OBVIOUS
<1>1. ASSUME discarded = "no"
      PROVE  /\ Len(received) <= sent /\ Emitted(Len(received))
             /\ Starts(BodyLen, Pending, Len(received) + 1) /\ Ends(BodyLen, Pending, sent)
  <2>1. /\ Len(received) <= sent /\ \A i \in 1..Len(received) : received[i] = i
        /\ Between(BodyLen, Pending, Len(received), sent)
    BY <1>1 DEF ReplyInv, Intact
  <2>2. Len(received) \in Nat
    BY LenProperties DEF ReplyInv, RestOK
  <2> QED BY <2>1, <2>2 DEF Between, Stream, Emitted
<1>2. Oversize
  BY DEF ReplyInv
<1> QED BY <1>1, <1>2 DEF StreamIntact, Oversize, Pending, Held

\* The invariant of the answers, also when memory runs out in slotReadyRead or a packet
\* is too large; the last section gives its consequences for a whole connection.
THEOREM ReplyInvariance == Spec => []ReplyInv
BY ReplyInit, ReplyStep, PTL DEF Spec
----------------------------------------------------------------------------
(* The requests, and both streams together                                 *)

RequestPending == readBuffer \o unread \o outgoing
AllCut == submitted \o tasks

RequestBytesOK ==
  /\ outgoing \in Seq((1..requested) \X Nat) /\ unread \in Seq((1..requested) \X Nat)
  /\ readBuffer \in Seq((1..requested) \X Nat)

RequestRestOK ==
  /\ requested \in 0..R
  /\ link \in {"up", "ending", "ended", "broken"}
  /\ {inEdge, handling, closed} \subseteq BOOLEAN
  /\ tasks \in Seq(0..R) /\ submitted \in Seq(0..R)

\* handleRead works on an open session, and keeps no task when it returns.
HandlingOpen == handling => ~closed

\* What has been cut from the stream.
CutOK == \A i \in 1..Len(AllCut) : AllCut[i] = i /\ Legal(i)

\* What is still to be cut.
Following ==
  /\ ~closed \/ (link = "ended" /\ AllLegal) =>
       Stream(RequestLen, RequestPending, Len(AllCut) + 1)
  /\ ~closed /\ link = "up" => Between(RequestLen, RequestPending, Len(AllCut), requested)

RequestInv ==
  RequestBytesOK /\ RequestRestOK /\ HandlingOpen /\ CutOK /\ Following /\ NothingStranded
----------------------------------------------------------------------------
LEMMA RequestInit == InitRequests => RequestInv
<1> SUFFICES ASSUME InitRequests PROVE RequestInv
  OBVIOUS
<1>1. /\ requested = 0 /\ outgoing = <<>> /\ unread = <<>> /\ readBuffer = <<>>
      /\ tasks = <<>> /\ submitted = <<>> /\ link = "up"
      /\ inEdge = FALSE /\ handling = FALSE /\ closed = FALSE
  BY DEF InitRequests
<1>2. RequestBytesOK
  BY <1>1, EmptySeq DEF RequestBytesOK
<1>3. RequestRestOK
  <2>1. requested \in 0..R
    BY <1>1, RequestAssumption
  <2> QED BY <1>1, <2>1, EmptySeq DEF RequestRestOK
<1>4. AllCut = <<>> /\ Len(AllCut) = 0 /\ RequestPending = <<>>
  BY <1>1 DEF AllCut, RequestPending
<1>5. CutOK
  BY <1>4 DEF CutOK
<1>6. Between(RequestLen, RequestPending, 0, 0)
  BY <1>4, NothingBetween
<1>7. Following
  BY <1>1, <1>4, <1>6 DEF Following, Between
<1>8. NothingStranded
  <2>1. ~HasPacket
    <3>1. Len(readBuffer) = 0 /\ ~(0 >= HeaderLen)
      BY <1>1, HeaderAssumption
    <3> QED BY <3>1 DEF HasPacket, Complete
  <2> QED BY <1>1, <2>1 DEF NothingStranded
<1> QED BY <1>1, <1>2, <1>3, <1>5, <1>7, <1>8 DEF RequestInv, HandlingOpen

\* Connection::send puts a request at the end of all that is under way.
LEMMA RequestSent ==
  ASSUME RequestInv, Send
  PROVE  RequestInv'
<1>1. /\ link = "up" /\ ~closed /\ requested' = requested + 1
      /\ requested \in Nat /\ requested + 1 \in 1..R /\ RequestLen \in [1..R -> Nat]
      /\ UNCHANGED <<unread, link, inEdge, handling, readBuffer, tasks, submitted, closed>>
  BY RequestAssumption DEF RequestInv, RequestRestOK, Send
<1>2. PICK b : b = Bytes(RequestLen, requested + 1)
  OBVIOUS
<1>3. outgoing' = outgoing \o b
  BY <1>2 DEF Send
<1>4. PICK S : S = (1..requested + 1) \X Nat
  OBVIOUS
<1>5. b \in Seq(S)
  <2>1. PICK p : p = requested + 1
    OBVIOUS
  <2>2. p \in 1..R /\ p \in 1..p
    BY <1>1, <2>1
  <2>3. Size(RequestLen, p) \in Nat
    BY <1>1, <2>2, SizeType
  <2>4. \A i \in 1..Size(RequestLen, p) : i \in Nat
    BY <2>3
  <2> QED BY <1>2, <1>4, <2>1, <2>2, <2>3, <2>4 DEF Bytes
<1>6. outgoing \in Seq(S) /\ unread \in Seq(S) /\ readBuffer \in Seq(S)
  <2>1. (1..requested) \X Nat \subseteq S
    BY <1>1, <1>4
  <2> QED BY <2>1 DEF RequestInv, RequestBytesOK
<1>7. outgoing' \in Seq(S)
  BY <1>3, <1>5, <1>6, ConcatProperties
<1>8. RequestBytesOK'
  BY <1>1, <1>4, <1>6, <1>7 DEF RequestBytesOK
<1>9. RequestRestOK'
  BY <1>1 DEF RequestInv, RequestRestOK
<1>10. RequestPending' = RequestPending \o b
  <2>1. PICK a : a = readBuffer \o unread
    OBVIOUS
  <2>2. a \in Seq(S)
    BY <1>6, <2>1, ConcatProperties
  <2>3. a \o outgoing \o b = a \o (outgoing \o b)
    BY SMTT(30), <1>5, <1>6, <2>2, Regroup
  <2> QED BY <1>1, <1>3, <2>1, <2>3 DEF RequestPending
<1>11. CutOK' /\ AllCut' = AllCut
  BY <1>1 DEF RequestInv, CutOK, AllCut, Legal
<1>12. Following'
  <2>1. Between(RequestLen, RequestPending, Len(AllCut), requested)
    BY <1>1 DEF RequestInv, Following
  <2>2. RequestPending \in Seq((1..R) \X Nat)
    <3>1. requested \in Int /\ R \in Int /\ requested <= R
      BY <1>1, RequestAssumption
    <3>2. /\ outgoing \in Seq((1..R) \X Nat) /\ unread \in Seq((1..R) \X Nat)
          /\ readBuffer \in Seq((1..R) \X Nat)
      BY <3>1, WiderType DEF RequestInv, RequestBytesOK
    <3> QED BY <3>2, ConcatProperties DEF RequestPending
  <2>3. Between(RequestLen, RequestPending \o b, Len(AllCut), requested + 1)
    BY <1>1, <1>2, <2>1, <2>2, OneMore
  <2> QED BY <1>1, <1>10, <1>11, <2>3 DEF Following, Between
<1>13. NothingStranded'
  BY <1>1 DEF RequestInv, NothingStranded, HasPacket, Complete
<1> QED BY <1>1, <1>8, <1>9, <1>11, <1>12, <1>13 DEF RequestInv, HandlingOpen

\* TCP delivers: bytes move to the server's socket.
LEMMA RequestArrives ==
  ASSUME RequestInv, Arrive
  PROVE  RequestInv'
<1>1. PICK n \in 1..Len(outgoing) :
        unread' = unread \o SubSeq(outgoing, 1, n) /\ outgoing' = Drop(outgoing, n)
  BY DEF Arrive
<1>2. /\ ~closed /\ inEdge' = TRUE
      /\ UNCHANGED <<requested, link, handling, readBuffer, tasks, submitted, closed>>
  BY DEF Arrive
<1>3. PICK S : S = (1..requested) \X Nat
  OBVIOUS
<1>4. outgoing \in Seq(S) /\ unread \in Seq(S) /\ readBuffer \in Seq(S)
  BY <1>3 DEF RequestInv, RequestBytesOK
<1>5. n \in 0..Len(outgoing)
  BY <1>4, LenProperties
<1>6. unread' \o outgoing' = unread \o outgoing /\ unread' \in Seq(S) /\ outgoing' \in Seq(S)
  <2>1. /\ (unread \o SubSeq(outgoing, 1, n)) \o Drop(outgoing, n) = unread \o outgoing
        /\ unread \o SubSeq(outgoing, 1, n) \in Seq(S) /\ Drop(outgoing, n) \in Seq(S)
    BY <1>4, <1>5, Moved
  <2> QED BY <1>1, <2>1
<1>7. RequestBytesOK' /\ RequestRestOK'
  BY <1>2, <1>3, <1>4, <1>6 DEF RequestInv, RequestBytesOK, RequestRestOK
<1>8. RequestPending' = RequestPending
  <2>1. readBuffer \o unread' \o outgoing' = readBuffer \o (unread' \o outgoing')
    <3>1. PICK r, x, y : r = readBuffer /\ x = unread' /\ y = outgoing'
      OBVIOUS
    <3>2. r \in Seq(S) /\ x \in Seq(S) /\ y \in Seq(S)
      BY <1>4, <1>6, <3>1
    <3>3. r \o x \o y = r \o (x \o y)
      BY <3>2, Regroup
    <3> QED BY <3>1, <3>3
  <2>2. readBuffer \o unread \o outgoing = readBuffer \o (unread \o outgoing)
    BY <1>4, Regroup
  <2> QED BY <1>2, <1>6, <2>1, <2>2 DEF RequestPending
<1>9. AllCut' = AllCut
  BY <1>2 DEF AllCut
<1>10. CutOK' /\ Following'
  BY <1>2, <1>8, <1>9 DEF RequestInv, CutOK, Following, Legal, AllLegal
<1>11. NothingStranded'
  BY <1>2 DEF RequestInv, NothingStranded, HasPacket, Complete
<1> QED BY <1>2, <1>7, <1>10, <1>11 DEF RequestInv, HandlingOpen

\* The client ends, with the bytes Qt had not written.
LEMMA RequestQuits ==
  ASSUME RequestInv, Quit
  PROVE  RequestInv'
<1>1. PICK n \in 0..Len(outgoing) : outgoing' = SubSeq(outgoing, 1, n)
  BY DEF Quit
<1>2. /\ link = "up" /\ ~closed /\ link' = "ending"
      /\ UNCHANGED <<requested, unread, inEdge, handling, readBuffer, tasks, submitted, closed>>
  BY DEF Quit
<1>3. outgoing' \in Seq((1..requested) \X Nat)
  BY <1>1, TakeType DEF RequestInv, RequestBytesOK
<1>4. RequestBytesOK' /\ RequestRestOK'
  BY <1>2, <1>3 DEF RequestInv, RequestBytesOK, RequestRestOK
<1>5. AllCut' = AllCut
  BY <1>2 DEF AllCut
<1>6. Stream(RequestLen, RequestPending', Len(AllCut) + 1)
  <2>1. Stream(RequestLen, RequestPending, Len(AllCut) + 1)
    BY <1>2 DEF RequestInv, Following
  <2>2. requested \in Int /\ R \in Int /\ requested <= R /\ RequestLen \in [1..R -> Nat]
    BY RequestAssumption DEF RequestInv, RequestRestOK
  <2>3. /\ outgoing \in Seq((1..R) \X Nat) /\ unread \in Seq((1..R) \X Nat)
        /\ readBuffer \in Seq((1..R) \X Nat)
    BY <2>2, WiderType DEF RequestInv, RequestBytesOK
  <2>4. PICK a : a = readBuffer \o unread
    OBVIOUS
  <2>5. a \in Seq((1..R) \X Nat)
    BY <2>3, <2>4, ConcatProperties
  <2>6. /\ (a \o SubSeq(outgoing, 1, n)) \o Drop(outgoing, n) = a \o outgoing
        /\ a \o SubSeq(outgoing, 1, n) \in Seq((1..R) \X Nat)
        /\ Drop(outgoing, n) \in Seq((1..R) \X Nat)
    <3>1. PICK S : S = (1..R) \X Nat
      OBVIOUS
    <3>2. a \in Seq(S) /\ outgoing \in Seq(S)
      BY <2>3, <2>5, <3>1
    <3>3. /\ (a \o SubSeq(outgoing, 1, n)) \o Drop(outgoing, n) = a \o outgoing
          /\ a \o SubSeq(outgoing, 1, n) \in Seq(S) /\ Drop(outgoing, n) \in Seq(S)
      BY <3>2, Moved
    <3> QED BY <3>1, <3>3
  <2>7. PICK u, d : u = a \o SubSeq(outgoing, 1, n) /\ d = Drop(outgoing, n)
    OBVIOUS
  <2>8. /\ u \in Seq((1..R) \X Nat) /\ d \in Seq((1..R) \X Nat)
        /\ u \o d = RequestPending /\ u = RequestPending'
    BY <1>1, <1>2, <2>4, <2>6, <2>7 DEF RequestPending
  <2>9. Stream(RequestLen, u \o d, Len(AllCut) + 1)
    BY <2>1, <2>8
  <2>10. Stream(RequestLen, u, Len(AllCut) + 1)
    BY <2>2, <2>8, <2>9, PrefixStream
  <2> QED BY <2>8, <2>10
<1>7. CutOK' /\ Following'
  BY <1>2, <1>5, <1>6 DEF RequestInv, CutOK, Following, Legal
<1>8. NothingStranded'
  BY <1>2 DEF RequestInv, NothingStranded, HasPacket, Complete
<1> QED BY <1>2, <1>4, <1>7, <1>8 DEF RequestInv, HandlingOpen

\* The steps that touch no byte and no request: the end of the stream, its failure,
\* an event, and the call of handleRead.
LEMMA RequestSignals ==
  ASSUME RequestInv, FinArrives \/ Break \/ ReadableAgain \/ OnRead \/ OnError
  PROVE  RequestInv'
<1>1. UNCHANGED <<requested, outgoing, unread, readBuffer, tasks, submitted>>
  BY DEF FinArrives, Break, ReadableAgain, OnRead, OnError, peerVars
<1>2. RequestBytesOK' /\ RequestRestOK'
  BY <1>1 DEF RequestInv, RequestBytesOK, RequestRestOK, FinArrives, Break, ReadableAgain,
              OnRead, OnError, peerVars
<1>3. HandlingOpen'
  BY DEF RequestInv, HandlingOpen, FinArrives, Break, ReadableAgain, OnRead, OnError
<1>4. AllCut' = AllCut /\ RequestPending' = RequestPending /\ CutOK'
  BY <1>1 DEF RequestInv, AllCut, RequestPending, CutOK, Legal
<1>5. Following'
  BY <1>1, <1>4 DEF RequestInv, Following, AllLegal, Legal, FinArrives, Break, ReadableAgain,
                    OnRead, OnError, peerVars
<1>6. NothingStranded'
  <2>1. HasPacket' = HasPacket /\ AllLegal' = AllLegal
    BY <1>1 DEF HasPacket, Complete, AllLegal, Legal
  <2> QED BY <1>1, <2>1 DEF RequestInv, NothingStranded, FinArrives, Break, ReadableAgain,
                            OnRead, OnError, peerVars
<1> QED BY <1>2, <1>3, <1>4, <1>5, <1>6 DEF RequestInv
\* recv moves a chunk from the socket to the assembler.
LEMMA RequestReceived ==
  ASSUME RequestInv, Recv
  PROVE  RequestInv'
<1>1. PICK n : /\ n = IF Len(unread) < Chunk THEN Len(unread) ELSE Chunk
               /\ readBuffer' = readBuffer \o SubSeq(unread, 1, n) /\ unread' = Drop(unread, n)
  BY DEF Recv
<1>2. /\ handling /\ UNCHANGED <<requested, outgoing, link, inEdge, handling, tasks,
                                submitted, closed>>
  BY DEF Recv, peerVars
<1>3. PICK S : S = (1..requested) \X Nat
  OBVIOUS
<1>4. outgoing \in Seq(S) /\ unread \in Seq(S) /\ readBuffer \in Seq(S)
  BY <1>3 DEF RequestInv, RequestBytesOK
<1>5. n \in 0..Len(unread)
  <2>1. Len(unread) \in Nat /\ Chunk \in Nat
    BY <1>4, LenProperties, RequestAssumption
  <2> QED BY <1>1, <2>1
<1>6. /\ readBuffer' \o unread' = readBuffer \o unread
      /\ readBuffer' \in Seq(S) /\ unread' \in Seq(S)
  <2>1. readBuffer' = readBuffer \o SubSeq(unread, 1, n) /\ unread' = Drop(unread, n)
    BY <1>1
  <2>2. /\ (readBuffer \o SubSeq(unread, 1, n)) \o Drop(unread, n) = readBuffer \o unread
        /\ readBuffer \o SubSeq(unread, 1, n) \in Seq(S) /\ Drop(unread, n) \in Seq(S)
    BY <1>4, <1>5, Moved
  <2> QED BY <2>1, <2>2
<1>7. RequestBytesOK' /\ RequestRestOK'
  BY <1>2, <1>3, <1>4, <1>6 DEF RequestInv, RequestBytesOK, RequestRestOK
<1>8. RequestPending' = RequestPending /\ AllCut' = AllCut
  BY <1>2, <1>6 DEF RequestPending, AllCut
<1>9. CutOK' /\ Following'
  BY <1>2, <1>8 DEF RequestInv, CutOK, Following, Legal, AllLegal
<1>10. HandlingOpen' /\ NothingStranded'
  BY <1>2 DEF RequestInv, HandlingOpen, NothingStranded
<1> QED BY <1>7, <1>9, <1>10 DEF RequestInv

\* handleRead returns, and onRead submits its tasks.
LEMMA Finished ==
  ASSUME RequestRestOK, Finish
  PROVE  AllCut' = AllCut /\ tasks' \in Seq(0..R) /\ submitted' \in Seq(0..R) /\ ~handling'
<1>1. tasks \in Seq(0..R) /\ submitted \in Seq(0..R)
  BY DEF RequestRestOK
<1>2. PICK c : c = submitted \o tasks
  OBVIOUS
<1>3. c \in Seq(0..R)
  BY <1>1, <1>2, ConcatProperties
<1>4. submitted' = c /\ tasks' = <<>> /\ handling' = FALSE
  BY <1>2 DEF Finish
<1>5. c \o <<>> = c
  BY <1>3, ConcatEmptySeq
<1> QED BY <1>2, <1>3, <1>4, <1>5, EmptySeq DEF AllCut

LEMMA RequestReturns ==
  ASSUME RequestInv, WouldBlock \/ EndOfStream \/ ReadFails
  PROVE  RequestInv'
<1>1. Finish /\ handling /\ UNCHANGED <<requested, outgoing, unread, inEdge, readBuffer>>
  BY DEF WouldBlock, EndOfStream, ReadFails, peerVars
<1>2. AllCut' = AllCut /\ tasks' \in Seq(0..R) /\ submitted' \in Seq(0..R) /\ ~handling'
  BY <1>1, Finished DEF RequestInv
<1>3. RequestPending' = RequestPending /\ HasPacket' = HasPacket /\ AllLegal' = AllLegal
  BY <1>1 DEF RequestPending, HasPacket, Complete, AllLegal, Legal
<1>4. ~closed
  BY <1>1 DEF RequestInv, HandlingOpen
<1>5. handling' = FALSE
  BY <1>1 DEF Finish
<1>6. RequestBytesOK' /\ RequestRestOK'
  BY <1>1, <1>2, <1>5 DEF RequestInv, RequestBytesOK, RequestRestOK, WouldBlock, EndOfStream,
                    ReadFails, peerVars
<1>7. HandlingOpen'
  BY <1>2 DEF HandlingOpen
<1>8. CutOK'
  BY <1>2 DEF RequestInv, CutOK, Legal
<1>9. Following'
  BY <1>1, <1>2, <1>3, <1>4 DEF RequestInv, Following, WouldBlock, EndOfStream, ReadFails,
                                peerVars
<1>10. NothingStranded'
  BY <1>1, <1>3, <1>4 DEF NothingStranded, WouldBlock, EndOfStream, ReadFails, peerVars
<1> QED BY <1>6, <1>7, <1>8, <1>9, <1>10 DEF RequestInv

\* The packet at the front of readBuffer_ is the request that follows those cut.
LEMMA FrontRequest ==
  ASSUME RequestInv, ~closed, Len(readBuffer) >= HeaderLen
  PROVE  /\ Len(AllCut) \in Nat /\ Len(AllCut) + 1 \in 1..requested
         /\ FrontPacket(readBuffer) = Len(AllCut) + 1
         /\ \A limit : FrontLen(RequestLen, readBuffer, limit) = {RequestLen[Len(AllCut) + 1]}
<1>1. PICK rest : rest = unread \o outgoing
  OBVIOUS
<1>2. PICK f : f = Len(AllCut) + 1
  OBVIOUS
<1>3. /\ requested \in Int /\ R \in Int /\ requested <= R /\ RequestLen \in [1..R -> Nat]
  BY RequestAssumption DEF RequestInv, RequestRestOK
<1>4. RequestPending = readBuffer \o rest /\ rest \in Seq((1..requested) \X Nat)
  <2>1. PICK S : S = (1..requested) \X Nat
    OBVIOUS
  <2>2. readBuffer \in Seq(S) /\ unread \in Seq(S) /\ outgoing \in Seq(S)
    BY <2>1 DEF RequestInv, RequestBytesOK
  <2>3. RequestPending = readBuffer \o (unread \o outgoing) /\ unread \o outgoing \in Seq(S)
    BY <2>2, Regroup DEF RequestPending
  <2> QED BY <1>1, <2>1, <2>3
<1>5. Stream(RequestLen, readBuffer \o rest, f)
  BY <1>2, <1>4 DEF RequestInv, Following
<1>6. readBuffer \in Seq((1..requested) \X Nat)
  BY DEF RequestInv, RequestBytesOK
<1>7. f \in 1..requested
  BY <1>4, <1>5, <1>6, FirstNumber
<1>8. readBuffer \in Seq((1..R) \X Nat) /\ rest \in Seq((1..R) \X Nat)
  BY <1>3, <1>4, <1>6, WiderType
<1>9. readBuffer[1][1] = f /\ HeaderAtFront(readBuffer)
  BY <1>3, <1>5, <1>8, HeaderRead
<1>10. /\ FrontPacket(readBuffer) = f
       /\ \A limit : FrontLen(RequestLen, readBuffer, limit) = {RequestLen[f]}
  BY <1>9 DEF FrontPacket, FrontLen
<1>11. Len(AllCut) \in Nat
  <2>1. AllCut \in Seq(0..R)
    BY ConcatProperties DEF RequestInv, RequestRestOK, AllCut
  <2> QED BY <2>1, LenProperties
<1> QED BY <1>2, <1>7, <1>10, <1>11

\* A request joins the tasks.
LEMMA TaskAdded ==
  ASSUME RequestRestOK, NEW x \in 0..R, tasks' = Append(tasks, x), UNCHANGED submitted
  PROVE  /\ tasks' \in Seq(0..R) /\ AllCut' \in Seq(0..R) /\ Len(AllCut') = Len(AllCut) + 1
         /\ \A i \in 1..Len(AllCut) : AllCut'[i] = AllCut[i]
         /\ AllCut'[Len(AllCut) + 1] = x
<1>1. tasks \in Seq(0..R) /\ submitted \in Seq(0..R) /\ <<x>> \in Seq(0..R)
  BY DEF RequestRestOK
<1>2. tasks' = tasks \o <<x>> /\ tasks' \in Seq(0..R)
  BY <1>1, AppendIsConcat, AppendProperties
<1>3. (submitted \o tasks) \o <<x>> = submitted \o (tasks \o <<x>>)
  BY <1>1, Regroup
<1>4. PICK c : c = AllCut
  OBVIOUS
<1>5. c \in Seq(0..R)
  BY <1>1, <1>4, ConcatProperties DEF AllCut
<1>6. AllCut' = c \o <<x>>
  BY <1>2, <1>3, <1>4 DEF AllCut
<1>7. AllCut' = Append(c, x)
  BY <1>5, <1>6, AppendIsConcat
<1>8. /\ Append(c, x) \in Seq(0..R) /\ Len(Append(c, x)) = Len(c) + 1
      /\ \A i \in 1..Len(c) : Append(c, x)[i] = c[i]
      /\ Append(c, x)[Len(c) + 1] = x
  BY <1>5, AppendProperties
<1> QED BY <1>2, <1>4, <1>7, <1>8
\* What extractPacket leaves: the stream from the packet after next.
LEMMA StreamAfter ==
  ASSUME RequestInv, ~closed, NEW m \in Nat, m = Len(AllCut), m + 1 \in 1..requested,
         Len(readBuffer) >= Size(RequestLen, m + 1),
         readBuffer' = Drop(readBuffer, Size(RequestLen, m + 1)),
         UNCHANGED <<requested, unread, outgoing>>
  PROVE  /\ RequestBytesOK' /\ Stream(RequestLen, RequestPending', m + 1 + 1)
         /\ link = "up" => Between(RequestLen, RequestPending', m + 1, requested)
<1>1. PICK rest, f : rest = unread \o outgoing /\ f = m + 1
  OBVIOUS
<1>2. PICK d : d = Drop(readBuffer, Size(RequestLen, f))
  OBVIOUS
<1>3. /\ requested \in Int /\ R \in Int /\ requested <= R /\ RequestLen \in [1..R -> Nat]
      /\ f \in 1..requested /\ f \in 1..R
  BY <1>1, RequestAssumption DEF RequestInv, RequestRestOK
<1>4. PICK S, T : S = (1..requested) \X Nat /\ T = (1..R) \X Nat
  OBVIOUS
<1>5. readBuffer \in Seq(S) /\ unread \in Seq(S) /\ outgoing \in Seq(S)
  BY <1>4 DEF RequestInv, RequestBytesOK
<1>6. Size(RequestLen, f) \in 0..Len(readBuffer)
  <2>1. PICK Z : Z = Size(RequestLen, f)
    OBVIOUS
  <2>2. Z \in Nat /\ Z <= Len(readBuffer)
    BY <1>1, <1>3, <2>1, SizeType
  <2>3. Len(readBuffer) \in Nat
    BY <1>5, LenProperties
  <2> QED BY <2>1, <2>2, <2>3
<1>7. d \in Seq(S)
  BY <1>2, <1>5, <1>6, DropType
<1>8. RequestPending = readBuffer \o rest /\ RequestPending' = d \o rest /\ rest \in Seq(S)
  <2>1. readBuffer \o unread \o outgoing = readBuffer \o (unread \o outgoing)
        /\ unread \o outgoing \in Seq(S)
    BY SMTT(30), <1>5, Regroup
  <2>2. d \o unread \o outgoing = d \o (unread \o outgoing)
    BY SMTT(30), <1>5, <1>7, Regroup
  <2>3. RequestPending' = d \o unread \o outgoing
    BY <1>1, <1>2 DEF RequestPending
  <2> QED BY <1>1, <2>1, <2>2, <2>3 DEF RequestPending
<1>9. readBuffer \in Seq(T) /\ rest \in Seq(T)
  BY <1>3, <1>4, <1>5, <1>8, WiderType
<1>10. Stream(RequestLen, readBuffer \o rest, f)
  BY <1>1, <1>8 DEF RequestInv, Following
<1>11. Whole(1..R, RequestLen, readBuffer, rest, f)
  BY <1>1, <1>3, <1>4, <1>9, <1>10 DEF Whole
<1>12. Stream(RequestLen, d \o rest, f + 1)
  BY <1>2, <1>11, CutPacket
<1>13. ASSUME link = "up" PROVE Between(RequestLen, d \o rest, f, requested)
  <2>1. Between(RequestLen, readBuffer \o rest, m, requested)
    BY <1>8, <1>13 DEF RequestInv, Following
  <2>2. readBuffer \in Seq((1..R) \X Nat) /\ rest \in Seq((1..R) \X Nat)
    BY <1>4, <1>9
  <2> QED BY <1>1, <1>2, <1>3, <2>1, <2>2, OneLess
<1>14. RequestBytesOK'
  BY <1>1, <1>2, <1>4, <1>5, <1>7 DEF RequestBytesOK
<1> QED BY <1>1, <1>8, <1>12, <1>13, <1>14

LEMMA RequestExtracted ==
  ASSUME RequestInv, ExtractPacket
  PROVE  RequestInv'
<1>1. PICK len \in 0..Len(readBuffer) :
        /\ Complete(len)
        /\ readBuffer' = Drop(readBuffer, HeaderLen + len)
        /\ IF len > MaxRequest
             THEN closed' = TRUE /\ Finish
             ELSE /\ tasks' = Append(tasks, FrontPacket(readBuffer))
                  /\ UNCHANGED <<closed, handling, submitted>>
  BY DEF ExtractPacket
<1>2. handling /\ UNCHANGED <<requested, outgoing, link, unread, inEdge>>
  BY DEF ExtractPacket, peerVars
<1>3. ~closed
  BY <1>2 DEF RequestInv, HandlingOpen
<1>4. PICK m : m = Len(AllCut)
  OBVIOUS
<1>5. /\ m \in Nat /\ m + 1 \in 1..requested /\ FrontPacket(readBuffer) = m + 1
      /\ len = RequestLen[m + 1]
  <2>1. Len(readBuffer) >= HeaderLen /\ len \in FrontLen(RequestLen, readBuffer, MaxRequest + 1)
    BY <1>1 DEF Complete
  <2> QED BY <1>3, <1>4, <2>1, FrontRequest
<1>6. Size(RequestLen, m + 1) = HeaderLen + len /\ Len(readBuffer) >= Size(RequestLen, m + 1)
  BY <1>1, <1>5 DEF Size, Complete
<1>7. /\ RequestBytesOK' /\ Stream(RequestLen, RequestPending', m + 1 + 1)
      /\ link = "up" => Between(RequestLen, RequestPending', m + 1, requested)
  <2>1. readBuffer' = Drop(readBuffer, Size(RequestLen, m + 1))
    BY <1>1, <1>6
  <2> QED BY <1>2, <1>3, <1>4, <1>5, <1>6, <2>1, StreamAfter
<1>8. CASE len > MaxRequest
  <2>1. closed' = TRUE /\ Finish /\ handling' = FALSE
    BY <1>1, <1>8 DEF Finish
  <2>2. AllCut' = AllCut /\ tasks' \in Seq(0..R) /\ submitted' \in Seq(0..R)
    BY <2>1, Finished DEF RequestInv
  <2>3. ~AllLegal'
    <3>1. len \in Nat /\ MaxRequest \in Nat /\ ~(RequestLen[m + 1] <= MaxRequest)
      BY <1>1, <1>5, <1>8, RequestAssumption, LenProperties DEF RequestInv, RequestBytesOK
    <3> QED BY <1>2, <1>5, <3>1 DEF AllLegal, Legal
  <2>4. RequestRestOK'
    BY <1>2, <2>1, <2>2 DEF RequestInv, RequestRestOK
  <2>5. CutOK'
    BY <2>2 DEF RequestInv, CutOK, Legal
  <2>6. Following' /\ HandlingOpen' /\ NothingStranded'
    BY <2>1, <2>3 DEF Following, HandlingOpen, NothingStranded
  <2> QED BY <1>7, <2>4, <2>5, <2>6 DEF RequestInv
<1>9. CASE ~(len > MaxRequest)
  <2>1. tasks' = Append(tasks, m + 1) /\ UNCHANGED <<closed, handling, submitted>>
    BY <1>1, <1>5, <1>9
  <2>2. m + 1 \in 0..R
    BY <1>5, RequestAssumption DEF RequestInv, RequestRestOK
  <2>3. /\ tasks' \in Seq(0..R) /\ AllCut' \in Seq(0..R) /\ Len(AllCut') = Len(AllCut) + 1
        /\ \A i \in 1..Len(AllCut) : AllCut'[i] = AllCut[i]
        /\ AllCut'[Len(AllCut) + 1] = m + 1
    BY <2>1, <2>2, TaskAdded DEF RequestInv
  <2>4. RequestRestOK'
    BY <1>2, <2>1, <2>3 DEF RequestInv, RequestRestOK
  <2>5. CutOK'
    <3> SUFFICES ASSUME NEW i \in 1..Len(AllCut')
                 PROVE  AllCut'[i] = i /\ RequestLen[i] <= MaxRequest
      BY DEF CutOK, Legal
    <3>1. Len(AllCut') = m + 1
      BY <1>4, <2>3
    <3>2. CASE i \in 1..m
      BY <1>4, <2>3, <3>2 DEF RequestInv, CutOK, Legal
    <3>3. CASE i = m + 1
      <4>1. AllCut'[m + 1] = m + 1
        BY <1>4, <2>3
      <4>2. len \in Int /\ MaxRequest \in Int
        BY <1>1, RequestAssumption, LenProperties DEF RequestInv, RequestBytesOK
      <4> QED BY <1>5, <1>9, <3>3, <4>1, <4>2
    <3> QED BY <1>5, <3>1, <3>2, <3>3
  <2>6. Following'
    <3>1. Len(AllCut') = m + 1
      BY <1>4, <2>3
    <3> QED BY <1>2, <1>7, <3>1 DEF Following
  <2>7. HandlingOpen' /\ NothingStranded'
    BY <1>2, <1>3, <2>1 DEF HandlingOpen, NothingStranded
  <2> QED BY <1>7, <2>4, <2>5, <2>6, <2>7 DEF RequestInv
<1> QED BY <1>8, <1>9

LEMMA RequestIdle ==
  ASSUME RequestInv, UNCHANGED requestVars
  PROVE  RequestInv'
<1>1. UNCHANGED <<requested, outgoing, unread, link, inEdge, handling, readBuffer, tasks,
                 submitted, closed>>
  BY DEF requestVars
<1>2. RequestBytesOK' /\ RequestRestOK' /\ HandlingOpen'
  BY <1>1 DEF RequestInv, RequestBytesOK, RequestRestOK, HandlingOpen
<1>3. AllCut' = AllCut /\ RequestPending' = RequestPending
  BY <1>1 DEF AllCut, RequestPending
<1>4. CutOK' /\ Following' /\ NothingStranded'
  BY <1>1, <1>3 DEF RequestInv, CutOK, Following, NothingStranded, Legal, AllLegal, HasPacket,
                    Complete
<1> QED BY <1>2, <1>4 DEF RequestInv

LEMMA RequestStep == RequestInv /\ [RequestNext]_requestVars => RequestInv'
<1> SUFFICES ASSUME RequestInv, [RequestNext]_requestVars PROVE RequestInv'
  OBVIOUS
<1>1. CASE Send
  BY <1>1, RequestSent
<1>2. CASE Arrive
  BY <1>2, RequestArrives
<1>3. CASE Quit
  BY <1>3, RequestQuits
<1>4. CASE FinArrives \/ Break \/ ReadableAgain \/ OnRead \/ OnError
  BY <1>4, RequestSignals
<1>5. CASE ExtractPacket
  BY <1>5, RequestExtracted
<1>6. CASE Recv
  BY <1>6, RequestReceived
<1>7. CASE WouldBlock \/ EndOfStream \/ ReadFails
  BY <1>7, RequestReturns
<1>8. CASE UNCHANGED requestVars
  BY <1>8, RequestIdle
<1> QED BY <1>1, <1>2, <1>3, <1>4, <1>5, <1>6, <1>7, <1>8 DEF RequestNext, Network, HandleRead
----------------------------------------------------------------------------
(* The requests by themselves                                              *)

LEMMA RequestTypes == RequestInv => RequestTypeOK
<1> SUFFICES ASSUME RequestInv PROVE RequestTypeOK
  OBVIOUS
<1>1. requested \in Int /\ R \in Int /\ requested <= R
  BY RequestAssumption DEF RequestInv, RequestRestOK
<1>2. /\ outgoing \in Seq((1..R) \X Nat) /\ unread \in Seq((1..R) \X Nat)
      /\ readBuffer \in Seq((1..R) \X Nat)
  BY <1>1, WiderType DEF RequestInv, RequestBytesOK
<1> QED BY <1>2 DEF RequestInv, RequestRestOK, RequestTypeOK

LEMMA RequestOrder == RequestInv => RequestsIntact
<1> SUFFICES ASSUME RequestInv PROVE RequestsIntact
  OBVIOUS
<1>1. PICK c : c = AllCut
  OBVIOUS
<1>2. c \in Seq(0..R) /\ \A i \in 1..Len(c) : c[i] = i /\ Legal(i)
  BY <1>1, ConcatProperties DEF RequestInv, RequestRestOK, CutOK, AllCut
<1>3. c = [i \in 1..Len(c) |-> i]
  BY <1>2
<1>4. /\ ~closed \/ (link = "ended" /\ AllLegal) =>
           Starts(RequestLen, RequestPending, Len(c) + 1)
      /\ ~closed /\ link = "up" => Ends(RequestLen, RequestPending, requested)
  BY <1>1 DEF RequestInv, Following, Between, Stream
<1>5. /\ AllCut = [i \in 1..Len(AllCut) |-> i]
      /\ \A i \in 1..Len(AllCut) : Legal(i)
      /\ ~closed \/ (link = "ended" /\ AllLegal) =>
           /\ Starts(RequestLen, RequestPending, Len(AllCut) + 1)
           /\ link = "up" => Ends(RequestLen, RequestPending, requested)
  BY <1>1, <1>2, <1>3, <1>4
<1> QED BY <1>5 DEF RequestsIntact, AllCut, RequestPending

\* No task is taken back.
LEMMA SubmittedGrows ==
  ASSUME RequestInv, [RequestNext]_requestVars
  PROVE  Len(submitted) \in Nat /\ Len(submitted') \in Nat /\ Len(submitted') >= Len(submitted)
<1>1. tasks \in Seq(0..R) /\ submitted \in Seq(0..R)
  BY DEF RequestInv, RequestRestOK
<1>2. submitted' = submitted \/ submitted' = submitted \o tasks
  BY DEF RequestNext, requestVars, Send, Network, Arrive, FinArrives, Quit, Break,
         ReadableAgain, OnRead, HandleRead, ExtractPacket, Recv, WouldBlock, EndOfStream,
         ReadFails, OnError, Finish
<1>3. Len(submitted) \in Nat /\ Len(tasks) \in Nat
      /\ Len(submitted \o tasks) = Len(submitted) + Len(tasks)
  BY <1>1, LenProperties, ConcatProperties
<1> QED BY <1>2, <1>3
----------------------------------------------------------------------------
(* Both directions of a connection                                         *)

\* A step of the dialogue is one of the answers or leaves them alone, and the same of
\* the requests.
LEMMA DialogueStep ==
  [NextDialogue]_dialogueVars => [Next]_vars /\ [RequestNext]_requestVars
<1> SUFFICES ASSUME [NextDialogue]_dialogueVars
             PROVE  [Next]_vars /\ [RequestNext]_requestVars
  OBVIOUS
<1>1. CASE Answer
  BY <1>1 DEF Answer, Remodify, Next, RequestNext
<1>2. CASE OnWrite
  BY <1>2 DEF OnWrite, Remodify, Next, RequestNext
<1>3. CASE Read
  BY <1>3 DEF Read, Next
<1>4. CASE ReadEvent
  BY <1>4 DEF ReadEvent, Next, RequestNext
<1>5. CASE Request
  BY <1>5 DEF Request, RequestNext
<1>6. CASE Rest \/ UNCHANGED dialogueVars
  BY <1>6 DEF Rest, dialogueVars
<1> QED BY <1>1, <1>2, <1>3, <1>4, <1>5, <1>6 DEF NextDialogue

\* The dialogue implements both streams: what either guarantees by itself holds of a
\* connection on which they share the main thread, epoll and the closed session.
THEOREM Composition == DialogueSpec => Spec /\ RequestSpec
<1>1. InitDialogue => Init /\ InitRequests
  BY DEF InitDialogue
<1> QED BY <1>1, DialogueStep, PTL DEF DialogueSpec, Spec, RequestSpec

\* No answer is sent before its request was submitted.
AnswersAsked == Len(submitted) >= sent

DialogueInv == ReplyInv /\ RequestInv /\ AnswersAsked

LEMMA DialogueInductive == DialogueInv /\ [NextDialogue]_dialogueVars => DialogueInv'
<1> SUFFICES ASSUME DialogueInv, [NextDialogue]_dialogueVars PROVE DialogueInv'
  OBVIOUS
<1>1. ReplyInv' /\ RequestInv'
  BY DialogueStep, ReplyStep, RequestStep DEF DialogueInv
<1>2. /\ Len(submitted) \in Nat /\ Len(submitted') \in Nat /\ Len(submitted') >= Len(submitted)
      /\ Len(submitted) >= sent /\ sent \in Nat
  BY DialogueStep, SubmittedGrows DEF DialogueInv, AnswersAsked, ReplyInv, RestOK
<1>3. CASE Answer
  <2>1. sent' = sent + 1 /\ sent < Len(submitted)
    BY <1>3 DEF Answer, SendPacket
  <2> QED BY <1>1, <1>2, <2>1 DEF DialogueInv, AnswersAsked
<1>4. CASE ~Answer
  <2>1. sent' = sent
    BY <1>4 DEF NextDialogue, OnWrite, HandleWrite, Read, ClientStep, ReadyRead, Extract,
                ArriveUnannounced, TooLarge, OutOfMemory, Discard, WaitForMore, senderVars, ReadEvent, WritableAgain, Request, Rest,
                dialogueVars, vars
  <2> QED BY <1>1, <1>2, <2>1 DEF DialogueInv, AnswersAsked
<1> QED BY <1>3, <1>4

\* The invariant of a connection, for every number of requests and every size.
THEOREM DialogueInvariance == DialogueSpec => []DialogueInv
<1>1. InitDialogue => DialogueInv
  BY ReplyInit, RequestInit DEF InitDialogue, DialogueInv, AnswersAsked, Init, InitRequests
<1> QED BY <1>1, DialogueInductive, PTL DEF DialogueSpec

\* The variables of both directions have their types, and no answer comes before its
\* request.
THEOREM DialogueTypes == DialogueSpec => []DialogueTypeOK
<1>1. DialogueInv => DialogueTypeOK
  BY ReplyTypes, RequestTypes DEF DialogueInv, DialogueTypeOK, AnswersAsked
<1> QED BY <1>1, DialogueInvariance, PTL

\* The client emits the answers in the order in which they were sent, each once,
\* whatever send() and readAll make of the bytes and whatever arrives during a dialog,
\* until it throws its buffer away.
THEOREM RepliesIntact == DialogueSpec => []StreamIntact
<1>1. DialogueInv => StreamIntact
  BY ReplyOrder DEF DialogueInv
<1> QED BY <1>1, DialogueInvariance, PTL

\* Bytes in the send queue have the event that will move them.
THEOREM RepliesMove == DialogueSpec => []WriterWillWake
<1>1. DialogueInv => WriterWillWake
  BY DEF DialogueInv, ReplyInv, WakePending, WriterWillWake
<1> QED BY <1>1, DialogueInvariance, PTL

\* The pool gets the requests in the order of the client, each once, none over the
\* limit, whatever TCP and recv make of the bytes.
THEOREM RequestsInOrder == DialogueSpec => []RequestsIntact
<1>1. DialogueInv => RequestsIntact
  BY RequestOrder DEF DialogueInv
<1> QED BY <1>1, DialogueInvariance, PTL

\* Between two calls of handleRead nothing that can be read waits without an event.
THEOREM RequestsMove == DialogueSpec => []NothingStranded
<1>1. DialogueInv => NothingStranded
  BY DEF DialogueInv, RequestInv
<1> QED BY <1>1, DialogueInvariance, PTL
============================================================================
