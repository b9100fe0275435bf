----------------------------- MODULE CodecSafety -----------------------------
(***************************************************************************)
(* Proofs about Codec: what is read back is what was written.              *)
(***************************************************************************)
EXTENDS Codec, SequenceTheorems, TLAPS

Kinds == {"bool", "uint32", "string", "count"}
Byte == 0..B-1
Values == Nat \cup Seq(Byte)
----------------------------------------------------------------------------
(* Digits.                                                                 *)

LEMMA Width == B \in Nat /\ B >= 2 /\ W \in Nat /\ W >= 4
<1>1. B \in Nat /\ B >= 2
  BY BytesAssumption
<1>2. B * B >= 2 * B
  BY <1>1
<1> QED BY <1>1, <1>2 DEF W

\* A number below m * B is a number below m and a digit.
LEMMA Digit ==
  ASSUME NEW v \in Nat
  PROVE  /\ Shift(v) \in Nat /\ v % B \in Byte
         /\ v = Shift(v) * B + (v % B)
         /\ \A m \in Nat : v < m * B => Shift(v) < m
<1>1. B \in Nat /\ B >= 2
  BY Width
<1>2. Shift(v) \in Nat /\ v % B \in Byte /\ v = Shift(v) * B + (v % B)
  BY <1>1 DEF Shift, Byte
<1>3. ASSUME NEW m \in Nat, v < m * B, m <= Shift(v)
      PROVE  FALSE
  <2>1. Shift(v) - m \in Nat
    BY <1>2, <1>3
  <2>2. (Shift(v) - m) * B >= 0
    BY <1>1, <2>1
  <2>3. Shift(v) * B = m * B + (Shift(v) - m) * B
    BY <1>1, <1>2, <1>3
  <2> QED BY <1>1, <1>2, <1>3, <2>2, <2>3 DEF Byte
<1> QED BY <1>2, <1>3

\* Two bytes hold a number below W, four bytes one below W * W.
LEMMA TwoBytes ==
  ASSUME NEW v \in Nat, v < W
  PROVE  (Shift(v) % B) * B + (v % B) = v
<1>1. B \in Nat /\ B >= 2
  BY Width
<1>2. Shift(v) \in Nat /\ Shift(v) < B /\ v = Shift(v) * B + (v % B)
  BY <1>1, Digit DEF W
<1>3. Shift(v) % B = Shift(v)
  BY <1>1, <1>2
<1> QED BY <1>2, <1>3

LEMMA FourBytes ==
  ASSUME NEW v \in Nat, v < W * W
  PROVE  (((Shift(Shift(Shift(v))) % B) * B + (Shift(Shift(v)) % B)) * B + (Shift(v) % B)) * B
           + (v % B) = v
<1> DEFINE v1 == Shift(v)
           v2 == Shift(v1)
           v3 == Shift(v2)
<1>1. B \in Nat /\ B >= 2
  BY Width
<1>2. v < (B * B * B) * B
  BY <1>1 DEF W
<1>3. v1 \in Nat /\ v1 < (B * B) * B /\ v = v1 * B + (v % B)
  BY <1>1, <1>2, Digit
<1>4. v2 \in Nat /\ v2 < B * B /\ v1 = v2 * B + (v1 % B)
  <2> HIDE DEF v1
  <2>1. B * B \in Nat
    BY <1>1
  <2>2. /\ v2 \in Nat /\ v1 = v2 * B + (v1 % B)
        /\ \A m \in Nat : v1 < m * B => v2 < m
    BY <1>3, Digit
  <2> QED BY <1>3, <2>1, <2>2
<1>5. v3 \in Nat /\ v3 < B /\ v2 = v3 * B + (v2 % B)
  <2> HIDE DEF v2
  <2> QED BY <1>1, <1>4, Digit
<1>6. v3 % B = v3
  <2> HIDE DEF v3
  <2> QED BY <1>1, <1>5
<1>7. (((v3 % B) * B + (v2 % B)) * B + (v1 % B)) * B + (v % B) = v
  <2> HIDE DEF v1, v2, v3
  <2>1. (v3 % B) * B + (v2 % B) = v2
    BY <1>5, <1>6
  <2>2. v2 * B + (v1 % B) = v1
    BY <1>4
  <2> QED BY <1>3, <2>1, <2>2
<1> QED BY <1>7
----------------------------------------------------------------------------
(* Layouts                                                                 *)

LEMMA SameLayout == \A t \in Types : Read[t] = Built[t]
BY DEF Read, Built

\* The sequences of kinds that occur in a layout.
LEMMA SeqsOfKinds ==
  /\ \A s \in {<<>>} : s \in Seq(Kinds) /\ Len(s) = 0
  /\ \A s \in {<<"bool">>, <<"string">>, <<"count">>} : s \in Seq(Kinds) /\ Len(s) = 1
  /\ \A s \in {<<"string", "string">>, <<"uint32", "string">>} :
       s \in Seq(Kinds) /\ Len(s) = 2
  /\ \A s \in {<<"string", "uint32", "string">>, <<"bool", "uint32", "string">>} :
       s \in Seq(Kinds) /\ Len(s) = 3
<1> SUFFICES ASSUME NEW s
             PROVE  /\ s = <<>> => s \in Seq(Kinds) /\ Len(s) = 0
                    /\ s = <<"bool">> => s \in Seq(Kinds) /\ Len(s) = 1
                    /\ s = <<"string">> => s \in Seq(Kinds) /\ Len(s) = 1
                    /\ s = <<"count">> => s \in Seq(Kinds) /\ Len(s) = 1
                    /\ s = <<"string", "string">> => s \in Seq(Kinds) /\ Len(s) = 2
                    /\ s = <<"uint32", "string">> => s \in Seq(Kinds) /\ Len(s) = 2
                    /\ s = <<"string", "uint32", "string">> => s \in Seq(Kinds) /\ Len(s) = 3
                    /\ s = <<"bool", "uint32", "string">> => s \in Seq(Kinds) /\ Len(s) = 3
  BY Zenon
<1>1. s = <<>> => s \in Seq(Kinds) /\ Len(s) = 0
  BY DEF Kinds
<1>2. s = <<"bool">> => s \in Seq(Kinds) /\ Len(s) = 1
  BY DEF Kinds
<1>3. s = <<"string">> => s \in Seq(Kinds) /\ Len(s) = 1
  BY DEF Kinds
<1>4. s = <<"count">> => s \in Seq(Kinds) /\ Len(s) = 1
  BY DEF Kinds
<1>5. s = <<"string", "string">> => s \in Seq(Kinds) /\ Len(s) = 2
  BY DEF Kinds
<1>6. s = <<"uint32", "string">> => s \in Seq(Kinds) /\ Len(s) = 2
  BY DEF Kinds
<1>7. s = <<"string", "uint32", "string">> => s \in Seq(Kinds) /\ Len(s) = 3
  BY DEF Kinds
<1>8. s = <<"bool", "uint32", "string">> => s \in Seq(Kinds) /\ Len(s) = 3
  BY DEF Kinds
<1> QED BY <1>1, <1>2, <1>3, <1>4, <1>5, <1>6, <1>7, <1>8

\* A packet with a list begins with its count, and has nothing else before it.
LEMMA Layouts ==
  ASSUME NEW t \in Types
  PROVE  /\ Built[t].fields \in Seq(Kinds) /\ Built[t].item \in Seq(Kinds)
         /\ Len(Built[t].item) \in 0..2
         /\ IsList(t) => /\ Built[t].fields = <<"count">> /\ Len(Built[t].fields) = 1
                         /\ Len(Built[t].item) > 0
         /\ ~IsList(t) => Len(Built[t].item) = 0
<1> DEFINE Shapes == {Layout(<<>>, <<>>), Layout(<<"string", "string">>, <<>>),
             Layout(<<"bool">>, <<>>), Layout(<<"string">>, <<>>),
             Layout(<<"uint32", "string">>, <<>>),
             Layout(<<"string", "uint32", "string">>, <<>>),
             Layout(<<"bool", "uint32", "string">>, <<>>)}
           Lists == {Layout(<<"count">>, <<"string">>),
             Layout(<<"count">>, <<"uint32", "string">>)}
<1>1. Built[t] \in Shapes \cup Lists
  BY DEF Types, Built
<1>2. CASE Built[t] \in Shapes
  <2>1. Built[t].item = <<>>
    BY <1>2 DEF Layout
  <2>2. Built[t].fields \in {<<>>, <<"bool">>, <<"string">>, <<"string", "string">>,
          <<"uint32", "string">>, <<"string", "uint32", "string">>,
          <<"bool", "uint32", "string">>}
    BY <1>2 DEF Layout
  <2>3. Built[t].fields \in Seq(Kinds)
    BY ONLY <2>2, SeqsOfKinds, Zenon
  <2>4. Built[t].item \in Seq(Kinds) /\ Len(Built[t].item) = 0
    BY ONLY <2>1, SeqsOfKinds, Zenon
  <2>5. ~IsList(t)
    BY <2>1 DEF IsList
  <2> QED BY <2>3, <2>4, <2>5
<1>3. CASE Built[t] \in Lists
  <2>1. Built[t].fields = <<"count">>
    BY <1>3 DEF Layout
  <2>2. Built[t].item \in {<<"string">>, <<"uint32", "string">>}
    BY <1>3 DEF Layout
  <2>3. Built[t].fields \in Seq(Kinds) /\ Len(Built[t].fields) = 1
    BY ONLY <2>1, SeqsOfKinds, Zenon
  <2>4. Built[t].item \in Seq(Kinds) /\ (Len(Built[t].item) = 1 \/ Len(Built[t].item) = 2)
    BY ONLY <2>2, SeqsOfKinds, Zenon
  <2>5. IsList(t)
    BY <2>2 DEF IsList
  <2>6. \A n \in {1, 2} : n \in 0..2 /\ n > 0
    OBVIOUS
  <2> QED BY <2>1, <2>3, <2>4, <2>5, <2>6, Zenon
<1> QED BY <1>1, <1>2, <1>3

Counts == size \in Nat /\ type \in Types /\ (~IsList(type) => size = 0)
Kind(k) == FieldAt(Built[type], k)

LEMMA SizesAreCounts == type \in Types /\ size \in Sizes(type) => Counts
BY Width, DataAssumption DEF Sizes, Counts

\* More entries, more values; a kind for each of them.
LEMMA Totals ==
  ASSUME Counts, NEW m \in Nat, NEW n \in Nat, m <= n
  PROVE  /\ Total(Built[type], m) \in Nat
         /\ Total(Built[type], m) <= Total(Built[type], n)
         /\ IsList(type) => m < Total(Built[type], m)
         /\ ~IsList(type) => Total(Built[type], m) = Len(Built[type].fields)
<1> DEFINE f == Len(Built[type].fields)
           i == Len(Built[type].item)
<1>1. f \in Nat /\ i \in 0..2 /\ (IsList(type) => f = 1 /\ i > 0) /\ (~IsList(type) => i = 0)
  BY Layouts DEF Counts
<1>2. Total(Built[type], m) = f + m * i /\ Total(Built[type], n) = f + n * i
  BY DEF Total
<1> HIDE DEF f, i
<1>3. /\ f + m * i \in Nat /\ f + m * i <= f + n * i
      /\ f = 1 /\ i > 0 => m < f + m * i
  <2>1. CASE i = 0
    BY <1>1, <2>1
  <2>2. CASE i = 1
    BY <1>1, <2>2
  <2>3. CASE i = 2
    BY <1>1, <2>3
  <2> QED BY <1>1, <2>1, <2>2, <2>3
<1>4. ~IsList(type) => f + m * i = f
  BY <1>1
<1> QED BY <1>1, <1>2, <1>3, <1>4 DEF f

LEMMA KindOf ==
  ASSUME Counts, NEW k \in Nat \ {0}, k <= Len(Built[type].fields) \/ IsList(type)
  PROVE  Kind(k) \in Kinds
<1> DEFINE f == Len(Built[type].fields)
           i == Len(Built[type].item)
           j == ((k - f - 1) % i) + 1
<1>1. /\ Built[type].fields \in Seq(Kinds) /\ Built[type].item \in Seq(Kinds)
      /\ f \in Nat /\ i \in 0..2 /\ (IsList(type) => i > 0)
  BY Layouts DEF Counts
<1>2. /\ k <= f => Kind(k) = Built[type].fields[k]
      /\ ~(k <= f) => Kind(k) = Built[type].item[j]
  BY Zenon DEF Kind, FieldAt
<1>3. CASE k <= f
  BY <1>1, <1>2, <1>3
<1>4. CASE ~(k <= f)
  <2>1. j \in 1..i
    <3> HIDE DEF f, i
    <3>1. k - f - 1 \in Nat /\ (i = 1 \/ i = 2)
      BY <1>1, <1>4 DEF f
    <3> QED BY <3>1
  <2>2. Built[type].item[j] \in Kinds
    <3> HIDE DEF j
    <3> QED BY <1>1, <2>1
  <2> QED BY <1>2, <1>4, <2>2, Zenon
<1> QED BY <1>1, <1>3, <1>4

\* The first value of a packet with a list is the count.
LEMMA FirstIsCount ==
  ASSUME Counts, IsList(type)
  PROVE  Kind(1) = "count"
<1>1. Built[type].fields = <<"count">> /\ Len(Built[type].fields) = 1
  BY Layouts DEF Counts
<1>2. Kind(1) = Built[type].fields[1]
  BY <1>1 DEF Kind, FieldAt
<1> QED BY <1>1, <1>2
----------------------------------------------------------------------------
(* A value on the wire                                                     *)

\* Each value takes as many bytes as it needs.
LEMMA Written ==
  ASSUME Counts, NEW kind \in Kinds, NEW v \in ValuesOf(kind)
  PROVE  /\ v \in Values
         /\ WriteField(kind, v) \in Seq(Byte)
         /\ Len(WriteField(kind, v)) = NeededBy(kind, v)
         /\ NeededBy(kind, v) \in Nat /\ NeededBy(kind, v) >= 1
<1>1. B \in Nat /\ B >= 2 /\ W \in Nat /\ W >= 4
  BY Width
<1>2. CASE kind = "bool"
  <2>1. v \in Nat /\ v % B \in Byte
    BY <1>1, <1>2, Digit DEF ValuesOf
  <2> QED BY <1>2, <2>1 DEF WriteField, WriteUint, NeededBy, Values
<1>3. CASE kind = "uint32"
  <2>1. v \in Nat
    BY <1>1, <1>3, DataAssumption DEF ValuesOf
  <2>2. Shift(v) \in Nat /\ v % B \in Byte
    BY <2>1, Digit
  <2>3. Shift(Shift(v)) \in Nat /\ Shift(v) % B \in Byte
    BY <2>2, Digit
  <2>4. Shift(Shift(Shift(v))) % B \in Byte /\ Shift(Shift(v)) % B \in Byte
    BY <2>3, Digit
  <2> QED BY <1>3, <2>1, <2>2, <2>3, <2>4 DEF WriteField, WriteUint, NeededBy, Values
<1>4. CASE kind = "count"
  <2>1. v \in Nat /\ v % W \in Nat
    BY <1>1, <1>4 DEF ValuesOf, Counts
  <2>2. Shift(v % W) \in Nat /\ (v % W) % B \in Byte
    BY <2>1, Digit
  <2>3. Shift(v % W) % B \in Byte
    BY <2>2, Digit
  <2> QED BY <1>4, <2>1, <2>2, <2>3 DEF WriteField, WriteUint, NeededBy, Values
<1>5. CASE kind = "string"
  <2> DEFINE length == Len(v) % W
  <2>1. v \in Seq(Byte) /\ Len(v) \in Nat
    BY <1>5, DataAssumption DEF ValuesOf, Byte
  <2>2. length \in Nat /\ length <= Len(v)
    BY <1>1, <2>1
  <2>3. Shift(length) \in Nat /\ length % B \in Byte
    BY <2>2, Digit
  <2>4. Shift(length) % B \in Byte
    BY <2>3, Digit
  <2> HIDE DEF length
  <2> DEFINE head == WriteUint(2, length)
             tail == SubSeq(v, 1, length)
  <2>5. head \in Seq(Byte) /\ Len(head) = 2
    BY <2>3, <2>4 DEF WriteUint
  <2>6. tail \in Seq(Byte) /\ Len(tail) = length
    BY <2>1, <2>2
  <2>7. WriteField(kind, v) = head \o tail
    BY <1>5 DEF WriteField, WriteString, length
  <2>8. NeededBy(kind, v) = 2 + length
    BY <1>5 DEF NeededBy, length
  <2> HIDE DEF head, tail
  <2>9. head \o tail \in Seq(Byte) /\ Len(head \o tail) = Len(head) + Len(tail)
    BY <2>5, <2>6, ConcatProperties, Zenon
  <2> QED BY <2>1, <2>2, <2>5, <2>6, <2>7, <2>8, <2>9 DEF Values
<1> QED BY <1>2, <1>3, <1>4, <1>5 DEF Kinds
\* A value as it is sent.
SentOf(kind, v) ==
  CASE kind = "string" -> SubSeq(v, 1, Len(v) % W)
    [] kind = "count"  -> v % W
    [] OTHER           -> v

BodyOK ==
  /\ body \in Seq(Byte) /\ messageLen \in Nat /\ cursor \in Nat
  /\ messageLen <= Len(body)

LEMMA Results == \A x, y : Result(x, y).value = x /\ Result(x, y).next = y
BY DEF Result

\* What is read is a value, whatever the bytes.
LEMMA UintIsRead ==
  ASSUME BodyOK, NEW width \in {1, 2, 4}, NEW at \in Nat
  PROVE  /\ ReadUint(width, at).value \in Nat
         /\ ReadUint(width, at).next \in Nat
         /\ messageLen - at >= width =>
              ReadUint(width, at) = Result(BigEndian(width, at), at + width)
<1>1. B \in Nat
  BY Width
<1>2. ASSUME messageLen - at >= width
      PROVE  BigEndian(width, at) \in Nat
  <2>1. \A i \in 1..width : body[at + i] \in Nat
    BY <1>1, <1>2 DEF BodyOK, Byte
  <2>2. CASE width = 1
    BY <2>1, <2>2 DEF BigEndian
  <2>3. CASE width = 2
    <3>1. body[at + 1] \in Nat /\ body[at + 2] \in Nat
      BY <2>1, <2>3
    <3> QED BY <1>1, <2>3, <3>1 DEF BigEndian
  <2>4. CASE width = 4
    <3>1. /\ body[at + 1] \in Nat /\ body[at + 2] \in Nat
          /\ body[at + 3] \in Nat /\ body[at + 4] \in Nat
      BY <2>1, <2>4
    <3>2. body[at + 1] * B + body[at + 2] \in Nat
      BY <1>1, <3>1
    <3>3. (body[at + 1] * B + body[at + 2]) * B + body[at + 3] \in Nat
      BY <1>1, <3>1, <3>2
    <3> QED BY <1>1, <2>4, <3>1, <3>3 DEF BigEndian
  <2> QED BY <2>2, <2>3, <2>4
<1> QED BY <1>2 DEF ReadUint, Result, BodyOK

LEMMA IsRead ==
  ASSUME BodyOK, NEW kind \in Kinds, NEW at \in Nat
  PROVE  /\ ReadField(kind, at).value \in Values /\ ReadField(kind, at).next \in Nat
         /\ kind = "count" => ReadField(kind, at).value \in Nat
<1>1. CASE kind = "bool"
  <2>1. ReadUint(1, at).value \in Nat /\ ReadUint(1, at).next \in Nat
    BY UintIsRead
  <2>2. /\ ReadField(kind, at).value \in {0, 1}
        /\ ReadField(kind, at).next = ReadUint(1, at).next
    BY <1>1 DEF ReadField, ReadUint, Result
  <2> QED BY <1>1, <2>1, <2>2 DEF Values
<1>2. CASE kind = "uint32"
  BY <1>2, UintIsRead DEF ReadField, Values
<1>3. CASE kind = "count"
  BY <1>3, UintIsRead DEF ReadField, Values
<1>4. CASE kind = "string"
  <2> DEFINE length == ReadUint(2, at)
             from == length.next
             to == length.next + length.value
  <2>1. from \in Nat /\ length.value \in Nat
    BY UintIsRead
  <2>2. ReadField(kind, at) = ReadString(at)
    BY <1>4 DEF ReadField
  <2> HIDE DEF length
  <2>3. CASE messageLen - from < length.value
    <3>1. ReadString(at) = Result(<<>>, from)
      BY <2>3 DEF ReadString, length
    <3>2. ReadField(kind, at).value = <<>> /\ ReadField(kind, at).next = from
      BY <2>2, <3>1 DEF Result
    <3>3. <<>> \in Values
      BY DEF Values
    <3> QED BY <1>4, <2>1, <3>2, <3>3
  <2>4. CASE ~(messageLen - from < length.value)
    <3>1. ReadString(at) = Result(SubSeq(body, from + 1, to), to)
      BY <2>4 DEF ReadString, length
    <3>2. SubSeq(body, from + 1, to) \in Seq(Byte)
      <4>1. \A i \in (from + 1)..to : body[i] \in Byte
        BY <2>1, <2>4 DEF BodyOK
      <4>2. from + 1 \in Int /\ to \in Int
        BY <2>1
      <4> QED BY <4>1, <4>2, SubSeqProperties
    <3>3. /\ ReadField(kind, at).value = SubSeq(body, from + 1, to)
          /\ ReadField(kind, at).next = to
      <4> DEFINE part == SubSeq(body, from + 1, to)
      <4>1. ReadField(kind, at) = Result(part, to)
        BY <2>2, <3>1, Zenon
      <4> HIDE DEF part, to
      <4>2. ReadField(kind, at).value = part /\ ReadField(kind, at).next = to
        BY <4>1 DEF Result
      <4> QED BY <4>2 DEF part
    <3>4. SubSeq(body, from + 1, to) \in Values /\ to \in Nat
      BY <2>1, <3>2 DEF Values
    <3> QED BY <1>4, <3>3, <3>4
  <2> QED BY <2>3, <2>4
<1> QED BY <1>1, <1>2, <1>3, <1>4 DEF Kinds

\* A length or a count is read back, and a string with the characters that follow.
LEMMA LengthReadsBack ==
  ASSUME BodyOK, NEW x \in Nat, x < W, NEW at \in Nat, at + 2 <= messageLen,
         \A i \in 1..2 : body[at + i] = WriteUint(2, x)[i]
  PROVE  ReadUint(2, at) = Result(x, at + 2)
<1>1. body[at + 1] = Shift(x) % B /\ body[at + 2] = x % B
  BY DEF WriteUint
<1>2. BigEndian(2, at) = x
  BY <1>1, TwoBytes DEF BigEndian
<1> QED BY <1>2, UintIsRead DEF BodyOK

LEMMA StringReadsBack ==
  ASSUME BodyOK, NEW v \in Seq(Byte), NEW at \in Nat,
         NEW length \in Nat, length = Len(v) % W, at + 2 + length <= messageLen,
         \A i \in 1..(2 + length) : body[at + i] = WriteString(v)[i]
  PROVE  ReadString(at) = Result(SubSeq(v, 1, length), at + 2 + length)
<1> DEFINE head == WriteUint(2, length)
           tail == SubSeq(v, 1, length)
           from == at + 2
<1>1. W \in Nat /\ W >= 4
  BY Width
<1>2. length <= Len(v) /\ length < W
  <2>1. \A n \in Nat : n % W <= n /\ n % W < W
    BY <1>1
  <2> QED BY <2>1
<1>3. head \in Seq(Byte) /\ Len(head) = 2
  <2>1. Shift(length) \in Nat /\ length % B \in Byte
    BY Digit
  <2>2. Shift(length) % B \in Byte
    BY <2>1, Digit
  <2> QED BY <2>1, <2>2 DEF WriteUint
<1>4. tail \in Seq(Byte) /\ Len(tail) = length
  BY <1>2
<1>5. WriteString(v) = head \o tail
  BY DEF WriteString
<1> HIDE DEF head, tail
<1>6. \A i \in 1..(2 + length) :
        /\ i <= 2 => (head \o tail)[i] = head[i]
        /\ ~(i <= 2) => (head \o tail)[i] = tail[i - 2]
  <2>1. \A i \in 1..(Len(head) + Len(tail)) :
          (head \o tail)[i] = IF i <= Len(head) THEN head[i] ELSE tail[i - Len(head)]
    BY <1>3, <1>4, ConcatProperties, Zenon
  <2> QED BY <1>3, <1>4, <2>1
<1>7. \A i \in 1..2 : body[at + i] = head[i]
  <2> SUFFICES ASSUME NEW i \in 1..2
               PROVE  body[at + i] = head[i]
    OBVIOUS
  <2>1. i \in 1..(2 + length) /\ i <= 2
    OBVIOUS
  <2> QED BY <1>5, <1>6, <2>1, Zenon
<1>8. \A i \in 1..length : body[from + i] = tail[i]
  <2> SUFFICES ASSUME NEW i \in 1..length
               PROVE  body[from + i] = tail[i]
    OBVIOUS
  <2>1. 2 + i \in 1..(2 + length) /\ ~(2 + i <= 2)
    OBVIOUS
  <2>2. body[at + (2 + i)] = tail[(2 + i) - 2]
    BY <1>5, <1>6, <2>1, Zenon
  <2>3. at + (2 + i) = from + i /\ (2 + i) - 2 = i
    OBVIOUS
  <2> QED BY <2>2, <2>3
<1>9. ReadUint(2, at) = Result(length, from)
  <2>1. at + 2 <= messageLen
    BY DEF BodyOK
  <2> QED BY <1>2, <1>7, <2>1, LengthReadsBack, Zenon DEF head
<1>10. SubSeq(body, from + 1, from + length) = tail
  <2>1. \A i \in (from + 1)..(from + length) : body[i] \in Byte
    BY DEF BodyOK
  <2> DEFINE part == SubSeq(body, from + 1, from + length)
  <2>2. /\ part \in Seq(Byte)
        /\ Len(part) = IF from + 1 <= from + length THEN from + length - (from + 1) + 1 ELSE 0
        /\ \A i \in 1..(from + length - (from + 1) + 1) : part[i] = body[from + 1 + i - 1]
    BY <2>1, SubSeqProperties
  <2> HIDE DEF part
  <2>3. Len(part) = length /\ \A i \in 1..length : part[i] = body[from + i]
    BY <2>2
  <2> QED BY <1>4, <1>8, <2>2, <2>3, SeqEqual DEF part
<1>11. ~(messageLen - from < length)
  BY DEF BodyOK
<1>12. ReadString(at) = Result(SubSeq(body, from + 1, from + length), from + length)
  <2>1. ReadUint(2, at).value = length /\ ReadUint(2, at).next = from
    BY <1>9 DEF Result
  <2> QED BY <1>11, <2>1, Zenon DEF ReadString
<1> QED BY <1>10, <1>12 DEF tail

\* Where a value was written, and lies in the message, it is read as it was sent.
LEMMA ReadsBack ==
  ASSUME Counts, BodyOK, NEW kind \in Kinds, NEW v \in ValuesOf(kind), NEW at \in Nat,
         at + NeededBy(kind, v) <= messageLen,
         \A i \in 1..NeededBy(kind, v) : body[at + i] = WriteField(kind, v)[i]
  PROVE  ReadField(kind, at) = Result(SentOf(kind, v), at + NeededBy(kind, v))
<1>1. B \in Nat /\ B >= 2 /\ W \in Nat /\ W >= 4
  BY Width
<1>2. CASE kind = "bool"
  <2>1. body[at + 1] = v % B /\ (v = 0 \/ v = 1)
    BY <1>2 DEF NeededBy, WriteField, WriteUint, ValuesOf
  <2>2. v % B = v
    BY <1>1, <2>1
  <2>3. ReadUint(1, at) = Result(v, at + 1)
    BY <1>2, <2>1, <2>2, UintIsRead DEF NeededBy, BigEndian, BodyOK
  <2> QED BY <1>2, <2>1, <2>3 DEF ReadField, SentOf, NeededBy, Result
<1>3. CASE kind = "uint32"
  <2>1. v \in Nat /\ v < W * W
    BY <1>1, <1>3, DataAssumption DEF ValuesOf
  <2>2. NeededBy(kind, v) = 4
    BY <1>3 DEF NeededBy
  <2>3. /\ body[at + 1] = Shift(Shift(Shift(v))) % B /\ body[at + 2] = Shift(Shift(v)) % B
        /\ body[at + 3] = Shift(v) % B /\ body[at + 4] = v % B
    BY <1>3, <2>2 DEF WriteField, WriteUint
  <2>4. BigEndian(4, at) = v
    BY <2>1, <2>3, FourBytes DEF BigEndian
  <2>5. ReadUint(4, at) = Result(v, at + 4)
    BY <2>2, <2>4, UintIsRead DEF BodyOK
  <2> QED BY <1>3, <2>2, <2>5 DEF ReadField, SentOf
<1>4. CASE kind = "count"
  <2>1. v \in Nat /\ v % W \in Nat /\ v % W < W
    BY <1>1, <1>4 DEF ValuesOf, Counts
  <2>2. NeededBy(kind, v) = 2 /\ WriteField(kind, v) = WriteUint(2, v % W)
    BY <1>4 DEF NeededBy, WriteField
  <2>3. ReadUint(2, at) = Result(v % W, at + 2)
    BY <2>1, <2>2, LengthReadsBack
  <2> QED BY <1>4, <2>2, <2>3 DEF ReadField, SentOf
<1>5. CASE kind = "string"
  <2> DEFINE length == Len(v) % W
  <2>1. v \in Seq(Byte) /\ length \in Nat
    BY <1>1, <1>5, DataAssumption DEF ValuesOf, Byte
  <2>2. /\ NeededBy(kind, v) = 2 + length /\ WriteField(kind, v) = WriteString(v)
        /\ SentOf(kind, v) = SubSeq(v, 1, length) /\ ReadField(kind, at) = ReadString(at)
    BY <1>5 DEF NeededBy, WriteField, SentOf, ReadField
  <2>3. length = Len(v) % W
    OBVIOUS
  <2> HIDE DEF length
  <2>4. at + 2 + length = at + (2 + length) /\ at + 2 + length <= messageLen
    BY <2>1, <2>2
  <2>5. \A i \in 1..(2 + length) : body[at + i] = WriteString(v)[i]
    BY <2>2, Zenon
  <2>6. ReadString(at) = Result(SubSeq(v, 1, length), at + 2 + length)
    BY <2>1, <2>3, <2>4, <2>5, StringReadsBack, Zenon
  <2> QED BY <2>2, <2>4, <2>6, Zenon
<1> QED BY <1>2, <1>3, <1>4, <1>5 DEF Kinds
----------------------------------------------------------------------------
(* The inductive invariant: the body holds the values written, one after   *)
(* the other, and what has been read of the part that is in the message is *)
(* what was sent.                                                          *)

TypeInv ==
  /\ state \in {"build", "parse", "accepted", "refused"} /\ Counts
  /\ written \in Seq(Values) /\ read \in Seq(Values)
  /\ needed \in Seq(Nat) /\ Len(needed) = Len(written)
  /\ body \in Seq(Byte) /\ messageLen \in Nat /\ cursor \in Nat
  /\ messageLen <= Len(body)

\* The k-th value lies in the body behind the one before it.
LaidOut(k) ==
  /\ written[k] \in ValuesOf(Kind(k))
  /\ needed[k] = Needed(k - 1) + NeededBy(Kind(k), written[k])
  /\ \A i \in 1..NeededBy(Kind(k), written[k]) :
       body[Needed(k - 1) + i] = WriteField(Kind(k), written[k])[i]

WriteInv ==
  /\ Len(written) <= Total(Built[type], size)
  /\ Len(body) = Needed(Len(written))
  /\ \A k \in 1..Len(written) : LaidOut(k)
  /\ \A k \in 0..Len(written) : k <= Needed(k)
  /\ \A j, k \in 0..Len(written) : j <= k => Needed(j) <= Needed(k)

HeaderInv ==
  /\ state = "build" => read = <<>> /\ cursor = 0
  /\ state # "build" =>
       Len(written) = Total(Built[type], size) /\ messageLen = Len(body) % W

\* The k-th value lies in the part of the body that is in the message.
InMessage(k) == k <= Len(written) /\ Needed(k) <= messageLen

ReadInv ==
  /\ Len(read) <= ToRead
  /\ IsList(type) /\ read # <<>> => read[1] \in Nat
  /\ \A k \in 1..Len(read) : InMessage(k) => read[k] = SentOf(Kind(k), written[k])
  /\ InMessage(Len(read)) => cursor = Needed(Len(read))
  /\ Parsed => Len(read) = ToRead /\ (cursor = messageLen => state = "accepted")

Inv == TypeInv /\ WriteInv /\ HeaderInv /\ ReadInv
----------------------------------------------------------------------------
LEMMA NeededType == TypeInv => \A k \in 0..Len(written) : Needed(k) \in Nat
BY DEF TypeInv, Needed

LEMMA SentIs == Counts => \A k \in Nat : Sent(k) = SentOf(Kind(k), written[k])
BY Zenon DEF Sent, SentOf, Kind

\* How many values are to be read, once the count has been.
LEMMA ToReadIs ==
  ASSUME TypeInv
  PROVE  /\ ~IsList(type) => ToRead = Total(Built[type], 0) /\ size = 0
         /\ IsList(type) /\ read = <<>> => ToRead = 1
         /\ IsList(type) /\ read # <<>> => ToRead = Total(Built[type], read[1])
<1>1. Counts /\ Read[type] = Built[type]
  BY SameLayout DEF TypeInv, Counts
<1>2. CASE ~IsList(type)
  <2>1. ToRead = Len(Built[type].fields)
    BY <1>1, <1>2, Zenon DEF ToRead, IsList
  <2> QED BY <1>1, <1>2, <2>1, Totals DEF Counts
<1>3. CASE IsList(type)
  <2>1. Len(Built[type].fields) = 1
    BY <1>1, <1>3, Layouts DEF Counts
  <2>2. /\ read = <<>> => ToRead = Len(Built[type].fields)
        /\ read # <<>> => ToRead = Total(Built[type], read[1])
    BY <1>1, <1>3, Zenon DEF ToRead, IsList
  <2> QED BY <1>3, <2>1, <2>2
<1> QED BY <1>2, <1>3

\* Once parsed, at least the values that the count sent speaks of have been read,
\* if they are in the message.
LEMMA AllInMessageRead ==
  ASSUME Inv, Parsed, NEW k \in 1..Total(Built[type], size % W), Needed(k) <= messageLen
  PROVE  k <= Len(read) /\ k <= Len(written) /\ Len(read) = Total(Built[type], size % W)
<1>1. /\ Counts /\ Len(written) = Total(Built[type], size) /\ Len(read) = ToRead
      /\ Len(read) \in Nat /\ Len(written) \in Nat
  BY DEF Inv, TypeInv, HeaderInv, ReadInv, Parsed
<1>2. size % W \in Nat /\ size % W <= size
  BY <1>1, Width DEF Counts
<1>3. Total(Built[type], size % W) \in Nat /\ k <= Len(written)
  BY <1>1, <1>2, Totals DEF Counts
<1>4. CASE ~IsList(type)
  <2>1. size % W = 0
    BY <1>1, <1>4, Width DEF Counts
  <2>2. Len(read) = Total(Built[type], 0)
    BY <1>1, <1>4, ToReadIs DEF Inv
  <2> QED BY <1>3, <2>1, <2>2
<1>5. CASE IsList(type)
  <2>1. 1 <= Len(written) /\ Needed(1) <= messageLen
    <3>1. Needed(1) <= Needed(k) /\ Needed(1) \in Nat /\ Needed(k) \in Nat /\ messageLen \in Nat
      BY <1>1, <1>3, NeededType DEF Inv, WriteInv, TypeInv
    <3> QED BY <1>3, <3>1
  <2>2. Kind(1) = "count" /\ written[1] = size
    BY <1>1, <1>5, <2>1, FirstIsCount DEF Inv, WriteInv, LaidOut, ValuesOf
  <2>3. read # <<>>
    BY <1>1, <1>5, ToReadIs DEF Inv
  <2>4. 1 \in 1..Len(read)
    BY <2>3 DEF Inv, TypeInv
  <2>5. read[1] = size % W
    BY <2>1, <2>2, <2>4, Zenon DEF Inv, ReadInv, InMessage, SentOf
  <2>6. Len(read) = Total(Built[type], size % W)
    BY <1>1, <1>5, <2>3, <2>5, ToReadIs DEF Inv
  <2> QED BY <1>3, <2>6
<1> QED BY <1>4, <1>5

LEMMA InvImpliesCutKeepsPrefix == Inv => CutKeepsPrefix
<1> SUFFICES ASSUME Inv, Parsed, NEW k \in 1..Total(Built[type], size % W),
                    Needed(k) <= messageLen
             PROVE  k <= Len(read) /\ read[k] = Sent(k)
  BY DEF CutKeepsPrefix
<1>1. k \in 1..Len(read) /\ k <= Len(written)
  BY AllInMessageRead DEF Inv, TypeInv
<1>2. read[k] = SentOf(Kind(k), written[k])
  BY <1>1 DEF Inv, ReadInv, InMessage
<1> QED BY <1>1, <1>2, SentIs DEF Inv, TypeInv

LEMMA InvImpliesRoundTrip == Inv => RoundTrip
<1> DEFINE n == Len(written)
<1> SUFFICES ASSUME Inv, Parsed, Needed(n) < W
             PROVE  state = "accepted" /\ read = [k \in 1..n |-> Sent(k)]
  BY DEF RoundTrip
<1>1. /\ Counts /\ n = Total(Built[type], size) /\ n \in Nat /\ Len(read) \in Nat
      /\ messageLen = Len(body) % W /\ Len(body) = Needed(n) /\ n <= Needed(n)
      /\ read \in Seq(Values) /\ size \in Nat
  BY DEF Inv, TypeInv, HeaderInv, WriteInv, Parsed, Counts
<1>2. Needed(n) \in Nat /\ W \in Nat /\ messageLen = Needed(n)
  BY <1>1, Width, NeededType DEF Inv
<1>3. size < W
  <2>1. size < n \/ size = 0
    BY <1>1, Totals DEF Counts
  <2> QED BY <1>1, <1>2, <2>1, Width
<1>4. size % W = size
  <2>1. \A w \in Nat : size < w => size % w = size
    BY <1>1
  <2> QED BY <1>2, <1>3, <2>1
<1>5. Len(read) = n
  <2>1. CASE n = 0
    <3>1. ~IsList(type)
      <4>1. IsList(type) => size < Total(Built[type], size)
        BY <1>1, Totals
      <4> QED BY <1>1, <2>1, <4>1
    <3> QED BY <1>1, <3>1, ToReadIs DEF Inv, ReadInv
  <2>2. CASE n # 0
    <3>1. n \in 1..Total(Built[type], size % W)
      BY <1>1, <1>4, <2>2
    <3> QED BY <1>1, <1>2, <1>4, <3>1, AllInMessageRead
  <2> QED BY <2>1, <2>2
<1>6. state = "accepted"
  BY <1>1, <1>2, <1>5 DEF Inv, ReadInv, InMessage
<1>7. ASSUME NEW k \in 1..n
      PROVE  read[k] = Sent(k)
  <2>1. k \in Nat /\ k <= n /\ Needed(k) <= messageLen
    BY <1>1, <1>2 DEF Inv, WriteInv
  <2>2. read[k] = SentOf(Kind(k), written[k])
    BY <1>5, <2>1 DEF Inv, ReadInv, InMessage
  <2> QED BY <1>1, <2>1, <2>2, SentIs
<1>8. read = [k \in 1..n |-> Sent(k)]
  BY <1>1, <1>5, <1>7
<1> QED BY <1>6, <1>8
----------------------------------------------------------------------------
LEMMA InitInv == Init => Inv
<1> SUFFICES ASSUME Init
             PROVE  Inv
  OBVIOUS
<1>1. Counts
  BY SizesAreCounts DEF Init
<1>2. TypeInv
  BY <1>1 DEF Init, TypeInv
<1>3. Total(Built[type], 0) \in Nat /\ Total(Built[type], size) \in Nat
  BY <1>1, Totals DEF Counts
<1>4. WriteInv
  BY <1>3 DEF Init, WriteInv, Needed
<1>5. HeaderInv
  BY DEF Init, HeaderInv
<1>6. Len(read) = 0 /\ Needed(0) = 0
  BY DEF Init, Needed
<1>7. 0 <= ToRead
  BY <1>2, <1>3, ToReadIs DEF Init
<1>8. ReadInv
  BY <1>6, <1>7 DEF Init, ReadInv, Parsed
<1> QED BY <1>2, <1>4, <1>5, <1>8 DEF Inv

\* What was laid out stays so while the next value is written.
LEMMA WriteValuePreserves == Inv /\ WriteValue => Inv'
<1> SUFFICES ASSUME Inv, WriteValue
             PROVE  Inv'
  OBVIOUS
<1>0. PICK n \in Nat : n = Len(written)
  BY DEF Inv, TypeInv
<1> DEFINE k == n + 1
           kind == Kind(k)
<1>1. /\ TypeInv /\ Counts /\ n \in Nat /\ Len(body) \in Nat
      /\ state = "build" /\ read = <<>> /\ cursor = 0
  BY DEF Inv, TypeInv, HeaderInv, WriteValue
<1>2. /\ k <= Total(Built[type], size)
      /\ state' = state /\ type' = type /\ size' = size /\ messageLen' = messageLen
      /\ cursor' = cursor /\ read' = read
  BY <1>0 DEF WriteValue, dataVars, readVars
<1>3. PICK v \in ValuesOf(kind) :
        /\ written' = Append(written, v)
        /\ needed' = Append(needed, Needed(k - 1) + NeededBy(kind, v))
        /\ body' = body \o WriteField(kind, v)
  BY <1>0, Zenon DEF WriteValue, Choices, Kind
<1> DEFINE bytes == WriteField(kind, v)
           next == Needed(n) + NeededBy(kind, v)
<1>4. kind \in Kinds
  <2>1. ~IsList(type) => Total(Built[type], size) = Len(Built[type].fields)
    BY <1>1, Totals DEF Counts
  <2> QED BY <1>1, <1>2, <2>1, KindOf
<1>5. /\ v \in Values /\ bytes \in Seq(Byte) /\ Len(bytes) = NeededBy(kind, v)
      /\ NeededBy(kind, v) \in Nat /\ NeededBy(kind, v) >= 1
  BY <1>1, <1>4, Written
<1>6. Needed(n) \in Nat /\ Needed(n) = Len(body) /\ k - 1 = n
  BY <1>0, <1>1, NeededType DEF Inv, WriteInv
<1>7. next \in Nat /\ next = Len(body) + Len(bytes)
  BY <1>5, <1>6
<1>8. needed' = Append(needed, next)
  BY <1>3, <1>6
<1> HIDE DEF next, bytes
<1>9. /\ written' \in Seq(Values) /\ Len(written') = n + 1
      /\ written'[k] = v /\ \A j \in 1..n : written'[j] = written[j]
  BY <1>0, <1>1, <1>3, <1>5, AppendProperties DEF TypeInv
<1>10. /\ needed' \in Seq(Nat) /\ Len(needed') = n + 1
       /\ needed'[k] = next /\ \A j \in 1..n : needed'[j] = needed[j]
  BY <1>0, <1>1, <1>7, <1>8, AppendProperties DEF TypeInv
<1>11. /\ body' \in Seq(Byte) /\ Len(body') = next
       /\ \A i \in 1..Len(body) : body'[i] = body[i]
       /\ \A i \in 1..Len(bytes) : body'[Len(body) + i] = bytes[i]
  <2>1. body' = body \o bytes
    BY <1>3 DEF bytes
  <2>2. /\ body \o bytes \in Seq(Byte) /\ Len(body \o bytes) = Len(body) + Len(bytes)
        /\ \A i \in 1..(Len(body) + Len(bytes)) : (body \o bytes)[i] =
             IF i <= Len(body) THEN body[i] ELSE bytes[i - Len(body)]
    BY <1>1, <1>5, ConcatProperties DEF TypeInv, bytes
  <2>3. Len(bytes) \in Nat
    BY <1>5
  <2> HIDE DEF bytes
  <2> QED BY <1>1, <1>7, <2>1, <2>2, <2>3
<1>12. /\ \A j \in Nat : Kind(j)' = Kind(j)
       /\ \A j \in Nat : Needed(j)' = IF j = 0 THEN 0 ELSE needed'[j]
       /\ \A x : ValuesOf(x)' = ValuesOf(x)
       /\ Counts' /\ (IsList(type) <=> IsList(type')) /\ Total(Built[type], size)' = Total(Built[type], size)
  BY <1>1, <1>2 DEF Kind, Needed, ValuesOf, Counts
<1>13. /\ \A j \in 0..n : Needed(j)' = Needed(j)
       /\ Needed(k)' = next
  <2>1. \A j \in 0..n : Needed(j)' = Needed(j)
    BY <1>1, <1>10, <1>12 DEF Needed
  <2>2. Needed(k)' = next
    BY <1>1, <1>10, <1>12
  <2> QED BY <2>1, <2>2
<1>14. TypeInv'
  <2>1. messageLen' <= Len(body')
    BY <1>1, <1>2, <1>5, <1>7, <1>11 DEF TypeInv
  <2> QED BY <1>1, <1>2, <1>9, <1>10, <1>11, <1>12, <2>1 DEF TypeInv
<1>15. \A j \in Nat \ {0} : LaidOut(j)' <=>
         /\ written'[j] \in ValuesOf(Kind(j))
         /\ needed'[j] = Needed(j - 1)' + NeededBy(Kind(j), written'[j])
         /\ \A i \in 1..NeededBy(Kind(j), written'[j]) :
              body'[Needed(j - 1)' + i] = WriteField(Kind(j), written'[j])[i]
  <2> SUFFICES ASSUME NEW j \in Nat \ {0}
               PROVE  LaidOut(j)' <=>
                 /\ written'[j] \in ValuesOf(Kind(j))
                 /\ needed'[j] = Needed(j - 1)' + NeededBy(Kind(j), written'[j])
                 /\ \A i \in 1..NeededBy(Kind(j), written'[j]) :
                      body'[Needed(j - 1)' + i] = WriteField(Kind(j), written'[j])[i]
    OBVIOUS
  <2>1. Kind(j)' = Kind(j) /\ ValuesOf(Kind(j))' = ValuesOf(Kind(j)')
    BY <1>12
  <2> QED BY <2>1, Zenon DEF LaidOut
<1>16. \A j \in 1..k : LaidOut(j)'
  <2>1. ASSUME NEW j \in 1..n
        PROVE  LaidOut(j)'
    <3> DEFINE x == written[j]
               at == Needed(j - 1)
    <3>1. LaidOut(j)
      BY <1>0, <1>1 DEF Inv, WriteInv
    <3>2. written'[j] = x /\ needed'[j] = needed[j] /\ Needed(j - 1)' = at
      BY <1>9, <1>10, <1>13
    <3>3. /\ j \in Nat \ {0} /\ j \in 0..n /\ n \in 0..n /\ j - 1 \in 0..n
          /\ j <= n /\ Needed(j) = needed[j]
      BY <1>1 DEF Needed
    <3>4. at \in Nat /\ needed[j] \in Nat /\ needed[j] <= Len(body)
      BY <1>0, <1>1, <1>6, <3>3, NeededType DEF Inv, WriteInv
    <3>5. Kind(j) \in Kinds
      <4>1. ~IsList(type) => Total(Built[type], size) = Len(Built[type].fields)
        BY <1>1, Totals DEF Counts
      <4>2. Total(Built[type], size) \in Nat
        BY <1>1, Totals DEF Counts
      <4> QED BY <1>1, <1>2, <3>3, <4>1, <4>2, KindOf
    <3>6. NeededBy(Kind(j), x) \in Nat
      BY <1>1, <3>1, <3>5, Written DEF LaidOut
    <3>7. ASSUME NEW i \in 1..NeededBy(Kind(j), x)
          PROVE  body'[at + i] = WriteField(Kind(j), x)[i]
      <4>1. needed[j] = at + NeededBy(Kind(j), x)
        BY <3>1 DEF LaidOut
      <4>2. at + i \in 1..Len(body)
        BY <3>4, <3>6, <4>1, <1>1
      <4>3. body[at + i] = WriteField(Kind(j), x)[i]
        BY <3>1 DEF LaidOut
      <4> QED BY <1>11, <4>2, <4>3, Zenon
    <3> HIDE DEF x, at
    <3>8. /\ written'[j] \in ValuesOf(Kind(j))
          /\ needed'[j] = Needed(j - 1)' + NeededBy(Kind(j), written'[j])
      BY <3>1, <3>2 DEF LaidOut, x, at
    <3> QED BY <1>15, <3>2, <3>3, <3>7, <3>8, Zenon
  <2>2. LaidOut(k)'
    <3>1. k \in Nat \ {0} /\ Needed(k - 1)' = Len(body)
      BY <1>1, <1>6, <1>13
    <3>2. needed'[k] = Needed(k - 1)' + NeededBy(kind, v)
      BY <1>5, <1>7, <1>10, <3>1
    <3>3. \A i \in 1..NeededBy(kind, v) : body'[Len(body) + i] = WriteField(kind, v)[i]
      BY <1>5, <1>11 DEF bytes
    <3> QED BY <1>9, <1>15, <3>1, <3>2, <3>3, Zenon
  <2> QED BY <1>1, <2>1, <2>2
<1>17. WriteInv'
  <2>1. Len(written') <= Total(Built[type'], size')
    BY <1>2, <1>9
  <2>2. Len(body') = Needed(Len(written))'
    BY <1>9, <1>11, <1>13
  <2>3. \A j \in 1..Len(written') : LaidOut(j)'
    BY <1>9, <1>16
  <2>4. \A j \in 0..Len(written') : j <= Needed(j)'
    <3>1. \A j \in 0..n : j <= Needed(j)
      BY <1>0 DEF Inv, WriteInv
    <3>2. k <= next /\ n \in 0..n
      BY <1>1, <1>5, <1>6, <3>1 DEF next
    <3> QED BY <1>1, <1>9, <1>13, <3>1, <3>2
  <2>5. \A i, j \in 0..Len(written') : i <= j => Needed(i)' <= Needed(j)'
    <3>1. \A i, j \in 0..n : i <= j => Needed(i) <= Needed(j)
      BY <1>0 DEF Inv, WriteInv
    <3>2. \A i \in 0..n : Needed(i) \in Nat /\ Needed(i) <= next
      BY <1>1, <1>5, <1>6, <3>1, <1>0, NeededType DEF next
    <3> QED BY <1>1, <1>7, <1>9, <1>13, <3>1, <3>2
  <2> QED BY <2>1, <2>2, <2>3, <2>4, <2>5 DEF WriteInv
<1>18. HeaderInv'
  BY <1>1, <1>2 DEF HeaderInv
<1>19. ReadInv'
  <2>1. ToRead' = ToRead
    BY <1>2 DEF ToRead
  <2>2. Len(read') = 0 /\ Len(read) = 0 /\ Needed(0)' = 0
    BY <1>1, <1>2, <1>12
  <2>3. ~Parsed'
    BY <1>1, <1>2 DEF Parsed
  <2>4. Len(read') <= ToRead'
    BY <1>2, <2>1 DEF Inv, ReadInv
  <2> QED BY <1>1, <1>2, <2>2, <2>3, <2>4 DEF ReadInv
<1> QED BY <1>14, <1>17, <1>18, <1>19 DEF Inv

\* Nothing moves in the body once it is written.
LEMMA BodyUnchanged ==
  ASSUME TypeInv, WriteInv, UNCHANGED <<dataVars, writeVars>>
  PROVE  /\ WriteInv' /\ Counts'
         /\ \A k \in Nat : Kind(k)' = Kind(k) /\ Needed(k)' = Needed(k)
<1>1. /\ type' = type /\ size' = size /\ written' = written /\ needed' = needed
      /\ body' = body
  BY DEF dataVars, writeVars
<1>2. Counts' /\ \A k \in Nat : Kind(k)' = Kind(k) /\ Needed(k)' = Needed(k)
  BY <1>1 DEF TypeInv, Counts, Kind, Needed
<1>3. \A k \in Nat : LaidOut(k)' <=> LaidOut(k)
  BY <1>1 DEF LaidOut, ValuesOf, Kind, Needed
<1>4. WriteInv'
  BY <1>1, <1>2, <1>3 DEF WriteInv, TypeInv
<1> QED BY <1>2, <1>4

LEMMA BuildPacketPreserves == Inv /\ BuildPacket => Inv'
<1> SUFFICES ASSUME Inv, BuildPacket
             PROVE  Inv'
  OBVIOUS
<1>1. /\ state = "build" /\ state' = "parse" /\ messageLen' = Len(body) % W
      /\ Len(written) = Total(Built[type], size) /\ read = <<>> /\ cursor = 0
      /\ type' = type /\ size' = size /\ written' = written /\ needed' = needed
      /\ body' = body /\ cursor' = cursor /\ read' = read
  BY DEF BuildPacket, dataVars, writeVars, readVars, Inv, HeaderInv
<1>2. messageLen' \in Nat /\ messageLen' <= Len(body')
  <2>1. Len(body) \in Nat
    BY DEF Inv, TypeInv
  <2>2. \A m \in Nat : m % W \in Nat /\ m % W <= m
    BY Width
  <2> QED BY <1>1, <2>1, <2>2
<1>3. WriteInv' /\ Counts' /\ \A k \in Nat : Needed(k)' = Needed(k)
  BY BodyUnchanged DEF BuildPacket, Inv, dataVars, writeVars
<1>4. TypeInv'
  BY <1>1, <1>2, <1>3 DEF Inv, TypeInv
<1>5. HeaderInv'
  BY <1>1 DEF HeaderInv
<1>6. ReadInv'
  <2>1. ToRead' = ToRead
    BY <1>1 DEF ToRead
  <2>2. Len(read') = 0 /\ Needed(0)' = 0
    BY <1>1, <1>3 DEF Needed
  <2>3. ~Parsed' /\ Len(read') <= ToRead'
    BY <1>1, <2>1 DEF Parsed, Inv, ReadInv
  <2> QED BY <1>1, <2>2, <2>3 DEF ReadInv
<1> QED BY <1>3, <1>4, <1>5, <1>6 DEF Inv

\* A value that is in the message is read from where it was written: those before
\* it were in the message too, and were read to their ends.
LEMMA ReadValuePreserves == Inv /\ ReadValue => Inv'
<1> SUFFICES ASSUME Inv, ReadValue
             PROVE  Inv'
  OBVIOUS
<1>1. PICK n \in Nat : n = Len(read)
  BY DEF Inv, TypeInv
<1> DEFINE k == n + 1
           r == ReadField(Kind(k), cursor)
<1>2. /\ state = "parse" /\ n < ToRead /\ Counts /\ TypeInv /\ BodyOK
      /\ state' = state /\ type' = type /\ size' = size /\ written' = written
      /\ needed' = needed /\ body' = body /\ messageLen' = messageLen
  BY <1>1 DEF ReadValue, dataVars, writeVars, Inv, TypeInv, BodyOK
<1>3. read' = Append(read, r.value) /\ cursor' = r.next
  <2>1. Read[type] = Built[type]
    BY <1>2, SameLayout DEF Counts
  <2> QED BY <1>1, <2>1, Zenon DEF ReadValue, Kind
<1>4. Kind(k) \in Kinds
  <2>1. ~IsList(type) => n < Len(Built[type].fields)
    BY <1>2, ToReadIs, Totals DEF Counts
  <2>2. ~IsList(type) => k <= Len(Built[type].fields)
    BY <1>2, <2>1, Layouts DEF Counts
  <2> QED BY <1>2, <2>2, KindOf
<1>5. r.value \in Values /\ r.next \in Nat /\ (Kind(k) = "count" => r.value \in Nat)
  BY <1>2, <1>4, IsRead DEF BodyOK
<1> HIDE DEF r
<1>6. /\ read' \in Seq(Values) /\ Len(read') = n + 1
      /\ read'[k] = r.value /\ \A j \in 1..n : read'[j] = read[j]
  BY <1>1, <1>2, <1>3, <1>5, AppendProperties DEF TypeInv
<1>7. WriteInv' /\ Counts' /\ \A j \in Nat : Kind(j)' = Kind(j) /\ Needed(j)' = Needed(j)
  BY BodyUnchanged DEF ReadValue, Inv, dataVars, writeVars
<1>8. TypeInv'
  BY <1>2, <1>3, <1>5, <1>6, <1>7 DEF TypeInv
<1>9. HeaderInv'
  BY <1>2 DEF Inv, HeaderInv
<1>10. IsList(type) => read'[1] \in Nat
  <2>1. CASE n = 0
    BY <1>2, <1>5, <1>6, <2>1, FirstIsCount
  <2>2. CASE n # 0
    BY <1>1, <1>6, <2>2 DEF Inv, ReadInv
  <2> QED BY <2>1, <2>2
<1>11. Len(read') <= ToRead'
  <2>1. /\ ~IsList(type) => ToRead' = Total(Built[type], 0)
        /\ IsList(type) => ToRead' = Total(Built[type], read'[1])
    <3>1. read' # <<>>
      BY <1>1, <1>6
    <3>2. /\ ~IsList(type) => ToRead' = Len(Built[type].fields)
          /\ IsList(type) => ToRead' = Total(Built[type], read'[1])
      BY <1>2, <3>1, SameLayout DEF ToRead, IsList, Counts
    <3> QED BY <1>2, <3>2, Totals DEF Counts
  <2>2. CASE ~IsList(type)
    BY <1>2, <1>6, <2>1, <2>2, Totals, ToReadIs
  <2>3. CASE IsList(type) /\ n = 0
    BY <1>2, <1>6, <1>10, <2>1, <2>3, Totals
  <2>4. CASE IsList(type) /\ n # 0
    <3>1. ToRead = Total(Built[type], read[1]) /\ read'[1] = read[1]
      BY <1>1, <1>2, <1>6, <2>4, ToReadIs
    <3>2. ToRead' = ToRead
      BY <2>1, <2>4, <3>1
    <3>3. ToRead \in Nat
      <4>1. read[1] \in Nat
        BY <1>10, <2>4, <3>1
      <4> QED BY <1>2, <3>1, <4>1, Totals
    <3> QED BY <1>2, <1>6, <3>2, <3>3
  <2> QED BY <2>2, <2>3, <2>4
<1>12. ASSUME InMessage(k)
       PROVE  r.value = SentOf(Kind(k), written[k]) /\ r.next = Needed(k)
  <2>1. /\ Len(written) \in Nat /\ k \in 1..Len(written) /\ k - 1 = n /\ needed[k] = Needed(k)
        /\ LaidOut(k) /\ k \in 0..Len(written) /\ n \in 0..Len(written)
    BY <1>2, <1>12 DEF Inv, WriteInv, TypeInv, InMessage, Needed
  <2>2. Needed(n) \in Nat /\ Needed(k) \in Nat /\ Needed(n) <= Needed(k)
    BY <1>2, <2>1, NeededType DEF Inv, WriteInv
  <2>3. InMessage(n)
    BY <1>2, <1>12, <2>1, <2>2 DEF InMessage, TypeInv
  <2>4. cursor = Needed(n)
    BY <1>1, <2>3 DEF Inv, ReadInv
  <2>5. /\ written[k] \in ValuesOf(Kind(k))
        /\ cursor + NeededBy(Kind(k), written[k]) = Needed(k) /\ Needed(k) <= messageLen
        /\ \A i \in 1..NeededBy(Kind(k), written[k]) :
             body[cursor + i] = WriteField(Kind(k), written[k])[i]
    BY <1>12, <2>1, <2>4 DEF LaidOut, InMessage
  <2>6. r = Result(SentOf(Kind(k), written[k]), Needed(k))
    BY <1>2, <1>4, <2>2, <2>4, <2>5, ReadsBack DEF r
  <2> QED BY <2>6, Results, Zenon
<1>13. \A j \in Nat : InMessage(j)' <=> InMessage(j)
  BY <1>2, <1>7 DEF InMessage
<1>14. \A j \in 1..Len(read') : InMessage(j)' => read'[j] = SentOf(Kind(j)', written'[j])
  <2> SUFFICES ASSUME NEW j \in 1..k, InMessage(j)
               PROVE  read'[j] = SentOf(Kind(j), written[j])
    BY <1>2, <1>6, <1>7, <1>13
  <2>1. CASE j = k
    BY <1>6, <1>12, <2>1
  <2>2. CASE j # k
    <3>1. j \in 1..n
      BY <2>2
    <3> QED BY <1>1, <1>6, <3>1 DEF Inv, ReadInv
  <2> QED BY <2>1, <2>2
<1>15. InMessage(k)' => cursor' = Needed(k)'
  BY <1>3, <1>7, <1>12, <1>13
<1>16. ReadInv'
  <2>1. ~Parsed'
    BY <1>2 DEF Parsed
  <2>2. IsList(type') <=> IsList(type)
    BY <1>2
  <2> QED BY <1>6, <1>10, <1>11, <1>14, <1>15, <2>1, <2>2 DEF ReadInv
<1> QED BY <1>7, <1>8, <1>9, <1>16 DEF Inv

LEMMA EndParsePreserves == Inv /\ EndParse => Inv'
<1> SUFFICES ASSUME Inv, EndParse
             PROVE  Inv'
  OBVIOUS
<1>1. /\ state = "parse" /\ Len(read) = ToRead
      /\ state' = IF cursor = messageLen \/ type \in Empty THEN "accepted" ELSE "refused"
      /\ type' = type /\ size' = size /\ written' = written /\ needed' = needed
      /\ body' = body /\ messageLen' = messageLen /\ cursor' = cursor /\ read' = read
  BY DEF EndParse, dataVars, writeVars, readVars
<1>2. WriteInv' /\ Counts' /\ \A k \in Nat : Kind(k)' = Kind(k) /\ Needed(k)' = Needed(k)
  BY BodyUnchanged DEF EndParse, Inv, dataVars, writeVars
<1>3. TypeInv' /\ HeaderInv'
  BY <1>1, <1>2 DEF Inv, TypeInv, HeaderInv
<1>4. ReadInv'
  <2>1. ToRead' = ToRead /\ (IsList(type') <=> IsList(type))
    BY <1>1 DEF ToRead
  <2>2. \A j \in Nat : InMessage(j)' <=> InMessage(j)
    BY <1>1, <1>2 DEF InMessage
  <2>3. Len(read) \in Nat
    BY DEF Inv, TypeInv
  <2>4. cursor' = messageLen' => state' = "accepted"
    BY <1>1
  <2> QED BY <1>1, <1>2, <2>1, <2>2, <2>3, <2>4 DEF Inv, ReadInv
<1> QED BY <1>2, <1>3, <1>4 DEF Inv

LEMMA StutterPreserves == Inv /\ UNCHANGED vars => Inv'
<1> SUFFICES ASSUME Inv, UNCHANGED vars
             PROVE  Inv'
  OBVIOUS
<1>1. /\ state' = state /\ type' = type /\ size' = size /\ written' = written
      /\ needed' = needed /\ body' = body /\ messageLen' = messageLen
      /\ cursor' = cursor /\ read' = read
  BY DEF vars, dataVars, writeVars, readVars
<1>2. WriteInv' /\ Counts' /\ \A k \in Nat : Kind(k)' = Kind(k) /\ Needed(k)' = Needed(k)
  BY BodyUnchanged DEF vars, Inv
<1>3. TypeInv' /\ HeaderInv'
  BY <1>1, <1>2 DEF Inv, TypeInv, HeaderInv
<1>4. ReadInv'
  <2>1. ToRead' = ToRead /\ (IsList(type') <=> IsList(type)) /\ (Parsed' <=> Parsed)
    BY <1>1 DEF ToRead, Parsed
  <2>2. \A j \in Nat : InMessage(j)' <=> InMessage(j)
    BY <1>1, <1>2 DEF InMessage
  <2>3. Len(read) \in Nat
    BY DEF Inv, TypeInv
  <2> QED BY <1>1, <1>2, <2>1, <2>2, <2>3 DEF Inv, ReadInv
<1> QED BY <1>2, <1>3, <1>4 DEF Inv

LEMMA InvInvariant == Spec => []Inv
<1>1. Inv /\ [Next]_vars => Inv'
  BY WriteValuePreserves, BuildPacketPreserves, ReadValuePreserves, EndParsePreserves,
     StutterPreserves DEF Next
<1> QED BY InitInv, <1>1, PTL DEF Spec

\* A packet of any type whose body fits in the 16 bits of its header is accepted, and
\* read as it was written; a string longer than its own 16 bits is cut, and moves
\* nothing that follows.  For any width of a byte, strings and lists.
THEOREM CodecRoundTrip == Spec => []RoundTrip
BY InvInvariant, InvImpliesRoundTrip, PTL

\* Of a packet whose body does not fit, the values that lie wholly in the part that is
\* sent are read as they were written.
THEOREM CodecCutKeepsPrefix == Spec => []CutKeepsPrefix
BY InvInvariant, InvImpliesCutKeepsPrefix, PTL
==============================================================================
