---------------------------- MODULE StorageSafety ----------------------------
(***************************************************************************)
(* Theorems about Storage, for any number of requests of any kind and of   *)
(* failing statements: the failure of a second BEGIN keeps transactions    *)
(* apart, members are committed two by two, and what a request was         *)
(* answered is what is stored, unless its transaction was ended under it   *)
(* or it was mixed up with the transaction of another.                     *)
(***************************************************************************)
EXTENDS Storage, FiniteSetTheorems, TLAPS

\* Rowids are positive and the members can be counted.
Positive(d) == d.nextUser > 0 /\ d.nextChat > 0 /\ d.nextMessage > 0
Usable(d) == Positive(d) /\ IsFiniteSet(d.members) /\ \A id \in d.chats : id < d.nextChat
DataOK ==
  /\ Usable(db)
  /\ InTransaction =>
       /\ Usable(saved)
       /\ saved.chats \subseteq db.chats /\ saved.members \subseteq db.members
       /\ saved.messages \subseteq db.messages
  /\ \A r \in Requests : pc[r] = "rowid" => rowid > 0
  /\ \A r \in Requests : pc[r] \in {"member1", "member2"} => chatID[r] > 0

\* Each kind of request has its calls; only a transaction that was opened is lost.
ChatPlaces == InsidePlaces \cup {"peer", "find", "begin"}
OfKind(kind, x) ==
  \/ x = "done"
  \/ kind = "create" /\ x \in ChatPlaces
  \/ kind = "message" /\ x \in {"save", "members"}
  \/ kind = "list" /\ x = "list"
  \/ kind = "register" /\ x \in {"exists", "add"}
  \/ kind = "delete" /\ x \in {"erase", "changes"}
KindsOK ==
  /\ \A r \in Requests : OfKind(Kind[r], pc[r])
  /\ \A r \in lost : pc[r] \in InsidePlaces \cup {"done"} /\ r \in Creators

\* A request that has settled for a chat number keeps it.
Early == {"peer", "find", "begin", "insert", "rowid"}
Settled(r) == r \in Creators /\ pc[r] \notin Early
Writer(r, m) == Settled(r) /\ chatID[r] = m[1] /\ m[2] \in PairSet(r)
Whole(r, members) == \A u \in PairSet(r) : <<chatID[r], u>> \in members

\* Each stored member was written by a request that has committed both, or has lost
\* its transaction.
StoredOK ==
  \A m \in Stored.members :
    \E r \in Creators :
      /\ Writer(r, m)
      /\ r \in lost \/ (pc[r] = "done" /\ success[r] /\ Whole(r, Stored.members))

\* What the open transaction has added so far: the rows of its request, and those of
\* requests that have lost theirs.
Member(r, i) == <<chatID[r], Pair[r][i]>>
OwnerOK ==
  \A r \in Inside \ lost :
    /\ \A m \in db.members \ saved.members : Writer(r, m) \/ \E q \in lost : Writer(q, m)
    /\ pc[r] \in {"member2", "commit"} => Member(r, 1) \in db.members
    /\ pc[r] = "commit" => Member(r, 2) \in db.members
    /\ r \notin mixed =>
         /\ pc[r] = "rowid" => rowid \in db.chats \ saved.chats
         /\ pc[r] \in {"member1", "member2", "commit"} => chatID[r] \in db.chats \ saved.chats

\* What the requests that kept to themselves were told.
Shared(id) == \E q \in Creators \cap (lost \cup mixed) : Settled(q) /\ chatID[q] = id
Told(r) ==
  /\ r \in Creators /\ success[r] =>
       /\ chatID[r] \in Stored.chats /\ Whole(r, Stored.members)
       /\ \/ \A m \in Stored.members : m[1] = chatID[r] => m[2] \in PairSet(r)
          \/ Shared(chatID[r])
  /\ Kind[r] = "list" => rows[r] \subseteq Stored.chats
  /\ Kind[r] = "message" /\ success[r] => r \in Stored.messages
  /\ Kind[r] = "message" /\ pc[r] = "done" =>
       \A u \in rows[r] : u # Pair[r][1] /\ <<chatID[r], u>> \in Stored.members
AnswersOK ==
  /\ \A r \in Creators : success[r] => pc[r] = "done"
  /\ \A r \in Requests \ (lost \cup mixed) : Told(r)

Inv ==
  /\ TypeOK /\ DataOK /\ KindsOK /\ OneTransaction
  /\ StoredOK /\ OwnerOK /\ AnswersOK
----------------------------------------------------------------------------
LEMMA InitInv == Init => Inv
<1> SUFFICES ASSUME Init PROVE Inv
  OBVIOUS
<1>1. Cardinality(Users) \in Nat /\ Cardinality(Registered) \in Nat
  BY RequestsAssumption, FS_Subset, FS_CardinalityType
<1>2. db.nextUser \in Nat \ {0}
  BY <1>1 DEF Init
<1>3. db \in Database /\ saved \in Database
  BY <1>2, RequestsAssumption DEF Init, Database, NoTransaction
<1>4. \A r \in Requests : OfKind(Kind[r], pc[r]) /\ pc[r] \in Places \ InsidePlaces
  <2> SUFFICES ASSUME NEW r \in Requests
               PROVE  OfKind(Kind[r], pc[r]) /\ pc[r] \in Places \ InsidePlaces
    OBVIOUS
  <2>1. Kind[r] \in Kinds
    BY RequestsAssumption
  <2>2. pc[r] \in {FirstCall(Kind[r]), "done"}
    BY DEF Init
  <2> QED
    BY <2>1, <2>2 DEF FirstCall, Kinds, OfKind, ChatPlaces, Places, InsidePlaces
<1>5. pc \in [Requests -> Places]
  BY <1>4 DEF Init
<1>6. TypeOK
  BY <1>3, <1>5, RequestsAssumption DEF Init, TypeOK
<1>7. Inside = {} /\ ~InTransaction /\ Stored = db
  BY <1>4 DEF Init, Inside, InTransaction, Stored
<1>8. DataOK
  BY <1>2, <1>4, <1>7, FS_EmptySet DEF DataOK, Usable, Positive, Init, InsidePlaces
<1>9. KindsOK /\ OneTransaction /\ OwnerOK
  BY <1>4, <1>7 DEF KindsOK, OneTransaction, OwnerOK, Init
<1>10. StoredOK /\ AnswersOK
  <2>1. Stored.members = {} /\ \A r \in Requests : ~success[r] /\ rows[r] = {}
    BY <1>7 DEF Init
  <2> QED BY <2>1 DEF StoredOK, AnswersOK, Told, Creators
<1> QED BY <1>6, <1>8, <1>9, <1>10 DEF Inv
----------------------------------------------------------------------------
(* What a step does to its request and to the connection                   *)

Moves(r, x) ==
  /\ x \in Places /\ OfKind(Kind[r], x)
  /\ pc[r] # "done" /\ pc' = [pc EXCEPT ![r] = x]
  /\ chatID' \in [Requests -> (Nat \ {0}) \cup {-1}]
  /\ success' \in [Requests -> BOOLEAN] /\ rows' \in [Requests -> SUBSET (Users \cup Nat)]
  /\ \A q \in Requests \ {r} :
       chatID'[q] = chatID[q] /\ success'[q] = success[q] /\ rows'[q] = rows[q]
  /\ Settled(r) => chatID'[r] = chatID[r] /\ x \notin Early
  /\ pc[r] \in InsidePlaces => x \in InsidePlaces \cup {"done"}
  /\ r \in Creators /\ success'[r] => x = "done"
  /\ x \in {"member1", "member2"} => chatID'[r] > 0

Connection(r, x) ==
  /\ lost \subseteq lost' /\ mixed \subseteq mixed' /\ mixed' \subseteq Requests
  /\ rowid' \in Nat /\ changes' \in {0, 1} /\ failures' \in 0..MaxFailures
  /\ rowid' = rowid \/ rowid' > 0
  /\ x = "rowid" => rowid' > 0
  /\ \A q \in Requests \ {r} : pc[q] = "rowid" /\ rowid' # rowid => q \in mixed'

LEMMA Places_ ==
  ASSUME Inv, NEW r \in Requests, NEW x, Moves(r, x)
  PROVE  /\ \A q \in Requests : pc'[q] = IF q = r THEN x ELSE pc[q]
         /\ pc' \in [Requests -> Places]
BY DEF Moves, Inv, TypeOK

LEMMA SettledStays ==
  ASSUME Inv, NEW r \in Requests, NEW x, Moves(r, x)
  PROVE  /\ \A q \in Requests : Settled(q) => Settled(q)' /\ chatID'[q] = chatID[q]
         /\ \A q \in Requests : \A m : Writer(q, m) => Writer(q, m)'
<1>1. \A q \in Requests : Settled(q) => Settled(q)' /\ chatID'[q] = chatID[q]
  BY Places_ DEF Moves, Settled, Creators
<1> QED BY <1>1 DEF Writer, PairSet

LEMMA KindsStay ==
  ASSUME Inv, NEW r \in Requests, NEW x, Moves(r, x), lost' \subseteq lost \cup Inside
  PROVE  KindsOK'
<1>1. \A q \in Requests : OfKind(Kind[q], pc'[q])
  BY Places_ DEF Moves, Inv, KindsOK
<1>2. ASSUME NEW q \in lost' PROVE pc'[q] \in InsidePlaces \cup {"done"} /\ q \in Creators
  <2>1. q \in Requests /\ pc[q] \in InsidePlaces \cup {"done"} /\ q \in Creators
    BY <1>2 DEF Inv, KindsOK, TypeOK, Inside, OfKind, Creators, InsidePlaces
  <2> QED BY <2>1, Places_ DEF Moves
<1> QED BY <1>1, <1>2 DEF KindsOK, Creators

LEMMA SharedStays ==
  ASSUME Inv, NEW r \in Requests, NEW x, Moves(r, x),
         lost \subseteq lost', mixed \subseteq mixed', NEW id, Shared(id)
  PROVE  Shared(id)'
<1>1. PICK q \in Creators \cap (lost \cup mixed) : Settled(q) /\ chatID[q] = id
  BY DEF Shared
<1>2. Settled(q)' /\ chatID'[q] = id
  BY <1>1, SettledStays DEF Creators
<1> QED BY <1>1, <1>2 DEF Shared, Creators
----------------------------------------------------------------------------
(* What is stored only grows                                               *)

\* The members that a step adds to what is stored: each has its writer, and none
\* comes to a chat that a request which kept to itself was told.
NewMember(m) == m \in Stored'.members /\ m \notin Stored.members

LEMMA StoredStays ==
  ASSUME Inv, NEW r \in Requests, NEW x, Moves(r, x),
         lost \subseteq lost', Stored.members \subseteq Stored'.members,
         \A m : NewMember(m) =>
           \E q \in Creators :
             /\ Writer(q, m)'
             /\ q \in lost' \/ (pc'[q] = "done" /\ success'[q] /\ Whole(q, Stored.members)')
  PROVE  StoredOK'
<1> SUFFICES ASSUME NEW m \in Stored'.members
             PROVE  \E q \in Creators :
                      /\ Writer(q, m)'
                      /\ \/ q \in lost'
                         \/ pc'[q] = "done" /\ success'[q] /\ Whole(q, Stored.members)'
  BY DEF StoredOK, Creators
<1>1. CASE m \in Stored.members
  <2>1. PICK q \in Creators :
          /\ Writer(q, m)
          /\ q \in lost \/ (pc[q] = "done" /\ success[q] /\ Whole(q, Stored.members))
    BY <1>1 DEF Inv, StoredOK
  <2>2. q \in Requests /\ Writer(q, m)' /\ Settled(q) /\ chatID'[q] = chatID[q]
    BY <2>1, SettledStays DEF Writer, Creators
  <2>3. pc[q] = "done" => q # r /\ pc'[q] = "done" /\ success'[q] = success[q]
    BY <2>2, Places_ DEF Moves
  <2>4. Whole(q, Stored.members) => Whole(q, Stored.members)'
    BY <2>2 DEF Whole, PairSet
  <2> QED BY <2>1, <2>2, <2>3, <2>4
<1>2. CASE m \notin Stored.members
  BY <1>2 DEF NewMember
<1> QED BY <1>1, <1>2

LEMMA ToldStays ==
  ASSUME Inv, NEW r \in Requests, NEW x, Moves(r, x),
         lost \subseteq lost', mixed \subseteq mixed',
         Stored.members \subseteq Stored'.members, Stored.chats \subseteq Stored'.chats,
         Stored.messages \subseteq Stored'.messages,
         \A m : NewMember(m) =>
           \/ Shared(m[1])'
           \/ \A q \in Creators \ (lost' \cup mixed') :
                q # r /\ success[q] => chatID[q] # m[1],
         r \notin lost' \cup mixed' => Told(r)'
  PROVE  AnswersOK'
<1>1. \A q \in Creators : success'[q] => pc'[q] = "done"
  BY Places_ DEF Inv, AnswersOK, Moves, Creators
<1>2. ASSUME NEW q \in Requests \ (lost' \cup mixed'), q # r
      PROVE  Told(q)'
  <2>1. /\ Told(q) /\ chatID'[q] = chatID[q] /\ success'[q] = success[q] /\ rows'[q] = rows[q]
        /\ pc'[q] = pc[q]
    BY <1>2, Places_ DEF Inv, AnswersOK, Moves
  <2>2. ASSUME q \in Creators, success[q]
        PROVE  /\ chatID'[q] \in Stored'.chats /\ Whole(q, Stored.members)'
               /\ \/ \A m \in Stored'.members : m[1] = chatID'[q] => m[2] \in PairSet(q)
                  \/ Shared(chatID[q])'
    <3>1. chatID[q] \in Stored.chats /\ Whole(q, Stored.members)
      BY <2>1, <2>2 DEF Told
    <3>2. CASE Shared(chatID[q])
      BY <2>1, <3>1, <3>2, SharedStays DEF Whole, PairSet
    <3>3. CASE \A m \in Stored.members : m[1] = chatID[q] => m[2] \in PairSet(q)
      <4>1. ASSUME NEW m \in Stored'.members, m[1] = chatID[q], m[2] \notin PairSet(q)
            PROVE  Shared(chatID[q])'
        <5>1. Shared(m[1])'
          BY <1>2, <2>2, <3>3, <4>1 DEF NewMember
        <5>2. m[1] = chatID'[q]
          BY <2>1, <4>1
        <5> QED BY <5>1, <5>2 DEF Shared
      <4> QED BY <2>1, <3>1, <4>1 DEF Whole, PairSet
    <3> QED BY <2>1, <2>2, <3>2, <3>3 DEF Told
  <2>3. q \in Creators' <=> q \in Creators
    BY DEF Creators
  <2> QED BY <2>1, <2>2, <2>3 DEF Told, PairSet
<1> QED BY <1>1, <1>2 DEF AnswersOK, Creators

\* Most steps store nothing new.
LEMMA StoredSame ==
  ASSUME Inv, NEW r \in Requests, NEW x, Moves(r, x),
         lost \subseteq lost', mixed \subseteq mixed', Stored' = Stored,
         r \notin lost' \cup mixed' => Told(r)'
  PROVE  StoredOK' /\ AnswersOK'
<1>1. \A m : ~NewMember(m)
  BY DEF NewMember
<1> QED BY <1>1, StoredStays, ToldStays
----------------------------------------------------------------------------
(* Steps that change nothing in the database, or take the transaction back *)

LEMMA TypesStay ==
  ASSUME Inv, NEW r \in Requests, NEW x, Moves(r, x), Connection(r, x),
         db' \in Database, saved' \in Database, lost' \subseteq Requests
  PROVE  TypeOK'
<1>1. pc' \in [Requests -> Places]
  BY Places_
<1> QED BY <1>1 DEF TypeOK, Moves, Connection

LEMMA RowidStays ==
  ASSUME Inv, NEW r \in Requests, NEW x, Moves(r, x), Connection(r, x)
  PROVE  /\ \A q \in Requests : pc'[q] = "rowid" => rowid' > 0
         /\ \A q \in Requests : pc'[q] \in {"member1", "member2"} => chatID'[q] > 0
BY Places_ DEF Connection, Moves, Inv, DataOK

LEMMA UnchangedStep ==
  ASSUME Inv, NEW r \in Requests, NEW x, Moves(r, x), Connection(r, x),
         UNCHANGED <<db, saved, lost>>, failures' \in {failures, failures + 1},
         x \notin {"insert", "rowid", "member2", "commit"},
         x = "member1" => pc[r] = "rowid" /\ chatID'[r] = rowid,
         x \in InsidePlaces => pc[r] \in InsidePlaces,
         x = "done" /\ pc[r] \in InsidePlaces => r \in lost,
         r \notin lost' \cup mixed' => Told(r)'
  PROVE  Inv'
<1>1. Stored' = Stored /\ InTransaction' = InTransaction
  BY DEF Stored, InTransaction
<1>2. TypeOK' /\ KindsOK' /\ StoredOK' /\ AnswersOK'
  BY <1>1, TypesStay, KindsStay, StoredSame DEF Connection, Inv, TypeOK
<1>3. DataOK'
  BY <1>1, RowidStays DEF Inv, DataOK, Usable, Positive
<1>4. Inside' \ lost' = Inside \ lost
  BY Places_ DEF Inside, InsidePlaces, Moves
<1>5. OneTransaction'
  BY <1>1, <1>4 DEF Inv, OneTransaction, TypeOK
<1>6. OwnerOK'
  <2> SUFFICES ASSUME NEW q \in Inside \ lost
               PROVE  /\ \A m \in db.members \ saved.members :
                           Writer(q, m)' \/ \E o \in lost : Writer(o, m)'
                      /\ pc'[q] \in {"member2", "commit"} => Member(q, 1)' \in db.members
                      /\ pc'[q] = "commit" => Member(q, 2)' \in db.members
                      /\ q \notin mixed' =>
                           /\ pc'[q] = "rowid" => rowid' \in db.chats \ saved.chats
                           /\ pc'[q] \in {"member1", "member2", "commit"} =>
                                chatID'[q] \in db.chats \ saved.chats
    BY <1>4 DEF OwnerOK
  <2>1. q \in Requests /\ lost \subseteq Requests /\ mixed \subseteq mixed'
    BY DEF Inside, Inv, TypeOK, Connection
  <2>2. \A m \in db.members \ saved.members : Writer(q, m) \/ \E o \in lost : Writer(o, m)
    BY DEF Inv, OwnerOK
  <2>3. \A m \in db.members \ saved.members : Writer(q, m)' \/ \E o \in lost : Writer(o, m)'
    BY <2>1, <2>2, SettledStays
  <2>4. CASE q # r
    <3>1. pc'[q] = pc[q] /\ chatID'[q] = chatID[q]
      BY <2>1, <2>4, Places_ DEF Moves
    <3>2. Member(q, 1)' = Member(q, 1) /\ Member(q, 2)' = Member(q, 2)
      BY <3>1 DEF Member
    <3>3. pc[q] = "rowid" /\ q \notin mixed' => rowid' = rowid
      BY <2>1, <2>4 DEF Connection
    <3> QED BY <2>1, <2>3, <3>1, <3>2, <3>3 DEF Inv, OwnerOK
  <2>5. CASE q = r
    <3>1. pc'[q] = x
      BY <2>5, Places_
    <3>2. x = "member1" /\ q \notin mixed' => chatID'[q] \in db.chats \ saved.chats
      BY <2>1, <2>5 DEF Inv, OwnerOK
    <3> QED BY <2>3, <3>1, <3>2
  <2> QED BY <2>4, <2>5
<1> QED BY <1>2, <1>3, <1>5, <1>6 DEF Inv

LEMMA RolledBackStep ==
  ASSUME Inv, NEW r \in Requests, NEW x, Moves(r, x), Connection(r, x),
         RolledBack, failures' > failures,
         x \in InsidePlaces => pc[r] \in InsidePlaces,
         r \notin lost' \cup mixed' => Told(r)'
  PROVE  Inv'
<1>1. Stored' = Stored /\ InTransaction /\ ~InTransaction'
  BY DEF Stored, InTransaction, RolledBack
<1>2. db' \in Database /\ saved' \in Database /\ lost' \subseteq Requests /\ Usable(saved)
  BY <1>1 DEF RolledBack, Inv, TypeOK, Database, NoTransaction, Inside, DataOK
<1>3. TypeOK' /\ KindsOK' /\ StoredOK' /\ AnswersOK'
  BY <1>1, <1>2, TypesStay, KindsStay, StoredSame DEF Connection, RolledBack
<1>4. DataOK'
  BY <1>1, <1>2, RowidStays DEF DataOK, RolledBack, Usable, Positive
<1>5. Inside' \ lost' = {}
  BY Places_ DEF Inside, RolledBack
<1>6. OneTransaction' /\ OwnerOK'
  BY <1>1, <1>5 DEF OneTransaction, OwnerOK, Inv, TypeOK
<1> QED BY <1>3, <1>4, <1>6 DEF Inv

LEMMA QuietStep ==
  ASSUME Inv, NEW r \in Requests, NEW x, Moves(r, x), Connection(r, x),
         UNCHANGED <<db, saved, failures, lost>> \/ Failure,
         x \notin {"insert", "rowid", "member1", "member2", "commit"},
         x \in InsidePlaces => pc[r] \in InsidePlaces,
         x = "done" /\ pc[r] \in InsidePlaces => r \in lost,
         r \notin lost' \cup mixed' => Told(r)'
  PROVE  Inv'
<1>1. CASE UNCHANGED <<db, saved, lost>> /\ failures' \in {failures, failures + 1}
  BY <1>1, UnchangedStep
<1>2. CASE RolledBack /\ failures' > failures
  BY <1>2, RolledBackStep
<1>3. failures + 1 > failures
  BY DEF Inv, TypeOK
<1> QED BY <1>1, <1>2, <1>3 DEF Failure
----------------------------------------------------------------------------
(* Statements that write                                                   *)

\* A statement that writes: outside a transaction it is stored, inside of one it is
\* held back; its request then owns the transaction, or has lost its own, or is of
\* another kind and counts as mixed.
AddsMember(r) ==
  /\ Settled(r) /\ r \in Inside
  /\ \E u \in PairSet(r) : db'.members = db.members \cup {<<chatID[r], u>>}

LEMMA WriteStep ==
  ASSUME Inv, NEW r \in Requests, NEW x, Moves(r, x), Connection(r, x),
         UNCHANGED <<saved, failures, lost>>,
         db' \in Database, Usable(db'), db.chats \subseteq db'.chats,
         db.messages \subseteq db'.messages,
         db'.members = db.members \/ AddsMember(r),
         x \in InsidePlaces <=> pc[r] \in InsidePlaces,
         x \notin {"insert", "member1"},
         x = "rowid" => rowid' \in db'.chats \ db.chats,
         x \in {"member2", "commit"} => chatID'[r] = chatID[r],
         x = "member2" => pc[r] = "member1" /\ Member(r, 1) \in db'.members,
         x = "commit" => pc[r] = "member2" /\ Member(r, 2) \in db'.members,
         r \notin lost' \cup mixed' => Told(r)'
  PROVE  Inv'
<1>1. InTransaction' = InTransaction /\ db.members \subseteq db'.members
  BY DEF InTransaction, AddsMember
<1>2. TypeOK' /\ KindsOK'
  BY TypesStay, KindsStay DEF Inv, TypeOK
<1>3. DataOK'
  BY <1>1, RowidStays DEF Inv, DataOK, Usable, Positive
<1>4. Inside' = Inside
  BY Places_ DEF Inside
<1>5. OneTransaction'
  BY <1>1, <1>4 DEF Inv, OneTransaction
<1>6. StoredOK' /\ AnswersOK'
  <2>1. CASE InTransaction
    <3>1. Stored' = Stored
      BY <1>1, <2>1 DEF Stored
    <3> QED BY <3>1, StoredSame DEF Connection
  <2>2. CASE ~InTransaction
    <3>1. Stored = db /\ Stored' = db'
      BY <1>1, <2>2 DEF Stored
    <3>2. ASSUME NEW m, NewMember(m) PROVE Writer(r, m)' /\ r \in lost'
      <4>1. Settled(r) /\ r \in Inside /\ \E u \in PairSet(r) : m = <<chatID[r], u>>
        BY <3>1, <3>2 DEF NewMember, AddsMember
      <4>2. r \in lost'
        BY <2>2, <4>1 DEF Inv, OneTransaction
      <4> QED BY <4>1, <4>2, SettledStays DEF Writer
    <3>3. \A m : NewMember(m) => Shared(m[1])'
      BY <3>2 DEF Shared, Writer, Settled
    <3>4. r \in Creators \/ \A m : ~NewMember(m)
      BY <3>2 DEF Writer, Settled
    <3>5. StoredOK'
      BY <1>1, <3>1, <3>2, <3>4, StoredStays
    <3>6. AnswersOK'
      BY <1>1, <3>1, <3>3, ToldStays DEF Connection
    <3> QED BY <3>5, <3>6
  <2> QED BY <2>1, <2>2
<1>7. OwnerOK'
  <2> SUFFICES ASSUME NEW q \in Inside \ lost
               PROVE  /\ \A m \in db'.members \ saved.members :
                           Writer(q, m)' \/ \E o \in lost : Writer(o, m)'
                      /\ pc'[q] \in {"member2", "commit"} => Member(q, 1)' \in db'.members
                      /\ pc'[q] = "commit" => Member(q, 2)' \in db'.members
                      /\ q \notin mixed' =>
                           /\ pc'[q] = "rowid" => rowid' \in db'.chats \ saved.chats
                           /\ pc'[q] \in {"member1", "member2", "commit"} =>
                                chatID'[q] \in db'.chats \ saved.chats
    BY <1>4 DEF OwnerOK
  <2>1. q \in Requests /\ lost \subseteq Requests /\ mixed \subseteq mixed'
    BY DEF Inside, Inv, TypeOK, Connection
  <2>2. InTransaction /\ saved.chats \subseteq db.chats
    BY DEF Inv, OneTransaction, DataOK
  <2>3. ASSUME NEW m \in db'.members \ saved.members
        PROVE  Writer(q, m)' \/ \E o \in lost : Writer(o, m)'
    <3>1. CASE m \in db.members
      <4>1. Writer(q, m) \/ \E o \in lost : Writer(o, m)
        BY <2>3, <3>1 DEF Inv, OwnerOK
      <4> QED BY <2>1, <4>1, SettledStays
    <3>2. CASE m \notin db.members
      <4>1. Writer(r, m)' /\ r \in Inside
        BY <2>3, <3>2, SettledStays DEF AddsMember, Writer, PairSet
      <4>2. r = q \/ r \in lost
        BY <4>1 DEF Inv, OneTransaction
      <4> QED BY <4>1, <4>2
    <3> QED BY <3>1, <3>2
  <2>4. CASE q # r
    <3>1. pc'[q] = pc[q] /\ chatID'[q] = chatID[q]
      BY <2>1, <2>4, Places_ DEF Moves
    <3>2. Member(q, 1)' = Member(q, 1) /\ Member(q, 2)' = Member(q, 2)
      BY <3>1 DEF Member
    <3>3. pc[q] = "rowid" /\ q \notin mixed' => rowid' = rowid
      BY <2>1, <2>4 DEF Connection
    <3> QED BY <1>1, <2>1, <2>3, <3>1, <3>2, <3>3 DEF Inv, OwnerOK
  <2>5. CASE q = r
    <3>1. pc'[q] = x
      BY <2>5, Places_
    <3>2. x = "rowid" => rowid' \in db'.chats \ saved.chats
      BY <2>2
    <3>3. x \in {"member2", "commit"} => Member(q, 1)' = Member(q, 1) /\ Member(q, 2)' = Member(q, 2)
      BY <2>5 DEF Member
    <3>4. x \in {"member2", "commit"} => Member(q, 1)' \in db'.members
      BY <1>1, <2>5, <3>3 DEF Inv, OwnerOK
    <3>5. x = "commit" => Member(q, 2)' \in db'.members
      BY <2>5, <3>3
    <3>6. x \in {"member2", "commit"} /\ q \notin mixed' => chatID'[q] \in db'.chats \ saved.chats
      BY <2>1, <2>5 DEF Inv, OwnerOK
    <3> QED BY <2>3, <3>1, <3>2, <3>4, <3>5, <3>6
  <2> QED BY <2>4, <2>5
<1> QED BY <1>2, <1>3, <1>5, <1>6, <1>7 DEF Inv
----------------------------------------------------------------------------
(* The steps of findOrCreateDirectChat                                     *)

LEMMA Refusal ==
  ASSUME NEW r \in Requests,
         (r \in Creators /\ ~success'[r]) \/ Kind[r] \in {"register", "delete"}
  PROVE  Told(r)'
BY DEF Told, Creators

\* A step that ends a request, or moves it on, and leaves its other variables alone.
LEMMA MovesOn ==
  ASSUME Inv, NEW r \in Requests, NEW x \in Places, OfKind(Kind[r], x),
         pc[r] # "done", GoTo(r, x), UNCHANGED <<chatID, rows>>,
         success' = success \/ (\E ok \in BOOLEAN : success' = [success EXCEPT ![r] = ok] /\ (ok => x = "done")),
         Settled(r) => x \notin Early,
         pc[r] \in InsidePlaces => x \in InsidePlaces \cup {"done"},
         x \in {"member1", "member2"} => chatID[r] > 0
  PROVE  Moves(r, x)
<1>1. success' \in [Requests -> BOOLEAN] /\ \A q \in Requests \ {r} : success'[q] = success[q]
  BY DEF Inv, TypeOK
<1>2. r \in Creators => ~success[r]
  BY DEF Inv, AnswersOK
<1>3. r \in Creators /\ success'[r] => x = "done"
  BY <1>2 DEF Inv, TypeOK
<1> QED BY <1>1, <1>3 DEF Moves, GoTo, Inv, TypeOK

LEMMA SameConnection ==
  ASSUME Inv, NEW r, NEW x, x # "rowid", UNCHANGED <<rowid, changes>>,
         failures' = failures \/ Failure, lost \subseteq lost',
         mixed \subseteq mixed', mixed' \subseteq Requests
  PROVE  Connection(r, x)
<1>1. failures' \in 0..MaxFailures
  BY RequestsAssumption DEF Inv, TypeOK, Failure
<1> QED BY <1>1 DEF Connection, Inv, TypeOK

LEMMA FailureLoses == Failure => lost \subseteq lost'
BY DEF Failure, RolledBack

LEMMA LookUpPeerKeeps ==
  ASSUME Inv, NEW r \in Requests, LookUpPeer(r)
  PROVE  Inv'
<1>1. /\ pc[r] = "peer" /\ UNCHANGED <<rowid, changes, chatID, rows, mixed>>
      /\ UNCHANGED <<db, saved, failures, lost>> \/ Failure
  BY DEF LookUpPeer, connVars, ReadFails, At
<1>2. PICK x \in {"find", "done"} :
        /\ GoTo(r, x)
        /\ success' = success \/ success' = [success EXCEPT ![r] = FALSE]
  BY DEF LookUpPeer, Answer
<1>3. r \in Creators /\ OfKind(Kind[r], x) /\ x \in Places \ InsidePlaces
  BY <1>1 DEF Inv, KindsOK, OfKind, Creators, Places, InsidePlaces, ChatPlaces
<1>4. Moves(r, x)
  BY <1>1, <1>2, <1>3, MovesOn DEF Settled, Early, InsidePlaces
<1>5. Connection(r, x)
  BY <1>1, SameConnection, FailureLoses DEF Inv, TypeOK
<1>6. ~success'[r]
  BY <1>1, <1>2, <1>3 DEF Inv, TypeOK, AnswersOK
<1> QED BY <1>1, <1>3, <1>4, <1>5, <1>6, Refusal, QuietStep DEF InsidePlaces

\* A chat that Find returns is stored as it was read, unless the request is mixed.
LEMMA FoundIsStored ==
  ASSUME Inv, NEW r \in Requests, NEW id \in db.chats,
         Members(id) = PairSet(r), ~Uncommitted({id})
  PROVE  /\ id \in Stored.chats
         /\ \A u \in PairSet(r) : <<id, u>> \in Stored.members
         /\ \A m \in Stored.members : m[1] = id => m[2] \in PairSet(r)
<1>1. id \in Stored.chats /\ MembersIn(Stored, id) = PairSet(r)
  BY DEF Uncommitted, Stored, Members
<1>2. Stored.members \subseteq (Nat \ {0}) \X Users
  BY DEF Inv, TypeOK, Database, Stored
<1>3. \A m \in Stored.members : m = <<m[1], m[2]>>
  BY <1>2
<1>4. ASSUME NEW u \in PairSet(r) PROVE <<id, u>> \in Stored.members
  <2>1. PICK m \in Stored.members : m[1] = id /\ m[2] = u
    BY <1>1 DEF MembersIn
  <2> QED BY <1>3, <2>1
<1>5. ASSUME NEW m \in Stored.members, m[1] = id PROVE m[2] \in PairSet(r)
  BY <1>1, <1>5 DEF MembersIn
<1> QED BY <1>1, <1>4, <1>5

LEMMA FindKeeps ==
  ASSUME Inv, NEW r \in Requests, Find(r)
  PROVE  Inv'
<1>1. pc[r] = "find" /\ r \in Creators /\ UNCHANGED rows /\ ~success[r]
  BY DEF Find, At, Inv, KindsOK, OfKind, Creators, AnswersOK
<1>2. \A x \in {"begin", "done"} : OfKind(Kind[r], x) /\ x \in Places \ InsidePlaces
  BY <1>1 DEF OfKind, Creators, Places, InsidePlaces, ChatPlaces
<1>3. ASSUME NEW id \in db.chats, Members(id) = PairSet(r), UNCHANGED connVars,
             chatID' = [chatID EXCEPT ![r] = id], Answer(r, TRUE), ReadsChats(r, {id})
      PROVE  Inv'
  <2>1. Moves(r, "done")
    <3>1. /\ chatID' \in [Requests -> (Nat \ {0}) \cup {-1}]
          /\ \A q \in Requests \ {r} : chatID'[q] = chatID[q]
      BY <1>3 DEF Inv, TypeOK, Database
    <3>2. success' \in [Requests -> BOOLEAN] /\ \A q \in Requests \ {r} : success'[q] = success[q]
      BY <1>3 DEF Inv, TypeOK, Answer
    <3> QED BY <1>1, <1>2, <1>3, <3>1, <3>2
         DEF Moves, Answer, GoTo, Settled, Early, Inv, TypeOK
  <2>2. mixed \subseteq mixed' /\ mixed' \subseteq Requests
    BY <1>3 DEF ReadsChats, Inv, TypeOK
  <2>3. Connection(r, "done")
    BY <1>3, <2>2, SameConnection DEF connVars
  <2>4. ASSUME r \notin mixed' PROVE Told(r)'
    <3>1. ~Uncommitted({id})
      BY <1>3, <2>4 DEF ReadsChats
    <3>2. Stored' = Stored /\ chatID'[r] = id
      BY <1>3 DEF Stored, InTransaction, connVars, Inv, TypeOK
    <3> QED BY <1>1, <1>3, <3>1, <3>2, FoundIsStored DEF Told, Whole, Creators, PairSet
  <2> QED BY <1>1, <1>3, <2>1, <2>3, <2>4, QuietStep DEF connVars, InsidePlaces
<1>4. ASSUME NEW x \in {"begin", "done"}, GoTo(r, x), UNCHANGED <<rowid, changes, chatID, mixed>>,
             success' = success \/ success' = [success EXCEPT ![r] = FALSE],
             UNCHANGED <<db, saved, failures, lost>> \/ Failure
      PROVE  Inv'
  <2>1. Moves(r, x)
    BY <1>1, <1>2, <1>4, MovesOn DEF Settled, Early, InsidePlaces
  <2>2. Connection(r, x)
    BY <1>4, SameConnection, FailureLoses DEF Inv, TypeOK
  <2>3. ~success'[r]
    BY <1>1, <1>4 DEF Inv, TypeOK
  <2> QED BY <1>1, <1>2, <1>4, <2>1, <2>2, <2>3, Refusal, QuietStep DEF InsidePlaces
<1>5. CASE GoTo(r, "begin") /\ UNCHANGED <<connVars, chatID, success, mixed>>
  BY <1>4, <1>5 DEF connVars
<1>6. CASE ReadFails /\ UNCHANGED <<chatID, mixed>> /\ (Answer(r, FALSE) \/ (GoTo(r, "begin") /\ UNCHANGED success))
  BY <1>4, <1>6 DEF ReadFails, Answer
<1> QED BY <1>3, <1>5, <1>6 DEF Find
----------------------------------------------------------------------------
LEMMA BeginKeeps ==
  ASSUME Inv, NEW r \in Requests, Begin(r)
  PROVE  Inv'
<1>1. /\ pc[r] = "begin" /\ r \in Creators /\ ~success[r]
      /\ UNCHANGED <<db, rowid, changes, chatID, rows, lost, mixed>>
  BY DEF Begin, At, Inv, KindsOK, OfKind, Creators, AnswersOK, InsidePlaces
<1>2. \A x \in {"insert", "done"} : OfKind(Kind[r], x) /\ x \in Places
  BY <1>1 DEF OfKind, Creators, Places, InsidePlaces, ChatPlaces
<1>3. ASSUME NEW x \in {"insert", "done"}, GoTo(r, x),
             success' = success \/ success' = [success EXCEPT ![r] = FALSE]
      PROVE  Moves(r, x) /\ Told(r)'
  <2>1. ~success'[r]
    BY <1>1, <1>3 DEF Inv, TypeOK
  <2> QED BY <1>1, <1>2, <1>3, <2>1, MovesOn, Refusal DEF Settled, Early, InsidePlaces
<1>4. CASE ~InTransaction /\ saved' = db /\ UNCHANGED <<failures, success>> /\ GoTo(r, "insert")
  <2>1. Moves(r, "insert") /\ Told(r)' /\ Connection(r, "insert")
    BY <1>1, <1>3, <1>4, SameConnection DEF Inv, TypeOK
  <2>2. InTransaction' /\ Stored' = Stored
    BY <1>1, <1>4 DEF InTransaction, Stored, NoTransaction, Inv, DataOK, Usable, Positive
  <2>3. TypeOK' /\ KindsOK' /\ StoredOK' /\ AnswersOK'
    BY <1>1, <1>4, <2>1, <2>2, TypesStay, KindsStay, StoredSame DEF Inv, TypeOK
  <2>4. DataOK'
    BY <1>1, <1>4, <2>1, <2>2, RowidStays DEF Inv, DataOK, Usable, Positive
  <2>5. Inside \ lost = {} /\ r \notin lost
    BY <1>1, <1>4 DEF Inv, OneTransaction, KindsOK, InsidePlaces
  <2>6. Inside' \ lost' = {r}
    BY <1>1, <2>1, <2>5, Places_ DEF Inside, InsidePlaces
  <2>7. OneTransaction'
    BY <1>1, <1>4, <2>2, <2>6 DEF OneTransaction, Inv
  <2>8. pc'[r] = "insert"
    BY <2>1, Places_
  <2>9. OwnerOK'
    BY <1>1, <1>4, <2>6, <2>8 DEF OwnerOK
  <2> QED BY <2>3, <2>4, <2>7, <2>9 DEF Inv
<1>5. CASE /\ Answer(r, FALSE) /\ UNCHANGED saved
           /\ failures' = failures \/ (failures < MaxFailures /\ failures' = failures + 1)
  <2>1. Moves(r, "done") /\ Told(r)'
    BY <1>3, <1>5 DEF Answer
  <2>2. failures' \in {failures, failures + 1} /\ failures' \in 0..MaxFailures
    BY <1>5, RequestsAssumption DEF Inv, TypeOK
  <2>3. Connection(r, "done")
    BY <1>1, <2>2 DEF Connection, Inv, TypeOK
  <2> QED BY <1>1, <1>5, <2>1, <2>2, <2>3, UnchangedStep DEF InsidePlaces
<1> QED BY <1>4, <1>5 DEF Begin

\* A write that fails leaves the connection as it should.
LEMMA FailedWrite ==
  ASSUME Inv, NEW r, NEW x, x # "rowid", NEW n \in Nat, n > 0 \/ n = rowid, WriteFails(n) \/ Refused
  PROVE  /\ Connection(r, x)
         /\ UNCHANGED <<db, saved, failures, lost>> \/ Failure
<1>1. lost \subseteq lost' /\ failures' \in 0..MaxFailures
  BY FailureLoses, RequestsAssumption DEF WriteFails, Refused, Failure, Inv, TypeOK
<1>2. /\ mixed \subseteq mixed' /\ mixed' \subseteq Requests
      /\ \A q \in Requests : pc[q] = "rowid" /\ rowid' # rowid => q \in mixed'
  BY DEF WriteFails, Refused, Overwritten, At, Inv, TypeOK
<1> QED BY <1>1, <1>2 DEF WriteFails, Refused, Connection, Inv, TypeOK

\* A write that succeeds, too.
LEMMA WriteConnection ==
  ASSUME Inv, NEW r \in Requests, NEW x, NEW d, NEW i \in Nat, NEW n \in {0, 1}, Writes(r, d, i, n),
         i > 0 \/ (i = rowid /\ x # "rowid")
  PROVE  /\ Connection(r, x) /\ UNCHANGED <<saved, failures, lost>> /\ db' = d
         /\ InTransaction /\ r \notin Inside \ lost => r \in mixed'
<1>1. /\ mixed \subseteq mixed' /\ mixed' \subseteq Requests
      /\ \A q \in Requests : pc[q] = "rowid" /\ rowid' # rowid => q \in mixed'
      /\ InTransaction /\ r \notin Inside \ lost => r \in mixed'
  BY DEF Writes, Overwritten, Owns, At, Inv, TypeOK
<1> QED BY <1>1 DEF Writes, Connection, Inv, TypeOK

\* A request of a transaction moves on in it, or to its ROLLBACK.
LEMMA InsideMoves ==
  ASSUME Inv, NEW r \in Requests, pc[r] \in InsidePlaces, NEW x \in InsidePlaces,
         GoTo(r, x), UNCHANGED <<chatID, success, rows>>, Settled(r) => x \notin Early,
         x \in {"member1", "member2"} => chatID[r] > 0
  PROVE  r \in Creators /\ Moves(r, x) /\ Told(r)'
<1>1. r \in Creators /\ ~success[r] /\ OfKind(Kind[r], x) /\ x \in Places
  BY DEF Inv, KindsOK, OfKind, Creators, AnswersOK, InsidePlaces, Places, ChatPlaces
<1>2. Moves(r, x)
  BY <1>1, MovesOn DEF InsidePlaces
<1> QED BY <1>1, <1>2, Refusal

LEMMA InsertChatKeeps ==
  ASSUME Inv, NEW r \in Requests, InsertChat(r)
  PROVE  Inv'
<1>1. pc[r] = "insert" /\ UNCHANGED <<chatID, success, rows>> /\ ~Settled(r)
  BY DEF InsertChat, At, Settled, Early
<1>2. db \in Database /\ Usable(db) /\ db.nextChat \in Nat \ {0}
  BY DEF Inv, TypeOK, DataOK, Database, Usable, Positive
<1>3. CASE AddsChat(r) /\ GoTo(r, "rowid")
  <2> DEFINE d == [db EXCEPT !.chats = @ \cup {db.nextChat}, !.nextChat = @ + 1]
  <2>1. r \in Creators /\ Moves(r, "rowid") /\ Told(r)'
    BY <1>1, <1>3, InsideMoves DEF InsidePlaces
  <2>2. Connection(r, "rowid") /\ UNCHANGED <<saved, failures, lost>> /\ db' = d
    <3>1. Writes(r, d, db.nextChat, 1)
      BY <1>3 DEF AddsChat
    <3>2. db.nextChat \in Nat /\ db.nextChat > 0 /\ 1 \in {0, 1}
      BY <1>2
    <3> HIDE DEF d
    <3> QED BY <3>1, <3>2, WriteConnection
  <2>3. d \in Database /\ Usable(d) /\ d.members = db.members /\ d.messages = db.messages
        /\ d.chats = db.chats \cup {db.nextChat} /\ db.nextChat \notin db.chats
    <3>1. /\ d.chats = db.chats \cup {db.nextChat} /\ d.nextChat = db.nextChat + 1
          /\ d.members = db.members /\ d.messages = db.messages /\ d.users = db.users
          /\ d.nextUser = db.nextUser /\ d.nextMessage = db.nextMessage
      BY <1>2 DEF Database
    <3>2. d \in Database
      <4>1. db.chats \cup {db.nextChat} \in SUBSET (Nat \ {0}) /\ db.nextChat + 1 \in Nat
        BY <1>2 DEF Database
      <4> QED BY <1>2, <4>1 DEF Database
    <3>3. \A id \in d.chats : id < d.nextChat
      BY <1>2, <3>1 DEF Usable, Database
    <3>4. Positive(d) /\ IsFiniteSet(d.members)
      BY <1>2, <3>1 DEF Usable, Positive, Database
    <3>5. db.nextChat \notin db.chats
      BY <1>2 DEF Usable
    <3> QED BY <3>1, <3>2, <3>3, <3>4, <3>5 DEF Usable
  <2>4. rowid' \in db'.chats \ db.chats
    BY <1>3, <2>2, <2>3 DEF AddsChat, Writes
  <2> HIDE DEF d
  <2> QED BY <1>1, <2>1, <2>2, <2>3, <2>4, WriteStep DEF InsidePlaces
<1>4. CASE WriteFails(db.nextChat) /\ GoTo(r, "rollback")
  <2>1. r \in Creators /\ Moves(r, "rollback") /\ Told(r)'
    BY <1>1, <1>4, InsideMoves DEF InsidePlaces
  <2> QED BY <1>1, <1>2, <1>4, <2>1, FailedWrite, QuietStep DEF InsidePlaces
<1> QED BY <1>3, <1>4 DEF InsertChat
----------------------------------------------------------------------------
LEMMA LastInsertRowidKeeps ==
  ASSUME Inv, NEW r \in Requests, LastInsertRowid(r)
  PROVE  Inv'
<1>1. /\ pc[r] = "rowid" /\ UNCHANGED <<db, saved, rowid, changes, failures, lost, success, rows, mixed>>
      /\ chatID' = [chatID EXCEPT ![r] = rowid] /\ GoTo(r, "member1")
  BY DEF LastInsertRowid, connVars, At
<1>2. r \in Creators /\ ~success[r] /\ OfKind(Kind[r], "member1") /\ "member1" \in Places
  BY <1>1 DEF Inv, KindsOK, OfKind, Creators, AnswersOK, InsidePlaces, Places, ChatPlaces
<1>3. rowid \in Nat /\ rowid > 0
  BY <1>1 DEF Inv, TypeOK, DataOK
<1>4. /\ chatID' \in [Requests -> (Nat \ {0}) \cup {-1}] /\ chatID'[r] = rowid
      /\ \A q \in Requests \ {r} : chatID'[q] = chatID[q]
  BY <1>1, <1>3 DEF Inv, TypeOK
<1>5. Moves(r, "member1")
  BY <1>1, <1>2, <1>4 DEF Moves, GoTo, Settled, Early, InsidePlaces, Inv, TypeOK
<1>6. Connection(r, "member1") /\ Told(r)'
  BY <1>1, <1>2, SameConnection, Refusal DEF Inv, TypeOK
<1> QED BY <1>1, <1>4, <1>5, <1>6, UnchangedStep DEF InsidePlaces

LEMMA InsertMemberKeeps ==
  ASSUME Inv, NEW r \in Requests, InsertMembers(r)
  PROVE  Inv'
<1>1. PICK i \in {1, 2} :
        InsertMember(r, IF i = 1 THEN "member1" ELSE "member2", Pair[r][i],
                     IF i = 1 THEN "member2" ELSE "commit")
  BY DEF InsertMembers
<1> DEFINE u == Pair[r][i]
           n == Cardinality(db.members) + 1
           x == IF i = 1 THEN "member2" ELSE "commit"
           d == [db EXCEPT !.members = @ \cup {<<chatID[r], u>>}]
<1>2. /\ pc[r] = (IF i = 1 THEN "member1" ELSE "member2") /\ UNCHANGED <<chatID, success, rows>>
      /\ \/ Writes(r, d, n, 1) /\ GoTo(r, x)
         \/ (WriteFails(n) \/ Refused) /\ GoTo(r, "rollback")
  BY <1>1 DEF InsertMember, At
<1>3. db \in Database /\ Usable(db) /\ n \in Nat /\ n > 0
  BY FS_CardinalityType DEF Inv, TypeOK, DataOK, Usable
<1>4. r \in Creators /\ Settled(r) /\ r \in Inside /\ u \in PairSet(r) /\ u \in Users
  BY <1>2, RequestsAssumption
     DEF Inv, KindsOK, OfKind, Creators, Settled, Early, Inside, InsidePlaces, PairSet
<1>5. CASE Writes(r, d, n, 1) /\ GoTo(r, x)
  <2>1. Moves(r, x) /\ Told(r)' /\ pc[r] \in InsidePlaces /\ x \in InsidePlaces
    <3>1. chatID[r] > 0 /\ pc[r] \in InsidePlaces /\ x \in InsidePlaces /\ x \notin Early
      BY <1>2 DEF Inv, DataOK, InsidePlaces, Early
    <3> QED BY <1>2, <1>5, <3>1, InsideMoves
  <2>2. Connection(r, x) /\ UNCHANGED <<saved, failures, lost>> /\ db' = d
    <3> HIDE DEF d, n
    <3> QED BY <1>3, <1>5, WriteConnection
  <2>3. /\ d.members = db.members \cup {<<chatID[r], u>>} /\ d.chats = db.chats
        /\ d.messages = db.messages /\ d.users = db.users /\ d.nextChat = db.nextChat
        /\ d.nextUser = db.nextUser /\ d.nextMessage = db.nextMessage
    BY <1>3 DEF Database
  <2>4. Usable(d)
    <3>1. IsFiniteSet(d.members)
      <4>1. IsFiniteSet(db.members \cup {<<chatID[r], u>>})
        BY <1>3, FS_AddElement DEF Usable
      <4> QED BY <2>3, <4>1
    <3> QED BY <1>3, <2>3, <3>1 DEF Usable, Positive
  <2>5. d \in Database
    <3>1. chatID[r] \in Nat \ {0}
      BY <1>2 DEF Inv, TypeOK, DataOK
    <3> QED BY <1>3, <1>4, <2>3, <3>1 DEF Database
  <2>6. Member(r, i) \in db'.members /\ AddsMember(r)
    BY <1>4, <2>2, <2>3 DEF Member, AddsMember
  <2> HIDE DEF d, n, u
  <2> QED BY <1>2, <1>3, <1>4, <2>1, <2>2, <2>3, <2>4, <2>5, <2>6, WriteStep
<1>6. CASE (WriteFails(n) \/ Refused) /\ GoTo(r, "rollback")
  <2>1. Moves(r, "rollback") /\ Told(r)' /\ pc[r] \in InsidePlaces
    BY <1>2, <1>6, InsideMoves DEF InsidePlaces, Early
  <2>2. Connection(r, "rollback") /\ (UNCHANGED <<db, saved, failures, lost>> \/ Failure)
    <3> HIDE DEF n
    <3> QED BY <1>3, <1>6, FailedWrite
  <2> QED BY <2>1, <2>2, QuietStep DEF InsidePlaces
<1> QED BY <1>2, <1>5, <1>6
----------------------------------------------------------------------------
(* COMMIT and ROLLBACK, of the own transaction or of another's             *)

LEMMA EndStep ==
  ASSUME Inv, NEW r \in Requests, pc[r] \in InsidePlaces, Moves(r, "done"),
         InTransaction, EndsFor(r), db' = db \/ db' = saved,
         UNCHANGED <<rowid, changes, mixed>>
  PROVE  /\ Connection(r, "done") /\ ~InTransaction' /\ Stored = saved /\ Stored' = db'
         /\ TypeOK' /\ DataOK' /\ KindsOK' /\ OneTransaction' /\ OwnerOK'
<1>1. ~InTransaction' /\ Stored = saved /\ Stored' = db'
  BY DEF EndsFor, InTransaction, Stored
<1>2. lost \subseteq lost' /\ lost' \subseteq lost \cup Inside /\ lost' \subseteq Requests
  BY DEF EndsFor, Inside, Inv, TypeOK
<1>3. Connection(r, "done")
  BY <1>2, SameConnection DEF EndsFor, Inv, TypeOK
<1>4. db' \in Database /\ saved' \in Database /\ Usable(db')
  BY DEF EndsFor, Inv, TypeOK, DataOK, Database, NoTransaction
<1>5. TypeOK' /\ KindsOK'
  BY <1>2, <1>3, <1>4, TypesStay, KindsStay
<1>6. DataOK'
  <2>1. \A d : (db' = d /\ Usable(d)) => Usable(db)'
    BY DEF Usable, Positive
  <2> QED BY <1>1, <1>3, <1>4, <2>1, RowidStays DEF DataOK
<1>7. Inside' \ lost' = {}
  BY Places_ DEF Inside, EndsFor, InsidePlaces
<1>8. failures = 0 => lost' = {}
  BY DEF Inv, OneTransaction, EndsFor, Inside
<1>9. OneTransaction' /\ OwnerOK'
  BY <1>1, <1>7, <1>8 DEF OneTransaction, OwnerOK, EndsFor
<1> QED BY <1>1, <1>3, <1>5, <1>6, <1>9

\* COMMIT stores what its request and those without a transaction have written.
LEMMA CommitStores ==
  ASSUME Inv, NEW r \in Requests, pc[r] = "commit", Moves(r, "done"), success'[r],
         InTransaction, EndsFor(r), UNCHANGED <<db, rowid, changes, chatID, mixed>>
  PROVE  StoredOK' /\ AnswersOK'
<1>1. /\ Connection(r, "done") /\ Stored = saved /\ Stored' = db
      /\ lost \subseteq lost' /\ lost' \subseteq Requests /\ lost \subseteq Requests
  BY EndStep DEF EndsFor, InsidePlaces, Inside, Inv, TypeOK
<1>2. /\ saved.members \subseteq db.members /\ saved.chats \subseteq db.chats
      /\ saved.messages \subseteq db.messages
  BY DEF Inv, DataOK
<1>3. PICK o \in Inside \ lost : TRUE
  BY DEF Inv, OneTransaction
<1>4. /\ o \in Requests /\ (o # r => o \in lost')
      /\ r \in Inside /\ (r \notin lost => o = r)
      /\ \A m \in db.members \ saved.members : Writer(o, m) \/ \E q \in lost : Writer(q, m)
  BY <1>3 DEF Inside, InsidePlaces, EndsFor, Inv, OwnerOK, OneTransaction
<1>5. pc'[r] = "done" /\ r \in Creators
  BY <1>4, Places_ DEF Inside, InsidePlaces, Inv, KindsOK, OfKind, Creators
<1>6. r \notin lost =>
        /\ Whole(r, db.members)
        /\ r \notin mixed => chatID[r] \in db.chats \ saved.chats
  BY <1>4 DEF Inv, OwnerOK, Whole, Member, PairSet
<1>7. \A q \in lost' \cup mixed : \A m : Writer(q, m) => Shared(m[1])'
  BY <1>1, SettledStays DEF Writer, Settled, Shared, Connection, Inv, TypeOK
<1>8. ASSUME NEW q \in Creators \ (lost' \cup mixed), q # r, success[q]
      PROVE  chatID[q] \in saved.chats
  BY <1>1, <1>8 DEF Inv, AnswersOK, Told, Creators
<1>9. StoredOK'
  <2>1. ASSUME NEW m, NewMember(m)
        PROVE  \E q \in Creators :
                 /\ Writer(q, m)'
                 /\ q \in lost' \/ (pc'[q] = "done" /\ success'[q] /\ Whole(q, Stored.members)')
    <3>1. Writer(o, m) \/ \E q \in lost : Writer(q, m)
      BY <1>1, <1>4, <2>1 DEF NewMember
    <3>2. Whole(r, Stored.members)' \/ r \in lost
      BY <1>1, <1>6 DEF Whole, PairSet
    <3>3. PICK q \in Requests : Writer(q, m) /\ (q = o \/ q \in lost)
      BY <1>1, <1>4, <3>1
    <3>4. Writer(q, m)' /\ q \in Creators
      BY <3>3, SettledStays DEF Writer, Settled
    <3> QED BY <1>1, <1>4, <1>5, <3>2, <3>3, <3>4
  <2> QED BY <1>1, <1>2, <2>1, StoredStays
<1>10. r \notin lost' \cup mixed' => Told(r)'
  <2> SUFFICES ASSUME r \notin lost', r \notin mixed PROVE Told(r)'
    OBVIOUS
  <2>1. o = r /\ chatID[r] \in db.chats \ saved.chats /\ Whole(r, db.members)
    BY <1>1, <1>4, <1>6
  <2>2. ASSUME NEW m \in db.members, m[1] = chatID[r], m[2] \notin PairSet(r)
        PROVE  Shared(m[1])'
    <3>1. CASE m \in saved.members
      <4>1. PICK q \in Creators : Writer(q, m) /\ (q \in lost \/ (pc[q] = "done" /\ success[q]))
        BY <1>1, <3>1 DEF Inv, StoredOK
      <4>2. CASE q \in lost' \cup mixed
        BY <1>7, <4>1, <4>2
      <4>3. CASE q \notin lost' \cup mixed
        <5>1. q # r /\ success[q] /\ chatID[q] = chatID[r]
          BY <1>1, <2>2, <4>1, <4>3 DEF Writer
        <5> QED BY <1>8, <2>1, <4>3, <5>1
      <4> QED BY <4>2, <4>3
    <3>2. CASE m \notin saved.members
      <4>1. ~Writer(r, m)
        BY <2>2 DEF Writer
      <4> QED BY <1>1, <1>4, <1>7, <2>1, <3>2, <4>1
    <3> QED BY <3>1, <3>2
  <2>3. \/ \A m \in db.members : m[1] = chatID[r] => m[2] \in PairSet(r)
        \/ Shared(chatID[r])'
    BY <2>2 DEF Shared
  <2> QED BY <1>1, <1>5, <2>1, <2>3 DEF Told, Whole, Creators, PairSet
<1>11. AnswersOK'
  <2>1. ASSUME NEW m, NewMember(m)
        PROVE  \/ Shared(m[1])'
               \/ \A q \in Creators \ (lost' \cup mixed') : q # r /\ success[q] => chatID[q] # m[1]
    <3>1. PICK q \in Requests : Writer(q, m) /\ (q = o \/ q \in lost)
      BY <1>1, <1>4, <2>1 DEF NewMember
    <3>2. CASE q \in lost' \cup mixed
      BY <1>7, <3>1, <3>2
    <3>3. CASE q \notin lost' \cup mixed
      <4>1. q = r /\ chatID[r] = m[1] /\ chatID[r] \notin saved.chats
        BY <1>1, <1>4, <1>6, <3>1, <3>3 DEF Writer
      <4> QED BY <1>8, <4>1
    <3> QED BY <3>2, <3>3
  <2> QED BY <1>1, <1>2, <1>10, <2>1, ToldStays
<1> QED BY <1>9, <1>11

LEMMA CommitKeeps ==
  ASSUME Inv, NEW r \in Requests, Commit(r)
  PROVE  Inv'
<1>1. pc[r] = "commit" /\ UNCHANGED <<rowid, changes, chatID, rows, mixed>>
  BY DEF Commit, At
<1>2. CASE InTransaction /\ EndsFor(r) /\ UNCHANGED db /\ Answer(r, TRUE)
  <2>1. Moves(r, "done") /\ success'[r]
    BY <1>1, <1>2, MovesOn DEF Answer, OfKind, Places, Early, InsidePlaces, Inv, TypeOK
  <2>2. TypeOK' /\ DataOK' /\ KindsOK' /\ OneTransaction' /\ OwnerOK'
    BY <1>1, <1>2, <2>1, EndStep DEF InsidePlaces
  <2>3. StoredOK' /\ AnswersOK'
    BY <1>1, <1>2, <2>1, CommitStores
  <2> QED BY <2>2, <2>3 DEF Inv
<1>3. CASE (NothingToEnd \/ Failure) /\ GoTo(r, "rollback") /\ UNCHANGED success
  <2>1. Moves(r, "rollback") /\ Told(r)'
    BY <1>1, <1>3, InsideMoves DEF InsidePlaces, Early
  <2>2. UNCHANGED <<db, saved, failures, lost>> \/ Failure
    BY <1>3 DEF NothingToEnd
  <2>3. Connection(r, "rollback")
    BY <1>1, <2>2, SameConnection, FailureLoses DEF Inv, TypeOK
  <2> QED BY <1>1, <2>1, <2>2, <2>3, QuietStep DEF InsidePlaces
<1> QED BY <1>2, <1>3 DEF Commit

LEMMA RollbackKeeps ==
  ASSUME Inv, NEW r \in Requests, Rollback(r)
  PROVE  Inv'
<1>1. /\ pc[r] = "rollback" /\ UNCHANGED <<rowid, changes, chatID, rows, mixed>>
      /\ Answer(r, FALSE) /\ r \in Creators
  BY DEF Rollback, At, Inv, KindsOK, OfKind, Creators, InsidePlaces
<1>2. Moves(r, "done") /\ ~success'[r]
  BY <1>1, MovesOn DEF Answer, OfKind, Places, Early, InsidePlaces, Inv, TypeOK
<1>3. Told(r)'
  BY <1>1, <1>2, Refusal
<1>4. CASE InTransaction /\ EndsFor(r) /\ db' = saved
  <2>1. /\ TypeOK' /\ DataOK' /\ KindsOK' /\ OneTransaction' /\ OwnerOK'
        /\ Connection(r, "done") /\ Stored' = Stored
    BY <1>1, <1>2, <1>4, EndStep DEF InsidePlaces
  <2>2. StoredOK' /\ AnswersOK'
    BY <1>2, <1>3, <2>1, StoredSame DEF Connection
  <2> QED BY <2>1, <2>2 DEF Inv
<1>5. CASE NothingToEnd
  <2>1. r \in lost /\ UNCHANGED <<db, saved, failures, lost>>
    BY <1>1, <1>5 DEF NothingToEnd, Inv, OneTransaction, Inside, InsidePlaces
  <2>2. Connection(r, "done")
    BY <1>1, <2>1, SameConnection DEF Inv, TypeOK
  <2> QED BY <1>1, <1>2, <1>3, <2>1, <2>2, QuietStep DEF InsidePlaces
<1> QED BY <1>4, <1>5 DEF Rollback
----------------------------------------------------------------------------
(* The other requests                                                      *)

LEMMA ReadsMix ==
  ASSUME Inv, NEW r \in Requests, NEW ids, ReadsChats(r, ids)
  PROVE  mixed \subseteq mixed' /\ mixed' \subseteq Requests /\ (r \notin mixed' => ~Uncommitted(ids))
BY DEF ReadsChats, Inv, TypeOK

LEMMA StoredQuiet ==
  ASSUME UNCHANGED <<db, saved, failures, lost>> \/ Failure
  PROVE  Stored' = Stored /\ lost \subseteq lost'
BY DEF Failure, RolledBack, Stored, InTransaction

LEMMA GetUserChatsKeeps ==
  ASSUME Inv, NEW r \in Requests, GetUserChats(r)
  PROVE  Inv'
<1>1. PICK ids \in SUBSET ChatsOf(Pair[r][1]) :
        /\ UNCHANGED connVars \/ ReadFails
        /\ rows' = [rows EXCEPT ![r] = ids] /\ ReadsChats(r, ids)
  BY DEF GetUserChats
<1>2. /\ pc[r] = "list" /\ Kind[r] = "list" /\ Answer(r, TRUE) /\ UNCHANGED chatID
      /\ UNCHANGED <<db, saved, failures, lost>> \/ Failure
      /\ UNCHANGED <<rowid, changes>>
  BY <1>1 DEF GetUserChats, At, connVars, ReadFails, Inv, KindsOK, OfKind, ChatPlaces, InsidePlaces
<1>3. ids \subseteq db.chats /\ ids \subseteq Nat
  BY DEF ChatsOf, Inv, TypeOK, Database
<1>4. Moves(r, "done")
  <2>1. rows' \in [Requests -> SUBSET (Users \cup Nat)] /\ \A q \in Requests \ {r} : rows'[q] = rows[q]
    BY <1>1, <1>3 DEF Inv, TypeOK
  <2>2. success' \in [Requests -> BOOLEAN] /\ \A q \in Requests \ {r} : success'[q] = success[q]
    BY <1>2 DEF Answer, Inv, TypeOK
  <2> QED BY <1>2, <2>1, <2>2
       DEF Moves, Answer, GoTo, OfKind, Places, Early, Settled, Creators, InsidePlaces, Inv, TypeOK
<1>5. Connection(r, "done")
  BY <1>1, <1>2, ReadsMix, StoredQuiet, SameConnection
<1>6. ASSUME r \notin mixed' PROVE Told(r)'
  <2>1. ~Uncommitted(ids) /\ Stored' = Stored
    BY <1>1, <1>2, <1>6, ReadsMix, StoredQuiet
  <2>2. rows'[r] \subseteq Stored'.chats
    BY <1>1, <1>3, <2>1 DEF Uncommitted, Stored, Inv, TypeOK
  <2> QED BY <1>2, <2>2 DEF Told, Creators
<1> QED BY <1>2, <1>4, <1>5, <1>6, QuietStep DEF InsidePlaces

LEMMA GetChatMemberIDsKeeps ==
  ASSUME Inv, NEW r \in Requests, GetChatMemberIDs(r)
  PROVE  Inv'
<1>1. PICK users \in SUBSET Members(chatID[r]) :
        /\ UNCHANGED connVars \/ ReadFails
        /\ rows' = [rows EXCEPT ![r] = users \ {Pair[r][1]}]
  BY DEF GetChatMemberIDs
<1>2. /\ pc[r] = "members" /\ Kind[r] = "message" /\ GoTo(r, "done") /\ UNCHANGED <<chatID, success>>
      /\ ReadsChats(r, {chatID[r]})
      /\ UNCHANGED <<db, saved, failures, lost>> \/ Failure
      /\ UNCHANGED <<rowid, changes>>
  BY <1>1 DEF GetChatMemberIDs, At, connVars, ReadFails, Inv, KindsOK, OfKind, ChatPlaces, InsidePlaces
<1>3. Stored' = Stored /\ r \in Requests \ lost /\ lost \subseteq lost'
  BY <1>2, StoredQuiet DEF Inv, KindsOK, InsidePlaces
<1>4. db.members \subseteq (Nat \ {0}) \X Users /\ Stored.members \subseteq (Nat \ {0}) \X Users
  BY DEF Inv, TypeOK, Database, Stored
<1>5. users \subseteq Users
  BY <1>4 DEF Members, MembersIn
<1>6. Moves(r, "done")
  <2>1. rows' \in [Requests -> SUBSET (Users \cup Nat)] /\ \A q \in Requests \ {r} : rows'[q] = rows[q]
    BY <1>1, <1>5 DEF Inv, TypeOK
  <2> QED BY <1>2, <2>1
       DEF Moves, GoTo, OfKind, Places, Early, Settled, Creators, InsidePlaces, Inv, TypeOK
<1>7. mixed \subseteq mixed' /\ mixed' \subseteq Requests /\ (r \notin mixed' => ~Uncommitted({chatID[r]}))
  BY <1>2, ReadsMix
<1>8. Connection(r, "done")
  BY <1>2, <1>3, <1>7, SameConnection
<1>9. ASSUME r \notin lost', r \notin mixed' PROVE Told(r)'
  <2>1. Members(chatID[r]) = MembersIn(Stored, chatID[r])
    BY <1>7, <1>9 DEF Uncommitted, Stored, Members
  <2>2. ASSUME NEW u \in rows'[r] PROVE u # Pair[r][1] /\ <<chatID[r], u>> \in Stored.members
    <3>1. u # Pair[r][1] /\ u \in MembersIn(Stored, chatID[r])
      BY <1>1, <2>1, <2>2 DEF Inv, TypeOK
    <3>2. PICK m \in Stored.members : m[1] = chatID[r] /\ m[2] = u
      BY <3>1 DEF MembersIn
    <3> QED BY <1>4, <3>1, <3>2
  <2>3. success[r] => r \in Stored.messages
    BY <1>2, <1>3, <1>7, <1>9 DEF Inv, AnswersOK, Told
  <2> QED BY <1>2, <1>3, <2>2, <2>3 DEF Told, Creators
<1> QED BY <1>2, <1>6, <1>8, <1>9, QuietStep DEF InsidePlaces

LEMMA SaveMessageKeeps ==
  ASSUME Inv, NEW r \in Requests, SaveMessage(r)
  PROVE  Inv'
<1>1. PICK id \in ChatNumbers : chatID' = [chatID EXCEPT ![r] = id]
  BY DEF SaveMessage
<1>2. pc[r] = "save" /\ Kind[r] = "message" /\ GoTo(r, "members") /\ UNCHANGED rows
  BY DEF SaveMessage, At, Inv, KindsOK, OfKind, ChatPlaces, InsidePlaces
<1>3. db \in Database /\ Usable(db) /\ db.nextMessage \in Nat \ {0}
  BY DEF Inv, TypeOK, DataOK, Database, Usable, Positive
<1>4. r \notin lost /\ r \notin Inside /\ r \notin Creators
  BY <1>2 DEF Inv, KindsOK, Inside, InsidePlaces, Creators
<1>5. success' = success \/ success' = [success EXCEPT ![r] = TRUE]
  BY DEF SaveMessage
<1>6. Moves(r, "members")
  <2>1. success' \in [Requests -> BOOLEAN] /\ \A q \in Requests \ {r} : success'[q] = success[q]
    BY <1>5 DEF Inv, TypeOK
  <2>2. /\ chatID' \in [Requests -> (Nat \ {0}) \cup {-1}]
        /\ \A q \in Requests \ {r} : chatID'[q] = chatID[q]
    BY <1>1, RequestsAssumption DEF Inv, TypeOK
  <2> QED BY <1>2, <1>4, <2>1, <2>2
       DEF Moves, GoTo, OfKind, Places, Settled, InsidePlaces, Inv, TypeOK
<1>7. pc'[r] = "members"
  BY <1>6, Places_
<1> DEFINE d == [db EXCEPT !.messages = @ \cup {r}, !.nextMessage = @ + 1]
<1>8. CASE Writes(r, d, db.nextMessage, 1)
  <2>1. /\ d.messages = db.messages \cup {r} /\ d.nextMessage = db.nextMessage + 1
        /\ d.chats = db.chats /\ d.nextChat = db.nextChat /\ d.users = db.users
        /\ d.nextUser = db.nextUser /\ d.members = db.members
    BY <1>3 DEF Database
  <2>2. d \in Database /\ Usable(d)
    <3>1. db.messages \cup {r} \in SUBSET Requests /\ db.nextMessage + 1 \in Nat
      BY <1>3 DEF Database
    <3>2. d \in Database
      BY <1>3, <2>1, <3>1 DEF Database
    <3> QED BY <1>3, <2>1, <3>2 DEF Usable, Positive
  <2> HIDE DEF d
  <2>3. db.nextMessage \in Nat /\ db.nextMessage > 0 /\ 1 \in {0, 1}
    BY <1>3
  <2>4. /\ Connection(r, "members") /\ UNCHANGED <<saved, failures, lost>> /\ db' = d
        /\ InTransaction => r \in mixed'
    BY <1>4, <1>8, <2>3, WriteConnection
  <2>5. ASSUME r \notin mixed' PROVE Told(r)'
    <3>1. Stored' = d
      BY <2>4, <2>5 DEF Stored, InTransaction
    <3> QED BY <1>2, <1>4, <1>7, <2>1, <3>1 DEF Told, Creators
  <2> QED BY <1>2, <1>6, <2>1, <2>2, <2>4, <2>5, WriteStep DEF InsidePlaces
<1>9. CASE WriteFails(db.nextMessage) /\ UNCHANGED success
  <2>1. Connection(r, "members") /\ (UNCHANGED <<db, saved, failures, lost>> \/ Failure)
    BY <1>3, <1>9, FailedWrite
  <2>2. ASSUME r \notin mixed' PROVE Told(r)'
    <3>1. r \notin mixed /\ Stored' = Stored
      BY <2>1, <2>2, StoredQuiet DEF Connection
    <3>2. success[r] => r \in Stored.messages
      BY <1>2, <1>4, <3>1 DEF Inv, AnswersOK, Told
    <3> QED BY <1>2, <1>4, <1>7, <1>9, <3>1, <3>2 DEF Told, Creators
  <2> QED BY <1>2, <1>6, <2>1, <2>2, QuietStep DEF InsidePlaces
<1> QED BY <1>8, <1>9 DEF SaveMessage
----------------------------------------------------------------------------
\* The accounts: what happens to them is told to no request of this module.
LEMMA AccountMoves ==
  ASSUME Inv, NEW r \in Requests, NEW x \in Places \ ChatPlaces, OfKind(Kind[r], x),
         pc[r] \in {"exists", "add", "erase", "changes"}, GoTo(r, x), UNCHANGED <<chatID, rows>>,
         success' = success \/ \E ok \in BOOLEAN : success' = [success EXCEPT ![r] = ok]
  PROVE  Moves(r, x) /\ Told(r)'
<1>1. Kind[r] \in {"register", "delete"} /\ r \notin Creators
  BY DEF Inv, KindsOK, OfKind, Creators, ChatPlaces, InsidePlaces
<1>2. success' \in [Requests -> BOOLEAN] /\ \A q \in Requests \ {r} : success'[q] = success[q]
  BY DEF Inv, TypeOK
<1> QED BY <1>1, <1>2, Refusal DEF Moves, GoTo, Settled, ChatPlaces, InsidePlaces, Inv, TypeOK

LEMMA UserExistsKeeps ==
  ASSUME Inv, NEW r \in Requests, UserExists(r) \/ CountChanges(r)
  PROVE  Inv'
<1>1. /\ pc[r] \in {"exists", "changes"} /\ UNCHANGED <<rowid, changes, chatID, rows, mixed>>
      /\ UNCHANGED <<db, saved, failures, lost>> \/ Failure
  BY DEF UserExists, CountChanges, At, connVars, ReadFails
<1>2. PICK x \in {"add", "done"} :
        /\ GoTo(r, x) /\ (x = "add" => pc[r] = "exists")
        /\ success' = success \/ \E ok \in BOOLEAN : success' = [success EXCEPT ![r] = ok]
  <2>1. (changes > 0) \in BOOLEAN
    OBVIOUS
  <2>2. CASE CountChanges(r)
    BY <2>1, <2>2 DEF CountChanges, Answer
  <2>3. CASE UserExists(r)
    BY <2>3 DEF UserExists, Answer, At
  <2> QED BY <2>2, <2>3
<1>3. x \in Places \ ChatPlaces /\ OfKind(Kind[r], x)
  BY <1>2 DEF Inv, KindsOK, OfKind, ChatPlaces, Places, InsidePlaces
<1>4. Moves(r, x) /\ Told(r)'
  BY <1>1, <1>2, <1>3, AccountMoves
<1>5. Connection(r, x)
  BY <1>1, <1>3, SameConnection, FailureLoses DEF ChatPlaces, InsidePlaces, Inv, TypeOK
<1> QED BY <1>1, <1>3, <1>4, <1>5, QuietStep DEF ChatPlaces, InsidePlaces

LEMMA AccountsKeep ==
  ASSUME Inv, NEW r \in Requests, AddUser(r) \/ DeleteUser(r)
  PROVE  Inv'
<1>1. pc[r] \in {"add", "erase"} /\ UNCHANGED <<chatID, rows>>
  BY DEF AddUser, DeleteUser, At
<1>2. PICK x \in {"changes", "done"} :
        /\ GoTo(r, x) /\ (x = "changes" => pc[r] = "erase")
        /\ success' = success \/ \E ok \in BOOLEAN : success' = [success EXCEPT ![r] = ok]
  BY DEF AddUser, DeleteUser, Answer, At
<1>3. x \in Places \ ChatPlaces /\ OfKind(Kind[r], x)
  BY <1>2 DEF Inv, KindsOK, OfKind, ChatPlaces, Places, InsidePlaces
<1>4. Moves(r, x) /\ Told(r)' /\ x \notin InsidePlaces /\ pc[r] \notin InsidePlaces
  BY <1>1, <1>2, <1>3, AccountMoves DEF ChatPlaces, InsidePlaces
<1>5. /\ db \in Database /\ Usable(db) /\ db.nextUser \in Nat \ {0} /\ rowid \in Nat
      /\ x # "rowid" /\ x \notin {"insert", "member1", "member2", "commit"}
  BY <1>4 DEF Inv, TypeOK, DataOK, Database, Usable, Positive, InsidePlaces
<1>6. ASSUME NEW d, NEW names \in SUBSET Names, NEW next \in Nat \ {0},
             d = [db EXCEPT !.users = names, !.nextUser = next],
             NEW i \in Nat, i > 0 \/ i = rowid, NEW n \in {0, 1}, Writes(r, d, i, n)
      PROVE  Inv'
  <2>1. /\ d.messages = db.messages /\ d.nextMessage = db.nextMessage
        /\ d.chats = db.chats /\ d.nextChat = db.nextChat /\ d.users = names
        /\ d.nextUser = next /\ d.members = db.members
    BY <1>5, <1>6 DEF Database
  <2>2. d \in Database /\ Usable(d)
    <3>1. d \in Database
      BY <1>5, <1>6, <2>1 DEF Database
    <3> QED BY <1>5, <1>6, <2>1, <3>1 DEF Usable, Positive
  <2>3. Connection(r, x) /\ UNCHANGED <<saved, failures, lost>> /\ db' = d
    BY <1>5, <1>6, WriteConnection
  <2> QED BY <1>4, <1>5, <2>1, <2>2, <2>3, WriteStep
<1>7. CASE Writes(r, [db EXCEPT !.users = @ \cup {NameOf[r]}, !.nextUser = @ + 1], db.nextUser, 1)
  <2>1. NameOf[r] \in Names /\ db.users \subseteq Names
    BY <1>5, RequestsAssumption DEF Database
  <2>2. db.users \cup {NameOf[r]} \in SUBSET Names /\ db.nextUser + 1 \in Nat \ {0}
    BY <1>5, <2>1
  <2>3. db.nextUser > 0 /\ 1 \in {0, 1}
    BY <1>5
  <2> QED BY <1>5, <1>6, <1>7, <2>2, <2>3
<1>8. CASE Writes(r, [db EXCEPT !.users = @ \ {NameOf[r]}], rowid,
                  IF NameOf[r] \in db.users THEN 1 ELSE 0)
  <2>1. db.users \ {NameOf[r]} \in SUBSET Names
    BY <1>5 DEF Database
  <2>2. [db EXCEPT !.users = @ \ {NameOf[r]}]
          = [db EXCEPT !.users = db.users \ {NameOf[r]}, !.nextUser = db.nextUser]
    BY <1>5 DEF Database
  <2> QED BY <1>5, <1>6, <1>8, <2>1, <2>2
<1>9. CASE WriteFails(db.nextUser) \/ WriteFails(rowid) \/ Refused
  <2>1. Connection(r, x) /\ (UNCHANGED <<db, saved, failures, lost>> \/ Failure)
    BY <1>5, <1>9, FailedWrite
  <2> QED BY <1>4, <1>5, <2>1, QuietStep
<1> QED BY <1>7, <1>8, <1>9 DEF AddUser, DeleteUser
----------------------------------------------------------------------------
LEMMA StepInv == Inv /\ [Next]_vars => Inv'
<1> SUFFICES ASSUME Inv, [Next]_vars PROVE Inv'
  OBVIOUS
<1>1. CASE UNCHANGED vars
  BY <1>1 DEF vars, Inv, TypeOK, DataOK, Usable, Positive, InTransaction, KindsOK, OneTransaction,
              Inside, StoredOK, Stored, Writer, Settled, Whole, OwnerOK, Member, AnswersOK, Told,
              Shared, Creators, PairSet
<1>2. ASSUME NEW r \in Requests, CreateStep(r) PROVE Inv'
  BY <1>2, LookUpPeerKeeps, FindKeeps, BeginKeeps, InsertChatKeeps, LastInsertRowidKeeps,
     InsertMemberKeeps, CommitKeeps, RollbackKeeps DEF CreateStep
<1> QED
  BY <1>1, <1>2, GetUserChatsKeeps, SaveMessageKeeps, GetChatMemberIDsKeeps, UserExistsKeeps,
     AccountsKeep DEF Next, Terminated
----------------------------------------------------------------------------
\* The inductive invariant: one transaction, what it has added so far, who wrote the
\* stored members, and what the requests were told.
THEOREM Invariance == Spec => []Inv
BY InitInv, StepInv, PTL DEF Spec

\* TypeOK for any requests, users, names and number of failures.
THEOREM StorageTypes == Spec => []TypeOK
BY Invariance, PTL DEF Inv

\* Although no lock is held around a transaction, the open one belongs to exactly
\* one request, and until a statement fails no other request ends it.
THEOREM TransactionsApart == Spec => []OneTransaction
BY Invariance, PTL DEF Inv

LEMMA MembersAreThose ==
  ASSUME Inv, NEW id
  PROVE  \A u : u \in MembersIn(Stored, id) <=> <<id, u>> \in Stored.members
<1>1. \A m \in Stored.members : m = <<m[1], m[2]>>
  BY DEF Inv, TypeOK, Database, Stored
<1> QED BY <1>1 DEF MembersIn

\* Whatever statements fail, keep the transaction or end it, and whatever the other
\* requests do, members are stored two by two, except those of a request that goes
\* on after its transaction was ended.
THEOREM PairsCommitted == Spec => []MembersInPairs
<1>1. Inv => MembersInPairs
  <2> SUFFICES ASSUME Inv, NEW m \in Stored.members
               PROVE  \E r \in Creators :
                        /\ chatID[r] = m[1] /\ m[2] \in PairSet(r)
                        /\ r \in lost \/ PairSet(r) \subseteq MembersIn(Stored, m[1])
    BY DEF MembersInPairs
  <2>1. PICK r \in Creators :
          /\ Writer(r, m)
          /\ r \in lost \/ Whole(r, Stored.members)
    BY DEF Inv, StoredOK
  <2>2. \A u : u \in MembersIn(Stored, m[1]) <=> <<m[1], u>> \in Stored.members
    BY MembersAreThose
  <2>3. chatID[r] = m[1] /\ m[2] \in PairSet(r)
    BY <2>1 DEF Writer
  <2>4. r \in lost \/ \A u \in PairSet(r) : <<m[1], u>> \in Stored.members
    BY <2>1, <2>3 DEF Whole
  <2> QED BY <2>2, <2>3, <2>4
<1> QED BY <1>1, Invariance, PTL

\* A request that has kept to its own transaction was told what is stored, however
\* many others have lost theirs, written into each other's or read wrong rowids.
THEOREM AnswersKept == Spec => []AnswersStored
<1>1. Inv => AnswersStored
  <2> SUFFICES ASSUME Inv, NEW r \in Requests \ (lost \cup mixed)
               PROVE  /\ Kind[r] = "create" /\ success[r] =>
                           /\ chatID[r] \in Stored.chats
                           /\ PairSet(r) \subseteq MembersIn(Stored, chatID[r])
                           /\ \/ PairSet(r) = MembersIn(Stored, chatID[r])
                              \/ \E q \in Creators \cap (lost \cup mixed) : chatID[q] = chatID[r]
                      /\ Kind[r] = "list" => rows[r] \subseteq Stored.chats
                      /\ Kind[r] = "message" /\ success[r] => r \in Stored.messages
                      /\ Kind[r] = "message" /\ At(r, "done") =>
                           rows[r] \subseteq MembersIn(Stored, chatID[r]) \ {Pair[r][1]}
    BY DEF AnswersStored
  <2>1. Told(r)
    BY DEF Inv, AnswersOK
  <2>2. \A u : u \in MembersIn(Stored, chatID[r]) <=> <<chatID[r], u>> \in Stored.members
    BY MembersAreThose
  <2>3. ASSUME Kind[r] = "create", success[r]
        PROVE  /\ chatID[r] \in Stored.chats /\ PairSet(r) \subseteq MembersIn(Stored, chatID[r])
               /\ \/ PairSet(r) = MembersIn(Stored, chatID[r])
                  \/ \E q \in Creators \cap (lost \cup mixed) : chatID[q] = chatID[r]
    <3>1. chatID[r] \in Stored.chats /\ PairSet(r) \subseteq MembersIn(Stored, chatID[r])
      BY <2>1, <2>2, <2>3 DEF Told, Creators, Whole
    <3>2. ASSUME \A m \in Stored.members : m[1] = chatID[r] => m[2] \in PairSet(r)
          PROVE  MembersIn(Stored, chatID[r]) \subseteq PairSet(r)
      <4> SUFFICES ASSUME NEW u \in MembersIn(Stored, chatID[r]) PROVE u \in PairSet(r)
        OBVIOUS
      <4>1. <<chatID[r], u>> \in Stored.members
        BY <2>2
      <4>2. <<chatID[r], u>>[1] = chatID[r] /\ <<chatID[r], u>>[2] = u
        OBVIOUS
      <4> QED BY <3>2, <4>1, <4>2
    <3> QED BY <2>1, <2>3, <3>1, <3>2 DEF Told, Creators, Shared
  <2> QED BY <2>1, <2>2, <2>3 DEF Told, At
<1> QED BY <1>1, Invariance, PTL
=============================================================================
