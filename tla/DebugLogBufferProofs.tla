------------------------- MODULE DebugLogBufferProofs -------------------------
(***************************************************************************)
(* Theorems about DebugLogBuffer for every size of the ring, of its lines  *)
(* and of its lease, and for any number of viewers and tasks.              *)
(***************************************************************************)
EXTENDS DebugLogBuffer, SequenceTheorems, FiniteSetTheorems, WellFoundedInduction, TLAPS

-----------------------------------------------------------------------------
(***************************************************************************)
(* The inductive invariant.                                                *)
(***************************************************************************)
PageState == [worker : {"off", "poll", "restart", "gone"}, last : Nat, session : Nat, shown : SUBSET Nat]

\* The page of v polls the capture it began, and head has not passed tail since.
Current(v) == client[v].worker = "poll" /\ client[v].session = session /\ viewer # Nobody /\ ~spoiled

\* Ids grow along the ring, wrap markers apart, and stay below the next id.
IdsIn(recs, next) ==
  /\ \A i, j \in 1 .. Len(recs) : i < j /\ recs[j].id # 0 => recs[i].id < recs[j].id
  /\ \A i \in 1 .. Len(recs) : recs[i].id < next

LogInv == TypeOK /\ IdsIn(records, nextId) /\ (viewer # Nobody => ring)

\* Every line of the ring up to id n is among ids.
Has(n, ids) == \A i \in 1 .. Len(records) : records[i].id \in 1 .. n => records[i].id \in ids

\* What a page has shown.
PageInv ==
  /\ client \in [Viewer -> PageState] /\ session \in Nat
  /\ \A v \in Viewer :
       /\ client[v].session <= session
       /\ client[v].worker = "restart" /\ viewer # Nobody => client[v].session # session
       /\ Current(v) => client[v].last < nextId /\ Has(client[v].last, client[v].shown)

\* What a request in flight carries.
RequestInv ==
  \/ req = NoRequest
  \/ /\ req.stage \in {"latest", "read", "answer"}
     /\ req.by \in Viewer /\ req.active \in BOOLEAN
     /\ viewer # Nobody => req.active
     /\ req.stage \in {"latest", "read"} =>
          req.since \in Nat /\ (Current(req.by) => req.since = client[req.by].last)
     /\ req.stage \in {"read", "answer"} =>
          req.latest \in Nat /\ (Current(req.by) => req.latest < nextId)
     /\ req.stage = "answer" =>
          /\ req.ids \in SUBSET Nat /\ req.dropped \in BOOLEAN
          /\ Current(req.by) =>
               Has(NewLast(client[req.by].last, req), client[req.by].shown \cup req.ids)

ViewerInv == LogInv /\ PageInv /\ RequestInv
-----------------------------------------------------------------------------
(***************************************************************************)
(* Walking the ring.                                                       *)
(***************************************************************************)
LEMMA Shape ==
  ASSUME NEW recs \in Seq(Record)
  PROVE  /\ Len(recs) \in Nat /\ (recs # <<>> <=> Len(recs) > 0) /\ DOMAIN recs = 1 .. Len(recs)
         /\ \A i \in 1 .. Len(recs) : recs[i] \in Record /\ recs[i].id \in Nat
<1>1. Len(recs) \in Nat /\ DOMAIN recs = 1 .. Len(recs) /\ (recs # <<>> <=> Len(recs) > 0)
  BY LenProperties, EmptySeq
<1>2. \A i \in 1 .. Len(recs) : recs[i] \in Record
  BY ElementOfSeq
<1> QED
  BY <1>1, <1>2 DEF Record

LEMMA EmptyWalkable ==
  ASSUME NEW h, NEW n, NEW next
  PROVE  <<>> \in Seq(Record) /\ Walkable(<<>>, h, n) /\ IdsIn(<<>>, next)
<1>1. <<>> \in Seq(Record) /\ Len(<<>>) = 0
  BY EmptySeq
<1> QED
  BY <1>1 DEF Walkable, IdsIn

\* Giving up the oldest records leaves a ring that can be walked.
LEMMA SuffixWalkable ==
  ASSUME NEW recs \in Seq(Record), NEW h, NEW n, Walkable(recs, h, n),
         NEW k \in 0 .. Len(recs), NEW s \in Seq(Record), Len(s) = Len(recs) - k,
         \A i \in 1 .. Len(s) : s[i] = recs[k + i]
  PROVE  Walkable(s, h, n)
<1>1. Len(recs) \in Nat /\ Len(s) \in Nat /\ k \in Nat /\ (s # <<>> <=> Len(s) > 0)
      /\ (recs # <<>> <=> Len(recs) > 0)
  BY Shape
<1>2. ASSUME NEW i \in 1 .. Len(s) - 1
      PROVE  /\ k + i \in 1 .. Len(recs) - 1 /\ i \in 1 .. Len(s) /\ i + 1 \in 1 .. Len(s)
             /\ s[i] = recs[k + i] /\ s[i + 1] = recs[(k + i) + 1]
  <2>1. k + i \in 1 .. Len(recs) - 1 /\ i \in 1 .. Len(s) /\ i + 1 \in 1 .. Len(s) /\ k + (i + 1) = (k + i) + 1
    BY <1>1
  <2> QED
    BY <2>1
<1>3. \A i \in 1 .. Len(s) - 1 : After(s[i]) = s[i + 1].pos
  BY <1>2 DEF Walkable
<1>4. ASSUME NEW i \in 1 .. Len(s) - 1, s[i].id # 0
      PROVE  LET next == IF s[i + 1].id = 0 THEN i + 2 ELSE i + 1
             IN  next <= Len(s) /\ s[next].id = s[i].id + 1
  <2>1. CASE s[i + 1].id = 0
    <3>1. (k + i) + 2 <= Len(recs) /\ recs[(k + i) + 2].id = recs[k + i].id + 1
      BY <1>2, <1>4, <2>1 DEF Walkable
    <3>2. i + 2 \in 1 .. Len(s) /\ k + (i + 2) = (k + i) + 2 /\ i + 2 <= Len(s)
      BY <1>1, <3>1
    <3>3. s[i + 2].id = s[i].id + 1
      BY <1>2, <3>1, <3>2
    <3> QED
      BY <2>1, <3>2, <3>3
  <2>2. CASE s[i + 1].id # 0
    <3>1. (k + i) + 1 <= Len(recs) /\ recs[(k + i) + 1].id = recs[k + i].id + 1
      BY <1>2, <1>4, <2>2 DEF Walkable
    <3>2. i + 1 <= Len(s)
      BY <1>1
    <3>3. s[i + 1].id = s[i].id + 1
      BY <1>2, <3>1
    <3> QED
      BY <2>2, <3>2, <3>3
  <2> QED
    BY <2>1, <2>2
<1>5. s # <<>> => After(s[Len(s)]) = h /\ s[Len(s)].id = n
  <2> SUFFICES ASSUME s # <<>> PROVE After(s[Len(s)]) = h /\ s[Len(s)].id = n
    OBVIOUS
  <2>1. Len(s) \in 1 .. Len(s) /\ k + Len(s) = Len(recs) /\ recs # <<>>
    BY <1>1
  <2>2. s[Len(s)] = recs[Len(recs)]
    BY <2>1
  <2> QED
    BY <2>1, <2>2 DEF Walkable
<1> QED
  BY <1>3, <1>4, <1>5 DEF Walkable

LEMMA SuffixIds ==
  ASSUME NEW recs \in Seq(Record), NEW next, IdsIn(recs, next),
         NEW k \in 0 .. Len(recs), NEW s \in Seq(Record), Len(s) = Len(recs) - k,
         \A i \in 1 .. Len(s) : s[i] = recs[k + i]
  PROVE  IdsIn(s, next)
<1>1. Len(recs) \in Nat /\ Len(s) \in Nat /\ k \in Nat
  BY Shape
<1>2. ASSUME NEW i \in 1 .. Len(s)
      PROVE  k + i \in 1 .. Len(recs) /\ s[i] = recs[k + i]
  BY <1>1
<1>3. \A i \in 1 .. Len(s) : s[i].id < next
  BY <1>2 DEF IdsIn
<1>4. ASSUME NEW i \in 1 .. Len(s), NEW j \in 1 .. Len(s), i < j, s[j].id # 0
      PROVE  s[i].id < s[j].id
  <2>1. k + i < k + j
    BY <1>1, <1>4
  <2> QED
    BY <1>2, <1>4, <2>1 DEF IdsIn
<1> QED
  BY <1>3, <1>4 DEF IdsIn

\* A line written at head.
LEMMA AppendWalkable ==
  ASSUME NEW recs \in Seq(Record), NEW h, NEW n \in Nat, Walkable(recs, h, n),
         NEW r \in Record, r.pos = h, r.id = n + 1
  PROVE  Append(recs, r) \in Seq(Record) /\ Walkable(Append(recs, r), After(r), n + 1)
<1> PICK s : s = Append(recs, r)
  OBVIOUS
<1> PICK L \in Nat : L = Len(recs)
  BY Shape
<1>1. s \in Seq(Record) /\ Len(s) = L + 1 /\ s[L + 1] = r /\ \A i \in 1 .. L : s[i] = recs[i]
  BY AppendProperties
<1>2. recs # <<>> <=> L > 0
  BY Shape
<1>3. ASSUME NEW i \in 1 .. L
      PROVE  After(s[i]) = s[i + 1].pos
  <2>1. CASE i = L
    BY <1>1, <1>2, <2>1 DEF Walkable
  <2>2. CASE i # L
    <3>1. i \in 1 .. L - 1 /\ i + 1 \in 1 .. L
      BY <2>2
    <3> QED
      BY <1>1, <3>1 DEF Walkable
  <2> QED
    BY <2>1, <2>2
<1>4. ASSUME NEW i \in 1 .. L, s[i].id # 0
      PROVE  LET next == IF s[i + 1].id = 0 THEN i + 2 ELSE i + 1
             IN  next <= L + 1 /\ s[next].id = s[i].id + 1
  <2>1. CASE i = L
    <3>1. s[i].id = n /\ s[i + 1].id = n + 1 /\ n + 1 # 0
      BY <1>1, <1>2, <2>1 DEF Walkable
    <3> QED
      BY <2>1, <3>1
  <2>2. CASE i # L
    <3>1. i \in 1 .. L - 1 /\ i + 1 \in 1 .. L /\ s[i] = recs[i] /\ s[i + 1] = recs[i + 1]
      BY <1>1, <2>2
    <3>2. CASE s[i + 1].id = 0
      <4>1. i + 2 <= L /\ recs[i + 2].id = recs[i].id + 1
        BY <1>4, <3>1, <3>2 DEF Walkable
      <4>2. i + 2 \in 1 .. L /\ i + 2 <= L + 1
        BY <4>1
      <4> QED
        BY <1>1, <3>1, <3>2, <4>1, <4>2
    <3>3. CASE s[i + 1].id # 0
      <4>1. recs[i + 1].id = recs[i].id + 1
        BY <1>4, <3>1, <3>3 DEF Walkable
      <4> QED
        BY <3>1, <3>3, <4>1
    <3> QED
      BY <3>2, <3>3
  <2> QED
    BY <2>1, <2>2
<1>5. Walkable(s, After(r), n + 1)
  <2>1. Len(s) - 1 = L
    BY <1>1
  <2> QED
    BY <1>1, <1>3, <1>4, <2>1 DEF Walkable
<1> QED
  BY <1>1, <1>5

\* A line written at the start of the ring, behind a wrap marker at head.
LEMMA WrapWalkable ==
  ASSUME NEW recs \in Seq(Record), NEW h, NEW n \in Nat, Walkable(recs, h, n),
         NEW m \in Record, m.pos = h, m.id = 0,
         NEW r \in Record, r.pos = 0, r.id = n + 1
  PROVE  /\ Append(Append(recs, m), r) \in Seq(Record)
         /\ Walkable(Append(Append(recs, m), r), After(r), n + 1)
<1> PICK t : t = Append(recs, m)
  OBVIOUS
<1> PICK s : s = Append(t, r)
  OBVIOUS
<1> PICK L \in Nat : L = Len(recs)
  BY Shape
<1>1. t \in Seq(Record) /\ Len(t) = L + 1 /\ t[L + 1] = m /\ \A i \in 1 .. L : t[i] = recs[i]
  BY AppendProperties
<1>2. s \in Seq(Record) /\ Len(s) = (L + 1) + 1 /\ s[(L + 1) + 1] = r /\ \A i \in 1 .. L + 1 : s[i] = t[i]
  BY <1>1, AppendProperties
<1>3. Len(s) = L + 2 /\ s[L + 2] = r /\ s[L + 1] = m /\ \A i \in 1 .. L : s[i] = recs[i]
  <2>1. (L + 1) + 1 = L + 2 /\ L + 1 \in 1 .. L + 1 /\ \A i \in 1 .. L : i \in 1 .. L + 1
    OBVIOUS
  <2> QED
    BY <1>1, <1>2, <2>1
<1>4. recs # <<>> <=> L > 0
  BY Shape
<1>5. ASSUME NEW i \in 1 .. L + 1
      PROVE  After(s[i]) = s[i + 1].pos
  <2>1. CASE i = L + 1
    BY <1>3, <2>1 DEF After
  <2>2. CASE i = L
    BY <1>3, <1>4, <2>2 DEF Walkable
  <2>3. CASE i # L /\ i # L + 1
    <3>1. i \in 1 .. L - 1 /\ i + 1 \in 1 .. L /\ i \in 1 .. L
      BY <2>3
    <3> QED
      BY <1>3, <3>1 DEF Walkable
  <2> QED
    BY <2>1, <2>2, <2>3
<1>6. ASSUME NEW i \in 1 .. L + 1, s[i].id # 0
      PROVE  LET next == IF s[i + 1].id = 0 THEN i + 2 ELSE i + 1
             IN  next <= L + 2 /\ s[next].id = s[i].id + 1
  <2>1. i # L + 1
    BY <1>3, <1>6
  <2>2. CASE i = L
    <3>1. s[i].id = n /\ s[i + 1].id = 0 /\ s[i + 2].id = n + 1
      BY <1>3, <1>4, <2>2 DEF Walkable
    <3> QED
      BY <2>2, <3>1
  <2>3. CASE i # L
    <3>1. i \in 1 .. L - 1 /\ i + 1 \in 1 .. L /\ s[i] = recs[i] /\ s[i + 1] = recs[i + 1]
      <4>1. i \in 1 .. L - 1 /\ i + 1 \in 1 .. L /\ i \in 1 .. L
        BY <2>1, <2>3
      <4> QED
        BY <1>3, <4>1
    <3>2. CASE s[i + 1].id = 0
      <4>1. i + 2 <= L /\ recs[i + 2].id = recs[i].id + 1
        BY <1>6, <3>1, <3>2 DEF Walkable
      <4>2. i + 2 \in 1 .. L /\ i + 2 <= L + 2
        BY <4>1
      <4> QED
        BY <1>3, <3>1, <3>2, <4>1, <4>2
    <3>3. CASE s[i + 1].id # 0
      <4>1. recs[i + 1].id = recs[i].id + 1
        BY <1>6, <3>1, <3>3 DEF Walkable
      <4> QED
        BY <3>1, <3>3, <4>1
    <3> QED
      BY <3>2, <3>3
  <2> QED
    BY <2>2, <2>3
<1>7. Walkable(s, After(r), n + 1)
  <2>1. Len(s) - 1 = L + 1
    BY <1>3
  <2> QED
    BY <1>3, <1>5, <1>6, <2>1 DEF Walkable
<1> QED
  BY <1>2, <1>7

LEMMA AppendIds ==
  ASSUME NEW recs \in Seq(Record), NEW next \in Nat, IdsIn(recs, next),
         NEW r \in Record, r.id = next
  PROVE  IdsIn(Append(recs, r), next + 1)
<1> PICK s : s = Append(recs, r)
  OBVIOUS
<1> PICK L \in Nat : L = Len(recs)
  BY Shape
<1>1. Len(s) = L + 1 /\ s[L + 1] = r /\ \A i \in 1 .. L : s[i] = recs[i]
  BY AppendProperties
<1>2. \A i \in 1 .. L + 1 : i \in 1 .. L \/ i = L + 1
  OBVIOUS
<1>3. \A i \in 1 .. L : recs[i].id \in Nat /\ recs[i].id < next
  BY Shape DEF IdsIn
<1>4. \A i \in 1 .. L + 1 : s[i].id < next + 1
  BY <1>1, <1>2, <1>3
<1>5. ASSUME NEW i \in 1 .. L + 1, NEW j \in 1 .. L + 1, i < j, s[j].id # 0
      PROVE  s[i].id < s[j].id
  <2>1. i \in 1 .. L
    BY <1>5
  <2>2. CASE j = L + 1
    BY <1>1, <1>3, <2>1, <2>2
  <2>3. CASE j # L + 1
    <3>1. j \in 1 .. L /\ s[i] = recs[i] /\ s[j] = recs[j]
      BY <1>1, <2>1, <2>3
    <3> QED
      BY <1>5, <2>1, <3>1 DEF IdsIn
  <2> QED
    BY <2>2, <2>3
<1> QED
  BY <1>1, <1>4, <1>5 DEF IdsIn

LEMMA MarkerIds ==
  ASSUME NEW recs \in Seq(Record), NEW next \in Nat \ {0}, IdsIn(recs, next),
         NEW m \in Record, m.id = 0
  PROVE  IdsIn(Append(recs, m), next)
<1> PICK s : s = Append(recs, m)
  OBVIOUS
<1> PICK L \in Nat : L = Len(recs)
  BY Shape
<1>1. Len(s) = L + 1 /\ s[L + 1] = m /\ \A i \in 1 .. L : s[i] = recs[i]
  BY AppendProperties
<1>2. \A i \in 1 .. L + 1 : i \in 1 .. L \/ i = L + 1
  OBVIOUS
<1>3. \A i \in 1 .. L + 1 : s[i].id < next
  BY <1>1, <1>2 DEF IdsIn
<1>4. ASSUME NEW i \in 1 .. L + 1, NEW j \in 1 .. L + 1, i < j, s[j].id # 0
      PROVE  s[i].id < s[j].id
  <2>1. i \in 1 .. L /\ j \in 1 .. L
    BY <1>1, <1>2, <1>4
  <2> QED
    BY <1>1, <1>4, <2>1 DEF IdsIn
<1> QED
  BY <1>1, <1>3, <1>4 DEF IdsIn

\* Every record of new is one of old, a wrap marker or line id.
Renewed(new, old, id) ==
  \A i \in 1 .. Len(new) : new[i].id \in {0, id} \/ \E j \in 1 .. Len(old) : new[i] = old[j]

LEMMA AppendRenewed ==
  ASSUME NEW recs \in Seq(Record), NEW old, NEW id, Renewed(recs, old, id),
         NEW r \in Record, r.id \in {0, id}
  PROVE  Renewed(Append(recs, r), old, id)
<1> PICK s : s = Append(recs, r)
  OBVIOUS
<1> PICK L \in Nat : L = Len(recs)
  BY Shape
<1>1. Len(s) = L + 1 /\ s[L + 1] = r /\ \A i \in 1 .. L : s[i] = recs[i]
  BY AppendProperties
<1>2. \A i \in 1 .. L + 1 : i \in 1 .. L \/ i = L + 1
  OBVIOUS
<1> QED
  BY <1>1, <1>2 DEF Renewed

-----------------------------------------------------------------------------
(***************************************************************************)
(* writeRecordUnlocked.                                                    *)
(***************************************************************************)
LEMMA SmallestOf ==
  ASSUME NEW S \in SUBSET Nat, S # {}
  PROVE  Min(S) \in S /\ \A x \in S : Min(S) <= x
<1>1. PICK n \in S : \A m \in S : ~(<<m, n>> \in OpToRel(<, Nat))
  BY NatLessThanWellFounded, WFMin
<1>2. ASSUME NEW m \in S PROVE n <= m
  <2>1. <<m, n>> \in Nat \X Nat
    OBVIOUS
  <2>2. ~(m < n)
    BY <1>1, <2>1, Zenon DEF OpToRel
  <2> QED
    BY <2>2
<1> QED
  BY <1>2 DEF Min

\* The tail moves over the oldest k records.
LEMMA RoomMade ==
  ASSUME records \in Seq(Record), NEW size
  PROVE  \E k \in 0 .. Len(records) :
           /\ MakeRoom(size) \in Seq(Record) /\ Len(MakeRoom(size)) = Len(records) - k
           /\ \A i \in 1 .. Len(records) - k : MakeRoom(size)[i] = records[k + i]
<1> DEFINE S == {j \in 0 .. Len(records) :
                    \/ freeBytes(SubSeq(records, j + 1, Len(records)), head) >= size
                    \/ j = Len(records)}
<1> PICK L \in Nat : L = Len(records)
  BY Shape
<1>1. S \in SUBSET Nat /\ L \in S /\ S \subseteq 0 .. L
  OBVIOUS
<1>2. Min(S) \in 0 .. L
  BY <1>1, SmallestOf
<1>3. PICK k : k = Min(S)
  OBVIOUS
<1>4. k \in 0 .. L
  BY <1>2, <1>3
<1>5. MakeRoom(size) = SubSeq(records, k + 1, L)
  BY <1>3 DEF MakeRoom
<1>6. \A i \in k + 1 .. L : records[i] \in Record
  BY <1>4, Shape
<1>7. /\ SubSeq(records, k + 1, L) \in Seq(Record)
      /\ Len(SubSeq(records, k + 1, L)) = IF k + 1 <= L THEN L - (k + 1) + 1 ELSE 0
      /\ \A i \in 1 .. L - (k + 1) + 1 : SubSeq(records, k + 1, L)[i] = records[(k + 1) + i - 1]
  BY <1>4, <1>6, SubSeqProperties
<1>8. L - (k + 1) + 1 = L - k /\ (~(k + 1 <= L) => L - k = 0) /\ \A i \in Nat : (k + 1) + i - 1 = k + i
  BY <1>4
<1> QED
  BY <1>4, <1>5, <1>7, <1>8

LEMMA WriteStep ==
  ASSUME TypeOK, IdsIn(records, nextId), NEW len \in 1 .. kMaxLineBytes, writeRecord(len)
  PROVE  /\ records' \in Seq(Record) /\ head' \in 0 .. kBufferBytes - 1 /\ nextId' = nextId + 1
         /\ IdsIn(records', nextId') /\ Renewed(records', records, nextId)
         /\ spoiled' \in BOOLEAN /\ (spoiled => spoiled')
         /\ ~spoiled' => Walkable(records', head', nextId' - 1)
<1> DEFINE size == HeaderBytes + len
           wraps == head + size > kBufferBytes
           pos == IF wraps THEN 0 ELSE head
           m == [pos |-> head, id |-> 0, len |-> 0]
           r == [pos |-> pos, id |-> nextId, len |-> len]
<1>1. /\ HeaderBytes \in Nat /\ kMaxLineBytes \in Nat /\ kBufferBytes \in Nat /\ kBufferBytes > 0
      /\ records \in Seq(Record) /\ head \in 0 .. kBufferBytes - 1 /\ nextId \in Nat \ {0}
      /\ spoiled \in BOOLEAN /\ (~spoiled => Walkable(records, head, nextId - 1))
  BY LogAssumption DEF TypeOK
<1>2. len \in Nat /\ len \in 0 .. kMaxLineBytes /\ size \in Nat /\ pos \in 0 .. kBufferBytes - 1
  BY <1>1
<1>3. m \in Record /\ r \in Record
  BY <1>1, <1>2 DEF Record
<1>4. /\ nextId' = nextId + 1 /\ head' = (pos + size) % kBufferBytes
      /\ spoiled' \in BOOLEAN /\ (spoiled => spoiled')
  BY <1>1 DEF writeRecord
<1>5. head' \in 0 .. kBufferBytes - 1
  <2>1. pos + size \in Nat
    BY <1>1, <1>2
  <2> HIDE DEF pos, size
  <2> QED
    BY <1>1, <1>4, <2>1
<1>6. After(r) = head'
  <2>1. r.id # 0 /\ r.pos + HeaderBytes + r.len = pos + size
    BY <1>1, <1>2
  <2> QED
    BY <1>4, <2>1 DEF After
<1> PICK kept : kept = MakeRoom(size)
  OBVIOUS
<1>7. kept \in Seq(Record) /\ (~spoiled => Walkable(kept, head, nextId - 1)) /\ IdsIn(kept, nextId)
      /\ Renewed(kept, records, nextId)
  <2>1. PICK k \in 0 .. Len(records) :
           /\ kept \in Seq(Record) /\ Len(kept) = Len(records) - k
           /\ \A i \in 1 .. Len(records) - k : kept[i] = records[k + i]
    BY <1>1, RoomMade
  <2>2. Len(records) \in Nat
    BY <1>1, Shape
  <2>3. \A i \in 1 .. Len(kept) : k + i \in 1 .. Len(records) /\ kept[i] = records[k + i]
    BY <2>1, <2>2
  <2>4. ~spoiled => Walkable(kept, head, nextId - 1)
    BY <1>1, <2>1, <2>3, SuffixWalkable
  <2>5. IdsIn(kept, nextId)
    BY <1>1, <2>1, <2>3, SuffixIds
  <2>6. Renewed(kept, records, nextId)
    BY <2>3 DEF Renewed
  <2> QED
    BY <2>1, <2>4, <2>5, <2>6
<1>8. records' \in {<<>>, Append(IF wraps THEN WithMarker(kept) ELSE kept, r)}
  BY DEF writeRecord
<1>9. (nextId - 1) + 1 = nextId /\ nextId - 1 \in Nat /\ nextId' - 1 = nextId
  BY <1>1, <1>4
<1> HIDE DEF size, pos, m, r
<1>10. r.pos = pos /\ r.id = nextId /\ m.pos = head /\ m.id = 0
  BY DEF r, m
<1>11. CASE records' = <<>>
  <2>1. Renewed(<<>>, records, nextId)
    BY EmptySeq DEF Renewed
  <2> QED
    BY <1>4, <1>5, <1>11, <2>1, EmptyWalkable
<1>12. CASE records' = Append(kept, r) /\ ~wraps
  <2>1. r.pos = head
    BY <1>10, <1>12 DEF pos
  <2>2. r.id = (nextId - 1) + 1
    BY <1>9, <1>10
  <2>3. records' \in Seq(Record) /\ (~spoiled' => Walkable(records', After(r), (nextId - 1) + 1))
    <3>1. records' \in Seq(Record)
      BY <1>3, <1>7, <1>12, AppendProperties
    <3> QED
      BY <1>3, <1>4, <1>7, <1>9, <1>12, <2>1, <2>2, <3>1, AppendWalkable
  <2>4. IdsIn(records', nextId + 1)
    BY <1>1, <1>3, <1>7, <1>10, <1>12, AppendIds
  <2>5. Renewed(records', records, nextId)
    BY <1>3, <1>7, <1>10, <1>12, AppendRenewed
  <2> QED
    BY <1>4, <1>5, <1>6, <1>9, <2>3, <2>4, <2>5
<1>13. CASE records' = Append(Append(kept, m), r) /\ wraps
  <2>1. r.pos = 0
    BY <1>10, <1>13 DEF pos
  <2>2. r.id = (nextId - 1) + 1
    BY <1>9, <1>10
  <2>3. ~spoiled' => Walkable(records', After(r), (nextId - 1) + 1)
    BY <1>3, <1>4, <1>7, <1>9, <1>10, <1>13, <2>1, <2>2, WrapWalkable
  <2>4. Append(kept, m) \in Seq(Record) /\ records' \in Seq(Record)
    BY <1>3, <1>7, <1>13, AppendProperties
  <2>5. IdsIn(records', nextId + 1)
    <3>1. IdsIn(Append(kept, m), nextId)
      BY <1>1, <1>3, <1>7, <1>10, MarkerIds
    <3> QED
      BY <1>1, <1>3, <1>10, <1>13, <2>4, <3>1, AppendIds
  <2>6. Renewed(records', records, nextId)
    <3>1. Renewed(Append(kept, m), records, nextId)
      BY <1>3, <1>7, <1>10, AppendRenewed
    <3> QED
      BY <1>3, <1>10, <1>13, <2>4, <3>1, AppendRenewed
  <2> QED
    BY <1>4, <1>5, <1>6, <1>9, <2>3, <2>4, <2>5, <2>6
<1> QED
  BY <1>8, <1>11, <1>12, <1>13 DEF WithMarker, m
-----------------------------------------------------------------------------
(***************************************************************************)
(* Steps of the log and of the lease.                                      *)
(***************************************************************************)
LEMMA InitViewer == Init => ViewerInv
<1> SUFFICES ASSUME Init PROVE ViewerInv
  OBVIOUS
<1>1. /\ viewer = Nobody /\ records = <<>> /\ head = 0 /\ nextId = 1 /\ partialLen = 0
      /\ spoiled \in BOOLEAN /\ ~spoiled
      /\ req = NoRequest /\ client = [v \in Viewer |-> ClosedPage] /\ session = 0
  BY DEF Init
<1>2. records \in Seq(Record) /\ Walkable(records, head, nextId - 1) /\ IdsIn(records, nextId)
  BY <1>1, EmptyWalkable
<1>3. 0 \in 0 .. kMaxLineBytes /\ 0 \in 0 .. kBufferBytes - 1
  BY LogAssumption
<1>4. LogInv
  BY <1>1, <1>2, <1>3 DEF LogInv, TypeOK
<1>5. ClosedPage \in PageState /\ ClosedPage.worker = "off" /\ ClosedPage.session = 0
  BY DEF ClosedPage, PageState
<1>6. PageInv
  BY <1>1, <1>5 DEF PageInv, Current
<1> QED
  BY <1>1, <1>4, <1>6 DEF ViewerInv, RequestInv

LEMMA LogSame ==
  ASSUME LogInv, UNCHANGED <<records, nextId, head, spoiled>>, partialLen' \in 0 .. kMaxLineBytes,
         viewer' = Nobody => viewer = Nobody, viewer' # Nobody => ring'
  PROVE  LogInv'
BY DEF LogInv, TypeOK

\* A line added to the ring is none a page has asked for yet.
LEMMA HasKept ==
  ASSUME LogInv, NEW n \in Nat, n < nextId, NEW ids, Has(n, ids), Renewed(records', records, nextId),
         records' \in Seq(Record)
  PROVE  \A i \in 1 .. Len(records') : records'[i].id \in 1 .. n => records'[i].id \in ids
<1> SUFFICES ASSUME NEW i \in 1 .. Len(records'), records'[i].id \in 1 .. n
             PROVE  records'[i].id \in ids
  OBVIOUS
<1>1. nextId \in Nat
  BY DEF LogInv, TypeOK
<1>2. records'[i].id # 0 /\ records'[i].id # nextId
  BY <1>1
<1>3. PICK j \in 1 .. Len(records) : records'[i] = records[j]
  BY <1>2 DEF Renewed
<1> QED
  BY <1>3 DEF Has

LEMMA NewLastBelow ==
  ASSUME NEW old \in Nat, NEW d, d.latest \in Nat, NEW next \in Nat, old < next, d.latest < next
  PROVE  NewLast(old, d) \in Nat /\ NewLast(old, d) < next
BY DEF NewLast

\* Steps that touch the log and the lease only, and end no capture.
LEMMA LogOnly ==
  ASSUME ViewerInv, UNCHANGED <<viewer, req, client, session>>, spoiled => spoiled',
         records' \in Seq(Record), nextId' \in Nat, nextId <= nextId', Renewed(records', records, nextId)
  PROVE  PageInv' /\ RequestInv'
<1>1. LogInv /\ PageInv /\ RequestInv /\ nextId \in Nat
  BY DEF ViewerInv, LogInv, TypeOK
<1>2. \A v \in Viewer : Current(v)' => Current(v)
  BY DEF Current
<1>3. ASSUME NEW v \in Viewer, Current(v)
      PROVE  client[v].last < nextId' /\ Has(client[v].last, client[v].shown)'
  <2>1. client[v].last \in Nat /\ client[v].last < nextId /\ Has(client[v].last, client[v].shown)
    BY <1>1, <1>3 DEF PageInv, PageState
  <2> PICK n, ids : n \in Nat /\ n = client[v].last /\ ids = client[v].shown
    BY <2>1
  <2>2. \A i \in 1 .. Len(records') : records'[i].id \in 1 .. n => records'[i].id \in ids
    BY <1>1, <2>1, HasKept
  <2> QED
    BY <1>1, <2>1, <2>2 DEF Has
<1>4. PageInv'
  BY <1>1, <1>2, <1>3 DEF PageInv
<1>5. CASE req = NoRequest
  BY <1>4, <1>5 DEF RequestInv
<1>6. CASE req # NoRequest
  <2>1. req.by \in Viewer
    BY <1>1, <1>6 DEF RequestInv
  <2>2. req.stage \in {"read", "answer"} => req.latest \in Nat /\ (Current(req.by) => req.latest < nextId')
    BY <1>1, <1>6 DEF RequestInv
  <2>3. ASSUME req.stage = "answer", Current(req.by)
        PROVE  Has(NewLast(client[req.by].last, req), client[req.by].shown \cup req.ids)'
    <3>1. /\ req.latest \in Nat /\ req.latest < nextId
          /\ Has(NewLast(client[req.by].last, req), client[req.by].shown \cup req.ids)
      BY <1>1, <1>6, <2>3 DEF RequestInv
    <3>2. client[req.by].last \in Nat /\ client[req.by].last < nextId
      BY <1>1, <2>1, <2>3 DEF PageInv, PageState
    <3>3. NewLast(client[req.by].last, req) \in Nat /\ NewLast(client[req.by].last, req) < nextId
      BY <1>1, <3>1, <3>2, NewLastBelow
    <3> PICK n, ids : /\ n \in Nat /\ n = NewLast(client[req.by].last, req)
                      /\ ids = client[req.by].shown \cup req.ids
      BY <3>3
    <3>4. \A i \in 1 .. Len(records') : records'[i].id \in 1 .. n => records'[i].id \in ids
      BY <1>1, <3>1, <3>3, HasKept
    <3>5. NewLast(client[req.by].last, req)' = n /\ (client[req.by].shown \cup req.ids)' = ids
      BY DEF NewLast
    <3> QED
      BY <3>4, <3>5 DEF Has
  <2>4. Current(req.by)' => Current(req.by)
    BY DEF Current
  <2>5. RequestInv'
    BY <1>1, <1>6, <2>1, <2>2, <2>3, <2>4 DEF RequestInv
  <2> QED
    BY <1>4, <2>5
<1> QED
  BY <1>5, <1>6

\* Steps that leave the ring as it is.
LEMMA RingSame ==
  ASSUME ViewerInv, UNCHANGED <<records, nextId, head, spoiled, ring, viewer, req, client, session>>,
         partialLen' \in 0 .. kMaxLineBytes
  PROVE  ViewerInv'
<1>1. LogInv /\ records \in Seq(Record) /\ nextId \in Nat
  BY DEF ViewerInv, LogInv, TypeOK
<1>2. LogInv'
  BY <1>1, LogSame DEF LogInv
<1>3. Renewed(records', records, nextId)
  BY DEF Renewed
<1> QED
  BY <1>1, <1>2, <1>3, LogOnly DEF ViewerInv

LEMMA AppendCharStep ==
  ASSUME ViewerInv, NEW t \in Task, AppendChar(t)
  PROVE  ViewerInv'
<1>1. partialLen \in 0 .. kMaxLineBytes /\ kMaxLineBytes \in Nat
  BY LogAssumption DEF ViewerInv, LogInv, TypeOK
<1>2. partialLen' \in 0 .. kMaxLineBytes
  BY <1>1 DEF AppendChar
<1> QED
  BY <1>2, RingSame DEF AppendChar, lease

LEMMA CommitStep ==
  ASSUME ViewerInv, NEW t \in Task, commitPartialLine(t)
  PROVE  ViewerInv'
<1>1. /\ TypeOK /\ IdsIn(records, nextId) /\ LogInv /\ nextId \in Nat /\ kMaxLineBytes \in Nat
      /\ partialLen \in 0 .. kMaxLineBytes /\ 0 \in 0 .. kMaxLineBytes
  BY LogAssumption DEF ViewerInv, LogInv, TypeOK
<1>2. UNCHANGED <<ring, viewer, req, client, session>> /\ partialLen' = 0
  BY DEF commitPartialLine, lease
<1>3. CASE viewer = Nobody \/ ~ring \/ partialLen = 0
  BY <1>1, <1>2, <1>3, RingSame DEF commitPartialLine
<1>4. CASE ~(viewer = Nobody \/ ~ring \/ partialLen = 0)
  <2>1. partialLen \in 1 .. kMaxLineBytes /\ writeRecord(partialLen)
    BY <1>1, <1>4 DEF commitPartialLine
  <2> PICK len \in 1 .. kMaxLineBytes : len = partialLen
    BY <2>1
  <2>2. /\ records' \in Seq(Record) /\ head' \in 0 .. kBufferBytes - 1 /\ nextId' = nextId + 1
        /\ IdsIn(records', nextId') /\ Renewed(records', records, nextId)
        /\ spoiled' \in BOOLEAN /\ (spoiled => spoiled')
        /\ ~spoiled' => Walkable(records', head', nextId' - 1)
    BY <1>1, <2>1, WriteStep
  <2>3. nextId' \in Nat \ {0} /\ nextId <= nextId'
    BY <1>1, <2>2
  <2>4. LogInv'
    BY <1>1, <1>2, <1>4, <2>2, <2>3 DEF LogInv, TypeOK
  <2> QED
    BY <1>2, <2>2, <2>3, <2>4, LogOnly DEF ViewerInv
<1> QED
  BY <1>3, <1>4

\* A capture that ends takes what was said of its pages with it.
LEMMA CaptureEnds ==
  ASSUME PageInv, RequestInv, viewer' = Nobody, session' = session, client' = client,
         req' = req
  PROVE  PageInv' /\ RequestInv'
<1>1. \A v \in Viewer : ~Current(v)'
  BY DEF Current
<1>2. PageInv'
  BY <1>1 DEF PageInv
<1>3. CASE req = NoRequest
  BY <1>2, <1>3 DEF RequestInv
<1>4. CASE req # NoRequest
  <2>1. req.by \in Viewer /\ ~Current(req.by)'
    BY <1>4 DEF RequestInv, Current
  <2> QED
    BY <1>2, <1>4, <2>1 DEF RequestInv
<1> QED
  BY <1>3, <1>4

LEMMA ResetLog ==
  ASSUME Reset
  PROVE  LogInv' \/ viewer' # Nobody
<1>1. records' = <<>> /\ head' = 0 /\ nextId' = 1 /\ partialLen' = 0
      /\ spoiled' \in BOOLEAN /\ ~spoiled'
  BY DEF Reset
<1>2. records' \in Seq(Record) /\ Walkable(records', head', nextId' - 1) /\ IdsIn(records', nextId')
  BY <1>1, EmptyWalkable
<1>3. 0 \in 0 .. kMaxLineBytes /\ 0 \in 0 .. kBufferBytes - 1
  BY LogAssumption
<1> QED
  BY <1>1, <1>2, <1>3 DEF LogInv, TypeOK

LEMMA ExpireStep ==
  ASSUME ViewerInv, Expire
  PROVE  ViewerInv'
<1>1. viewer' = Nobody /\ Reset /\ UNCHANGED <<req, client, session>>
  BY DEF Expire
<1> QED
  BY <1>1, ResetLog, CaptureEnds DEF ViewerInv
-----------------------------------------------------------------------------
(***************************************************************************)
(* readSince.                                                              *)
(***************************************************************************)
LEMMA LargestOf ==
  ASSUME NEW n \in Nat, NEW S \in SUBSET (1 .. n), S # {}
  PROVE  Max(S) \in S /\ \A x \in S : Max(S) >= x
<1> DEFINE D == {n - x : x \in S}
<1>1. D \in SUBSET Nat /\ D # {}
  <2>1. \A x \in S : n - x \in Nat
    OBVIOUS
  <2>2. PICK x \in S : TRUE
    OBVIOUS
  <2>3. n - x \in D
    OBVIOUS
  <2> QED
    BY <2>1, <2>3
<1>2. Min(D) \in D /\ \A d \in D : Min(D) <= d
  BY <1>1, SmallestOf
<1>3. PICK x \in S : Min(D) = n - x
  BY <1>2
<1>4. ASSUME NEW y \in S PROVE x >= y
  <2>1. n - y \in D
    OBVIOUS
  <2>2. n - x <= n - y
    BY <1>2, <1>3, <2>1
  <2> QED
    BY <2>2
<1> QED
  BY <1>4 DEF Max

\* An answer holds the oldest lines: with a line, every line before it.
LEMMA FirstLinesOf ==
  ASSUME NEW n \in Nat, NEW lines \in SUBSET (1 .. n)
  PROVE  /\ FirstLines(lines) \in SUBSET lines
         /\ lines # {} => FirstLines(lines) # {}
         /\ \A p \in FirstLines(lines), i \in lines : i <= p => i \in FirstLines(lines)
<1> DEFINE upTo(i) == {j \in lines : j <= i}
<1>1. kMaxLines \in Nat /\ kMaxLines >= 1
  BY LogAssumption
<1>2. IsFiniteSet(1 .. n)
  BY FS_Interval
<1>3. \A i \in lines : IsFiniteSet(upTo(i)) /\ Cardinality(upTo(i)) \in Nat
  <2> SUFFICES ASSUME NEW i \in lines PROVE IsFiniteSet(upTo(i)) /\ Cardinality(upTo(i)) \in Nat
    OBVIOUS
  <2>1. upTo(i) \subseteq 1 .. n
    OBVIOUS
  <2> HIDE DEF upTo
  <2> QED
    BY <1>2, <2>1, FS_Subset, FS_CardinalityType
<1>4. FirstLines(lines) = {i \in lines : Cardinality(upTo(i)) <= kMaxLines}
  BY DEF FirstLines
<1>5. ASSUME lines # {} PROVE FirstLines(lines) # {}
  <2>1. Min(lines) \in lines /\ \A x \in lines : Min(lines) <= x
    BY <1>5, SmallestOf
  <2> PICK m \in lines : \A x \in lines : m <= x
    BY <2>1
  <2>2. ASSUME NEW x \in lines, x <= m PROVE x = m
    <3>1. x \in Nat /\ m \in Nat /\ m <= x
      OBVIOUS
    <3> QED
      BY <2>2, <3>1
  <2>3. m <= m
    <3>1. m \in Nat
      OBVIOUS
    <3> QED
      BY <3>1
  <2>4. upTo(m) = {m}
    BY <2>2, <2>3
  <2>5. Cardinality(upTo(m)) = 1
    BY <2>4, FS_Singleton
  <2> QED
    BY <1>1, <1>4, <2>5
<1>6. ASSUME NEW p \in FirstLines(lines), NEW i \in lines, i <= p
      PROVE  i \in FirstLines(lines)
  <2>1. p \in lines /\ Cardinality(upTo(p)) <= kMaxLines
    BY <1>4
  <2>2. upTo(i) \subseteq upTo(p)
    <3>1. ASSUME NEW x \in lines, x <= i PROVE x <= p
      <4>1. x \in Nat /\ i \in Nat /\ p \in Nat
        BY <2>1
      <4> QED
        BY <1>6, <3>1, <4>1
    <3> QED
      BY <3>1
  <2>3. Cardinality(upTo(i)) <= Cardinality(upTo(p))
    BY <1>3, <2>1, <2>2, FS_Subset
  <2>4. Cardinality(upTo(i)) <= kMaxLines
    BY <1>1, <1>3, <2>1, <2>3
  <2> QED
    BY <1>4, <2>4
<1> HIDE DEF upTo
<1> QED
  BY <1>4, <1>5, <1>6

\* Stages of the request in flight and the page that made it.
LEMMA InFlight ==
  ASSUME ViewerInv, req # NoRequest
  PROVE  /\ req.by \in Viewer /\ nextId \in Nat \ {0} /\ records \in Seq(Record)
         /\ client[req.by] \in PageState /\ client[req.by].last \in Nat
         /\ Current(req.by) => /\ req.active /\ viewer # Nobody /\ ring
                               /\ client[req.by].last < nextId
                               /\ Has(client[req.by].last, client[req.by].shown)
BY DEF ViewerInv, LogInv, TypeOK, PageInv, RequestInv, Current, PageState

\* Steps of the handlers leave the ring and the pages alone.
LEMMA HandlerKeeps ==
  ASSUME ViewerInv, UNCHANGED <<log, viewer, client, session>>
  PROVE  LogInv' /\ PageInv' /\ \A v \in Viewer : Current(v)' <=> Current(v)
<1>1. LogInv'
  BY DEF ViewerInv, LogInv, TypeOK, log
<1>2. \A v \in Viewer : Current(v)' <=> Current(v)
  BY DEF Current, log
<1>3. PageInv'
  BY <1>2 DEF ViewerInv, PageInv, Has, log
<1> QED
  BY <1>1, <1>2, <1>3

LEMMA KeepAliveStep ==
  ASSUME ViewerInv, NEW v \in Viewer, handle_api_logs_get(v)
  PROVE  ViewerInv'
<1>1. UNCHANGED <<log, viewer, client, session>>
  BY DEF handle_api_logs_get
<1>2. LogInv' /\ PageInv' /\ Current(v)' <=> Current(v)
  BY <1>1, HandlerKeeps
<1>3. req' = [stage |-> "latest", by |-> v, since |-> client[v].last, active |-> viewer # Nobody]
  BY DEF handle_api_logs_get
<1>4. /\ req'.stage = "latest" /\ req'.by = v /\ req'.since = client[v].last
      /\ req'.active \in BOOLEAN /\ (viewer # Nobody => req'.active)
  BY <1>3
<1>5. client[v].last \in Nat
  BY DEF ViewerInv, PageInv, PageState
<1>6. RequestInv'
  BY <1>1, <1>4, <1>5 DEF RequestInv
<1> QED
  BY <1>1, <1>2, <1>6, HandlerKeeps DEF ViewerInv

LEMMA GetLatestIdStep ==
  ASSUME ViewerInv, GetLatestId
  PROVE  ViewerInv'
<1>1. UNCHANGED <<log, viewer, client, session>> /\ req.stage = "latest"
  BY DEF GetLatestId, lease
<1>2. LogInv' /\ PageInv' /\ \A v \in Viewer : Current(v)' <=> Current(v)
  BY <1>1, HandlerKeeps
<1>3. req' = [stage |-> "read", by |-> req.by, since |-> req.since, active |-> req.active, latest |-> latestId]
  BY DEF GetLatestId
<1>4. /\ req'.stage = "read" /\ req'.by = req.by /\ req'.since = req.since
      /\ req'.active = req.active /\ req'.latest = latestId
  BY <1>3
<1>5. /\ req.by \in Viewer /\ req.active \in BOOLEAN /\ (viewer # Nobody => req.active)
      /\ req.since \in Nat /\ (Current(req.by) => req.since = client[req.by].last)
  BY <1>1 DEF ViewerInv, RequestInv, NoRequest
<1>6. latestId \in Nat /\ latestId < nextId' /\ nextId \in Nat \ {0}
  BY <1>1 DEF latestId, ViewerInv, LogInv, TypeOK, log
<1>7. RequestInv'
  BY <1>1, <1>2, <1>4, <1>5, <1>6 DEF RequestInv
<1> QED
  BY <1>2, <1>7 DEF ViewerInv

\* An answer cut off by the budget of bytes is one that holds the oldest lines still.
LEMMA CutOf ==
  ASSUME NEW n \in Nat, NEW lines \in SUBSET (1 .. n), NEW a, a \in Cut(FirstLines(lines))
  PROVE  /\ a \in SUBSET lines /\ (lines # {} => a # {})
         /\ \A p \in a, i \in lines : i <= p => i \in a
<1> PICK first : first = FirstLines(lines)
  OBVIOUS
<1>1. /\ first \in SUBSET lines /\ (lines # {} => first # {})
      /\ \A p \in first, i \in lines : i <= p => i \in first
  BY FirstLinesOf
<1>2. /\ a \in SUBSET first /\ (first # {} => a # {})
      /\ \A p \in a, i \in first : i < p => i \in a
  BY DEF Cut
<1>3. ASSUME NEW p \in a, NEW i \in lines, i <= p PROVE i \in a
  <2>1. i \in first /\ i \in Nat /\ p \in Nat
    BY <1>1, <1>2, <1>3
  <2> QED
    BY <1>2, <1>3, <2>1
<1> QED
  BY <1>1, <1>2, <1>3

\* What the response carries.
LEMMA Responded ==
  ASSUME NEW ids, NEW latest, NEW dropped, Respond(ids, latest, dropped)
  PROVE  /\ req'.stage = "answer" /\ req'.by = req.by /\ req'.active = req.active
         /\ req'.ids = ids /\ req'.latest = latest /\ req'.dropped = dropped
BY DEF Respond

\* A poll that finds lines answers with the oldest of them and leaves none out
\* up to the id it names; one that finds none names an id that was the newest
\* before.
LEMMA ReadHas ==
  ASSUME ViewerInv, readSince, Current(req.by), NEW b, b = req.by
  PROVE  /\ req'.latest < nextId
         /\ Has(NewLast(client[b].last, req'), client[b].shown \cup req'.ids)
<1> PICK l : l = client[b].last
  OBVIOUS
<1> PICK shown : shown = client[b].shown
  OBVIOUS
<1>1. req # NoRequest /\ req.stage = "read"
  BY DEF readSince, NoRequest
<1>2. /\ l \in Nat /\ l < nextId /\ nextId \in Nat \ {0} /\ Has(l, shown) /\ req.active /\ viewer # Nobody /\ ring
      /\ ~spoiled
  BY <1>1, InFlight DEF Current
<1>3. req.since = l /\ req.latest \in Nat /\ req.latest < nextId
  BY <1>1 DEF ViewerInv, RequestInv
<1>4. /\ records \in Seq(Record) /\ DOMAIN records = 1 .. Len(records) /\ Len(records) \in Nat
      /\ \A i \in 1 .. Len(records) : records[i].id \in Nat
  BY <1>1, InFlight, Shape
<1>5. IdsIn(records, nextId)
  BY DEF ViewerInv, LogInv
<1> DEFINE beyond == l # 0 /\ l + 1 > latestId
<1> PICK found : found = IF beyond THEN {} ELSE LinesSince(l)
  OBVIOUS
<1>7. found \in SUBSET (1 .. Len(records)) /\ \A i \in found : records[i].id > l
  BY <1>4 DEF LinesSince
<1>6. PICK answer \in SUBSET (1 .. Len(records)) :
        /\ answer \in SUBSET found /\ (found # {} => answer # {})
        /\ \A p \in answer, i \in found : i <= p => i \in answer
        /\ req'.ids = {records[i].id : i \in answer}
        /\ req'.dropped = (~beyond /\ l # 0 /\ found = {})
        /\ req'.latest = IF answer # {} THEN records[Max(answer)].id ELSE req.latest
  <2>1. Reads(req.since) <=> ~beyond
    BY <1>2, <1>3 DEF Reads
  <2>2. CASE beyond
    <3>1. Respond({}, req.latest, FALSE)
      BY <2>1, <2>2 DEF readSince
    <3>2. req'.ids = {} /\ req'.latest = req.latest /\ req'.dropped = FALSE
      BY <3>1, Responded
    <3>3. found = {} /\ {records[i].id : i \in {}} = {}
      BY <2>2
    <3> QED
      BY <2>2, <3>2, <3>3
  <2>3. CASE ~beyond
    <3>1. readLines /\ found = LinesSince(req.since)
      BY <1>2, <1>3, <2>1, <2>3 DEF readSince
    <3>2. PICK answer \in Cut(FirstLines(found)) :
            Respond({records[i].id : i \in answer},
                    IF answer # {} THEN records[Max(answer)].id ELSE req.latest,
                    req.since # 0 /\ found = {})
      BY <3>1 DEF readLines
    <3>3. /\ answer \in SUBSET found /\ (found # {} => answer # {})
          /\ \A p \in answer, i \in found : i <= p => i \in answer
      <4> PICK n \in Nat : n = Len(records)
        BY <1>4
      <4>1. found \in SUBSET (1 .. n) /\ answer \in Cut(FirstLines(found))
        BY <1>7, <3>2
      <4> QED
        BY ONLY <4>1, n \in Nat, CutOf
    <3>4. /\ req'.ids = {records[i].id : i \in answer}
          /\ req'.latest = (IF answer # {} THEN records[Max(answer)].id ELSE req.latest)
          /\ req'.dropped = (req.since # 0 /\ found = {})
      BY <3>2, Responded
    <3> QED
      BY <1>3, <1>7, <2>3, <3>3, <3>4
  <2> QED
    BY <2>2, <2>3
<1>8. /\ answer \in SUBSET found /\ (found # {} => answer # {})
      /\ \A p \in answer, i \in found : i <= p => i \in answer
  BY <1>6
<1>9. ASSUME NEW n, NEW ids, shown \subseteq ids,
             \A i \in 1 .. Len(records) : records[i].id > l /\ records[i].id \in 1 .. n => records[i].id \in ids
      PROVE  Has(n, ids)
  <2> SUFFICES ASSUME NEW i \in 1 .. Len(records), records[i].id \in 1 .. n
               PROVE  records[i].id \in ids
    BY DEF Has
  <2>1. CASE records[i].id > l
    BY <1>9, <2>1
  <2>2. CASE ~(records[i].id > l)
    <3>1. records[i].id \in 1 .. l
      BY <1>2, <1>4, <2>2
    <3> QED
      BY <1>2, <1>9, <3>1 DEF Has
  <2> QED
    BY <2>1, <2>2
<1>10. CASE found # {}
  <2>1. answer # {} /\ answer \in SUBSET (1 .. Len(records)) /\ ~beyond
    BY <1>7, <1>8, <1>10
  <2> PICK p : p = Max(answer)
    OBVIOUS
  <2>2. p \in answer /\ p \in found /\ p \in 1 .. Len(records)
    BY <1>4, <1>8, <2>1, LargestOf
  <2>3. req'.latest = records[p].id /\ records[p].id > l /\ records[p].id \in Nat /\ records[p].id < nextId
    BY <1>4, <1>5, <1>6, <1>7, <2>1, <2>2 DEF IdsIn
  <2>4. NewLast(l, req') = records[p].id
    <3>1. ~req'.dropped
      BY <1>6, <1>10
    <3> QED
      BY <2>3, <3>1 DEF NewLast
  <2>5. ASSUME NEW i \in 1 .. Len(records), records[i].id > l, records[i].id \in 1 .. records[p].id
        PROVE  records[i].id \in shown \cup req'.ids
    <3>1. i \in found
      BY <1>4, <2>1, <2>5 DEF LinesSince
    <3>2. ~(p < i)
      <4>1. ASSUME p < i PROVE FALSE
        <5>1. records[p].id < records[i].id
          BY <1>5, <2>2, <2>5, <4>1 DEF IdsIn
        <5> QED
          BY <1>4, <2>2, <2>5, <5>1
      <4> QED
        BY <4>1
    <3>3. i \in answer
      <4>1. i <= p
        BY <2>2, <3>2
      <4> QED
        BY <1>8, <2>2, <3>1, <4>1
    <3> QED
      BY <1>6, <3>3
  <2>6. Has(NewLast(l, req'), shown \cup req'.ids)
    BY <1>9, <2>4, <2>5
  <2> QED
    BY <2>3, <2>6
<1>11. CASE found = {}
  <2>1. answer = {}
    BY <1>8, <1>11
  <2>2. req'.latest = req.latest
    BY <1>6, <2>1
  <2>3. ASSUME NEW i \in 1 .. Len(records) PROVE ~(records[i].id > l)
    <3>1. CASE beyond
      <4>1. records[i].id \in Nat /\ records[i].id < nextId
        BY <1>4, <1>5 DEF IdsIn
      <4> QED
        BY <1>2, <3>1, <4>1 DEF latestId
    <3>2. CASE ~beyond
      BY <1>4, <1>11, <3>2 DEF LinesSince
    <3> QED
      BY <3>1, <3>2
  <2>4. Has(NewLast(l, req'), shown \cup req'.ids)
    BY <1>9, <2>3
  <2> QED
    BY <1>3, <2>2, <2>4
<1> QED
  BY <1>10, <1>11

LEMMA ReadStep ==
  ASSUME ViewerInv, readSince
  PROVE  ViewerInv'
<1>1. UNCHANGED <<log, viewer, client, session>> /\ req.stage = "read" /\ req # NoRequest
  BY DEF readSince, lease, NoRequest
<1>2. LogInv' /\ PageInv' /\ \A v \in Viewer : Current(v)' <=> Current(v)
  BY <1>1, HandlerKeeps
<1>4. /\ req.by \in Viewer /\ req.active \in BOOLEAN /\ (viewer # Nobody => req.active)
      /\ req.latest \in Nat
  BY <1>1 DEF ViewerInv, RequestInv, NoRequest
<1>3. PICK ids, latest, dropped :
        Respond(ids, latest, dropped) /\ ids \in SUBSET Nat /\ latest \in Nat /\ dropped \in BOOLEAN
  <2>1. CASE ~Reads(req.since) /\ Respond({}, req.latest, FALSE)
    <3>1. {} \in SUBSET Nat /\ FALSE \in BOOLEAN
      OBVIOUS
    <3> QED
      BY <1>4, <2>1, <3>1
  <2>2. CASE readLines
    <3>1. /\ records \in Seq(Record) /\ DOMAIN records = 1 .. Len(records) /\ Len(records) \in Nat
          /\ \A i \in 1 .. Len(records) : records[i].id \in Nat
      BY <1>1, InFlight, Shape
    <3> PICK found : found = LinesSince(req.since)
      OBVIOUS
    <3>2. found \in SUBSET (1 .. Len(records))
      BY <3>1 DEF LinesSince
    <3>3. PICK answer \in Cut(FirstLines(found)) :
            Respond({records[i].id : i \in answer},
                    IF answer # {} THEN records[Max(answer)].id ELSE req.latest,
                    req.since # 0 /\ found = {})
      BY <2>2 DEF readLines
    <3>4. answer \in SUBSET (1 .. Len(records))
      <4> PICK n \in Nat : n = Len(records)
        BY <3>1
      <4>1. answer \in SUBSET found
        <5>1. found \in SUBSET (1 .. n) /\ answer \in Cut(FirstLines(found))
          BY <3>2, <3>3
        <5> QED
          BY ONLY <5>1, n \in Nat, CutOf
      <4> QED
        BY <3>2, <4>1
    <3>5. answer # {} => Max(answer) \in 1 .. Len(records)
      BY <3>1, <3>4, LargestOf
    <3>6. /\ {records[i].id : i \in answer} \in SUBSET Nat
          /\ (IF answer # {} THEN records[Max(answer)].id ELSE req.latest) \in Nat
          /\ (req.since # 0 /\ found = {}) \in BOOLEAN
      BY <1>4, <3>1, <3>4, <3>5
    <3> QED
      BY <3>3, <3>6
  <2>3. CASE readOverrun
    <3>1. Misread \in SUBSET Nat
      BY LogAssumption DEF Misread
    <3>2. PICK ids \in SUBSET Misread, dropped \in BOOLEAN :
            \E latest \in (IF ids = {} THEN {req.latest} ELSE ids) : Respond(ids, latest, dropped)
      BY <2>3 DEF readOverrun
    <3>3. PICK latest \in (IF ids = {} THEN {req.latest} ELSE ids) : Respond(ids, latest, dropped)
      BY <3>2
    <3>4. latest \in Nat /\ ids \in SUBSET Nat
      BY <1>4, <3>1
    <3> QED
      BY <3>3, <3>4
  <2> QED
    BY <2>1, <2>2, <2>3 DEF readSince
<1>5. /\ req'.stage = "answer" /\ req'.by = req.by /\ req'.active = req.active
      /\ req'.dropped \in BOOLEAN /\ req'.ids \in SUBSET Nat /\ req'.latest \in Nat
  BY <1>3, Responded
<1>6. Current(req.by) => /\ req'.latest < nextId
                         /\ Has(NewLast(client[req.by].last, req'), client[req.by].shown \cup req'.ids)
  BY ReadHas
<1>7. Current(req.by)' => /\ req'.latest < nextId'
                          /\ Has(NewLast(client[req.by].last, req), client[req.by].shown \cup req.ids)'
  <2> SUFFICES ASSUME Current(req.by)'
               PROVE  /\ req'.latest < nextId'
                      /\ Has(NewLast(client[req.by].last, req), client[req.by].shown \cup req.ids)'
    OBVIOUS
  <2> PICK b \in Viewer : b = req.by
    BY <1>4
  <2>1. Current(b)' /\ req'.by = b
    BY <1>5 DEF Current
  <2>2. /\ req'.latest < nextId
        /\ Has(NewLast(client[b].last, req'), client[b].shown \cup req'.ids)
    BY <1>2, <1>6, <2>1
  <2> PICK n, all : n = NewLast(client[b].last, req') /\ all = client[b].shown \cup req'.ids
    OBVIOUS
  <2>3. Has(n, all) /\ records' = records /\ nextId' = nextId /\ client' = client
    BY <1>1, <2>2 DEF log
  <2>4. Has(n, all)'
    BY <2>3 DEF Has
  <2>5. NewLast(client[req.by].last, req)' = n /\ (client[req.by].shown \cup req.ids)' = all
    BY <2>1, <2>3 DEF NewLast
  <2> QED
    BY <2>2, <2>3, <2>4, <2>5
<1>8. RequestInv'
  BY <1>1, <1>4, <1>5, <1>7 DEF RequestInv
<1> QED
  BY <1>2, <1>8 DEF ViewerInv
-----------------------------------------------------------------------------
(***************************************************************************)
(* The page.                                                               *)
(***************************************************************************)

\* The page of one viewer changes and nobody's request is disturbed.
LEMMA OnePage ==
  ASSUME PageInv, NEW b \in Viewer, NEW p \in PageState, client' = [client EXCEPT ![b] = p],
         UNCHANGED <<records, nextId, viewer, session, spoiled>>,
         p.session <= session,
         p.worker = "restart" /\ viewer # Nobody => p.session # session,
         p.worker = "poll" /\ p.session = session /\ viewer # Nobody /\ ~spoiled =>
           p.last < nextId /\ Has(p.last, p.shown)
  PROVE  PageInv'
<1>1. client \in [Viewer -> PageState] /\ session \in Nat
  BY DEF PageInv
<1>2. client' \in [Viewer -> PageState] /\ client'[b] = p /\ \A v \in Viewer : v # b => client'[v] = client[v]
  BY <1>1
<1>3. ASSUME NEW v \in Viewer
      PROVE  /\ client'[v].session <= session'
             /\ client'[v].worker = "restart" /\ viewer' # Nobody => client'[v].session # session'
             /\ Current(v)' => client'[v].last < nextId' /\ Has(client[v].last, client[v].shown)'
  <2>1. CASE v = b
    BY <1>2, <2>1 DEF Current, Has
  <2>2. CASE v # b
    <3>1. client'[v] = client[v]
      BY <1>2, <2>2
    <3>2. /\ client[v].session <= session
          /\ client[v].worker = "restart" /\ viewer # Nobody => client[v].session # session
          /\ Current(v) => client[v].last < nextId /\ Has(client[v].last, client[v].shown)
      BY DEF PageInv
    <3>3. Current(v)' <=> Current(v)
      BY <3>1 DEF Current
    <3> QED
      BY <3>1, <3>2, <3>3 DEF Has
  <2> QED
    BY <2>1, <2>2
<1> QED
  BY <1>1, <1>2, <1>3 DEF PageInv

LEMMA AnswerStep ==
  ASSUME ViewerInv, Answer
  PROVE  ViewerInv'
<1>1. req.stage = "answer" /\ req # NoRequest /\ req' = NoRequest /\ UNCHANGED <<log, viewer, session>>
  BY DEF Answer, NoRequest, lease
<1>2. LogInv' /\ RequestInv'
  BY <1>1 DEF ViewerInv, LogInv, TypeOK, log, RequestInv
<1> PICK b \in Viewer : b = req.by
  BY <1>1, InFlight
<1> PICK q : q = client[b]
  OBVIOUS
<1>3. /\ PageInv /\ q \in PageState /\ q.last \in Nat /\ nextId \in Nat \ {0}
      /\ q.session \in Nat /\ q.session <= session
      /\ q.worker = "restart" /\ viewer # Nobody => q.session # session
      /\ Current(b) => q.last < nextId /\ Has(q.last, q.shown)
  BY <1>1, InFlight DEF ViewerInv, PageInv, PageState
<1>4. /\ req.latest \in Nat /\ req.ids \in SUBSET Nat /\ req.active \in BOOLEAN
      /\ viewer # Nobody => req.active
      /\ Current(b) => req.latest < nextId /\ Has(NewLast(q.last, req), q.shown \cup req.ids)
  BY <1>1 DEF ViewerInv, RequestInv
<1> DEFINE p == Showing(q, req)
<1>5. client' = [client EXCEPT ![b] = p]
  BY DEF Answer
<1>6. CASE q.worker # "poll"
  <2>1. p = q
    BY <1>6 DEF Showing
  <2> QED
    BY <1>1, <1>2, <1>3, <1>5, <1>6, <2>1, OnePage DEF ViewerInv, log
<1>7. CASE q.worker = "poll"
  <2>1. NewLast(q.last, req) \in Nat
    BY <1>3, <1>4 DEF NewLast
  <2>2. /\ p \in PageState /\ p.last = NewLast(q.last, req) /\ p.shown = q.shown \cup req.ids
        /\ p.session = q.session /\ p.worker = (IF req.active THEN "poll" ELSE "restart")
    <3>1. p = [q EXCEPT !.last = NewLast(q.last, req), !.shown = q.shown \cup req.ids,
                        !.worker = IF req.active THEN "poll" ELSE "restart"]
      BY <1>7 DEF Showing
    <3>2. q.shown \cup req.ids \in SUBSET Nat
      BY <1>3, <1>4 DEF PageState
    <3>3. (IF req.active THEN "poll" ELSE "restart") \in {"poll", "restart"}
      OBVIOUS
    <3> HIDE DEF p
    <3> QED
      BY <1>3, <2>1, <3>1, <3>2, <3>3 DEF PageState
  <2>3. ~(p.worker = "restart" /\ viewer # Nobody)
    BY <1>4, <2>2
  <2>4. ASSUME p.worker = "poll", p.session = session, viewer # Nobody, ~spoiled
        PROVE  p.last < nextId /\ Has(p.last, p.shown)
    <3>1. Current(b)
      BY <1>7, <2>2, <2>4 DEF Current
    <3>2. NewLast(q.last, req) < nextId
      BY <1>3, <1>4, <3>1, NewLastBelow
    <3> QED
      BY <1>4, <2>2, <3>1, <3>2
  <2>5. UNCHANGED <<records, nextId, viewer, session, spoiled>>
    BY <1>1 DEF log
  <2>6. p.session <= session
    BY <1>3, <2>2
  <2> HIDE DEF p
  <2>7. PageInv'
    BY <1>3, <1>5, <2>2, <2>3, <2>4, <2>5, <2>6, OnePage
  <2> QED
    BY <1>2, <2>7 DEF ViewerInv
<1> QED
  BY <1>6, <1>7

\* enableFor begins a capture, for which no page has shown anything, or leaves the
\* one there is.
LEMMA EnableStep ==
  ASSUME ViewerInv, req = NoRequest, req' = req, NEW v \in Viewer, enableFor(v),
         NEW p \in PageState, client' = [client EXCEPT ![v] = p],
         p.worker = "poll",
         \/ p.session = session' /\ p.last = 0 /\ p.shown = {}
         \/ client[v].worker = "restart" /\ p.session = client[v].session
  PROVE  ViewerInv'
<1>1. /\ viewer \in {Nobody, v} /\ viewer' = v /\ ring' = TRUE
      /\ session' = (IF viewer = Nobody THEN session + 1 ELSE session)
      /\ UNCHANGED <<records, head, nextId, partialLen, spoiled>>
  BY DEF enableFor
<1>2. LogInv /\ PageInv /\ nextId \in Nat \ {0} /\ partialLen \in 0 .. kMaxLineBytes
  BY DEF ViewerInv, LogInv, TypeOK
<1>3. LogInv'
  BY <1>1, <1>2, LogSame
<1>4. /\ client \in [Viewer -> PageState] /\ session \in Nat
      /\ \A u \in Viewer : client[u].session \in Nat /\ client[u].session <= session
  BY <1>2 DEF PageInv, PageState
<1>5. /\ client' \in [Viewer -> PageState] /\ client'[v] = p
      /\ \A u \in Viewer : u # v => client'[u] = client[u]
  BY <1>4
<1>6. session' \in Nat /\ session <= session' /\ (viewer = Nobody => session' = session + 1)
      /\ (viewer # Nobody => session' = session)
  BY <1>1, <1>4
<1>7. p.session \in Nat
  BY DEF PageState
<1>8. ASSUME NEW u \in Viewer
      PROVE  /\ client'[u].session <= session'
             /\ client'[u].worker = "restart" /\ viewer' # Nobody => client'[u].session # session'
             /\ Current(u)' => client'[u].last < nextId' /\ Has(client[u].last, client[u].shown)'
  <2>1. CASE u = v /\ p.session = session' /\ p.last = 0 /\ p.shown = {}
    <3>1. Has(client[u].last, client[u].shown)'
      <4>1. client'[u].last = 0
        BY <1>5, <2>1
      <4>2. \A i : ~(i \in 1 .. 0)
        OBVIOUS
      <4> QED
        BY <4>1, <4>2 DEF Has
    <3> QED
      BY <1>1, <1>2, <1>5, <1>6, <2>1, <3>1
  <2>2. CASE u = v /\ client[v].worker = "restart" /\ p.session = client[v].session
    <3>1. p.session <= session'
      BY <1>4, <1>6, <1>7, <2>2
    <3>2. p.session # session'
      <4>1. CASE viewer = Nobody
        BY <1>4, <1>6, <2>2, <4>1
      <4>2. CASE viewer # Nobody
        BY <1>2, <1>6, <2>2, <4>2 DEF PageInv
      <4> QED
        BY <4>1, <4>2
    <3>3. ~Current(u)'
      BY <1>5, <2>2, <3>2 DEF Current
    <3> QED
      BY <1>5, <2>2, <3>1, <3>3
  <2>3. CASE u # v
    <3>1. client'[u] = client[u]
      BY <1>5, <2>3
    <3>2. CASE viewer = Nobody
      <4>1. client'[u].session <= session' /\ client'[u].session # session'
        BY <1>4, <1>6, <3>1, <3>2
      <4>2. ~Current(u)'
        BY <4>1 DEF Current
      <4> QED
        BY <4>1, <4>2
    <3>3. CASE viewer # Nobody
      <4>1. session' = session /\ (Current(u)' => Current(u))
        BY <1>1, <1>6, <3>1, <3>3 DEF Current
      <4> QED
        BY <1>1, <1>2, <3>1, <3>3, <4>1 DEF PageInv, Has
    <3> QED
      BY <3>2, <3>3
  <2> QED
    BY <2>1, <2>2, <2>3
<1>9. PageInv'
  BY <1>5, <1>6, <1>8 DEF PageInv
<1> QED
  BY <1>3, <1>9 DEF ViewerInv, RequestInv

LEMMA NoMemStep ==
  ASSUME ViewerInv, NEW v \in Viewer, enableForNoMem(v), UNCHANGED <<req, client>>
  PROVE  ViewerInv'
<1>1. viewer' = Nobody /\ ~ring /\ UNCHANGED <<log, session>>
  BY DEF enableForNoMem
<1>2. viewer = Nobody
  BY <1>1 DEF ViewerInv, LogInv
<1>3. LogInv'
  BY <1>1, <1>2 DEF ViewerInv, LogInv, TypeOK, log
<1> QED
  BY <1>1, <1>3, CaptureEnds DEF ViewerInv

LEMMA StartStep ==
  ASSUME ViewerInv, NEW v \in Viewer, startCapture(v)
  PROVE  ViewerInv'
<1>1. req = NoRequest /\ req' = req
  BY DEF startCapture
<1>2. CASE enableForNoMem(v) /\ UNCHANGED client
  BY <1>1, <1>2, NoMemStep
<1>3. CASE /\ enableFor(v)
           /\ client' = [client EXCEPT ![v] = [worker |-> "poll", last |-> 0, session |-> session', shown |-> {}]]
  <2> PICK n : n = session'
    OBVIOUS
  <2> PICK p : p = [worker |-> "poll", last |-> 0, session |-> n, shown |-> {}]
    OBVIOUS
  <2>1. n \in Nat
    BY <1>3 DEF enableFor, ViewerInv, PageInv
  <2>2. p \in PageState /\ p.worker = "poll" /\ p.session = session' /\ p.last = 0 /\ p.shown = {}
    BY <2>1 DEF PageState
  <2>3. client' = [client EXCEPT ![v] = p]
    BY <1>3
  <2> QED
    BY <1>1, <1>3, <2>2, <2>3, EnableStep
<1> QED
  BY <1>2, <1>3 DEF startCapture

LEMMA RestartStep ==
  ASSUME ViewerInv, NEW v \in Viewer, RestartCapture(v)
  PROVE  ViewerInv'
<1>1. req = NoRequest /\ req' = req /\ client[v].worker = "restart"
  BY DEF RestartCapture
<1>2. CASE enableForNoMem(v) /\ UNCHANGED client
  BY <1>1, <1>2, NoMemStep
<1>3. CASE enableFor(v) /\ client' = [client EXCEPT ![v].worker = "poll"]
  <2> PICK q : q = client[v]
    OBVIOUS
  <2> PICK p : p = [q EXCEPT !.worker = "poll"]
    OBVIOUS
  <2>1. q \in PageState
    BY DEF ViewerInv, PageInv
  <2>2. p \in PageState /\ p.worker = "poll" /\ p.session = q.session
    BY <2>1 DEF PageState
  <2>3. client' = [client EXCEPT ![v] = p]
    BY <1>3
  <2>4. client[v].worker = "restart" /\ p.session = client[v].session
    BY <1>1, <2>2
  <2> QED
    BY <1>1, <1>3, <2>2, <2>3, <2>4, EnableStep
<1> QED
  BY <1>2, <1>3 DEF RestartCapture

LEMMA StopStep ==
  ASSUME ViewerInv, NEW v \in Viewer, stopCapture(v)
  PROVE  ViewerInv'
<1>1. req = NoRequest /\ req' = req /\ session' = session /\ client' = [client EXCEPT ![v] = ClosedPage]
  BY DEF stopCapture
<1>2. LogInv /\ PageInv /\ client \in [Viewer -> PageState] /\ session \in Nat
  BY DEF ViewerInv, PageInv
<1>3. ClosedPage \in PageState /\ ClosedPage.worker = "off" /\ ClosedPage.session = 0
  BY DEF ClosedPage, PageState
<1>4. CASE viewer' = Nobody /\ Reset
  <2>1. client' \in [Viewer -> PageState] /\ \A u \in Viewer : client'[u] = client[u] \/ client'[u] = ClosedPage
    BY <1>1, <1>2, <1>3
  <2>2. \A u \in Viewer : ~Current(u)'
    BY <1>4 DEF Current
  <2>3. \A u \in Viewer : client'[u].session <= session
    BY <1>2, <1>3, <2>1 DEF PageInv
  <2>4. PageInv'
    BY <1>1, <1>2, <1>4, <2>1, <2>2, <2>3 DEF PageInv
  <2> QED
    BY <1>1, <1>4, <2>4, ResetLog DEF ViewerInv, RequestInv
<1>5. CASE UNCHANGED <<log, lease>>
  <2>1. UNCHANGED <<records, nextId, viewer, session, spoiled>>
    BY <1>1, <1>5 DEF log, lease
  <2>2. LogInv'
    BY <1>2, <1>5 DEF LogInv, TypeOK, log, lease
  <2> PICK p : p = ClosedPage
    OBVIOUS
  <2>3. p \in PageState /\ p.session <= session /\ ~(p.worker = "restart") /\ ~(p.worker = "poll")
    BY <1>2, <1>3
  <2>4. client' = [client EXCEPT ![v] = p]
    BY <1>1
  <2>5. PageInv'
    BY <1>2, <2>1, <2>3, <2>4, OnePage
  <2> QED
    BY <1>1, <2>2, <2>5 DEF ViewerInv, RequestInv
<1> QED
  BY <1>4, <1>5 DEF stopCapture

LEMMA CloseStep ==
  ASSUME ViewerInv, NEW v \in Viewer, ClosePage(v)
  PROVE  ViewerInv'
<1> PICK p : p = [ClosedPage EXCEPT !.worker = "gone"]
  OBVIOUS
<1>1. client' = [client EXCEPT ![v] = p] /\ UNCHANGED <<log, lease, req, session>>
  BY DEF ClosePage
<1>2. p \in PageState /\ p.worker = "gone" /\ p.session = 0
  BY DEF ClosedPage, PageState
<1>3. PageInv /\ client \in [Viewer -> PageState] /\ session \in Nat
  BY DEF ViewerInv, PageInv
<1>4. UNCHANGED <<records, nextId, viewer, session, spoiled>>
  BY <1>1 DEF log, lease
<1>5. LogInv'
  BY <1>1 DEF ViewerInv, LogInv, TypeOK, log, lease
<1>6. PageInv'
  <2>1. p.session <= session /\ ~(p.worker = "restart") /\ ~(p.worker = "poll")
    BY <1>2, <1>3
  <2> QED
    BY <1>1, <1>2, <1>3, <1>4, <2>1, OnePage
<1>7. CASE req = NoRequest
  BY <1>1, <1>5, <1>6, <1>7 DEF ViewerInv, RequestInv
<1>8. CASE req # NoRequest
  <2> PICK b \in Viewer : b = req.by
    BY <1>8, InFlight
  <2>1. CASE b = v
    <3>1. ~Current(req.by)'
      BY <1>1, <1>2, <1>3, <2>1 DEF Current
    <3> QED
      BY <1>1, <1>4, <1>5, <1>6, <1>8, <3>1 DEF ViewerInv, RequestInv
  <2>2. CASE b # v
    <3>1. client'[b] = client[b]
      BY <1>1, <1>3, <2>2
    <3>2. client'[req'.by] = client[req.by] /\ req' = req
      BY <1>1, <3>1
    <3>3. Current(req.by)' <=> Current(req.by)
      BY <1>4, <3>2 DEF Current
    <3>4. Has(NewLast(client[req.by].last, req), client[req.by].shown \cup req.ids)
            => Has(NewLast(client[req.by].last, req), client[req.by].shown \cup req.ids)'
      BY <1>4, <3>2 DEF Has, NewLast
    <3>5. RequestInv'
      BY <1>4, <1>8, <3>2, <3>3, <3>4 DEF ViewerInv, RequestInv
    <3> QED
      BY <1>5, <1>6, <3>5 DEF ViewerInv
  <2> QED
    BY <2>1, <2>2
<1> QED
  BY <1>7, <1>8

-----------------------------------------------------------------------------
(***************************************************************************)
(* The theorems.                                                           *)
(***************************************************************************)
LEMMA ViewerInvStep == ViewerInv /\ [Next]_vars => ViewerInv'
<1> SUFFICES ASSUME ViewerInv, [Next]_vars PROVE ViewerInv'
  OBVIOUS
<1>1. partialLen \in 0 .. kMaxLineBytes
  BY DEF ViewerInv, LogInv, TypeOK
<1>2. ASSUME NEW t \in Task, AppendBegin(t) PROVE ViewerInv'
  BY <1>1, <1>2, RingSame DEF AppendBegin, log, lease
<1>3. ASSUME NEW t \in Task, AppendChar(t) PROVE ViewerInv'
  BY <1>3, AppendCharStep
<1>4. ASSUME NEW t \in Task, commitPartialLine(t) PROVE ViewerInv'
  BY <1>4, CommitStep
<1>5. CASE Handler
  BY <1>5, GetLatestIdStep, ReadStep, AnswerStep, KeepAliveStep DEF Handler
<1>6. CASE Page
  BY <1>6, StartStep, RestartStep, StopStep, CloseStep DEF Page
<1>7. CASE Elapse
  BY <1>1, <1>7, RingSame DEF Elapse, log
<1>8. CASE Expire
  BY <1>8, ExpireStep
<1>9. CASE UNCHANGED vars
  BY <1>1, <1>9, RingSame DEF vars, log, lease
<1> QED
  BY <1>2, <1>3, <1>4, <1>5, <1>6, <1>7, <1>8, <1>9 DEF Next, Logging

LEMMA ViewerInvAlways == Spec => []ViewerInv
BY InitViewer, ViewerInvStep, PTL DEF Spec

\* Until head passes tail, the ring can be walked from tail to head:
\* writeRecordUnlocked, its wrap markers and advanceTailOneUnlocked leave whole
\* records with consecutive ids, whatever the sizes, also where head just reaches
\* tail; and the ring is empty and no longer overrun while nobody captures.
THEOREM TypeCorrect == Spec => []TypeOK
<1>1. ViewerInv => TypeOK
  BY DEF ViewerInv, LogInv
<1> QED
  BY <1>1, ViewerInvAlways, PTL

\* Polling with lastId skips no line that is in the ring, until head passes tail:
\* the latest id a poll names was read before or together with its lines, and the
\* limits on lines and bytes cut off the newest.
THEOREM NothingSkippedAlways == Spec => []NothingSkipped
<1>1. ViewerInv => NothingSkipped
  <2> SUFFICES ASSUME ViewerInv, NEW v \in Viewer, Current(v), NEW i \in DOMAIN records,
                      records[i].id \in 1 .. client[v].last
               PROVE  records[i].id \in client[v].shown
    BY DEF NothingSkipped, Current
  <2>1. i \in 1 .. Len(records)
    BY Shape DEF ViewerInv, LogInv, TypeOK
  <2> QED
    BY <2>1 DEF ViewerInv, PageInv, Has
<1> QED
  BY <1>1, ViewerInvAlways, PTL
=============================================================================
