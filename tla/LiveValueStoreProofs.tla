------------------------ MODULE LiveValueStoreProofs ------------------------
(***************************************************************************)
(* Theorems about LiveValueStore for every set of registers, every size of *)
(* the store, and any number of publications, requests and restarts.       *)
(***************************************************************************)
EXTENDS LiveValueStore, WellFoundedInduction, TLAPS

-----------------------------------------------------------------------------
(***************************************************************************)
(* Types.                                                                  *)
(***************************************************************************)
EntryType == [valid : BOOLEAN, id : Id \cup {NoId}, value : Nat, last_seen_ms : Nat, update_seq : Nat]
Pub == [stage : {"clear", "name", "fields", "number", "stamp"}, i : Index, id : Id, value : Nat,
        at : 0 .. Wrap - 1, raced : BOOLEAN]
Item == [id : Id \cup {NoId}, at : Index, value : Nat]
Asked == [n : Nat, since : Nat, stranger : BOOLEAN, answered : {FALSE}]
Answered == [n : Nat, since : Nat, stranger : BOOLEAN, answered : {TRUE}, items : SUBSET Item, latest : Nat]
Scan == [stage : {"test", "id", "value"}, i : Nat \ {0}, of : Asked, id : Id \cup {NoId}, items : SUBSET Item]

StoreType ==
  /\ s_live_cache \in [Index -> EntryType]
  /\ s_live_cache_count \in 0 .. MAX_LIVE_CACHED_VALS /\ s_live_update_seq \in Nat /\ published \in Nat
  /\ pub # NoPub => pub \in Pub

PageType ==
  /\ rows \in [Id -> Nat] /\ since \in Nat /\ stranger \in BOOLEAN /\ asked \in Nat
  /\ polls \subseteq Asked \cup Answered
  /\ scan # NoScan => /\ scan \in Scan /\ scan.of \in polls
                      /\ scan.stage \in {"id", "value"} => scan.i \in Index

-----------------------------------------------------------------------------
(***************************************************************************)
(* The inductive invariant: the store.                                     *)
(***************************************************************************)
\* An id is in one entry only, and only beyond the count or in an entry being
\* published is there none.
Unique ==
  /\ \A i, j \in Index : s_live_cache[i].id = s_live_cache[j].id /\ i # j => s_live_cache[i].id = NoId
  /\ \A i \in Index : s_live_cache[i].valid => i <= s_live_cache_count /\ s_live_cache[i].id # NoId
  /\ \A i \in Index : s_live_cache[i].id # NoId => s_live_cache[i].valid \/ (pub # NoPub /\ pub.i = i)

Numbered ==
  /\ \A i \in Index : s_live_cache[i].update_seq <= s_live_update_seq
  /\ \A i, j \in Index : s_live_cache[i].update_seq = s_live_cache[j].update_seq /\ i # j =>
       s_live_cache[i].update_seq = 0

\* The steps of a publication.
Publication ==
  pub # NoPub =>
    /\ \A j \in Index : j # pub.i => s_live_cache[j].id # pub.id
    /\ pub.i <= s_live_cache_count
    /\ pub.value = published
    /\ pub.stage \in {"fields", "number", "stamp"} => s_live_cache[pub.i].id = pub.id
    /\ pub.stage \in {"number", "stamp"} => s_live_cache[pub.i].valid /\ s_live_cache[pub.i].value = pub.value
    /\ pub.stage = "stamp" => \A j \in Index : s_live_cache[j].update_seq < s_live_update_seq

\* Values are numbered by their publications.
Bounded ==
  /\ \A i \in Index : s_live_cache[i].value <= published
  /\ \A p \in polls : p.answered => \A x \in p.items : x.value <= published
  /\ scan # NoScan => \A x \in scan.items : x.value <= published

-----------------------------------------------------------------------------
(***************************************************************************)
(* The inductive invariant: scans, answers and the page.                   *)
(***************************************************************************)
\* A publication and a scan under way at once know of each other.
Raced == pub # NoPub /\ scan # NoScan => pub.raced

\* Beyond n, that a page knows of, is the number about to be given.
Beyond(n) == n <= s_live_update_seq /\ (pub # NoPub /\ pub.stage = "stamp" /\ ~pub.raced => n < s_live_update_seq)

Fresh ==
  /\ ~stranger => Beyond(since)
  /\ \A p \in polls : (~p.stranger => Beyond(p.since)) /\ (p.answered => Beyond(p.latest))

\* An entry published in full, that the page has no reason to miss.
Complete(i) == s_live_cache[i].valid /\ s_live_cache[i].id \notin excused /\ (pub = NoPub \/ pub.i # i)

\* What is asked from n on has not been seen, or is shown.
Known(i, n, foreign) ==
  \/ s_live_cache[i].update_seq > n
  \/ ~foreign /\ rows[s_live_cache[i].id] = s_live_cache[i].value

\* The page shows what it does not ask for: now, and in every request.
Shown ==
  \A i \in Index : Complete(i) =>
    /\ Known(i, since, stranger)
    /\ \A p \in polls : Known(i, p.since, p.stranger) \/ (p.stranger /\ p.answered)

Found(i, items) == \E x \in items : x.id = s_live_cache[i].id /\ x.value = s_live_cache[i].value
Only(i, items) == \A x \in items : x.id = s_live_cache[i].id => x.value = s_live_cache[i].value
Absent(i, items) == \A x \in items : x.id # s_live_cache[i].id
NotBeyond(i, items) == \A x \in items : x.id = s_live_cache[i].id => x.value <= s_live_cache[i].value

\* An answer has the entry's value, or leaves the entry to a later request, or
\* was not asked for it.
Answers ==
  \A p \in polls : p.answered => \A i \in Index : Complete(i) =>
    /\ NotBeyond(i, p.items)
    /\ \/ s_live_cache[i].update_seq > p.latest
       \/ Found(i, p.items) /\ Only(i, p.items)
       \/ s_live_cache[i].update_seq <= p.since /\ ~p.stranger /\ Absent(i, p.items)

\* A scan has handled the entries before scan.i.
Scanned ==
  scan # NoScan => \A i \in Index : Complete(i) =>
    /\ i < scan.i => \/ Found(i, scan.items) /\ Only(i, scan.items)
                     \/ s_live_cache[i].update_seq <= scan.of.since /\ Absent(i, scan.items)
    /\ i >= scan.i => Absent(i, scan.items)
    /\ scan.stage = "value" => (scan.id = s_live_cache[i].id <=> i = scan.i)

StoreInv == StoreType /\ Unique /\ Numbered /\ Publication

LiveInv ==
  /\ StoreInv /\ PageType /\ Bounded /\ Raced /\ Fresh
  /\ Shown /\ Answers /\ Scanned

-----------------------------------------------------------------------------
(***************************************************************************)
(* The store.                                                              *)
(***************************************************************************)
LEMMA ClearedEntry ==
  Cleared \in EntryType /\ Cleared.id = NoId /\ Cleared.valid = FALSE /\ Cleared.update_seq = 0 /\ Cleared.value = 0
BY LiveAssumption DEF Cleared, EntryType, NoValue

LEMMA Indices == Index \subseteq Nat /\ MAX_LIVE_CACHED_VALS \in Nat /\ Wrap \in Nat
BY LiveAssumption DEF Index

LEMMA RealIds == \A id \in Id : id # NoId
BY LiveAssumption

\* An entry chosen for a publication: the id's own, a new one, or one evicted.
LEMMA Begun ==
  ASSUME StoreInv, NEW id \in Id, Publish(id)
  PROVE  /\ pub = NoPub /\ published' = published + 1
         /\ s_live_cache_count \in 0 .. s_live_cache_count' /\ s_live_cache_count' <= MAX_LIVE_CACHED_VALS
         /\ s_live_cache_count' \in Nat
         /\ \/ pub' = NoPub
            \/ /\ pub' \in Pub /\ pub'.id = id /\ pub'.value = published + 1 /\ pub'.raced = (scan # NoScan)
               /\ pub'.stage \in {"clear", "fields"} /\ pub'.i <= s_live_cache_count'
               /\ \A j \in Index : j # pub'.i => s_live_cache[j].id # id
               /\ pub'.stage = "fields" => s_live_cache[pub'.i].id = id
<1> DEFINE record(i, st, t) == [stage |-> st, i |-> i, id |-> id, value |-> published + 1, at |-> t, raced |-> scan # NoScan]
<1>1. pub = NoPub /\ published' = published + 1 /\ published \in Nat /\ s_live_cache_count \in 0 .. MAX_LIVE_CACHED_VALS
  BY DEF Publish, StoreInv, StoreType
<1>2. ASSUME NEW i \in Index, NEW st \in {"clear", "fields"}, NEW t \in 0 .. Wrap - 1
      PROVE  /\ record(i, st, t) \in Pub /\ record(i, st, t).id = id /\ record(i, st, t).value = published + 1
             /\ record(i, st, t).raced = (scan # NoScan) /\ record(i, st, t).stage = st /\ record(i, st, t).i = i
  <2>1. published + 1 \in Nat
    BY <1>1
  <2>2. (scan # NoScan) \in BOOLEAN
    BY Zenon
  <2> QED
    BY <2>1, <2>2 DEF Pub
<1>3. CASE find_live_idx(id) # {}
  <2>1. PICK i \in find_live_idx(id), t \in 0 .. Wrap - 1 : pub' = record(i, "fields", t) /\ s_live_cache_count' = s_live_cache_count
    BY <1>3 DEF Publish
  <2>2. i \in Index /\ i <= s_live_cache_count /\ s_live_cache[i].id = id
    BY <1>1, <2>1, Indices DEF find_live_idx, Index
  <2>3. \A j \in Index : j # i => s_live_cache[j].id # id
    BY <2>2, RealIds DEF StoreInv, Unique
  <2> QED
    BY <1>1, <1>2, <2>1, <2>2, <2>3, Indices
<1>4. CASE find_live_idx(id) = {}
  <2>1. \A j \in Index : s_live_cache[j].id # id
    <3> SUFFICES ASSUME NEW j \in Index, s_live_cache[j].id = id PROVE FALSE
      OBVIOUS
    <3>1. s_live_cache[j].valid /\ j <= s_live_cache_count
      BY <1>1, RealIds DEF StoreInv, Unique
    <3> QED
      BY <1>1, <1>4, <3>1 DEF find_live_idx, Index
  <2>2. CASE s_live_cache_count < MAX_LIVE_CACHED_VALS
    <3>1. PICK t \in 0 .. Wrap - 1 : pub' = record(s_live_cache_count + 1, "clear", t) /\ s_live_cache_count' = s_live_cache_count + 1
      BY <1>4, <2>2, <1>1, Indices DEF Publish
    <3>2. s_live_cache_count + 1 \in Index /\ s_live_cache_count' \in Nat
      BY <1>1, <2>2, <3>1, Indices DEF Index
    <3> QED
      BY <1>1, <1>2, <2>1, <2>2, <3>1, <3>2, Indices
  <2>3. CASE s_live_cache_count = MAX_LIVE_CACHED_VALS
    <3>1. /\ s_live_cache_count' = s_live_cache_count
          /\ pub' = pub \/ \E i \in Evictable, t \in 0 .. Wrap - 1 : pub' = record(i, "clear", t)
      BY <1>4, <2>3, <1>1, Indices DEF Publish
    <3>2. CASE pub' = pub
      BY <1>1, <3>1, <3>2, Indices
    <3>3. CASE \E i \in Evictable, t \in 0 .. Wrap - 1 : pub' = record(i, "clear", t)
      <4>1. PICK i \in Evictable, t \in 0 .. Wrap - 1 : pub' = record(i, "clear", t)
        BY <3>3
      <4>2. i \in Index /\ i <= s_live_cache_count
        BY <2>3, <4>1, Indices DEF Evictable, Index
      <4> QED
        BY <1>1, <1>2, <2>1, <3>1, <4>1, <4>2, Indices
    <3> QED
      BY <3>1, <3>2, <3>3
  <2> QED
    BY <1>1, <2>2, <2>3, Indices
<1> QED
  BY <1>3, <1>4

LEMMA PubFacts ==
  ASSUME StoreInv, pub # NoPub
  PROVE  /\ pub \in Pub /\ pub.i \in Index /\ pub.id \in Id /\ pub.value \in Nat /\ pub.at \in 0 .. Wrap - 1
         /\ s_live_cache[pub.i] \in EntryType
         /\ \A st \in {"clear", "name", "fields", "number", "stamp"} :
              /\ [pub EXCEPT !.stage = st] \in Pub
              /\ [pub EXCEPT !.stage = st].stage = st
              /\ [pub EXCEPT !.stage = st].i = pub.i
              /\ [pub EXCEPT !.stage = st].id = pub.id
              /\ [pub EXCEPT !.stage = st].value = pub.value
              /\ [pub EXCEPT !.stage = st].raced = pub.raced
BY DEF StoreInv, StoreType, Pub

\* What each step of a publication leaves in its entry.
LEMMA Written ==
  ASSUME StoreInv, pub # NoPub, PubClear \/ PubName \/ PubFields \/ PubNumber \/ PubStamp
  PROVE  /\ s_live_cache' \in [Index -> EntryType]
         /\ \A j \in Index : j # pub.i => s_live_cache'[j] = s_live_cache[j]
         /\ UNCHANGED <<s_live_cache_count, published>>
         /\ PubClear => s_live_cache'[pub.i] = Cleared /\ pub' = At("name") /\ pub.stage = "clear"
         /\ PubName => /\ s_live_cache'[pub.i] = [s_live_cache[pub.i] EXCEPT !.id = pub.id]
                       /\ pub' = At("fields") /\ pub.stage = "name"
         /\ PubFields => /\ s_live_cache'[pub.i] = [s_live_cache[pub.i] EXCEPT !.value = pub.value,
                                                     !.last_seen_ms = pub.at, !.valid = TRUE]
                         /\ pub' = At("number") /\ pub.stage = "fields"
         /\ PubNumber => /\ s_live_cache' = s_live_cache /\ pub' = At("stamp") /\ pub.stage = "number"
                         /\ s_live_update_seq' = s_live_update_seq + 1
         /\ PubStamp => /\ s_live_cache'[pub.i] = [s_live_cache[pub.i] EXCEPT !.update_seq = s_live_update_seq]
                        /\ pub' = NoPub /\ pub.stage = "stamp"
         /\ ~PubNumber => s_live_update_seq' = s_live_update_seq
<1> USE PubFacts, ClearedEntry
<1>0. s_live_cache \in [Index -> EntryType] /\ s_live_update_seq \in Nat /\ Wrap \in Nat
  BY Indices DEF StoreInv, StoreType
<1> DEFINE i == pub.i
           e == s_live_cache[pub.i]
<1>1. CASE PubClear
  <2>1. s_live_cache' = [s_live_cache EXCEPT ![i] = Cleared]
    BY <1>1 DEF PubClear, Write
  <2> QED
    BY <1>0, <1>1, <2>1 DEF PubClear, PubName, PubFields, PubNumber, PubStamp, Write
<1>2. CASE PubName
  <2>1. s_live_cache' = [s_live_cache EXCEPT ![i] = [e EXCEPT !.id = pub.id]]
    BY <1>2 DEF PubName, Write, Entry
  <2>2. [e EXCEPT !.id = pub.id] \in EntryType
    BY DEF EntryType
  <2> QED
    BY <1>0, <1>2, <2>1, <2>2 DEF PubClear, PubName, PubFields, PubNumber, PubStamp, Write
<1>3. CASE PubFields
  <2>1. s_live_cache' = [s_live_cache EXCEPT ![i] = [e EXCEPT !.value = pub.value, !.last_seen_ms = pub.at, !.valid = TRUE]]
    BY <1>3 DEF PubFields, Write, Entry
  <2>2. [e EXCEPT !.value = pub.value, !.last_seen_ms = pub.at, !.valid = TRUE] \in EntryType
    <3>1. pub.at \in Nat
      BY <1>0
    <3> QED
      BY <3>1 DEF EntryType
  <2> QED
    BY <1>0, <1>3, <2>1, <2>2 DEF PubClear, PubName, PubFields, PubNumber, PubStamp, Write
<1>4. CASE PubNumber
  <2>1. s_live_cache' = [s_live_cache EXCEPT ![i] = e]
    BY <1>4 DEF PubNumber, Write, Entry
  <2>2. s_live_cache' = s_live_cache
    BY <1>0, <2>1
  <2> QED
    BY <1>0, <1>4, <2>2 DEF PubClear, PubName, PubFields, PubNumber, PubStamp, Write
<1>5. CASE PubStamp
  <2>1. s_live_cache' = [s_live_cache EXCEPT ![i] = [e EXCEPT !.update_seq = s_live_update_seq]]
    BY <1>5 DEF PubStamp, Write, Entry
  <2>2. [e EXCEPT !.update_seq = s_live_update_seq] \in EntryType
    BY <1>0 DEF EntryType
  <2> QED
    BY <1>0, <1>5, <2>1, <2>2 DEF PubClear, PubName, PubFields, PubNumber, PubStamp, Write
<1> QED
  BY <1>1, <1>2, <1>3, <1>4, <1>5

\* The other steps leave the store as it is; a scan that begins only marks the
\* publication as raced.
LEMMA StoreUntouched ==
  ASSUME StoreInv, [Next]_vars, ~Publishing, ~Restart
  PROVE  /\ UNCHANGED <<store, published>>
         /\ pub' = pub \/ (ScanStart /\ pub # NoPub /\ pub' = [pub EXCEPT !.raced = TRUE])
BY DEF Next, Scanning, Page, ScanStart, ScanTest, ScanId, ScanValue, ScanEnd, Step, Poll, ApplyAnswer, LoseAnswer, vars

\* What a step of a publication changes of its entry, field by field.
LEMMA WrittenFields ==
  ASSUME StoreInv, pub # NoPub, PubClear \/ PubName \/ PubFields \/ PubNumber \/ PubStamp
  PROVE  LET e == s_live_cache[pub.i]
             f == s_live_cache'[pub.i]
         IN  /\ PubClear => f.id = NoId /\ f.valid = FALSE /\ f.update_seq = 0 /\ f.value = 0
             /\ PubName => f.id = pub.id /\ f.valid = e.valid /\ f.update_seq = e.update_seq /\ f.value = e.value
             /\ PubFields => f.id = e.id /\ f.valid = TRUE /\ f.update_seq = e.update_seq /\ f.value = pub.value
             /\ PubNumber => f = e
             /\ PubStamp => f.id = e.id /\ f.valid = e.valid /\ f.update_seq = s_live_update_seq /\ f.value = e.value
<1>1. s_live_cache[pub.i] \in EntryType
  BY PubFacts
<1> QED
  BY <1>1, Written, ClearedEntry DEF EntryType

LEMMA PublishingStep ==
  ASSUME StoreInv, pub # NoPub, PubClear \/ PubName \/ PubFields \/ PubNumber \/ PubStamp
  PROVE  StoreInv'
<1> DEFINE e == s_live_cache[pub.i]
           f == s_live_cache'[pub.i]
<1>1. /\ s_live_cache \in [Index -> EntryType] /\ s_live_cache' \in [Index -> EntryType]
      /\ \A j \in Index : j # pub.i => s_live_cache'[j] = s_live_cache[j]
      /\ UNCHANGED <<s_live_cache_count, published>>
      /\ s_live_update_seq \in Nat /\ s_live_update_seq' \in Nat
      /\ s_live_update_seq <= s_live_update_seq'
      /\ pub.i \in Index
  BY Written, PubFacts DEF StoreInv, StoreType
<1>2. \/ pub' = NoPub /\ PubStamp
      \/ /\ pub' \in Pub /\ UNCHANGED <<pub.i, pub.id, pub.value>> /\ ~PubStamp
         /\ PubClear => pub.stage = "clear" /\ pub'.stage = "name"
         /\ PubName => pub.stage = "name" /\ pub'.stage = "fields"
         /\ PubFields => pub.stage = "fields" /\ pub'.stage = "number"
         /\ PubNumber => pub.stage = "number" /\ pub'.stage = "stamp"
  <2>1. CASE PubStamp
    BY <2>1, Written
  <2>2. CASE ~PubStamp
    BY <2>2, Written, PubFacts DEF At
  <2> QED
    BY <2>1, <2>2
<1>3. pub.id # NoId /\ pub.id \in Id
  BY PubFacts, RealIds
<1>4. Unique'
  <2>1. \A j \in Index : j # pub.i => s_live_cache[j].id # f.id \/ f.id = NoId
    <3>1. f.id \in {NoId, pub.id, e.id}
      BY WrittenFields
    <3> QED
      BY <1>1, <3>1 DEF StoreInv, Unique, Publication
  <2>2. f.valid => pub.i <= s_live_cache_count' /\ f.id # NoId
    BY <1>1, <1>2, <1>3, WrittenFields, Written DEF StoreInv, Unique, Publication
  <2>3. f.id # NoId => f.valid \/ (pub' # NoPub /\ pub'.i = pub.i)
    <3>1. CASE PubStamp
      BY <3>1, WrittenFields, Written DEF StoreInv, Publication
    <3>2. CASE ~PubStamp
      <4>1. pub' # NoPub
        BY <1>2, <3>2 DEF Pub, NoPub
      <4> QED
        BY <1>2, <3>2, <4>1
    <3> QED
      BY <3>1, <3>2
  <2>4. \A j, k \in Index : s_live_cache'[j].id = s_live_cache'[k].id /\ j # k => s_live_cache'[j].id = NoId
    BY <1>1, <2>1 DEF StoreInv, Unique
  <2>5. \A j \in Index : s_live_cache'[j].valid => j <= s_live_cache_count' /\ s_live_cache'[j].id # NoId
    BY <1>1, <2>2 DEF StoreInv, Unique
  <2>6. \A j \in Index : s_live_cache'[j].id # NoId => s_live_cache'[j].valid \/ (pub' # NoPub /\ pub'.i = j)
    BY <1>1, <2>3 DEF StoreInv, Unique
  <2> QED
    BY <2>4, <2>5, <2>6 DEF Unique
<1>5. Numbered'
  <2>1. \A j \in Index : s_live_cache[j].update_seq \in Nat
    BY <1>1 DEF EntryType
  <2>2. CASE PubStamp
    <3>1. f.update_seq = s_live_update_seq /\ s_live_update_seq' = s_live_update_seq
      BY <2>2, WrittenFields, Written
    <3>2. \A j \in Index : s_live_cache[j].update_seq < s_live_update_seq
      BY <2>2, Written DEF StoreInv, Publication
    <3> QED
      BY <1>1, <2>1, <3>1, <3>2 DEF StoreInv, Numbered
  <2>3. CASE ~PubStamp
    <3>1. f.update_seq \in {0, e.update_seq}
      BY <2>3, WrittenFields
    <3>2. \A j \in Index : s_live_cache'[j].update_seq \in {0, s_live_cache[j].update_seq}
      BY <1>1, <3>1
    <3> QED
      BY <1>1, <2>1, <3>2 DEF StoreInv, Numbered
  <2> QED
    BY <2>2, <2>3
<1>6. Publication'
  <2> SUFFICES ASSUME pub' # NoPub PROVE Publication'
    BY DEF Publication
  <2>0. ~PubStamp
    BY Written
  <2>1. \A j \in Index : j # pub'.i => s_live_cache'[j].id # pub'.id
    BY <1>1, <1>2, <2>0 DEF StoreInv, Publication
  <2>2. pub'.i <= s_live_cache_count' /\ pub'.value = published'
    BY <1>1, <1>2, <2>0 DEF StoreInv, Publication
  <2>3. pub'.stage \in {"fields", "number", "stamp"} => s_live_cache'[pub'.i].id = pub'.id
    BY <1>2, <2>0, WrittenFields DEF StoreInv, Publication
  <2>4. pub'.stage \in {"number", "stamp"} => s_live_cache'[pub'.i].valid /\ s_live_cache'[pub'.i].value = pub'.value
    BY <1>2, <2>0, WrittenFields DEF StoreInv, Publication
  <2>5. pub'.stage = "stamp" => \A j \in Index : s_live_cache'[j].update_seq < s_live_update_seq'
    <3> SUFFICES ASSUME PubNumber PROVE \A j \in Index : s_live_cache'[j].update_seq < s_live_update_seq'
      BY <1>2, <2>0
    <3>1. s_live_cache' = s_live_cache /\ s_live_update_seq' = s_live_update_seq + 1
      BY Written
    <3>2. \A j \in Index : s_live_cache[j].update_seq \in Nat /\ s_live_cache[j].update_seq <= s_live_update_seq
      BY <1>1 DEF EntryType, StoreInv, Numbered
    <3> QED
      BY <1>1, <3>1, <3>2
  <2> QED
    BY <2>1, <2>2, <2>3, <2>4, <2>5 DEF Publication
<1>7. StoreType'
  BY <1>1, <1>2 DEF StoreInv, StoreType
<1> QED
  BY <1>4, <1>5, <1>6, <1>7 DEF StoreInv

PubSteps == PubClear \/ PubName \/ PubFields \/ PubNumber \/ PubStamp

LEMMA PubStepsPublish == PubSteps => pub # NoPub
BY DEF PubSteps, PubClear, PubName, PubFields, PubNumber, PubStamp, Write

\* find_live_idx and alloc_live_entry keep the entries apart, and a publication
\* gives its entry a number of its own.
LEMMA StoreStep ==
  ASSUME StoreInv, [Next]_vars
  PROVE  StoreInv'
<1>1. CASE \E id \in Id : Publish(id)
  <2>1. PICK id \in Id : Publish(id)
    BY <1>1
  <2>2. UNCHANGED <<s_live_cache, s_live_update_seq>>
    BY <2>1 DEF Publish
  <2>3. /\ pub = NoPub /\ published' = published + 1 /\ s_live_cache_count <= s_live_cache_count'
        /\ s_live_cache_count \in Nat /\ s_live_cache_count' \in 0 .. MAX_LIVE_CACHED_VALS
    BY <2>1, Begun, Indices
  <2>4. StoreType'
    BY <2>1, <2>2, <2>3, Begun DEF StoreInv, StoreType
  <2>5. Unique'
    <3>1. \A i \in Index : s_live_cache'[i].valid => i <= s_live_cache_count'
      BY <2>2, <2>3, Indices DEF StoreInv, Unique
    <3> QED
      BY <2>2, <2>3, <3>1 DEF StoreInv, Unique
  <2>6. Numbered'
    BY <2>2 DEF StoreInv, Numbered
  <2>7. Publication'
    <3> SUFFICES ASSUME pub' # NoPub PROVE Publication'
      BY DEF Publication
    <3> QED
      BY <2>1, <2>2, <2>3, Begun DEF Publication
  <2> QED
    BY <2>4, <2>5, <2>6, <2>7 DEF StoreInv
<1>2. CASE PubSteps
  BY <1>2, PubStepsPublish, PublishingStep DEF PubSteps
<1>3. CASE Restart
  <2>1. /\ s_live_cache' = [i \in Index |-> Cleared] /\ s_live_cache_count' = 0 /\ s_live_update_seq' = 0
        /\ pub' = NoPub /\ published' = published
    BY <1>3 DEF Restart
  <2>2. \A i \in Index : s_live_cache'[i] = Cleared
    BY <2>1
  <2>3. StoreType'
    BY <2>1, ClearedEntry, Indices DEF StoreInv, StoreType
  <2> QED
    BY <2>1, <2>2, <2>3, ClearedEntry DEF StoreInv, Unique, Numbered, Publication
<1>4. CASE ~Publishing /\ ~Restart
  <2>1. UNCHANGED <<s_live_cache, s_live_cache_count, s_live_update_seq, published>>
    BY <1>4, StoreUntouched DEF store
  <2>2. CASE pub' = pub
    BY <2>1, <2>2 DEF StoreInv, StoreType, Unique, Numbered, Publication
  <2>3. CASE pub # NoPub /\ pub' = [pub EXCEPT !.raced = TRUE]
    <3>1. pub' \in Pub /\ pub'.stage = pub.stage /\ pub'.i = pub.i /\ pub'.id = pub.id /\ pub'.value = pub.value /\ pub' # NoPub
      BY <2>3, PubFacts DEF Pub, NoPub
    <3> QED
      BY <2>1, <2>3, <3>1 DEF StoreInv, StoreType, Unique, Numbered, Publication
  <2> QED
    BY <1>4, <2>2, <2>3, StoreUntouched
<1> QED
  BY <1>1, <1>2, <1>3, <1>4 DEF Publishing, PubSteps

LEMMA InitStore == Init => StoreInv
<1> SUFFICES ASSUME Init PROVE StoreInv
  OBVIOUS
<1>1. /\ s_live_cache = [i \in Index |-> Cleared] /\ s_live_cache_count = 0 /\ s_live_update_seq = 0
      /\ pub = NoPub /\ published = 0
  BY DEF Init, Empty
<1>2. \A i \in Index : s_live_cache[i] = Cleared
  BY <1>1
<1>3. StoreType
  BY <1>1, ClearedEntry, Indices DEF StoreType
<1> QED
  BY <1>1, <1>2, <1>3, ClearedEntry DEF StoreInv, Unique, Numbered, Publication

THEOREM StoreInvariant == Spec => []StoreInv
BY InitStore, StoreStep, PTL DEF Spec

\* No register has two entries and no number is given twice, however the store
\* fills up, evicts and restarts.
THEOREM TypeCorrect == Spec => []TypeOK
<1>1. StoreInv => TypeOK
  <2> SUFFICES ASSUME StoreInv PROVE TypeOK
    OBVIOUS
  <2>1. \A i \in Index : s_live_cache[i].update_seq \in 0 .. s_live_update_seq
    BY DEF StoreInv, StoreType, Numbered, EntryType
  <2> QED
    BY <2>1 DEF StoreInv, StoreType, Unique, Numbered, TypeOK
<1> QED
  BY <1>1, StoreInvariant, PTL

-----------------------------------------------------------------------------
(***************************************************************************)
(* Scans, answers and the page: types, and what bounds them.               *)
(***************************************************************************)
\* Max is defined on bounded sets.
LEMMA LargestOf ==
  ASSUME NEW S \in SUBSET Nat, S # {}, NEW n \in Nat, \A x \in S : x <= n
  PROVE  Max(S) \in S /\ \A x \in S : Max(S) >= x
<1> DEFINE D == {n - x : x \in S}
<1>1. D \in SUBSET Nat /\ D # {}
  <2>1. \A x \in S : n - x \in Nat
    OBVIOUS
  <2>2. PICK x \in S : TRUE
    OBVIOUS
  <2>3. n - x \in D
    OBVIOUS
  <2> QED
    BY <2>1, <2>3
<1>2. PICK d \in D : \A e \in D : ~(<<e, d>> \in OpToRel(<, Nat))
  BY <1>1, NatLessThanWellFounded, WFMin
<1>3. \A e \in D : ~(e < d)
  <2> SUFFICES ASSUME NEW e \in D PROVE ~(e < d)
    OBVIOUS
  <2>1. <<e, d>> \in Nat \X Nat
    BY <1>1
  <2> QED
    BY <1>2, <2>1, Zenon DEF OpToRel
<1>4. PICK m \in S : d = n - m
  OBVIOUS
<1>5. \A x \in S : m >= x
  <2> SUFFICES ASSUME NEW x \in S PROVE m >= x
    OBVIOUS
  <2>1. n - x \in D /\ x \in Nat /\ m \in Nat
    OBVIOUS
  <2>2. ~(n - x < n - m)
    BY <1>3, <1>4, <2>1
  <2> HIDE DEF D
  <2> QED
    BY <2>1, <2>2
<1> QED
  BY <1>5 DEF Max

LEMMA PollFacts ==
  ASSUME PageType, NEW p \in polls
  PROVE  /\ p.since \in Nat /\ p.stranger \in BOOLEAN /\ p.answered \in BOOLEAN
         /\ p.answered => p \in Answered /\ p.latest \in Nat /\ p.items \in SUBSET Item
         /\ ~p.answered => p \in Asked
BY DEF PageType, Asked, Answered

\* The positions of an answer's items are those of the scan: one is the last.
LEMMA LastFacts ==
  ASSUME NEW items \in SUBSET Item, NEW id, \E x \in items : x.id = id
  PROVE  LastOf(items, id) \in items /\ LastOf(items, id).id = id
<1> DEFINE places == {x.at : x \in {y \in items : y.id = id}}
<1>1. places \in SUBSET Nat /\ places # {} /\ \A n \in places : n <= MAX_LIVE_CACHED_VALS
  BY LiveAssumption DEF Item, Index
<1>2. PICK x \in items : x.id = id /\ x.at = Max(places)
  <2>1. Max(places) \in places
    BY <1>1, Indices, LargestOf
  <2> QED
    BY <2>1
<1>3. \A y \in items : y.id = id => y.at <= x.at
  <2> SUFFICES ASSUME NEW y \in items, y.id = id PROVE y.at <= x.at
    OBVIOUS
  <2>1. y.at \in places
    OBVIOUS
  <2> QED
    BY <1>1, <1>2, <2>1, Indices, LargestOf
<1> QED
  BY <1>2, <1>3, Zenon DEF LastOf

\* The values an answer has for an id, and what the page makes of it.
Values(p, id) == {x.value : x \in {y \in p.items : y.id = id}}
Applied(p) ==
  /\ p \in polls /\ p.answered
  /\ since' = p.latest /\ stranger' = FALSE /\ polls' = polls \ {p}
  /\ \A id \in Id : IF \E x \in p.items : x.id = id THEN rows'[id] \in Values(p, id) ELSE rows'[id] = rows[id]
  /\ \A id \in Id : id \notin excused' =>
       id \notin excused /\ ~(rows'[id] < rows[id] /\ \E q \in polls \ {p} : q.since > p.latest)
  /\ rows' \in [Id -> Nat]
  /\ UNCHANGED <<store, pub, scan, asked, published, boots>>

LEMMA ApplyFacts ==
  ASSUME PageType, ApplyAnswer
  PROVE  \E p \in polls : Applied(p)
<1>1. PICK p \in polls :
        LET new == [id \in Id |-> IF \E x \in p.items : x.id = id THEN LastOf(p.items, id).value ELSE rows[id]]
        IN  /\ p.answered
            /\ rows' = new
            /\ since' = NewSince(p)
            /\ stranger' = FALSE
            /\ excused' = excused \cup SetBack(p, new)
            /\ polls' = polls \ {p}
            /\ UNCHANGED <<store, pub, scan, asked, published, boots>>
  BY DEF ApplyAnswer
<1> DEFINE new == [id \in Id |-> IF \E x \in p.items : x.id = id THEN LastOf(p.items, id).value ELSE rows[id]]
<1>2. p.items \in SUBSET Item
  BY <1>1, PollFacts
<1>3. ASSUME NEW id \in Id
      PROVE  /\ IF \E x \in p.items : x.id = id THEN new[id] \in Values(p, id) ELSE new[id] = rows[id]
             /\ new[id] \in Nat
  <2>1. CASE \E x \in p.items : x.id = id
    <3>1. new[id] = LastOf(p.items, id).value
      BY <2>1
    <3>2. LastOf(p.items, id) \in p.items /\ LastOf(p.items, id).id = id
      BY <1>2, <2>1, LastFacts
    <3> HIDE DEF new
    <3>3. new[id] \in Values(p, id)
      BY <3>1, <3>2 DEF Values
    <3>4. LastOf(p.items, id).value \in Nat
      BY <1>2, <3>2 DEF Item
    <3> QED
      BY <2>1, <3>1, <3>3, <3>4
  <2>2. CASE ~\E x \in p.items : x.id = id
    BY <2>2 DEF PageType
  <2> QED
    BY <2>1, <2>2
<1>4. rows' = new
  BY <1>1
<1>5. ASSUME NEW id \in Id, id \notin excused'
      PROVE  id \notin excused /\ ~(rows'[id] < rows[id] /\ \E q \in polls \ {p} : q.since > p.latest)
  BY <1>1, <1>5 DEF SetBack
<1>6. p.answered /\ since' = p.latest /\ stranger' = FALSE /\ polls' = polls \ {p}
      /\ UNCHANGED <<store, pub, scan, asked, published, boots>>
  BY <1>1 DEF NewSince
<1>7. rows' \in [Id -> Nat]
  BY <1>3, <1>4
<1> HIDE DEF new
<1>8. \A id \in Id : IF \E x \in p.items : x.id = id THEN rows'[id] \in Values(p, id) ELSE rows'[id] = rows[id]
  BY <1>3, <1>4
<1> QED
  BY <1>5, <1>6, <1>7, <1>8 DEF Applied

LEMMA ScanFacts ==
  ASSUME PageType, scan # NoScan
  PROVE  /\ scan \in Scan /\ scan.i \in Nat \ {0} /\ scan.of \in Asked /\ scan.of \in polls
         /\ scan.id \in Id \cup {NoId} /\ scan.items \in SUBSET Item
BY DEF PageType, Scan

\* What a scan reads of an entry.
LEMMA ScanSteps ==
  ASSUME StoreInv, PageType, ScanTest \/ ScanId \/ ScanValue
  PROVE  /\ scan # NoScan /\ scan' \in Scan /\ scan'.of = scan.of /\ scan.i \in Index
         /\ UNCHANGED <<store, pub, polls, page, asked, published, boots, excused>>
         /\ ScanTest => /\ scan'.items = scan.items /\ scan'.stage \in {"test", "id"}
                        /\ \/ scan'.stage = "id" /\ scan'.i = scan.i
                           \/ /\ scan'.stage = "test" /\ scan'.i = scan.i + 1
                              /\ s_live_cache[scan.i].valid => s_live_cache[scan.i].update_seq <= scan.of.since
         /\ ScanId => /\ scan'.stage = "value" /\ scan'.id = s_live_cache[scan.i].id /\ scan'.i = scan.i
                      /\ scan'.items = scan.items
         /\ ScanValue => /\ scan.stage = "value" /\ scan'.stage = "test" /\ scan'.i = scan.i + 1
                         /\ scan'.items = scan.items \cup {[id |-> scan.id, at |-> scan.i, value |-> s_live_cache[scan.i].value]}
<1>1. scan # NoScan /\ UNCHANGED <<store, pub, polls, page, asked, published, boots, excused>>
  BY DEF ScanTest, ScanId, ScanValue, Step, store, page
<1>2. scan.i \in Index
  <2>1. scan.i \in Nat \ {0} /\ s_live_cache_count \in 0 .. MAX_LIVE_CACHED_VALS
    BY <1>1, ScanFacts DEF StoreInv, StoreType
  <2>2. ScanTest => scan.i <= s_live_cache_count
    BY DEF ScanTest
  <2> QED
    BY <1>1, <2>1, <2>2, Indices DEF ScanTest, ScanId, ScanValue, PageType, Index
<1>3. /\ s_live_cache[scan.i] \in EntryType /\ scan \in Scan /\ scan.i + 1 \in Nat \ {0} /\ scan.of.since \in Nat
      /\ s_live_cache[scan.i].update_seq \in Nat
  <2>1. s_live_cache[scan.i] \in EntryType
    BY <1>2 DEF StoreInv, StoreType
  <2>2. scan \in Scan /\ scan.i + 1 \in Nat \ {0} /\ scan.of \in Asked
    BY <1>1, ScanFacts
  <2> QED
    BY <2>1, <2>2 DEF Asked, EntryType
<1>4. CASE ScanTest
  <2>1. \/ scan' = [scan EXCEPT !.stage = "id"]
        \/ /\ scan' = Onward(scan.items)
           /\ s_live_cache[scan.i].valid => ~(s_live_cache[scan.i].update_seq > scan.of.since)
    BY <1>4 DEF ScanTest, Step, Seen
  <2>2. scan.stage = "test"
    BY <1>4 DEF ScanTest
  <2>3. /\ [scan EXCEPT !.stage = "id"] \in Scan /\ Onward(scan.items) \in Scan
        /\ Onward(scan.items).stage = "test" /\ Onward(scan.items).i = scan.i + 1 /\ Onward(scan.items).items = scan.items
        /\ Onward(scan.items).of = scan.of
    BY <1>3 DEF Onward, Scan
  <2> QED
    BY <1>1, <1>2, <1>3, <2>1, <2>2, <2>3 DEF Scan, ScanId, ScanValue
<1>5. CASE ScanId
  <2>1. scan' = [scan EXCEPT !.stage = "value", !.id = s_live_cache[scan.i].id] /\ scan.stage = "id"
    BY <1>5 DEF ScanId, Step, Seen
  <2> QED
    BY <1>1, <1>2, <1>3, <2>1 DEF Scan, EntryType, ScanTest, ScanValue
<1>6. CASE ScanValue
  <2> DEFINE item == [id |-> scan.id, at |-> scan.i, value |-> s_live_cache[scan.i].value]
  <2>1. scan' = Onward(scan.items \cup {item}) /\ scan.stage = "value"
    BY <1>6 DEF ScanValue, Step, Seen
  <2>2. item \in Item
    BY <1>2, <1>3 DEF Scan, EntryType, Item
  <2>3. scan.items \cup {item} \in SUBSET Item
    BY <1>3, <2>2 DEF Scan
  <2> HIDE DEF item
  <2>4. /\ Onward(scan.items \cup {item}) \in Scan /\ Onward(scan.items \cup {item}).items = scan.items \cup {item}
        /\ Onward(scan.items \cup {item}).stage = "test" /\ Onward(scan.items \cup {item}).i = scan.i + 1
        /\ Onward(scan.items \cup {item}).of = scan.of
    BY <1>3, <2>3 DEF Onward, Scan
  <2> QED
    BY <1>1, <1>2, <1>3, <2>1, <2>4 DEF ScanTest, ScanId, item
<1> QED
  BY <1>4, <1>5, <1>6

\* A scan that begins and one that ends.
LEMMA StartFacts ==
  ASSUME PageType, ScanStart
  PROVE  /\ scan = NoScan /\ scan' \in Scan /\ scan'.of \in polls /\ scan'.stage = "test" /\ scan'.i = 1 /\ scan'.items = {}
         /\ UNCHANGED <<store, polls, page, asked, published, boots, excused>>
         /\ pub' = IF pub = NoPub THEN NoPub ELSE [pub EXCEPT !.raced = TRUE]
<1>1. PICK p \in polls : /\ ~p.answered /\ scan = NoScan
                         /\ scan' = [stage |-> "test", i |-> 1, of |-> p, id |-> NoId, items |-> {}]
                         /\ UNCHANGED <<store, polls, page, asked, published, boots, excused>>
                         /\ pub' = IF pub = NoPub THEN NoPub ELSE [pub EXCEPT !.raced = TRUE]
  BY DEF ScanStart, Step
<1>2. p \in Asked
  BY <1>1, PollFacts
<1> QED
  BY <1>1, <1>2 DEF Scan

LEMMA EndFacts ==
  ASSUME StoreInv, PageType, ScanEnd
  PROVE  /\ scan # NoScan /\ scan.stage = "test" /\ scan.i > s_live_cache_count /\ scan' = NoScan
         /\ UNCHANGED <<store, pub, page, asked, published, boots, excused>>
         /\ \E q \in Answered : /\ polls' = (polls \ {scan.of}) \cup {q}
                                /\ q.since = scan.of.since /\ q.stranger = scan.of.stranger
                                /\ q.items = scan.items /\ q.latest = s_live_update_seq
<1>1. scan # NoScan /\ scan.stage = "test" /\ scan.i > s_live_cache_count /\ scan' = NoScan
      /\ UNCHANGED <<store, pub, page, asked, published, boots, excused>>
  BY DEF ScanEnd, Step
<1> DEFINE q == [n |-> scan.of.n, since |-> scan.of.since, stranger |-> scan.of.stranger, answered |-> TRUE,
                 items |-> scan.items, latest |-> s_live_update_seq]
<1>2. scan.of \in Asked /\ scan.items \in SUBSET Item /\ s_live_update_seq \in Nat
  BY <1>1, ScanFacts DEF StoreInv, StoreType
<1>3. q \in Answered
  BY <1>2 DEF Asked, Answered
<1>4. polls' = (polls \ {scan.of}) \cup {q}
  BY DEF ScanEnd
<1> QED
  BY <1>1, <1>3, <1>4

LEMMA PageStep ==
  ASSUME StoreInv, PageType, Bounded, [Next]_vars
  PROVE  PageType'
<1>1. CASE Publishing
  <2>1. UNCHANGED <<scan, polls, page, asked>>
    BY <1>1 DEF Publishing, Publish, PubClear, PubName, PubFields, PubNumber, PubStamp, Write
  <2> QED
    BY <2>1 DEF PageType, page
<1>2. CASE Poll
  <2>1. /\ asked' = asked + 1 /\ UNCHANGED <<scan, rows, since, stranger>>
        /\ polls' = polls \cup {[n |-> asked + 1, since |-> since, stranger |-> stranger, answered |-> FALSE]}
    BY <1>2 DEF Poll, page
  <2>2. asked + 1 \in Nat /\ since \in Nat /\ stranger \in BOOLEAN
    BY DEF PageType
  <2>3. [n |-> asked + 1, since |-> since, stranger |-> stranger, answered |-> FALSE] \in Asked
    BY <2>2, Zenon DEF Asked
  <2> QED
    BY <2>1, <2>2, <2>3 DEF PageType
<1>3. CASE ScanStart
  <2>1. UNCHANGED <<polls, rows, since, stranger, asked>>
    BY <1>3, StartFacts DEF page
  <2> QED
    BY <1>3, <2>1, StartFacts DEF PageType
<1>4. CASE ScanTest \/ ScanId \/ ScanValue
  <2>1. UNCHANGED <<polls, rows, since, stranger, asked>> /\ scan' \in Scan /\ scan'.of \in polls
    BY <1>4, ScanSteps, ScanFacts DEF page
  <2>2. scan'.stage \in {"id", "value"} => scan'.i \in Index
    BY <1>4, ScanSteps
  <2> QED
    BY <2>1, <2>2 DEF PageType
<1>5. CASE ScanEnd
  <2>1. PICK q \in Answered : polls' = (polls \ {scan.of}) \cup {q}
    BY <1>5, EndFacts
  <2>2. UNCHANGED <<rows, since, stranger, asked>> /\ scan' = NoScan
    BY <1>5, EndFacts DEF page
  <2> QED
    BY <2>1, <2>2 DEF PageType
<1>6. CASE ApplyAnswer
  <2>1. PICK p \in polls : Applied(p)
    BY <1>6, ApplyFacts DEF StoreInv, StoreType
  <2>2. p.answered /\ since' \in Nat /\ stranger' \in BOOLEAN /\ rows' \in [Id -> Nat] /\ UNCHANGED <<scan, asked>>
    BY <2>1, PollFacts DEF Applied
  <2>3. scan # NoScan => scan.of # p
    BY <2>2, ScanFacts DEF Asked
  <2> QED
    BY <2>1, <2>2, <2>3 DEF Applied, PageType
<1>7. CASE LoseAnswer
  <2>1. PICK p \in polls : p.answered /\ polls' = polls \ {p} /\ UNCHANGED <<scan, page, asked>>
    BY <1>7 DEF LoseAnswer
  <2>2. scan # NoScan => scan.of # p
    BY <2>1, ScanFacts DEF Asked
  <2> QED
    BY <2>1, <2>2 DEF PageType, page
<1>8. CASE Restart
  BY <1>8 DEF Restart, PageType
<1>9. CASE UNCHANGED vars
  BY <1>9 DEF vars, page, PageType
<1> QED
  BY <1>1, <1>2, <1>3, <1>4, <1>5, <1>6, <1>7, <1>8, <1>9 DEF Next, Scanning, Page

LEMMA BoundedStep ==
  ASSUME StoreInv, PageType, Bounded, [Next]_vars
  PROVE  Bounded'
<1>0. /\ published \in Nat /\ s_live_cache \in [Index -> EntryType]
      /\ \A i \in Index : s_live_cache[i].value \in Nat
  BY DEF StoreInv, StoreType, EntryType
<1>1. CASE \E id \in Id : Publish(id)
  <2>1. published' = published + 1 /\ UNCHANGED <<s_live_cache, scan, polls>>
    BY <1>1 DEF Publish
  <2>2. \A p \in polls : p.answered => \A x \in p.items : x.value \in Nat
    BY PollFacts DEF Item
  <2>3. scan # NoScan => \A x \in scan.items : x.value \in Nat
    BY ScanFacts DEF Item
  <2> QED
    BY <1>0, <2>1, <2>2, <2>3 DEF Bounded
<1>2. CASE PubSteps
  <2>1. UNCHANGED <<scan, polls, published>> /\ pub # NoPub
    BY <1>2, PubStepsPublish DEF PubSteps, PubClear, PubName, PubFields, PubNumber, PubStamp, Write
  <2>2. s_live_cache'[pub.i].value <= published /\ \A j \in Index : j # pub.i => s_live_cache'[j] = s_live_cache[j]
    <3>1. s_live_cache'[pub.i].value \in {0, s_live_cache[pub.i].value, pub.value}
      BY <1>2, <2>1, WrittenFields DEF PubSteps
    <3>2. pub.value = published /\ pub.i \in Index
      BY <2>1, PubFacts DEF StoreInv, Publication
    <3>3. s_live_cache[pub.i].value <= published
      BY <3>2 DEF Bounded
    <3>4. \A j \in Index : j # pub.i => s_live_cache'[j] = s_live_cache[j]
      BY <1>2, <2>1, Written DEF PubSteps
    <3> QED
      BY <1>0, <3>1, <3>2, <3>3, <3>4
  <2> QED
    BY <1>0, <2>1, <2>2 DEF Bounded
<1>3. CASE Restart
  <2>1. /\ s_live_cache' = [i \in Index |-> Cleared] /\ polls' = {} /\ scan' = NoScan /\ published' = published
    BY <1>3 DEF Restart
  <2>2. \A i \in Index : s_live_cache'[i].value = 0
    BY <2>1, ClearedEntry
  <2> QED
    BY <1>0, <2>1, <2>2 DEF Bounded
<1>4. CASE ScanEnd
  <2>1. PICK q \in Answered : polls' = (polls \ {scan.of}) \cup {q} /\ q.items = scan.items
    BY <1>4, EndFacts
  <2>2. UNCHANGED <<s_live_cache, published>> /\ scan' = NoScan /\ scan # NoScan
    BY <1>4, EndFacts DEF store
  <2> QED
    BY <2>1, <2>2 DEF Bounded
<1>5. CASE ScanTest \/ ScanId \/ ScanValue
  <2>1. UNCHANGED <<s_live_cache, published, polls>> /\ scan # NoScan
    BY <1>5, ScanSteps DEF store
  <2>2. scan'.items = scan.items \/ scan'.items = scan.items \cup {[id |-> scan.id, at |-> scan.i, value |-> s_live_cache[scan.i].value]}
    BY <1>5, ScanSteps
  <2>3. s_live_cache[scan.i].value <= published
    BY <1>5, ScanSteps DEF Bounded
  <2> QED
    BY <2>1, <2>2, <2>3 DEF Bounded
<1>6. CASE ScanStart
  BY <1>6, StartFacts DEF store, Bounded
<1>7. CASE Poll
  <2>1. /\ UNCHANGED <<scan, s_live_cache, published>>
        /\ polls' = polls \cup {[n |-> asked + 1, since |-> since, stranger |-> stranger, answered |-> FALSE]}
    BY <1>7 DEF Poll, store
  <2> QED
    BY <2>1 DEF Bounded
<1>8. CASE ApplyAnswer \/ LoseAnswer \/ UNCHANGED vars
  <2>1. UNCHANGED <<scan, s_live_cache, published>> /\ polls' \subseteq polls
    BY <1>8 DEF ApplyAnswer, LoseAnswer, vars, store
  <2> QED
    BY <2>1 DEF Bounded
<1> QED
  BY <1>1, <1>2, <1>3, <1>4, <1>5, <1>6, <1>7, <1>8 DEF Next, Publishing, PubSteps, Scanning, Page

LEMMA RacedStep ==
  ASSUME StoreInv, PageType, Raced, [Next]_vars
  PROVE  Raced'
<1>1. CASE \E id \in Id : Publish(id)
  <2>1. PICK id \in Id : Publish(id)
    BY <1>1
  <2>2. scan' = scan
    BY <2>1 DEF Publish
  <2>3. pub' = NoPub \/ pub'.raced = (scan # NoScan)
    BY <2>1, Begun
  <2> QED
    BY <2>2, <2>3, Zenon DEF Raced
<1>2. CASE PubSteps
  <2>1. scan' = scan /\ pub # NoPub
    BY <1>2, PubStepsPublish DEF PubSteps, PubClear, PubName, PubFields, PubNumber, PubStamp, Write
  <2>2. pub' = NoPub \/ \E st \in {"clear", "name", "fields", "number", "stamp"} : pub' = [pub EXCEPT !.stage = st]
    BY <1>2, <2>1, Written DEF PubSteps, At
  <2>3. pub' = NoPub \/ pub'.raced = pub.raced
    BY <2>1, <2>2, PubFacts
  <2> QED
    BY <2>1, <2>3 DEF Raced
<1>3. CASE ScanStart
  <2>1. pub' = IF pub = NoPub THEN NoPub ELSE [pub EXCEPT !.raced = TRUE]
    BY <1>3, StartFacts
  <2>2. pub # NoPub => [pub EXCEPT !.raced = TRUE].raced
    BY PubFacts DEF Pub
  <2> QED
    BY <2>1, <2>2 DEF Raced
<1>4. CASE ScanTest \/ ScanId \/ ScanValue
  BY <1>4, ScanSteps DEF Raced
<1>5. CASE ScanEnd \/ Restart
  <2>1. scan' = NoScan
    BY <1>5, EndFacts DEF Restart
  <2> QED
    BY <2>1 DEF Raced
<1>6. CASE Page \/ UNCHANGED vars
  BY <1>6 DEF Page, Poll, ApplyAnswer, LoseAnswer, vars, Raced
<1> QED
  BY <1>1, <1>2, <1>3, <1>4, <1>5, <1>6 DEF Next, Publishing, PubSteps, Scanning

\* A publication not raced gives a number beyond all that is known: the page
\* will ask for it.
LEMMA FreshStep ==
  ASSUME StoreInv, PageType, Bounded, Raced, Fresh, [Next]_vars
  PROVE  Fresh'
<1>0. s_live_update_seq \in Nat /\ since \in Nat /\ \A p \in polls : p.since \in Nat /\ (p.answered => p.latest \in Nat)
  BY PollFacts DEF StoreInv, StoreType, PageType
<1>1. CASE \E id \in Id : Publish(id)
  <2>1. PICK id \in Id : Publish(id)
    BY <1>1
  <2>2. UNCHANGED <<s_live_update_seq, polls, since, stranger>> /\ pub = NoPub
    BY <2>1 DEF Publish, page
  <2>3. pub' = NoPub \/ pub'.stage # "stamp"
    BY <2>1, Begun
  <2> QED
    BY <2>2, <2>3 DEF Fresh, Beyond
<1>2. CASE PubSteps
  <2>1. UNCHANGED <<polls, since, stranger>> /\ pub # NoPub
    BY <1>2, PubStepsPublish DEF PubSteps, PubClear, PubName, PubFields, PubNumber, PubStamp, Write, page
  <2>2. CASE PubNumber
    <3>1. s_live_update_seq' = s_live_update_seq + 1
      BY <2>2, <2>1, Written
    <3>2. \A n \in Nat : n <= s_live_update_seq => Beyond(n)'
      BY <1>0, <3>1 DEF Beyond
    <3> QED
      BY <1>0, <2>1, <3>2 DEF Fresh, Beyond
  <2>3. CASE ~PubNumber
    <3>1. s_live_update_seq' = s_live_update_seq
      BY <1>2, <2>1, <2>3, Written DEF PubSteps
    <3>2. pub' = NoPub \/ pub'.stage # "stamp"
      <4>1. pub' = NoPub \/ \E st \in {"name", "fields", "number"} : pub' = At(st)
        BY <1>2, <2>1, <2>3, Written DEF PubSteps
      <4> QED
        BY <2>1, <4>1, PubFacts DEF At
    <3> QED
      BY <2>1, <3>1, <3>2 DEF Fresh, Beyond
  <2> QED
    BY <2>2, <2>3
<1>3. CASE ScanStart
  <2>1. UNCHANGED <<polls, since, stranger, s_live_update_seq>> /\ (pub' = NoPub \/ pub'.raced)
    <3>1. pub # NoPub => [pub EXCEPT !.raced = TRUE].raced
      BY PubFacts DEF Pub
    <3> QED
      BY <1>3, <3>1, StartFacts DEF store, page
  <2> QED
    BY <2>1 DEF Fresh, Beyond
<1>4. CASE ScanTest \/ ScanId \/ ScanValue
  BY <1>4, ScanSteps DEF Fresh, Beyond, store, page
<1>5. CASE ScanEnd
  <2>1. PICK q \in Answered : /\ polls' = (polls \ {scan.of}) \cup {q} /\ q.latest = s_live_update_seq
                              /\ q.since = scan.of.since /\ q.stranger = scan.of.stranger
    BY <1>5, EndFacts
  <2>2. UNCHANGED <<pub, since, stranger, s_live_update_seq>> /\ scan # NoScan
    BY <1>5, EndFacts DEF store, page
  <2>3. pub # NoPub => pub.raced
    BY <2>2 DEF Raced
  <2>4. Beyond(s_live_update_seq) /\ scan.of \in polls
    BY <1>0, <2>2, <2>3, ScanFacts DEF Beyond
  <2>5. (~q.stranger => Beyond(q.since)) /\ Beyond(q.latest)
    BY <2>1, <2>4 DEF Fresh
  <2>6. \A n : Beyond(n)' <=> Beyond(n)
    BY <2>2 DEF Beyond
  <2> QED
    BY <2>1, <2>2, <2>5, <2>6 DEF Fresh
<1>6. CASE Poll
  <2>1. /\ UNCHANGED <<pub, since, stranger, s_live_update_seq>>
        /\ polls' = polls \cup {[n |-> asked + 1, since |-> since, stranger |-> stranger, answered |-> FALSE]}
    BY <1>6 DEF Poll, store, page
  <2>2. \A n : Beyond(n)' <=> Beyond(n)
    BY <2>1 DEF Beyond
  <2> QED
    BY <2>1, <2>2 DEF Fresh
<1>7. CASE ApplyAnswer
  <2>1. PICK p \in polls : Applied(p)
    BY <1>7, ApplyFacts DEF StoreInv, StoreType
  <2>2. UNCHANGED <<pub, s_live_update_seq>>
    BY <2>1 DEF Applied, store
  <2>3. \A n : Beyond(n)' <=> Beyond(n)
    BY <2>2 DEF Beyond
  <2> QED
    BY <2>1, <2>3 DEF Fresh, Applied
<1>8. CASE LoseAnswer \/ UNCHANGED vars
  <2>1. UNCHANGED <<pub, since, stranger, s_live_update_seq>> /\ polls' \subseteq polls
    BY <1>8 DEF LoseAnswer, vars, store, page
  <2> QED
    BY <2>1 DEF Fresh, Beyond
<1>9. CASE Restart
  BY <1>9 DEF Restart, Fresh
<1> QED
  BY <1>1, <1>2, <1>3, <1>4, <1>5, <1>6, <1>7, <1>8, <1>9 DEF Next, Publishing, PubSteps, Scanning, Page

-----------------------------------------------------------------------------
(***************************************************************************)
(* The page shows what it does not ask for.                                *)
(***************************************************************************)
\* A publication has numbered entry i, and no request, answer or scan under way
\* and not the page itself knows of that number yet.
Stamped(i) ==
  /\ scan = NoScan /\ s_live_cache'[i].value = published /\ s_live_cache'[i].update_seq = s_live_update_seq
  /\ s_live_update_seq > since
  /\ \A p \in polls : /\ s_live_update_seq > p.since \/ (p.stranger /\ p.answered)
                      /\ p.answered => s_live_update_seq > p.latest
  /\ UNCHANGED <<scan, polls, rows, since, stranger, published>>

LEMMA StampedEntry ==
  ASSUME StoreInv, PageType, Raced, Fresh, PubStamp, NEW i \in Index, i = pub.i, Complete(i)'
  PROVE  Stamped(i)
<1>1. pub # NoPub /\ pub.stage = "stamp"
  BY DEF PubStamp, Write
<1>2. pub.i \in Index /\ pub.id \in Id /\ s_live_cache[pub.i].id = pub.id /\ s_live_cache[pub.i].value = published
  BY <1>1, PubFacts DEF StoreInv, Publication
<1>3. /\ s_live_cache'[pub.i].id = pub.id /\ s_live_cache'[pub.i].value = published
      /\ s_live_cache'[pub.i].update_seq = s_live_update_seq
  BY <1>1, <1>2, WrittenFields
<1>4. ~Missed(s_live_update_seq)
  <2>1. s_live_cache'[i].id \notin excused'
    BY DEF Complete
  <2>2. Missed(s_live_update_seq) => excused' = excused \cup {pub.id}
    BY DEF PubStamp
  <2> QED
    BY <1>3, <2>1, <2>2
<1>5. ~pub.raced /\ scan = NoScan
  BY <1>1, <1>4 DEF Missed, Raced
<1>6. s_live_update_seq \in Nat /\ since \in Nat /\ stranger \in BOOLEAN
  BY DEF StoreInv, StoreType, PageType
<1>7. s_live_update_seq > since
  BY <1>1, <1>4, <1>5, <1>6 DEF Missed, Fresh, Beyond
<1>8. ASSUME NEW p \in polls
      PROVE  /\ s_live_update_seq > p.since \/ (p.stranger /\ p.answered)
             /\ p.answered => s_live_update_seq > p.latest
  BY <1>1, <1>4, <1>5, <1>6, PollFacts DEF Missed, Fresh, Beyond
<1>9. UNCHANGED <<scan, polls, rows, since, stranger, published>>
  BY DEF PubStamp, Write, page
<1> QED
  BY <1>3, <1>5, <1>7, <1>8, <1>9 DEF Stamped

\* Only the end of a publication completes an entry; the others stay as they are.
LEMMA CompleteStep ==
  ASSUME StoreInv, PageType, Raced, Fresh, [Next]_vars, NEW i \in Index, Complete(i)'
  PROVE  \/ Complete(i) /\ s_live_cache'[i] = s_live_cache[i]
         \/ PubStamp /\ Stamped(i)
<1>1. CASE \E id \in Id : Publish(id)
  BY <1>1 DEF Publish, Complete
<1>2. CASE PubStamp
  <2>1. pub # NoPub /\ pub.id \in Id
    BY <1>2, PubFacts DEF PubStamp, Write
  <2>2. CASE i = pub.i
    BY <1>2, <2>2, StampedEntry
  <2>3. CASE i # pub.i
    <3>1. s_live_cache'[i] = s_live_cache[i] /\ s_live_cache[i].id # pub.id
      BY <1>2, <2>1, <2>3, Written DEF StoreInv, Publication
    <3>2. s_live_cache'[i].valid /\ s_live_cache'[i].id \notin excused'
      BY DEF Complete
    <3>3. excused \ {pub.id} \subseteq excused'
      BY <1>2 DEF PubStamp
    <3> QED
      BY <2>3, <3>1, <3>2, <3>3 DEF Complete
  <2> QED
    BY <2>2, <2>3
<1>3. CASE PubClear \/ PubName \/ PubFields \/ PubNumber
  <2>1. pub # NoPub /\ excused' = excused
    BY <1>3 DEF PubClear, PubName, PubFields, PubNumber, Write
  <2>2. pub' # NoPub /\ pub'.i = pub.i
    <3>1. \E st \in {"name", "fields", "number", "stamp"} : pub' = [pub EXCEPT !.stage = st]
      BY <1>3, <2>1, Written DEF At
    <3>2. pub' \in Pub /\ pub'.i = pub.i
      BY <2>1, <3>1, PubFacts
    <3> QED
      BY <3>2 DEF Pub, NoPub
  <2>3. i # pub.i
    BY <2>2 DEF Complete
  <2>4. s_live_cache'[i] = s_live_cache[i]
    BY <1>3, <2>1, <2>3, Written
  <2> QED
    BY <2>1, <2>3, <2>4 DEF Complete
<1>4. CASE Restart
  <2>1. s_live_cache'[i] = Cleared
    BY <1>4 DEF Restart
  <2> QED
    BY <2>1, ClearedEntry DEF Complete
<1>5. CASE ~Publishing /\ ~Restart
  <2>1. s_live_cache' = s_live_cache
    BY <1>5, StoreUntouched DEF store
  <2>2. pub' = pub \/ (pub' # NoPub /\ pub'.i = pub.i)
    <3>1. pub # NoPub => [pub EXCEPT !.raced = TRUE] # NoPub /\ [pub EXCEPT !.raced = TRUE].i = pub.i
      BY PubFacts DEF Pub, NoPub
    <3> QED
      BY <1>5, <3>1, StoreUntouched
  <2>3. s_live_cache[i].id \notin excused' => s_live_cache[i].id \notin excused
    BY <1>5 DEF Next, Scanning, Page, ScanStart, ScanTest, ScanId, ScanValue, ScanEnd, Step, Poll, ApplyAnswer, LoseAnswer, vars
  <2> QED
    BY <2>1, <2>2, <2>3 DEF Complete
<1> QED
  BY <1>1, <1>2, <1>3, <1>4, <1>5 DEF Publishing

LEMMA CompleteFacts ==
  ASSUME StoreInv, NEW i \in Index, Complete(i)
  PROVE  /\ s_live_cache[i].id \in Id /\ s_live_cache[i].id # NoId
         /\ s_live_cache[i].value \in Nat /\ s_live_cache[i].update_seq \in Nat
         /\ s_live_cache[i].valid /\ i <= s_live_cache_count
         /\ \A j \in Index : s_live_cache[j].id = s_live_cache[i].id => j = i
<1>1. s_live_cache[i] \in EntryType
  BY DEF StoreInv, StoreType
<1> QED
  BY <1>1 DEF Complete, StoreInv, Unique, EntryType

\* The row that an answer leaves.
LEMMA AppliedRow ==
  ASSUME StoreInv, PageType, NEW p \in polls, Applied(p),
         NEW i \in Index, Complete(i), NotBeyond(i, p.items)
  PROVE  LET id == s_live_cache[i].id
             v  == s_live_cache[i].value
         IN  /\ rows'[id] = rows[id] \/ rows'[id] <= v
             /\ Found(i, p.items) /\ Only(i, p.items) => rows'[id] = v
             /\ Absent(i, p.items) => rows'[id] = rows[id]
             /\ rows[id] \in Nat /\ rows'[id] \in Nat
<1> DEFINE id == s_live_cache[i].id
           v == s_live_cache[i].value
           V == Values(p, id)
<1>1. id \in Id /\ v \in Nat
  BY CompleteFacts
<1>2. IF \E x \in p.items : x.id = id THEN rows'[id] \in V ELSE rows'[id] = rows[id]
  BY <1>1 DEF Applied
<1>3. \A n \in V : n <= v
  BY DEF Values, NotBeyond
<1>4. Only(i, p.items) => \A n \in V : n = v
  BY DEF Values, Only
<1>5. Found(i, p.items) => \E x \in p.items : x.id = id
  BY DEF Found
<1>6. Absent(i, p.items) => ~\E x \in p.items : x.id = id
  BY DEF Absent
<1>7. rows[id] \in Nat /\ rows'[id] \in Nat
  BY <1>1 DEF PageType, Applied
<1> HIDE DEF V, id, v
<1>8. rows'[id] = rows[id] \/ rows'[id] <= v
  BY <1>2, <1>3
<1>9. Found(i, p.items) /\ Only(i, p.items) => rows'[id] = v
  BY <1>2, <1>4, <1>5
<1>10. Absent(i, p.items) => rows'[id] = rows[id]
  BY <1>2, <1>6
<1> QED
  BY <1>7, <1>8, <1>9, <1>10 DEF id, v

\* What the page is shown never falls behind what it asks for next: an answer
\* carries what it covers, and an older one that arrives late excuses itself.
LEMMA ShownStep ==
  ASSUME LiveInv, [Next]_vars
  PROVE  Shown'
<1> USE DEF LiveInv
<1>1. CASE Publishing
  <2> SUFFICES ASSUME NEW i \in Index, Complete(i)'
               PROVE  Known(i, since, stranger)' /\ \A p \in polls' : Known(i, p.since, p.stranger)' \/ (p.stranger /\ p.answered)
    BY DEF Shown
  <2>1. UNCHANGED <<rows, since, stranger, polls>>
    BY <1>1 DEF Publishing, Publish, PubClear, PubName, PubFields, PubNumber, PubStamp, Write, page
  <2>2. CASE Complete(i) /\ s_live_cache'[i] = s_live_cache[i]
    BY <2>1, <2>2 DEF Shown, Known
  <2>3. CASE PubStamp /\ Stamped(i)
    BY <2>1, <2>3 DEF Stamped, Known
  <2> QED
    BY <2>2, <2>3, CompleteStep
<1>2. CASE ~Publishing /\ ~Restart
  <2> SUFFICES ASSUME NEW i \in Index, Complete(i)'
               PROVE  Known(i, since, stranger)' /\ \A p \in polls' : Known(i, p.since, p.stranger)' \/ (p.stranger /\ p.answered)
    BY DEF Shown
  <2>1. Complete(i) /\ UNCHANGED s_live_cache
    BY <1>2, CompleteStep, StoreUntouched DEF store, Publishing
  <2>2. Known(i, since, stranger) /\ \A p \in polls : Known(i, p.since, p.stranger) \/ (p.stranger /\ p.answered)
    BY <2>1 DEF Shown
  <2>3. CASE UNCHANGED <<rows, since, stranger>>
    <3>1. rows' = rows /\ s_live_cache' = s_live_cache /\ since' = since /\ stranger' = stranger
      BY <2>1, <2>3
    <3>2. ASSUME NEW q \in polls', q \notin polls
          PROVE  Known(i, q.since, q.stranger)
      <4>1. CASE Poll
        BY <2>2, <3>2, <4>1 DEF Poll
      <4>2. CASE ScanEnd
        <5>1. q.since = scan.of.since /\ q.stranger = scan.of.stranger /\ scan # NoScan
          BY <3>2, <4>2, EndFacts
        <5>2. scan.of \in polls /\ ~scan.of.answered
          BY <5>1, ScanFacts DEF Asked
        <5> QED
          BY <2>2, <5>1, <5>2
      <4>3. CASE ~Poll /\ ~ScanEnd
        BY <1>2, <3>2, <4>3 DEF Next, Scanning, Page, ScanStart, ScanTest, ScanId, ScanValue, Step, ApplyAnswer, LoseAnswer, vars
      <4> QED
        BY <4>1, <4>2, <4>3
    <3> QED
      BY <2>1, <2>2, <2>3, <3>1, <3>2 DEF Known
  <2>4. CASE ApplyAnswer
    <3>1. PICK p \in polls : Applied(p)
      BY <2>4, ApplyFacts DEF StoreInv, StoreType
    <3> DEFINE e == s_live_cache[i]
    <3>2. /\ p.answered /\ since' = p.latest /\ stranger' = FALSE /\ polls' = polls \ {p}
          /\ p.latest \in Nat /\ p.since \in Nat
      BY <3>1, PollFacts DEF Applied
    <3>3. /\ NotBeyond(i, p.items)
          /\ \/ e.update_seq > p.latest
             \/ Found(i, p.items) /\ Only(i, p.items)
             \/ e.update_seq <= p.since /\ ~p.stranger /\ Absent(i, p.items)
      BY <2>1, <3>2 DEF Answers
    <3>4. /\ rows'[e.id] = rows[e.id] \/ rows'[e.id] <= e.value
          /\ Found(i, p.items) /\ Only(i, p.items) => rows'[e.id] = e.value
          /\ Absent(i, p.items) => rows'[e.id] = rows[e.id]
          /\ rows[e.id] \in Nat /\ rows'[e.id] \in Nat
      BY <2>1, <3>1, <3>3, AppliedRow
    <3>5. e.id \in Id /\ e.update_seq \in Nat /\ e.value \in Nat
      BY <2>1, CompleteFacts
    <3>6. ~(rows'[e.id] < rows[e.id] /\ \E q \in polls \ {p} : q.since > p.latest)
      <4>1. e.id \notin excused'
        BY <2>1 DEF Complete
      <4> QED
        BY <3>1, <3>5, <4>1 DEF Applied
    <3>8. e.update_seq > p.latest \/ rows'[e.id] = e.value
      <4> SUFFICES ASSUME ~(e.update_seq > p.latest) PROVE rows'[e.id] = e.value
        OBVIOUS
      <4>1. CASE Found(i, p.items) /\ Only(i, p.items)
        BY <3>4, <4>1
      <4>2. CASE e.update_seq <= p.since /\ ~p.stranger /\ Absent(i, p.items)
        BY <2>2, <3>2, <3>4, <3>5, <4>2 DEF Known
      <4> QED
        BY <3>3, <4>1, <4>2
    <3>9. ASSUME NEW q \in polls'
          PROVE  e.update_seq > q.since \/ (~q.stranger /\ rows'[e.id] = e.value) \/ (q.stranger /\ q.answered)
      <4>1. q \in polls \ {p} /\ q.since \in Nat /\ q.stranger \in BOOLEAN
        BY <3>2, <3>9, PollFacts
      <4>2. Known(i, q.since, q.stranger) \/ (q.stranger /\ q.answered)
        BY <2>2, <4>1
      <4>3. CASE ~q.stranger /\ rows[e.id] = e.value /\ ~(e.update_seq > q.since) /\ rows'[e.id] # e.value
        <5>1. e.update_seq > p.latest
          BY <3>8, <4>3
        <5>2. q.since > p.latest
          BY <3>2, <3>5, <4>1, <4>3, <5>1
        <5>3. rows'[e.id] < rows[e.id]
          BY <3>4, <3>5, <4>3
        <5> QED
          BY <3>6, <4>1, <5>2, <5>3
      <4> QED
        BY <4>2, <4>3 DEF Known
    <3> QED
      BY <2>1, <3>2, <3>8, <3>9 DEF Known
  <2> QED
    BY <1>2, <2>3, <2>4 DEF Next, Scanning, Page, ScanStart, ScanTest, ScanId, ScanValue, ScanEnd, Step, Poll, LoseAnswer, vars, page
<1>3. CASE Restart
  <2>1. \A i \in Index : ~Complete(i)'
    <3> SUFFICES ASSUME NEW i \in Index PROVE ~s_live_cache'[i].valid
      BY DEF Complete
    <3> QED
      BY <1>3, ClearedEntry DEF Restart
  <2> QED
    BY <2>1 DEF Shown
<1> QED
  BY <1>1, <1>2, <1>3

LEMMA AnswersStep ==
  ASSUME LiveInv, [Next]_vars
  PROVE  Answers'
<1> USE DEF LiveInv
<1> SUFFICES ASSUME NEW p \in polls', p.answered, NEW i \in Index, Complete(i)'
             PROVE  /\ NotBeyond(i, p.items)'
                    /\ \/ s_live_cache'[i].update_seq > p.latest
                       \/ Found(i, p.items)' /\ Only(i, p.items)'
                       \/ s_live_cache'[i].update_seq <= p.since /\ ~p.stranger /\ Absent(i, p.items)'
  BY DEF Answers
<1>1. CASE PubStamp /\ Stamped(i)
  <2>1. p \in polls /\ s_live_cache'[i].update_seq > p.latest
    BY <1>1 DEF Stamped
  <2>2. \A x \in p.items : x.value <= s_live_cache'[i].value
    BY <1>1, <2>1 DEF Stamped, Bounded
  <2> QED
    BY <2>1, <2>2 DEF NotBeyond
<1>2. CASE Complete(i) /\ s_live_cache'[i] = s_live_cache[i]
  <2>1. CASE p \in polls
    BY <1>2, <2>1 DEF Answers, NotBeyond, Found, Only, Absent
  <2>2. CASE p \notin polls
    <3>1. ScanEnd
      <4>1. ~Poll
        BY <2>2 DEF Poll
      <4> QED
        BY <2>2, <4>1 DEF Next, Publishing, Publish, PubClear, PubName, PubFields, PubNumber, PubStamp, Write,
             Scanning, Page, ScanStart, ScanTest, ScanId, ScanValue, Step, ApplyAnswer, LoseAnswer, Restart, vars
    <3>2. /\ scan # NoScan /\ scan.stage = "test" /\ scan.i > s_live_cache_count
          /\ p.since = scan.of.since /\ p.stranger = scan.of.stranger /\ p.items = scan.items
      BY <2>2, <3>1, EndFacts
    <3>3. scan.of \in polls /\ ~scan.of.answered /\ scan.i \in Nat /\ scan.of.since \in Nat /\ scan.of.stranger \in BOOLEAN
      BY <3>2, ScanFacts DEF Asked
    <3>4. i <= s_live_cache_count /\ s_live_cache_count \in Nat /\ i \in Nat /\ s_live_cache[i].update_seq \in Nat
          /\ s_live_cache[i].value \in Nat
      BY <1>2, CompleteFacts, Indices DEF StoreInv, StoreType
    <3>5. i < scan.i
      BY <3>2, <3>3, <3>4
    <3>6. \/ Found(i, p.items) /\ Only(i, p.items)
          \/ s_live_cache[i].update_seq <= p.since /\ Absent(i, p.items)
      BY <1>2, <3>2, <3>5 DEF Scanned
    <3>7. s_live_cache[i].update_seq <= p.since => ~p.stranger
      <4>1. Known(i, p.since, p.stranger)
        BY <1>2, <3>2, <3>3 DEF Shown
      <4> QED
        BY <3>2, <3>3, <3>4, <4>1 DEF Known
    <3>8. NotBeyond(i, p.items)
      BY <3>4, <3>6 DEF NotBeyond, Only, Absent
    <3> QED
      BY <1>2, <3>6, <3>7, <3>8 DEF NotBeyond, Found, Only, Absent
  <2> QED
    BY <2>1, <2>2
<1> QED
  BY <1>1, <1>2, CompleteStep

\* A scan meets every entry published in full: the test lets it pass when the
\* request need not have it, and only its own id and value are added.
LEMMA ScannedStep ==
  ASSUME LiveInv, [Next]_vars
  PROVE  Scanned'
<1> USE DEF LiveInv
<1> SUFFICES ASSUME scan' # NoScan, NEW i \in Index, Complete(i)'
             PROVE  /\ i < scan'.i => \/ Found(i, scan.items)' /\ Only(i, scan.items)'
                                      \/ s_live_cache'[i].update_seq <= scan'.of.since /\ Absent(i, scan.items)'
                    /\ i >= scan'.i => Absent(i, scan.items)'
                    /\ scan'.stage = "value" => (scan'.id = s_live_cache'[i].id <=> i = scan'.i)
  BY DEF Scanned
<1>1. CASE PubStamp /\ Stamped(i)
  BY <1>1 DEF Stamped
<1>2. CASE Complete(i) /\ s_live_cache'[i] = s_live_cache[i]
  <2>0. i \in Nat
    BY Indices
  <2>1. CASE UNCHANGED scan
    BY <1>2, <2>1 DEF Scanned, Found, Only, Absent
  <2>2. CASE ScanStart
    <3>1. scan'.i = 1 /\ scan'.items = {} /\ scan'.stage = "test"
      BY <2>2, StartFacts
    <3>2. ~(i < 1)
      BY DEF Index
    <3> QED
      BY <3>1, <3>2 DEF Absent
  <2>3. CASE ScanTest \/ ScanId \/ ScanValue
    <3>1. /\ scan # NoScan /\ scan'.of = scan.of /\ scan.i \in Index /\ scan.i \in Nat
      BY <2>3, ScanSteps, ScanFacts
    <3>2. /\ i < scan.i => \/ Found(i, scan.items) /\ Only(i, scan.items)
                           \/ s_live_cache[i].update_seq <= scan.of.since /\ Absent(i, scan.items)
          /\ i >= scan.i => Absent(i, scan.items)
          /\ scan.stage = "value" => (scan.id = s_live_cache[i].id <=> i = scan.i)
      BY <1>2, <3>1 DEF Scanned
    <3>3. s_live_cache[i].valid /\ \A j \in Index : s_live_cache[j].id = s_live_cache[i].id => j = i
      BY <1>2, CompleteFacts
    <3>4. CASE ScanTest
      <4>1. /\ scan'.items = scan.items /\ scan'.stage # "value"
            /\ \/ scan'.i = scan.i
               \/ scan'.i = scan.i + 1 /\ (s_live_cache[scan.i].valid => s_live_cache[scan.i].update_seq <= scan.of.since)
        BY <3>4, ScanSteps
      <4>2. i = scan.i /\ scan'.i = scan.i + 1 => s_live_cache[i].update_seq <= scan.of.since /\ Absent(i, scan.items)
        BY <2>0, <3>1, <3>2, <3>3, <4>1
      <4> QED
        BY <1>2, <2>0, <3>1, <3>2, <4>1, <4>2 DEF Found, Only, Absent
    <3>5. CASE ScanId
      <4>1. scan'.id = s_live_cache[scan.i].id /\ scan'.i = scan.i /\ scan'.items = scan.items
        BY <3>5, ScanSteps
      <4>2. scan'.id = s_live_cache[i].id <=> i = scan.i
        BY <3>1, <3>3, <4>1
      <4> QED
        BY <1>2, <3>1, <3>2, <4>1, <4>2 DEF Found, Only, Absent
    <3>6. CASE ScanValue
      <4> DEFINE item == [id |-> scan.id, at |-> scan.i, value |-> s_live_cache[scan.i].value]
      <4>1. /\ scan.stage = "value" /\ scan'.stage = "test" /\ scan'.i = scan.i + 1
            /\ scan'.items = scan.items \cup {item}
        BY <3>6, ScanSteps
      <4>2. item.id = s_live_cache[i].id <=> i = scan.i
        BY <3>2, <4>1
      <4>3. item.value = s_live_cache[scan.i].value
        OBVIOUS
      <4> HIDE DEF item
      <4>4. CASE i = scan.i
        <5>1. Absent(i, scan.items)
          BY <2>0, <3>2, <4>4
        <5>2. Found(i, scan'.items) /\ Only(i, scan'.items)
          BY <4>1, <4>2, <4>3, <4>4, <5>1 DEF Found, Only, Absent
        <5> QED
          BY <1>2, <2>0, <4>1, <4>4, <5>2 DEF Found, Only
      <4>5. CASE i # scan.i
        <5>1. item.id # s_live_cache[i].id
          BY <4>2, <4>5
        <5>2. /\ Found(i, scan.items) => Found(i, scan'.items)
              /\ Only(i, scan.items) => Only(i, scan'.items)
              /\ Absent(i, scan.items) => Absent(i, scan'.items)
          BY <4>1, <5>1 DEF Found, Only, Absent
        <5>3. (i < scan'.i <=> i < scan.i) /\ (i >= scan'.i => i >= scan.i)
          BY <2>0, <3>1, <4>1, <4>5
        <5> QED
          BY <1>2, <3>1, <3>2, <4>1, <5>2, <5>3 DEF Found, Only, Absent
      <4> QED
        BY <4>4, <4>5
    <3> QED
      BY <2>3, <3>4, <3>5, <3>6
  <2>4. ~ScanEnd /\ ~Restart
    BY EndFacts DEF Restart
  <2> QED
    BY <2>1, <2>2, <2>3, <2>4 DEF Next, Publishing, Publish, PubClear, PubName, PubFields, PubNumber, PubStamp, Write,
         Scanning, Page, Poll, ApplyAnswer, LoseAnswer, vars
<1> QED
  BY <1>1, <1>2, CompleteStep

-----------------------------------------------------------------------------
THEOREM LiveInvariant == Spec => []LiveInv
<1>1. Init => LiveInv
  <2> SUFFICES ASSUME Init PROVE LiveInv
    OBVIOUS
  <2>1. StoreInv
    BY InitStore
  <2>2. /\ s_live_cache = [i \in Index |-> Cleared] /\ s_live_update_seq = 0 /\ published = 0
        /\ pub = NoPub /\ scan = NoScan /\ polls = {} /\ rows = [id \in Id |-> NoValue] /\ since = 0
        /\ stranger = FALSE /\ asked = 0
    BY DEF Init, Empty
  <2>3. \A i \in Index : s_live_cache[i] = Cleared
    BY <2>2
  <2>4. PageType
    BY <2>2 DEF PageType, NoValue
  <2>5. Bounded /\ Raced /\ Fresh
    BY <2>2, <2>3, ClearedEntry DEF Bounded, Raced, Fresh, Beyond
  <2>6. \A i \in Index : ~Complete(i)
    BY <2>3, ClearedEntry DEF Complete
  <2> QED
    BY <2>1, <2>4, <2>5, <2>6 DEF LiveInv, Shown, Answers, Scanned
<1>2. LiveInv /\ [Next]_vars => LiveInv'
  <2> SUFFICES ASSUME LiveInv, [Next]_vars PROVE LiveInv'
    OBVIOUS
  <2>1. StoreInv' /\ PageType' /\ Bounded' /\ Raced' /\ Fresh'
    BY StoreStep, PageStep, BoundedStep, RacedStep, FreshStep DEF LiveInv
  <2>2. Shown' /\ Answers' /\ Scanned'
    BY ShownStep, AnswersStep, ScannedStep
  <2> QED
    BY <2>1, <2>2 DEF LiveInv
<1> QED
  BY <1>1, <1>2, PTL DEF Spec

\* The page shows the value of every register it does not ask for any more,
\* but for the three ways it can miss one, whatever the interleaving of
\* publications, scans and answers.
THEOREM CaughtUpAlways == Spec => []CaughtUp
<1>1. LiveInv => CaughtUp
  <2> SUFFICES ASSUME LiveInv, NEW i \in Index, s_live_cache[i].valid, s_live_cache[i].id \notin excused,
                      pub = NoPub \/ pub.i # i, ~stranger
               PROVE  s_live_cache[i].update_seq > since \/ rows[s_live_cache[i].id] = s_live_cache[i].value
    BY DEF CaughtUp
  <2>1. Known(i, since, stranger)
    BY DEF LiveInv, Shown, Complete
  <2> QED
    BY <2>1 DEF Known
<1> QED
  BY <1>1, LiveInvariant, PTL

=============================================================================
