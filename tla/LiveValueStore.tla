--------------------------- MODULE LiveValueStore ---------------------------
(***************************************************************************)
(* The live values page: LiveValueStore.cpp, GET /api/live_values and the  *)
(* poll() of the page, which asks for what changed since a number.         *)
(*                                                                         *)
(* Nothing is locked. The sniffer task publishes, the network task scans   *)
(* the store for one request at a time, and both take a step per statement *)
(* that the other can tell apart. A value is the number of its publication.*)
(*                                                                         *)
(* Pages poll on a timer: several requests may be on their way, and their  *)
(* answers arrive in any order or not at all. Any time may pass between    *)
(* two publications, so that millis() may have any value at each.          *)
(***************************************************************************)
EXTENDS Integers, Sequences, FiniteSetsExt

CONSTANTS
    Id,                     \* make_live_id of what the bus carries
    NoId,                   \* a cleared id
    MAX_LIVE_CACHED_VALS,
    Wrap,                   \* values of millis(), a 32-bit counter
    MaxPublished, MaxPolls, MaxWaiting, MaxBoots  \* bounds

ASSUME LiveAssumption ==
    /\ NoId \notin Id
    /\ MAX_LIVE_CACHED_VALS \in Nat \ {0} /\ Wrap \in Nat \ {0}
    /\ {MaxPublished, MaxPolls, MaxWaiting, MaxBoots} \subseteq Nat

VARIABLES
    s_live_cache, s_live_cache_count, s_live_update_seq,
    pub,       \* the publication the sniffer task is in
    scan,      \* the request the network task is answering
    polls,     \* requests and answers on their way
    rows,      \* of the page: the value it shows for an id
    since,     \* of the page: sinceSeq
    stranger,  \* since is of an earlier boot of the device
    asked, published, boots, \* history: what has happened
    excused    \* history: ids the page may have missed, see Missed

store == <<s_live_cache, s_live_cache_count, s_live_update_seq>>
page  == <<rows, since, stranger>>
vars  == <<store, pub, scan, polls, page, asked, published, boots, excused>>
-----------------------------------------------------------------------------
Index == 1 .. MAX_LIVE_CACHED_VALS
NoValue == 0
Cleared == [valid |-> FALSE, id |-> NoId, value |-> NoValue, last_seen_ms |-> 0, update_seq |-> 0]
NoPub  == [stage |-> "none"]
NoScan == [stage |-> "none"]

Empty == /\ s_live_cache = [i \in Index |-> Cleared]
         /\ s_live_cache_count = 0 /\ s_live_update_seq = 0

Init ==
    /\ Empty
    /\ pub = NoPub /\ scan = NoScan /\ polls = {}
    /\ rows = [id \in Id |-> NoValue] /\ since = 0 /\ stranger = FALSE
    /\ asked = 0 /\ published = 0 /\ boots = 1
    /\ excused = {}

-----------------------------------------------------------------------------
(* live_value_store_publish_known and _unknown_u16.                         *)

\* mutant: the last entry is not compared
find_live_idx_short(id) ==
    {i \in 1 .. s_live_cache_count - 1 : s_live_cache[i].valid /\ s_live_cache[i].id = id}

find_live_idx(id) ==
    {i \in 1 .. s_live_cache_count : s_live_cache[i].valid /\ s_live_cache[i].id = id}

\* The entry seen longest ago, by the raw counter: never one whose counter is
\* at its largest.
Evictable ==
    LET last(i) == s_live_cache[i].last_seen_ms
        S == {i \in Index : s_live_cache[i].valid /\ last(i) < Wrap - 1}
    IN  {i \in S : \A j \in S : last(i) < last(j) \/ (last(i) = last(j) /\ i <= j)}

\* find_live_idx and alloc_live_entry: only this task writes what they read
Publish(id) ==
    LET begin(i, s) == \E t \in 0 .. Wrap - 1 : pub' = [stage |-> s, i |-> i, id |-> id, value |-> published + 1, at |-> t,
                               raced |-> scan # NoScan]
    IN  /\ pub = NoPub /\ published < MaxPublished
        /\ published' = published + 1
        /\ \/ \E i \in find_live_idx(id) : begin(i, "fields") /\ UNCHANGED s_live_cache_count
           \/ /\ find_live_idx(id) = {} /\ s_live_cache_count < MAX_LIVE_CACHED_VALS
              /\ s_live_cache_count' = s_live_cache_count + 1
              /\ begin(s_live_cache_count + 1, "clear")
           \/ /\ find_live_idx(id) = {} /\ s_live_cache_count = MAX_LIVE_CACHED_VALS
              /\ UNCHANGED s_live_cache_count
              /\ IF Evictable = {} THEN UNCHANGED pub ELSE \E i \in Evictable : begin(i, "clear")
        /\ UNCHANGED <<s_live_cache, s_live_update_seq, scan, polls, page, asked, boots, excused>>

Write(stage, entry, next) ==
    /\ pub # NoPub /\ pub.stage = stage
    /\ s_live_cache' = [s_live_cache EXCEPT ![pub.i] = entry]
    /\ pub' = next
    /\ UNCHANGED <<s_live_cache_count, scan, polls, page, asked, published, boots>>

Entry == s_live_cache[pub.i]
At(stage) == [pub EXCEPT !.stage = stage]

PubClear == Write("clear", Cleared, At("name")) /\ UNCHANGED <<s_live_update_seq, excused>>

PubName == Write("name", [Entry EXCEPT !.id = pub.id], At("fields")) /\ UNCHANGED <<s_live_update_seq, excused>>

PubFields ==
    /\ Write("fields", [Entry EXCEPT !.value = pub.value, !.last_seen_ms = pub.at, !.valid = TRUE], At("number"))
    /\ UNCHANGED <<s_live_update_seq, excused>>

PubNumber ==
    /\ Write("number", Entry, At("stamp"))
    /\ s_live_update_seq' = s_live_update_seq + 1
    /\ UNCHANGED excused

(* What the page may miss although it polls: a publication that overlaps   *)
(* a scan, which may pass the entry first and answer with its number; and  *)
(* one that a restarted device gives a number the page has had before.     *)
Missed(seq) == \/ pub.raced
               \/ stranger /\ seq <= since
               \/ \E p \in polls : ~p.answered /\ p.stranger /\ seq <= p.since

PubStamp ==
    /\ Write("stamp", [Entry EXCEPT !.update_seq = s_live_update_seq], NoPub)
    /\ excused' = IF Missed(s_live_update_seq) THEN excused \cup {pub.id} ELSE excused \ {pub.id}
    /\ UNCHANGED s_live_update_seq
-----------------------------------------------------------------------------
(* live_value_store_get_json.                                               *)

Poll ==
    /\ asked < MaxPolls /\ Cardinality(polls) < MaxWaiting
    /\ asked' = asked + 1
    /\ polls' = polls \cup {[n |-> asked', since |-> since, stranger |-> stranger, answered |-> FALSE]}
    /\ UNCHANGED <<store, pub, scan, page, published, boots, excused>>

Step(next) == /\ scan' = next
              /\ UNCHANGED <<store, page, asked, published, boots, excused>>

ScanStart == \E p \in polls :
    /\ scan = NoScan /\ ~p.answered
    /\ Step([stage |-> "test", i |-> 1, of |-> p, id |-> NoId, items |-> {}])
    /\ pub' = IF pub = NoPub THEN NoPub ELSE [pub EXCEPT !.raced = TRUE]
    /\ UNCHANGED polls

Seen == s_live_cache[scan.i]
Onward(items) == [scan EXCEPT !.stage = "test", !.i = @ + 1, !.items = items]

ScanTest ==
    /\ scan # NoScan /\ scan.stage = "test" /\ scan.i <= s_live_cache_count
    /\ Step(IF Seen.valid /\ Seen.update_seq > scan.of.since
            THEN [scan EXCEPT !.stage = "id"] ELSE Onward(scan.items))
    /\ UNCHANGED <<pub, polls>>

ScanId ==
    /\ scan # NoScan /\ scan.stage = "id"
    /\ Step([scan EXCEPT !.stage = "value", !.id = Seen.id])
    /\ UNCHANGED <<pub, polls>>

ScanValue ==
    /\ scan # NoScan /\ scan.stage = "value"
    /\ Step(Onward(scan.items \cup {[id |-> scan.id, at |-> scan.i, value |-> Seen.value]}))
    /\ UNCHANGED <<pub, polls>>

\* latest_seq is read after the scan
ScanEnd ==
    /\ scan # NoScan /\ scan.stage = "test" /\ scan.i > s_live_cache_count
    /\ Step(NoScan)
    /\ polls' = (polls \ {scan.of}) \cup
                {[n |-> scan.of.n, since |-> scan.of.since, stranger |-> scan.of.stranger, answered |-> TRUE,
                  items |-> scan.items, latest |-> s_live_update_seq]}
    /\ UNCHANGED pub
-----------------------------------------------------------------------------
(* The page.                                                                *)

\* mutant: the page never goes back
NewSince_monotone(p) == IF p.latest > since THEN p.latest ELSE since

NewSince(p) == p.latest

\* Rows that an answer overtaken by a later one sets back, while a request
\* made in between no longer asks for them.
SetBack(p, new) ==
    {id \in Id : new[id] < rows[id] /\ \E q \in polls \ {p} : q.since > p.latest}

\* rows.set for one item after the other: the last one of an id stays
LastOf(items, id) == CHOOSE x \in items : x.id = id /\ \A y \in items : y.id = id => y.at <= x.at

ApplyAnswer == \E p \in polls :
    LET new == [id \in Id |-> IF \E x \in p.items : x.id = id THEN LastOf(p.items, id).value ELSE rows[id]]
    IN  /\ p.answered
        /\ rows' = new
        /\ since' = NewSince(p)
        /\ stranger' = FALSE
        /\ excused' = excused \cup SetBack(p, new)
        /\ polls' = polls \ {p}
        /\ UNCHANGED <<store, pub, scan, asked, published, boots>>

LoseAnswer == \E p \in polls :
    /\ p.answered
    /\ polls' = polls \ {p}
    /\ UNCHANGED <<store, pub, scan, page, asked, published, boots, excused>>

\* The device restarts; the page stays open.
Restart ==
    /\ boots < MaxBoots
    /\ boots' = boots + 1
    /\ s_live_cache' = [i \in Index |-> Cleared] /\ s_live_cache_count' = 0 /\ s_live_update_seq' = 0
    /\ pub' = NoPub /\ scan' = NoScan /\ polls' = {}
    /\ stranger' = TRUE
    /\ UNCHANGED <<rows, since, asked, published, excused>>
-----------------------------------------------------------------------------
Publishing == (\E id \in Id : Publish(id)) \/ PubClear \/ PubName \/ PubFields \/ PubNumber \/ PubStamp
Scanning   == ScanStart \/ ScanTest \/ ScanId \/ ScanValue \/ ScanEnd
Page       == Poll \/ ApplyAnswer \/ LoseAnswer

Next == Publishing \/ Scanning \/ Page \/ Restart

Spec == Init /\ [][Next]_vars
-----------------------------------------------------------------------------
(* No id has two valid entries, no number is given twice, and none is      *)
(* beyond s_live_update_seq: find_live_idx and the deltas rely on it.      *)
TypeOK ==
    /\ s_live_cache_count \in 0 .. MAX_LIVE_CACHED_VALS
    /\ \A i \in Index : s_live_cache[i].update_seq \in 0 .. s_live_update_seq
    /\ \A i, j \in Index :
         (i # j /\ s_live_cache[i].valid /\ s_live_cache[j].valid) =>
            /\ s_live_cache[i].id # s_live_cache[j].id
            /\ s_live_cache[i].update_seq = s_live_cache[j].update_seq => s_live_cache[i].update_seq = 0

(* What the page does not ask for any more it shows: the entry of a        *)
(* register, published in full, has a number above sinceSeq or the page's  *)
(* row has its value. The only exceptions are the three in which the code  *)
(* can miss it: a publication that overlapped a scan, a restart of the     *)
(* device under an open page, and answers that overtake each other.        *)
CaughtUp ==
    \A i \in Index : LET e == s_live_cache[i] IN
        (e.valid /\ e.id \notin excused /\ (pub = NoPub \/ pub.i # i) /\ ~stranger) =>
            e.update_seq > since \/ rows[e.id] = e.value
=============================================================================
