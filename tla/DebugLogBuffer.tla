--------------------------- MODULE DebugLogBuffer ---------------------------
(***************************************************************************)
(* The log viewer: DebugLogBuffer.cpp (a byte ring with wrap markers, the  *)
(* line being assembled, the lease of one viewer), the /api/logs handlers  *)
(* of web_ui.cpp and the polling worker of the page.                       *)
(*                                                                         *)
(* Each critical section is a step. The handlers run one at a time in the  *)
(* network task; tasks that log append character by character.             *)
(*                                                                         *)
(* The ring is kept as the records between tail and head, oldest first; a  *)
(* wrap marker is a record with id 0. Text is abstracted to its length.    *)
(* Once head has passed tail (spoiled) the code reads text as headers, up  *)
(* to the next reset. From there records is no longer what the ring holds: *)
(* writing goes on, an answer is whatever the misread headers say, and     *)
(* nothing is claimed of it; that such a walk may not end is left out.     *)
(***************************************************************************)
EXTENDS Integers, Sequences, FiniteSetsExt

CONSTANTS
    Viewer,        \* clients, by address
    Task,          \* tasks that log
    Lengths,       \* characters of a line
    kBufferBytes, kMaxLineBytes, kMaxLines,
    HeaderBytes,   \* sizeof(RecordHeader)
    Ttl,           \* the lease, 30 minutes
    Nobody,        \* no viewer
    MaxLogged, MaxSessions  \* bounds

ASSUME LogAssumption ==
    /\ HeaderBytes \in Nat \ {0} /\ kMaxLineBytes \in Nat \ {0}
    /\ kBufferBytes \in Nat /\ kBufferBytes > HeaderBytes + kMaxLineBytes
    /\ kMaxLines \in Nat \ {0} /\ Ttl \in Nat \ {0}
    /\ MaxLogged \in Nat /\ MaxSessions \in Nat

VARIABLES
    viewer,     \* viewerIp, while viewerEnabled
    ttl,        \* viewerUntilMs - millis()
    ring,       \* the ring is allocated
    records,    \* what lies between tail and head
    head, nextId,
    partialLen, \* characters of the line being assembled
    spoiled,    \* head has passed tail since the last reset
    left,       \* characters a task still has to append, the newline included
    req,        \* the /api/logs request being handled
    client,     \* the page of each viewer
    logged, session \* history: lines begun, captures started

log   == <<ring, records, head, nextId, partialLen, spoiled>>
lease == <<viewer, ttl>>
vars  == <<log, lease, left, req, client, logged, session>>
-----------------------------------------------------------------------------
Record == [pos : 0 .. kBufferBytes - 1, id : Nat, len : 0 .. kMaxLineBytes]
NoRequest == [stage |-> "none"]
ClosedPage == [worker |-> "off", last |-> 0, session |-> 0, shown |-> {}]

tail(recs, h) == IF recs = <<>> THEN h ELSE recs[1].pos
usedBytes(recs, h) == (h - tail(recs, h)) % kBufferBytes
freeBytes(recs, h) == kBufferBytes - 1 - usedBytes(recs, h)
latestId == IF nextId > 1 THEN nextId - 1 ELSE 0

\* viewerEnabled and the lease has not run out
Live   == viewer # Nobody /\ ttl > 0
Lapsed == viewer # Nobody /\ ttl = 0

Init ==
    /\ viewer = Nobody /\ ttl = 0
    /\ ring = FALSE /\ records = <<>> /\ head = 0 /\ nextId = 1 /\ partialLen = 0 /\ spoiled = FALSE
    /\ left = [t \in Task |-> 0]
    /\ req = NoRequest
    /\ client = [v \in Viewer |-> ClosedPage]
    /\ logged = 0 /\ session = 0
-----------------------------------------------------------------------------
(* The lease. Every operation first notices that the lease has run out      *)
(* (enabledUnlocked); here that is Expire, which also loop() calls through  *)
(* web_ui_loop, and the operations are enabled only when it has been done.  *)

Reset == /\ records' = <<>> /\ head' = 0 /\ nextId' = 1
         /\ partialLen' = 0 /\ spoiled' = FALSE

Expire == /\ Lapsed
          /\ viewer' = Nobody
          /\ Reset
          /\ UNCHANGED <<ttl, ring, left, req, client, logged, session>>

Elapse == /\ Live
          /\ ttl' = ttl - 1
          /\ UNCHANGED <<log, viewer, left, req, client, logged, session>>

\* enableFor: claimed by nobody else, and the ring can be allocated
enableFor(v) ==
    /\ viewer \in {Nobody, v}
    /\ viewer' = v /\ ttl' = Ttl
    /\ ring' = TRUE
    /\ session' = IF viewer = Nobody THEN session + 1 ELSE session
    /\ UNCHANGED <<records, head, nextId, partialLen, spoiled>>

\* no memory: the lease is dropped, whatever it was
enableForNoMem(v) ==
    /\ viewer \in {Nobody, v} /\ ~ring
    /\ viewer' = Nobody /\ ttl' = 0
    /\ UNCHANGED <<log, session>>
-----------------------------------------------------------------------------
(* Tasks that log: shouldCaptureFast and the first check of append, then a  *)
(* critical section for each character, commitPartialLine at the newline.   *)

AppendBegin(t) == \E n \in Lengths :
    /\ left[t] = 0 /\ Live /\ ring /\ logged < MaxLogged
    /\ left' = [left EXCEPT ![t] = n + 1]
    /\ logged' = logged + 1
    /\ UNCHANGED <<log, lease, req, client, session>>

AppendChar(t) ==
    /\ left[t] > 1 /\ ~Lapsed
    /\ IF viewer = Nobody
       THEN partialLen' = 0 /\ left' = [left EXCEPT ![t] = 0]
       ELSE /\ partialLen' = IF partialLen < kMaxLineBytes THEN partialLen + 1 ELSE partialLen
            /\ left' = [left EXCEPT ![t] = @ - 1]
    /\ UNCHANGED <<ring, records, head, nextId, spoiled, lease, req, client, logged, session>>

\* where advanceTailOneUnlocked finds the next header
After(r) == IF r.id = 0 THEN 0 ELSE (r.pos + HeaderBytes + r.len) % kBufferBytes

\* advanceTailOneUnlocked, until there is room or nothing is left
MakeRoom(size) ==
    LET k == Min({j \in 0 .. Len(records) :
                    \/ freeBytes(SubSeq(records, j + 1, Len(records)), head) >= size
                    \/ j = Len(records)})
    IN  SubSeq(records, k + 1, Len(records))

\* mutant: the writer jumps to the start of the ring without leaving a marker
WithMarker_none(recs) == recs

WithMarker(recs) == Append(recs, [pos |-> head, id |-> 0, len |-> 0])

\* writeRecordUnlocked. The bytes skipped at the end of the ring were not
\* counted when room was made: head may reach the tail, so that the ring looks
\* empty, or pass it. head and nextId depend on nothing the ring holds.
writeRecord(len) ==
    LET size  == HeaderBytes + len
        kept  == MakeRoom(size)
        wraps == head + size > kBufferBytes
        pos   == IF wraps THEN 0 ELSE head
        room  == IF kept = <<>> THEN kBufferBytes ELSE (tail(kept, head) - head) % kBufferBytes
        span  == size + (IF wraps THEN kBufferBytes - head ELSE 0)
    IN  /\ nextId' = nextId + 1
        /\ head' = (pos + size) % kBufferBytes
        /\ spoiled' = (spoiled \/ span > room)
        /\ records' = IF spoiled' \/ span = room THEN <<>>
                      ELSE Append(IF wraps THEN WithMarker(kept) ELSE kept,
                                  [pos |-> pos, id |-> nextId, len |-> len])

commitPartialLine(t) ==
    /\ left[t] = 1 /\ ~Lapsed
    /\ left' = [left EXCEPT ![t] = 0]
    /\ IF viewer = Nobody \/ ~ring \/ partialLen = 0
       THEN UNCHANGED <<records, head, nextId, spoiled>>
       ELSE writeRecord(partialLen)
    /\ partialLen' = 0
    /\ UNCHANGED <<ring, lease, req, client, logged, session>>
-----------------------------------------------------------------------------
(* GET /api/logs                                                            *)

\* mutant: any viewer renews the lease
keepAlive_anyone(v) == ttl' = IF viewer # Nobody THEN Ttl ELSE ttl

keepAlive(v) == ttl' = IF viewer = v THEN Ttl ELSE ttl

\* keepAlive and isEnabled
handle_api_logs_get(v) ==
    /\ req = NoRequest /\ client[v].worker = "poll" /\ ~Lapsed
    /\ keepAlive(v)
    /\ req' = [stage |-> "latest", by |-> v, since |-> client[v].last, active |-> viewer # Nobody]
    /\ UNCHANGED <<log, viewer, left, client, logged, session>>

GetLatestId ==
    /\ req.stage = "latest"
    /\ req' = [stage |-> "read", by |-> req.by, since |-> req.since, active |-> req.active, latest |-> latestId]
    /\ UNCHANGED <<log, lease, left, client, logged, session>>

\* readSince reads the ring at all: a capture, and lines newer than since
Reads(since) == req.active /\ viewer # Nobody /\ ring /\ ~(since # 0 /\ since + 1 > latestId)

\* where the lines after since are; a wrap marker has no line
LinesSince(since) == {i \in DOMAIN records : records[i].id > since}

\* mutant: only the newest lines fit
FirstLines_newest(lines) == {i \in lines : Cardinality({j \in lines : j >= i}) <= kMaxLines}

\* stepping from tail, the oldest kMaxLines of them
FirstLines(lines) == {i \in lines : Cardinality({j \in lines : j <= i}) <= kMaxLines}

\* the budget of bytes ends an answer early; a line is never longer than it
Cut(lines) == {a \in SUBSET lines : /\ lines # {} => a # {}
                                    /\ \A i \in a, j \in lines : j < i => j \in a}

Respond(ids, latest, dropped) ==
    req' = [stage |-> "answer", by |-> req.by, active |-> req.active,
            ids |-> ids, latest |-> latest, dropped |-> dropped]

readLines ==
    LET found == LinesSince(req.since)
    IN  \E answer \in Cut(FirstLines(found)) :
            Respond({records[i].id : i \in answer},
                    IF answer # {} THEN records[Max(answer)].id ELSE req.latest,
                    req.since # 0 /\ found = {})

\* bound: the ids a misread header can show, one of a line and one above every line's
Misread == {1, MaxLogged + 1}

readOverrun ==
    \E ids \in SUBSET Misread, dropped \in BOOLEAN :
        /\ Cardinality(ids) <= kMaxLines
        /\ dropped => ids = {} /\ req.since # 0
        /\ \E latest \in (IF ids = {} THEN {req.latest} ELSE ids) : Respond(ids, latest, dropped)

readSince ==
    /\ req.stage = "read" /\ ~Lapsed
    /\ \/ ~Reads(req.since) /\ Respond({}, req.latest, FALSE)
       \/ Reads(req.since) /\ ~spoiled /\ readLines
       \/ Reads(req.since) /\ spoiled /\ readOverrun
    /\ UNCHANGED <<log, lease, left, client, logged, session>>

\* the worker's lastId after an answer
NewLast(old, d) == LET known == IF d.dropped THEN 0 ELSE old
                   IN  IF d.latest > known THEN d.latest ELSE known

\* what the page does with it
Showing(page, d) ==
    IF page.worker # "poll" THEN page
    ELSE [page EXCEPT !.last = NewLast(page.last, d), !.shown = page.shown \cup d.ids,
                      !.worker = IF d.active THEN "poll" ELSE "restart"]

Answer ==
    /\ req.stage = "answer"
    /\ client' = [client EXCEPT ![req.by] = Showing(@, req)]
    /\ req' = NoRequest
    /\ UNCHANGED <<log, lease, left, logged, session>>
-----------------------------------------------------------------------------
(* The page: Start and Stop, the worker that starts again after an inactive *)
(* answer and keeps its lastId, and a browser that goes away.               *)

startCapture(v) ==
    /\ req = NoRequest /\ ~Lapsed /\ session < MaxSessions
    /\ client[v].worker = "off"
    /\ \/ /\ enableFor(v)
          /\ client' = [client EXCEPT ![v] = [worker |-> "poll", last |-> 0, session |-> session', shown |-> {}]]
       \/ enableForNoMem(v) /\ UNCHANGED client
    /\ UNCHANGED <<left, req, logged>>

RestartCapture(v) ==
    /\ req = NoRequest /\ ~Lapsed /\ session < MaxSessions
    /\ client[v].worker = "restart"
    /\ \/ enableFor(v) /\ client' = [client EXCEPT ![v].worker = "poll"]
       \/ enableForNoMem(v) /\ UNCHANGED client
    /\ UNCHANGED <<left, req, logged>>

\* handle_api_logs_stop: disableIfOwner
stopCapture(v) ==
    /\ req = NoRequest /\ client[v].worker \in {"poll", "restart"}
    /\ client' = [client EXCEPT ![v] = ClosedPage]
    /\ IF viewer = v THEN viewer' = Nobody /\ ttl' = 0 /\ ring' = FALSE /\ Reset
       ELSE UNCHANGED <<log, lease>>
    /\ UNCHANGED <<left, req, logged, session>>

ClosePage(v) ==
    /\ client[v].worker \in {"poll", "restart"}
    /\ client' = [client EXCEPT ![v] = [ClosedPage EXCEPT !.worker = "gone"]]
    /\ UNCHANGED <<log, lease, left, req, logged, session>>
-----------------------------------------------------------------------------
Logging == \E t \in Task : AppendBegin(t) \/ AppendChar(t) \/ commitPartialLine(t)
Handler == GetLatestId \/ readSince \/ Answer \/ \E v \in Viewer : handle_api_logs_get(v)
Page    == \E v \in Viewer : startCapture(v) \/ RestartCapture(v) \/ stopCapture(v) \/ ClosePage(v)

Next == Logging \/ Handler \/ Page \/ Elapse \/ Expire

Spec == Init /\ [][Next]_vars /\ WF_vars(Elapse) /\ WF_vars(Expire)
-----------------------------------------------------------------------------
\* recs lead from header to header to position h, the last one a line, and from
\* each line to the next, whose id is one higher and at last the newest; between
\* two lines there is at most a wrap marker.
Walkable(recs, h, newest) ==
    LET next(i) == IF recs[i + 1].id = 0 THEN i + 2 ELSE i + 1
    IN  /\ \A i \in 1 .. Len(recs) - 1 : After(recs[i]) = recs[i + 1].pos
        /\ \A i \in 1 .. Len(recs) - 1 : recs[i].id # 0 =>
               next(i) <= Len(recs) /\ recs[next(i)].id = recs[i].id + 1
        /\ recs # <<>> => After(recs[Len(recs)]) = h /\ recs[Len(recs)].id = newest

(* Until head passes tail, whole records lie between tail and head without *)
(* gaps, with consecutive ids up to the newest line: what advanceTailOne   *)
(* and readSince rely on when they step from header to header. (That head  *)
(* can pass tail is what NewestReadable shows.)                            *)
TypeOK ==
    /\ records \in Seq(Record) /\ nextId \in Nat \ {0} /\ spoiled \in BOOLEAN
    /\ partialLen \in 0 .. kMaxLineBytes /\ head \in 0 .. kBufferBytes - 1
    /\ viewer = Nobody => records = <<>> /\ nextId = 1 /\ ~spoiled
    /\ ~spoiled => Walkable(records, head, nextId - 1)

(* Until head passes tail, a worker that began in the present capture has  *)
(* shown every line in the ring up to the id it asks from: no poll,        *)
(* however it falls between appends, its limits on lines and bytes and the *)
(* wrap, skips a line that is there.                                       *)
NothingSkipped ==
    \A v \in Viewer :
        (client[v].worker = "poll" /\ client[v].session = session /\ viewer # Nobody /\ ~spoiled) =>
            \A i \in DOMAIN records :
                records[i].id \in 1 .. client[v].last => records[i].id \in client[v].shown

(* What the header promises of the ring, and append of its result: the     *)
(* newest line can be read back, by stepping from tail, however often the  *)
(* ring has wrapped.                                                       *)
NewestReadable == (viewer # Nobody /\ nextId > 1) =>
    ~spoiled /\ \E i \in DOMAIN records : records[i].id = nextId - 1

(* A capture whose page has gone away ends, and the buffer is another      *)
(* viewer's to claim: web_ui_loop keeps checking the lease.                *)
AbandonedCaptureEnds ==
    \A v \in Viewer : (viewer = v /\ client[v].worker = "gone") ~> (viewer # v)
=============================================================================
