--------------------------- MODULE ModbusSniffer ---------------------------
(***************************************************************************)
(* The receiving side of the sniffer: framing of UART bytes by silence     *)
(* (sniffer_task), CRC and classification (modbus_parse_frame), the two    *)
(* tables of pending requests and the decoding of responses                *)
(* (huawei_decoder_feed), and their expiry by the loop task                *)
(* (huawei_decoder_expire_pending).                                        *)
(*                                                                         *)
(* The sniffer task preempts the loop task anywhere and is not preempted   *)
(* by it: processing a chunk is one step, expiring an entry is two (the    *)
(* comparison and the assignment).                                         *)
(*                                                                         *)
(* A frame is one or two units of bytes. A chunk passes the CRC when it is *)
(* exactly one frame. A response does not say which registers it holds;    *)
(* its field start is the truth, which the decoder never reads.            *)
(***************************************************************************)
EXTENDS Integers, Sequences, FiniteSetsExt

CONSTANTS
    Slave,          \* addresses on the bus
    Window,         \* what the master reads: [start, count]
    List,           \* what it reads by function 0x41: sequences of windows
    KnownRegs,      \* KNOWN_REGS: [addr, words, group, text]
    KnownBlocks,    \* KNOWN_BLOCKS: a sequence of windows
    Enabled,        \* groups enabled in the settings
    MAX_PENDING_REQUESTS, MAX_PENDING_H41_REQUESTS,
    MaxFrameLen,    \* MODBUS_MAX_FRAME_LEN, in units
    Timeout,        \* the argument of huawei_decoder_expire_pending
    Wrap,           \* values of a 32-bit millisecond counter
    NoAsk,          \* the master waits for no answer
    MaxTime, MaxFrames, MaxBacklog  \* bounds; the last on units not yet read

ASSUME SnifferAssumption ==
    /\ MAX_PENDING_REQUESTS \in Nat \ {0} /\ MAX_PENDING_H41_REQUESTS \in Nat \ {0}
    /\ Timeout \in Nat /\ MaxTime \in Nat /\ MaxFrames \in Nat /\ MaxBacklog \in Nat
    /\ Wrap \in Nat /\ Wrap > MaxTime + Timeout + 1
    /\ MaxFrameLen \in Nat \ {0, 1}

ASSUME MapAssumption ==
    /\ Window \subseteq [start : Nat, count : Nat]
    /\ List \subseteq Seq([start : Nat, count : Nat])
    /\ KnownRegs \subseteq [addr : Nat, words : Nat, group : STRING, text : BOOLEAN]

VARIABLES
    sent,     \* frames the bus has carried
    ask,      \* the request the master waits for an answer to
    uart,     \* units in the UART driver's buffer
    rx,       \* s_rx_frame
    silent,   \* now - last_byte_us >= s_frame_gap_us
    now,      \* time, in units of at least a frame gap
    pending,  \* s_pending and s_pending_h41
    scan,     \* the loop task in huawei_decoder_expire_pending
    seen,     \* s_seen: groups detected
    fed,      \* history: ids of the last two frames fed to the decoder
    latest,   \* history: the request stored last, and whether it was invalidated early
    decoded   \* history: the response this step decoded

bus     == <<sent, ask>>
rxVars  == <<uart, rx, silent>>
decoder == <<pending, seen, fed, latest>>
vars    == <<bus, rxVars, now, scan, decoder, decoded>>
-----------------------------------------------------------------------------
Table == {"reg", "list"}
Slot(t) == 1 .. IF t = "reg" THEN MAX_PENDING_REQUESTS ELSE MAX_PENDING_H41_REQUESTS
Slots == MAX_PENDING_REQUESTS + MAX_PENDING_H41_REQUESTS
NoEntry == [valid |-> FALSE, slave |-> NoAsk, what |-> <<>>, at |-> 0, id |-> 0]
NotScanning == [step |-> 0, now |-> 0, expired |-> FALSE]
NothingStored == [id |-> 0, at |-> 0, robbed |-> FALSE]
NothingDecoded == [of |-> 0, own |-> FALSE, out |-> {}]
NoDecode == decoded' = NothingDecoded

Request(id, s, w) == [id |-> id, kind |-> "request", slave |-> s, start |-> w.start, count |-> w.count]
ListRequest(id, s, l) == [id |-> id, kind |-> "h41", slave |-> s, list |-> l, words |-> [i \in DOMAIN l |-> 0], rest |-> FALSE]

\* A request or an exception fits in one read of the driver, data may take two.
Units(f) == IF f.kind = "response" \/ (f.kind = "h41" /\ \E i \in DOMAIN f.words : f.words[i] > 0)
            THEN << <<f, 1>>, <<f, 2>> >> ELSE << <<f, 1>> >>

Init ==
    \* the sniffer may start while the master waits for an answer
    /\ ask \in {NoAsk} \cup {Request(1, s, w) : s \in Slave, w \in Window}
    /\ sent = (IF ask = NoAsk THEN 0 ELSE 1)
    /\ uart = <<>> /\ rx = <<>> /\ silent = FALSE
    /\ now = 0
    /\ pending = [t \in Table |-> [i \in Slot(t) |-> NoEntry]]
    /\ scan = NotScanning
    /\ seen = {}
    /\ fed = <<-1, 0>> /\ latest = NothingStored /\ decoded = NothingDecoded
-----------------------------------------------------------------------------
(* The bus: a master that asks one slave at a time and gives up when it     *)
(* likes; slaves that answer, refuse or stay silent.                        *)

Carry(f) == /\ sent < MaxFrames /\ Len(uart) <= MaxBacklog
            /\ sent' = sent + 1
            /\ uart' = uart \o Units(f)
            /\ UNCHANGED <<rx, silent, now, scan, decoder>> /\ NoDecode

MasterAsks == \E s \in Slave :
    \/ \E w \in Window : LET f == Request(sent + 1, s, w) IN Carry(f) /\ ask' = f
    \/ \E l \in List : LET f == ListRequest(sent + 1, s, l) IN Carry(f) /\ ask' = f

SlaveAnswers ==
    /\ ask # NoAsk
    /\ ask' = NoAsk
    /\ \/ /\ ask.kind = "request"
          /\ Carry([id |-> sent + 1, kind |-> "response", slave |-> ask.slave, of |-> ask.id,
                    start |-> ask.start, count |-> ask.count])
       \/ /\ ask.kind = "h41"
          \* a bad answer lacks words of its last window, and a rest remains
          /\ \E bad \in BOOLEAN :
                Carry([id |-> sent + 1, kind |-> "h41", slave |-> ask.slave, list |-> ask.list, rest |-> bad,
                       words |-> [i \in DOMAIN ask.list |->
                                    IF bad /\ i = Len(ask.list) THEN 0 ELSE ask.list[i].count]])

SlaveRefuses ==
    /\ ask # NoAsk
    /\ ask' = NoAsk
    /\ Carry([id |-> sent + 1, kind |-> "exception", slave |-> ask.slave])
-----------------------------------------------------------------------------
(* The pending tables. Both compare the stored stamps as they are, not by   *)
(* their age: while millis() has not wrapped (SnifferAssumption), as times. *)

\* store_request: the first free slot, or else the one stored first
StoreSlot(tab) == IF \E i \in DOMAIN tab : ~tab[i].valid
                  THEN Min({i \in DOMAIN tab : ~tab[i].valid})
                  ELSE Min({i \in DOMAIN tab : \A j \in DOMAIN tab : tab[i].at <= tab[j].at})

Store(t, f, what) ==
    pending' = [pending EXCEPT ![t][StoreSlot(pending[t])] =
                  [valid |-> TRUE, slave |-> f.slave, what |-> what, at |-> now, id |-> f.id]]

\* mutant: the one stored first
Latest_first(tab, S) == Min({i \in S : \A j \in S : tab[i].at <= tab[j].at})

\* find_request: of the candidates, the one stored last
Latest(tab, S) == Max({i \in S : \A j \in S : tab[i].at >= tab[j].at})

\* valid = false; the other fields are not read again before the slot is reused
Release(t, i) == pending' = [pending EXCEPT ![t][i] = NoEntry]
-----------------------------------------------------------------------------
(* Decoding: which register is announced with the words of which address.   *)

\* decode_response and decode_h41_entry: n words arrived for window w
Inside(r, w, n) == /\ r.addr >= w.start
                   /\ r.addr - w.start + r.words - 1 < w.count
                   /\ r.addr - w.start + r.words <= n

Known(w, n) == {r \in KnownRegs : Inside(r, w, n)}

\* Values of enabled groups, then the words no known register covers.
Output(w, n, truth) ==
    LET named == {r \in Known(w, n) : r.group \in Enabled /\ ~r.text}
        bare  == {a \in w.start .. w.start + n - 1 :
                    \A r \in Known(w, n) : a \notin r.addr .. r.addr + r.words - 1}
    IN  {[addr |-> a, from |-> truth + a - w.start] : a \in {r.addr : r \in named} \cup bare}

decode_response(f, w, own) ==
    /\ seen' = seen \cup {r.group : r \in Known(w, f.count)}
    /\ decoded' = [of |-> f.of, own |-> own, out |-> Output(w, f.count, f.start)]

\* try_fallback_decode: the first known block of that many registers
FallbackBlock(n) == {i \in DOMAIN KnownBlocks :
                       /\ KnownBlocks[i].count = n
                       /\ \A j \in 1 .. i - 1 : KnownBlocks[j].count # n}

\* mutant: a full table drops the new request
FeedRequest_dropped(f) ==
    /\ f.kind = "request"
    /\ IF \E i \in DOMAIN pending["reg"] : ~pending["reg"][i].valid
       THEN Store("reg", f, [start |-> f.start, count |-> f.count])
       ELSE UNCHANGED pending
    /\ latest' = [id |-> f.id, at |-> now, robbed |-> FALSE]
    /\ UNCHANGED seen /\ NoDecode

FeedRequest(f) ==
    /\ f.kind = "request"
    /\ Store("reg", f, [start |-> f.start, count |-> f.count])
    /\ latest' = [id |-> f.id, at |-> now, robbed |-> FALSE]
    /\ UNCHANGED seen /\ NoDecode

find_request(f) == {i \in Slot("reg") : pending["reg"][i].valid /\ pending["reg"][i].slave = f.slave}

FeedResponse(f) ==
    LET tab  == pending["reg"]
        mine == find_request(f)
        own  == \E i \in mine : tab[i].id = f.of
    IN  /\ f.kind = "response"
        /\ IF mine # {}
           THEN LET i == Latest(tab, mine)
                IN  Release("reg", i) /\ decode_response(f, tab[i].what, own)
           ELSE /\ UNCHANGED pending
                /\ IF FallbackBlock(f.count) = {}
                   THEN UNCHANGED seen /\ NoDecode
                   ELSE \E i \in FallbackBlock(f.count) : decode_response(f, KnownBlocks[i], FALSE)
        /\ UNCHANGED latest

\* parse_h41_request_list: nothing but addresses and counts
IsListRequest(f) == (\A i \in DOMAIN f.words : f.words[i] = 0) /\ ~f.rest

\* decode_h41_response: registers are decoded one by one up to a bad one
Whole(f) == {i \in DOMAIN f.list : \A j \in 1 .. i : f.words[j] >= f.list[j].count}

\* The list says which registers it holds: its values need no request.
decode_h41_entry(w) == {r.group : r \in Known(w, w.count)}

\* the slave, the sub-command, the number of items and their hash agree
find_h41_request(f) ==
    {i \in Slot("list") : LET e == pending["list"][i] IN e.valid /\ e.slave = f.slave /\ e.what = f.list}

FeedList(f) ==
    /\ f.kind = "h41"
    /\ IF IsListRequest(f)
       THEN /\ Store("list", f, f.list)
            /\ UNCHANGED seen
       ELSE /\ seen' = seen \cup UNION {decode_h41_entry(f.list[i]) : i \in Whole(f)}
            /\ IF Whole(f) = DOMAIN f.list /\ ~f.rest /\ find_h41_request(f) # {}
               THEN Release("list", Latest(pending["list"], find_h41_request(f)))
               ELSE UNCHANGED pending
    /\ UNCHANGED latest /\ NoDecode

\* An exception is only logged: its request stays pending.
FeedException(f) == f.kind = "exception" /\ UNCHANGED <<pending, seen, latest>> /\ NoDecode

huawei_decoder_feed(f) ==
    /\ FeedRequest(f) \/ FeedResponse(f) \/ FeedList(f) \/ FeedException(f)
    /\ fed' = <<fed[2], f.id>>
-----------------------------------------------------------------------------
(* sniffer_task.                                                            *)

\* a chunk that is not exactly one frame fails the CRC
modbus_parse_frame(chunk) == chunk = Units(chunk[1][1])

process_raw_frame(chunk) == IF modbus_parse_frame(chunk)
                            THEN huawei_decoder_feed(chunk[1][1])
                            ELSE UNCHANGED decoder /\ NoDecode

\* mutant: one byte too many
append_byte_beyond(u) == IF Len(rx) <= MaxFrameLen THEN Append(rx, u) ELSE <<u>>

append_byte(u) == IF Len(rx) < MaxFrameLen THEN Append(rx, u) ELSE <<u>>

ReadByte ==
    /\ uart # <<>>
    /\ uart' = Tail(uart)
    /\ silent' = FALSE
    /\ IF rx # <<>> /\ silent
       THEN process_raw_frame(rx) /\ rx' = <<Head(uart)>>
       ELSE /\ rx' = append_byte(Head(uart))
            /\ UNCHANGED decoder /\ NoDecode
    /\ UNCHANGED <<bus, now, scan>>

\* mutant: s_rx_len is not reset
ReadNothing_kept ==
    /\ uart = <<>> /\ rx # <<>> /\ silent
    /\ process_raw_frame(rx)
    /\ UNCHANGED <<rx, silent, bus, uart, now, scan>>

ReadNothing ==
    /\ uart = <<>> /\ rx # <<>> /\ silent
    /\ process_raw_frame(rx)
    /\ rx' = <<>> /\ silent' = FALSE
    /\ UNCHANGED <<bus, uart, now, scan>>

\* A frame gap passes without the task reading a byte: silence on the line,
\* a driver that delivers late, or a task that is kept from running.
Pass ==
    /\ now < MaxTime
    /\ now' = now + 1
    /\ silent' = (rx # <<>>)
    /\ UNCHANGED <<bus, uart, rx, scan, decoder>> /\ NoDecode

SnifferTask == ReadByte \/ ReadNothing
-----------------------------------------------------------------------------
(* huawei_decoder_expire_pending, called by loop(): one reading of millis   *)
(* for both tables.                                                         *)

At(step) == IF step <= MAX_PENDING_REQUESTS THEN <<"reg", step>> ELSE <<"list", step - MAX_PENDING_REQUESTS>>
Scanned(step) == pending[At(step)[1]][At(step)[2]]
NextStep == IF scan.step = Slots THEN NotScanning ELSE [scan EXCEPT !.step = @ + 1, !.expired = FALSE]

ExpireStart ==
    /\ scan.step = 0
    /\ scan' = [step |-> 1, now |-> now, expired |-> FALSE]
    /\ UNCHANGED <<bus, rxVars, now, decoder>> /\ NoDecode

Expired(e) == e.valid /\ (scan.now - e.at) % Wrap > Timeout

ExpireCheck ==
    /\ scan.step > 0 /\ ~scan.expired
    /\ scan' = IF Expired(Scanned(scan.step)) THEN [scan EXCEPT !.expired = TRUE] ELSE NextStep
    /\ UNCHANGED <<bus, rxVars, now, decoder>> /\ NoDecode

ExpireClear ==
    /\ scan.expired
    /\ LET e == Scanned(scan.step)
       IN  latest' = [latest EXCEPT !.robbed = @ \/ (e.valid /\ e.id = latest.id /\ now - e.at <= Timeout)]
    /\ Release(At(scan.step)[1], At(scan.step)[2])
    /\ scan' = NextStep
    /\ UNCHANGED <<bus, rxVars, now, seen, fed>> /\ NoDecode

Expire == ExpireStart \/ ExpireCheck \/ ExpireClear
-----------------------------------------------------------------------------
Next == MasterAsks \/ SlaveAnswers \/ SlaveRefuses \/ SnifferTask \/ Pass \/ Expire

Spec == Init /\ [][Next]_vars
-----------------------------------------------------------------------------
(* The variables of the code stay within their types.                      *)
TypeOK ==
    /\ Len(rx) <= MaxFrameLen
    /\ \A t \in Table : \A i \in Slot(t) : pending[t][i].at \in 0 .. now
    /\ seen \subseteq {r.group : r \in KnownRegs}
    /\ scan.step \in 0 .. Slots /\ scan.now \in 0 .. now
    /\ silent => rx # <<>>

(* A response whose own request is pending is decoded with its addresses,  *)
(* however many older requests of that slave were left unanswered:         *)
(* find_request prefers the latest, and nothing consumes it before.        *)
OwnWindow == decoded.own => \A o \in decoded.out : o.addr = o.from

(* The request of a decoded response is no longer pending only if it was   *)
(* never heard, is older than the timeout, or fell to an expiry that read  *)
(* the clock before it was stored. Neither a full table nor answers to     *)
(* other requests take it away.                                            *)
MissingExplained ==
    (decoded # NothingDecoded /\ ~decoded.own /\ decoded.of = latest.id) =>
        latest.robbed \/ now - latest.at > Timeout

(* Whatever is glued together, cut or lost, frames reach the decoder in    *)
(* the order of the bus and none twice.                                    *)
FedInOrder == fed[1] < fed[2]
=============================================================================
