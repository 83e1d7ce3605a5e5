-------------------------- MODULE RawFrameStreamer --------------------------
(***************************************************************************)
(* The raw frame exporter, src/src/RawFrameStreamer.cpp.                   *)
(*                                                                         *)
(* Two tasks share a ring of slots under one spin lock (s_mux).  The       *)
(* sniffer task pushes every captured frame (raw_frame_streamer_enqueue);  *)
(* the raw_stream task (stream_task) keeps a TCP connection to a collector *)
(* and, one slot at a time, pops a slot and writes its header and payload. *)
(* Critical sections are atomic steps; everything between two of them,     *)
(* among it the blocking connect and the two blocking writes, can be       *)
(* overtaken by the other task and by the network.                         *)
(*                                                                         *)
(* A frame is abstracted to its length: its sequence number identifies it. *)
(* The 32-bit counters are not wrapped (four billion frames).              *)
(***************************************************************************)
EXTENDS Naturals, Sequences

CONSTANTS
  Capacity,  \* s_capacity, fixed by alloc_slots
  Lengths,   \* raw_len values the decoder hands over
  MaxFrame,  \* MODBUS_RTU_MAX_FRAME
  MaxSeq,    \* bound: frames captured
  MaxFlaps   \* bound: connection losses and WiFi changes

ASSUME CapacityAssumption == Capacity \in Nat \ {0}
ASSUME LengthAssumption == Lengths \subseteq Nat /\ MaxFrame \in Nat
ASSUME BoundAssumption == MaxSeq \in Nat /\ MaxFlaps \in Nat

VARIABLES
  slots, head, tail, count,        \* the ring: s_slots, s_head, s_tail, s_count
  seq,                             \* s_seq
  sent, dropped,                   \* s_sent_frames, s_dropped_frames
  connected, reconnects, ever,     \* s_connected, s_reconnect_count, s_ever_connected
  pc, cur, was,                    \* stream_task: where it is, its slot, was_connected
  wifi, client,                    \* WiFi.status(), client.connected()
  flaps,                           \* how often the network changed its mind
  lost                             \* history: popped slots whose write failed

ring == <<slots, head, tail, count, seq, dropped>>
link == <<connected, reconnects, ever, was>>
net == <<wifi, client, flaps>>
vars == <<ring, link, net, pc, cur, sent, lost>>

Slot == [seq : Nat, raw_len : Nat]
ZeroSlot == [seq |-> 0, raw_len |-> 0]
Index == 0 .. Capacity - 1

\* s_enqueued_frames and s_seq advance together, in push_slot only.
Enqueued == seq - 1

\* Where stream_task holds a popped slot that is neither sent nor lost yet.
InFlight == IF pc \in {"header", "payload", "sent"} THEN 1 ELSE 0

Init ==
  /\ slots = [i \in Index |-> ZeroSlot]
  /\ head = 0 /\ tail = 0 /\ count = 0
  /\ seq = 1 /\ sent = 0 /\ dropped = 0 /\ lost = 0
  /\ connected = FALSE /\ reconnects = 0 /\ ever = FALSE
  /\ pc = "poll" /\ cur = ZeroSlot /\ was = FALSE
  /\ wifi \in BOOLEAN /\ client = FALSE /\ flaps = 0

(***************************************************************************)
(* The sniffer task.                                                       *)
(***************************************************************************)
After_unwrapped(i) == i + 1
After(i) == (i + 1) % Capacity

push_slot_tail_kept(raw_len) ==
  /\ IF count = Capacity
       THEN /\ dropped' = dropped + 1
            /\ count' = count
       ELSE /\ UNCHANGED dropped
            /\ count' = count + 1
  /\ UNCHANGED tail
  /\ slots' = [slots EXCEPT ![head] = [seq |-> seq, raw_len |-> raw_len]]
  /\ head' = After(head)
  /\ seq' = seq + 1

push_slot_uncounted(raw_len) ==
  /\ IF count = Capacity
       THEN tail' = After(tail) /\ count' = count
       ELSE tail' = tail /\ count' = count + 1
  /\ UNCHANGED dropped
  /\ slots' = [slots EXCEPT ![head] = [seq |-> seq, raw_len |-> raw_len]]
  /\ head' = After(head)
  /\ seq' = seq + 1

\* A full ring first gives up its oldest slot; the push itself never fails.
push_slot(raw_len) ==
  /\ IF count = Capacity
       THEN /\ tail' = After(tail)
            /\ dropped' = dropped + 1
            /\ count' = count
       ELSE /\ UNCHANGED <<tail, dropped>>
            /\ count' = count + 1
  /\ slots' = [slots EXCEPT ![head] = [seq |-> seq, raw_len |-> raw_len]]
  /\ head' = After(head)
  /\ seq' = seq + 1

\* An empty or an oversized frame is refused before the ring is touched.
raw_frame_streamer_enqueue ==
  /\ seq <= MaxSeq
  /\ \E n \in Lengths : n \in 1 .. MaxFrame /\ push_slot(n)
  /\ UNCHANGED <<link, net, pc, cur, sent, lost>>

(***************************************************************************)
(* stream_task.  "poll" is the top of its loop.                            *)
(***************************************************************************)
mark_connected(c) == connected' = c

\* 210-216: no WiFi, the socket is closed.
TaskNoWifi ==
  /\ pc = "poll" /\ ~wifi
  /\ client' = FALSE /\ mark_connected(FALSE) /\ was' = FALSE
  /\ UNCHANGED <<ring, reconnects, ever, wifi, flaps, pc, cur, sent, lost>>

\* 218-230: no connection and reconnect_ms not yet over since the last attempt.
TaskThrottled ==
  /\ pc = "poll" /\ wifi /\ ~client
  /\ mark_connected(FALSE) /\ was' = FALSE
  /\ UNCHANGED <<ring, reconnects, ever, net, pc, cur, sent, lost>>

\* 218-231: reconnect_ms is over; client.connect is entered.
TaskAttempt ==
  /\ pc = "poll" /\ wifi /\ ~client
  /\ mark_connected(FALSE) /\ was' = FALSE
  /\ pc' = "connect"
  /\ UNCHANGED <<ring, reconnects, ever, net, cur, sent, lost>>

TaskConnected_once ==
  /\ pc = "connect" /\ wifi /\ ~ever
  /\ client' = TRUE /\ mark_connected(TRUE) /\ was' = TRUE
  /\ ever' = TRUE
  /\ pc' = "pop"
  /\ UNCHANGED <<ring, reconnects, wifi, flaps, cur, sent, lost>>

TaskConnected ==
  /\ pc = "connect" /\ wifi
  /\ client' = TRUE /\ mark_connected(TRUE) /\ was' = TRUE
  /\ reconnects' = IF ever THEN reconnects + 1 ELSE reconnects
  /\ ever' = TRUE
  /\ pc' = "pop"
  /\ UNCHANGED <<ring, wifi, flaps, cur, sent, lost>>

TaskConnectFailed ==
  /\ pc = "connect"
  /\ pc' = "poll"
  /\ UNCHANGED <<ring, link, net, cur, sent, lost>>

\* 265-268: the connection still stands.
TaskReady ==
  /\ pc = "poll" /\ wifi /\ client
  /\ was' = TRUE
  /\ mark_connected(IF was THEN connected ELSE TRUE)
  /\ pc' = "pop"
  /\ UNCHANGED <<ring, reconnects, ever, net, cur, sent, lost>>

pop_slot_head ==
  /\ cur' = slots[(head + Capacity - 1) % Capacity]
  /\ tail' = After(tail)
  /\ count' = count - 1

pop_slot ==
  /\ cur' = slots[tail]
  /\ tail' = After(tail)
  /\ count' = count - 1

TaskPop_unguarded ==
  /\ pc = "pop"
  /\ pop_slot
  /\ pc' = "header"
  /\ UNCHANGED <<slots, head, seq, dropped, link, net, sent, lost>>

TaskPop ==
  /\ pc = "pop" /\ count > 0
  /\ pop_slot
  /\ pc' = "header"
  /\ UNCHANGED <<slots, head, seq, dropped, link, net, sent, lost>>

TaskIdle ==
  /\ pc = "pop" /\ count = 0
  /\ pc' = "poll"
  /\ UNCHANGED <<ring, link, net, cur, sent, lost>>

\* 176-177 and 179-180: client.write accepted every byte.
TaskWriteHeader ==
  /\ pc = "header" /\ client
  /\ pc' = "payload"
  /\ UNCHANGED <<ring, link, net, cur, sent, lost>>

TaskWritePayload ==
  /\ pc = "payload" /\ client
  /\ pc' = "sent"
  /\ UNCHANGED <<ring, link, net, cur, sent, lost>>

\* 276-282: a write came up short; the popped slot is gone.
TaskWriteFailed ==
  /\ pc \in {"header", "payload"}
  /\ client' = FALSE /\ mark_connected(FALSE) /\ was' = FALSE
  /\ pc' = "poll"
  /\ lost' = lost + 1
  /\ UNCHANGED <<ring, reconnects, ever, wifi, flaps, cur, sent>>

TaskCount_missing ==
  /\ pc = "sent"
  /\ pc' = "poll"
  /\ UNCHANGED <<ring, link, net, cur, sent, lost>>

TaskCount ==
  /\ pc = "sent"
  /\ sent' = sent + 1
  /\ pc' = "poll"
  /\ UNCHANGED <<ring, link, net, cur, lost>>

TaskWrite == TaskWriteHeader \/ TaskWritePayload \/ TaskWriteFailed

Task ==
  \/ TaskNoWifi \/ TaskThrottled \/ TaskAttempt
  \/ TaskConnected \/ TaskConnectFailed \/ TaskReady
  \/ TaskPop \/ TaskIdle \/ TaskWrite \/ TaskCount

(***************************************************************************)
(* The network: WiFi comes and goes, the collector or the path closes the  *)
(* socket at any moment.                                                   *)
(***************************************************************************)
WifiChange ==
  /\ flaps < MaxFlaps
  /\ flaps' = flaps + 1
  /\ wifi' = ~wifi
  /\ UNCHANGED <<ring, link, client, pc, cur, sent, lost>>

PeerClose ==
  /\ flaps < MaxFlaps /\ client
  /\ flaps' = flaps + 1
  /\ client' = FALSE
  /\ UNCHANGED <<ring, link, wifi, pc, cur, sent, lost>>

Next == raw_frame_streamer_enqueue \/ Task \/ WifiChange \/ PeerClose

Spec == Init /\ [][Next]_vars

\* The raw_stream task runs forever.  While the collector listens, an attempt
\* is made once reconnect_ms is over, and attempts succeed in the end; writes
\* on a standing connection do not fail forever.
Fairness ==
  /\ WF_vars(Task)
  /\ SF_vars(TaskAttempt)
  /\ SF_vars(TaskConnected)
  /\ SF_vars(TaskWriteHeader)
  /\ SF_vars(TaskWritePayload)

LiveSpec == Spec /\ Fairness
-----------------------------------------------------------------------------
(***************************************************************************)
(* Properties.                                                             *)
(***************************************************************************)

RingType ==
  /\ slots \in [Index -> Slot]
  /\ head \in Index /\ tail \in Index /\ count \in 0 .. Capacity
  /\ cur \in Slot
  /\ seq \in Nat \ {0} /\ dropped \in Nat

CountType ==
  /\ sent \in Nat /\ lost \in Nat /\ reconnects \in Nat /\ flaps \in Nat
  /\ pc \in {"poll", "connect", "pop", "header", "payload", "sent"}

FlagType ==
  /\ connected \in BOOLEAN /\ ever \in BOOLEAN /\ was \in BOOLEAN
  /\ wifi \in BOOLEAN /\ client \in BOOLEAN

\* The type of every variable, and the ring's indices within the ring.
TypeOK == RingType /\ CountType /\ FlagType

\* The i-th waiting slot, oldest first, i \in 0 .. count - 1.
Waiting(i) == slots[(tail + i) % Capacity]

\* push_slot and pop_slot move head, tail and count separately: the waiting
\* slots are always the newest count frames, consecutive and oldest at tail,
\* however pushes over a full ring and pops interleave.
RingHoldsNewest ==
  /\ head = (tail + count) % Capacity
  /\ \A i \in 0 .. count - 1 : Waiting(i).seq = (seq - count) + i

\* /api/status reports enqueued, sent, dropped and queued frames: they account
\* for every captured frame but the one in transmission and those lost by a
\* failed write, which no counter of the code shows.
Accounted == Enqueued = sent + dropped + lost + count + InFlight

\* What waits has not been handed out: the slot the task popped last, even one
\* lost by a failed write, is older than every waiting slot.
WaitingIsNewer == cur.seq + count < seq

\* The inductive invariant behind the theorems of RawFrameStreamerProofs.
RingInv == TypeOK /\ RingHoldsNewest /\ Accounted /\ WaitingIsNewer

\* The collector reads gaps in seq as losses: a slot handed to the socket is
\* newer than every slot handed over before it, across reconnects.
NewerEachTime == [][cur' # cur => cur'.seq > cur.seq]_vars

\* Every frame the ring gives up without sending it is counted: the oldest waiting
\* sequence number moves on by a pop or by a counted drop, never otherwise.
DropsCounted ==
  [][(seq' - count') - (seq - count) =
       (dropped' - dropped) + (IF pc = "pop" /\ pc' = "header" THEN 1 ELSE 0)]_vars

\* Once the network stays up, what waits is sent or lost: when the sniffer pauses,
\* the queue drains for good and the task ends up holding no slot.
Drains == <>[](wifi /\ seq > MaxSeq) => <>[](count = 0 /\ InFlight = 0)

(***************************************************************************)
(* The ring is a lossy FIFO queue.                                         *)
(***************************************************************************)
WaitingSeq == [i \in 1 .. count |-> Waiting(i - 1)]
Serving == IF InFlight = 1 THEN <<cur>> ELSE << >>

Abstract == INSTANCE LossyFifo WITH
  Bound <- Capacity,
  Frames <- Lengths,
  queue <- WaitingSeq,
  service <- Serving,
  next <- seq,
  discarded <- dropped

\* The exporter implements the lossy FIFO queue.
ImplementsLossyFifo == Abstract!FifoSpec
=============================================================================
