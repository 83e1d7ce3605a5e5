------------------------- MODULE RawStreamProofs -------------------------
(***************************************************************************)
(* Theorems about RawFrameStreamer and RawStreamPipeline for every ring    *)
(* capacity, every set of frame lengths and every bound.                   *)
(***************************************************************************)
EXTENDS RawStreamPipeline, SequenceTheorems, FiniteSetTheorems, TLAPS

-----------------------------------------------------------------------------
(***************************************************************************)
(* Ring arithmetic.  Indices never exceed 2 * Capacity - 1 before they are *)
(* reduced, so that % is a comparison and a subtraction.                   *)
(***************************************************************************)

\* Reduction modulo Capacity below twice the capacity.
LEMMA Wrap ==
  ASSUME NEW a \in Nat, a < 2 * Capacity
  PROVE  a % Capacity = IF a < Capacity THEN a ELSE a - Capacity
<1>1. Capacity \in Nat /\ Capacity > 0
  BY CapacityAssumption
<1>2. CASE a < Capacity
  BY <1>1, <1>2
<1>3. CASE a >= Capacity
  <2>1. a - Capacity \in 0 .. Capacity - 1
    BY <1>1, <1>3
  <2>2. a = 1 * Capacity + (a - Capacity)
    BY <1>1
  <2> QED
    BY <1>1, <2>1, <2>2, <1>3
<1> QED
  BY <1>1, <1>2, <1>3

\* The ring's head and tail stay within the ring.
LEMMA AfterInRing ==
  ASSUME NEW i \in Index
  PROVE  After(i) = (IF i = Capacity - 1 THEN 0 ELSE i + 1) /\ After(i) \in Index
BY Wrap, CapacityAssumption DEF After, Index

-----------------------------------------------------------------------------
(***************************************************************************)
(* The invariant.                                                          *)
(***************************************************************************)
LEMMA InitRingInv == Init => RingInv
<1> SUFFICES ASSUME Init PROVE RingInv
  OBVIOUS
<1>1. RingType /\ CountType
  BY CapacityAssumption DEF Init, RingType, CountType, Index, Slot, ZeroSlot
<1>2. FlagType
  BY DEF Init, FlagType
<1>3. RingHoldsNewest
  <2>1. 0 % Capacity = 0
    BY CapacityAssumption
  <2> QED
    BY <2>1 DEF Init, RingHoldsNewest
<1>4. Accounted /\ WaitingIsNewer
  BY DEF Init, Accounted, Enqueued, InFlight, WaitingIsNewer, ZeroSlot
<1> QED
  BY <1>1, <1>2, <1>3, <1>4 DEF RingInv, TypeOK

\* Only the push and the pop touch the ring.
LEMMA RingUntouched ==
  ASSUME [Next]_vars, ~raw_frame_streamer_enqueue, ~TaskPop
  PROVE  UNCHANGED <<slots, head, tail, count, seq, dropped, cur>>
BY DEF Next, Task, TaskNoWifi, TaskThrottled, TaskAttempt, TaskConnected, TaskConnectFailed,
       TaskReady, TaskIdle, TaskCount, TaskWrite, TaskWriteHeader, TaskWritePayload,
       TaskWriteFailed, WifiChange, PeerClose, vars, ring

LEMMA PushRingType ==
  ASSUME RingType, raw_frame_streamer_enqueue
  PROVE  RingType'
<1>1. PICK n \in Lengths : n \in 1 .. MaxFrame /\ push_slot(n)
  BY DEF raw_frame_streamer_enqueue
<1>2. n \in Nat
  BY LengthAssumption
<1>3. slots' \in [Index -> Slot] /\ seq' \in Nat \ {0}
  BY <1>1, <1>2 DEF push_slot, RingType, Slot
<1>4. head' \in Index /\ tail' \in Index
  BY <1>1, AfterInRing DEF push_slot, RingType
<1>5. count' \in 0 .. Capacity /\ dropped' \in Nat
  BY <1>1, CapacityAssumption DEF push_slot, RingType
<1> QED
  BY <1>3, <1>4, <1>5 DEF raw_frame_streamer_enqueue, RingType

LEMMA PopRingType ==
  ASSUME RingType, TaskPop
  PROVE  RingType'
<1>1. cur' \in Slot
  BY DEF TaskPop, pop_slot, RingType
<1>2. tail' \in Index
  BY AfterInRing DEF TaskPop, pop_slot, RingType
<1>3. count' \in 0 .. Capacity
  BY CapacityAssumption DEF TaskPop, pop_slot, RingType
<1> QED
  BY <1>1, <1>2, <1>3 DEF TaskPop, pop_slot, RingType

\* Every step keeps the type of every variable.
LEMMA TypeStep == TypeOK /\ [Next]_vars => TypeOK'
<1> SUFFICES ASSUME TypeOK, [Next]_vars PROVE TypeOK'
  OBVIOUS
<1>1. RingType'
  <2>1. CASE raw_frame_streamer_enqueue
    BY <2>1, PushRingType DEF TypeOK
  <2>2. CASE TaskPop
    BY <2>2, PopRingType DEF TypeOK
  <2>3. CASE ~raw_frame_streamer_enqueue /\ ~TaskPop
    BY <2>3, RingUntouched DEF RingType, TypeOK
  <2> QED
    BY <2>1, <2>2, <2>3
<1>2. CountType'
  <2>1. CASE TaskConnected
    BY <2>1 DEF TaskConnected, TypeOK, CountType
  <2>2. CASE TaskWriteHeader \/ TaskWritePayload \/ TaskCount
    BY <2>2 DEF TaskWriteHeader, TaskWritePayload, TaskCount, TypeOK, CountType, link, net
  <2>6. CASE TaskWriteFailed
    BY <2>6 DEF TaskWriteFailed, TypeOK, CountType
  <2>3. CASE WifiChange \/ PeerClose
    BY <2>3 DEF WifiChange, PeerClose, TypeOK, CountType, link
  <2>4. CASE raw_frame_streamer_enqueue \/ TaskPop \/ TaskIdle \/ UNCHANGED vars
    BY <2>4 DEF raw_frame_streamer_enqueue, TaskPop, TaskIdle, TypeOK, CountType,
                vars, link, net
  <2>5. CASE TaskNoWifi \/ TaskThrottled \/ TaskAttempt \/ TaskConnectFailed \/ TaskReady
    BY <2>5 DEF TaskNoWifi, TaskThrottled, TaskAttempt, TaskConnectFailed, TaskReady,
                TypeOK, CountType, link, net
  <2> QED
    BY <2>1, <2>2, <2>3, <2>4, <2>5, <2>6 DEF Next, Task, TaskWrite
<1>3. FlagType'
  BY Zenon
     DEF TypeOK, FlagType, Next, raw_frame_streamer_enqueue, Task, TaskNoWifi, TaskThrottled,
         TaskAttempt, TaskConnected, TaskConnectFailed, TaskReady, TaskPop, TaskIdle, TaskCount,
         TaskWrite, TaskWriteHeader, TaskWritePayload, TaskWriteFailed, WifiChange, PeerClose,
         mark_connected, vars, link, net
<1> QED
  BY <1>1, <1>2, <1>3 DEF TypeOK

-----------------------------------------------------------------------------
(***************************************************************************)
(* What a push and a pop do to the waiting slots, oldest first.            *)
(***************************************************************************)

\* One place further along the ring, seen from the next tail.
LEMMA Advance ==
  ASSUME NEW t \in Index, NEW i \in 0 .. Capacity - 1
  PROVE  (After(t) + i) % Capacity = (t + (i + 1)) % Capacity
<1>1. Capacity \in Nat /\ Capacity > 0 /\ After(t) = IF t = Capacity - 1 THEN 0 ELSE t + 1
  BY CapacityAssumption, AfterInRing
<1>2. CASE t = Capacity - 1
  <2>1. After(t) + i = i /\ t + (i + 1) = Capacity + i /\ i < Capacity /\ i \in Nat
    BY <1>1, <1>2
  <2> QED
    BY <1>1, <2>1, Wrap
<1>3. CASE t # Capacity - 1
  BY <1>1, <1>3 DEF Index
<1> QED
  BY <1>2, <1>3

\* A push appends the new slot; over a full ring all others move up by one
\* place and the oldest is gone.
LEMMA PushWaiting ==
  ASSUME RingType, RingHoldsNewest, NEW n \in Nat, push_slot(n)
  PROVE  LET new == [seq |-> seq, raw_len |-> n]
         IN /\ head' = (tail' + count') % Capacity
            /\ seq' = seq + 1
            /\ count < Capacity =>
                 /\ count' = count + 1 /\ dropped' = dropped
                 /\ \A i \in 0 .. count :
                      Waiting(i)' = IF i = count THEN new ELSE Waiting(i)
            /\ count = Capacity =>
                 /\ count' = count /\ dropped' = dropped + 1
                 /\ \A i \in 0 .. count - 1 :
                      Waiting(i)' = IF i = count - 1 THEN new ELSE Waiting(i + 1)
<1> DEFINE new == [seq |-> seq, raw_len |-> n]
<1>1. Capacity \in Nat /\ Capacity > 0 /\ count \in 0 .. Capacity /\ tail \in Index
      /\ head \in Index
  BY CapacityAssumption DEF RingType
<1>2. head = IF tail + count < Capacity THEN tail + count ELSE tail + count - Capacity
  BY <1>1, Wrap DEF RingHoldsNewest, Index
<1>3. slots' = [slots EXCEPT ![head] = new] /\ head' = After(head) /\ seq' = seq + 1
  BY DEF push_slot
<1>4. \A k \in Index : slots'[k] = IF k = head THEN new ELSE slots[k]
  BY <1>1, <1>3 DEF RingType
<1>5. ASSUME count < Capacity
      PROVE  /\ head' = (tail' + count') % Capacity
             /\ count' = count + 1 /\ dropped' = dropped
             /\ \A i \in 0 .. count : Waiting(i)' = IF i = count THEN new ELSE Waiting(i)
  <2>1. tail' = tail /\ count' = count + 1 /\ dropped' = dropped
    BY <1>1, <1>5 DEF push_slot
  <2>2. head' = (tail' + count') % Capacity
    BY <1>1, <1>2, <1>3, <1>5, <2>1, AfterInRing, Wrap DEF Index
  <2>3. ASSUME NEW i \in 0 .. count
        PROVE  Waiting(i)' = IF i = count THEN new ELSE Waiting(i)
    <3>1. (tail + i) % Capacity \in Index
      BY <1>1, <1>5, Wrap DEF Index
    <3>2. (tail + i) % Capacity = head <=> i = count
      BY <1>1, <1>2, <1>5, Wrap DEF Index
    <3> QED
      BY <1>4, <2>1, <3>1, <3>2 DEF Waiting
  <2> QED
    BY <2>1, <2>2, <2>3
<1>6. ASSUME count = Capacity
      PROVE  /\ head' = (tail' + count') % Capacity
             /\ count' = count /\ dropped' = dropped + 1
             /\ \A i \in 0 .. count - 1 :
                  Waiting(i)' = IF i = count - 1 THEN new ELSE Waiting(i + 1)
  <2>1. tail' = After(tail) /\ count' = count /\ head = tail /\ dropped' = dropped + 1
    BY <1>1, <1>2, <1>6 DEF push_slot, Index
  <2>2. head' = (tail' + count') % Capacity
    BY <1>1, <1>3, <1>6, <2>1, AfterInRing, Wrap DEF Index
  <2>3. ASSUME NEW i \in 0 .. count - 1
        PROVE  Waiting(i)' = IF i = count - 1 THEN new ELSE Waiting(i + 1)
    <3> DEFINE place == tail + (i + 1)
    <3>1. (tail' + i) % Capacity = place % Capacity
      BY <1>1, <1>6, <2>1, Advance
    <3>2. place \in Nat /\ place < 2 * Capacity /\ place # tail
          /\ (place = tail + Capacity <=> i = count - 1)
      BY <1>1, <1>6 DEF Index
    <3>3. place % Capacity \in Index /\ (place % Capacity = head <=> i = count - 1)
      BY <1>1, <2>1, <3>2, Wrap DEF Index
    <3> QED
      BY <1>4, <3>1, <3>3 DEF Waiting
  <2> QED
    BY <2>1, <2>2, <2>3
<1> QED
  BY <1>1, <1>3, <1>5, <1>6

\* A pop hands out the oldest waiting slot and moves the others up.
LEMMA PopWaiting ==
  ASSUME RingType, RingHoldsNewest, TaskPop
  PROVE  /\ count > 0 /\ count' = count - 1
         /\ head' = (tail' + count') % Capacity
         /\ cur' = Waiting(0) /\ seq' = seq
         /\ \A i \in 0 .. count - 2 : Waiting(i)' = Waiting(i + 1)
<1>1. Capacity \in Nat /\ Capacity > 0 /\ count \in 1 .. Capacity /\ tail \in Index
      /\ head \in Index /\ seq \in Nat
  BY CapacityAssumption DEF RingType, TaskPop
<1>2. cur' = slots[tail] /\ tail' = After(tail) /\ count' = count - 1
      /\ slots' = slots /\ head' = head /\ seq' = seq
  BY DEF TaskPop, pop_slot
<1>3. head' = (tail' + count') % Capacity
  <2>1. (tail' + count') % Capacity = (tail + (count' + 1)) % Capacity
    BY <1>1, <1>2, Advance
  <2> QED
    BY <1>1, <1>2, <2>1 DEF RingHoldsNewest
<1>4. \A i \in 0 .. count - 2 : Waiting(i)' = Waiting(i + 1)
  BY <1>1, <1>2, Advance DEF Waiting
<1>5. cur' = Waiting(0)
  <2>1. (tail + 0) % Capacity = tail
    BY <1>1, Wrap DEF Index
  <2> QED
    BY <1>2, <2>1 DEF Waiting
<1> QED
  BY <1>1, <1>2, <1>3, <1>4, <1>5

LEMMA PushKeepsNewest ==
  ASSUME RingType, RingHoldsNewest, raw_frame_streamer_enqueue
  PROVE  RingHoldsNewest'
<1>1. PICK n \in Lengths : n \in 1 .. MaxFrame /\ push_slot(n)
  BY DEF raw_frame_streamer_enqueue
<1>2. n \in Nat /\ Capacity \in Nat /\ count \in 0 .. Capacity /\ seq \in Nat
  BY LengthAssumption, CapacityAssumption DEF RingType
<1>3. head' = (tail' + count') % Capacity /\ seq' = seq + 1
  BY <1>1, <1>2, PushWaiting
<1>4. ASSUME NEW i \in 0 .. count' - 1
      PROVE  Waiting(i)'.seq = (seq' - count') + i
  <2>1. CASE count < Capacity
    <3>1. count' = count + 1 /\ i \in 0 .. count
          /\ Waiting(i)' = IF i = count THEN [seq |-> seq, raw_len |-> n] ELSE Waiting(i)
      BY <1>1, <1>2, <2>1, PushWaiting
    <3>2. i < count => Waiting(i).seq = (seq - count) + i
      BY <1>2, <3>1 DEF RingHoldsNewest
    <3> QED
      BY <1>2, <1>3, <3>1, <3>2
  <2>2. CASE count = Capacity
    <3>1. count' = count /\ i \in 0 .. count - 1
          /\ Waiting(i)' = IF i = count - 1 THEN [seq |-> seq, raw_len |-> n] ELSE Waiting(i + 1)
      BY <1>1, <1>2, <2>2, PushWaiting
    <3>2. i < count - 1 => Waiting(i + 1).seq = (seq - count) + (i + 1)
      BY <1>2, <3>1 DEF RingHoldsNewest
    <3> QED
      BY <1>2, <1>3, <3>1, <3>2
  <2> QED
    BY <1>2, <2>1, <2>2
<1> QED
  BY <1>3, <1>4 DEF RingHoldsNewest

LEMMA PopKeepsNewest ==
  ASSUME RingType, RingHoldsNewest, TaskPop
  PROVE  RingHoldsNewest' /\ cur'.seq = seq - count
<1>1. Capacity \in Nat /\ count \in 1 .. Capacity /\ seq \in Nat
  BY CapacityAssumption DEF RingType, TaskPop
<1>2. ASSUME NEW i \in 0 .. count' - 1
      PROVE  Waiting(i)'.seq = (seq' - count') + i
  <2>1. count' = count - 1 /\ seq' = seq /\ Waiting(i)' = Waiting(i + 1)
    BY <1>1, PopWaiting
  <2>2. Waiting(i + 1).seq = (seq - count) + (i + 1)
    BY <1>1, <2>1 DEF RingHoldsNewest
  <2> QED
    BY <1>1, <2>1, <2>2
<1>3. cur'.seq = seq - count
  BY <1>1, PopWaiting DEF RingHoldsNewest
<1> QED
  BY <1>2, <1>3, PopWaiting DEF RingHoldsNewest

LEMMA AccountedStep ==
  ASSUME TypeOK, Accounted, [Next]_vars
  PROVE  Accounted'
<1>1. count \in 0 .. Capacity /\ Capacity \in Nat /\ seq \in Nat /\ dropped \in Nat
      /\ sent \in Nat /\ lost \in Nat
  BY CapacityAssumption DEF TypeOK, RingType, CountType
<1>2. InFlight \in Nat /\ InFlight' \in Nat
  BY DEF InFlight
<1>3. seq - 1 = sent + dropped + lost + count + InFlight
  BY DEF Accounted, Enqueued
<1> SUFFICES seq' - 1 = sent' + dropped' + lost' + count' + InFlight'
  BY DEF Accounted, Enqueued
<1>4. CASE raw_frame_streamer_enqueue
  <2>1. sent' = sent /\ lost' = lost /\ seq' = seq + 1 /\ InFlight' = InFlight
    BY <1>4 DEF raw_frame_streamer_enqueue, push_slot, InFlight
  <2>2. CASE count = Capacity
    <3>1. dropped' = dropped + 1 /\ count' = count
      BY <1>4, <2>2 DEF raw_frame_streamer_enqueue, push_slot
    <3> QED
      BY <1>1, <1>2, <1>3, <2>1, <3>1
  <2>3. CASE count # Capacity
    <3>1. dropped' = dropped /\ count' = count + 1
      BY <1>4, <2>3 DEF raw_frame_streamer_enqueue, push_slot
    <3> QED
      BY <1>1, <1>2, <1>3, <2>1, <3>1
  <2> QED
    BY <2>2, <2>3
<1>5. CASE TaskPop
  <2>1. sent' = sent /\ lost' = lost /\ seq' = seq /\ dropped' = dropped
        /\ count' = count - 1 /\ InFlight = 0 /\ InFlight' = 1 /\ count > 0
    BY <1>5 DEF TaskPop, pop_slot, InFlight
  <2> QED
    BY <1>1, <1>3, <2>1
<1>6. CASE ~raw_frame_streamer_enqueue /\ ~TaskPop
  <2>1. count' = count /\ seq' = seq /\ dropped' = dropped
    BY <1>6, RingUntouched
  <2>2. CASE TaskWriteFailed
    <3>1. sent' = sent /\ lost' = lost + 1 /\ InFlight = 1 /\ InFlight' = 0
      BY <2>2 DEF TaskWriteFailed, InFlight
    <3> QED
      BY <1>1, <1>3, <2>1, <3>1
  <2>3. CASE TaskCount
    <3>1. sent' = sent + 1 /\ lost' = lost /\ InFlight = 1 /\ InFlight' = 0
      BY <2>3 DEF TaskCount, InFlight
    <3> QED
      BY <1>1, <1>3, <2>1, <3>1
  <2>4. CASE ~TaskWriteFailed /\ ~TaskCount
    <3>1. sent' = sent /\ lost' = lost /\ InFlight' = InFlight
      <4>1. CASE TaskWriteHeader \/ TaskWritePayload
        BY <4>1 DEF TaskWriteHeader, TaskWritePayload, InFlight
      <4>2. CASE TaskNoWifi \/ TaskThrottled \/ WifiChange \/ PeerClose \/ UNCHANGED vars
        BY <4>2 DEF TaskNoWifi, TaskThrottled, WifiChange, PeerClose, vars, InFlight
      <4>3. CASE TaskAttempt \/ TaskConnected \/ TaskConnectFailed \/ TaskReady \/ TaskIdle
        BY <4>3 DEF TaskAttempt, TaskConnected, TaskConnectFailed, TaskReady, TaskIdle, InFlight
      <4> QED
        BY <1>6, <2>4, <4>1, <4>2, <4>3 DEF Next, Task, TaskWrite
    <3> QED
      BY <1>1, <1>2, <1>3, <2>1, <3>1
  <2> QED
    BY <2>2, <2>3, <2>4
<1> QED
  BY <1>4, <1>5, <1>6

LEMMA WaitingIsNewerStep ==
  ASSUME RingInv, [Next]_vars
  PROVE  WaitingIsNewer'
<1>1. count \in 0 .. Capacity /\ Capacity \in Nat /\ seq \in Nat /\ cur.seq \in Nat
  BY CapacityAssumption DEF RingInv, TypeOK, RingType, Slot
<1>2. CASE raw_frame_streamer_enqueue
  BY <1>1, <1>2 DEF raw_frame_streamer_enqueue, push_slot, RingInv, WaitingIsNewer
<1>3. CASE TaskPop
  <2>1. cur'.seq = seq - count /\ count' = count - 1 /\ seq' = seq
    BY <1>3, PopKeepsNewest DEF RingInv, TypeOK, TaskPop, pop_slot
  <2> QED
    BY <1>1, <2>1 DEF WaitingIsNewer
<1>4. CASE ~raw_frame_streamer_enqueue /\ ~TaskPop
  BY <1>4, RingUntouched DEF RingInv, WaitingIsNewer
<1> QED
  BY <1>2, <1>3, <1>4

LEMMA RingInvStep == RingInv /\ [Next]_vars => RingInv'
<1> SUFFICES ASSUME RingInv, [Next]_vars PROVE RingInv'
  OBVIOUS
<1>1. TypeOK'
  BY TypeStep DEF RingInv
<1>2. RingHoldsNewest'
  <2>1. CASE raw_frame_streamer_enqueue
    BY <2>1, PushKeepsNewest DEF RingInv, TypeOK
  <2>2. CASE TaskPop
    BY <2>2, PopKeepsNewest DEF RingInv, TypeOK
  <2>3. CASE ~raw_frame_streamer_enqueue /\ ~TaskPop
    BY <2>3, RingUntouched DEF RingInv, RingHoldsNewest, Waiting
  <2> QED
    BY <2>1, <2>2, <2>3
<1>3. Accounted' /\ WaitingIsNewer'
  BY AccountedStep, WaitingIsNewerStep DEF RingInv
<1> QED
  BY <1>1, <1>2, <1>3 DEF RingInv

\* raw_frame_streamer_enqueue and stream_task keep the inductive invariant in
\* every behaviour.
LEMMA RingInvAlways == Spec => []RingInv
BY InitRingInv, RingInvStep, PTL DEF Spec

-----------------------------------------------------------------------------
(***************************************************************************)
(* The theorems.                                                           *)
(***************************************************************************)

\* Every variable of the exporter keeps its type and the ring indices stay in
\* the ring.
THEOREM TypeCorrect == Spec => []TypeOK
<1>1. RingInv => TypeOK
  BY DEF RingInv
<1> QED
  BY <1>1, RingInvAlways, PTL

\* The ring always holds the newest count captured frames, oldest at tail:
\* push_slot never overwrites a waiting slot it does not count as dropped.
THEOREM RingHoldsNewestAlways == Spec => []RingHoldsNewest
<1>1. RingInv => RingHoldsNewest
  BY DEF RingInv
<1> QED
  BY <1>1, RingInvAlways, PTL

\* The counters of raw_frame_streamer_get_stats account for every captured
\* frame, but the one in transmission and those a failed write lost.
THEOREM AccountedAlways == Spec => []Accounted
<1>1. RingInv => Accounted
  BY DEF RingInv
<1> QED
  BY <1>1, RingInvAlways, PTL

\* Each slot handed to the socket by stream_task is newer than the one before.
THEOREM NewerEachTimeAlways == Spec => NewerEachTime
<1>1. RingInv /\ [Next]_vars => [cur' # cur => cur'.seq > cur.seq]_vars
  <2> SUFFICES ASSUME RingInv, [Next]_vars, cur' # cur
               PROVE  cur'.seq > cur.seq
    OBVIOUS
  <2>1. TaskPop
    <3>1. CASE raw_frame_streamer_enqueue
      BY <3>1 DEF raw_frame_streamer_enqueue
    <3> QED
      BY <3>1, RingUntouched
  <2>2. cur'.seq = seq - count
    BY <2>1, PopKeepsNewest DEF RingInv, TypeOK
  <2>3. cur.seq \in Nat /\ seq \in Nat /\ count \in Nat
    BY CapacityAssumption DEF RingInv, TypeOK, RingType, Slot
  <2> QED
    BY <2>2, <2>3 DEF RingInv, WaitingIsNewer
<1> QED
  BY <1>1, RingInvAlways, PTL DEF Spec, NewerEachTime
\* A frame leaves the ring by a pop or by a drop that push_slot counts.
THEOREM DropsCountedAlways == Spec => DropsCounted
<1> DEFINE popped == IF pc = "pop" /\ pc' = "header" THEN 1 ELSE 0
<1>1. RingInv /\ [Next]_vars
        => (seq' - count') - (seq - count) = (dropped' - dropped) + popped
  <2> SUFFICES ASSUME RingInv, [Next]_vars
               PROVE  (seq' - count') - (seq - count) = (dropped' - dropped) + popped
    OBVIOUS
  <2>1. seq \in Nat /\ count \in Nat /\ dropped \in Nat
    BY CapacityAssumption DEF RingInv, TypeOK, RingType
  <2>2. CASE raw_frame_streamer_enqueue
    <3>1. popped = 0 /\ seq' = seq + 1
      BY <2>2 DEF raw_frame_streamer_enqueue, push_slot
    <3>2. (count' = count /\ dropped' = dropped + 1) \/ (count' = count + 1 /\ dropped' = dropped)
      BY <2>2 DEF raw_frame_streamer_enqueue, push_slot
    <3> QED
      BY <2>1, <3>1, <3>2
  <2>3. CASE TaskPop
    <3>1. popped = 1 /\ seq' = seq /\ count' = count - 1 /\ dropped' = dropped
      BY <2>3 DEF TaskPop, pop_slot
    <3> QED
      BY <2>1, <3>1
  <2>4. CASE ~raw_frame_streamer_enqueue /\ ~TaskPop
    <3>1. seq' = seq /\ count' = count /\ dropped' = dropped
      BY <2>4, RingUntouched
    <3>2. popped = 0
      BY <2>4 DEF Next, Task, TaskNoWifi, TaskThrottled, TaskAttempt, TaskConnected,
                  TaskConnectFailed, TaskReady, TaskIdle, TaskCount, TaskWrite, TaskWriteHeader,
                  TaskWritePayload, TaskWriteFailed, WifiChange, PeerClose, vars
    <3> QED
      BY <2>1, <3>1, <3>2
  <2> QED
    BY <2>2, <2>3, <2>4
<1> QED
  BY <1>1, RingInvAlways, PTL DEF Spec, DropsCounted

-----------------------------------------------------------------------------
(***************************************************************************)
(* Refinement: the ring of slots is a lossy FIFO queue.                    *)
(***************************************************************************)

\* Places along the ring stay in the ring.
LEMMA PlaceInRing ==
  ASSUME NEW t \in Index, NEW i \in Nat
  PROVE  (t + i) % Capacity \in Index
BY CapacityAssumption DEF Index

\* A function on 1 .. c is a sequence of length c.
LEMMA FunctionIsSequence ==
  ASSUME NEW S, NEW c \in Nat, NEW w \in [1 .. c -> S]
  PROVE  w \in Seq(S) /\ Len(w) = c
BY SeqDef, LenProperties

LEMMA WaitingSeqType ==
  ASSUME RingType, RingType'
  PROVE  /\ WaitingSeq \in Seq(Slot)
         /\ Len(WaitingSeq) = count
         /\ \A i \in 1 .. count : WaitingSeq[i] = Waiting(i - 1)
         /\ WaitingSeq' \in Seq(Slot)
         /\ Len(WaitingSeq') = count'
         /\ \A i \in 1 .. count' : WaitingSeq'[i] = Waiting(i - 1)'
<1>1. count \in Nat /\ count' \in Nat
  BY CapacityAssumption DEF RingType
<1>2. WaitingSeq \in [1 .. count -> Slot]
  <2>1. \A i \in 1 .. count : Waiting(i - 1) \in Slot
    BY <1>1, PlaceInRing DEF RingType, Waiting
  <2> QED
    BY <2>1 DEF WaitingSeq
<1>3. WaitingSeq' \in [1 .. count' -> Slot]
  <2>1. \A i \in 1 .. count' : slots'[(tail' + (i - 1)) % Capacity] \in Slot
    BY <1>1, PlaceInRing DEF RingType
  <2> QED
    BY <2>1 DEF WaitingSeq, Waiting
<1>4. WaitingSeq \in Seq(Slot) /\ Len(WaitingSeq) = count
  BY <1>1, <1>2, FunctionIsSequence
<1>5. WaitingSeq' \in Seq(Slot) /\ Len(WaitingSeq') = count'
  BY <1>1, <1>3, FunctionIsSequence
<1> QED
  BY <1>4, <1>5 DEF WaitingSeq, Waiting

LEMMA InitRefines == Init => Abstract!FifoInit
<1> SUFFICES ASSUME Init PROVE Abstract!FifoInit
  OBVIOUS
<1>1. RingType /\ count = 0
  BY InitRingInv DEF RingInv, TypeOK, Init
<1>2. WaitingSeq = << >>
  <2>1. WaitingSeq \in [1 .. 0 -> Slot]
    BY <1>1 DEF WaitingSeq
  <2>2. WaitingSeq \in Seq(Slot) /\ Len(WaitingSeq) = 0
    BY <2>1, FunctionIsSequence
  <2> QED
    BY <2>2, EmptySeq, SeqEqual
<1>3. Serving = << >>
  BY DEF Init, Serving, InFlight
<1> QED
  BY <1>2, <1>3 DEF Init, Abstract!FifoInit

\* A push is an offer.
LEMMA PushRefines ==
  ASSUME RingInv, RingInv', raw_frame_streamer_enqueue
  PROVE  Abstract!FifoNext
<1>1. PICK n \in Lengths : n \in 1 .. MaxFrame /\ push_slot(n)
  BY DEF raw_frame_streamer_enqueue
<1> DEFINE new == [seq |-> seq, raw_len |-> n]
<1>2. RingType /\ RingType' /\ RingHoldsNewest
  BY DEF RingInv, TypeOK
<1>3. n \in Nat /\ Capacity \in Nat /\ Capacity > 0 /\ count \in 0 .. Capacity /\ new \in Slot
  BY <1>2, LengthAssumption, CapacityAssumption DEF RingType, Slot
<1>4. /\ WaitingSeq \in Seq(Slot) /\ Len(WaitingSeq) = count
      /\ \A i \in 1 .. count : WaitingSeq[i] = Waiting(i - 1)
      /\ WaitingSeq' \in Seq(Slot) /\ Len(WaitingSeq') = count'
      /\ \A i \in 1 .. count' : WaitingSeq'[i] = Waiting(i - 1)'
  BY <1>2, WaitingSeqType
<1>5. CASE count < Capacity
  <2>1. count' = count + 1 /\ dropped' = dropped
        /\ \A i \in 0 .. count : Waiting(i)' = IF i = count THEN new ELSE Waiting(i)
    BY <1>1, <1>2, <1>3, <1>5, PushWaiting
  <2>2. WaitingSeq' = Append(WaitingSeq, new)
    <3>1. /\ Append(WaitingSeq, new) \in Seq(Slot)
          /\ Len(Append(WaitingSeq, new)) = count + 1
          /\ \A i \in 1 .. count : Append(WaitingSeq, new)[i] = Waiting(i - 1)
          /\ Append(WaitingSeq, new)[count + 1] = new
      BY <1>3, <1>4, AppendProperties
    <3>2. ASSUME NEW i \in 1 .. count + 1
          PROVE  WaitingSeq'[i] = Append(WaitingSeq, new)[i]
      <4>1. WaitingSeq'[i] = IF i - 1 = count THEN new ELSE Waiting(i - 1)
        BY <1>3, <1>4, <2>1
      <4> QED
        BY <1>3, <3>1, <4>1
    <3> QED
      BY <1>4, <2>1, <3>1, <3>2, SeqEqual
  <2> QED
    BY <1>1, <1>4, <1>5, <2>1, <2>2
    DEF raw_frame_streamer_enqueue, push_slot, Serving, InFlight, Abstract!FifoNext, Abstract!Offer
<1>6. CASE count = Capacity
  <2>1. count' = count /\ dropped' = dropped + 1
        /\ \A i \in 0 .. count - 1 : Waiting(i)' = IF i = count - 1 THEN new ELSE Waiting(i + 1)
    BY <1>1, <1>2, <1>3, <1>6, PushWaiting
  <2>2. WaitingSeq' = Append(Tail(WaitingSeq), new)
    <3>1. WaitingSeq # << >>
      BY <1>3, <1>4, <1>6, EmptySeq
    <3>2. /\ Tail(WaitingSeq) \in Seq(Slot)
          /\ Len(Tail(WaitingSeq)) = count - 1
          /\ \A i \in 1 .. count - 1 : Tail(WaitingSeq)[i] = WaitingSeq[i + 1]
      BY <1>4, <3>1, HeadTailProperties
    <3>3. /\ Append(Tail(WaitingSeq), new) \in Seq(Slot)
          /\ Len(Append(Tail(WaitingSeq), new)) = (count - 1) + 1
          /\ \A i \in 1 .. count - 1 : Append(Tail(WaitingSeq), new)[i] = Tail(WaitingSeq)[i]
          /\ Append(Tail(WaitingSeq), new)[(count - 1) + 1] = new
      BY <1>3, <3>2, AppendProperties
    <3>4. ASSUME NEW i \in 1 .. count
          PROVE  WaitingSeq'[i] = Append(Tail(WaitingSeq), new)[i]
      <4>1. WaitingSeq'[i] = IF i - 1 = count - 1 THEN new ELSE Waiting((i - 1) + 1)
        BY <1>3, <1>4, <2>1
      <4>2. CASE i = count
        BY <1>3, <3>3, <4>1, <4>2
      <4>3. CASE i # count
        BY <1>3, <1>4, <3>2, <3>3, <4>1, <4>3
      <4> QED
        BY <4>2, <4>3
    <3> QED
      BY <1>3, <1>4, <2>1, <3>3, <3>4, SeqEqual
  <2> QED
    BY <1>1, <1>4, <1>6, <2>1, <2>2
    DEF raw_frame_streamer_enqueue, push_slot, Serving, InFlight, Abstract!FifoNext, Abstract!Offer
<1> QED
  BY <1>3, <1>5, <1>6

\* A pop takes the oldest record into service.
LEMMA PopRefines ==
  ASSUME RingInv, RingInv', TaskPop
  PROVE  Abstract!FifoNext
<1>1. RingType /\ RingType' /\ RingHoldsNewest
  BY DEF RingInv, TypeOK
<1>2. count \in Nat /\ count > 0 /\ count' = count - 1 /\ cur' = Waiting(0)
      /\ \A i \in 0 .. count - 2 : Waiting(i)' = Waiting(i + 1)
  BY <1>1, PopWaiting, CapacityAssumption DEF RingType
<1>3. /\ WaitingSeq \in Seq(Slot) /\ Len(WaitingSeq) = count
      /\ \A i \in 1 .. count : WaitingSeq[i] = Waiting(i - 1)
      /\ WaitingSeq' \in Seq(Slot) /\ Len(WaitingSeq') = count'
      /\ \A i \in 1 .. count' : WaitingSeq'[i] = Waiting(i - 1)'
  BY <1>1, WaitingSeqType
<1>4. WaitingSeq # << >>
  BY <1>2, <1>3, EmptySeq
<1>5. /\ Tail(WaitingSeq) \in Seq(Slot)
      /\ Len(Tail(WaitingSeq)) = count - 1
      /\ \A i \in 1 .. count - 1 : Tail(WaitingSeq)[i] = WaitingSeq[i + 1]
  BY <1>3, <1>4, HeadTailProperties
<1>6. WaitingSeq' = Tail(WaitingSeq)
  <2>1. ASSUME NEW i \in 1 .. count - 1
        PROVE  WaitingSeq'[i] = Tail(WaitingSeq)[i]
    <3>1. WaitingSeq'[i] = Waiting((i - 1) + 1)
      BY <1>2, <1>3
    <3> QED
      BY <1>2, <1>3, <1>5, <3>1
  <2> QED
    BY <1>2, <1>3, <1>5, <2>1, SeqEqual
<1>7. Head(WaitingSeq) = cur'
  BY <1>2, <1>3, <1>4
<1>8. Serving = << >> /\ Serving' = <<cur'>>
  BY DEF TaskPop, Serving, InFlight
<1> QED
  BY <1>4, <1>6, <1>7, <1>8 DEF TaskPop, Abstract!FifoNext, Abstract!Take

\* Every other step leaves the queue alone; it may end a transmission.
LEMMA OtherRefines ==
  ASSUME [Next]_vars, ~raw_frame_streamer_enqueue, ~TaskPop
  PROVE  [Abstract!FifoNext]_(Abstract!fifoVars)
<1>1. slots' = slots /\ tail' = tail /\ count' = count /\ seq' = seq /\ dropped' = dropped
      /\ cur' = cur
  BY RingUntouched
<1>2. WaitingSeq' = WaitingSeq
  BY <1>1 DEF WaitingSeq, Waiting
<1>3. CASE TaskWriteFailed \/ TaskCount
  <2>1. InFlight = 1 /\ InFlight' = 0
    BY <1>3 DEF TaskWriteFailed, TaskCount, InFlight
  <2>2. Serving = <<cur>> /\ Serving' = << >>
    BY <2>1 DEF Serving
  <2> QED
    BY <1>1, <1>2, <2>2 DEF Abstract!FifoNext, Abstract!Finish
<1>4. CASE ~TaskWriteFailed /\ ~TaskCount
  <2>1. Serving' = Serving
    <3>1. CASE TaskWriteHeader \/ TaskWritePayload
      BY <1>1, <3>1 DEF TaskWriteHeader, TaskWritePayload, InFlight, Serving
    <3>2. CASE TaskNoWifi \/ TaskThrottled \/ WifiChange \/ PeerClose \/ UNCHANGED vars
      BY <1>1, <3>2 DEF TaskNoWifi, TaskThrottled, WifiChange, PeerClose, vars, InFlight, Serving
    <3>3. CASE TaskAttempt \/ TaskConnected \/ TaskConnectFailed \/ TaskReady \/ TaskIdle
      BY <1>1, <3>3 DEF TaskAttempt, TaskConnected, TaskConnectFailed, TaskReady, TaskIdle,
                        InFlight, Serving
    <3> QED
      BY <1>4, <3>1, <3>2, <3>3 DEF Next, Task, TaskWrite
  <2> QED
    BY <1>1, <1>2, <2>1 DEF Abstract!fifoVars
<1> QED
  BY <1>3, <1>4

\* The exporter implements the lossy FIFO queue: sniffer pushes are offers that
\* are never refused, pops serve the oldest record, a write that completes or
\* fails ends the service.
THEOREM Refinement == Spec => ImplementsLossyFifo
<1>1. RingInv /\ RingInv' /\ [Next]_vars => [Abstract!FifoNext]_(Abstract!fifoVars)
  BY PushRefines, PopRefines, OtherRefines
<1> QED
  BY <1>1, InitRefines, RingInvAlways, PTL DEF Spec, ImplementsLossyFifo, Abstract!FifoSpec

-----------------------------------------------------------------------------
(***************************************************************************)
(* The pipeline.  What can be said of the archive rests on what is under   *)
(* way: Stream(i) is everything of connection i the collector has not cut  *)
(* into packets.  Each stream is a sequence of whole records, the last one *)
(* possibly cut short; sequence numbers grow along a stream, from one      *)
(* connection to the next and from the archive to the streams; and the     *)
(* records that are archived or complete under way are counted.            *)
(***************************************************************************)

\* What the collector has not parsed of connection i, the accepted one being 1.
Stream(i) == IF i = 1 THEN buf \o conns[1].bytes ELSE conns[i].bytes

UnitType == [seq : Nat, part : Nat, raw_len : Nat]
PacketLen(u) == HeaderUnits + u.raw_len

\* u lies d units before v: in the same record, or in an older one of which the
\* rest lies between them.
Precedes(u, v, d) ==
  \/ u.seq = v.seq /\ u.raw_len = v.raw_len /\ v.part = u.part + d
  \/ u.seq < v.seq /\ d >= (PacketLen(u) - u.part) + v.part

\* A sequence of whole records, the last one possibly cut short.
Good(w) ==
  /\ w \in Seq(UnitType)
  /\ Len(w) > 0 => w[1].part = 1
  /\ \A k \in 1 .. Len(w) : /\ w[k].part \in 1 .. PacketLen(w[k]) /\ w[k].raw_len \in 1 .. MaxFrame
                            /\ w[k].seq > 0
  /\ \A j, k \in 1 .. Len(w) : j <= k => Precedes(w[j], w[k], k - j)

\* No more than the records before the task's slot, and of that slot what was
\* written of it.
Old(s) == s <= cur.seq /\ (pc = "header" => s < cur.seq)

PipeType ==
  /\ conns \in Seq([bytes : Seq(UnitType), open : BOOLEAN])
  /\ buf \in Seq(UnitType)
  /\ out \in Seq(Seq(UnitType))
  /\ conns = << >> => buf = << >>
  /\ client => conns # << >> /\ conns[Len(conns)].open

StreamsGood == \A i \in 1 .. Len(conns) : Good(Stream(i))

StreamsOld ==
  \A i \in 1 .. Len(conns) : \A k \in 1 .. Len(Stream(i)) : Old(Stream(i)[k].seq)

StreamsOrdered ==
  \A i, j \in 1 .. Len(conns) :
    i < j => \A k \in 1 .. Len(Stream(i)), l \in 1 .. Len(Stream(j)) :
               Stream(i)[k].seq < Stream(j)[l].seq

\* The device's connection ends where a record ends, or with the header of the
\* task's slot.
DeviceStream ==
  client =>
    LET w == Stream(Len(conns)) IN
    IF pc = "payload" THEN Len(w) > 0 /\ w[Len(w)] = Unit(cur, HeaderUnits)
    ELSE Len(w) > 0 => w[Len(w)].part = PacketLen(w[Len(w)])

\* What is archived is older than what is under way.
ArchiveOld ==
  \A a \in DOMAIN out :
    /\ Old(out[a][1].seq)
    /\ \A i \in 1 .. Len(conns) : \A k \in 1 .. Len(Stream(i)) : out[a][1].seq < Stream(i)[k].seq

SlotsValid ==
  /\ \A i \in 0 .. count - 1 : Waiting(i).raw_len \in 1 .. MaxFrame
  /\ pc \in {"header", "payload", "sent"} => cur.seq > 0 /\ cur.raw_len \in 1 .. MaxFrame

\* The records whose last unit was written and not lost under way.
ArchivedSeqs == {out[a][1].seq : a \in DOMAIN out}
Ends(i) == {k \in 1 .. Len(Stream(i)) : Stream(i)[k].part = PacketLen(Stream(i)[k])}
Arriving == {s \in Nat : \E i \in 1 .. Len(conns) : \E k \in Ends(i) : s = Stream(i)[k].seq}
Complete == ArchivedSeqs \cup Arriving

\* sent_frames, and the record whose last write has returned and that is about
\* to be counted.
Counted == sent + (IF pc = "sent" THEN 1 ELSE 0)

CompleteCounted ==
  /\ IsFiniteSet(Complete)
  /\ Cardinality(Complete) <= Counted
  /\ Cardinality(ArchivedSeqs) = Len(out)

\* What is said about the records under way and archived.
WireInv ==
  /\ StreamsGood /\ StreamsOld /\ StreamsOrdered /\ DeviceStream
  /\ ArchiveOld /\ ArchiveGenuine /\ ArchiveOrdered /\ CompleteCounted

\* The inductive invariant of the pipeline.
PipeInv == RingInv /\ PipeType /\ SlotsValid /\ WireInv

-----------------------------------------------------------------------------
(***************************************************************************)
(* Good sequences of units.                                                *)
(***************************************************************************)

\* What is said of a unit of a good sequence.
LEMMA GoodUnit ==
  ASSUME NEW w, Good(w), NEW k \in 1 .. Len(w)
  PROVE  /\ w[k].seq \in Nat /\ w[k].part \in Nat /\ w[k].raw_len \in Nat
         /\ w[k].part \in 1 .. HeaderUnits + w[k].raw_len
         /\ w[k].raw_len \in 1 .. MaxFrame
         /\ Len(w) \in Nat /\ w[k] \in UnitType /\ w[k].seq > 0
<1>1. w \in Seq(UnitType)
  BY DEF Good
<1>2. w[k] \in UnitType /\ Len(w) \in Nat
  BY <1>1, ElementOfSeq, LenProperties
<1> QED
  BY <1>2 DEF Good, UnitType, PacketLen

LEMMA EmptyGood == Good(<< >>)
<1>1. << >> \in Seq(UnitType) /\ Len(<< >>) = 0
  BY EmptySeq
<1> QED
  BY <1>1 DEF Good

\* A connection that loses its last units.
LEMMA PrefixGood ==
  ASSUME NEW w, Good(w), NEW v \in Seq(UnitType), Len(v) <= Len(w),
         \A k \in 1 .. Len(v) : v[k] = w[k]
  PROVE  Good(v)
<1>1. Len(v) \in Nat /\ Len(w) \in Nat
  BY LenProperties DEF Good
<1>2. \A k \in 1 .. Len(v) : k \in 1 .. Len(w)
  BY <1>1
<1>3. Len(v) > 0 => v[1].part = 1
  <2> SUFFICES ASSUME Len(v) > 0 PROVE v[1].part = 1
    OBVIOUS
  <2>1. 1 \in 1 .. Len(v) /\ Len(w) > 0
    BY <1>1
  <2>2. w[1].part = 1
    BY <2>1 DEF Good
  <2> QED
    BY <2>1, <2>2
<1>4. \A k \in 1 .. Len(v) : v[k].part \in 1 .. PacketLen(v[k]) /\ v[k].raw_len \in 1 .. MaxFrame /\ v[k].seq > 0
  BY <1>2 DEF Good
<1>5. \A j, k \in 1 .. Len(v) : j <= k => Precedes(v[j], v[k], k - j)
  BY <1>2 DEF Good
<1> QED
  BY <1>3, <1>4, <1>5 DEF Good

\* From u to a unit m units behind z, in the record of z or in one that starts
\* behind it.
LEMMA PrecedesOn ==
  ASSUME NEW u \in UnitType, NEW z \in UnitType, NEW x \in UnitType, NEW d \in Nat, NEW m \in Nat,
         Precedes(u, z, d),
         \/ x.seq = z.seq /\ x.raw_len = z.raw_len /\ x.part = z.part + m
         \/ u.seq < x.seq /\ z.part = PacketLen(z) /\ x.part = m
  PROVE  Precedes(u, x, d + m)
<1>1. /\ u.seq \in Nat /\ u.part \in Nat /\ u.raw_len \in Nat
      /\ z.seq \in Nat /\ z.part \in Nat /\ z.raw_len \in Nat
      /\ x.seq \in Nat /\ x.part \in Nat /\ x.raw_len \in Nat
  BY DEF UnitType
<1> QED
  BY <1>1 DEF Precedes, PacketLen, HeaderUnits

\* v is w, of length L, and n more units of record s: from its start behind
\* whole records, or from its payload behind its header.
Continues(w, L, v, s, off, n) ==
  /\ Good(w) /\ L \in Nat /\ Len(w) = L
  /\ v \in Seq(UnitType) /\ s \in Slot /\ s.raw_len \in 1 .. MaxFrame /\ s.seq > 0
  /\ off \in Nat /\ n \in Nat /\ off + n <= HeaderUnits + s.raw_len
  /\ Len(v) = L + n
  /\ \A k \in 1 .. L : v[k] = w[k]
  /\ \A m \in 1 .. n : v[L + m] = Unit(s, off + m)
  /\ \/ /\ off = 0
        /\ \A k \in 1 .. L : w[k].seq < s.seq
        /\ L > 0 => w[L].part = PacketLen(w[L])
     \/ off = HeaderUnits /\ L > 0 /\ w[L] = Unit(s, HeaderUnits)

LEMMA WriteGood ==
  ASSUME NEW w, NEW L, NEW v, NEW s, NEW off, NEW n, Continues(w, L, v, s, off, n)
  PROVE  Good(v)
<1>0. /\ Good(w) /\ L \in Nat /\ Len(w) = L /\ v \in Seq(UnitType) /\ s \in Slot
      /\ off \in Nat /\ n \in Nat /\ off + n <= HeaderUnits + s.raw_len
      /\ s.raw_len \in 1 .. MaxFrame /\ s.seq > 0 /\ Len(v) = L + n
  BY DEF Continues
<1>a. \A k \in 1 .. L : v[k] = w[k]
  BY DEF Continues
<1>b. \A m \in 1 .. n : v[L + m] = Unit(s, off + m)
  BY DEF Continues
<1>c. \/ /\ off = 0
         /\ \A k \in 1 .. L : w[k].seq < s.seq
         /\ L > 0 => w[L].part = PacketLen(w[L])
      \/ off = HeaderUnits /\ L > 0 /\ w[L] = Unit(s, HeaderUnits)
  BY DEF Continues
<1>1. /\ L \in Nat /\ Len(w) = L /\ n \in Nat /\ off \in Nat /\ Len(v) = L + n
      /\ off + n <= HeaderUnits + s.raw_len /\ HeaderUnits = 2
      /\ s.seq \in Nat /\ s.raw_len \in Nat /\ s.raw_len \in 1 .. MaxFrame /\ MaxFrame \in Nat /\ s.seq > 0
  BY <1>0, LengthAssumption DEF Slot, HeaderUnits
<1>2. ASSUME NEW m \in 1 .. n
      PROVE  v[L + m].seq = s.seq /\ v[L + m].part = off + m /\ v[L + m].raw_len = s.raw_len
  <2>1. v[L + m] = Unit(s, off + m)
    BY <1>b
  <2> QED
    BY <2>1 DEF Unit
<1>3. \A k \in 1 .. L + n : k \in 1 .. L \/ (\E m \in 1 .. n : k = L + m)
  <2> SUFFICES ASSUME NEW k \in 1 .. L + n, ~(k \in 1 .. L)
               PROVE  \E m \in 1 .. n : k = L + m
    OBVIOUS
  <2>1. k - L \in 1 .. n /\ k = L + (k - L)
    BY <1>1
  <2> QED
    BY <2>1
<1>4. Len(v) > 0 => v[1].part = 1
  <2>1. CASE L > 0
    <3>1. 1 \in 1 .. L
      BY <1>1, <2>1
    <3> QED
      BY <1>0, <1>1, <1>a, <2>1, <3>1 DEF Good
  <2>2. CASE L = 0
    <3>1. off = 0
      BY <1>1, <1>c, <2>2
    <3>2. n > 0 => v[L + 1].part = off + 1
      BY <1>1, <1>2
    <3> QED
      BY <1>1, <2>2, <3>1, <3>2
  <2> QED
    BY <1>1, <2>1, <2>2
<1>5. \A k \in 1 .. Len(v) : v[k].part \in 1 .. PacketLen(v[k]) /\ v[k].raw_len \in 1 .. MaxFrame /\ v[k].seq > 0
  <2> SUFFICES ASSUME NEW k \in 1 .. L + n
               PROVE  v[k].part \in 1 .. PacketLen(v[k]) /\ v[k].raw_len \in 1 .. MaxFrame /\ v[k].seq > 0
    BY <1>1
  <2>1. CASE k \in 1 .. L
    BY <1>0, <1>1, <1>a, <2>1 DEF Good
  <2>2. ASSUME NEW m \in 1 .. n, k = L + m
        PROVE  v[k].part \in 1 .. PacketLen(v[k]) /\ v[k].raw_len \in 1 .. MaxFrame /\ v[k].seq > 0
    <3>1. off + m \in 1 .. HeaderUnits + s.raw_len
      BY <1>1
    <3> QED
      BY <1>1, <1>2, <2>2, <3>1 DEF PacketLen
  <2> QED
    BY <1>3, <2>1, <2>2
\* From any unit of w to any new one.
<1>6. ASSUME NEW j \in 1 .. L, NEW m \in 1 .. n
      PROVE  Precedes(v[j], v[L + m], (L + m) - j)
  <2>1. L \in 1 .. L /\ j <= L /\ L - j \in Nat /\ m \in Nat /\ (L + m) - j = (L - j) + m
    BY <1>1
  <2>2. Precedes(w[j], w[L], L - j)
    BY <1>0, <1>1, <2>1 DEF Good
  <2>3. w[L] \in UnitType /\ w[j] \in UnitType /\ v[j] = w[j]
    BY <1>0, <1>1, <1>a, <2>1, GoodUnit
  <2>4. v[L + m] \in UnitType
    BY <1>0, <1>1, ElementOfSeq
  <2>5. \/ v[L + m].seq = w[L].seq /\ v[L + m].raw_len = w[L].raw_len /\ v[L + m].part = w[L].part + m
        \/ w[j].seq < v[L + m].seq /\ w[L].part = PacketLen(w[L]) /\ v[L + m].part = m
    <3>1. CASE off = 0 /\ (\A k \in 1 .. L : w[k].seq < s.seq) /\ w[L].part = PacketLen(w[L])
      BY <1>1, <1>2, <2>1, <3>1
    <3>2. CASE w[L] = Unit(s, HeaderUnits) /\ off = HeaderUnits
      BY <1>1, <1>2, <3>2 DEF Unit
    <3> QED
      BY <1>1, <1>c, <2>1, <3>1, <3>2
  <2>6. Precedes(w[j], v[L + m], (L - j) + m)
    BY <2>1, <2>2, <2>3, <2>4, <2>5, PrecedesOn
  <2> QED
    BY <2>1, <2>3, <2>6
<1>7. ASSUME NEW i \in 1 .. n, NEW m \in 1 .. n
      PROVE  Precedes(v[L + i], v[L + m], (L + m) - (L + i))
  <2>1. off + m = (off + i) + ((L + m) - (L + i))
    BY <1>1
  <2> QED
    BY <1>2, <2>1 DEF Precedes
<1>8. \A j, k \in 1 .. Len(v) : j <= k => Precedes(v[j], v[k], k - j)
  <2> SUFFICES ASSUME NEW j \in 1 .. L + n, NEW k \in 1 .. L + n, j <= k
               PROVE  Precedes(v[j], v[k], k - j)
    BY <1>1
  <2>1. CASE k \in 1 .. L
    <3>1. j \in 1 .. L
      BY <1>1, <2>1
    <3> QED
      BY <1>0, <1>1, <1>a, <2>1, <3>1 DEF Good
  <2>2. ASSUME NEW m \in 1 .. n, k = L + m
        PROVE  Precedes(v[j], v[k], k - j)
    <3>1. CASE j \in 1 .. L
      BY <1>6, <2>2, <3>1
    <3>2. ASSUME NEW i \in 1 .. n, j = L + i
          PROVE  Precedes(v[j], v[k], k - j)
      BY <1>7, <2>2, <3>2
    <3> QED
      BY <1>3, <3>1, <3>2
  <2> QED
    BY <1>3, <2>1, <2>2
<1> QED
  BY <1>0, <1>4, <1>5, <1>8 DEF Good

\* Concatenation with the lengths named.
LEMMA Concat ==
  ASSUME NEW S, NEW a \in Seq(S), NEW b \in Seq(S), NEW m, Len(a) = m, NEW n, Len(b) = n
  PROVE  /\ a \o b \in Seq(S)
         /\ Len(a \o b) = m + n
         /\ \A i \in 1 .. m + n : (a \o b)[i] = IF i <= m THEN a[i] ELSE b[i - m]
BY ConcatProperties

\* A header and a payload, as the code lays them out.
LEMMA PacketUnits ==
  ASSUME NEW s \in Slot
  PROVE  /\ Header(s) \in Seq(UnitType) /\ Len(Header(s)) = HeaderUnits
         /\ \A k \in 1 .. HeaderUnits : Header(s)[k] = Unit(s, k)
         /\ Payload(s) \in Seq(UnitType) /\ Len(Payload(s)) = s.raw_len
         /\ \A k \in 1 .. s.raw_len : Payload(s)[k] = Unit(s, HeaderUnits + k)
         /\ Header(s) \o Payload(s) \in Seq(UnitType)
         /\ Len(Header(s) \o Payload(s)) = HeaderUnits + s.raw_len
         /\ \A k \in 1 .. HeaderUnits + s.raw_len : (Header(s) \o Payload(s))[k] = Unit(s, k)
<1>1. s.seq \in Nat /\ s.raw_len \in Nat /\ HeaderUnits \in Nat
  BY DEF Slot, HeaderUnits
<1>2. \A k \in Nat : Unit(s, k) \in UnitType
  BY <1>1 DEF Unit, UnitType
<1>3. Header(s) \in [1 .. HeaderUnits -> UnitType]
  BY <1>1, <1>2 DEF Header
<1>4. Payload(s) \in [1 .. s.raw_len -> UnitType]
  BY <1>1, <1>2 DEF Payload
<1>5. Header(s) \in Seq(UnitType) /\ Len(Header(s)) = HeaderUnits
  BY <1>1, <1>3, FunctionIsSequence
<1>6. Payload(s) \in Seq(UnitType) /\ Len(Payload(s)) = s.raw_len
  BY <1>1, <1>4, FunctionIsSequence
<1>7. \A k \in 1 .. HeaderUnits : Header(s)[k] = Unit(s, k)
  BY DEF Header
<1>8. \A k \in 1 .. s.raw_len : Payload(s)[k] = Unit(s, HeaderUnits + k)
  BY DEF Payload
<1>9. /\ Header(s) \o Payload(s) \in Seq(UnitType)
      /\ Len(Header(s) \o Payload(s)) = HeaderUnits + s.raw_len
      /\ \A k \in 1 .. HeaderUnits + s.raw_len :
           (Header(s) \o Payload(s))[k] = IF k <= HeaderUnits THEN Header(s)[k]
                                          ELSE Payload(s)[k - HeaderUnits]
  BY <1>5, <1>6, Concat
<1>10. ASSUME NEW k \in 1 .. HeaderUnits + s.raw_len
       PROVE  (Header(s) \o Payload(s))[k] = Unit(s, k)
  <2>1. CASE k <= HeaderUnits
    BY <1>1, <1>7, <1>9, <2>1
  <2>2. CASE ~(k <= HeaderUnits)
    <3>1. k - HeaderUnits \in 1 .. s.raw_len /\ HeaderUnits + (k - HeaderUnits) = k
      BY <1>1, <2>2
    <3> QED
      BY <1>8, <1>9, <2>2, <3>1
  <2> QED
    BY <2>1, <2>2
<1> QED
  BY <1>5, <1>6, <1>7, <1>8, <1>9, <1>10

\* What parse_stream_buffer cuts off a good sequence is a record, and what
\* remains is a good sequence of younger ones.
LEMMA PacketOfGood ==
  ASSUME NEW w, Good(w), Len(w) >= HeaderUnits, Len(w) >= packet_len(w)
  PROVE  /\ packet_len(w) \in 1 .. Len(w) /\ packet_len(w) > HeaderUnits
         /\ w[packet_len(w)].part = PacketLen(w[packet_len(w)])
         /\ w[packet_len(w)].seq = w[1].seq
         /\ \A k \in 1 .. packet_len(w) : w[k] = Unit([seq |-> w[1].seq, raw_len |-> w[1].raw_len], k)
         /\ packet_len(w) = HeaderUnits + w[1].raw_len
         /\ \A k \in packet_len(w) + 1 .. Len(w) : w[1].seq < w[k].seq
         /\ Len(w) > packet_len(w) => w[packet_len(w) + 1].part = 1
<1> DEFINE n == packet_len(w)
           s == [seq |-> w[1].seq, raw_len |-> w[1].raw_len]
<1>1. Len(w) \in Nat /\ HeaderUnits = 2
  BY LenProperties DEF Good, HeaderUnits
<1>2. 1 \in 1 .. Len(w) /\ 2 \in 1 .. Len(w) /\ w[1].part = 1
  BY <1>1 DEF Good
<1>3. ASSUME NEW k \in 1 .. Len(w)
      PROVE  \/ w[1].seq = w[k].seq /\ w[1].raw_len = w[k].raw_len /\ w[k].part = k
             \/ w[1].seq < w[k].seq /\ k - 1 >= (1 + w[1].raw_len) + w[k].part
  <2>1. Precedes(w[1], w[k], k - 1)
    BY <1>2 DEF Good
  <2>2. w[1].raw_len \in Nat /\ w[k].part \in Nat
    BY <1>2, GoodUnit
  <2> QED
    BY <1>1, <1>2, <2>1, <2>2 DEF Precedes, PacketLen
<1>4. \A k \in 1 .. Len(w) : /\ w[k].seq \in Nat /\ w[k].part \in 1 .. HeaderUnits + w[k].raw_len
                             /\ w[k].raw_len \in Nat /\ w[k].raw_len >= 1
  BY GoodUnit
<1>5. w[2].raw_len = w[1].raw_len
  BY <1>1, <1>2, <1>3, <1>4
<1>6. n = 2 + w[1].raw_len /\ n \in 1 .. Len(w) /\ n > HeaderUnits
  BY <1>1, <1>2, <1>4, <1>5 DEF packet_len
<1>7. ASSUME NEW k \in 1 .. n
      PROVE  w[1].seq = w[k].seq /\ w[1].raw_len = w[k].raw_len /\ w[k].part = k
  <2>1. k \in 1 .. Len(w)
    BY <1>1, <1>6
  <2> QED
    BY <1>2, <1>3, <1>4, <1>6, <2>1
<1>8. ASSUME NEW k \in 1 .. n
      PROVE  w[k] = Unit(s, k)
  <2>1. w[k] \in UnitType
    BY <1>1, <1>6, GoodUnit
  <2> QED
    BY <1>7, <2>1 DEF Unit, UnitType
<1>9. ASSUME NEW k \in n + 1 .. Len(w)
      PROVE  w[1].seq < w[k].seq /\ (k = n + 1 => w[k].part = 1)
  <2>1. k \in 1 .. Len(w) /\ k > 2 + w[1].raw_len /\ w[1].raw_len \in Nat
    BY <1>1, <1>2, <1>4, <1>6
  <2>2. /\ w[k].seq \in Nat /\ w[k].part \in 1 .. HeaderUnits + w[k].raw_len
        /\ w[k].raw_len \in Nat
    BY <1>4, <2>1
  <2>3. ~(w[1].raw_len = w[k].raw_len /\ w[k].part = k)
    BY <1>1, <2>1, <2>2
  <2>4. w[1].seq < w[k].seq /\ k - 1 >= (1 + w[1].raw_len) + w[k].part
    BY <1>3, <2>1, <2>3
  <2> QED
    BY <1>6, <2>1, <2>2, <2>4
<1>10. w[n].part = PacketLen(w[n]) /\ w[n].seq = w[1].seq
  BY <1>1, <1>6, <1>7 DEF PacketLen
<1>11. Len(w) > n => w[n + 1].part = 1
  BY <1>1, <1>6, <1>9
<1> QED
  BY <1>1, <1>6, <1>8, <1>9, <1>10, <1>11

LEMMA RestGood ==
  ASSUME NEW w, Good(w), NEW n \in 0 .. Len(w), NEW v \in Seq(UnitType), Len(v) = Len(w) - n,
         \A k \in 1 .. Len(v) : v[k] = w[n + k],
         Len(w) > n => w[n + 1].part = 1
  PROVE  Good(v)
<1>1. Len(w) \in Nat /\ Len(v) \in Nat
  BY LenProperties DEF Good
<1>2. \A k \in 1 .. Len(v) : n + k \in 1 .. Len(w)
  BY <1>1
<1>3. Len(v) > 0 => v[1].part = 1
  BY <1>1
<1>4. \A k \in 1 .. Len(v) : v[k].part \in 1 .. PacketLen(v[k]) /\ v[k].raw_len \in 1 .. MaxFrame /\ v[k].seq > 0
  BY <1>2 DEF Good
<1>5. ASSUME NEW j \in 1 .. Len(v), NEW k \in 1 .. Len(v), j <= k
      PROVE  Precedes(v[j], v[k], k - j)
  <2>1. Precedes(w[n + j], w[n + k], (n + k) - (n + j))
    <3>1. n + j \in 1 .. Len(w) /\ n + k \in 1 .. Len(w) /\ n + j <= n + k
      BY <1>1, <1>2, <1>5
    <3> QED
      BY <3>1, Zenon DEF Good
  <2>2. (n + k) - (n + j) = k - j
    BY <1>1
  <2> QED
    BY <2>1, <2>2
<1> QED
  BY <1>3, <1>4, <1>5 DEF Good

-----------------------------------------------------------------------------
(***************************************************************************)
(* The connections.                                                        *)
(***************************************************************************)
LEMMA StreamType ==
  ASSUME PipeType, NEW i \in 1 .. Len(conns)
  PROVE  /\ Len(conns) \in Nat /\ conns[i] \in [bytes : Seq(UnitType), open : BOOLEAN]
         /\ conns[i].bytes \in Seq(UnitType) /\ Len(conns[i].bytes) \in Nat
         /\ Stream(i) \in Seq(UnitType) /\ Len(Stream(i)) \in Nat
<1>1. Len(conns) \in Nat /\ conns[i] \in [bytes : Seq(UnitType), open : BOOLEAN]
  BY ElementOfSeq, LenProperties DEF PipeType
<1>2. conns[i].bytes \in Seq(UnitType)
  BY <1>1
<1>3. Stream(i) \in Seq(UnitType)
  <2>1. CASE i = 1
    BY <1>2, <2>1, ConcatProperties DEF PipeType, Stream
  <2>2. CASE i # 1
    BY <1>2, <2>2 DEF Stream
  <2> QED
    BY <2>1, <2>2
<1> QED
  BY <1>1, <1>2, <1>3, LenProperties

OldNext(s) == s <= cur'.seq /\ (pc' = "header" => s < cur'.seq)

\* What is said of a unit under way.
LEMMA StreamUnit ==
  ASSUME StreamsGood, NEW i \in 1 .. Len(conns), NEW k \in 1 .. Len(Stream(i))
  PROVE  /\ Stream(i)[k].seq \in Nat /\ Stream(i)[k].part \in Nat /\ Stream(i)[k].raw_len \in Nat
         /\ Stream(i)[k].part \in 1 .. HeaderUnits + Stream(i)[k].raw_len
         /\ Stream(i)[k].raw_len \in 1 .. MaxFrame
         /\ Len(Stream(i)) \in Nat /\ Stream(i)[k] \in UnitType /\ Stream(i)[k].seq > 0
<1>1. Good(Stream(i))
  BY DEF StreamsGood
<1> QED
  BY <1>1, GoodUnit

LEMMA LastConnection ==
  ASSUME PipeType, conns # << >>
  PROVE  Len(conns) \in Nat /\ Len(conns) >= 1 /\ Len(conns) \in 1 .. Len(conns) /\ 1 \in 1 .. Len(conns)
<1>1. Len(conns) \in Nat \ {0}
  BY EmptySeq DEF PipeType
<1> QED
  BY <1>1

\* A step that brings no new unit: what is under way on connection i was under
\* way on it before, on connection i + 1 when the first one is given up.
LEMMA StreamsKept ==
  ASSUME StreamsGood, StreamsOld, StreamsOrdered,
         NEW d \in {0, 1}, Len(conns) \in Nat, Len(conns') \in Nat,
         \A i \in 1 .. Len(conns') : Good(Stream(i)'),
         \A i \in 1 .. Len(conns') : \A k \in 1 .. Len(Stream(i)') :
           /\ i + d \in 1 .. Len(conns)
           /\ \E l \in 1 .. Len(Stream(i + d)) : Stream(i)'[k] = Stream(i + d)[l],
         \A s \in Nat : Old(s) => OldNext(s)
  PROVE  /\ StreamsGood' /\ StreamsOld' /\ StreamsOrdered'
         /\ Arriving' \subseteq Arriving
<1>1. StreamsGood'
  BY DEF StreamsGood
<1>2. StreamsOld'
  <2> SUFFICES ASSUME NEW i \in 1 .. Len(conns'), NEW k \in 1 .. Len(Stream(i)')
               PROVE  OldNext(Stream(i)'[k].seq)
    BY DEF StreamsOld, Old, OldNext
  <2>1. PICK l \in 1 .. Len(Stream(i + d)) : Stream(i)'[k] = Stream(i + d)[l]
    OBVIOUS
  <2>2. Old(Stream(i + d)[l].seq) /\ Stream(i + d)[l].seq \in Nat
    BY <2>1, StreamUnit DEF StreamsOld
  <2> QED
    BY <2>1, <2>2
<1>3. StreamsOrdered'
  <2> SUFFICES ASSUME NEW i \in 1 .. Len(conns'), NEW j \in 1 .. Len(conns'), i < j,
                      NEW k \in 1 .. Len(Stream(i)'), NEW l \in 1 .. Len(Stream(j)')
               PROVE  Stream(i)'[k].seq < Stream(j)'[l].seq
    BY DEF StreamsOrdered
  <2>1. PICK m \in 1 .. Len(Stream(i + d)) : Stream(i)'[k] = Stream(i + d)[m]
    OBVIOUS
  <2>2. PICK n \in 1 .. Len(Stream(j + d)) : Stream(j)'[l] = Stream(j + d)[n]
    OBVIOUS
  <2>3. i + d < j + d /\ i + d \in 1 .. Len(conns) /\ j + d \in 1 .. Len(conns)
    OBVIOUS
  <2>4. Stream(i + d)[m].seq < Stream(j + d)[n].seq
    BY <2>3 DEF StreamsOrdered
  <2> QED
    BY <2>1, <2>2, <2>4
<1>4. Arriving' \subseteq Arriving
  <2> SUFFICES ASSUME NEW i \in 1 .. Len(conns'), NEW k \in 1 .. Len(Stream(i)'),
                      Stream(i)'[k].part = PacketLen(Stream(i)'[k])
               PROVE  Stream(i)'[k].seq \in Arriving
    BY DEF Arriving, Ends
  <2>1. PICK l \in 1 .. Len(Stream(i + d)) : Stream(i)'[k] = Stream(i + d)[l]
    OBVIOUS
  <2>2. i + d \in 1 .. Len(conns) /\ l \in Ends(i + d)
    BY <2>1 DEF Ends
  <2>3. Stream(i + d)[l].seq \in Nat
    BY <2>1, <2>2, StreamUnit
  <2> QED
    BY <2>1, <2>2, <2>3 DEF Arriving
<1> QED
  BY <1>1, <1>2, <1>3, <1>4

LEMMA ArchivedSeq ==
  ASSUME ArchiveGenuine, seq \in Nat, NEW a \in DOMAIN out
  PROVE  out[a][1].seq \in 1 .. seq - 1
<1>1. PICK s \in [seq : 1 .. seq - 1, raw_len : 1 .. MaxFrame] : out[a] = Header(s) \o Payload(s)
  BY DEF ArchiveGenuine
<1>2. s \in Slot /\ HeaderUnits = 2 /\ s.raw_len \in Nat /\ s.seq \in 1 .. seq - 1
  BY LengthAssumption DEF Slot, HeaderUnits
<1>3. out[a][1] = Unit(s, 1)
  <2>1. 1 \in 1 .. HeaderUnits + s.raw_len
    BY <1>2
  <2> QED
    BY <1>1, <1>2, <2>1, PacketUnits
<1> QED
  BY <1>2, <1>3 DEF Unit

\* Nor does such a step bring what is under way closer to the archive.
LEMMA ArchiveKept ==
  ASSUME ArchiveOld,
         NEW d \in {0, 1}, Len(conns) \in Nat, Len(conns') \in Nat,
         \A i \in 1 .. Len(conns') : \A k \in 1 .. Len(Stream(i)') :
           /\ i + d \in 1 .. Len(conns)
           /\ \E l \in 1 .. Len(Stream(i + d)) : Stream(i)'[k] = Stream(i + d)[l],
         \A s \in Nat : Old(s) => OldNext(s), ArchiveGenuine, seq \in Nat
  PROVE  \A a \in DOMAIN out :
           /\ OldNext(out[a][1].seq)
           /\ \A i \in 1 .. Len(conns') : \A k \in 1 .. Len(Stream(i)') :
                out[a][1].seq < Stream(i)'[k].seq
<1> SUFFICES ASSUME NEW a \in DOMAIN out
             PROVE  /\ OldNext(out[a][1].seq)
                    /\ \A i \in 1 .. Len(conns') : \A k \in 1 .. Len(Stream(i)') :
                         out[a][1].seq < Stream(i)'[k].seq
  OBVIOUS
<1>1. out[a][1].seq \in Nat
  BY ArchivedSeq
<1>2. ASSUME NEW i \in 1 .. Len(conns'), NEW k \in 1 .. Len(Stream(i)')
      PROVE  out[a][1].seq < Stream(i)'[k].seq
  <2>1. PICK l \in 1 .. Len(Stream(i + d)) : Stream(i)'[k] = Stream(i + d)[l]
    OBVIOUS
  <2> QED
    BY <2>1 DEF ArchiveOld
<1> QED
  BY <1>1, <1>2 DEF ArchiveOld

\* The archive of the state is untouched but for what is appended to it.
LEMMA ArchiveSame ==
  ASSUME ArchiveGenuine, ArchiveOrdered, out' = out, seq \in Nat, seq' \in Nat, seq <= seq'
  PROVE  ArchiveGenuine' /\ ArchiveOrdered' /\ ArchivedSeqs' = ArchivedSeqs
<1>1. ArchiveOrdered'
  BY DEF ArchiveOrdered
<1>2. ArchiveGenuine'
  <2> SUFFICES ASSUME NEW a \in DOMAIN out
               PROVE  \E s \in [seq : 1 .. seq' - 1, raw_len : 1 .. MaxFrame] :
                        out[a] = Header(s) \o Payload(s)
    BY DEF ArchiveGenuine
  <2>1. PICK s \in [seq : 1 .. seq - 1, raw_len : 1 .. MaxFrame] : out[a] = Header(s) \o Payload(s)
    BY DEF ArchiveGenuine
  <2>2. s \in [seq : 1 .. seq' - 1, raw_len : 1 .. MaxFrame]
    OBVIOUS
  <2> QED
    BY <2>1, <2>2
<1> QED
  BY <1>1, <1>2 DEF ArchivedSeqs

-----------------------------------------------------------------------------
(***************************************************************************)
(* What the exporter's steps mean for the wire.                            *)
(***************************************************************************)

\* stream_task reaches the header of a slot by popping it.
LEMMA HeaderByPop ==
  ASSUME [Next]_vars, ~TaskPop
  PROVE  pc' = "header" => pc = "header"
BY DEF Next, raw_frame_streamer_enqueue, Task, TaskNoWifi, TaskThrottled, TaskAttempt,
       TaskConnected, TaskConnectFailed, TaskReady, TaskIdle, TaskCount, TaskWrite,
       TaskWriteHeader, TaskWritePayload, TaskWriteFailed, WifiChange, PeerClose, vars

\* Only a write brings the task to a payload or to the end of a slot.
LEMMA WithoutWrite ==
  ASSUME [Next]_vars, ~TaskWriteHeader, ~TaskWritePayload, sent \in Nat
  PROVE  /\ pc' = "payload" => pc = "payload"
         /\ client' /\ pc = "payload" => pc' = "payload"
         /\ client' => client \/ TaskConnected
         /\ Counted \in Nat /\ Counted' = Counted
<1>1. pc' = "payload" => pc = "payload"
  BY DEF Next, raw_frame_streamer_enqueue, Task, TaskNoWifi, TaskThrottled, TaskAttempt,
     TaskConnected, TaskConnectFailed, TaskReady, TaskPop, TaskIdle, TaskCount, TaskWrite,
     TaskWriteFailed, WifiChange, PeerClose, vars
<1>2. client' /\ pc = "payload" => pc' = "payload"
  BY DEF Next, raw_frame_streamer_enqueue, Task, TaskNoWifi, TaskThrottled, TaskAttempt,
     TaskConnected, TaskConnectFailed, TaskReady, TaskPop, TaskIdle, TaskCount, TaskWrite,
     TaskWriteFailed, WifiChange, PeerClose, vars
<1>3. client' => client \/ TaskConnected
  BY DEF Next, raw_frame_streamer_enqueue, Task, TaskNoWifi, TaskThrottled, TaskAttempt,
     TaskConnectFailed, TaskReady, TaskPop, TaskIdle, TaskCount, TaskWrite,
     TaskWriteFailed, WifiChange, PeerClose, vars, net
<1>4. Counted \in Nat /\ Counted' = Counted
  <2>1. CASE TaskCount
    BY <2>1 DEF TaskCount, Counted
  <2>2. CASE ~TaskCount
    <3>1. sent' = sent /\ (pc' = "sent" <=> pc = "sent")
      BY <2>2 DEF Next, raw_frame_streamer_enqueue, Task, TaskNoWifi, TaskThrottled, TaskAttempt,
         TaskConnected, TaskConnectFailed, TaskReady, TaskPop, TaskIdle, TaskWrite,
         TaskWriteFailed, WifiChange, PeerClose, vars
    <3> QED
      BY <3>1 DEF Counted
  <2> QED
    BY <2>1, <2>2
<1> QED
  BY <1>1, <1>2, <1>3, <1>4

LEMMA OldKept ==
  ASSUME RingInv, [Next]_vars
  PROVE  \A s \in Nat : Old(s) => OldNext(s)
<1>1. cur.seq \in Nat /\ seq \in Nat /\ count \in Nat /\ Capacity \in Nat
  BY CapacityAssumption DEF RingInv, TypeOK, RingType, Slot
<1>2. CASE TaskPop
  <2>1. cur'.seq = seq - count
    BY <1>2, PopKeepsNewest DEF RingInv, TypeOK
  <2>2. cur.seq < cur'.seq
    BY <1>1, <2>1 DEF RingInv, WaitingIsNewer
  <2> QED
    BY <1>1, <2>1, <2>2 DEF Old, OldNext
<1>3. CASE ~TaskPop
  <2>1. cur' = cur
    <3>1. CASE raw_frame_streamer_enqueue
      BY <3>1 DEF raw_frame_streamer_enqueue
    <3> QED
      BY <1>3, <3>1, RingUntouched
  <2> QED
    BY <1>3, <2>1, HeaderByPop DEF Old, OldNext
<1> QED
  BY <1>2, <1>3

\* seq never goes back.
LEMMA SeqKept ==
  ASSUME RingInv, [Next]_vars
  PROVE  seq \in Nat /\ seq' \in Nat /\ seq <= seq'
<1>1. seq \in Nat
  BY DEF RingInv, TypeOK, RingType
<1>2. CASE raw_frame_streamer_enqueue
  BY <1>1, <1>2 DEF raw_frame_streamer_enqueue, push_slot
<1>3. CASE TaskPop
  BY <1>1, <1>3 DEF TaskPop
<1>4. CASE ~raw_frame_streamer_enqueue /\ ~TaskPop
  BY <1>1, <1>4, RingUntouched
<1> QED
  BY <1>2, <1>3, <1>4

\* push_slot is offered frames of a size the exporter accepts, and the task
\* writes what it has popped.
LEMMA SlotsValidStep ==
  ASSUME RingInv, SlotsValid, [Next]_vars
  PROVE  SlotsValid'
<1>1. count \in Nat /\ Capacity \in Nat /\ Capacity > 0 /\ count <= Capacity /\ cur.seq \in Nat
      /\ seq \in Nat /\ MaxFrame \in Nat
  BY CapacityAssumption, LengthAssumption DEF RingInv, TypeOK, RingType, Slot
<1>2. CASE raw_frame_streamer_enqueue
  <2>1. PICK n \in Lengths : n \in 1 .. MaxFrame /\ push_slot(n)
    BY <1>2 DEF raw_frame_streamer_enqueue
  <2>2. n \in Nat /\ RingType /\ RingHoldsNewest
    BY <2>1, LengthAssumption DEF RingInv, TypeOK
  <2>3. pc' = pc /\ cur' = cur
    BY <1>2 DEF raw_frame_streamer_enqueue
  <2>4. \A i \in 0 .. count' - 1 : Waiting(i)'.raw_len \in 1 .. MaxFrame
    <3>1. CASE count < Capacity
      <4>1. count' = count + 1
            /\ \A i \in 0 .. count : Waiting(i)' = IF i = count THEN [seq |-> seq, raw_len |-> n] ELSE Waiting(i)
        BY <2>1, <2>2, <3>1, PushWaiting
      <4> QED
        BY <1>1, <2>1, <4>1 DEF SlotsValid
    <3>2. CASE count = Capacity
      <4>1. count' = count
            /\ \A i \in 0 .. count - 1 :
                 Waiting(i)' = IF i = count - 1 THEN [seq |-> seq, raw_len |-> n] ELSE Waiting(i + 1)
        BY <2>1, <2>2, <3>2, PushWaiting
      <4> QED
        BY <1>1, <2>1, <4>1 DEF SlotsValid
    <3> QED
      BY <1>1, <3>1, <3>2
  <2> QED
    BY <2>3, <2>4 DEF SlotsValid
<1>3. CASE TaskPop
  <2>1. /\ count > 0 /\ count' = count - 1 /\ cur' = Waiting(0)
        /\ \A i \in 0 .. count - 2 : Waiting(i)' = Waiting(i + 1)
    BY <1>3, PopWaiting DEF RingInv, TypeOK
  <2>2. cur'.seq = seq - count
    BY <1>3, PopKeepsNewest DEF RingInv, TypeOK
  <2>3. cur'.seq > 0
    BY <1>1, <2>2 DEF RingInv, WaitingIsNewer
  <2>4. 0 \in 0 .. count - 1 /\ \A i \in 0 .. count - 2 : i + 1 \in 0 .. count - 1
    BY <1>1, <2>1
  <2> QED
    BY <1>1, <2>1, <2>3, <2>4 DEF SlotsValid
<1>4. CASE ~raw_frame_streamer_enqueue /\ ~TaskPop
  <2>1. slots' = slots /\ tail' = tail /\ count' = count /\ cur' = cur
    BY <1>4, RingUntouched
  <2>2. \A i : Waiting(i)' = Waiting(i)
    BY <2>1 DEF Waiting
  <2>3. pc' \in {"header", "payload", "sent"} => pc \in {"header", "payload", "sent"}
    BY <1>4 DEF Next, Task, TaskNoWifi, TaskThrottled, TaskAttempt,
       TaskConnected, TaskConnectFailed, TaskReady, TaskIdle, TaskCount, TaskWrite,
       TaskWriteHeader, TaskWritePayload, TaskWriteFailed, WifiChange, PeerClose, vars
  <2> QED
    BY <2>1, <2>2, <2>3 DEF SlotsValid
<1> QED
  BY <1>2, <1>3, <1>4

-----------------------------------------------------------------------------
(***************************************************************************)
(* Steps that bring no new unit.                                           *)
(***************************************************************************)
LEMMA CountKept ==
  ASSUME CompleteCounted, Complete' \subseteq Complete, Cardinality(ArchivedSeqs') = Len(out'),
         Counted' = Counted, Counted \in Nat
  PROVE  CompleteCounted'
<1>1. IsFiniteSet(Complete) /\ Cardinality(Complete) <= Counted
  BY DEF CompleteCounted
<1>2. IsFiniteSet(Complete') /\ Cardinality(Complete') <= Cardinality(Complete)
  BY <1>1, FS_Subset
<1>3. Cardinality(Complete) \in Nat /\ Cardinality(Complete') \in Nat
  BY <1>1, <1>2, FS_CardinalityType
<1>4. \A a, b, c \in Nat : a <= b /\ b <= c => a <= c
  OBVIOUS
<1>5. Cardinality(Complete') <= Counted'
  BY <1>1, <1>2, <1>3, <1>4
<1> QED
  BY <1>2, <1>5 DEF CompleteCounted

LEMMA WireKept ==
  ASSUME RingInv, WireInv, [Next]_vars, ~TaskWriteHeader, ~TaskWritePayload,
         NEW d \in {0, 1}, Len(conns) \in Nat, Len(conns') \in Nat,
         \A i \in 1 .. Len(conns') : Good(Stream(i)'),
         \A i \in 1 .. Len(conns') : \A k \in 1 .. Len(Stream(i)') :
           /\ i + d \in 1 .. Len(conns)
           /\ \E l \in 1 .. Len(Stream(i + d)) : Stream(i)'[k] = Stream(i + d)[l],
         out' = out, DeviceStream'
  PROVE  WireInv'
<1>1. \A s \in Nat : Old(s) => OldNext(s)
  BY OldKept
<1>2. seq \in Nat /\ seq' \in Nat /\ seq <= seq'
  BY SeqKept
<1>3. StreamsGood' /\ StreamsOld' /\ StreamsOrdered' /\ Arriving' \subseteq Arriving
  BY <1>1, StreamsKept DEF WireInv
<1>4. ArchiveOld'
  <2>1. \A a \in DOMAIN out :
          /\ OldNext(out[a][1].seq)
          /\ \A i \in 1 .. Len(conns') : \A k \in 1 .. Len(Stream(i)') :
               out[a][1].seq < Stream(i)'[k].seq
    BY <1>1, <1>2, ArchiveKept DEF WireInv
  <2> QED
    BY <2>1 DEF ArchiveOld, Old, OldNext
<1>5. ArchiveGenuine' /\ ArchiveOrdered' /\ ArchivedSeqs' = ArchivedSeqs
  BY <1>2, ArchiveSame DEF WireInv
<1>6. sent \in Nat
  BY DEF RingInv, TypeOK, CountType
<1>7. Counted \in Nat /\ Counted' = Counted
  BY <1>6, WithoutWrite
<1>9. Complete' \subseteq Complete
  BY <1>3, <1>5 DEF Complete
<1>10. Cardinality(ArchivedSeqs') = Len(out')
  BY <1>5 DEF WireInv, CompleteCounted
<1>11. CompleteCounted'
  BY <1>7, <1>9, <1>10, CountKept DEF WireInv
<1> QED
  BY <1>3, <1>4, <1>5, <1>11 DEF WireInv

\* The device's connection as the task knows it.
LEMMA DeviceKept ==
  ASSUME RingInv, DeviceStream, [Next]_vars, ~TaskWriteHeader, ~TaskWritePayload, ~TaskConnected,
         client' => Stream(Len(conns))' = Stream(Len(conns))
  PROVE  DeviceStream'
<1> SUFFICES ASSUME client' PROVE DeviceStream'
  BY DEF DeviceStream
<1>1. sent \in Nat
  BY DEF RingInv, TypeOK, CountType
<1>2. client /\ (pc' = "payload" <=> pc = "payload")
  BY <1>1, WithoutWrite
<1>3. pc' = "payload" => cur' = cur
  <2> SUFFICES ASSUME pc' = "payload" PROVE cur' = cur
    OBVIOUS
  <2>1. ~TaskPop
    BY DEF TaskPop
  <2>2. CASE raw_frame_streamer_enqueue
    BY <2>2 DEF raw_frame_streamer_enqueue
  <2> QED
    BY <2>1, <2>2, RingUntouched
<1> QED
  BY <1>2, <1>3 DEF DeviceStream, Unit

\* Steps of the exporter and the collector that leave every byte where it is, or
\* move it into buf.
LEMMA SameStreams ==
  ASSUME RingInv, PipeType, WireInv, [Next]_vars,
         ~TaskWriteHeader, ~TaskWritePayload, ~TaskConnected,
         Len(conns') = Len(conns), \A i \in 1 .. Len(conns) : Stream(i)' = Stream(i),
         out' = out
  PROVE  WireInv'
<1>1. Len(conns) \in Nat
  BY LenProperties DEF PipeType
<1>2. \A i \in 1 .. Len(conns') : i + 0 = i /\ Good(Stream(i)')
  BY <1>1 DEF WireInv, StreamsGood
<1>3. client' => Stream(Len(conns))' = Stream(Len(conns))
  <2> SUFFICES ASSUME client' PROVE Stream(Len(conns))' = Stream(Len(conns))
    OBVIOUS
  <2>1. client
    BY WithoutWrite DEF RingInv, TypeOK, CountType
  <2>2. Len(conns) \in 1 .. Len(conns)
    BY <2>1, LastConnection DEF PipeType
  <2> QED
    BY <2>2
<1>4. DeviceStream'
  BY <1>3, DeviceKept DEF WireInv
<1>5. \A i \in 1 .. Len(conns') : \A k \in 1 .. Len(Stream(i)') :
           /\ i + 0 \in 1 .. Len(conns)
           /\ \E l \in 1 .. Len(Stream(i + 0)) : Stream(i)'[k] = Stream(i + 0)[l]
  BY <1>2
<1> QED
  BY <1>1, <1>2, <1>4, <1>5, WireKept

-----------------------------------------------------------------------------
(***************************************************************************)
(* Writes.                                                                 *)
(***************************************************************************)
LEMMA CountGrown ==
  ASSUME CompleteCounted, NEW x, Complete' \subseteq Complete \cup {x},
         Cardinality(ArchivedSeqs') = Len(out'), Counted' = Counted + 1, Counted \in Nat
  PROVE  CompleteCounted'
<1>1. IsFiniteSet(Complete) /\ Cardinality(Complete) <= Counted
  BY DEF CompleteCounted
<1>2. IsFiniteSet(Complete \cup {x})
      /\ (Cardinality(Complete \cup {x}) = Cardinality(Complete)
          \/ Cardinality(Complete \cup {x}) = Cardinality(Complete) + 1)
  BY <1>1, FS_AddElement
<1>3. IsFiniteSet(Complete') /\ Cardinality(Complete') <= Cardinality(Complete \cup {x})
  BY <1>2, FS_Subset
<1>4. Cardinality(Complete) \in Nat /\ Cardinality(Complete') \in Nat
      /\ Cardinality(Complete \cup {x}) \in Nat
  BY <1>1, <1>2, <1>3, FS_CardinalityType
<1>5. \A a, b, c, d \in Nat : a <= b /\ (b = c \/ b = c + 1) /\ c <= d => a <= d + 1
  OBVIOUS
<1>6. Cardinality(Complete') <= Counted + 1
  BY <1>1, <1>2, <1>3, <1>4, <1>5
<1>7. Cardinality(Complete') <= Counted'
  BY <1>6
<1> QED
  BY <1>3, <1>7 DEF CompleteCounted

\* The N-th and last stream, of length L, becomes v: n units of the task's slot
\* are appended to it, from unit off + 1 on.
Written(N, off, n, L, v) ==
  /\ N \in Nat /\ Len(conns) = N /\ N >= 1 /\ Len(conns') = N
  /\ \A i \in 1 .. N : i # N => Stream(i)' = Stream(i)
  /\ off \in Nat /\ off = (IF pc = "header" THEN 0 ELSE HeaderUnits)
  /\ n \in Nat /\ off + n <= HeaderUnits + cur.raw_len
  /\ L \in Nat /\ Len(Stream(N)) = L
  /\ v \in Seq(UnitType) /\ Stream(N)' = v /\ Len(v) = L + n
  /\ \A k \in 1 .. L : v[k] = Stream(N)[k]
  /\ \A m \in 1 .. n : v[L + m] = Unit(cur, off + m)
  /\ Counted' = Counted + (IF off + n = HeaderUnits + cur.raw_len THEN 1 ELSE 0)

\* n units of the task's slot, behind off units written before, reach the end of
\* the device's connection.
LEMMA WireWritten ==
  ASSUME RingInv, PipeType, SlotsValid, WireInv, [Next]_vars, pc \in {"header", "payload"}, client,
         cur' = cur, seq' = seq, pc' # "header", out' = out, DeviceStream',
         NEW N, NEW off, NEW n, NEW L, NEW v, Written(N, off, n, L, v)
  PROVE  WireInv'
<1> /\ N \in Nat /\ Len(conns) = N /\ N >= 1 /\ Len(conns') = N
    /\ \A i \in 1 .. N : i # N => Stream(i)' = Stream(i)
    /\ off \in Nat /\ off = (IF pc = "header" THEN 0 ELSE HeaderUnits)
    /\ n \in Nat /\ off + n <= HeaderUnits + cur.raw_len
    /\ L \in Nat /\ Len(Stream(N)) = L
    /\ v \in Seq(UnitType) /\ Stream(N)' = v /\ Len(v) = L + n
    /\ \A k \in 1 .. L : v[k] = Stream(N)[k]
    /\ \A m \in 1 .. n : v[L + m] = Unit(cur, off + m)
    /\ Counted' = Counted + (IF off + n = HeaderUnits + cur.raw_len THEN 1 ELSE 0)
  BY DEF Written
<1>1. /\ cur \in Slot /\ cur.seq \in Nat /\ cur.seq > 0 /\ cur.raw_len \in Nat /\ cur.raw_len \in 1 .. MaxFrame
      /\ HeaderUnits = 2 /\ seq \in Nat /\ sent \in Nat
  BY LengthAssumption
  DEF RingInv, TypeOK, RingType, CountType, Slot, SlotsValid, HeaderUnits
<1>2. StreamsGood /\ StreamsOld /\ StreamsOrdered /\ DeviceStream /\ ArchiveOld
      /\ ArchiveGenuine /\ ArchiveOrdered /\ CompleteCounted
  BY DEF WireInv
<1>3. N \in 1 .. N /\ Good(Stream(N))
  BY <1>2 DEF StreamsGood
<1>4. pc = "payload" => L > 0 /\ L \in 1 .. L /\ Stream(N)[L] = Unit(cur, HeaderUnits) /\ Stream(N)[L].seq = cur.seq
  BY <1>2 DEF DeviceStream, Unit
<1>5. pc = "header" => (L > 0 => Stream(N)[L].part = PacketLen(Stream(N)[L]))
  BY <1>2 DEF DeviceStream
\* Whatever is under way on an older connection or archived is older than cur.
<1>6. ASSUME NEW i \in 1 .. N, NEW k \in 1 .. Len(Stream(i))
      PROVE  /\ Stream(i)[k].seq \in Nat /\ Stream(i)[k].seq <= cur.seq
             /\ i # N \/ pc = "header" => Stream(i)[k].seq < cur.seq
  <2>1. Stream(i)[k].seq \in Nat
    BY <1>2, StreamUnit
  <2>2. Old(Stream(i)[k].seq)
    BY <1>2 DEF StreamsOld
  <2>3. CASE pc = "payload" /\ i # N
    <3>1. i < N
      BY <2>3
    <3>2. Stream(i)[k].seq < Stream(N)[L].seq
      BY <1>2, <1>3, <1>4, <2>3, <3>1 DEF StreamsOrdered
    <3> QED
      BY <1>4, <2>1, <2>2, <2>3, <3>2 DEF Old
  <2> QED
    BY <2>1, <2>2, <2>3 DEF Old
<1>7. ASSUME NEW a \in DOMAIN out
      PROVE  out[a][1].seq \in Nat /\ out[a][1].seq < cur.seq
  <2>1. out[a][1].seq \in Nat /\ Old(out[a][1].seq)
    BY <1>1, <1>2, ArchivedSeq DEF ArchiveOld
  <2>2. CASE pc = "payload"
    BY <1>2, <1>3, <1>4, <2>1, <2>2 DEF ArchiveOld
  <2> QED
    BY <2>1, <2>2 DEF Old
\* A unit of the device's connection was there or is a new one.
<1>8. ASSUME NEW k \in 1 .. Len(v)
      PROVE  \/ k \in 1 .. L /\ v[k] = Stream(N)[k]
             \/ \E m \in 1 .. n : k = L + m /\ v[k] = Unit(cur, off + m) /\ v[k].seq = cur.seq
                                  /\ v[k].part = off + m /\ v[k].raw_len = cur.raw_len
  <2>1. CASE k \in 1 .. L
    BY <2>1
  <2>2. CASE ~(k \in 1 .. L)
    <3>1. k - L \in 1 .. n /\ L + (k - L) = k
      BY <2>2
    <3>2. v[L + (k - L)] = Unit(cur, off + (k - L))
      BY <3>1
    <3>3. v[k] = Unit(cur, off + (k - L))
      BY <3>1, <3>2
    <3>4. v[k].seq = cur.seq /\ v[k].part = off + (k - L) /\ v[k].raw_len = cur.raw_len
      BY <3>3 DEF Unit
    <3> QED
      BY <3>1, <3>3, <3>4
  <2> QED
    BY <2>1, <2>2
<1>9. ASSUME NEW k \in 1 .. Len(v)
      PROVE  /\ v[k].seq \in Nat /\ v[k].seq <= cur.seq
             /\ v[k].seq = cur.seq \/ (k \in 1 .. Len(Stream(N)) /\ v[k] = Stream(N)[k])
  <2>1. CASE k \in 1 .. L /\ v[k] = Stream(N)[k]
    BY <1>3, <1>6, <2>1
  <2>2. CASE v[k].seq = cur.seq
    BY <1>1, <2>2
  <2> QED
    BY <1>8, <2>1, <2>2
<1>10. StreamsGood'
  <2>1. Good(v)
    <3>1. \/ /\ off = 0
             /\ \A k \in 1 .. L : Stream(N)[k].seq < cur.seq
             /\ L > 0 => Stream(N)[L].part = PacketLen(Stream(N)[L])
          \/ off = HeaderUnits /\ L > 0 /\ Stream(N)[L] = Unit(cur, HeaderUnits)
      BY <1>3, <1>4, <1>5, <1>6
    <3>2. Continues(Stream(N), L, v, cur, off, n)
      BY <1>1, <1>3, <3>1 DEF Continues
    <3> QED
      BY <3>2, WriteGood
  <2>2. \A i \in 1 .. Len(conns') : Good(Stream(i)')
    BY <1>2, <2>1 DEF StreamsGood
  <2> QED
    BY <2>2 DEF StreamsGood
<1>11. StreamsOld'
  <2> SUFFICES ASSUME NEW i \in 1 .. N, NEW k \in 1 .. Len(Stream(i)')
               PROVE  Stream(i)'[k].seq <= cur.seq
    BY DEF StreamsOld, Old
  <2>1. CASE i = N
    BY <1>9, <2>1
  <2>2. CASE i # N
    BY <1>6, <2>2
  <2> QED
    BY <2>1, <2>2
<1>12. StreamsOrdered'
  <2> SUFFICES ASSUME NEW i \in 1 .. N, NEW j \in 1 .. N, i < j,
                      NEW k \in 1 .. Len(Stream(i)'), NEW l \in 1 .. Len(Stream(j)')
               PROVE  Stream(i)'[k].seq < Stream(j)'[l].seq
    BY DEF StreamsOrdered
  <2>1. i # N /\ Stream(i)' = Stream(i)
    OBVIOUS
  <2>2. CASE j = N
    BY <1>2, <1>6, <1>9, <2>1, <2>2 DEF StreamsOrdered
  <2>3. CASE j # N
    BY <1>2, <2>1, <2>3 DEF StreamsOrdered
  <2> QED
    BY <2>2, <2>3
<1>13. ArchiveOld'
  <2> SUFFICES ASSUME NEW a \in DOMAIN out
               PROVE  /\ out[a][1].seq <= cur.seq
                      /\ \A i \in 1 .. N : \A k \in 1 .. Len(Stream(i)') :
                           out[a][1].seq < Stream(i)'[k].seq
    BY DEF ArchiveOld, Old
  <2>1. out[a][1].seq \in Nat /\ out[a][1].seq < cur.seq
    BY <1>7
  <2>2. ASSUME NEW i \in 1 .. N, NEW k \in 1 .. Len(Stream(i)')
        PROVE  out[a][1].seq < Stream(i)'[k].seq
    <3>1. CASE i = N
      BY <1>2, <1>9, <2>1, <3>1 DEF ArchiveOld
    <3>2. CASE i # N
      BY <1>2, <3>2 DEF ArchiveOld
    <3> QED
      BY <3>1, <3>2
  <2> QED
    BY <1>1, <2>1, <2>2
<1>14. ArchiveGenuine' /\ ArchiveOrdered' /\ ArchivedSeqs' = ArchivedSeqs
  BY <1>1, <1>2, ArchiveSame
<1>15. Counted \in Nat /\ Cardinality(ArchivedSeqs') = Len(out')
  BY <1>1, <1>2, <1>14 DEF CompleteCounted, Counted
\* The slot becomes complete with its last unit.
<1>16. ASSUME NEW i \in 1 .. N, NEW k \in 1 .. Len(Stream(i)'),
              Stream(i)'[k].part = PacketLen(Stream(i)'[k])
       PROVE  \/ Stream(i)'[k].seq \in Arriving
              \/ Stream(i)'[k].seq = cur.seq /\ off + n = HeaderUnits + cur.raw_len
  <2>1. ASSUME k \in 1 .. Len(Stream(i)), Stream(i)'[k] = Stream(i)[k]
        PROVE  Stream(i)'[k].seq \in Arriving
    <3>1. k \in Ends(i) /\ Stream(i)[k].seq \in Nat
      BY <1>6, <1>16, <2>1 DEF Ends
    <3> QED
      BY <2>1, <3>1 DEF Arriving
  <2>2. CASE i # N
    BY <2>1, <2>2
  <2>3. CASE i = N
    <3>1. ASSUME NEW m \in 1 .. n, v[k].seq = cur.seq, v[k].part = off + m, v[k].raw_len = cur.raw_len
          PROVE  off + n = HeaderUnits + cur.raw_len
      <4>1. off + m = HeaderUnits + cur.raw_len
        BY <1>16, <2>3, <3>1 DEF PacketLen
      <4> QED
        BY <1>1, <4>1
    <3>2. CASE k \in 1 .. L /\ v[k] = Stream(N)[k]
      BY <2>1, <2>3, <3>2
    <3> QED
      BY <1>8, <2>3, <3>1, <3>2
  <2> QED
    BY <2>2, <2>3
<1>17. CompleteCounted'
  <2>1. CASE off + n = HeaderUnits + cur.raw_len
    <3>1. Arriving' \subseteq Arriving \cup {cur.seq}
      BY <1>16 DEF Arriving, Ends
    <3>2. Complete' \subseteq Complete \cup {cur.seq}
      BY <1>14, <3>1 DEF Complete
    <3> QED
      BY <1>2, <1>15, <2>1, <3>2, CountGrown
  <2>2. CASE off + n # HeaderUnits + cur.raw_len
    <3>1. Arriving' \subseteq Arriving
      BY <1>16, <2>2 DEF Arriving, Ends
    <3>2. Complete' \subseteq Complete
      BY <1>14, <3>1 DEF Complete
    <3>3. Counted' = Counted
      BY <1>15, <2>2
    <3> QED
      BY <1>2, <1>15, <3>2, <3>3, CountKept
  <2> QED
    BY <2>1, <2>2
<1> QED
  BY <1>10, <1>11, <1>12, <1>13, <1>14, <1>17 DEF WireInv

-----------------------------------------------------------------------------
(***************************************************************************)
(* parse_stream_buffer.                                                    *)
(***************************************************************************)

\* The suffix of a sequence.
LEMMA Rest ==
  ASSUME NEW S, NEW w \in Seq(S), NEW n \in 0 .. Len(w)
  PROVE  /\ SubSeq(w, n + 1, Len(w)) \in Seq(S)
         /\ Len(SubSeq(w, n + 1, Len(w))) = Len(w) - n
         /\ \A k \in 1 .. Len(w) - n : SubSeq(w, n + 1, Len(w))[k] = w[n + k]
<1>1. Len(w) \in Nat /\ \A i \in n + 1 .. Len(w) : w[i] \in S
  BY LenProperties, ElementOfSeq
<1>2. /\ SubSeq(w, n + 1, Len(w)) \in Seq(S)
      /\ Len(SubSeq(w, n + 1, Len(w))) = IF n + 1 <= Len(w) THEN Len(w) - (n + 1) + 1 ELSE 0
      /\ \A i \in 1 .. Len(w) - (n + 1) + 1 : SubSeq(w, n + 1, Len(w))[i] = w[(n + 1) + i - 1]
  BY <1>1, SubSeqProperties
<1>3. Len(SubSeq(w, n + 1, Len(w))) = Len(w) - n /\ Len(w) - (n + 1) + 1 = Len(w) - n
  BY <1>1, <1>2
<1>4. \A i \in 1 .. Len(w) - n : (n + 1) + i - 1 = n + i
  BY <1>1
<1> QED
  BY <1>2, <1>3, <1>4

\* The prefix of a sequence.
LEMMA First ==
  ASSUME NEW S, NEW w \in Seq(S), NEW n \in 0 .. Len(w)
  PROVE  /\ SubSeq(w, 1, n) \in Seq(S)
         /\ Len(SubSeq(w, 1, n)) = n
         /\ \A k \in 1 .. n : SubSeq(w, 1, n)[k] = w[k]
<1>1. Len(w) \in Nat /\ \A i \in 1 .. n : w[i] \in S
  BY LenProperties, ElementOfSeq
<1>2. /\ SubSeq(w, 1, n) \in Seq(S)
      /\ Len(SubSeq(w, 1, n)) = IF 1 <= n THEN n - 1 + 1 ELSE 0
      /\ \A i \in 1 .. n - 1 + 1 : SubSeq(w, 1, n)[i] = w[1 + i - 1]
  BY <1>1, SubSeqProperties
<1>3. Len(SubSeq(w, 1, n)) = n /\ n - 1 + 1 = n
  BY <1>1, <1>2
<1>4. \A i \in 1 .. n : 1 + i - 1 = i
  OBVIOUS
<1> QED
  BY <1>2, <1>3, <1>4

\* What is received of the accepted connection is the beginning of its stream.
LEMMA BufIsFirst ==
  ASSUME PipeType, Len(buf) > 0
  PROVE  /\ conns # << >> /\ 1 \in 1 .. Len(conns)
         /\ Len(buf) \in Nat /\ Len(Stream(1)) \in Nat /\ Len(buf) <= Len(Stream(1))
         /\ \A k \in 1 .. Len(buf) : Stream(1)[k] = buf[k]
<1>1. conns # << >>
  BY EmptySeq DEF PipeType
<1>2. 1 \in 1 .. Len(conns)
  BY <1>1, LastConnection
<1>3. conns[1].bytes \in Seq(UnitType) /\ Len(conns[1].bytes) \in Nat
  BY <1>2, StreamType
<1>4. buf \in Seq(UnitType) /\ Len(buf) \in Nat
  BY LenProperties DEF PipeType
<1>5. /\ Len(Stream(1)) = Len(buf) + Len(conns[1].bytes)
      /\ \A k \in 1 .. Len(buf) + Len(conns[1].bytes) :
           Stream(1)[k] = IF k <= Len(buf) THEN buf[k] ELSE conns[1].bytes[k - Len(buf)]
  BY <1>3, <1>4, ConcatProperties DEF Stream
<1>6. \A k \in 1 .. Len(buf) : k \in 1 .. Len(buf) + Len(conns[1].bytes) /\ k <= Len(buf)
  BY <1>3, <1>4
<1> QED
  BY <1>1, <1>2, <1>3, <1>4, <1>5, <1>6

\* The collector never has to search for a magic: buf always begins with one.
LEMMA BufBeginsRecord ==
  ASSUME PipeType, StreamsGood, Len(buf) > 0
  PROVE  IsMagic(buf[1])
<1>1. /\ 1 \in 1 .. Len(conns) /\ Len(buf) \in Nat /\ Len(Stream(1)) \in Nat
      /\ Len(buf) <= Len(Stream(1)) /\ Stream(1)[1] = buf[1]
  BY BufIsFirst
<1>2. Good(Stream(1)) /\ Len(Stream(1)) > 0
  BY <1>1 DEF StreamsGood
<1> QED
  BY <1>1, <1>2 DEF Good, IsMagic

\* The first n units of the accepted connection's stream w go to the archive, as
\* one packet.
Cut(w, n) ==
  /\ conns' = conns /\ 1 \in 1 .. Len(conns) /\ Good(w)
  /\ Len(w) \in Nat /\ HeaderUnits <= Len(w) /\ n <= Len(w) /\ n \in 1 .. Len(w)
  /\ buf' \in Seq(UnitType)
  /\ Stream(1)' \in Seq(UnitType) /\ Len(Stream(1)') = Len(w) - n
  /\ \A k \in 1 .. Len(w) - n : Stream(1)'[k] = w[n + k]
  /\ \A i \in 1 .. Len(conns) : i # 1 => Stream(i)' = Stream(i)
  /\ \E p \in Seq(UnitType) :
       /\ out' = Append(out, p) /\ Len(p) = n
       /\ \A k \in 1 .. n : p[k] = w[k]

\* A pass of the parser in terms of that stream.
LEMMA CutStream ==
  ASSUME PipeType, WireInv, parse_stream_buffer, NEW w, w = Stream(1), NEW n, n = packet_len(w)
  PROVE  Cut(w, n)
<1>1. HeaderUnits = 2 /\ buf \in Seq(UnitType) /\ Len(buf) \in Nat /\ conns' = conns
  BY LenProperties DEF PipeType, HeaderUnits, parse_stream_buffer
<1>2. Len(buf) >= HeaderUnits /\ Len(buf) > 0
  BY <1>1 DEF parse_stream_buffer, Parsable
<1>3. /\ 1 \in 1 .. Len(conns) /\ Len(w) \in Nat
      /\ Len(buf) <= Len(w) /\ \A k \in 1 .. Len(buf) : w[k] = buf[k]
  BY <1>2, BufIsFirst
<1>4. IsMagic(buf[1])
  BY <1>2, BufBeginsRecord DEF WireInv
<1>5. Good(w)
  BY <1>3 DEF WireInv, StreamsGood
<1>6. packet_len(buf) = n
  <2>1. 2 \in 1 .. Len(buf)
    BY <1>1, <1>2
  <2>2. w[2] = buf[2]
    BY <1>3, <2>1
  <2> QED
    BY <2>2 DEF packet_len
<1>7. /\ Len(buf) >= n
      /\ out' = Append(out, SubSeq(buf, 1, n)) /\ buf' = SubSeq(buf, n + 1, Len(buf))
  BY <1>4, <1>6 DEF parse_stream_buffer, Parsable
<1>8. n \in 1 .. Len(w)
  <2>1. Len(w) >= HeaderUnits /\ Len(w) >= packet_len(w)
    <3>1. w[2].raw_len \in Nat
      <4>1. 2 \in 1 .. Len(w)
        BY <1>1, <1>2, <1>3
      <4> QED
        BY <1>5, <4>1, GoodUnit
    <3> QED
      BY <1>1, <1>2, <1>3, <1>7, <3>1 DEF packet_len
  <2> QED
    BY <1>5, <2>1, PacketOfGood
<1>9. n \in 0 .. Len(buf)
  BY <1>1, <1>7, <1>8
<1>10. /\ buf' \in Seq(UnitType) /\ Len(buf') = Len(buf) - n
       /\ \A k \in 1 .. Len(buf) - n : buf'[k] = buf[n + k]
  BY <1>1, <1>7, <1>9, Rest
<1>11. /\ SubSeq(buf, 1, n) \in Seq(UnitType) /\ Len(SubSeq(buf, 1, n)) = n
       /\ \A k \in 1 .. n : SubSeq(buf, 1, n)[k] = buf[k]
  BY <1>1, <1>9, First
<1>12. \A k \in 1 .. n : SubSeq(buf, 1, n)[k] = w[k]
  BY <1>1, <1>3, <1>9, <1>11
<1> DEFINE b == conns[1].bytes
<1>13. b \in Seq(UnitType) /\ Len(b) \in Nat
  BY <1>3, StreamType
<1>14. /\ w = buf \o b /\ Len(w) = Len(buf) + Len(b)
       /\ \A k \in 1 .. Len(buf) + Len(b) : w[k] = IF k <= Len(buf) THEN buf[k] ELSE b[k - Len(buf)]
  BY <1>1, <1>13, ConcatProperties DEF Stream
<1>15. Stream(1)' = buf' \o b
  BY <1>1 DEF Stream
<1> HIDE DEF b
<1>16. /\ Stream(1)' \in Seq(UnitType) /\ Len(Stream(1)') = (Len(buf) - n) + Len(b)
       /\ \A k \in 1 .. (Len(buf) - n) + Len(b) :
            Stream(1)'[k] = IF k <= Len(buf) - n THEN buf'[k] ELSE b[k - (Len(buf) - n)]
  <2>1. PICK r : r = buf'
    OBVIOUS
  <2>2. r \in Seq(UnitType) /\ Len(r) = Len(buf) - n /\ Stream(1)' = r \o b
    BY <1>10, <1>15, <2>1
  <2>3. PICK c : c = Len(b)
    OBVIOUS
  <2>4. /\ r \o b \in Seq(UnitType) /\ Len(r \o b) = (Len(buf) - n) + c
        /\ \A k \in 1 .. (Len(buf) - n) + c :
             (r \o b)[k] = IF k <= Len(buf) - n THEN r[k] ELSE b[k - (Len(buf) - n)]
    BY <1>13, <2>2, <2>3, Concat
  <2> QED
    BY <2>1, <2>2, <2>3, <2>4
<1>17. ASSUME NEW k \in 1 .. Len(w) - n
       PROVE  Stream(1)'[k] = w[n + k]
  <2>1. k \in 1 .. (Len(buf) - n) + Len(b) /\ n + k \in 1 .. Len(buf) + Len(b)
    BY <1>1, <1>9, <1>13, <1>14
  <2>2. CASE k <= Len(buf) - n
    <3>1. k \in 1 .. Len(buf) - n /\ n + k <= Len(buf)
      BY <1>1, <1>9, <2>1, <2>2
    <3> QED
      BY <1>10, <1>14, <1>16, <2>1, <2>2, <3>1
  <2>3. CASE ~(k <= Len(buf) - n)
    <3>1. ~(n + k <= Len(buf)) /\ (n + k) - Len(buf) = k - (Len(buf) - n)
      BY <1>1, <1>9, <2>1, <2>3
    <3> QED
      BY <1>14, <1>16, <2>1, <2>3, <3>1
  <2> QED
    BY <2>2, <2>3
<1>18. Len(Stream(1)') = Len(w) - n
  <2>1. (Len(buf) - n) + Len(b) = (Len(buf) + Len(b)) - n
    BY <1>1, <1>9, <1>13
  <2> QED
    BY <1>14, <1>16, <2>1
<1>19. \A i \in 1 .. Len(conns) : i # 1 => Stream(i)' = Stream(i)
  BY <1>1 DEF Stream
<1>20. \E p \in Seq(UnitType) :
         /\ out' = Append(out, p) /\ Len(p) = n
         /\ \A k \in 1 .. n : p[k] = w[k]
  BY <1>7, <1>11, <1>12
<1>21. HeaderUnits <= Len(w) /\ n <= Len(w)
  BY <1>1, <1>2, <1>3, <1>8
<1> QED
  BY <1>1, <1>3, <1>5, <1>8, <1>10, <1>16, <1>17, <1>18, <1>19, <1>20, <1>21 DEF Cut

\* The archive after a pass of the parser: what is appended is one record, and
\* younger than every record archived before.
LEMMA WireCut ==
  ASSUME RingInv, PipeType, WireInv, [Next]_vars, parse_stream_buffer
  PROVE  WireInv' /\ PipeType'
<1> DEFINE w == Stream(1)
           n == packet_len(w)
           v == Stream(1)'
           s == [seq |-> w[1].seq, raw_len |-> w[1].raw_len]
<1>cut. Cut(w, n)
  BY CutStream
<1>1. /\ conns' = conns /\ 1 \in 1 .. Len(conns) /\ Good(w)
      /\ Len(w) \in Nat /\ HeaderUnits <= Len(w) /\ n <= Len(w) /\ n \in 1 .. Len(w)
      /\ buf' \in Seq(UnitType)
      /\ v \in Seq(UnitType) /\ Len(v) = Len(w) - n
      /\ \A k \in 1 .. Len(w) - n : v[k] = w[n + k]
      /\ \A i \in 1 .. Len(conns) : i # 1 => Stream(i)' = Stream(i)
      /\ \E p \in Seq(UnitType) :
           /\ out' = Append(out, p) /\ Len(p) = n
           /\ \A k \in 1 .. n : p[k] = w[k]
  BY <1>cut DEF Cut
<1>2. /\ n > HeaderUnits /\ n = HeaderUnits + w[1].raw_len
      /\ w[n].part = PacketLen(w[n]) /\ w[n].seq = w[1].seq
      /\ \A k \in 1 .. n : w[k] = Unit(s, k)
      /\ \A k \in n + 1 .. Len(w) : w[1].seq < w[k].seq
      /\ Len(w) > n => w[n + 1].part = 1
  BY <1>1, PacketOfGood
<1>3. /\ StreamsGood /\ StreamsOld /\ StreamsOrdered /\ DeviceStream /\ ArchiveOld
      /\ ArchiveGenuine /\ ArchiveOrdered /\ CompleteCounted
  BY DEF WireInv
<1>4. Len(conns) \in Nat /\ 1 \in 1 .. Len(w) /\ n \in Nat /\ HeaderUnits = 2 /\ Len(v) \in Nat
  BY <1>1, LenProperties DEF PipeType, HeaderUnits
<1>5. PICK p \in Seq(UnitType) :
        /\ out' = Append(out, p) /\ Len(p) = n
        /\ \A k \in 1 .. n : p[k] = w[k]
  BY <1>1
<1> HIDE DEF w, n, v
<1>6. /\ seq \in Nat /\ cur.seq \in Nat /\ count \in Nat /\ sent \in Nat /\ vars' = vars
      /\ cur' = cur /\ pc' = pc /\ client' = client /\ seq' = seq /\ sent' = sent
  <2>1. vars' = vars
    BY DEF parse_stream_buffer
  <2> QED
    BY <2>1, CapacityAssumption DEF vars, ring, net, RingInv, TypeOK, RingType, CountType, Slot
<1>7. w[1].seq \in Nat /\ w[1].seq > 0 /\ w[1].raw_len \in 1 .. MaxFrame /\ Old(w[1].seq)
      /\ w[1].seq < seq
  <2>1. w[1].seq \in Nat /\ w[1].seq > 0 /\ w[1].raw_len \in 1 .. MaxFrame
    BY <1>1, <1>4, GoodUnit
  <2>2. Old(w[1].seq)
    BY <1>1, <1>3, <1>4 DEF StreamsOld, w
  <2>3. cur.seq < seq
    BY <1>6 DEF RingInv, WaitingIsNewer
  <2> QED
    BY <1>6, <2>1, <2>2, <2>3 DEF Old
<1>8. \A x \in Nat : Old(x) => OldNext(x)
  BY <1>6 DEF Old, OldNext
<1>9. Good(v)
  <2>1. n \in 0 .. Len(w) /\ Len(v) = Len(w) - n
    BY <1>1, <1>4
  <2>2. \A k \in 1 .. Len(v) : v[k] = w[n + k]
    BY <1>1
  <2> QED
    BY <1>1, <1>2, <2>1, <2>2, RestGood
<1>10. \A k \in 1 .. Len(v) : n + k \in 1 .. Len(w) /\ v[k] = w[n + k] /\ n + k \in n + 1 .. Len(w)
  BY <1>1, <1>4
<1>11. \A i \in 1 .. Len(conns') : Good(Stream(i)')
  <2> SUFFICES ASSUME NEW i \in 1 .. Len(conns)
               PROVE  Good(Stream(i)')
    BY <1>1
  <2>2. CASE i = 1
    BY <1>9, <2>2 DEF v
  <2>3. CASE i # 1
    BY <1>1, <1>3, <2>3 DEF StreamsGood
  <2> QED
    BY <2>2, <2>3
<1>12. \A i \in 1 .. Len(conns') : \A k \in 1 .. Len(Stream(i)') :
         /\ i + 0 \in 1 .. Len(conns)
         /\ \E l \in 1 .. Len(Stream(i + 0)) : Stream(i)'[k] = Stream(i + 0)[l]
  <2> SUFFICES ASSUME NEW i \in 1 .. Len(conns), NEW k \in 1 .. Len(Stream(i)')
               PROVE  \E l \in 1 .. Len(Stream(i)) : Stream(i)'[k] = Stream(i)[l]
    BY <1>1, <1>4
  <2>1. CASE i = 1
    BY <1>10, <2>1 DEF v, w
  <2>2. CASE i # 1
    BY <1>1, <2>2
  <2> QED
    BY <2>1, <2>2
<1>13. StreamsGood' /\ StreamsOld' /\ StreamsOrdered' /\ Arriving' \subseteq Arriving
  BY <1>1, <1>3, <1>4, <1>8, <1>11, <1>12, StreamsKept
<1>14. \A a \in DOMAIN out :
          /\ OldNext(out[a][1].seq)
          /\ \A i \in 1 .. Len(conns') : \A k \in 1 .. Len(Stream(i)') :
               out[a][1].seq < Stream(i)'[k].seq
  BY <1>1, <1>3, <1>4, <1>6, <1>8, <1>11, <1>12, ArchiveKept
\* The archive's records by their place.
<1>15. /\ out \in Seq(Seq(UnitType)) /\ Len(out) \in Nat /\ DOMAIN out = 1 .. Len(out)
       /\ out' \in Seq(Seq(UnitType)) /\ DOMAIN out' = 1 .. Len(out) + 1 /\ Len(out') = Len(out) + 1
       /\ \A a \in 1 .. Len(out) : out'[a] = out[a]
       /\ out'[Len(out) + 1] = p /\ p[1].seq = w[1].seq
  <2>1. out \in Seq(Seq(UnitType))
    BY DEF PipeType
  <2>2. 1 \in 1 .. n
    BY <1>2, <1>4
  <2> QED
    BY <1>5, <2>1, <2>2, AppendProperties, LenProperties
<1>0. \A a \in DOMAIN out' : a \in 1 .. Len(out) \/ a = Len(out) + 1
  BY <1>15
<1>16. ArchiveOld'
  <2> SUFFICES ASSUME NEW a \in DOMAIN out'
               PROVE  /\ OldNext(out'[a][1].seq)
                      /\ \A i \in 1 .. Len(conns') : \A k \in 1 .. Len(Stream(i)') :
                           out'[a][1].seq < Stream(i)'[k].seq
    BY DEF ArchiveOld, Old, OldNext
  <2>1. CASE a \in 1 .. Len(out)
    BY <1>14, <1>15, <2>1
  <2>2. CASE a = Len(out) + 1
    <3>1. ASSUME NEW i \in 1 .. Len(conns), NEW k \in 1 .. Len(Stream(i)')
          PROVE  w[1].seq < Stream(i)'[k].seq
      <4>1. CASE i = 1
        BY <1>2, <1>10, <4>1 DEF v
      <4>2. CASE i # 1
        <5>1. 1 < i /\ Stream(i)' = Stream(i)
          BY <1>1, <1>4, <4>2
        <5> QED
          BY <1>1, <1>3, <1>4, <5>1 DEF StreamsOrdered, w
      <4> QED
        BY <4>1, <4>2
    <3> QED
      BY <1>1, <1>7, <1>8, <1>15, <2>2, <3>1
  <2> QED
    BY <1>0, <2>1, <2>2
<1>17. ArchiveGenuine'
  <2> SUFFICES ASSUME NEW a \in DOMAIN out'
               PROVE  \E r \in [seq : 1 .. seq - 1, raw_len : 1 .. MaxFrame] :
                        out'[a] = Header(r) \o Payload(r)
    BY <1>6 DEF ArchiveGenuine
  <2>1. CASE a \in 1 .. Len(out)
    BY <1>3, <1>15, <2>1 DEF ArchiveGenuine
  <2>2. CASE a = Len(out) + 1
    <3>1. s \in [seq : 1 .. seq - 1, raw_len : 1 .. MaxFrame] /\ s \in Slot
          /\ s.raw_len = w[1].raw_len
      BY <1>6, <1>7, LengthAssumption DEF Slot
    <3>2. /\ Header(s) \o Payload(s) \in Seq(UnitType)
          /\ Len(Header(s) \o Payload(s)) = HeaderUnits + s.raw_len
          /\ \A k \in 1 .. HeaderUnits + s.raw_len : (Header(s) \o Payload(s))[k] = Unit(s, k)
      BY <3>1, PacketUnits
    <3>3. p = Header(s) \o Payload(s)
      <4>1. Len(p) = Len(Header(s) \o Payload(s))
        BY <1>2, <1>5, <3>1, <3>2
      <4>2. \A k \in 1 .. Len(p) : p[k] = (Header(s) \o Payload(s))[k]
        BY <1>2, <1>5, <3>1, <3>2
      <4> QED
        BY <1>5, <3>2, <4>1, <4>2, SeqEqual
    <3> QED
      BY <1>15, <2>2, <3>1, <3>3
  <2> QED
    BY <1>0, <2>1, <2>2
<1>18. \A a \in 1 .. Len(out) : out[a][1].seq < w[1].seq
  BY <1>1, <1>3, <1>4, <1>15 DEF ArchiveOld, w
<1>19. ArchiveOrdered'
  <2> SUFFICES ASSUME NEW a \in 1 .. Len(out) + 1, NEW b \in 1 .. Len(out) + 1, a < b
               PROVE  out'[a][1].seq < out'[b][1].seq
    BY <1>15 DEF ArchiveOrdered
  <2>1. a \in 1 .. Len(out)
    BY <1>15
  <2>2. CASE b = Len(out) + 1
    BY <1>15, <1>18, <2>1, <2>2
  <2>3. CASE b \in 1 .. Len(out)
    BY <1>3, <1>15, <2>1, <2>3 DEF ArchiveOrdered
  <2> QED
    BY <1>15, <2>2, <2>3
<1>20. ArchivedSeqs' = ArchivedSeqs \cup {w[1].seq} /\ w[1].seq \notin ArchivedSeqs
  <2>1. ArchivedSeqs' = ArchivedSeqs \cup {w[1].seq}
    <3>1. ASSUME NEW a \in DOMAIN out'
          PROVE  out'[a][1].seq \in ArchivedSeqs \cup {w[1].seq}
      <4>1. CASE a \in 1 .. Len(out)
        BY <1>15, <4>1 DEF ArchivedSeqs
      <4>2. CASE a = Len(out) + 1
        BY <1>15, <4>2
      <4> QED
        BY <1>0, <4>1, <4>2
    <3>2. ASSUME NEW a \in DOMAIN out
          PROVE  out[a][1].seq \in ArchivedSeqs'
      <4>1. a \in DOMAIN out' /\ out'[a][1].seq = out[a][1].seq
        BY <1>15
      <4> QED
        BY <4>1 DEF ArchivedSeqs
    <3>3. w[1].seq \in ArchivedSeqs'
      <4>1. Len(out) + 1 \in DOMAIN out' /\ out'[Len(out) + 1][1].seq = w[1].seq
        BY <1>15
      <4> QED
        BY <4>1 DEF ArchivedSeqs
    <3> QED
      BY <3>1, <3>2, <3>3 DEF ArchivedSeqs
  <2>2. w[1].seq \notin ArchivedSeqs
    <3>1. ASSUME NEW a \in DOMAIN out
          PROVE  out[a][1].seq # w[1].seq
      <4>1. out[a][1].seq < w[1].seq
        BY <1>15, <1>18
      <4>2. out[a][1].seq \in 1 .. seq - 1
        BY <1>3, <1>6, ArchivedSeq
      <4> QED
        BY <1>6, <1>7, <4>1, <4>2
    <3> QED
      BY <3>1 DEF ArchivedSeqs
  <2> QED
    BY <2>1, <2>2
<1>21. Complete' \subseteq Complete
  <2>1. n \in Ends(1)
    BY <1>1, <1>2 DEF Ends, w
  <2>2. w[1].seq \in Arriving
    BY <1>1, <1>2, <1>7, <2>1 DEF Arriving, w
  <2> QED
    BY <1>13, <1>20, <2>2 DEF Complete
<1>22. Cardinality(ArchivedSeqs') = Len(out')
  <2>1. IsFiniteSet(ArchivedSeqs)
    BY <1>3, FS_Subset DEF CompleteCounted, Complete
  <2>2. Cardinality(ArchivedSeqs \cup {w[1].seq}) = Cardinality(ArchivedSeqs) + 1
    BY <1>20, <2>1, FS_AddElement
  <2> QED
    BY <1>3, <1>15, <1>20, <2>2 DEF CompleteCounted
<1>23. Counted \in Nat /\ Counted' = Counted
  BY <1>6 DEF Counted
<1>24. CompleteCounted'
  BY <1>3, <1>21, <1>22, <1>23, CountKept
<1>25. DeviceStream'
  <2> SUFFICES ASSUME client
               PROVE  IF pc = "payload"
                        THEN Len(Stream(Len(conns))') > 0
                             /\ Stream(Len(conns))'[Len(Stream(Len(conns))')] = Unit(cur, HeaderUnits)
                        ELSE Len(Stream(Len(conns))') > 0 =>
                               Stream(Len(conns))'[Len(Stream(Len(conns))')].part
                                 = PacketLen(Stream(Len(conns))'[Len(Stream(Len(conns))')])
    BY <1>1, <1>6 DEF DeviceStream
  <2>1. CASE Len(conns) # 1
    <3>1. Len(conns) \in 1 .. Len(conns)
      BY <1>1, <1>4
    <3>2. Stream(Len(conns))' = Stream(Len(conns))
      BY <1>1, <2>1, <3>1
    <3> QED
      BY <1>3, <3>2 DEF DeviceStream
  <2>2. CASE Len(conns) = 1
    <3>0. Stream(Len(conns))' = v
      BY <1>1, <2>2 DEF v
    <3>1. Len(v) > 0 => v[Len(v)] = w[Len(w)]
      <4> SUFFICES ASSUME Len(v) > 0 PROVE v[Len(v)] = w[Len(w)]
        OBVIOUS
      <4>1. Len(v) \in 1 .. Len(v) /\ n + Len(v) = Len(w)
        BY <1>1, <1>4
      <4> QED
        BY <1>10, <4>1
    <3>2. CASE pc = "payload"
      <4>1. w[Len(w)] = Unit(cur, HeaderUnits)
        BY <1>3, <2>2, <3>2 DEF DeviceStream, w
      <4>2. w[Len(w)].part = 2
        BY <1>4, <4>1 DEF Unit
      <4>3. w[n].part = n
        <5>1. n \in 1 .. n
          BY <1>2, <1>4
        <5>2. w[n] = Unit(s, n)
          BY <1>2, <5>1
        <5> QED
          BY <5>2 DEF Unit
      <4>4. Len(w) # n
        BY <1>2, <1>4, <4>2, <4>3
      <4>5. Len(v) > 0
        BY <1>1, <1>4, <4>4
      <4> QED
        BY <3>0, <3>1, <3>2, <4>1, <4>5
    <3>3. CASE pc # "payload"
      <4>1. Len(w) > 0 => w[Len(w)].part = PacketLen(w[Len(w)])
        BY <1>3, <2>2, <3>3 DEF DeviceStream, w
      <4>2. Len(w) > 0
        BY <1>1, <1>4
      <4> QED
        BY <3>0, <3>1, <3>3, <4>1, <4>2
    <3> QED
      BY <3>2, <3>3
  <2> QED
    BY <2>1, <2>2
<1>26. PipeType'
  <2>1. conns # << >>
    BY <1>1, <1>4, EmptySeq
  <2> QED
    BY <1>1, <1>6, <1>15, <2>1 DEF PipeType
<1> QED
  BY <1>13, <1>16, <1>17, <1>19, <1>24, <1>25, <1>26 DEF WireInv

-----------------------------------------------------------------------------
(***************************************************************************)
(* The steps of the pipeline.                                              *)
(***************************************************************************)

LEMMA Assoc ==
  ASSUME NEW S, NEW a \in Seq(S), NEW b \in Seq(S), NEW c \in Seq(S)
  PROVE  a \o (b \o c) = (a \o b) \o c
BY ConcatAssociative

\* The device's connection with other bytes: its stream and the others.
LEMMA LastReplaced ==
  ASSUME PipeType, conns # << >>, NEW b \in Seq(UnitType), NEW o \in BOOLEAN, buf' = buf,
         conns' = [conns EXCEPT ![Len(conns)] = [bytes |-> b, open |-> o]]
  PROVE  /\ conns' \in Seq([bytes : Seq(UnitType), open : BOOLEAN])
         /\ Len(conns') = Len(conns) /\ conns' # << >>
         /\ conns'[Len(conns)] = [bytes |-> b, open |-> o]
         /\ \A i \in 1 .. Len(conns) : i # Len(conns) => Stream(i)' = Stream(i)
         /\ Stream(Len(conns))' = IF Len(conns) = 1 THEN buf \o b ELSE b
<1> DEFINE e == [bytes |-> b, open |-> o]
<1>1. Len(conns) \in Nat /\ Len(conns) \in 1 .. Len(conns) /\ Len(conns) >= 1
  BY LastConnection
<1>2. conns \in Seq([bytes : Seq(UnitType), open : BOOLEAN]) /\ e \in [bytes : Seq(UnitType), open : BOOLEAN]
  BY DEF PipeType
<1>3. /\ conns' \in Seq([bytes : Seq(UnitType), open : BOOLEAN])
      /\ Len(conns') = Len(conns)
      /\ \A j \in 1 .. Len(conns) : conns'[j] = IF j = Len(conns) THEN e ELSE conns[j]
  BY <1>1, <1>2, ExceptSeq
<1>4. conns'[Len(conns)] = e /\ e.bytes = b
  BY <1>1, <1>3
<1>5. conns' # << >>
  BY <1>1, <1>3, EmptySeq
<1>6. ASSUME NEW i \in 1 .. Len(conns), i # Len(conns)
      PROVE  Stream(i)' = Stream(i)
  <2>1. conns'[i] = conns[i]
    BY <1>3, <1>6
  <2>2. CASE i = 1
    BY <2>1, <2>2 DEF Stream
  <2>3. CASE i # 1
    BY <2>1, <2>3 DEF Stream
  <2> QED
    BY <2>2, <2>3
<1>7. Stream(Len(conns))' = IF Len(conns) = 1 THEN buf \o b ELSE b
  <2>1. conns'[Len(conns')] = e
    BY <1>3, <1>4
  <2>2. CASE Len(conns) = 1
    BY <1>3, <1>4, <2>1, <2>2 DEF Stream
  <2>3. CASE Len(conns) # 1
    BY <1>3, <1>4, <2>1, <2>3 DEF Stream
  <2> QED
    BY <2>2, <2>3
<1> QED
  BY <1>3, <1>4, <1>5, <1>6, <1>7

\* Bytes appended to the device's connection are appended to its stream.
LEMMA LastExtended ==
  ASSUME PipeType, conns # << >>, NEW u \in Seq(UnitType), NEW o \in BOOLEAN, buf' = buf,
         conns' = [conns EXCEPT ![Len(conns)] = [bytes |-> conns[Len(conns)].bytes \o u, open |-> o]]
  PROVE  /\ conns' \in Seq([bytes : Seq(UnitType), open : BOOLEAN])
         /\ Len(conns') = Len(conns) /\ conns' # << >>
         /\ conns'[Len(conns')].open = o
         /\ \A i \in 1 .. Len(conns) : i # Len(conns) => Stream(i)' = Stream(i)
         /\ Stream(Len(conns))' = Stream(Len(conns)) \o u
<1> DEFINE b == conns[Len(conns)].bytes
<1>1. b \in Seq(UnitType) /\ Len(conns) \in 1 .. Len(conns)
  BY LastConnection, StreamType
<1>2. b \o u \in Seq(UnitType) /\ buf \in Seq(UnitType)
  BY <1>1, ConcatProperties DEF PipeType
<1>3. /\ conns' \in Seq([bytes : Seq(UnitType), open : BOOLEAN])
      /\ Len(conns') = Len(conns) /\ conns' # << >>
      /\ conns'[Len(conns)] = [bytes |-> b \o u, open |-> o]
      /\ \A i \in 1 .. Len(conns) : i # Len(conns) => Stream(i)' = Stream(i)
      /\ Stream(Len(conns))' = IF Len(conns) = 1 THEN buf \o (b \o u) ELSE b \o u
  BY <1>2, LastReplaced
<1>4. Stream(Len(conns)) = IF Len(conns) = 1 THEN buf \o b ELSE b
  BY DEF Stream
<1> HIDE DEF b
<1>5. buf \o (b \o u) = (buf \o b) \o u
  BY <1>1, <1>2, Assoc
<1>6. Stream(Len(conns))' = Stream(Len(conns)) \o u
  BY <1>3, <1>4, <1>5
<1>7. conns'[Len(conns')].open = o
  <2>1. conns'[Len(conns')] = [bytes |-> b \o u, open |-> o]
    BY <1>3
  <2> QED
    BY <2>1
<1> QED
  BY <1>3, <1>6, <1>7

\* Bytes lost at the end of the device's connection are lost to its stream.
LEMMA LastCutShort ==
  ASSUME PipeType, conns # << >>, NEW n \in 0 .. Len(conns[Len(conns)].bytes), buf' = buf,
         conns' = [conns EXCEPT ![Len(conns)] =
                     [bytes |-> SubSeq(conns[Len(conns)].bytes, 1, n), open |-> FALSE]]
  PROVE  /\ conns' \in Seq([bytes : Seq(UnitType), open : BOOLEAN])
         /\ Len(conns') = Len(conns) /\ conns' # << >>
         /\ \A i \in 1 .. Len(conns) : i # Len(conns) => Stream(i)' = Stream(i)
         /\ Stream(Len(conns))' \in Seq(UnitType)
         /\ Len(Stream(Len(conns))') \in Nat /\ Len(Stream(Len(conns))) \in Nat
         /\ Len(Stream(Len(conns))') <= Len(Stream(Len(conns)))
         /\ \A k \in 1 .. Len(Stream(Len(conns))') : Stream(Len(conns))'[k] = Stream(Len(conns))[k]
<1> DEFINE b == conns[Len(conns)].bytes
           c == SubSeq(b, 1, n)
<1>1. b \in Seq(UnitType) /\ Len(b) \in Nat /\ Len(conns) \in 1 .. Len(conns)
  BY LastConnection, StreamType
<1>2. /\ c \in Seq(UnitType) /\ Len(c) = n /\ \A k \in 1 .. n : c[k] = b[k]
      /\ buf \in Seq(UnitType) /\ Len(buf) \in Nat
  BY <1>1, First, LenProperties DEF PipeType
<1>3. /\ conns' \in Seq([bytes : Seq(UnitType), open : BOOLEAN])
      /\ Len(conns') = Len(conns) /\ conns' # << >>
      /\ \A i \in 1 .. Len(conns) : i # Len(conns) => Stream(i)' = Stream(i)
      /\ Stream(Len(conns))' = IF Len(conns) = 1 THEN buf \o c ELSE c
  BY <1>2, LastReplaced
<1>4. Stream(Len(conns)) = IF Len(conns) = 1 THEN buf \o b ELSE b
  BY DEF Stream
<1> HIDE DEF b, c
<1>5. CASE Len(conns) = 1
  <2>1. /\ buf \o c \in Seq(UnitType) /\ Len(buf \o c) = Len(buf) + n
        /\ \A k \in 1 .. Len(buf) + n : (buf \o c)[k] = IF k <= Len(buf) THEN buf[k] ELSE c[k - Len(buf)]
    <3>1. /\ buf \o c \in Seq(UnitType) /\ Len(buf \o c) = Len(buf) + Len(c)
          /\ \A k \in 1 .. Len(buf) + Len(c) : (buf \o c)[k] = IF k <= Len(buf) THEN buf[k] ELSE c[k - Len(buf)]
      BY <1>2, ConcatProperties
    <3> QED
      BY <1>2, <3>1
  <2>2. /\ Len(buf \o b) = Len(buf) + Len(b)
        /\ \A k \in 1 .. Len(buf) + Len(b) : (buf \o b)[k] = IF k <= Len(buf) THEN buf[k] ELSE b[k - Len(buf)]
    BY <1>1, <1>2, ConcatProperties
  <2>3. n \in Nat /\ n <= Len(b)
    BY <1>1 DEF b
  <2>4. ASSUME NEW k \in 1 .. Len(buf) + n
        PROVE  (buf \o c)[k] = (buf \o b)[k]
    <3>1. k \in 1 .. Len(buf) + Len(b) /\ (~(k <= Len(buf)) => k - Len(buf) \in 1 .. n)
      BY <1>1, <1>2, <2>3
    <3> QED
      BY <1>2, <2>1, <2>2, <3>1
  <2>5. Stream(Len(conns))' = buf \o c /\ Stream(Len(conns)) = buf \o b
    BY <1>3, <1>4, <1>5
  <2>6. Len(buf \o c) \in Nat /\ Len(buf \o b) \in Nat /\ Len(buf \o c) <= Len(buf \o b)
    BY <1>1, <1>2, <2>1, <2>2, <2>3
  <2>7. \A k \in 1 .. Len(buf \o c) : (buf \o c)[k] = (buf \o b)[k]
    BY <2>1, <2>4
  <2> QED
    BY <1>3, <2>1, <2>5, <2>6, <2>7
<1>6. CASE Len(conns) # 1
  <2>1. Stream(Len(conns))' = c /\ Stream(Len(conns)) = b
    BY <1>3, <1>4, <1>6
  <2>2. n \in Nat /\ n <= Len(b)
    BY <1>1 DEF b
  <2>3. Len(c) \in Nat /\ Len(c) <= Len(b) /\ \A k \in 1 .. Len(c) : c[k] = b[k]
    BY <1>2, <2>2
  <2> QED
    BY <1>1, <1>2, <1>3, <2>1, <2>3
<1> QED
  BY <1>5, <1>6

-----------------------------------------------------------------------------
\* Another bytes field.
LEMMA OtherBytes ==
  ASSUME NEW S, NEW c \in [bytes : S, open : BOOLEAN], NEW r
  PROVE  [c EXCEPT !.bytes = r] = [bytes |-> r, open |-> c.open]
OBVIOUS

LEMMA InitPipe == PipeInit => PipeInv
<1> SUFFICES ASSUME PipeInit PROVE PipeInv
  OBVIOUS
<1>1. RingInv
  BY InitRingInv DEF PipeInit
<1>2. conns = << >> /\ buf = << >> /\ out = << >> /\ Len(conns) = 0 /\ DOMAIN out = {}
      /\ count = 0 /\ pc = "poll" /\ sent = 0 /\ client = FALSE
  BY EmptySeq, LenProperties DEF PipeInit, Init
<1>3. PipeType
  BY <1>2, EmptySeq DEF PipeType
<1>4. SlotsValid
  BY <1>2 DEF SlotsValid
<1>5. StreamsGood /\ StreamsOld /\ StreamsOrdered /\ DeviceStream
  BY <1>2 DEF StreamsGood, StreamsOld, StreamsOrdered, DeviceStream
<1>6. ArchiveOld /\ ArchiveGenuine /\ ArchiveOrdered
  BY <1>2 DEF ArchiveOld, ArchiveGenuine, ArchiveOrdered
<1>7. CompleteCounted
  <2>1. ArchivedSeqs = {} /\ Arriving = {}
    BY <1>2 DEF ArchivedSeqs, Arriving
  <2>2. Complete = {}
    BY <2>1 DEF Complete
  <2>3. Len(out) = 0
    BY <1>2
  <2>4. Counted = 0
    BY <1>2 DEF Counted
  <2> QED
    BY <2>1, <2>2, <2>3, <2>4, FS_EmptySet DEF CompleteCounted
<1> QED
  BY <1>1, <1>3, <1>4, <1>5, <1>6, <1>7 DEF PipeInv, WireInv

\* The pipeline's steps are steps of the exporter, or leave it alone.
LEMMA PipeStepIsStep == [PipeNext]_pipeVars => [Next]_vars
BY DEF PipeNext, pipeVars, Connected, send_slot, send_slot_failed, StopWithoutWifi, OtherTaskStep,
   ConnectionBreaks, Receive, parse_stream_buffer, EndOfStream, GiveUp, Next, Task, TaskWrite, vars

\* Steps that leave the connections and the collector alone.
LEMMA WireUntouched ==
  ASSUME RingInv, PipeType, WireInv, [Next]_vars,
         ~TaskWriteHeader, ~TaskWritePayload, ~TaskConnected, UNCHANGED <<conns, buf, out>>
  PROVE  PipeType' /\ WireInv'
<1>1. client' => client
  BY WithoutWrite DEF RingInv, TypeOK, CountType
<1>2. PipeType'
  BY <1>1 DEF PipeType
<1>3. Len(conns') = Len(conns) /\ \A i \in 1 .. Len(conns) : Stream(i)' = Stream(i)
  BY DEF Stream
<1> QED
  BY <1>2, <1>3, SameStreams

LEMMA CloseWire ==
  ASSUME RingInv, PipeType, WireInv, [Next]_vars, StopWithoutWifi, UNCHANGED <<buf, out>>
  PROVE  PipeType' /\ WireInv'
<1> DEFINE E == [bytes : Seq(UnitType), open : BOOLEAN]
<1>1. ~client' /\ ~TaskWriteHeader /\ ~TaskWritePayload /\ ~TaskConnected
  BY DEF StopWithoutWifi, TaskNoWifi, TaskWriteHeader, TaskWritePayload, TaskConnected
<1>2. Len(conns) \in Nat /\ DOMAIN conns = 1 .. Len(conns) /\ conns \in Seq(E)
  BY LenProperties DEF PipeType
<1>3. conns' = [i \in 1 .. Len(conns) |-> [conns[i] EXCEPT !.open = FALSE]]
  BY <1>2 DEF StopWithoutWifi, Close
<1>4. conns' \in [1 .. Len(conns) -> E] /\ \A i \in 1 .. Len(conns) : conns'[i].bytes = conns[i].bytes
  <2>1. \A i \in 1 .. Len(conns) : conns[i] \in E
    BY <1>2, ElementOfSeq
  <2> QED
    BY <1>3, <2>1
<1>5. conns' \in Seq(E) /\ Len(conns') = Len(conns)
  BY <1>2, <1>4, FunctionIsSequence
<1>6. conns' = << >> => conns = << >>
  BY <1>2, <1>5, EmptySeq
<1>7. PipeType'
  BY <1>1, <1>5, <1>6 DEF PipeType
<1>8. \A i \in 1 .. Len(conns) : Stream(i)' = Stream(i)
  BY <1>4, <1>5 DEF Stream
<1> QED
  BY <1>1, <1>5, <1>7, <1>8, SameStreams

\* recv moves the first bytes of the accepted connection to the end of buf.
LEMMA ReceiveWire ==
  ASSUME RingInv, PipeType, WireInv, [Next]_vars, Receive
  PROVE  PipeType' /\ WireInv'
<1> DEFINE E == [bytes : Seq(UnitType), open : BOOLEAN]
           b == conns[1].bytes
<1>1. PICK n \in 1 .. Len(b) :
        /\ conns' = [conns EXCEPT ![1].bytes = SubSeq(@, n + 1, Len(@))]
        /\ buf' = buf \o SubSeq(b, 1, n)
  BY DEF Receive
<1> DEFINE f == SubSeq(b, 1, n)
           r == SubSeq(b, n + 1, Len(b))
<1>2. conns # << >> /\ out' = out /\ vars' = vars
  BY DEF Receive
<1>3. 1 \in 1 .. Len(conns) /\ Len(conns) \in Nat
  BY <1>2, LastConnection
<1>4. conns \in Seq(E) /\ conns[1] \in E /\ b \in Seq(UnitType) /\ Len(b) \in Nat /\ buf \in Seq(UnitType)
  BY <1>3, StreamType DEF PipeType
<1>5. n \in 0 .. Len(b)
  BY <1>4
<1>6. f \in Seq(UnitType) /\ r \in Seq(UnitType)
  BY <1>4, <1>5, First, Rest
<1>7. f \o r = b
  <2>1. 1 \in 1 .. Len(b) + 1 /\ n \in 1 - 1 .. Len(b) /\ Len(b) \in n .. Len(b)
    BY <1>4, <1>5
  <2>2. SubSeq(b, 1, n) \o SubSeq(b, n + 1, Len(b)) = SubSeq(b, 1, Len(b))
    BY <1>4, <2>1, ConcatAdjacentSubSeq
  <2> QED
    BY <1>4, <2>2, SubSeqFull
<1>8. conns' = [conns EXCEPT ![1] = [bytes |-> r, open |-> conns[1].open]]
  <2>1. [conns[1] EXCEPT !.bytes = r] = [bytes |-> r, open |-> conns[1].open]
    BY <1>4, OtherBytes
  <2>2. conns' = [conns EXCEPT ![1] = [conns[1] EXCEPT !.bytes = r]]
    BY <1>1
  <2> QED
    BY <2>1, <2>2
<1>9. buf' = buf \o f
  BY <1>1
<1> HIDE DEF f, r, b
<1> DEFINE e == [bytes |-> r, open |-> conns[1].open]
<1>10. e \in E /\ e.bytes = r /\ e.open = conns[1].open
  BY <1>4, <1>6
<1>11. /\ conns' \in Seq(E) /\ Len(conns') = Len(conns)
       /\ \A j \in 1 .. Len(conns) : conns'[j] = IF j = 1 THEN e ELSE conns[j]
  BY <1>3, <1>4, <1>8, <1>10, ExceptSeq
<1>12. conns'[1].bytes = r /\ \A j \in 1 .. Len(conns) : conns'[j].open = conns[j].open
  BY <1>3, <1>10, <1>11
<1>13. \A i \in 1 .. Len(conns) : Stream(i)' = Stream(i)
  <2>1. Stream(1)' = (buf \o f) \o r
    BY <1>9, <1>12 DEF Stream
  <2>2. Stream(1) = buf \o (f \o r)
    BY <1>7 DEF Stream, b
  <2>3. (buf \o f) \o r = buf \o (f \o r)
    <3>1. buf \in Seq(UnitType) /\ f \in Seq(UnitType) /\ r \in Seq(UnitType)
      BY <1>4, <1>6
    <3> QED
      BY <3>1, Assoc
  <2>4. ASSUME NEW i \in 1 .. Len(conns), i # 1 PROVE Stream(i)' = Stream(i)
    BY <1>11, <2>4 DEF Stream
  <2> QED
    BY <2>1, <2>2, <2>3, <2>4
<1>14. PipeType'
  <2>1. buf' \in Seq(UnitType)
    BY <1>4, <1>6, <1>9, ConcatProperties
  <2>2. conns' # << >>
    BY <1>3, <1>11, EmptySeq
  <2>3. client' => conns' # << >> /\ conns'[Len(conns')].open
    <3>1. client' = client
      BY <1>2 DEF vars, net
    <3>2. Len(conns) \in 1 .. Len(conns) /\ conns'[Len(conns)].open = conns[Len(conns)].open
      BY <1>2, <1>12, LastConnection
    <3> QED
      BY <1>11, <2>2, <3>1, <3>2 DEF PipeType
  <2> QED
    BY <1>2, <1>11, <2>1, <2>2, <2>3 DEF PipeType
<1>15. ~TaskWriteHeader /\ ~TaskWritePayload /\ ~TaskConnected
  BY <1>2 DEF vars, TaskWriteHeader, TaskWritePayload, TaskConnected
<1> QED
  BY <1>2, <1>11, <1>13, <1>14, <1>15, SameStreams

\* client.connect succeeded: nothing is under way on the new connection yet.
LEMMA ConnectWire ==
  ASSUME RingInv, PipeType, WireInv, [Next]_vars, Connected, UNCHANGED <<buf, out>>
  PROVE  PipeType' /\ WireInv'
<1> DEFINE E == [bytes : Seq(UnitType), open : BOOLEAN]
           e == [bytes |-> << >>, open |-> TRUE]
<1>1. pc' = "pop" /\ ~TaskWriteHeader /\ ~TaskWritePayload /\ conns' = Append(conns, e)
  BY DEF Connected, TaskConnected, TaskWriteHeader, TaskWritePayload
<1>2. conns \in Seq(E) /\ Len(conns) \in Nat /\ buf \in Seq(UnitType) /\ << >> \in Seq(UnitType)
  BY LenProperties, EmptySeq DEF PipeType
<1>3. e \in E /\ e.open = TRUE /\ e.bytes = << >>
  BY <1>2
<1> HIDE DEF e, E
<1>4. /\ conns' \in Seq(E) /\ conns' # << >> /\ Len(conns') = Len(conns) + 1
      /\ \A i \in 1 .. Len(conns) : conns'[i] = conns[i]
      /\ conns'[Len(conns) + 1] = e
  BY <1>1, <1>2, <1>3, AppendProperties
<1>5. PICK N \in Nat : N = Len(conns) + 1
  BY <1>2
<1>6. /\ Len(conns') = N /\ conns'[N] = e /\ \A i \in 1 .. N - 1 : conns'[i] = conns[i]
      /\ Len(conns) = N - 1 /\ \A i \in 1 .. N : i \in 1 .. N - 1 \/ i = N
  BY <1>2, <1>4, <1>5
<1>7. PipeType'
  BY <1>3, <1>4, <1>6 DEF PipeType, E
<1>8. ASSUME NEW i \in 1 .. N - 1 PROVE Stream(i)' = Stream(i)
  BY <1>6 DEF Stream
<1>9. Stream(N)' = << >>
  <2>1. CASE N = 1
    <3>1. buf = << >>
      BY <1>2, <1>6, <2>1, EmptySeq DEF PipeType
    <3>2. Stream(N)' = << >> \o << >>
      BY <1>3, <1>6, <2>1, <3>1 DEF Stream
    <3> QED
      BY <1>2, <3>2, ConcatEmptySeq
  <2>2. CASE N # 1
    BY <1>3, <1>6, <2>2 DEF Stream
  <2> QED
    BY <2>1, <2>2
<1>10. \A i \in 1 .. Len(conns') : Good(Stream(i)')
  <2>1. \A i \in 1 .. N - 1 : Good(Stream(i))
    BY <1>6 DEF WireInv, StreamsGood
  <2> QED
    BY <1>6, <1>8, <1>9, <2>1, EmptyGood
<1>11. Len(<< >>) = 0 /\ ~(\E k \in Int : k \in 1 .. 0)
  BY EmptySeq
<1>12. \A i \in 1 .. Len(conns') : \A k \in 1 .. Len(Stream(i)') :
         /\ i + 0 \in 1 .. Len(conns)
         /\ \E l \in 1 .. Len(Stream(i + 0)) : Stream(i)'[k] = Stream(i + 0)[l]
  <2> SUFFICES ASSUME NEW i \in 1 .. N, NEW k \in 1 .. Len(Stream(i)')
               PROVE  /\ i + 0 \in 1 .. N - 1
                      /\ \E l \in 1 .. Len(Stream(i + 0)) : Stream(i)'[k] = Stream(i + 0)[l]
    BY <1>6
  <2>1. i # N
    BY <1>9, <1>11
  <2>2. i \in 1 .. N - 1 /\ i + 0 = i
    BY <1>6, <2>1
  <2> QED
    BY <1>8, <2>2
<1>13. DeviceStream'
  <2>1. Stream(Len(conns))' = << >>
    BY <1>6, <1>9
  <2>2. pc' # "payload" /\ ~(Len(<< >>) > 0)
    BY <1>1, <1>11
  <2> QED
    BY <2>1, <2>2 DEF DeviceStream
<1>14. Len(conns') \in Nat
  BY <1>6
<1> QED
  BY <1>1, <1>2, <1>7, <1>10, <1>12, <1>13, <1>14, WireKept

\* n units of a header or of a payload go out, all of them or the write fails.
LEMMA WriteWire ==
  ASSUME RingInv, PipeType, SlotsValid, WireInv, [Next]_vars, UNCHANGED <<buf, out, cur, seq>>,
         pc \in {"header", "payload"}, client, pc' # "header",
         NEW units, units = (IF pc = "header" THEN Header(cur) ELSE Payload(cur)),
         NEW n \in 0 .. Len(units), NEW o \in BOOLEAN,
         conns' = [conns EXCEPT ![Len(conns)] =
                     [bytes |-> conns[Len(conns)].bytes \o SubSeq(units, 1, n), open |-> o]],
         client' => /\ o = TRUE /\ n = Len(units)
                    /\ pc' = (IF pc = "header" THEN "payload" ELSE "sent"),
         Counted' = Counted + (IF pc = "payload" /\ n = Len(units) THEN 1 ELSE 0)
  PROVE  PipeType' /\ WireInv'
<1> PICK off : off = (IF pc = "header" THEN 0 ELSE HeaderUnits)
  OBVIOUS
<1> PICK u : u = SubSeq(units, 1, n)
  OBVIOUS
<1>1. cur \in Slot /\ cur.raw_len \in Nat /\ cur.raw_len > 0 /\ HeaderUnits = 2 /\ off \in Nat
  BY LengthAssumption DEF RingInv, TypeOK, RingType, Slot, SlotsValid, HeaderUnits
<1>2. /\ units \in Seq(UnitType)
      /\ Len(units) = IF pc = "header" THEN HeaderUnits ELSE cur.raw_len
      /\ \A k \in 1 .. Len(units) : units[k] = Unit(cur, off + k)
  <2>1. CASE pc = "header"
    <3>1. \A k \in 1 .. HeaderUnits : off + k = k
      BY <1>1, <2>1
    <3> QED
      BY <1>1, <2>1, <3>1, PacketUnits
  <2>2. CASE pc = "payload"
    BY <1>1, <2>2, PacketUnits
  <2> QED
    BY <2>1, <2>2
<1>3. n \in Nat /\ n <= Len(units) /\ Len(units) \in Nat
  BY <1>1, <1>2
<1>4. u \in Seq(UnitType) /\ Len(u) = n /\ \A k \in 1 .. n : u[k] = units[k]
  BY <1>2, First
<1>5. conns # << >> /\ Len(conns) \in Nat /\ Len(conns) >= 1
  BY LastConnection DEF PipeType
<1> PICK N \in Nat : N = Len(conns) /\ N >= 1 /\ N \in 1 .. N
  BY <1>5
<1> PICK w : w = Stream(N)
  OBVIOUS
<1> PICK v : v = Stream(N)'
  OBVIOUS
<1>6a. w \in Seq(UnitType) /\ Len(w) \in Nat
  BY StreamType
<1> PICK L \in Nat : L = Len(w)
  BY <1>6a
<1>6. w \in Seq(UnitType) /\ L \in Nat /\ Len(Stream(N)) = L
  BY <1>6a
<1>7. /\ conns' \in Seq([bytes : Seq(UnitType), open : BOOLEAN])
      /\ Len(conns') = N /\ conns' # << >> /\ conns'[Len(conns')].open = o
      /\ \A i \in 1 .. N : i # N => Stream(i)' = Stream(i)
      /\ v = w \o u
  BY <1>4, <1>5, LastExtended
<1>8. PipeType'
  BY <1>7 DEF PipeType
<1>9. /\ v \in Seq(UnitType) /\ Len(v) = L + n
      /\ \A k \in 1 .. L + n : v[k] = IF k <= L THEN w[k] ELSE u[k - L]
  BY <1>4, <1>6, <1>7, Concat
<1>10. \A k \in 1 .. L : v[k] = w[k]
  BY <1>3, <1>6, <1>9
<1>11. \A m \in 1 .. n : v[L + m] = Unit(cur, off + m)
  <2> SUFFICES ASSUME NEW m \in 1 .. n PROVE v[L + m] = Unit(cur, off + m)
    OBVIOUS
  <2>1. L + m \in 1 .. L + n /\ ~(L + m <= L) /\ (L + m) - L = m /\ m \in 1 .. Len(units)
    BY <1>3, <1>6
  <2>2. L + m \in 1 .. L + n
    BY <2>1
  <2>3. v[L + m] = u[(L + m) - L]
    BY <1>9, <2>1, <2>2
  <2> QED
    BY <1>2, <1>4, <2>1, <2>3
<1>12. off + n <= HeaderUnits + cur.raw_len
  BY <1>1, <1>2, <1>3
<1>13. Counted' = Counted + (IF off + n = HeaderUnits + cur.raw_len THEN 1 ELSE 0)
  <2>1. off + n = HeaderUnits + cur.raw_len <=> pc = "payload" /\ n = Len(units)
    BY <1>1, <1>2, <1>3
  <2> QED
    BY <2>1
<1>14. DeviceStream'
  <2> SUFFICES ASSUME client'
               PROVE  IF pc' = "payload" THEN Len(v) > 0 /\ v[Len(v)] = Unit(cur, HeaderUnits)
                      ELSE Len(v) > 0 => v[Len(v)].part = PacketLen(v[Len(v)])
    BY <1>7 DEF DeviceStream
  <2>1. n = Len(units) /\ pc' = (IF pc = "header" THEN "payload" ELSE "sent")
    OBVIOUS
  <2>2. n \in 1 .. n /\ Len(v) = L + n /\ Len(v) > 0
    BY <1>1, <1>2, <1>3, <1>6, <1>9, <2>1
  <2>3. v[Len(v)] = Unit(cur, off + n)
    BY <1>11, <2>2
  <2>4. CASE pc = "header"
    BY <1>1, <1>2, <2>1, <2>2, <2>3, <2>4
  <2>5. CASE pc = "payload"
    <3>1. off + n = HeaderUnits + cur.raw_len
      BY <1>1, <1>2, <2>1, <2>5
    <3> QED
      BY <2>1, <2>3, <2>5, <3>1 DEF Unit, PacketLen
  <2> QED
    BY <2>4, <2>5
<1>15. Written(N, off, n, L, v)
  <2>1. \A k \in 1 .. L : v[k] = Stream(N)[k]
    BY <1>10
  <2>2. off \in Nat /\ n \in Nat /\ L \in Nat /\ v \in Seq(UnitType) /\ Len(v) = L + n
        /\ Stream(N)' = v /\ Len(Stream(N)) = L /\ Len(conns') = N
        /\ \A i \in 1 .. N : i # N => Stream(i)' = Stream(i)
    BY <1>1, <1>3, <1>6, <1>7, <1>9
  <2> QED
    BY <1>11, <1>12, <1>13, <2>1, <2>2 DEF Written
<1> QED
  BY <1>8, <1>14, <1>15, WireWritten

LEMMA SendWire ==
  ASSUME RingInv, PipeType, SlotsValid, WireInv, [Next]_vars, send_slot, UNCHANGED <<buf, out>>
  PROVE  PipeType' /\ WireInv'
<1> DEFINE units == IF pc = "header" THEN Header(cur) ELSE Payload(cur)
<1>1. /\ pc \in {"header", "payload"} /\ client /\ UNCHANGED <<cur, seq, sent>>
      /\ pc' = (IF pc = "header" THEN "payload" ELSE "sent")
      /\ Write(units)
  BY DEF send_slot, TaskWriteHeader, TaskWritePayload, ring
<1>2. cur \in Slot /\ sent \in Nat
  BY DEF RingInv, TypeOK, RingType, CountType
<1>3. units \in Seq(UnitType)
  BY <1>2, PacketUnits
<1>4. Len(units) \in 0 .. Len(units) /\ SubSeq(units, 1, Len(units)) = units
  BY <1>3, LenProperties, SubSeqFull
<1>5. conns # << >> /\ Len(conns) \in 1 .. Len(conns) /\ conns[Len(conns)].open
      /\ conns[Len(conns)] \in [bytes : Seq(UnitType), open : BOOLEAN]
  BY <1>1, LastConnection, StreamType DEF PipeType
<1>6. conns' = [conns EXCEPT ![Len(conns)] =
                  [bytes |-> conns[Len(conns)].bytes \o SubSeq(units, 1, Len(units)), open |-> TRUE]]
  <2>1. [conns[Len(conns)] EXCEPT !.bytes = conns[Len(conns)].bytes \o units]
          = [bytes |-> conns[Len(conns)].bytes \o units, open |-> conns[Len(conns)].open]
    BY <1>5, OtherBytes
  <2>2. conns[Len(conns)].open = TRUE
    BY <1>5
  <2>3. conns' = [conns EXCEPT ![Len(conns)] =
                    [conns[Len(conns)] EXCEPT !.bytes = conns[Len(conns)].bytes \o units]]
    BY <1>1 DEF Write
  <2> QED
    BY <1>4, <2>1, <2>2, <2>3
<1>7. Counted' = Counted + (IF pc = "payload" /\ Len(units) = Len(units) THEN 1 ELSE 0)
  BY <1>1, <1>2 DEF Counted
<1>8. pc' # "header"
  BY <1>1
<1> HIDE DEF units
<1>9. units = (IF pc = "header" THEN Header(cur) ELSE Payload(cur))
  BY DEF units
<1> QED
  BY <1>1, <1>4, <1>6, <1>7, <1>8, <1>9, WriteWire

LEMMA SendFailedWire ==
  ASSUME RingInv, PipeType, SlotsValid, WireInv, [Next]_vars, send_slot_failed, UNCHANGED <<buf, out>>
  PROVE  PipeType' /\ WireInv'
<1> DEFINE units == IF pc = "header" THEN Header(cur) ELSE Payload(cur)
<1>1. /\ pc \in {"header", "payload"} /\ UNCHANGED <<cur, seq, sent>>
      /\ pc' = "poll" /\ ~client'
      /\ ~TaskWriteHeader /\ ~TaskWritePayload /\ ~TaskConnected
  BY DEF send_slot_failed, TaskWriteFailed, ring, TaskWriteHeader, TaskWritePayload, TaskConnected
<1>2. CASE ~client
  <2>1. UNCHANGED conns
    BY <1>2 DEF send_slot_failed
  <2> QED
    BY <1>1, <2>1, WireUntouched
<1>3. CASE client
  <2>1. PICK n \in 0 .. Len(units) - 1 :
          conns' = [conns EXCEPT ![Len(conns)] =
                      [bytes |-> @.bytes \o SubSeq(units, 1, n), open |-> FALSE]]
    BY <1>3 DEF send_slot_failed
  <2>2. cur \in Slot /\ sent \in Nat
    BY DEF RingInv, TypeOK, RingType, CountType
  <2>3. units \in Seq(UnitType)
    BY <2>2, PacketUnits
  <2>4. Len(units) \in Nat
    BY <2>3, LenProperties
  <2>5. n \in 0 .. Len(units) /\ n # Len(units)
    BY <2>4
  <2>6. conns' = [conns EXCEPT ![Len(conns)] =
                    [bytes |-> conns[Len(conns)].bytes \o SubSeq(units, 1, n), open |-> FALSE]]
    BY <2>1
  <2>7. Counted' = Counted
    BY <1>1, <2>2 DEF Counted
  <2>8. Counted' = Counted + (IF pc = "payload" /\ n = Len(units) THEN 1 ELSE 0)
    BY <2>2, <2>5, <2>7 DEF Counted
  <2>9. pc' # "header"
    BY <1>1
  <2> HIDE DEF units
  <2>10. units = (IF pc = "header" THEN Header(cur) ELSE Payload(cur))
    BY DEF units
  <2> QED
    BY <1>1, <1>3, <2>5, <2>6, <2>8, <2>9, <2>10, WriteWire
<1> QED
  BY <1>2, <1>3

\* The network closes the device's connection and swallows its last bytes.
LEMMA BreakWire ==
  ASSUME RingInv, PipeType, WireInv, [Next]_vars, ConnectionBreaks, UNCHANGED <<buf, out>>
  PROVE  PipeType' /\ WireInv'
<1>1. client /\ ~client' /\ ~TaskWriteHeader /\ ~TaskWritePayload /\ ~TaskConnected
  BY DEF ConnectionBreaks, PeerClose, TaskWriteHeader, TaskWritePayload, TaskConnected
<1>2. conns # << >> /\ Len(conns) \in Nat /\ Len(conns) \in 1 .. Len(conns)
  BY <1>1, LastConnection DEF PipeType
<1> PICK N \in Nat : N = Len(conns) /\ N \in 1 .. N
  BY <1>2
<1> PICK w : w = Stream(N)
  OBVIOUS
<1> PICK v : v = Stream(N)'
  OBVIOUS
<1>3. PICK n \in 0 .. Len(conns[Len(conns)].bytes) :
        conns' = [conns EXCEPT ![Len(conns)] =
                    [bytes |-> SubSeq(conns[Len(conns)].bytes, 1, n), open |-> FALSE]]
  BY DEF ConnectionBreaks
<1>4. /\ conns' \in Seq([bytes : Seq(UnitType), open : BOOLEAN])
      /\ Len(conns') = N /\ conns' # << >>
      /\ \A i \in 1 .. N : i # N => Stream(i)' = Stream(i)
      /\ v \in Seq(UnitType) /\ Len(v) \in Nat /\ Len(w) \in Nat /\ Len(v) <= Len(w)
      /\ \A k \in 1 .. Len(v) : v[k] = w[k]
  BY <1>2, <1>3, LastCutShort
<1>5. PipeType'
  BY <1>1, <1>4 DEF PipeType
<1>6. \A i \in 1 .. N : Good(Stream(i))
  BY DEF WireInv, StreamsGood
<1>7. Good(v)
  <2>1. Good(w)
    BY <1>2, <1>6
  <2> QED
    BY <1>4, <2>1, PrefixGood
<1>8. \A i \in 1 .. Len(conns') : Good(Stream(i)')
  BY <1>4, <1>6, <1>7
<1>9. ASSUME NEW i \in 1 .. Len(conns'), NEW k \in 1 .. Len(Stream(i)')
      PROVE  /\ i + 0 \in 1 .. Len(conns)
             /\ \E l \in 1 .. Len(Stream(i + 0)) : Stream(i)'[k] = Stream(i + 0)[l]
  <2>1. i + 0 = i /\ i \in 1 .. N
    BY <1>4
  <2>2. CASE i = N
    <3>1. k \in 1 .. Len(v) /\ k \in 1 .. Len(w)
      BY <1>4, <2>2
    <3>2. v[k] = w[k]
      BY <1>4, <3>1
    <3> QED
      BY <2>1, <2>2, <3>1, <3>2
  <2>3. CASE i # N
    <3>1. Stream(i)' = Stream(i)
      BY <1>4, <2>1, <2>3
    <3> QED
      BY <2>1, <3>1
  <2> QED
    BY <2>2, <2>3
<1>10. DeviceStream'
  BY <1>1 DEF DeviceStream
<1> QED
  BY <1>1, <1>2, <1>4, <1>5, <1>8, <1>9, <1>10, WireKept

\* The collector is done with a connection: the next one is accepted with an
\* empty buf, and the connection given up is not the one the device writes to.
LEMMA NextWire ==
  ASSUME RingInv, PipeType, WireInv, [Next]_vars, conns # << >>, NextConnection, UNCHANGED out,
         ~TaskWriteHeader, ~TaskWritePayload, ~TaskConnected,
         client' => Len(conns) # 1
  PROVE  PipeType' /\ WireInv'
<1> DEFINE E == [bytes : Seq(UnitType), open : BOOLEAN]
<1>1. /\ conns \in Seq(E) /\ Len(conns) \in Nat /\ Len(conns) >= 1
  BY LastConnection DEF PipeType
<1>2. conns' = Tail(conns) /\ buf' = << >> /\ out' = out
  BY DEF NextConnection
<1>3. conns' \in Seq(E) /\ Len(conns') = Len(conns) - 1
      /\ \A i \in 1 .. Len(conns') : conns'[i] = conns[i + 1]
  BY <1>1, <1>2, HeadTailProperties
<1>4. client' => client
  BY WithoutWrite DEF RingInv, TypeOK, CountType
<1>5. client' => conns' # << >> /\ conns'[Len(conns')].open
  <2> SUFFICES ASSUME client' PROVE conns' # << >> /\ conns'[Len(conns')].open
    OBVIOUS
  <2>1. conns[Len(conns)].open
    BY <1>4 DEF PipeType
  <2>2. Len(conns') \in 1 .. Len(conns') /\ Len(conns') + 1 = Len(conns) /\ Len(conns') # 0
    BY <1>1, <1>3
  <2>3. conns'[Len(conns')] = conns[Len(conns)]
    BY <1>3, <2>2
  <2> QED
    BY <2>1, <2>2, <2>3, EmptySeq
<1>6. PipeType'
  BY <1>2, <1>3, <1>5, EmptySeq DEF PipeType
<1>7. ASSUME NEW i \in 1 .. Len(conns')
      PROVE  i + 1 \in 1 .. Len(conns) /\ Stream(i)' = Stream(i + 1)
  <2>1. i + 1 \in 1 .. Len(conns) /\ i + 1 # 1 /\ conns'[i] = conns[i + 1]
    BY <1>1, <1>3
  <2>2. Stream(i + 1) = conns[i + 1].bytes /\ conns[i + 1].bytes \in Seq(UnitType)
    BY <2>1, StreamType DEF Stream
  <2>3. CASE i = 1
    <3>1. Stream(i)' = << >> \o conns[i + 1].bytes
      BY <1>2, <2>1, <2>3 DEF Stream
    <3> QED
      BY <2>1, <2>2, <3>1, ConcatEmptySeq
  <2>4. CASE i # 1
    BY <2>1, <2>2, <2>4 DEF Stream
  <2> QED
    BY <2>1, <2>3, <2>4
<1>8. \A i \in 1 .. Len(conns') : Good(Stream(i)')
  <2>1. \A i \in 1 .. Len(conns) : Good(Stream(i))
    BY DEF WireInv, StreamsGood
  <2> QED
    BY <1>7, <2>1
<1>9. \A i \in 1 .. Len(conns') : \A k \in 1 .. Len(Stream(i)') :
         /\ i + 1 \in 1 .. Len(conns)
         /\ \E l \in 1 .. Len(Stream(i + 1)) : Stream(i)'[k] = Stream(i + 1)[l]
  BY <1>7
<1>10. client' => Stream(Len(conns))' = Stream(Len(conns))
  <2> SUFFICES ASSUME client' PROVE Stream(Len(conns))' = Stream(Len(conns))
    OBVIOUS
  <2> PICK m \in Nat : m = Len(conns')
    BY <1>1, <1>3
  <2>1. m \in 1 .. Len(conns') /\ m + 1 = Len(conns)
    BY <1>1, <1>3
  <2> QED
    BY <1>7, <2>1
<1>11. DeviceStream'
  BY <1>10, DeviceKept DEF WireInv
<1>12. Len(conns') \in Nat
  BY <1>1, <1>3
<1> QED
  BY <1>1, <1>2, <1>6, <1>8, <1>9, <1>11, <1>12, WireKept

LEMMA EndWire ==
  ASSUME RingInv, PipeType, WireInv, [Next]_vars, EndOfStream
  PROVE  PipeType' /\ WireInv'
<1>1. conns # << >> /\ ~conns[1].open /\ NextConnection /\ UNCHANGED <<vars, out>>
  BY DEF EndOfStream
<1>2. ~TaskWriteHeader /\ ~TaskWritePayload /\ ~TaskConnected /\ client' = client
  BY <1>1 DEF vars, net, TaskWriteHeader, TaskWritePayload, TaskConnected
<1>3. client => Len(conns) # 1
  BY <1>1 DEF PipeType
<1> QED
  BY <1>1, <1>2, <1>3, NextWire

LEMMA GiveUpWire ==
  ASSUME RingInv, PipeType, WireInv, [Next]_vars, GiveUp
  PROVE  PipeType' /\ WireInv'
<1>1. conns # << >> /\ NextConnection /\ UNCHANGED out
  BY DEF GiveUp
<1>2. ~TaskWriteHeader /\ ~TaskWritePayload /\ ~TaskConnected
  BY DEF GiveUp, PeerClose, vars, TaskWriteHeader, TaskWritePayload, TaskConnected
<1>3. client' => Len(conns) # 1
  BY DEF GiveUp, PeerClose, vars, net
<1> QED
  BY <1>1, <1>2, <1>3, NextWire

\* Every step keeps the inductive invariant.
LEMMA PipeInvStep == PipeInv /\ [PipeNext]_pipeVars => PipeInv'
<1> SUFFICES ASSUME PipeInv, [PipeNext]_pipeVars PROVE PipeInv'
  OBVIOUS
<1>1. [Next]_vars
  BY PipeStepIsStep
<1>2. RingInv /\ PipeType /\ SlotsValid /\ WireInv
  BY DEF PipeInv
<1>3. RingInv' /\ SlotsValid'
  BY <1>1, <1>2, RingInvStep, SlotsValidStep
<1>4. CASE (raw_frame_streamer_enqueue \/ WifiChange) /\ UNCHANGED <<conns, buf, out>>
  <2>1. ~TaskWriteHeader /\ ~TaskWritePayload /\ ~TaskConnected
    BY <1>4 DEF raw_frame_streamer_enqueue, WifiChange, TaskWriteHeader, TaskWritePayload, TaskConnected
  <2> QED
    BY <1>1, <1>2, <1>3, <1>4, <2>1, WireUntouched DEF PipeInv
<1>5. CASE Connected /\ UNCHANGED <<buf, out>>
  BY <1>1, <1>2, <1>3, <1>5, ConnectWire DEF PipeInv
<1>6. CASE send_slot /\ UNCHANGED <<buf, out>>
  BY <1>1, <1>2, <1>3, <1>6, SendWire DEF PipeInv
<1>7. CASE send_slot_failed /\ UNCHANGED <<buf, out>>
  BY <1>1, <1>2, <1>3, <1>7, SendFailedWire DEF PipeInv
<1>8. CASE StopWithoutWifi /\ UNCHANGED <<buf, out>>
  BY <1>1, <1>2, <1>3, <1>8, CloseWire DEF PipeInv
<1>9. CASE OtherTaskStep /\ UNCHANGED <<buf, out>>
  <2>1. ~TaskWriteHeader /\ ~TaskWritePayload /\ ~TaskConnected
    BY <1>9 DEF OtherTaskStep, TaskThrottled, TaskAttempt, TaskConnectFailed, TaskReady, TaskPop,
       TaskIdle, TaskCount, TaskWriteHeader, TaskWritePayload, TaskConnected
  <2>2. UNCHANGED <<conns, buf, out>>
    BY <1>9 DEF OtherTaskStep
  <2> QED
    BY <1>1, <1>2, <1>3, <2>1, <2>2, WireUntouched DEF PipeInv
<1>10. CASE ConnectionBreaks /\ UNCHANGED <<buf, out>>
  BY <1>1, <1>2, <1>3, <1>10, BreakWire DEF PipeInv
<1>11. CASE Receive
  BY <1>1, <1>2, <1>3, <1>11, ReceiveWire DEF PipeInv
<1>12. CASE parse_stream_buffer
  BY <1>1, <1>2, <1>3, <1>12, WireCut DEF PipeInv
<1>13. CASE EndOfStream
  BY <1>1, <1>2, <1>3, <1>13, EndWire DEF PipeInv
<1>14. CASE GiveUp
  BY <1>1, <1>2, <1>3, <1>14, GiveUpWire DEF PipeInv
<1>15. CASE UNCHANGED pipeVars
  <2>1. UNCHANGED <<conns, buf, out>> /\ UNCHANGED vars
    BY <1>15 DEF pipeVars
  <2>2. ~TaskWriteHeader /\ ~TaskWritePayload /\ ~TaskConnected
    BY <2>1 DEF vars, TaskWriteHeader, TaskWritePayload, TaskConnected
  <2> QED
    BY <1>1, <1>2, <1>3, <2>1, <2>2, WireUntouched DEF PipeInv
<1> QED
  BY <1>4, <1>5, <1>6, <1>7, <1>8, <1>9, <1>10, <1>11, <1>12, <1>13, <1>14, <1>15 DEF PipeNext

LEMMA PipeInvAlways == PipeSpec => []PipeInv
BY InitPipe, PipeInvStep, PTL DEF PipeSpec

\* The exporter keeps its specification when its writes go over connections that
\* break and a collector that hangs up: what is proved of Spec holds here.
THEOREM PipelineIsExporter == PipeSpec => Spec
<1>1. PipeInit => Init
  BY DEF PipeInit
<1> QED
  BY <1>1, PipeStepIsStep, PTL DEF PipeSpec, Spec

\* The collector never cuts a packet out of the bytes of two records, although
\* writes stop anywhere and connections lose their last bytes: what it archives
\* is the header and the payload of one captured frame.
THEOREM ArchiveGenuineAlways == PipeSpec => []ArchiveGenuine
<1>1. PipeInv => ArchiveGenuine
  BY DEF PipeInv, WireInv
<1> QED
  BY <1>1, PipeInvAlways, PTL

\* Records are archived in capture order and none twice.
THEOREM ArchiveOrderedAlways == PipeSpec => []ArchiveOrdered
<1>1. PipeInv => ArchiveOrdered
  BY DEF PipeInv, WireInv
<1> QED
  BY <1>1, PipeInvAlways, PTL

\* sent_frames of /api/status is never behind the archive by more than the record
\* whose last write has just returned.
THEOREM SentCoversArchiveAlways == PipeSpec => []SentCoversArchive
<1>1. PipeInv => SentCoversArchive
  <2> SUFFICES ASSUME PipeInv PROVE SentCoversArchive
    OBVIOUS
  <2>1. IsFiniteSet(Complete) /\ Cardinality(Complete) <= Counted /\ Cardinality(ArchivedSeqs) = Len(out)
    BY DEF PipeInv, WireInv, CompleteCounted
  <2>2. ArchivedSeqs \subseteq Complete
    BY DEF Complete
  <2>3. IsFiniteSet(ArchivedSeqs) /\ Cardinality(ArchivedSeqs) <= Cardinality(Complete)
    BY <2>1, <2>2, FS_Subset
  <2>4. Cardinality(ArchivedSeqs) \in Nat /\ Cardinality(Complete) \in Nat
    BY <2>1, <2>3, FS_CardinalityType
  <2>5. Counted \in Nat
    BY DEF Counted, PipeInv, RingInv, TypeOK, CountType
  <2>6. Len(out) <= Counted
    BY <2>1, <2>3, <2>4, <2>5
  <2> QED
    BY <2>6 DEF SentCoversArchive, Counted
<1> QED
  BY <1>1, PipeInvAlways, PTL

\* Whatever is lost, the collector finds the start of a record at the start of its
\* buffer: the search for the next magic is never needed with this exporter.
THEOREM NeverOutOfStepAlways == PipeSpec => []NeverOutOfStep
<1>1. PipeInv => NeverOutOfStep
  BY BufBeginsRecord DEF PipeInv, WireInv, NeverOutOfStep
<1> QED
  BY <1>1, PipeInvAlways, PTL
=============================================================================
