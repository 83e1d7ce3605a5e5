------------------------- MODULE ModbusSnifferProofs -------------------------
(***************************************************************************)
(* Theorems about ModbusSniffer for every set of slaves, windows and       *)
(* registers, every size of the tables and all bounds.                     *)
(***************************************************************************)
EXTENDS ModbusSniffer, WellFoundedInduction, TLAPS

-----------------------------------------------------------------------------
(***************************************************************************)
(* The inductive invariant.                                                *)
(***************************************************************************)
Frame ==
    [id : Nat, kind : {"request"}, slave : Slave, start : Nat, count : Nat]
    \cup [id : Nat, kind : {"response"}, slave : Slave, of : Nat, start : Nat, count : Nat]
    \cup [id : Nat, kind : {"h41"}, slave : Slave, list : List, words : UNION {[DOMAIN l -> Nat] : l \in List},
          rest : BOOLEAN]
    \cup [id : Nat, kind : {"exception"}, slave : Slave]

Unit == Frame \X {1, 2}

Entry == [valid : BOOLEAN, slave : Slave \cup {NoAsk}, what : [start : Nat, count : Nat] \cup List \cup {<<>>},
          at : Nat, id : Nat]

BusType ==
    /\ sent \in Nat
    /\ ask = NoAsk \/ (ask \in Frame /\ ask.id = sent /\ ask.kind \in {"request", "h41"})
    /\ uart \in Seq(Unit) /\ rx \in Seq(Unit) /\ silent \in BOOLEAN

TableType ==
    /\ DOMAIN pending = Table
    /\ \A t \in Table : pending[t] \in [Slot(t) -> Entry]
    /\ pending = [t \in Table |-> pending[t]]

ClockType ==
    /\ now \in Nat
    /\ scan \in [step : Nat, now : Nat, expired : BOOLEAN]
    /\ fed \in Int \X Nat
    /\ latest \in [id : Nat, at : Nat, robbed : BOOLEAN]

\* The units between the bus and the decoder, in the order of the bus: none of
\* an earlier frame, and none behind a later one of its own frame.
Before(u, w) == u[1].id < w[1].id \/ (u[1] = w[1] /\ u[2] < w[2])

Waiting(u, done, carried) == done < u[1].id /\ u[1].id <= carried /\ u[2] <= Len(Units(u[1]))

InOrder ==
    /\ \A i \in 1 .. Len(rx) : Waiting(rx[i], fed[2], sent)
    /\ \A i, j \in 1 .. Len(rx) : i < j => Before(rx[i], rx[j])
    /\ \A i \in 1 .. Len(uart) : Waiting(uart[i], fed[2], sent)
    /\ \A i, j \in 1 .. Len(uart) : i < j => Before(uart[i], uart[j])
    /\ \A i \in 1 .. Len(rx) : \A j \in 1 .. Len(uart) : Before(rx[i], uart[j])
    /\ fed[1] < fed[2] /\ fed[2] <= sent

\* Who asked whom for what: the master's request, requests and responses under
\* way, and the pending requests agree. A response follows its request at once.
OnBus == (IF ask = NoAsk THEN {} ELSE {ask})
         \cup {rx[i][1] : i \in 1 .. Len(rx)} \cup {uart[i][1] : i \in 1 .. Len(uart)}

Pending == {i \in Slot("reg") : pending["reg"][i].valid}
PendingId(i) == pending["reg"][i].id
PendingAt(i) == pending["reg"][i].at

Asks == {<<f.id, f.slave, f.start>> : f \in {h \in OnBus : h.kind = "request"}}
        \cup {<<f.of, f.slave, f.start>> : f \in {h \in OnBus : h.kind = "response"}}
        \cup {<<PendingId(i), pending["reg"][i].slave, pending["reg"][i].what.start>> : i \in Pending}

Agreed ==
    /\ \A a \in Asks : a[1] \in 1 .. sent
    /\ \A a, b \in Asks : a[1] = b[1] => a = b
    /\ \A f \in OnBus : f.kind = "response" => f.id = f.of + 1

\* Of two pending requests the later one has the later time, since a frame gap
\* lies between any two frames that are decoded.
Ordered ==
    /\ \A i \in Pending : PendingId(i) <= fed[2] /\ (silent => PendingAt(i) < now)
    /\ \A i, j \in Pending : i # j => PendingId(i) # PendingId(j)
    /\ \A i, j \in Pending : PendingId(i) < PendingId(j) => PendingAt(i) < PendingAt(j)

\* The newest request stays pending until the frame after it is decoded.
LatestKept ==
    /\ latest.id <= fed[2] /\ latest.at <= now
    /\ \/ latest.id < fed[2] \/ latest.id = 0
       \/ latest.robbed \/ now - latest.at > Timeout
       \/ \E i \in Pending : PendingId(i) = latest.id
    /\ \A i \in Pending : PendingId(i) = latest.id => PendingAt(i) = latest.at

ScanOnSlot == scan.expired => scan.step > 0

Types == BusType /\ TableType /\ ClockType /\ TypeOK

SnifferInv == Types /\ InOrder /\ Agreed /\ Ordered /\ LatestKept /\ ScanOnSlot /\ OwnWindow /\ MissingExplained

-----------------------------------------------------------------------------
(***************************************************************************)
(* Frames and the units they are cut into.                                 *)
(***************************************************************************)
LEMMA UnitsOf ==
  ASSUME NEW f \in Frame
  PROVE  /\ Units(f) \in Seq(Unit) /\ Len(Units(f)) \in {1, 2}
         /\ \A p \in 1 .. Len(Units(f)) : Units(f)[p] = <<f, p>>
         /\ Units(f)[1][1] = f
<1>1. <<f, 1>> \in Unit /\ <<f, 2>> \in Unit
  BY DEF Unit
<1>2. Units(f) = << <<f, 1>> >> \/ Units(f) = << <<f, 1>>, <<f, 2>> >>
  BY DEF Units
<1>3. CASE Units(f) = << <<f, 1>> >>
  BY <1>1, <1>3
<1>4. CASE Units(f) = << <<f, 1>>, <<f, 2>> >>
  BY <1>1, <1>4
<1> QED
  BY <1>2, <1>3, <1>4

\* What the bus may carry next.
LEMMA NewFrames ==
  ASSUME BusType
  PROVE  /\ \A s \in Slave, w \in Window : Request(sent + 1, s, w) \in Frame
         /\ \A s \in Slave, l \in List : ListRequest(sent + 1, s, l) \in Frame
<1>1. sent + 1 \in Nat
  BY DEF BusType
<1>2. ASSUME NEW s \in Slave, NEW w \in Window
      PROVE  Request(sent + 1, s, w) \in Frame
  BY <1>1, MapAssumption DEF Request, Frame
<1>3. ASSUME NEW s \in Slave, NEW l \in List
      PROVE  ListRequest(sent + 1, s, l) \in Frame
  <2>1. [i \in DOMAIN l |-> 0] \in UNION {[DOMAIN m -> Nat] : m \in List}
    <3>1. [i \in DOMAIN l |-> 0] \in [DOMAIN l -> Nat]
      OBVIOUS
    <3> QED
      BY <3>1
  <2> QED
    BY <1>1, <2>1 DEF ListRequest, Frame
<1> QED
  BY <1>2, <1>3

LEMMA AnswerFrames ==
  ASSUME BusType, ask # NoAsk
  PROVE  /\ ask \in Frame /\ ask.slave \in Slave /\ ask.id = sent
         /\ ask.kind = "request" =>
              [id |-> sent + 1, kind |-> "response", slave |-> ask.slave, of |-> ask.id,
               start |-> ask.start, count |-> ask.count] \in Frame
         /\ ask.kind = "h41" => \A bad \in BOOLEAN :
              [id |-> sent + 1, kind |-> "h41", slave |-> ask.slave, list |-> ask.list, rest |-> bad,
               words |-> [i \in DOMAIN ask.list |->
                            IF bad /\ i = Len(ask.list) THEN 0 ELSE ask.list[i].count]] \in Frame
         /\ [id |-> sent + 1, kind |-> "exception", slave |-> ask.slave] \in Frame
<1>1. ask \in Frame /\ ask.id = sent /\ ask.slave \in Slave /\ sent + 1 \in Nat
  BY DEF BusType, Frame
<1>2. ask.kind = "request" => ask.start \in Nat /\ ask.count \in Nat
  BY <1>1 DEF Frame
<1>3. ASSUME ask.kind = "h41", NEW bad \in BOOLEAN
      PROVE  /\ ask.list \in List
             /\ [i \in DOMAIN ask.list |-> IF bad /\ i = Len(ask.list) THEN 0 ELSE ask.list[i].count]
                  \in UNION {[DOMAIN m -> Nat] : m \in List}
  <2>1. ask.list \in List
    BY <1>1, <1>3 DEF Frame
  <2>2. ask.list \in Seq([start : Nat, count : Nat])
    BY <2>1, MapAssumption
  <2>3. \A i \in DOMAIN ask.list : ask.list[i].count \in Nat
    <3> DEFINE R == [start : Nat, count : Nat]
    <3>1. \A w \in R : w.count \in Nat
      OBVIOUS
    <3> HIDE DEF R
    <3>2. ask.list \in Seq(R)
      BY <2>2 DEF R
    <3>3. \A i \in DOMAIN ask.list : ask.list[i] \in R
      BY <3>2
    <3> QED
      BY <3>1, <3>3
  <2>4. [i \in DOMAIN ask.list |-> IF bad /\ i = Len(ask.list) THEN 0 ELSE ask.list[i].count] \in [DOMAIN ask.list -> Nat]
    BY <2>3
  <2> QED
    BY <2>1, <2>4
<1>4. ask.kind = "request" =>
              [id |-> sent + 1, kind |-> "response", slave |-> ask.slave, of |-> ask.id,
               start |-> ask.start, count |-> ask.count] \in Frame
  BY <1>1, <1>2 DEF Frame
<1>5. ASSUME ask.kind = "h41", NEW bad \in BOOLEAN
      PROVE  [id |-> sent + 1, kind |-> "h41", slave |-> ask.slave, list |-> ask.list, rest |-> bad,
               words |-> [i \in DOMAIN ask.list |->
                            IF bad /\ i = Len(ask.list) THEN 0 ELSE ask.list[i].count]] \in Frame
  BY <1>1, <1>3, <1>5 DEF Frame
<1>6. [id |-> sent + 1, kind |-> "exception", slave |-> ask.slave] \in Frame
  BY <1>1 DEF Frame
<1> QED
  BY <1>1, <1>4, <1>5, <1>6

-----------------------------------------------------------------------------
(***************************************************************************)
(* The bus.                                                                *)
(***************************************************************************)

\* The units of a frame follow those that wait, in order.
LEMMA CarryUnits ==
  ASSUME uart \in Seq(Unit), NEW f \in Frame, uart' = uart \o Units(f)
  PROVE  /\ uart' \in Seq(Unit)
         /\ \A k \in 1 .. Len(uart') :
              \/ k \in 1 .. Len(uart) /\ uart'[k] = uart[k]
              \/ \E p \in 1 .. Len(Units(f)) : k = Len(uart) + p /\ uart'[k] = <<f, p>>
<1>1. Units(f) \in Seq(Unit) /\ Len(Units(f)) \in Nat /\ Len(uart) \in Nat
  BY UnitsOf
<1>2. uart' \in Seq(Unit) /\ Len(uart') = Len(uart) + Len(Units(f))
  BY <1>1
<1>3. ASSUME NEW k \in 1 .. Len(uart'), k > Len(uart)
      PROVE  \E p \in 1 .. Len(Units(f)) : k = Len(uart) + p /\ uart'[k] = <<f, p>>
  <2>1. k - Len(uart) \in 1 .. Len(Units(f)) /\ k = Len(uart) + (k - Len(uart))
    BY <1>1, <1>2, <1>3
  <2>2. uart'[k] = Units(f)[k - Len(uart)]
    BY <1>1, <1>2, <1>3
  <2> QED
    BY <2>1, <2>2, UnitsOf
<1>4. ASSUME NEW k \in 1 .. Len(uart'), k <= Len(uart)
      PROVE  k \in 1 .. Len(uart) /\ uart'[k] = uart[k]
  BY <1>1, <1>2, <1>4
<1>5. \A k \in 1 .. Len(uart') : k > Len(uart) \/ k <= Len(uart)
  BY <1>1, <1>2
<1> QED
  BY <1>2, <1>3, <1>4, <1>5

\* Nothing that waits is about a frame the bus has not carried.
LEMMA CarryOrder ==
  ASSUME BusType, ClockType, InOrder, NEW f \in Frame, f.id = sent + 1, Carry(f)
  PROVE  InOrder'
<1>1. uart' = uart \o Units(f) /\ sent' = sent + 1 /\ UNCHANGED <<rx, fed>>
  BY DEF Carry, decoder
<1>2. /\ uart \in Seq(Unit) /\ rx \in Seq(Unit) /\ sent \in Nat /\ fed[1] \in Int /\ fed[2] \in Nat
      /\ \A i \in 1 .. Len(rx) : rx[i] \in Unit
      /\ \A i \in 1 .. Len(uart) : uart[i] \in Unit
  BY DEF BusType, ClockType
<1>3. \A u \in Unit : u[1].id \in Nat /\ u[2] \in Nat
  BY DEF Unit, Frame
<1>4. \A p \in 1 .. Len(Units(f)) : <<f, p>>[1] = f /\ <<f, p>>[2] = p
  OBVIOUS
<1>5. \A u \in Unit : Waiting(u, fed[2], sent) => Waiting(u, fed'[2], sent')
  BY <1>1, <1>2, <1>3 DEF Waiting
<1>6. \A u \in Unit : Waiting(u, fed[2], sent) => \A p \in 1 .. Len(Units(f)) : Before(u, <<f, p>>)
  BY <1>2, <1>3 DEF Waiting, Before
<1>7. \A p \in 1 .. Len(Units(f)) : Waiting(<<f, p>>, fed'[2], sent')
  BY <1>1, <1>2, UnitsOf DEF Waiting, InOrder
<1>8. \A i \in 1 .. Len(rx) : Waiting(rx[i], fed'[2], sent')
  BY <1>2, <1>5 DEF InOrder
<1>9. ASSUME NEW k \in 1 .. Len(uart')
      PROVE  Waiting(uart'[k], fed'[2], sent')
  <2>1. CASE k \in 1 .. Len(uart) /\ uart'[k] = uart[k]
    BY <2>1, <1>2, <1>5 DEF InOrder
  <2>2. CASE \E p \in 1 .. Len(Units(f)) : k = Len(uart) + p /\ uart'[k] = <<f, p>>
    BY <2>2, <1>7
  <2> QED
    BY <1>1, <1>2, <2>1, <2>2, CarryUnits
<1>10. ASSUME NEW i \in 1 .. Len(uart'), NEW j \in 1 .. Len(uart'), i < j
       PROVE  Before(uart'[i], uart'[j])
  <2>1. CASE j \in 1 .. Len(uart) /\ uart'[j] = uart[j]
    <3>1. i \in 1 .. Len(uart)
      BY <1>2, <1>10, <2>1
    <3>2. uart'[i] = uart[i]
      BY <1>1, <1>2, <3>1, CarryUnits
    <3> QED
      BY <1>10, <2>1, <3>1, <3>2 DEF InOrder
  <2>2. CASE \E p \in 1 .. Len(Units(f)) : j = Len(uart) + p /\ uart'[j] = <<f, p>>
    <3>1. PICK p \in 1 .. Len(Units(f)) : j = Len(uart) + p /\ uart'[j] = <<f, p>>
      BY <2>2
    <3>2. CASE i \in 1 .. Len(uart) /\ uart'[i] = uart[i]
      BY <1>2, <1>6, <3>1, <3>2 DEF InOrder
    <3>3. CASE \E q \in 1 .. Len(Units(f)) : i = Len(uart) + q /\ uart'[i] = <<f, q>>
      <4>1. PICK q \in 1 .. Len(Units(f)) : i = Len(uart) + q /\ uart'[i] = <<f, q>>
        BY <3>3
      <4>2. q < p
        BY <1>2, <1>10, <3>1, <4>1
      <4> QED
        BY <3>1, <4>1, <4>2 DEF Before
    <3> QED
      BY <1>1, <1>2, <3>2, <3>3, CarryUnits
  <2> QED
    BY <1>1, <1>2, <2>1, <2>2, CarryUnits
<1>11. ASSUME NEW i \in 1 .. Len(rx), NEW j \in 1 .. Len(uart')
       PROVE  Before(rx[i], uart'[j])
  <2>1. CASE j \in 1 .. Len(uart) /\ uart'[j] = uart[j]
    BY <2>1 DEF InOrder
  <2>2. CASE \E p \in 1 .. Len(Units(f)) : j = Len(uart) + p /\ uart'[j] = <<f, p>>
    BY <1>2, <1>6, <2>2 DEF InOrder
  <2> QED
    BY <1>1, <1>2, <2>1, <2>2, CarryUnits
<1>12. fed'[1] < fed'[2] /\ fed'[2] <= sent'
  BY <1>1, <1>2 DEF InOrder
<1>13. rx' = rx /\ \A i, j \in 1 .. Len(rx) : i < j => Before(rx[i], rx[j])
  BY <1>1 DEF InOrder
<1> QED
  BY <1>8, <1>9, <1>10, <1>11, <1>12, <1>13 DEF InOrder, Before, Waiting

LEMMA FrameId == \A f \in Frame : f.id \in Nat /\ f.kind \in {"request", "response", "h41", "exception"}
BY DEF Frame

\* What waits is a frame.
LEMMA OnBusFrames ==
  ASSUME BusType
  PROVE  OnBus \subseteq Frame
<1>1. \A i \in 1 .. Len(rx) : rx[i] \in Unit
  BY DEF BusType
<1>2. \A i \in 1 .. Len(uart) : uart[i] \in Unit
  BY DEF BusType
<1>3. ask # NoAsk => ask \in Frame
  BY DEF BusType
<1> QED
  BY <1>1, <1>2, <1>3 DEF OnBus, Unit

\* A new frame is the only new one, and only a request says anything new.
LEMMA CarryAgreed ==
  ASSUME BusType, Agreed, NEW f \in Frame, f.id = sent + 1, Carry(f), ask' = NoAsk \/ ask' = f,
         f.kind = "response" => /\ ask # NoAsk /\ ask.kind = "request" /\ ask.id = sent
                                /\ f.of = ask.id /\ f.slave = ask.slave /\ f.start = ask.start
  PROVE  Agreed'
<1> DEFINE new == <<f.id, f.slave, f.start>>
<1>1. uart' = uart \o Units(f) /\ sent' = sent + 1 /\ UNCHANGED <<rx, pending>> /\ uart \in Seq(Unit) /\ sent \in Nat
  BY DEF Carry, decoder, BusType
<1>2. ASSUME NEW k \in 1 .. Len(uart')
      PROVE  uart'[k][1] \in OnBus \cup {f}
  <2>1. CASE k \in 1 .. Len(uart) /\ uart'[k] = uart[k]
    BY <2>1 DEF OnBus
  <2>2. CASE \E p \in 1 .. Len(Units(f)) : k = Len(uart) + p /\ uart'[k] = <<f, p>>
    BY <2>2
  <2> QED
    BY <1>1, <2>1, <2>2, CarryUnits
<1>3. OnBus' \subseteq OnBus \cup {f}
  <2>1. OnBus' = (IF ask' = NoAsk THEN {} ELSE {ask'})
                 \cup {rx[i][1] : i \in 1 .. Len(rx)} \cup {uart'[k][1] : k \in 1 .. Len(uart')}
    BY <1>1 DEF OnBus
  <2>2. {rx[i][1] : i \in 1 .. Len(rx)} \subseteq OnBus
    BY DEF OnBus
  <2>3. {uart'[k][1] : k \in 1 .. Len(uart')} \subseteq OnBus \cup {f}
    BY <1>2
  <2>4. (IF ask' = NoAsk THEN {} ELSE {ask'}) \subseteq {f}
    OBVIOUS
  <2> QED
    BY <2>1, <2>2, <2>3, <2>4
<1>4. Pending' = Pending /\ \A i \in Pending :
        <<PendingId(i), pending["reg"][i].slave, pending["reg"][i].what.start>>' =
        <<PendingId(i), pending["reg"][i].slave, pending["reg"][i].what.start>>
  BY <1>1 DEF Pending, PendingId
<1>5. f.kind = "response" => <<f.of, f.slave, f.start>> \in Asks
  BY DEF Asks, OnBus
<1>6. \A a \in Asks' : a \in Asks \/ (f.kind = "request" /\ a = new)
  BY <1>1, <1>3, <1>4, <1>5 DEF Asks, Pending, PendingId
<1>7. \A a \in Asks' : a[1] \in 1 .. sent'
  BY <1>1, <1>6 DEF Agreed
<1>8. ASSUME NEW a \in Asks', NEW b \in Asks', a[1] = b[1]
      PROVE  a = b
  <2>1. \A c \in Asks : c[1] # new[1]
    BY <1>1 DEF Agreed
  <2> QED
    BY <1>6, <1>8, <2>1 DEF Agreed
<1>9. \A h \in OnBus' : h.kind = "response" => h.id = h.of + 1
  BY <1>1, <1>3 DEF Agreed
<1> QED
  BY <1>7, <1>8, <1>9 DEF Agreed

\* Nothing was decoded, so nothing was decoded wrongly.
LEMMA NothingWrong ==
  ASSUME NoDecode
  PROVE  OwnWindow' /\ MissingExplained'
BY DEF NoDecode, NothingDecoded, OwnWindow, MissingExplained

LEMMA CarryStep ==
  ASSUME SnifferInv, NEW f \in Frame, f.id = sent + 1, Carry(f),
         ask' = NoAsk \/ (ask' = f /\ f.kind \in {"request", "h41"}),
         f.kind = "response" => /\ ask # NoAsk /\ ask.kind = "request" /\ ask.id = sent
                                /\ f.of = ask.id /\ f.slave = ask.slave /\ f.start = ask.start
  PROVE  SnifferInv'
<1>1. BusType /\ TableType /\ ClockType /\ TypeOK /\ InOrder /\ Agreed /\ Ordered /\ LatestKept /\ ScanOnSlot
  BY DEF SnifferInv, Types
<1>2. /\ uart' = uart \o Units(f) /\ sent' = sent + 1
      /\ UNCHANGED <<rx, silent, now, scan, pending, seen, fed, latest>>
      /\ NoDecode
  BY DEF Carry, decoder
<1>3. BusType'
  BY <1>1, <1>2, CarryUnits DEF BusType
<1>4. TableType' /\ ClockType' /\ TypeOK' /\ ScanOnSlot'
  BY <1>1, <1>2 DEF TableType, ClockType, TypeOK, ScanOnSlot
<1>5. InOrder' /\ Agreed'
  BY <1>1, CarryOrder, CarryAgreed
<1>6. Ordered' /\ LatestKept'
  BY <1>1, <1>2 DEF Ordered, LatestKept, Pending, PendingId, PendingAt
<1> QED
  BY <1>2, <1>3, <1>4, <1>5, <1>6, NothingWrong DEF SnifferInv, Types

\* The master asks, and a slave answers or refuses.
LEMMA BusStep ==
  ASSUME SnifferInv, MasterAsks \/ SlaveAnswers \/ SlaveRefuses
  PROVE  SnifferInv'
<1>1. BusType
  BY DEF SnifferInv, Types
<1>2. CASE MasterAsks
  <2>1. CASE \E s \in Slave, w \in Window : Carry(Request(sent + 1, s, w)) /\ ask' = Request(sent + 1, s, w)
    <3>1. PICK s \in Slave, w \in Window : Carry(Request(sent + 1, s, w)) /\ ask' = Request(sent + 1, s, w)
      BY <2>1
    <3>2. Request(sent + 1, s, w) \in Frame
      BY <1>1, NewFrames
    <3>3. Request(sent + 1, s, w).id = sent + 1 /\ Request(sent + 1, s, w).kind = "request"
      BY DEF Request
    <3> QED
      BY <3>1, <3>2, <3>3, CarryStep
  <2>2. CASE \E s \in Slave, l \in List : Carry(ListRequest(sent + 1, s, l)) /\ ask' = ListRequest(sent + 1, s, l)
    <3>1. PICK s \in Slave, l \in List : Carry(ListRequest(sent + 1, s, l)) /\ ask' = ListRequest(sent + 1, s, l)
      BY <2>2
    <3>2. ListRequest(sent + 1, s, l) \in Frame
      BY <1>1, NewFrames
    <3>3. ListRequest(sent + 1, s, l).id = sent + 1 /\ ListRequest(sent + 1, s, l).kind = "h41"
      BY DEF ListRequest
    <3> QED
      BY <3>1, <3>2, <3>3, CarryStep
  <2> QED
    BY <1>2, <2>1, <2>2 DEF MasterAsks
<1>3. CASE SlaveAnswers
  <2>1. ask # NoAsk /\ ask' = NoAsk
    BY <1>3 DEF SlaveAnswers
  <2>2. CASE ask.kind = "request"
    <3> DEFINE f == [id |-> sent + 1, kind |-> "response", slave |-> ask.slave, of |-> ask.id,
                     start |-> ask.start, count |-> ask.count]
    <3>1. f \in Frame /\ ask.id = sent
      BY <1>1, <2>1, <2>2, AnswerFrames
    <3>2. Carry(f)
      BY <1>3, <2>2 DEF SlaveAnswers
    <3>3. f.id = sent + 1 /\ f.kind = "response" /\ f.of = ask.id /\ f.slave = ask.slave /\ f.start = ask.start
      OBVIOUS
    <3> HIDE DEF f
    <3> QED
      BY <2>1, <2>2, <3>1, <3>2, <3>3, CarryStep
  <2>3. CASE ask.kind = "h41"
    <3>1. PICK bad \in BOOLEAN :
            Carry([id |-> sent + 1, kind |-> "h41", slave |-> ask.slave, list |-> ask.list, rest |-> bad,
                   words |-> [i \in DOMAIN ask.list |->
                                IF bad /\ i = Len(ask.list) THEN 0 ELSE ask.list[i].count]])
      BY <1>3, <2>3 DEF SlaveAnswers
    <3> DEFINE f == [id |-> sent + 1, kind |-> "h41", slave |-> ask.slave, list |-> ask.list, rest |-> bad,
                     words |-> [i \in DOMAIN ask.list |->
                                  IF bad /\ i = Len(ask.list) THEN 0 ELSE ask.list[i].count]]
    <3>2. f \in Frame
      BY <1>1, <2>1, <2>3, AnswerFrames
    <3>3. f.id = sent + 1 /\ f.kind = "h41"
      OBVIOUS
    <3>4. Carry(f)
      BY <3>1
    <3> HIDE DEF f
    <3> QED
      BY <2>1, <3>2, <3>3, <3>4, CarryStep
  <2> QED
    BY <1>3, <2>2, <2>3 DEF SlaveAnswers
<1>4. CASE SlaveRefuses
  <2> DEFINE f == [id |-> sent + 1, kind |-> "exception", slave |-> ask.slave]
  <2>1. Carry(f) /\ ask # NoAsk /\ ask' = NoAsk
    BY <1>4 DEF SlaveRefuses
  <2>2. f \in Frame
    BY <1>1, <2>1, AnswerFrames
  <2>3. f.id = sent + 1 /\ f.kind = "exception"
    OBVIOUS
  <2> HIDE DEF f
  <2> QED
    BY <2>1, <2>2, <2>3, CarryStep
<1> QED
  BY <1>2, <1>3, <1>4

-----------------------------------------------------------------------------
(***************************************************************************)
(* Time, and the loop task's expiry.                                       *)
(***************************************************************************)

\* What is said on the bus and in the table of requests can only be forgotten.
\* No request or response arises, and every pending entry was asked for before.
LEMMA AsksKept ==
  ASSUME OnBus' \subseteq OnBus,
         \A i \in Pending' : <<PendingId(i)', pending'["reg"][i].slave, pending'["reg"][i].what.start>> \in Asks
  PROVE  Asks' \subseteq Asks
<1> SUFFICES ASSUME NEW a \in Asks' PROVE a \in Asks
  OBVIOUS
<1>1. \/ \E h \in OnBus' : h.kind = "request" /\ a = <<h.id, h.slave, h.start>>
      \/ \E h \in OnBus' : h.kind = "response" /\ a = <<h.of, h.slave, h.start>>
      \/ \E i \in Pending' : a = <<PendingId(i)', pending'["reg"][i].slave, pending'["reg"][i].what.start>>
  BY DEF Asks
<1>2. CASE \E h \in OnBus' : h.kind = "request" /\ a = <<h.id, h.slave, h.start>>
  BY <1>2 DEF Asks
<1>3. CASE \E h \in OnBus' : h.kind = "response" /\ a = <<h.of, h.slave, h.start>>
  BY <1>3 DEF Asks
<1>4. CASE \E i \in Pending' : a = <<PendingId(i)', pending'["reg"][i].slave, pending'["reg"][i].what.start>>
  BY <1>4
<1> QED
  BY <1>1, <1>2, <1>3, <1>4

LEMMA AgreedKept ==
  ASSUME Agreed, sent' = sent, OnBus' \subseteq OnBus,
         \A i \in Pending' : i \in Pending /\ pending'["reg"][i] = pending["reg"][i]
  PROVE  Agreed'
<1>1. \A i \in Pending' : <<PendingId(i)', pending'["reg"][i].slave, pending'["reg"][i].what.start>> \in Asks
  BY DEF Asks, PendingId
<1>2. Asks' \subseteq Asks
  BY <1>1, AsksKept
<1> QED
  BY <1>2 DEF Agreed

LEMMA OrderedKept ==
  ASSUME Ordered, UNCHANGED <<fed, now>>, silent' => silent,
         \A i \in Pending' : i \in Pending /\ pending'["reg"][i] = pending["reg"][i]
  PROVE  Ordered'
<1>1. \A i \in Pending' : i \in Pending /\ PendingId(i)' = PendingId(i) /\ PendingAt(i)' = PendingAt(i)
  BY DEF PendingId, PendingAt
<1> QED
  BY <1>1 DEF Ordered

LEMMA PassStep ==
  ASSUME SnifferInv, Pass
  PROVE  SnifferInv'
<1>1. BusType /\ TableType /\ ClockType /\ TypeOK /\ InOrder /\ Agreed /\ Ordered /\ LatestKept /\ ScanOnSlot
  BY DEF SnifferInv, Types
<1>2. /\ now' = now + 1 /\ silent' = (rx # <<>>)
      /\ UNCHANGED <<sent, ask, uart, rx, scan, pending, seen, fed, latest>>
      /\ NoDecode
  BY DEF Pass, bus, decoder
<1>3. BusType' /\ TableType' /\ InOrder' /\ ScanOnSlot'
  BY <1>1, <1>2 DEF BusType, TableType, InOrder, ScanOnSlot
<1>4. now \in Nat /\ scan.now \in Nat /\ latest.at \in Nat
  BY <1>1 DEF ClockType
<1>5. ClockType'
  BY <1>1, <1>2 DEF ClockType
<1>6. TypeOK'
  <2>1. \A t \in Table : \A i \in Slot(t) : pending[t][i].at \in 0 .. now'
    BY <1>1, <1>2, <1>4 DEF TypeOK
  <2>2. scan.now \in 0 .. now'
    BY <1>1, <1>2, <1>4 DEF TypeOK
  <2> QED
    BY <1>1, <1>2, <2>1, <2>2 DEF TypeOK
<1>7. Agreed'
  <2>1. OnBus' = OnBus /\ Pending' = Pending
    BY <1>2 DEF OnBus, Pending
  <2> QED
    BY <1>1, <1>2, <2>1, AgreedKept
<1>8. Pending' = Pending /\ \A i \in Pending : PendingId(i)' = PendingId(i) /\ PendingAt(i)' = PendingAt(i)
  BY <1>2 DEF Pending, PendingId, PendingAt
<1>9. \A i \in Pending : PendingAt(i) <= now /\ PendingAt(i) \in Nat
  BY <1>1 DEF TypeOK, Pending, PendingAt, Table
<1>10. Ordered'
  BY <1>1, <1>2, <1>4, <1>8, <1>9 DEF Ordered
<1>11. LatestKept'
  BY <1>1, <1>2, <1>4, <1>8, SnifferAssumption DEF LatestKept
<1> QED
  BY <1>2, <1>3, <1>5, <1>6, <1>7, <1>10, <1>11, NothingWrong DEF SnifferInv, Types

\* A slot that is released is free, and the others are as they were.
LEMMA Released ==
  ASSUME TableType, ClockType, \A t \in Table : \A i \in Slot(t) : pending[t][i].at \in 0 .. now,
         NEW t \in Table, NEW i, Release(t, i)
  PROVE  /\ TableType'
         /\ \A u \in Table : \A j \in Slot(u) : pending'[u][j].at \in 0 .. now
         /\ \A j \in Pending' : j \in Pending /\ pending'["reg"][j] = pending["reg"][j]
         /\ \A j \in Pending \ Pending' : t = "reg" /\ j = i
<1>1. pending' = [pending EXCEPT ![t] = [pending[t] EXCEPT ![i] = NoEntry]]
  BY DEF Release
<1>2. NoEntry \in Entry /\ NoEntry.at = 0 /\ ~NoEntry.valid
  BY DEF NoEntry, Entry
<1>3. pending[t] \in [Slot(t) -> Entry]
  BY DEF TableType
<1>4. [pending[t] EXCEPT ![i] = NoEntry] \in [Slot(t) -> Entry]
  BY <1>2, <1>3
<1>5. pending'[t] = [pending[t] EXCEPT ![i] = NoEntry] /\ \A u \in Table \ {t} : pending'[u] = pending[u]
  BY <1>1 DEF TableType
<1>6. TableType'
  <2>1. DOMAIN pending' = Table /\ pending' = [u \in Table |-> pending'[u]]
    BY <1>1 DEF TableType
  <2>2. \A u \in Table : pending'[u] \in [Slot(u) -> Entry]
    BY <1>4, <1>5 DEF TableType
  <2> QED
    BY <2>1, <2>2 DEF TableType
<1>7. \A j \in Slot(t) : pending'[t][j] = IF j = i THEN NoEntry ELSE pending[t][j]
  BY <1>3, <1>5
<1>8. \A u \in Table : \A j \in Slot(u) : pending'[u][j].at \in 0 .. now
  <2>1. 0 \in 0 .. now
    BY DEF ClockType
  <2>2. \A j \in Slot(t) : pending'[t][j].at \in 0 .. now
    BY <1>2, <1>7, <2>1
  <2> QED
    BY <1>5, <2>2
<1>9. \A j \in Pending' : j \in Pending /\ pending'["reg"][j] = pending["reg"][j]
  BY <1>2, <1>5, <1>7 DEF Pending, Table
<1>10. \A j \in Pending \ Pending' : t = "reg" /\ j = i
  BY <1>5, <1>7 DEF Pending, Table
<1> QED
  BY <1>6, <1>8, <1>9, <1>10

\* The scan visits slots that exist.
LEMMA ScannedSlot ==
  ASSUME NEW step \in 1 .. Slots
  PROVE  At(step)[1] \in Table /\ At(step)[2] \in Slot(At(step)[1])
<1>1. MAX_PENDING_REQUESTS \in Nat /\ MAX_PENDING_H41_REQUESTS \in Nat
  BY SnifferAssumption
<1>2. CASE step <= MAX_PENDING_REQUESTS
  BY <1>1, <1>2 DEF At, Table, Slot
<1>3. CASE step > MAX_PENDING_REQUESTS
  <2>1. step - MAX_PENDING_REQUESTS \in 1 .. MAX_PENDING_H41_REQUESTS
    BY <1>1, <1>3 DEF Slots
  <2> QED
    BY <1>1, <1>3, <2>1 DEF At, Table, Slot
<1> QED
  BY <1>1, <1>2, <1>3

LEMMA NextStepType ==
  ASSUME ClockType, TypeOK, ScanOnSlot
  PROVE  /\ NextStep \in [step : Nat, now : Nat, expired : BOOLEAN]
         /\ NextStep.step \in 0 .. Slots /\ NextStep.now \in 0 .. now /\ ~NextStep.expired
<1>1. Slots \in Nat /\ scan \in [step : Nat, now : Nat, expired : BOOLEAN] /\ now \in Nat
  BY SnifferAssumption DEF ClockType, Slots
<1>2. scan.step \in 0 .. Slots /\ scan.now \in 0 .. now
  BY DEF TypeOK
<1>3. CASE scan.step = Slots
  BY <1>1, <1>3 DEF NextStep, NotScanning
<1>4. CASE scan.step # Slots
  <2>1. NextStep = [step |-> scan.step + 1, now |-> scan.now, expired |-> FALSE]
    BY <1>1, <1>4 DEF NextStep
  <2> QED
    BY <1>1, <1>2, <1>4, <2>1
<1> QED
  BY <1>3, <1>4

\* The scan that starts or goes on changes nothing else.
LEMMA ScanStep ==
  ASSUME SnifferInv, ExpireStart \/ ExpireCheck
  PROVE  SnifferInv'
<1>1. BusType /\ TableType /\ ClockType /\ TypeOK /\ InOrder /\ Agreed /\ Ordered /\ LatestKept /\ ScanOnSlot
  BY DEF SnifferInv, Types
<1>2. UNCHANGED <<sent, ask, uart, rx, silent, now, pending, seen, fed, latest>> /\ NoDecode
  BY DEF ExpireStart, ExpireCheck, bus, rxVars, decoder
<1>3. BusType' /\ TableType' /\ InOrder' /\ Ordered' /\ LatestKept'
  BY <1>1, <1>2 DEF BusType, TableType, InOrder, Ordered, LatestKept, Pending, PendingId, PendingAt
<1>4. Agreed'
  <2>1. OnBus' = OnBus /\ Pending' = Pending
    BY <1>2 DEF OnBus, Pending
  <2> QED
    BY <1>1, <1>2, <2>1, AgreedKept
<1>5. /\ scan' \in [step : Nat, now : Nat, expired : BOOLEAN]
      /\ scan'.step \in 0 .. Slots /\ scan'.now \in 0 .. now /\ (scan'.expired => scan'.step > 0)
  <2>1. CASE ExpireStart
    <3>1. scan' = [step |-> 1, now |-> now, expired |-> FALSE] /\ now \in Nat
      BY <1>1, <2>1 DEF ExpireStart, ClockType
    <3>2. 1 \in 0 .. Slots
      BY SnifferAssumption DEF Slots
    <3> QED
      BY <3>1, <3>2
  <2>2. CASE ExpireCheck
    <3>1. scan' = [scan EXCEPT !.expired = TRUE] \/ scan' = NextStep
      BY <2>2 DEF ExpireCheck
    <3>2. CASE scan' = [scan EXCEPT !.expired = TRUE]
      <4>1. scan.step > 0
        BY <2>2 DEF ExpireCheck
      <4> QED
        BY <1>1, <3>2, <4>1 DEF ClockType, TypeOK
    <3>3. CASE scan' = NextStep
      BY <1>1, <3>3, NextStepType
    <3> QED
      BY <3>1, <3>2, <3>3
  <2> QED
    BY <2>1, <2>2
<1>6. ClockType' /\ TypeOK' /\ ScanOnSlot'
  BY <1>1, <1>2, <1>5 DEF ClockType, TypeOK, ScanOnSlot
<1> QED
  BY <1>2, <1>3, <1>4, <1>6, NothingWrong DEF SnifferInv, Types

\* An expired request is forgotten; if it is the newest, that is on record.
LEMMA ClearStep ==
  ASSUME SnifferInv, ExpireClear
  PROVE  SnifferInv'
<1> DEFINE t == At(scan.step)[1]
           k == At(scan.step)[2]
           e == Scanned(scan.step)
<1>1. BusType /\ TableType /\ ClockType /\ TypeOK /\ InOrder /\ Agreed /\ Ordered /\ LatestKept /\ ScanOnSlot
  BY DEF SnifferInv, Types
<1>2. UNCHANGED <<sent, ask, uart, rx, silent, now, seen, fed>> /\ NoDecode /\ scan' = NextStep /\ Release(t, k)
  BY DEF ExpireClear, bus, rxVars
<1>3. latest' = [latest EXCEPT !.robbed = @ \/ (e.valid /\ e.id = latest.id /\ now - e.at <= Timeout)]
  BY DEF ExpireClear
<1>4. t \in Table /\ k \in Slot(t)
  <2>1. scan.step \in 1 .. Slots
    BY <1>1, SnifferAssumption DEF ExpireClear, ScanOnSlot, TypeOK, Slots
  <2> QED
    BY <2>1, ScannedSlot
<1>5. e = pending[t][k]
  BY DEF Scanned
<1>6. e \in Entry
  BY <1>1, <1>4, <1>5 DEF TableType
<1> HIDE DEF t, k, e
<1>7. /\ TableType'
      /\ \A u \in Table : \A j \in Slot(u) : pending'[u][j].at \in 0 .. now
      /\ \A j \in Pending' : j \in Pending /\ pending'["reg"][j] = pending["reg"][j]
      /\ \A j \in Pending \ Pending' : t = "reg" /\ j = k
  BY <1>1, <1>2, <1>4, Released DEF TypeOK
<1>8. /\ latest'.id = latest.id /\ latest'.at = latest.at /\ latest' \in [id : Nat, at : Nat, robbed : BOOLEAN]
      /\ latest.robbed => latest'.robbed
      /\ e.valid /\ e.id = latest.id /\ now - e.at <= Timeout => latest'.robbed
  BY <1>1, <1>3, <1>6 DEF ClockType, Entry
<1>9. BusType' /\ InOrder'
  BY <1>1, <1>2 DEF BusType, InOrder
<1>10. ClockType' /\ TypeOK' /\ ScanOnSlot'
  BY <1>1, <1>2, <1>7, <1>8, NextStepType DEF ClockType, TypeOK, ScanOnSlot
<1>11. Agreed' /\ Ordered'
  <2>1. OnBus' = OnBus
    BY <1>2 DEF OnBus
  <2> QED
    BY <1>1, <1>2, <1>7, <2>1, AgreedKept, OrderedKept
<1>12. LatestKept'
  <2>1. \A i \in Pending' : i \in Pending /\ PendingId(i)' = PendingId(i) /\ PendingAt(i)' = PendingAt(i)
    BY <1>7 DEF PendingId, PendingAt
  <2>2. \/ latest.id < fed[2] \/ latest.id = 0
        \/ latest'.robbed \/ now - latest.at > Timeout
        \/ \E i \in Pending' : PendingId(i)' = latest.id
    <3>1. CASE \E i \in Pending : PendingId(i) = latest.id
      <4>1. PICK i \in Pending : PendingId(i) = latest.id
        BY <3>1
      <4>2. CASE i \in Pending'
        BY <2>1, <4>1, <4>2
      <4>3. CASE i \notin Pending'
        <5>1. t = "reg" /\ i = k
          BY <1>7, <4>3
        <5>2. e.valid /\ e.id = latest.id /\ e.at = latest.at
          BY <1>1, <1>5, <4>1, <5>1 DEF Pending, PendingId, PendingAt, LatestKept
        <5>3. now - e.at <= Timeout \/ now - latest.at > Timeout
          BY <1>1, <5>2, SnifferAssumption DEF ClockType
        <5> QED
          BY <1>8, <5>2, <5>3
      <4> QED
        BY <4>2, <4>3
    <3> QED
      BY <1>1, <1>8, <3>1 DEF LatestKept
  <2> QED
    BY <1>1, <1>2, <1>8, <2>1, <2>2 DEF LatestKept
<1> QED
  BY <1>2, <1>7, <1>9, <1>10, <1>11, <1>12, NothingWrong DEF SnifferInv, Types

-----------------------------------------------------------------------------
(***************************************************************************)
(* Reading from the driver.                                                *)
(***************************************************************************)

\* The sniffer task moves the first unit over; what it held before stays in
\* front of it or is dropped.
LEMMA Shifted ==
  ASSUME BusType, uart # <<>>, uart' = Tail(uart), rx' = <<Head(uart)>> \/ rx' = Append(rx, Head(uart))
  PROVE  /\ uart' \in Seq(Unit) /\ rx' \in Seq(Unit)
         /\ \A k \in 1 .. Len(uart') : k + 1 \in 1 .. Len(uart) /\ k + 1 > 1 /\ uart'[k] = uart[k + 1]
         /\ 1 \in 1 .. Len(uart)
         /\ \A k \in 1 .. Len(rx') : \/ k \in 1 .. Len(rx) /\ rx'[k] = rx[k]
                                     \/ k = Len(rx') /\ rx'[k] = uart[1]
<1>1. uart \in Seq(Unit) /\ rx \in Seq(Unit) /\ Len(uart) \in Nat /\ Len(rx) \in Nat
  BY DEF BusType
<1>2. Head(uart) = uart[1] /\ 1 \in 1 .. Len(uart) /\ uart[1] \in Unit
  BY <1>1
<1>3. /\ uart' \in Seq(Unit)
      /\ \A k \in 1 .. Len(uart') : k + 1 \in 1 .. Len(uart) /\ k + 1 > 1 /\ uart'[k] = uart[k + 1]
  BY <1>1
<1>4. CASE rx' = <<Head(uart)>>
  <2>1. rx' = <<uart[1]>> /\ rx' \in Seq(Unit)
    BY <1>2, <1>4
  <2>2. \A k \in 1 .. Len(rx') : k = Len(rx') /\ rx'[k] = uart[1]
    BY <2>1
  <2> QED
    BY <1>2, <1>3, <2>1, <2>2
<1>5. CASE rx' = Append(rx, Head(uart))
  <2>1. rx' \in Seq(Unit) /\ Len(rx') = Len(rx) + 1 /\ rx'[Len(rx) + 1] = uart[1]
    BY <1>1, <1>2, <1>5
  <2>2. \A k \in 1 .. Len(rx) : rx'[k] = rx[k]
    BY <1>1, <1>2, <1>5
  <2>3. \A k \in 1 .. Len(rx') : k \in 1 .. Len(rx) \/ k = Len(rx')
    BY <1>1, <2>1
  <2> QED
    BY <1>2, <1>3, <2>1, <2>2, <2>3
<1> QED
  BY <1>4, <1>5

\* The order among the units that wait, whatever has been decoded.
Queue ==
    /\ \A i, j \in 1 .. Len(rx) : i < j => Before(rx[i], rx[j])
    /\ \A i, j \in 1 .. Len(uart) : i < j => Before(uart[i], uart[j])
    /\ \A i \in 1 .. Len(rx) : \A j \in 1 .. Len(uart) : Before(rx[i], uart[j])

LEMMA ShiftedQueue ==
  ASSUME BusType, Queue, uart # <<>>, uart' = Tail(uart), rx' = <<Head(uart)>> \/ rx' = Append(rx, Head(uart))
  PROVE  Queue' /\ OnBus' \subseteq OnBus \cup {ask'}
<1>1. /\ uart' \in Seq(Unit) /\ rx' \in Seq(Unit)
      /\ \A k \in 1 .. Len(uart') : k + 1 \in 1 .. Len(uart) /\ k + 1 > 1 /\ uart'[k] = uart[k + 1]
      /\ 1 \in 1 .. Len(uart)
      /\ \A k \in 1 .. Len(rx') : \/ k \in 1 .. Len(rx) /\ rx'[k] = rx[k]
                                  \/ k = Len(rx') /\ rx'[k] = uart[1]
  BY Shifted
<1>2. ASSUME NEW i \in 1 .. Len(rx'), NEW j \in 1 .. Len(rx'), i < j
      PROVE  Before(rx'[i], rx'[j])
  <2>1. i # Len(rx')
    BY <1>1, <1>2
  <2>2. i \in 1 .. Len(rx) /\ rx'[i] = rx[i]
    BY <1>1, <2>1
  <2>3. CASE j \in 1 .. Len(rx) /\ rx'[j] = rx[j]
    BY <1>2, <2>2, <2>3 DEF Queue
  <2>4. CASE rx'[j] = uart[1]
    BY <1>1, <2>2, <2>4 DEF Queue
  <2> QED
    BY <1>1, <2>3, <2>4
<1>3. ASSUME NEW i \in 1 .. Len(uart'), NEW j \in 1 .. Len(uart'), i < j
      PROVE  Before(uart'[i], uart'[j])
  <2>1. i + 1 \in 1 .. Len(uart) /\ j + 1 \in 1 .. Len(uart) /\ i + 1 < j + 1
    BY <1>1, <1>3
  <2> QED
    BY <1>1, <2>1 DEF Queue
<1>4. ASSUME NEW i \in 1 .. Len(rx'), NEW j \in 1 .. Len(uart')
      PROVE  Before(rx'[i], uart'[j])
  <2>1. j + 1 \in 1 .. Len(uart) /\ 1 < j + 1 /\ uart'[j] = uart[j + 1]
    BY <1>1
  <2>2. CASE i \in 1 .. Len(rx) /\ rx'[i] = rx[i]
    BY <2>1, <2>2 DEF Queue
  <2>3. CASE rx'[i] = uart[1]
    BY <1>1, <2>1, <2>3 DEF Queue
  <2> QED
    BY <1>1, <2>2, <2>3
<1>5. OnBus' \subseteq OnBus \cup {ask'}
  <2>1. \A k \in 1 .. Len(rx') : rx'[k][1] \in OnBus
    BY <1>1 DEF OnBus
  <2>2. \A k \in 1 .. Len(uart') : uart'[k][1] \in OnBus
    BY <1>1 DEF OnBus
  <2>3. OnBus' = (IF ask' = NoAsk THEN {} ELSE {ask'})
                 \cup {rx'[k][1] : k \in 1 .. Len(rx')} \cup {uart'[k][1] : k \in 1 .. Len(uart')}
    BY DEF OnBus
  <2> QED
    BY <2>1, <2>2, <2>3
<1> QED
  BY <1>2, <1>3, <1>4, <1>5 DEF Queue, Before

\* Nothing of a frame that passes the CRC is left behind it.
LEMMA RestIsLater ==
  ASSUME BusType, ClockType, InOrder, NEW f \in Frame, rx = Units(f)
  PROVE  /\ fed[2] < f.id /\ f.id <= sent /\ f \in OnBus
         /\ \A k \in 1 .. Len(uart) : f.id < uart[k][1].id
<1>1. Len(rx) \in {1, 2} /\ Len(rx) \in 1 .. Len(rx) /\ 1 \in 1 .. Len(rx) /\ rx[Len(rx)] = <<f, Len(rx)>> /\ rx[1] = <<f, 1>>
  <2>1. Len(rx) \in {1, 2} /\ 1 \in 1 .. Len(rx) /\ Len(rx) \in 1 .. Len(rx)
    BY UnitsOf
  <2> QED
    BY <2>1, UnitsOf
<1>2. fed[2] < f.id /\ f.id <= sent /\ f \in OnBus
  BY <1>1 DEF InOrder, Waiting, OnBus
<1>3. ASSUME NEW k \in 1 .. Len(uart)
      PROVE  f.id < uart[k][1].id
  <2>1. Before(<<f, Len(rx)>>, uart[k]) /\ uart[k][2] <= Len(Units(uart[k][1]))
    BY <1>1 DEF InOrder, Waiting
  <2>2. uart[k] \in Unit
    BY DEF BusType
  <2>3. uart[k][2] \in {1, 2}
    BY <2>2 DEF Unit
  <2>4. ~(f = uart[k][1] /\ Len(rx) < uart[k][2])
    BY <1>1, <2>1, <2>3
  <2> QED
    BY <2>1, <2>4 DEF Before
<1> QED
  BY <1>2, <1>3

-----------------------------------------------------------------------------
(***************************************************************************)
(* The tables.                                                             *)
(***************************************************************************)
LEMMA MinOf ==
  ASSUME NEW S \in SUBSET Nat, S # {}
  PROVE  Min(S) \in S /\ \A m \in S : Min(S) <= m
<1>1. \E n \in S : \A m \in S : n <= m
  <2>1. PICK n \in S : \A m \in S : ~(<<m, n>> \in OpToRel(<, Nat))
    BY NatLessThanWellFounded, WFMin
  <2>2. ASSUME NEW m \in S PROVE n <= m
    <3>1. ~(m < n)
      <4>1. <<m, n>> \in Nat \X Nat
        OBVIOUS
      <4> QED
        BY <2>1, <4>1, Zenon DEF OpToRel
    <3> QED
      BY <3>1
  <2> QED
    BY <2>2
<1> QED
  BY <1>1 DEF Min

\* store_request always finds a slot.
LEMMA StoreSlotExists ==
  ASSUME NEW t \in Table, NEW tab \in [Slot(t) -> Entry]
  PROVE  StoreSlot(tab) \in Slot(t)
<1>1. Slot(t) \subseteq Nat /\ 1 \in Slot(t) /\ DOMAIN tab = Slot(t)
  BY SnifferAssumption DEF Slot, Table
<1>2. CASE \E i \in DOMAIN tab : ~tab[i].valid
  <2>1. {i \in DOMAIN tab : ~tab[i].valid} \in SUBSET Nat
    BY <1>1
  <2>2. Min({i \in DOMAIN tab : ~tab[i].valid}) \in {i \in DOMAIN tab : ~tab[i].valid}
    BY <1>2, <2>1, MinOf
  <2> QED
    BY <1>1, <1>2, <2>2 DEF StoreSlot
<1>3. CASE ~\E i \in DOMAIN tab : ~tab[i].valid
  <2> DEFINE ats == {tab[i].at : i \in Slot(t)}
             oldest == {i \in DOMAIN tab : \A j \in DOMAIN tab : tab[i].at <= tab[j].at}
  <2>1. ats \in SUBSET Nat /\ ats # {}
    BY <1>1 DEF Entry
  <2>2. Min(ats) \in ats /\ \A m \in ats : Min(ats) <= m
    BY <2>1, MinOf
  <2>3. PICK i \in Slot(t) : tab[i].at = Min(ats)
    BY <2>2
  <2>4. \A j \in Slot(t) : tab[i].at <= tab[j].at
    BY <2>2, <2>3
  <2>5. i \in oldest
    BY <1>1, <2>4
  <2>6. oldest \in SUBSET Nat
    BY <1>1
  <2>7. Min(oldest) \in oldest
    BY <2>5, <2>6, MinOf
  <2> QED
    BY <1>1, <1>3, <2>7 DEF StoreSlot
<1> QED
  BY <1>2, <1>3

LEMMA Stored ==
  ASSUME TableType, ClockType, \A t \in Table : \A i \in Slot(t) : pending[t][i].at \in 0 .. now,
         NEW t \in Table, NEW f, f.slave \in Slave, f.id \in Nat,
         NEW what \in [start : Nat, count : Nat] \cup List, Store(t, f, what)
  PROVE  /\ TableType'
         /\ \A u \in Table : \A j \in Slot(u) : pending'[u][j].at \in 0 .. now
         /\ \E k \in Slot(t) :
              /\ pending'[t][k] = [valid |-> TRUE, slave |-> f.slave, what |-> what, at |-> now, id |-> f.id]
              /\ \A j \in Slot(t) : j # k => pending'[t][j] = pending[t][j]
         /\ \A u \in Table : u # t => pending'[u] = pending[u]
<1> DEFINE k == StoreSlot(pending[t])
           e == [valid |-> TRUE, slave |-> f.slave, what |-> what, at |-> now, id |-> f.id]
<1>1. pending' = [pending EXCEPT ![t] = [pending[t] EXCEPT ![k] = e]]
  BY DEF Store
<1>2. now \in Nat /\ pending[t] \in [Slot(t) -> Entry]
  BY DEF TableType, ClockType
<1>3. e \in Entry /\ e.at = now
  BY <1>2 DEF Entry
<1>4. k \in Slot(t)
  BY <1>2, StoreSlotExists
<1> HIDE DEF k, e
<1>5. [pending[t] EXCEPT ![k] = e] \in [Slot(t) -> Entry]
  BY <1>2, <1>3
<1>6. pending'[t] = [pending[t] EXCEPT ![k] = e] /\ \A u \in Table : u # t => pending'[u] = pending[u]
  BY <1>1 DEF TableType
<1>7. TableType'
  <2>1. DOMAIN pending' = Table /\ pending' = [u \in Table |-> pending'[u]]
    BY <1>1 DEF TableType
  <2>2. \A u \in Table : pending'[u] \in [Slot(u) -> Entry]
    BY <1>5, <1>6 DEF TableType
  <2> QED
    BY <2>1, <2>2 DEF TableType
<1>8. pending'[t][k] = e /\ \A j \in Slot(t) : j # k => pending'[t][j] = pending[t][j]
  BY <1>2, <1>4, <1>6
<1>9. \A u \in Table : \A j \in Slot(u) : pending'[u][j].at \in 0 .. now
  <2>1. now \in 0 .. now
    BY <1>2
  <2>2. \A j \in Slot(t) : pending'[t][j].at \in 0 .. now
    BY <1>3, <1>8, <2>1
  <2> QED
    BY <1>6, <2>2
<1> QED
  BY <1>4, <1>6, <1>7, <1>8, <1>9 DEF e

-----------------------------------------------------------------------------
(***************************************************************************)
(* huawei_decoder_feed.                                                    *)
(***************************************************************************)
StoredRequest(f, k) ==
    /\ pending'["reg"][k] = [valid |-> TRUE, slave |-> f.slave, what |-> [start |-> f.start, count |-> f.count],
                             at |-> now, id |-> f.id]
    /\ \A j \in Slot("reg") : j # k => pending'["reg"][j] = pending["reg"][j]
    /\ latest' = [id |-> f.id, at |-> now, robbed |-> FALSE]

\* A request is stored; anything else can only take requests away.
LEMMA FeedTable ==
  ASSUME Types, NEW f \in Frame, huawei_decoder_feed(f)
  PROVE  /\ TableType'
         /\ \A u \in Table : \A j \in Slot(u) : pending'[u][j].at \in 0 .. now
         /\ fed' = <<fed[2], f.id>>
         /\ \/ f.kind = "request" /\ \E k \in Slot("reg") : StoredRequest(f, k)
            \/ /\ f.kind # "request" /\ latest' = latest
               /\ \A i \in Pending' : i \in Pending /\ pending'["reg"][i] = pending["reg"][i]
<1>1. TableType /\ ClockType /\ \A t \in Table : \A i \in Slot(t) : pending[t][i].at \in 0 .. now
  BY DEF Types, TypeOK
<1>2. fed' = <<fed[2], f.id>> /\ (FeedRequest(f) \/ FeedResponse(f) \/ FeedList(f) \/ FeedException(f))
  BY DEF huawei_decoder_feed
<1>3. f.slave \in Slave /\ f.id \in Nat /\ "reg" \in Table /\ "list" \in Table
  BY DEF Frame, Table
<1>4. CASE FeedRequest(f)
  <2>1. [start |-> f.start, count |-> f.count] \in [start : Nat, count : Nat]
    BY <1>4 DEF FeedRequest, Frame
  <2>2. Store("reg", f, [start |-> f.start, count |-> f.count]) /\ f.kind = "request"
        /\ latest' = [id |-> f.id, at |-> now, robbed |-> FALSE]
    BY <1>4 DEF FeedRequest
  <2>3. /\ TableType'
        /\ \A u \in Table : \A j \in Slot(u) : pending'[u][j].at \in 0 .. now
        /\ \E k \in Slot("reg") :
             /\ pending'["reg"][k] = [valid |-> TRUE, slave |-> f.slave,
                                      what |-> [start |-> f.start, count |-> f.count], at |-> now, id |-> f.id]
             /\ \A j \in Slot("reg") : j # k => pending'["reg"][j] = pending["reg"][j]
    BY <1>1, <1>3, <2>1, <2>2, Stored
  <2> QED
    BY <1>2, <2>2, <2>3 DEF StoredRequest
<1>5. ASSUME TableType', \A u \in Table : \A j \in Slot(u) : pending'[u][j].at \in 0 .. now,
             f.kind # "request", latest' = latest,
             pending'["reg"] = pending["reg"] \/ \E i : Release("reg", i)
      PROVE  \A i \in Pending' : i \in Pending /\ pending'["reg"][i] = pending["reg"][i]
  <2>1. CASE pending'["reg"] = pending["reg"]
    BY <2>1 DEF Pending
  <2>2. CASE \E i : Release("reg", i)
    BY <1>1, <1>3, <2>2, Released
  <2> QED
    BY <1>5, <2>1, <2>2
<1>6. CASE FeedResponse(f)
  <2>1. f.kind = "response" /\ latest' = latest /\ (pending' = pending \/ \E i : Release("reg", i))
    BY <1>6 DEF FeedResponse
  <2>2. CASE pending' = pending
    BY <1>1, <1>2, <1>5, <2>1, <2>2 DEF TableType
  <2>3. CASE \E i : Release("reg", i)
    <3>1. TableType' /\ \A u \in Table : \A j \in Slot(u) : pending'[u][j].at \in 0 .. now
      BY <1>1, <1>3, <2>3, Released
    <3> QED
      BY <1>2, <1>5, <2>1, <2>3, <3>1
  <2> QED
    BY <2>1, <2>2, <2>3
<1>7. CASE FeedList(f)
  <2>1. f.kind = "h41" /\ latest' = latest /\ f.list \in List
    BY <1>7 DEF FeedList, Frame
  <2>2. CASE pending' = pending
    BY <1>1, <1>2, <1>5, <2>1, <2>2 DEF TableType
  <2>3. CASE Store("list", f, f.list)
    <3>1. /\ TableType'
          /\ \A u \in Table : \A j \in Slot(u) : pending'[u][j].at \in 0 .. now
          /\ pending'["reg"] = pending["reg"]
      BY <1>1, <1>3, <2>1, <2>3, Stored
    <3> QED
      BY <1>2, <1>5, <2>1, <3>1
  <2>4. CASE \E i : Release("list", i)
    <3>1. TableType' /\ \A u \in Table : \A j \in Slot(u) : pending'[u][j].at \in 0 .. now
      BY <1>1, <1>3, <2>4, Released
    <3>2. pending'["reg"] = pending["reg"]
      BY <1>1, <1>3, <2>4 DEF Release, TableType
    <3> QED
      BY <1>2, <1>5, <2>1, <3>1, <3>2
  <2> QED
    BY <1>7, <2>2, <2>3, <2>4 DEF FeedList
<1>8. CASE FeedException(f)
  <2>1. f.kind = "exception" /\ latest' = latest /\ pending' = pending
    BY <1>8 DEF FeedException
  <2> QED
    BY <1>1, <1>2, <1>5, <2>1 DEF TableType
<1> QED
  BY <1>2, <1>4, <1>6, <1>7, <1>8

\* Only groups of known registers are marked as seen.
LEMMA FeedSeen ==
  ASSUME TypeOK, NEW f, huawei_decoder_feed(f)
  PROVE  seen' \subseteq {r.group : r \in KnownRegs}
<1>1. \A w, n : {r.group : r \in Known(w, n)} \subseteq {r.group : r \in KnownRegs}
  BY DEF Known
<1>2. \A w : decode_h41_entry(w) \subseteq {r.group : r \in KnownRegs}
  BY <1>1 DEF decode_h41_entry
<1>3. seen \subseteq {r.group : r \in KnownRegs}
  BY DEF TypeOK
<1>4. CASE FeedRequest(f) \/ FeedException(f)
  BY <1>3, <1>4 DEF FeedRequest, FeedException
<1>5. CASE FeedList(f)
  <2>1. seen' = seen \/ seen' = seen \cup UNION {decode_h41_entry(f.list[i]) : i \in Whole(f)}
    BY <1>5 DEF FeedList
  <2> QED
    BY <1>2, <1>3, <2>1
<1>6. CASE FeedResponse(f)
  <2>1. seen' = seen \/ \E w : seen' = seen \cup {r.group : r \in Known(w, f.count)}
    BY <1>6 DEF FeedResponse, decode_response
  <2> QED
    BY <1>1, <1>3, <2>1
<1> QED
  BY <1>4, <1>5, <1>6 DEF huawei_decoder_feed

\* The pending request of a response is the latest of its slave.
LEMMA LatestIsOwn ==
  ASSUME SnifferInv, NEW f \in Frame, f \in OnBus, fed[2] < f.id, f.kind = "response",
         NEW m \in find_request(f), PendingId(m) = f.of
  PROVE  Latest(pending["reg"], find_request(f)) = m /\ pending["reg"][m].what.start = f.start
<1> DEFINE tab == pending["reg"]
           best == {i \in find_request(f) : \A j \in find_request(f) : tab[i].at >= tab[j].at}
<1>1. TableType /\ ClockType /\ Agreed /\ Ordered
  BY DEF SnifferInv, Types
<1>2. find_request(f) \subseteq Pending /\ find_request(f) \subseteq Slot("reg") /\ tab[m].slave = f.slave
  BY DEF find_request, Pending
<1>3. \A i \in Slot("reg") : tab[i].id \in Nat /\ tab[i].at \in Nat
  <2>1. tab \in [Slot("reg") -> Entry]
    BY <1>1 DEF TableType, Table
  <2> QED
    BY <2>1 DEF Entry
<1>4. f.id = f.of + 1 /\ f.of \in Nat /\ f.id \in Nat /\ fed[2] \in Nat
  BY <1>1 DEF Agreed, Frame, ClockType
<1>5. ASSUME NEW j \in find_request(f), j # m
      PROVE  tab[j].at < tab[m].at
  <2>1. PendingId(j) <= fed[2] /\ PendingId(j) # PendingId(m)
    BY <1>1, <1>2, <1>5 DEF Ordered
  <2>2. PendingId(j) \in Nat
    BY <1>2, <1>3 DEF PendingId
  <2>3. PendingId(j) < PendingId(m)
    BY <1>4, <2>1, <2>2
  <2> QED
    BY <1>1, <1>2, <2>3 DEF Ordered, PendingAt
<1>6. best = {m}
  <2>1. m \in best
    BY <1>2, <1>3, <1>5
  <2>2. ASSUME NEW i \in best PROVE i = m
    <3>1. tab[i].at >= tab[m].at /\ i \in find_request(f)
      OBVIOUS
    <3> QED
      BY <1>2, <1>3, <1>5, <3>1
  <2> QED
    BY <2>1, <2>2
<1>7. Max({m}) = m
  <2>1. m \in Nat
    BY <1>2, SnifferAssumption DEF Slot
  <2> QED
    BY <2>1 DEF Max
<1>8. <<f.of, f.slave, f.start>> \in Asks
  BY DEF Asks
<1>9. <<PendingId(m), tab[m].slave, tab[m].what.start>> \in Asks
  BY <1>2 DEF Asks
<1>10. tab[m].what.start = f.start
  BY <1>1, <1>8, <1>9 DEF Agreed
<1> QED
  BY <1>6, <1>7, <1>10 DEF Latest

\* Decoded for the window it was read from, a word gets its own address.
LEMMA OutputOwn ==
  ASSUME NEW w, NEW n \in Nat, w.start \in Nat, NEW o \in Output(w, n, w.start)
  PROVE  o.addr = o.from
<1>1. \A r \in Known(w, n) : r.addr \in Nat
  BY MapAssumption DEF Known
<1>2. PICK a \in Int : o = [addr |-> a, from |-> w.start + a - w.start]
  BY <1>1 DEF Output
<1> QED
  BY <1>2

LEMMA FeedDecoded ==
  ASSUME SnifferInv, NEW f \in Frame, f \in OnBus, fed[2] < f.id, huawei_decoder_feed(f), now' = now
  PROVE  OwnWindow' /\ MissingExplained'
<1>1. TableType /\ ClockType /\ Agreed /\ Ordered /\ LatestKept
  BY DEF SnifferInv, Types
<1>2. CASE FeedRequest(f) \/ FeedList(f) \/ FeedException(f)
  BY <1>2, NothingWrong DEF FeedRequest, FeedList, FeedException
<1>3. CASE FeedResponse(f)
  <2> DEFINE tab == pending["reg"]
             mine == find_request(f)
             own == \E i \in mine : tab[i].id = f.of
  <2>1. f.kind = "response" /\ latest' = latest /\ f.start \in Nat /\ f.count \in Nat /\ f.of \in Nat /\ f.id \in Nat
    BY <1>3 DEF FeedResponse, Frame
  <2>2. \/ /\ mine # {}
           /\ decode_response(f, tab[Latest(tab, mine)].what, own)
        \/ mine = {} /\ (NoDecode \/ \E w : decode_response(f, w, FALSE))
    BY <1>3 DEF FeedResponse
  <2>3. \/ NoDecode
        \/ /\ decoded'.of = f.of /\ decoded'.own = own
           /\ own => decoded'.out = Output(tab[Latest(tab, mine)].what, f.count, f.start)
    <3>1. CASE /\ mine # {}
               /\ decode_response(f, tab[Latest(tab, mine)].what, own)
      <4>1. decoded' = [of |-> f.of, own |-> own,
                        out |-> Output(tab[Latest(tab, mine)].what, f.count, f.start)]
        BY <3>1 DEF decode_response
      <4> HIDE DEF own
      <4> QED
        BY <4>1
    <3>2. CASE mine = {} /\ (NoDecode \/ \E w : decode_response(f, w, FALSE))
      <4>1. ~own
        BY <3>2
      <4>2. own = FALSE
        BY <4>1
      <4>3. NoDecode \/ \E w : decoded' = [of |-> f.of, own |-> FALSE, out |-> Output(w, f.count, f.start)]
        BY <3>2 DEF decode_response
      <4>4. NoDecode \/ (decoded'.of = f.of /\ decoded'.own = FALSE)
        BY <4>3
      <4> HIDE DEF own
      <4> QED
        BY <4>1, <4>2, <4>4
    <3> QED
      BY <2>2, <3>1, <3>2
  <2>4. CASE NoDecode
    BY <2>4, NothingWrong
  <2>5. CASE ~NoDecode
    <3>1. decoded'.of = f.of /\ decoded'.own = own
          /\ (own => decoded'.out = Output(tab[Latest(tab, mine)].what, f.count, f.start))
      BY <2>3, <2>5
    <3>2. ASSUME own
          PROVE  \A o \in decoded'.out : o.addr = o.from
      <4>1. PICK m \in mine : PendingId(m) = f.of
        BY <3>2 DEF PendingId
      <4>2. Latest(tab, mine) = m /\ tab[m].what.start = f.start
        BY <2>1, <4>1, LatestIsOwn
      <4>3. decoded'.out = Output(tab[m].what, f.count, tab[m].what.start) /\ tab[m].what.start \in Nat
        BY <2>1, <3>1, <3>2, <4>2
      <4> QED
        BY <2>1, <4>3, OutputOwn
    <3>3. OwnWindow'
      BY <3>1, <3>2 DEF OwnWindow
    <3>4. ASSUME ~own, f.of = latest.id
          PROVE  latest.robbed \/ now - latest.at > Timeout
      <4>0. <<f.of, f.slave, f.start>> \in Asks
        BY <2>1 DEF Asks
      <4>1. f.id = f.of + 1 /\ <<f.of, f.slave, f.start>> \in Asks /\ f.of \in 1 .. sent
        <5>1. <<f.of, f.slave, f.start>>[1] = f.of
          OBVIOUS
        <5> QED
          BY <1>1, <2>1, <4>0, <5>1 DEF Agreed
      <4>2. ~(latest.id < fed[2]) /\ latest.id # 0
        BY <1>1, <2>1, <3>4, <4>1 DEF ClockType
      <4>3. ASSUME NEW i \in Pending, PendingId(i) = latest.id
            PROVE  FALSE
        <5>1. <<PendingId(i), tab[i].slave, tab[i].what.start>> \in Asks
          BY DEF Asks
        <5>2. tab[i].slave = f.slave
          BY <1>1, <3>4, <4>1, <4>3, <5>1 DEF Agreed
        <5>3. i \in mine /\ tab[i].id = f.of
          BY <3>4, <4>3, <5>2 DEF find_request, Pending, PendingId
        <5> QED
          BY <3>4, <5>3
      <4> QED
        BY <1>1, <4>2, <4>3 DEF LatestKept
    <3>5. MissingExplained'
      BY <2>1, <3>1, <3>4 DEF MissingExplained
    <3> QED
      BY <3>3, <3>5
  <2> QED
    BY <2>4, <2>5
<1> QED
  BY <1>2, <1>3 DEF huawei_decoder_feed

\* What feeding a frame leaves for the invariant, once nothing of that frame or
\* of an earlier one waits any more.
LEMMA FeedStep ==
  ASSUME SnifferInv, NEW f \in Frame, rx = Units(f), silent, huawei_decoder_feed(f),
         UNCHANGED <<sent, ask, now, scan>>, ~silent', OnBus' \subseteq OnBus, Queue',
         BusType', Len(rx') <= MaxFrameLen,
         \A k \in 1 .. Len(rx') : \E j \in 1 .. Len(uart) : rx'[k] = uart[j],
         \A k \in 1 .. Len(uart') : \E j \in 1 .. Len(uart) : uart'[k] = uart[j]
  PROVE  SnifferInv'
<1>1. Types /\ BusType /\ TableType /\ ClockType /\ TypeOK /\ InOrder /\ Agreed /\ Ordered /\ LatestKept /\ ScanOnSlot
  BY DEF SnifferInv, Types
<1>2. /\ fed[2] < f.id /\ f.id <= sent /\ f \in OnBus
      /\ \A j \in 1 .. Len(uart) : f.id < uart[j][1].id
  BY <1>1, RestIsLater
<1>3. /\ TableType'
      /\ \A u \in Table : \A j \in Slot(u) : pending'[u][j].at \in 0 .. now
      /\ fed' = <<fed[2], f.id>>
      /\ \/ f.kind = "request" /\ \E k \in Slot("reg") : StoredRequest(f, k)
         \/ /\ f.kind # "request" /\ latest' = latest
            /\ \A i \in Pending' : i \in Pending /\ pending'["reg"][i] = pending["reg"][i]
  BY <1>1, FeedTable
<1>4. f.id \in Nat /\ fed[2] \in Nat /\ now \in Nat /\ sent \in Nat /\ fed'[1] = fed[2] /\ fed'[2] = f.id
  BY <1>1, <1>3 DEF Frame, ClockType, BusType
<1>5. OwnWindow' /\ MissingExplained'
  BY <1>2, FeedDecoded
<1>6. ClockType' /\ ScanOnSlot'
  <2>1. latest' \in [id : Nat, at : Nat, robbed : BOOLEAN]
    <3>1. latest' = latest \/ latest' = [id |-> f.id, at |-> now, robbed |-> FALSE]
      BY <1>3 DEF StoredRequest
    <3>2. [id |-> f.id, at |-> now, robbed |-> FALSE] \in [id : Nat, at : Nat, robbed : BOOLEAN]
      BY <1>4
    <3> QED
      BY <1>1, <3>1, <3>2 DEF ClockType
  <2>2. fed' \in Int \X Nat
    BY <1>3, <1>4
  <2> QED
    BY <1>1, <2>1, <2>2 DEF ClockType, ScanOnSlot
<1>7. TypeOK'
  BY <1>1, <1>3, FeedSeen DEF TypeOK
<1>8. InOrder'
  <2>1. \A j \in 1 .. Len(uart) : Waiting(uart[j], fed'[2], sent')
    BY <1>1, <1>2, <1>4 DEF InOrder, Waiting
  <2>2. \A k \in 1 .. Len(rx') : Waiting(rx'[k], fed'[2], sent')
    BY <2>1
  <2>3. \A k \in 1 .. Len(uart') : Waiting(uart'[k], fed'[2], sent')
    BY <2>1
  <2>4. fed'[1] < fed'[2] /\ fed'[2] <= sent'
    BY <1>2, <1>4
  <2> QED
    BY <2>2, <2>3, <2>4 DEF InOrder, Queue, Waiting, Before
<1>9. ASSUME f.kind = "request", \E k \in Slot("reg") : StoredRequest(f, k)
      PROVE  Agreed' /\ Ordered' /\ LatestKept'
  <2>1. PICK k \in Slot("reg") : StoredRequest(f, k)
    BY <1>9
  <2>2. /\ k \in Pending' /\ PendingId(k)' = f.id /\ PendingAt(k)' = now
        /\ pending'["reg"][k].slave = f.slave /\ pending'["reg"][k].what.start = f.start
    BY <2>1 DEF StoredRequest, Pending, PendingId, PendingAt
  <2>3. \A i \in Pending' : i # k => /\ i \in Pending /\ pending'["reg"][i] = pending["reg"][i]
                                     /\ PendingId(i)' = PendingId(i) /\ PendingAt(i)' = PendingAt(i)
    BY <2>1 DEF StoredRequest, Pending, PendingId, PendingAt
  <2>4. \A i \in Pending : PendingId(i) \in Nat /\ PendingAt(i) \in Nat
    <3>1. pending["reg"] \in [Slot("reg") -> Entry]
      BY <1>1 DEF TableType, Table
    <3> QED
      BY <3>1 DEF Pending, PendingId, PendingAt, Entry
  <2>5. \A i \in Pending : PendingId(i) < f.id /\ PendingAt(i) < now
    BY <1>1, <1>2, <1>4, <2>4 DEF Ordered
  <2>6. Asks' \subseteq Asks
    <3>1. <<f.id, f.slave, f.start>> \in Asks
      BY <1>2, <1>9 DEF Asks
    <3>2. \A i \in Pending' : <<PendingId(i)', pending'["reg"][i].slave, pending'["reg"][i].what.start>> \in Asks
      <4> SUFFICES ASSUME NEW i \in Pending'
                   PROVE  <<PendingId(i)', pending'["reg"][i].slave, pending'["reg"][i].what.start>> \in Asks
        OBVIOUS
      <4>1. CASE i = k
        BY <2>2, <3>1, <4>1
      <4>2. CASE i # k
        BY <2>3, <4>2 DEF Asks
      <4> QED
        BY <4>1, <4>2
    <3> QED
      BY <3>2, AsksKept
  <2>7. Agreed'
    BY <1>1, <2>6 DEF Agreed
  <2>8. Ordered'
    <3>1. \A i \in Pending' : PendingId(i)' <= f.id
      BY <1>4, <2>2, <2>3, <2>4, <2>5
    <3>2. ASSUME NEW i \in Pending', NEW j \in Pending', i # j
          PROVE  PendingId(i)' # PendingId(j)'
      BY <1>1, <1>4, <2>2, <2>3, <2>4, <2>5, <3>2 DEF Ordered
    <3>3. ASSUME NEW i \in Pending', NEW j \in Pending', PendingId(i)' < PendingId(j)'
          PROVE  PendingAt(i)' < PendingAt(j)'
      <4>1. CASE i = k
        BY <1>4, <2>2, <2>3, <2>4, <2>5, <3>3, <4>1
      <4>2. CASE i # k /\ j = k
        BY <2>2, <2>3, <2>5, <4>2
      <4>3. CASE i # k /\ j # k
        BY <1>1, <2>3, <3>3, <4>3 DEF Ordered
      <4> QED
        BY <4>1, <4>2, <4>3
    <3> QED
      BY <1>4, <3>1, <3>2, <3>3 DEF Ordered
  <2>9. LatestKept'
    <3>1. latest'.id = f.id /\ latest'.at = now
      BY <2>1 DEF StoredRequest
    <3>2. \A i \in Pending' : PendingId(i)' = f.id => PendingAt(i)' = now
      BY <1>4, <2>2, <2>3, <2>4, <2>5
    <3> QED
      BY <1>4, <2>2, <3>1, <3>2 DEF LatestKept
  <2> QED
    BY <2>7, <2>8, <2>9
<1>10. ASSUME latest' = latest, \A i \in Pending' : i \in Pending /\ pending'["reg"][i] = pending["reg"][i]
       PROVE  Agreed' /\ Ordered' /\ LatestKept'
  <2>1. Agreed'
    BY <1>1, <1>10, AgreedKept
  <2>2. \A i \in Pending' : i \in Pending /\ PendingId(i)' = PendingId(i) /\ PendingAt(i)' = PendingAt(i)
    BY <1>10 DEF PendingId, PendingAt
  <2>3. \A i \in Pending : PendingId(i) \in Nat
    <3>1. pending["reg"] \in [Slot("reg") -> Entry]
      BY <1>1 DEF TableType, Table
    <3> QED
      BY <3>1 DEF Pending, PendingId, Entry
  <2>4. \A i \in Pending' : PendingId(i)' <= fed'[2]
    BY <1>1, <1>2, <1>4, <2>2, <2>3 DEF Ordered
  <2>5. Ordered'
    BY <1>1, <2>2, <2>4 DEF Ordered
  <2>6. latest.id \in Nat /\ latest.id < f.id
    BY <1>1, <1>2, <1>4 DEF LatestKept, ClockType
  <2>7. LatestKept'
    BY <1>1, <1>4, <1>10, <2>2, <2>6 DEF LatestKept
  <2> QED
    BY <2>1, <2>5, <2>7
<1> QED
  BY <1>3, <1>5, <1>6, <1>7, <1>8, <1>9, <1>10 DEF SnifferInv, Types

\* A unit is moved over, or dropped, and nothing is decoded.
LEMMA MoveStep ==
  ASSUME SnifferInv, UNCHANGED <<sent, ask, now, scan, decoder>>, NoDecode, ~silent', silent' \in BOOLEAN,
         OnBus' \subseteq OnBus, Queue', BusType', Len(rx') <= MaxFrameLen,
         \A k \in 1 .. Len(rx') : \/ \E j \in 1 .. Len(uart) : rx'[k] = uart[j]
                                  \/ \E j \in 1 .. Len(rx) : rx'[k] = rx[j],
         \A k \in 1 .. Len(uart') : \E j \in 1 .. Len(uart) : uart'[k] = uart[j]
  PROVE  SnifferInv'
<1>1. BusType /\ TableType /\ ClockType /\ TypeOK /\ InOrder /\ Agreed /\ Ordered /\ LatestKept /\ ScanOnSlot
  BY DEF SnifferInv, Types
<1>2. UNCHANGED <<pending, seen, fed, latest>>
  BY DEF decoder
<1>3. TableType' /\ ClockType' /\ TypeOK' /\ ScanOnSlot'
  BY <1>1, <1>2 DEF TableType, ClockType, TypeOK, ScanOnSlot
<1>4. InOrder'
  <2>1. \A k \in 1 .. Len(rx') : Waiting(rx'[k], fed'[2], sent')
    BY <1>1, <1>2 DEF InOrder
  <2>2. \A k \in 1 .. Len(uart') : Waiting(uart'[k], fed'[2], sent')
    BY <1>1, <1>2 DEF InOrder
  <2>3. fed'[1] < fed'[2] /\ fed'[2] <= sent'
    BY <1>1, <1>2 DEF InOrder
  <2> QED
    BY <2>1, <2>2, <2>3 DEF InOrder, Queue, Waiting, Before
<1>5. Pending' = Pending /\ \A i \in Pending : PendingId(i)' = PendingId(i) /\ PendingAt(i)' = PendingAt(i)
  BY <1>2 DEF Pending, PendingId, PendingAt
<1>6. Agreed' /\ Ordered'
  BY <1>1, <1>2, <1>5, AgreedKept, OrderedKept
<1>7. LatestKept'
  BY <1>1, <1>2, <1>5 DEF LatestKept
<1> QED
  BY <1>3, <1>4, <1>6, <1>7, NothingWrong DEF SnifferInv, Types

\* A chunk is decoded when silence has ended it and it is exactly one frame.
LEMMA SnifferStep ==
  ASSUME SnifferInv, SnifferTask
  PROVE  SnifferInv'
<1>1. BusType /\ InOrder /\ TypeOK /\ Queue
  BY DEF SnifferInv, Types, InOrder, Queue
<1>2. ASSUME rx # <<>>, modbus_parse_frame(rx)
      PROVE  rx[1][1] \in Frame /\ rx = Units(rx[1][1])
  <2>1. rx[1] \in Unit
    BY <1>1, <1>2 DEF BusType
  <2> QED
    BY <1>2, <2>1 DEF Unit, modbus_parse_frame
<1>3. CASE ReadByte
  <2>1. /\ uart # <<>> /\ uart' = Tail(uart) /\ silent' = FALSE
        /\ UNCHANGED <<sent, ask, now, scan>>
    BY <1>3 DEF ReadByte, bus
  <2>2. rx' = <<Head(uart)>> \/ (rx' = Append(rx, Head(uart)) /\ Len(rx) < MaxFrameLen)
    BY <1>3 DEF ReadByte, append_byte
  <2>3. /\ uart' \in Seq(Unit) /\ rx' \in Seq(Unit)
        /\ \A k \in 1 .. Len(uart') : k + 1 \in 1 .. Len(uart) /\ k + 1 > 1 /\ uart'[k] = uart[k + 1]
        /\ 1 \in 1 .. Len(uart)
        /\ \A k \in 1 .. Len(rx') : \/ k \in 1 .. Len(rx) /\ rx'[k] = rx[k]
                                    \/ k = Len(rx') /\ rx'[k] = uart[1]
    BY <1>1, <2>1, <2>2, Shifted
  <2>4. Len(rx') <= MaxFrameLen
    <3>1. rx \in Seq(Unit) /\ MaxFrameLen \in Nat /\ MaxFrameLen > 1
      BY <1>1, SnifferAssumption DEF BusType
    <3>2. CASE rx' = <<Head(uart)>>
      BY <3>1, <3>2
    <3>3. CASE rx' = Append(rx, Head(uart)) /\ Len(rx) < MaxFrameLen
      <4>1. Len(rx') = Len(rx) + 1
        BY <3>3
      <4> QED
        BY <3>1, <3>3, <4>1
    <3> QED
      BY <2>2, <3>2, <3>3
  <2>5. BusType'
    BY <1>1, <2>1, <2>3 DEF BusType
  <2>6. Queue' /\ OnBus' \subseteq OnBus \cup {ask'}
    BY <1>1, <2>1, <2>2, ShiftedQueue
  <2>7. OnBus' \subseteq OnBus
    <3>1. \A k \in 1 .. Len(rx') : rx'[k][1] \in OnBus
      BY <2>3 DEF OnBus
    <3>2. \A k \in 1 .. Len(uart') : uart'[k][1] \in OnBus
      BY <2>3 DEF OnBus
    <3>3. OnBus' = (IF ask = NoAsk THEN {} ELSE {ask})
                   \cup {rx'[k][1] : k \in 1 .. Len(rx')} \cup {uart'[k][1] : k \in 1 .. Len(uart')}
      BY <2>1 DEF OnBus
    <3>4. (IF ask = NoAsk THEN {} ELSE {ask}) \subseteq OnBus
      BY DEF OnBus
    <3>5. {rx'[k][1] : k \in 1 .. Len(rx')} \subseteq OnBus
      BY <3>1
    <3>6. {uart'[k][1] : k \in 1 .. Len(uart')} \subseteq OnBus
      BY <3>2
    <3> QED
      BY <3>3, <3>4, <3>5, <3>6
  <2>8. \A k \in 1 .. Len(uart') : \E j \in 1 .. Len(uart) : uart'[k] = uart[j]
    BY <2>3
  <2>9. CASE rx # <<>> /\ silent /\ modbus_parse_frame(rx)
    <3> DEFINE f == rx[1][1]
    <3>1. huawei_decoder_feed(f) /\ rx' = <<Head(uart)>>
      BY <1>3, <2>9 DEF ReadByte, process_raw_frame
    <3>2. f \in Frame /\ rx = Units(f)
      BY <1>2, <2>9
    <3>3. \A k \in 1 .. Len(rx') : \E j \in 1 .. Len(uart) : rx'[k] = uart[j]
      <4>1. Head(uart) = uart[1]
        BY <1>1, <2>1 DEF BusType
      <4> QED
        BY <2>3, <3>1, <4>1
    <3> HIDE DEF f
    <3> QED
      BY <2>1, <2>4, <2>5, <2>6, <2>7, <2>8, <2>9, <3>1, <3>2, <3>3, FeedStep
  <2>10. CASE ~(rx # <<>> /\ silent /\ modbus_parse_frame(rx))
    <3>1. UNCHANGED decoder /\ NoDecode
      BY <1>3, <2>10 DEF ReadByte, process_raw_frame
    <3> QED
      BY <2>1, <2>3, <2>4, <2>5, <2>6, <2>7, <2>8, <3>1, MoveStep
  <2> QED
    BY <2>9, <2>10
<1>4. CASE ReadNothing
  <2>1. /\ uart = <<>> /\ uart' = <<>> /\ rx # <<>> /\ silent /\ rx' = <<>> /\ silent' = FALSE
        /\ process_raw_frame(rx)
        /\ UNCHANGED <<sent, ask, now, scan>>
    BY <1>4 DEF ReadNothing, bus
  <2>2. BusType' /\ Queue' /\ Len(rx') <= MaxFrameLen
    <3>1. <<>> \in Seq(Unit) /\ Len(rx') = 0 /\ Len(uart') = 0
      BY <2>1
    <3>2. BusType'
      BY <1>1, <2>1, <3>1 DEF BusType
    <3>3. Queue'
      BY <3>1 DEF Queue
    <3>4. Len(rx') <= MaxFrameLen
      BY <3>1, SnifferAssumption
    <3> QED
      BY <3>2, <3>3, <3>4
  <2>3. OnBus' \subseteq OnBus
    BY <2>1 DEF OnBus
  <2>4. Len(rx') = 0 /\ Len(uart') = 0
    BY <2>1
  <2>5. CASE modbus_parse_frame(rx)
    <3> DEFINE f == rx[1][1]
    <3>1. huawei_decoder_feed(f)
      BY <2>1, <2>5 DEF process_raw_frame
    <3>2. f \in Frame /\ rx = Units(f)
      BY <1>2, <2>1, <2>5
    <3> HIDE DEF f
    <3> QED
      BY <2>1, <2>2, <2>3, <2>4, <3>1, <3>2, FeedStep
  <2>6. CASE ~modbus_parse_frame(rx)
    <3>1. UNCHANGED decoder /\ NoDecode
      BY <2>1, <2>6 DEF process_raw_frame
    <3> QED
      BY <2>1, <2>2, <2>3, <2>4, <3>1, MoveStep
  <2> QED
    BY <2>5, <2>6
<1> QED
  BY <1>3, <1>4 DEF SnifferTask

-----------------------------------------------------------------------------
(***************************************************************************)
(* The theorems.                                                           *)
(***************************************************************************)

\* The sniffer starts with empty tables, at any moment of the bus.
LEMMA InitSniffer ==
  ASSUME Init
  PROVE  SnifferInv
<1>1. BusType
  <2>1. \A s \in Slave, w \in Window : Request(1, s, w) \in Frame
    BY MapAssumption DEF Request, Frame
  <2>2. \A s \in Slave, w \in Window : Request(1, s, w).id = 1 /\ Request(1, s, w).kind = "request"
    BY DEF Request
  <2>3. ask = NoAsk \/ \E s \in Slave, w \in Window : ask = Request(1, s, w)
    BY DEF Init
  <2>4. ask = NoAsk \/ (ask \in Frame /\ ask.id = 1 /\ ask.kind = "request" /\ sent = 1)
    BY <2>1, <2>2, <2>3 DEF Init
  <2>5. ask = NoAsk \/ (ask \in Frame /\ ask.id = sent /\ ask.kind \in {"request", "h41"})
    BY <2>4
  <2>6. sent \in Nat
    BY DEF Init
  <2>7. uart \in Seq(Unit) /\ rx \in Seq(Unit) /\ silent \in BOOLEAN
    <3>1. uart = <<>> /\ rx = <<>> /\ silent = FALSE
      BY DEF Init
    <3>2. <<>> \in Seq(Unit)
      OBVIOUS
    <3> QED
      BY <3>1, <3>2
  <2> QED
    BY <2>5, <2>6, <2>7 DEF BusType
<1>2. NoEntry \in Entry /\ NoEntry.at = 0 /\ ~NoEntry.valid
  BY DEF NoEntry, Entry
<1>3. pending = [t \in Table |-> [i \in Slot(t) |-> NoEntry]]
  BY DEF Init
<1>4. TableType
  BY <1>2, <1>3 DEF TableType
<1>5. Pending = {}
  BY <1>2, <1>3 DEF Pending, Table
<1>6. ClockType /\ ScanOnSlot
  BY DEF Init, ClockType, ScanOnSlot, NotScanning, NothingStored
<1>7. TypeOK
  <2>1. \A t \in Table : \A i \in Slot(t) : pending[t][i].at \in 0 .. now
    BY <1>2, <1>3 DEF Init
  <2> QED
    BY <2>1, SnifferAssumption DEF Init, TypeOK, NotScanning, Slots
<1>8. InOrder
  BY DEF Init, InOrder
<1>9. Ordered /\ LatestKept
  BY <1>5, SnifferAssumption DEF Init, Ordered, LatestKept, NothingStored
<1>10. Agreed
  <2>1. OnBus = IF ask = NoAsk THEN {} ELSE {ask}
    BY DEF Init, OnBus
  <2>2. ask # NoAsk => ask.kind = "request" /\ ask.id = 1 /\ sent = 1
    BY DEF Init, Request
  <2>3. \A h \in OnBus : h.kind = "request"
    BY <2>1, <2>2
  <2>4. Asks \subseteq {<<ask.id, ask.slave, ask.start>>}
    BY <1>5, <2>1, <2>3 DEF Asks
  <2>5. Asks # {} => ask # NoAsk
    BY <1>5, <2>1 DEF Asks
  <2> QED
    BY <2>2, <2>3, <2>4, <2>5 DEF Agreed
<1>11. OwnWindow /\ MissingExplained
  BY DEF Init, OwnWindow, MissingExplained, NothingDecoded
<1> QED
  BY <1>1, <1>4, <1>6, <1>7, <1>8, <1>9, <1>10, <1>11 DEF SnifferInv, Types

\* Every step of the bus, of time, of the sniffer task and of the loop task
\* preserves what decoding relies on.
THEOREM SnifferInvariant == Spec => []SnifferInv
<1>1. Init => SnifferInv
  BY InitSniffer
<1>2. SnifferInv /\ [Next]_vars => SnifferInv'
  <2> SUFFICES ASSUME SnifferInv, [Next]_vars PROVE SnifferInv'
    OBVIOUS
  <2>1. CASE MasterAsks \/ SlaveAnswers \/ SlaveRefuses
    BY <2>1, BusStep
  <2>2. CASE SnifferTask
    BY <2>2, SnifferStep
  <2>3. CASE Pass
    BY <2>3, PassStep
  <2>4. CASE Expire
    BY <2>4, ScanStep, ClearStep DEF Expire
  <2>5. CASE UNCHANGED vars
    <3>1. UNCHANGED <<sent, ask, uart, rx, silent, now, scan, pending, seen, fed, latest, decoded>>
      BY <2>5 DEF vars, bus, rxVars, decoder
    <3>2. OnBus' = OnBus /\ Asks' = Asks
      BY <3>1 DEF OnBus, Asks, Pending, PendingId
    <3> QED
      BY <3>1, <3>2 DEF SnifferInv, Types, BusType, TableType, ClockType, TypeOK, InOrder, Agreed, Ordered, LatestKept,
         ScanOnSlot, OwnWindow, MissingExplained, Pending, PendingId, PendingAt
  <2> QED
    BY <2>1, <2>2, <2>3, <2>4, <2>5 DEF Next
<1> QED
  BY <1>1, <1>2, PTL DEF Spec

\* The receive buffer never exceeds its size, and times, slots and groups are
\* those that exist, for every size of buffer and tables.
THEOREM TypeCorrect == Spec => []TypeOK
<1>1. SnifferInv => TypeOK
  BY DEF SnifferInv, Types
<1> QED
  BY <1>1, SnifferInvariant, PTL

\* Frames reach huawei_decoder_feed in the order of the bus and none twice,
\* however chunks are cut, glued together or dropped.
THEOREM FedInOrderAlways == Spec => []FedInOrder
<1>1. SnifferInv => FedInOrder
  BY DEF SnifferInv, InOrder, FedInOrder
<1> QED
  BY <1>1, SnifferInvariant, PTL

\* A response whose request is pending is decoded with that request's window,
\* for every number of slaves, windows, slots and requests left unanswered.
THEOREM OwnWindowAlways == Spec => []OwnWindow
<1>1. SnifferInv => OwnWindow
  BY DEF SnifferInv
<1> QED
  BY <1>1, SnifferInvariant, PTL

\* Only the timeout, or an expiry that read the clock too early, takes the newest
\* request away before its response is decoded.
THEOREM MissingExplainedAlways == Spec => []MissingExplained
<1>1. SnifferInv => MissingExplained
  BY DEF SnifferInv
<1> QED
  BY <1>1, SnifferInvariant, PTL
=============================================================================
