------------------------- MODULE RawStreamPipeline -------------------------
(***************************************************************************)
(* The exporter (RawFrameStreamer) composed with the TCP connections it    *)
(* opens and the collector that archives their bytes                       *)
(* (src/scripts/raw_stream_collector.py: run_server, parse_stream_buffer). *)
(*                                                                         *)
(* Bytes are grouped into units: a record is HeaderUnits header units, the *)
(* first of them the magic, followed by raw_len payload units.  A unit     *)
(* remembers the record it was written for, which lets the properties say  *)
(* when the collector cut a record out of bytes of two.                    *)
(***************************************************************************)
EXTENDS RawFrameStreamer

VARIABLES
  conns,  \* connections the collector has not finished with, the accepted one first
  buf,    \* buf of run_server: received, not yet parsed
  out     \* packets appended to the archive

pipeVars == <<vars, conns, buf, out>>

HeaderUnits == 2
Unit(s, k) == [seq |-> s.seq, part |-> k, raw_len |-> s.raw_len]
Header(s) == [k \in 1 .. HeaderUnits |-> Unit(s, k)]
Payload(s) == [k \in 1 .. s.raw_len |-> Unit(s, HeaderUnits + k)]

\* The device's connection is the last one.
Write(units) == conns' = [conns EXCEPT ![Len(conns)].bytes = @ \o units]
Close == conns' = [i \in DOMAIN conns |-> [conns[i] EXCEPT !.open = FALSE]]

(***************************************************************************)
(* The device's steps, with what they put on the wire.                     *)
(***************************************************************************)
Connected ==
  /\ TaskConnected
  /\ conns' = Append(conns, [bytes |-> << >>, open |-> TRUE])

send_slot ==
  \/ TaskWriteHeader /\ Write(Header(cur))
  \/ TaskWritePayload /\ Write(Payload(cur))

send_slot_failed_kept_open ==
  /\ pc \in {"header", "payload"} /\ client
  /\ pc' = "poll"
  /\ lost' = lost + 1
  /\ UNCHANGED <<ring, link, net, cur, sent>>
  /\ \E n \in 0 .. Len(IF pc = "header" THEN Header(cur) ELSE Payload(cur)) - 1 :
       Write(SubSeq(IF pc = "header" THEN Header(cur) ELSE Payload(cur), 1, n))

\* client.write returned short: a proper prefix went out, then client.stop().
send_slot_failed ==
  /\ TaskWriteFailed
  /\ LET units == IF pc = "header" THEN Header(cur) ELSE Payload(cur)
     IN \/ /\ client
           /\ \E n \in 0 .. Len(units) - 1 :
                conns' = [conns EXCEPT ![Len(conns)] =
                            [bytes |-> @.bytes \o SubSeq(units, 1, n), open |-> FALSE]]
        \/ ~client /\ UNCHANGED conns

StopWithoutWifi == TaskNoWifi /\ Close

OtherTaskStep ==
  /\ \/ TaskThrottled \/ TaskAttempt \/ TaskConnectFailed \/ TaskReady
     \/ TaskPop \/ TaskIdle \/ TaskCount
  /\ UNCHANGED conns

(***************************************************************************)
(* The network: a connection breaks and takes a suffix of the bytes under  *)
(* way with it.                                                            *)
(***************************************************************************)
ConnectionBreaks ==
  /\ PeerClose
  /\ \E n \in 0 .. Len(conns[Len(conns)].bytes) :
       conns' = [conns EXCEPT ![Len(conns)] =
                   [bytes |-> SubSeq(@.bytes, 1, n), open |-> FALSE]]

(***************************************************************************)
(* The collector.                                                          *)
(***************************************************************************)
IsMagic(u) == u.part = 1
MagicAt(b) == {i \in 2 .. Len(b) : IsMagic(b[i])}
packet_len(b) == HeaderUnits + b[2].raw_len

\* The loop of parse_stream_buffer goes on: a header is there, and no magic at
\* its start or all of the packet the header announces.
Parsable(b) ==
  /\ Len(b) >= HeaderUnits
  /\ IsMagic(b[1]) => Len(b) >= packet_len(b)

\* Everything before the next magic is given up.
Resynchronised(b) ==
  IF MagicAt(b) = {} THEN << >>
  ELSE SubSeq(b, CHOOSE i \in MagicAt(b) : \A j \in MagicAt(b) : i <= j, Len(b))

\* recv returns any non-empty chunk of what has arrived.
Receive ==
  /\ conns # << >> /\ ~Parsable(buf)
  /\ \E n \in 1 .. Len(conns[1].bytes) :
       /\ conns' = [conns EXCEPT ![1].bytes = SubSeq(@, n + 1, Len(@))]
       /\ buf' = buf \o SubSeq(conns[1].bytes, 1, n)
  /\ UNCHANGED <<vars, out>>

\* One pass of the loop: a packet is cut off and archived, or the search for the
\* next magic is begun again.  Left out, since every header in the model is of
\* version 1 and a unit is read whole: the branch that drops a byte at another
\* version, and the three bytes a search without result keeps in case they begin
\* a magic.  Neither is reached: see NeverOutOfStep.
parse_stream_buffer ==
  /\ Parsable(buf)
  /\ IF IsMagic(buf[1])
       THEN /\ out' = Append(out, SubSeq(buf, 1, packet_len(buf)))
            /\ buf' = SubSeq(buf, packet_len(buf) + 1, Len(buf))
       ELSE buf' = Resynchronised(buf) /\ UNCHANGED out
  /\ UNCHANGED <<vars, conns>>

NextConnection_buf_kept ==
  /\ conns' = Tail(conns)
  /\ UNCHANGED buf

\* The next accept starts with an empty buffer.
NextConnection ==
  /\ conns' = Tail(conns)
  /\ buf' = << >>

\* recv returned no bytes: the device closed this connection.
EndOfStream ==
  /\ conns # << >> /\ ~conns[1].open /\ conns[1].bytes = << >>
  /\ ~Parsable(buf)
  /\ NextConnection
  /\ UNCHANGED <<vars, out>>

\* idle_timeout_s or OSError: the collector gives the connection up, whatever
\* it still carries; if it is the device's connection, that ends with it.
GiveUp ==
  /\ conns # << >> /\ ~Parsable(buf)
  /\ IF client /\ Len(conns) = 1 THEN PeerClose ELSE UNCHANGED vars
  /\ NextConnection
  /\ UNCHANGED out

PipeInit == Init /\ conns = << >> /\ buf = << >> /\ out = << >>

PipeNext ==
  \/ /\ \/ /\ raw_frame_streamer_enqueue \/ WifiChange
           /\ UNCHANGED conns
        \/ Connected \/ send_slot \/ send_slot_failed \/ StopWithoutWifi
        \/ OtherTaskStep \/ ConnectionBreaks
     /\ UNCHANGED <<buf, out>>
  \/ Receive \/ parse_stream_buffer \/ EndOfStream \/ GiveUp

PipeSpec == PipeInit /\ [][PipeNext]_pipeVars
-----------------------------------------------------------------------------
\* The archive holds captured records only: no packet is cut out of the bytes
\* of two records, although a write may stop in the middle of a header or a
\* payload and the next record follows on another connection.
ArchiveGenuine ==
  \A i \in DOMAIN out :
    \E s \in [seq : 1 .. seq - 1, raw_len : 1 .. MaxFrame] :
      out[i] = Header(s) \o Payload(s)

\* Records are archived in capture order and never twice, whatever was lost,
\* across reconnects and connections that the collector reads late.
ArchiveOrdered ==
  \A i, j \in DOMAIN out : i < j => out[i][1].seq < out[j][1].seq

\* sent_frames never lags behind the archive: what the collector has is
\* counted as sent, but for the record whose last write just returned.
SentCoversArchive == Len(out) <= sent + (IF pc = "sent" THEN 1 ELSE 0)

\* The collector never has to search for a magic: its buffer starts with a record
\* whatever the connections lost.
NeverOutOfStep == Len(buf) > 0 => IsMagic(buf[1])
=============================================================================
