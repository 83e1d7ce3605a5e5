----------------------------- MODULE LossyFifo -----------------------------
(***************************************************************************)
(* What the raw frame exporter promises to the sniffer: a bounded queue    *)
(* that never blocks its producer.  When the queue is full the OLDEST      *)
(* waiting record makes room for the newest one; records leave one at a    *)
(* time, in the order in which they entered; a record that has left is     *)
(* delivered or lost, never queued again.                                  *)
(*                                                                         *)
(* RawFrameStreamer (src/src/RawFrameStreamer.cpp) implements this with a  *)
(* ring of slots, see Abstract there.                                      *)
(***************************************************************************)
EXTENDS Naturals, Sequences

CONSTANTS
  Bound,   \* records the queue holds at most
  Frames,  \* payloads, by their length
  MaxSeq   \* bound on the number of records offered

VARIABLES
  queue,     \* waiting records, oldest first
  service,   \* the record being transmitted: a sequence of length 0 or 1
  next,      \* number of the next record
  discarded  \* how many waiting records made room for newer ones

fifoVars == <<queue, service, next, discarded>>

Record == [seq : Nat, raw_len : Frames]

FifoInit ==
  /\ queue = << >>
  /\ service = << >>
  /\ next = 1
  /\ discarded = 0

\* The producer is never refused: a full queue gives up its oldest record.
Offer(f) ==
  /\ next <= MaxSeq
  /\ LET rec == [seq |-> next, raw_len |-> f]
     IN \/ /\ Len(queue) < Bound
           /\ queue' = Append(queue, rec)
           /\ UNCHANGED discarded
        \/ /\ Len(queue) = Bound
           /\ queue' = Append(Tail(queue), rec)
           /\ discarded' = discarded + 1
  /\ next' = next + 1
  /\ UNCHANGED service

Take ==
  /\ queue # << >>
  /\ service = << >>
  /\ service' = <<Head(queue)>>
  /\ queue' = Tail(queue)
  /\ UNCHANGED <<next, discarded>>

\* Delivered or lost: the abstract queue does not say which.
Finish ==
  /\ service # << >>
  /\ service' = << >>
  /\ UNCHANGED <<queue, next, discarded>>

FifoNext == Take \/ Finish \/ \E f \in Frames : Offer(f)

FifoSpec == FifoInit /\ [][FifoNext]_fifoVars
=============================================================================
