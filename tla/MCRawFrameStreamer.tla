------------------------ MODULE MCRawFrameStreamer ------------------------
(***************************************************************************)
(* RawFrameStreamer on a ring of two or three slots: more frames than      *)
(* slots, so that the ring wraps, overflows and drains several times.      *)
(***************************************************************************)
EXTENDS RawFrameStreamer

\* An empty frame, one of ordinary length, and one longer than MaxFrame.
MCLengths == {0, 1, 3}
=============================================================================
