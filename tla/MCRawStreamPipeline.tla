----------------------- MODULE MCRawStreamPipeline -----------------------
(***************************************************************************)
(* RawStreamPipeline with payloads of one and two units, so that a short   *)
(* write can stop at every kind of boundary.                               *)
(***************************************************************************)
EXTENDS RawStreamPipeline

MCLengths == {1, 2}
=============================================================================
