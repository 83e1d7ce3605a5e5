-------------------------- MODULE MCDebugLogBuffer --------------------------
(* A small ring: records of 3 and 4 bytes in 10. The third record wraps and *)
(* finds room, just reaches the tail or passes it, depending on the lengths. *)
EXTENDS DebugLogBuffer
=============================================================================
