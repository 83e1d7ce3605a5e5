---------------------------- MODULE MCOtaUpdate ----------------------------
(* Two armings: the second may fall into the first window, meet its end or  *)
(* follow it, and cross the wrap of the counter.                            *)
EXTENDS OtaUpdate
=============================================================================
