-------------------------- MODULE MCLiveValueStore --------------------------
(* Three registers for two entries, so that entries are evicted.            *)
EXTENDS LiveValueStore, TLC
Registers == Permutations(Id)
=============================================================================
