---------------------------- MODULE MCMqttSession ----------------------------
(* Small instances of MqttSession.  Entries 0 and 1 of the cache share a key. *)
EXTENDS MqttSession

SharedKey == [i \in CacheIndex |-> IF i = 1 THEN 0 ELSE i]
==============================================================================
