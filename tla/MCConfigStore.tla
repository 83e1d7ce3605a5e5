---------------------------- MODULE MCConfigStore ----------------------------
(* Small instances of ConfigStore: enough saves to fill both backups.         *)
EXTENDS ConfigStore, TLC

\* The second part relies on the first.
MCNeeds == {<<2, 1>>}
AnyRequest == Permutations(Requests)
==============================================================================
