--------------------------- MODULE MCMqttPublisher ---------------------------
(* Small instances of MqttPublisher.  Group 2 is disabled.                   *)
EXTENDS MqttPublisher

OneTier == [h \in Groups |-> 0]
EveryTick == [t \in Tiers |-> 1]
FirstTwo == {0, 1}
LastTierForZero == [h \in Groups |-> IF h = 0 THEN TIER_COUNT - 1 ELSE 0]
TwoValues == [h \in Groups |-> 2]
\* an active group has a value to be shown by and one more; group 2 takes none
TwoForOne == [h \in Groups |-> IF h = 1 THEN 2 ELSE IF h = 0 THEN 1 ELSE 0]
LastOff == [t \in Tiers |-> IF t = TIER_COUNT - 1 THEN 0 ELSE 1]
==============================================================================
