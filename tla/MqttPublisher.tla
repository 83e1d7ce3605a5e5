--------------------------- MODULE MqttPublisher ---------------------------
(***************************************************************************)
(* The tiered publisher, src/src/mqtt_publisher.cpp: mqtt_publish_value,   *)
(* and the flush and availability parts of mqtt_tick.                      *)
(*                                                                         *)
(* The sniffer task (priority 5) and the loop task (priority 1) share      *)
(* core 1.  mqtt_publish_value runs in the sniffer task and never blocks,  *)
(* so it is one step; mqtt_tick runs in the loop task and can be preempted *)
(* anywhere, so each access to the buffers or the availability state is a  *)
(* step.  The network stack changes the connection under both.             *)
(*                                                                         *)
(* The values of a group are abstracted to the number of its newest value; *)
(* a document remembers whose value it holds.  A millis() timestamp is     *)
(* kept as its age, which grows until it exceeds every limit it is         *)
(* compared with; the 32-bit subtraction of a later timestamp is modelled  *)
(* as the huge number it yields.                                           *)
(***************************************************************************)
EXTENDS Naturals, FiniteSets

CONSTANTS
  GRP_COUNT, TIER_COUNT,
  group_tier,        \* Settings::Publish, per group
  group_enabled,     \* the enabled groups
  tier_interval,     \* per tier; 0 switches the tier off
  MinWatchdog,       \* AVAILABILITY_WATCHDOG_MIN_MS
  MaxPass,           \* bound: the time one mqtt_tick takes
  MaxValues,         \* bound: values, per group
  MaxFaults          \* bound: connection losses and lost publications

Groups == 0 .. GRP_COUNT - 1
Tiers == 0 .. TIER_COUNT - 1

ASSUME CountAssumption == GRP_COUNT \in Nat \ {0} /\ TIER_COUNT \in Nat \ {0}
ASSUME ConfigAssumption ==
  /\ group_tier \in [Groups -> Tiers]
  /\ group_enabled \subseteq Groups
  /\ tier_interval \in [Tiers -> Nat]
  /\ MinWatchdog \in Nat \ {0}
ASSUME BoundAssumption == MaxPass \in Nat /\ MaxValues \in [Groups -> Nat] /\ MaxFaults \in Nat

VARIABLES
  bufs,                    \* s_bufs
  latest,                  \* history: the newest value decoded, per group
  seen, seenAge,           \* s_last_seen_ms: not zero, and its age
  offline,                 \* s_avail_offline
  tierAge,                 \* the age of s_last_tier_tick_ms
  pc, tier, g, slot, payload,   \* mqtt_tick: where it is, its locals
  nowAge, now2Age,         \* the age of its locals now and now2
  connected,               \* s_mgr->isConnected()
  state, avail,            \* the broker: newest state and retained availability
  faults

sniffed == <<latest, seen, seenAge>>
local == <<tier, g, slot, payload>>
shared == <<bufs, sniffed, offline, tierAge>>
clock == <<nowAge, now2Age>>
broker == <<state, avail>>
world == <<connected, broker, faults>>
vars == <<shared, pc, local, clock, world>>

Empty == [of |-> 0, v |-> 0]
Doc == [of : Groups, v : Nat]
Buffer == [group : Groups, active : BOOLEAN, doc : Doc]

IsEmpty(doc) == doc.v = 0

\* group_watchdog_ms: four intervals, at least the floor.
Watchdog(h) ==
  LET w == 4 * tier_interval[group_tier[h]]
  IN  IF w < MinWatchdog THEN MinWatchdog ELSE w

\* (now - then) >= limit in 32 bits, from the ages of both.
Elapsed(thenAge, refAge, limit) == thenAge < refAge \/ thenAge - refAge >= limit

SeenCap(h) == Watchdog(h) + MaxPass
TierCap(t) == tier_interval[t] + MaxPass
Older(age, cap) == IF age < cap THEN age + 1 ELSE age

Least(S) == CHOOSE i \in S : \A j \in S : i <= j
Holding(h) == {i \in Groups : bufs[i].active /\ bufs[i].group = h}
Inactive == {i \in Groups : ~bufs[i].active}

Init ==
  /\ bufs = [i \in Groups |-> [group |-> 0, active |-> FALSE, doc |-> Empty]]
  /\ latest = [h \in Groups |-> 0]
  /\ seen = [h \in Groups |-> FALSE]
  /\ seenAge = [h \in Groups |-> 0]
  /\ offline = [h \in Groups |-> FALSE]
  /\ tierAge = [t \in Tiers |-> 0]
  /\ pc = "idle" /\ tier = 0 /\ g = 0 /\ slot = 0 /\ payload = Empty
  /\ nowAge = 0 /\ now2Age = 0
  /\ connected \in BOOLEAN
  /\ state = [h \in Groups |-> Empty]
  /\ avail = [h \in Groups |-> "none"]
  /\ faults = 0

(***************************************************************************)
(* The sniffer task.                                                       *)
(***************************************************************************)

\* get_group_buf in one step, and the assignment through its result: the
\* group's buffer, else the first inactive one, else nothing is kept.
Accumulate(h, v) ==
  LET doc == [of |-> h, v |-> v] IN
  CASE Holding(h) # {} ->
         bufs' = [bufs EXCEPT ![Least(Holding(h))].doc = doc]
    [] Holding(h) = {} /\ Inactive # {} ->
         bufs' = [bufs EXCEPT ![Least(Inactive)] =
                    [group |-> h, active |-> TRUE, doc |-> doc]]
    [] OTHER -> UNCHANGED bufs

\* h is the group after manual routing; a disabled group leaves no trace.
mqtt_publish_value(h) ==
  /\ latest[h] < MaxValues[h]
  /\ h \in group_enabled
  /\ latest' = [latest EXCEPT ![h] = @ + 1]
  /\ Accumulate(h, latest'[h])
  /\ seen' = [seen EXCEPT ![h] = TRUE]
  /\ seenAge' = [seenAge EXCEPT ![h] = 0]
  /\ offline' = [offline EXCEPT ![h] = FALSE]
  /\ UNCHANGED <<tierAge, pc, local, clock, world>>

(***************************************************************************)
(* mqtt_tick: the tiers.                                                   *)
(***************************************************************************)
TickStart ==
  /\ pc = "idle"
  /\ pc' = "tier" /\ tier' = 0 /\ nowAge' = 0
  /\ UNCHANGED <<shared, g, slot, payload, now2Age, world>>

TierDue == tier_interval[tier] # 0 /\ Elapsed(tierAge[tier], nowAge, tier_interval[tier])

TierSkip ==
  /\ pc = "tier" /\ tier \in Tiers /\ ~TierDue
  /\ tier' = tier + 1
  /\ UNCHANGED <<shared, pc, g, slot, payload, clock, world>>

\* The timer restarts whether or not there is a connection to flush to.
TierFire ==
  /\ pc = "tier" /\ tier \in Tiers /\ TierDue
  /\ tierAge' = [tierAge EXCEPT ![tier] = nowAge]
  /\ IF connected
       THEN pc' = "group" /\ g' = 0 /\ UNCHANGED tier
       ELSE tier' = tier + 1 /\ UNCHANGED <<pc, g>>
  /\ UNCHANGED <<bufs, sniffed, offline, slot, payload, clock, world>>

TiersDone ==
  /\ pc = "tier" /\ tier = TIER_COUNT
  /\ pc' = IF connected THEN "watch" ELSE "idle"
  /\ tier' = 0 /\ g' = 0 /\ nowAge' = IF connected THEN nowAge ELSE 0
  /\ UNCHANGED <<shared, slot, payload, now2Age, world>>

(***************************************************************************)
(* flush_group.                                                            *)
(***************************************************************************)
Flushes == group_tier[g] = tier /\ g \in group_enabled /\ connected

GroupSkip ==
  /\ pc = "group" /\ g \in Groups /\ ~Flushes
  /\ g' = g + 1
  /\ UNCHANGED <<shared, pc, tier, slot, payload, clock, world>>

GroupFlush ==
  /\ pc = "group" /\ g \in Groups /\ Flushes
  /\ pc' = "find"
  /\ UNCHANGED <<shared, local, clock, world>>

GroupsDone ==
  /\ pc = "group" /\ g = GRP_COUNT
  /\ pc' = "tier" /\ tier' = tier + 1 /\ g' = 0
  /\ UNCHANGED <<shared, slot, payload, clock, world>>

\* get_group_buf's first scan.
FindSlot ==
  /\ pc = "find"
  /\ IF Holding(g) # {}
       THEN slot' = Least(Holding(g)) /\ pc' = "flush"
       ELSE pc' = "free" /\ UNCHANGED slot
  /\ UNCHANGED <<shared, tier, g, payload, clock, world>>

\* Its second scan; without an inactive slot the group has no buffer.
FreeSlot ==
  /\ pc = "free"
  /\ IF Inactive # {}
       THEN slot' = Least(Inactive) /\ pc' = "claim" /\ UNCHANGED g
       ELSE pc' = "group" /\ g' = g + 1 /\ UNCHANGED slot
  /\ UNCHANGED <<shared, tier, payload, clock, world>>

ClaimActive ==
  /\ pc = "claim"
  /\ bufs' = [bufs EXCEPT ![slot].active = TRUE]
  /\ pc' = "claimGroup"
  /\ UNCHANGED <<sniffed, offline, tierAge, local, clock, world>>

ClaimGroup ==
  /\ pc = "claimGroup"
  /\ bufs' = [bufs EXCEPT ![slot].group = g]
  /\ pc' = "claimClear"
  /\ UNCHANGED <<sniffed, offline, tierAge, local, clock, world>>

ClaimClear_dirty ==
  /\ pc = "claimClear"
  /\ pc' = "flush"
  /\ UNCHANGED <<shared, local, clock, world>>

ClaimClear ==
  /\ pc = "claimClear"
  /\ bufs' = [bufs EXCEPT ![slot].doc = Empty]
  /\ pc' = "flush"
  /\ UNCHANGED <<sniffed, offline, tierAge, local, clock, world>>

SizeCheck_missing ==
  /\ pc = "flush"
  /\ pc' = "serialize"
  /\ UNCHANGED <<shared, local, clock, world>>

SizeCheck ==
  /\ pc = "flush"
  /\ pc' = IF IsEmpty(bufs[slot].doc) THEN "clearEmpty" ELSE "serialize"
  /\ UNCHANGED <<shared, local, clock, world>>

ClearEmpty ==
  /\ pc = "clearEmpty"
  /\ bufs' = [bufs EXCEPT ![slot].doc = Empty]
  /\ pc' = "group" /\ g' = g + 1 /\ slot' = 0
  /\ UNCHANGED <<sniffed, offline, tierAge, tier, payload, clock, world>>

Serialize ==
  /\ pc = "serialize"
  /\ payload' = bufs[slot].doc
  /\ pc' = "clear"
  /\ UNCHANGED <<shared, tier, g, slot, clock, world>>

Clear_kept ==
  /\ pc = "clear"
  /\ pc' = "pubState" /\ slot' = 0
  /\ UNCHANGED <<shared, tier, g, payload, clock, world>>

Clear ==
  /\ pc = "clear"
  /\ bufs' = [bufs EXCEPT ![slot].doc = Empty]
  /\ pc' = "pubState" /\ slot' = 0
  /\ UNCHANGED <<sniffed, offline, tierAge, tier, g, payload, clock, world>>

\* MQTTManager::publish: refused without a connection; what the client accepts
\* at QoS 0 can still be lost.  deliver is the broker's side of a delivery.
Publish(deliver, kept) ==
  \/ connected /\ deliver /\ UNCHANGED faults
  \/ connected /\ faults < MaxFaults /\ faults' = faults + 1 /\ UNCHANGED kept
  \/ ~connected /\ UNCHANGED <<faults, kept>>

PubState ==
  /\ pc = "pubState"
  /\ Publish(state' = [state EXCEPT ![g] = payload], state)
  /\ payload' = Empty
  /\ pc' = "pubOnline"
  /\ UNCHANGED <<shared, tier, g, slot, clock, connected, avail>>

PubOnline_change ==
  /\ pc = "pubOnline"
  /\ IF offline[g] THEN Publish(avail' = [avail EXCEPT ![g] = "online"], avail)
                   ELSE UNCHANGED <<avail, faults>>
  /\ pc' = "mark"
  /\ UNCHANGED <<shared, local, clock, connected, state>>

PubOnline ==
  /\ pc = "pubOnline"
  /\ Publish(avail' = [avail EXCEPT ![g] = "online"], avail)
  /\ pc' = "mark"
  /\ UNCHANGED <<shared, local, clock, connected, state>>

MarkOnline_missing ==
  /\ pc = "mark"
  /\ pc' = "group" /\ g' = g + 1
  /\ UNCHANGED <<shared, tier, slot, payload, clock, world>>

MarkOnline ==
  /\ pc = "mark"
  /\ offline' = [offline EXCEPT ![g] = FALSE]
  /\ pc' = "group" /\ g' = g + 1
  /\ UNCHANGED <<bufs, sniffed, tierAge, tier, slot, payload, clock, world>>

(***************************************************************************)
(* mqtt_tick: the availability watchdog.                                   *)
(***************************************************************************)
Stale(h) == seen[h] /\ ~offline[h] /\ Elapsed(seenAge[h], nowAge, Watchdog(h))

WatchSkip_unseen ==
  /\ pc = "watch" /\ g \in Groups
  /\ ~(g \in group_enabled /\ Stale(g))
  /\ g' = IF seen[g] THEN g + 1 ELSE GRP_COUNT
  /\ UNCHANGED <<shared, pc, tier, slot, payload, clock, world>>

WatchSkip ==
  /\ pc = "watch" /\ g \in Groups
  /\ ~(g \in group_enabled /\ Stale(g))
  /\ g' = g + 1
  /\ UNCHANGED <<shared, pc, tier, slot, payload, clock, world>>

WatchStale_advanced ==
  /\ pc = "watch" /\ g \in Groups
  /\ g \in group_enabled /\ Stale(g)
  /\ pc' = "now2" /\ g' = g + 1
  /\ UNCHANGED <<shared, tier, slot, payload, clock, world>>

WatchStale ==
  /\ pc = "watch" /\ g \in Groups
  /\ g \in group_enabled /\ Stale(g)
  /\ pc' = "now2"
  /\ UNCHANGED <<shared, local, clock, world>>

Now2 ==
  /\ pc = "now2"
  /\ now2Age' = 0 /\ pc' = "confirm"
  /\ UNCHANGED <<shared, local, nowAge, world>>

Confirmed == ~offline[g] /\ seen[g] /\ Elapsed(seenAge[g], now2Age, Watchdog(g))

Confirm ==
  /\ pc = "confirm"
  /\ now2Age' = 0
  /\ IF Confirmed
       THEN /\ offline' = [offline EXCEPT ![g] = TRUE]
            /\ pc' = "pubOffline" /\ UNCHANGED g
       ELSE pc' = "watch" /\ g' = g + 1 /\ UNCHANGED offline
  /\ UNCHANGED <<bufs, sniffed, tierAge, tier, slot, payload, nowAge, world>>

PubOffline ==
  /\ pc = "pubOffline"
  /\ Publish(avail' = [avail EXCEPT ![g] = "offline"], avail)
  /\ pc' = "watch" /\ g' = g + 1
  /\ UNCHANGED <<shared, tier, slot, payload, clock, connected, state>>

WatchDone ==
  /\ pc = "watch" /\ g = GRP_COUNT
  /\ pc' = "idle" /\ g' = 0 /\ nowAge' = 0
  /\ UNCHANGED <<shared, tier, slot, payload, now2Age, world>>

mqtt_tick ==
  \/ TickStart \/ TierSkip \/ TierFire \/ TiersDone
  \/ GroupSkip \/ GroupFlush \/ GroupsDone
  \/ FindSlot \/ FreeSlot \/ ClaimActive \/ ClaimGroup \/ ClaimClear
  \/ SizeCheck \/ ClearEmpty \/ Serialize \/ Clear
  \/ PubState \/ PubOnline \/ MarkOnline
  \/ WatchSkip \/ WatchStale \/ Now2 \/ Confirm \/ PubOffline \/ WatchDone

(***************************************************************************)
(* Time and the network.                                                   *)
(***************************************************************************)
TimePasses ==
  /\ pc # "idle" => nowAge < MaxPass
  /\ seenAge' = [h \in Groups |-> IF seen[h] THEN Older(seenAge[h], SeenCap(h)) ELSE 0]
  /\ tierAge' = [t \in Tiers |-> Older(tierAge[t], TierCap(t))]
  /\ nowAge' = IF pc = "idle" THEN 0 ELSE nowAge + 1
  /\ now2Age' = IF pc = "confirm" THEN now2Age + 1 ELSE 0
  /\ UNCHANGED <<bufs, latest, seen, offline, pc, local, world>>

Disconnect ==
  /\ connected /\ faults < MaxFaults
  /\ connected' = FALSE /\ faults' = faults + 1
  /\ UNCHANGED <<shared, pc, local, clock, broker>>

Connect ==
  /\ ~connected /\ connected' = TRUE
  /\ UNCHANGED <<shared, pc, local, clock, broker, faults>>

Next ==
  \/ \E h \in Groups : mqtt_publish_value(h)
  \/ mqtt_tick \/ TimePasses \/ Disconnect \/ Connect

Spec == Init /\ [][Next]_vars

\* loop() calls mqtt_tick forever, time passes, and MQTTManager keeps
\* reconnecting to a broker that is up.
Fairness == WF_vars(mqtt_tick) /\ WF_vars(TimePasses) /\ WF_vars(Connect)

LiveSpec == Spec /\ Fairness
-----------------------------------------------------------------------------
(***************************************************************************)
(* Properties.                                                             *)
(***************************************************************************)
BufferType == bufs \in [Groups -> Buffer]

SniffedType ==
  /\ latest \in [Groups -> Nat]
  /\ seen \in [Groups -> BOOLEAN]
  /\ offline \in [Groups -> BOOLEAN]

AgeType ==
  /\ seenAge \in [Groups -> Nat] /\ \A h \in Groups : seenAge[h] <= SeenCap(h)
  /\ tierAge \in [Tiers -> Nat] /\ \A t \in Tiers : tierAge[t] <= TierCap(t)
  /\ nowAge \in 0 .. MaxPass /\ now2Age \in 0 .. MaxPass

TickType ==
  /\ pc \in {"idle", "tier", "group", "find", "free", "claim", "claimGroup", "claimClear",
             "flush", "clearEmpty", "serialize", "clear", "pubState", "pubOnline", "mark",
             "watch", "now2", "confirm", "pubOffline"}
  /\ tier \in 0 .. TIER_COUNT /\ g \in 0 .. GRP_COUNT
  /\ slot \in Groups /\ payload \in Doc

BrokerType ==
  /\ state \in [Groups -> Doc]
  /\ avail \in [Groups -> {"none", "online", "offline"}]
  /\ connected \in BOOLEAN /\ faults \in 0 .. MaxFaults

\* The type of every variable; in a pass the locals index what they name.
TypeOK ==
  /\ BufferType /\ SniffedType /\ AgeType /\ TickType /\ BrokerType
  /\ pc \notin {"idle", "tier", "group", "watch"} => g \in Groups

\* What is published for a group is only ever that group's values, although both tasks
\* claim buffers without a lock and a claim can take a slot from under the other.
TopicOfOwnGroup == \A h \in Groups : ~IsEmpty(state[h]) => state[h].of = h

\* A flush publishes something new: what it is about to publish is newer than
\* the group's state on the broker, so no value goes out twice or out of order.
FlushIsNewer == pc = "pubState" => payload.v > state[g].v

\* While nothing was lost, the retained availability and the watchdog agree
\* between two passes: a group flagged offline is offline on the broker.
FlagOnBroker ==
  pc = "idle" /\ faults = 0 =>
    \A h \in Groups : offline[h] => avail[h] = "offline"

\* flush_group publishes "online" only when data was actually sent: while nothing
\* was lost, a group that is online has a state on the broker.  (A state that
\* the client refused is still followed by "online".)
OnlineOnlyWithData ==
  faults = 0 => \A h \in Groups : avail[h] = "online" => ~IsEmpty(state[h])

\* A group that has gone silent is flagged offline, whatever the other groups
\* do, as long as the connection stays up in the end.
SilenceFlagged ==
  \A h \in group_enabled :
    <>[](connected) => [](seen[h] => <>(offline[h] \/ seenAge[h] < Watchdog(h)))

\* The next flush of group h finds a value.
Waits(h) == Holding(h) # {} /\ ~IsEmpty(bufs[Least(Holding(h))].doc)

\* A group shown as offline whose value waits to be published is shown as online
\* again, once no more is lost: also where the watchdog flagged it in the very pass
\* that found its value (the 32-bit subtraction of a later timestamp), and where
\* the value cleared the flag before the broker was told.
ShownOnlineAgain ==
  \A h \in group_enabled : tier_interval[group_tier[h]] # 0 =>
    (pc = "idle" /\ connected /\ faults = MaxFaults /\ avail[h] = "offline" /\ Waits(h))
      ~> (avail[h] = "online")
=============================================================================
