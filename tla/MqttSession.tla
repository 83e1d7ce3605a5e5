---------------------------- MODULE MqttSession ----------------------------
(***************************************************************************)
(* The broker session: AsyncMqttTransport.cpp, MQTTManager.cpp, and the    *)
(* announcements mqtt_loop and mqtt_tick (mqtt_publisher.cpp) make in it.  *)
(*                                                                         *)
(* The loop task polls the transport's events, reconnects, and announces   *)
(* the device, the diagnostics and derived entities, and every cached      *)
(* value.  The transport's callbacks run in the network task and change    *)
(* the connection between any two steps of the loop task.                  *)
(*                                                                         *)
(* External: the AsyncMqttClient and the broker.  A connect ends in        *)
(* onConnect, in onDisconnect or, silently, in nothing; the broker         *)
(* publishes the will of a broken session before it accepts the next.      *)
(*                                                                         *)
(* The publications of values and availability are MqttPublisher's; the    *)
(* diagnostics counters and connection durations are left out.             *)
(***************************************************************************)
EXTENDS Naturals, FiniteSets

CONSTANTS
  RECONNECT_THROTTLE, CONNECT_GUARD,   \* in time steps
  HA_DISCOVERY_PER_TICK,
  MAX_CACHED_VALS,
  EntityKey,                           \* build_ha_entity_key of a cache index
  home_enabled,                        \* s_home_consumption_enabled_runtime
  MaxDrops,                            \* bound: connections and attempts that break
  MaxRejects                           \* bound: publications the client refuses

CacheIndex == 0 .. MAX_CACHED_VALS - 1
Keys == {EntityKey[i] : i \in CacheIndex}

ASSUME TimeAssumption == RECONNECT_THROTTLE \in Nat \ {0} /\ CONNECT_GUARD \in Nat
\* MQTTManager.h has 10 s for both.
ASSUME GuardAssumption == CONNECT_GUARD <= RECONNECT_THROTTLE
ASSUME DiscoveryAssumption ==
  /\ HA_DISCOVERY_PER_TICK \in Nat \ {0} /\ MAX_CACHED_VALS \in Nat
  /\ home_enabled \in BOOLEAN
ASSUME BoundAssumption == MaxDrops \in Nat /\ MaxRejects \in Nat

VARIABLES
  wifi,                     \* WiFi.status()
  client,                   \* the MQTT client: "down", "connecting", "up"
  pendingConnected, pendingDisconnected,   \* the transport's event counts, nonzero or not
  attempted, attemptAge,    \* lastReconnectAttemptMs: not zero, and its age
  connectionAttemptPending,
  pc, sent,                 \* the loop task: where it is, its counter
  announced,                \* s_device_announced
  discovered,               \* s_diag_discovered, s_home_consumption_discovery_published
  cacheCount, ha,           \* s_cache_count, the entries with ha_discovered
  status, willDue,          \* the broker: retained <base>/status, a will to publish
  got,                      \* the broker: what the present session has carried
  drops, rejects

link == <<wifi, client, pendingConnected, pendingDisconnected>>
attempt == <<attempted, attemptAge, connectionAttemptPending>>
flags == <<announced, discovered, ha>>
broker == <<status, willDue, got>>
vars == <<link, attempt, pc, sent, flags, cacheCount, broker, drops, rejects>>

isConnected == client = "up"
Nothing == [device |-> FALSE, discovery |-> {}, keys |-> {}]

AgeCap == IF CONNECT_GUARD > RECONNECT_THROTTLE THEN CONNECT_GUARD ELSE RECONNECT_THROTTLE

Init ==
  /\ wifi \in BOOLEAN /\ client = "down"
  /\ pendingConnected = FALSE /\ pendingDisconnected = FALSE
  /\ attempted = FALSE /\ attemptAge = 0 /\ connectionAttemptPending = FALSE
  /\ pc = "poll" /\ sent = 0
  /\ announced = FALSE /\ discovered = {} /\ ha = {}
  /\ cacheCount = 0
  /\ status \in {"online", "offline"} /\ willDue = FALSE /\ got = Nothing
  /\ drops = 0 /\ rejects = 0

(***************************************************************************)
(* MQTTManager::loop.                                                      *)
(***************************************************************************)
Poll_latest ==
  /\ pc = "poll"
  /\ pc' = IF pendingConnected /\ ~pendingDisconnected THEN "birth" ELSE "read"
  /\ connectionAttemptPending' =
       (connectionAttemptPending /\ ~pendingConnected /\ ~pendingDisconnected)
  /\ pendingConnected' = FALSE /\ pendingDisconnected' = FALSE
  /\ UNCHANGED <<wifi, client, attempted, attemptAge, sent, flags, cacheCount,
                 broker, drops, rejects>>

\* pollConnectionEvents and processTransportEvents: either event ends the wait
\* for the attempt, even one older than the attempt.
Poll ==
  /\ pc = "poll"
  /\ pc' = IF pendingConnected THEN "birth" ELSE "read"
  /\ connectionAttemptPending' =
       (connectionAttemptPending /\ ~pendingConnected /\ ~pendingDisconnected)
  /\ pendingConnected' = FALSE /\ pendingDisconnected' = FALSE
  /\ UNCHANGED <<wifi, client, attempted, attemptAge, sent, flags, cacheCount,
                 broker, drops, rejects>>

\* MQTTManager::publish with its three outcomes; kept is what deliver changes.
Publish(deliver, kept) ==
  \/ isConnected /\ deliver /\ UNCHANGED rejects
  \/ isConnected /\ rejects < MaxRejects /\ rejects' = rejects + 1 /\ UNCHANGED kept
  \/ ~isConnected /\ UNCHANGED <<rejects, kept>>

Birth ==
  /\ pc = "birth"
  /\ Publish(status' = "online", status)
  /\ pc' = "read"
  /\ UNCHANGED <<link, attempt, sent, flags, cacheCount, willDue, got, drops>>

(***************************************************************************)
(* mqtt_loop.                                                              *)
(***************************************************************************)
ReadConnected ==
  /\ pc = "read"
  /\ pc' = CASE isConnected -> "announce"
             [] ~isConnected /\ wifi -> "reconnect"
             [] OTHER -> "ha"
  /\ UNCHANGED <<link, attempt, sent, flags, cacheCount, broker, drops, rejects>>

Guarded_forever == connectionAttemptPending
Guarded == connectionAttemptPending /\ attemptAge < CONNECT_GUARD
Throttled_guarded == attempted /\ attemptAge < RECONNECT_THROTTLE /\ Guarded
Throttled == attempted /\ attemptAge < RECONNECT_THROTTLE

\* MQTTManager::reconnect when nothing is started.
ReconnectNot ==
  /\ pc = "reconnect"
  /\ isConnected \/ Guarded \/ Throttled
  /\ connectionAttemptPending' = (Guarded /\ ~isConnected)
  /\ pc' = "reset"
  /\ UNCHANGED <<link, attempted, attemptAge, sent, flags, cacheCount, broker,
                 drops, rejects>>

\* MQTTManager::reconnect starts an attempt; a client that is already
\* connecting ignores it.
ReconnectStart ==
  /\ pc = "reconnect"
  /\ ~isConnected /\ ~Guarded /\ ~Throttled
  /\ client' = "connecting"
  /\ attempted' = TRUE /\ attemptAge' = 0 /\ connectionAttemptPending' = TRUE
  /\ pc' = "reset"
  /\ UNCHANGED <<wifi, pendingConnected, pendingDisconnected, sent, flags,
                 cacheCount, broker, drops, rejects>>

ResetFlags_entities_kept ==
  /\ pc = "reset"
  /\ announced' = FALSE /\ discovered' = {}
  /\ pc' = "ha"
  /\ UNCHANGED <<link, attempt, sent, ha, cacheCount, broker, drops, rejects>>

ResetFlags ==
  /\ pc = "reset"
  /\ announced' = FALSE /\ discovered' = {} /\ ha' = {}
  /\ pc' = "ha"
  /\ UNCHANGED <<link, attempt, sent, cacheCount, broker, drops, rejects>>

mqtt_announce_device == Publish(got' = [got EXCEPT !.device = TRUE], got)

\* The flag does not depend on the publication's result.
Announce ==
  /\ pc = "announce"
  /\ IF announced
       THEN UNCHANGED <<announced, got, rejects>>
       ELSE announced' = TRUE /\ mqtt_announce_device
  /\ pc' = "diag"
  /\ UNCHANGED <<link, attempt, sent, discovered, ha, cacheCount, status, willDue,
                 drops>>

\* mqtt_publish_diag_discovery and mqtt_publish_home_consumption_discovery:
\* retried until every publication succeeded.
Discover_once(item) ==
  /\ item \notin discovered
  /\ discovered' = discovered \cup {item}
  /\ Publish(got' = [got EXCEPT !.discovery = @ \cup {item}], got)

Discover(item) ==
  /\ item \notin discovered
  /\ \/ /\ isConnected
        /\ got' = [got EXCEPT !.discovery = @ \cup {item}]
        /\ discovered' = discovered \cup {item}
        /\ UNCHANGED rejects
     \/ /\ isConnected /\ rejects < MaxRejects
        /\ rejects' = rejects + 1
        /\ UNCHANGED <<got, discovered>>
     \/ /\ ~isConnected /\ UNCHANGED <<got, discovered, rejects>>

Wanted == IF home_enabled THEN {"diag", "home"} ELSE {"diag"}

\* The steps of mqtt_loop and, again, of mqtt_tick: first diag, then home.
ItemAt == [diag |-> "diag", home |-> "home", tickDiag |-> "diag", tickHome |-> "home"]
After == [diag |-> "home", home |-> "ha", tickDiag |-> "tickHome", tickHome |-> "poll"]

DiscoverNow(item) ==
  /\ pc \in DOMAIN ItemAt /\ ItemAt[pc] = item
  /\ item \in Wanted
  /\ Discover(item)
  /\ pc' = After[pc]
  /\ UNCHANGED <<link, attempt, sent, announced, ha, cacheCount, status, willDue,
                 drops>>

\* Done before, not wanted, or the retry interval is not yet over.
DiscoverNotNow ==
  /\ pc \in DOMAIN ItemAt
  /\ pc' = After[pc]
  /\ UNCHANGED <<link, attempt, sent, flags, cacheCount, broker, drops, rejects>>

(***************************************************************************)
(* mqtt_tick: the discovery of cached values.                              *)
(***************************************************************************)
HaStart ==
  /\ pc = "ha"
  /\ sent' = 0
  /\ pc' = IF isConnected THEN "haNext" ELSE "tick"
  /\ UNCHANGED <<link, attempt, flags, cacheCount, broker, drops, rejects>>

Undiscovered == {i \in 0 .. cacheCount - 1 : i \notin ha}
Earliest(S) == CHOOSE i \in S : \A j \in S : i <= j

FirstOfKey(i) == \A j \in 0 .. i - 1 : EntityKey[j] # EntityKey[i]

\* One configuration per key, for its first entry; the result is not looked at.
mqtt_publish_ha_discovery(i) ==
  IF FirstOfKey(i) THEN Publish(got' = [got EXCEPT !.keys = @ \cup {EntityKey[i]}], got)
                   ELSE UNCHANGED <<got, rejects>>

HaOne_one_more ==
  /\ pc = "haNext" /\ Undiscovered # {} /\ sent <= HA_DISCOVERY_PER_TICK
  /\ LET i == Earliest(Undiscovered) IN
       /\ ha' = ha \cup {i}
       /\ mqtt_publish_ha_discovery(i)
  /\ sent' = sent + 1
  /\ UNCHANGED <<link, attempt, pc, announced, discovered, cacheCount, status,
                 willDue, drops>>

HaOne ==
  /\ pc = "haNext" /\ Undiscovered # {} /\ sent < HA_DISCOVERY_PER_TICK
  /\ LET i == Earliest(Undiscovered) IN
       /\ ha' = ha \cup {i}
       /\ mqtt_publish_ha_discovery(i)
  /\ sent' = sent + 1
  /\ UNCHANGED <<link, attempt, pc, announced, discovered, cacheCount, status,
                 willDue, drops>>

HaDone ==
  /\ pc = "haNext" /\ (Undiscovered = {} \/ sent = HA_DISCOVERY_PER_TICK)
  /\ pc' = "tick" /\ sent' = 0
  /\ UNCHANGED <<link, attempt, flags, cacheCount, broker, drops, rejects>>

TickDiscovery ==
  /\ pc = "tick"
  /\ pc' = IF isConnected THEN "tickDiag" ELSE "poll"
  /\ UNCHANGED <<link, attempt, sent, flags, cacheCount, broker, drops, rejects>>

Loop ==
  \/ Poll \/ Birth \/ ReadConnected \/ ReconnectNot \/ ReconnectStart \/ ResetFlags
  \/ Announce \/ (\E item \in Wanted : DiscoverNow(item)) \/ DiscoverNotNow
  \/ HaStart \/ HaOne \/ HaDone \/ TickDiscovery

(***************************************************************************)
(* The sniffer task: update_cache inserts a new name.                      *)
(***************************************************************************)
update_cache ==
  /\ cacheCount < MAX_CACHED_VALS
  /\ cacheCount' = cacheCount + 1
  /\ UNCHANGED <<link, attempt, pc, sent, flags, broker, drops, rejects>>

(***************************************************************************)
(* The network task and the broker.                                        *)
(***************************************************************************)
onConnect ==
  /\ client = "connecting" /\ wifi /\ ~willDue
  /\ client' = "up" /\ pendingConnected' = TRUE
  /\ got' = Nothing
  /\ UNCHANGED <<wifi, pendingDisconnected, attempt, pc, sent, flags, cacheCount,
                 status, willDue, drops, rejects>>

\* An established session breaks: its will is due.
onDisconnect ==
  /\ client = "up" /\ drops < MaxDrops
  /\ client' = "down" /\ pendingDisconnected' = TRUE
  /\ willDue' = TRUE /\ drops' = drops + 1
  /\ UNCHANGED <<wifi, pendingConnected, attempt, pc, sent, flags, cacheCount,
                 status, got, rejects>>

\* An attempt is refused, or ends without a callback.
AttemptFails ==
  /\ client = "connecting" /\ drops < MaxDrops
  /\ client' = "down" /\ drops' = drops + 1
  /\ \E heard \in BOOLEAN : pendingDisconnected' = (pendingDisconnected \/ heard)
  /\ UNCHANGED <<wifi, pendingConnected, attempt, pc, sent, flags, cacheCount,
                 broker, rejects>>

WillPublished ==
  /\ willDue
  /\ status' = "offline" /\ willDue' = FALSE
  /\ UNCHANGED <<link, attempt, pc, sent, flags, cacheCount, got, drops, rejects>>

WifiChange ==
  /\ wifi => drops < MaxDrops
  /\ wifi' = ~wifi /\ drops' = IF wifi THEN drops + 1 ELSE drops
  /\ UNCHANGED <<client, pendingConnected, pendingDisconnected, attempt, pc, sent,
                 flags, cacheCount, broker, rejects>>

TimePasses ==
  /\ attempted /\ attemptAge < AgeCap
  /\ attemptAge' = attemptAge + 1
  /\ UNCHANGED <<link, attempted, connectionAttemptPending, pc, sent, flags,
                 cacheCount, broker, drops, rejects>>

Network == onConnect \/ onDisconnect \/ AttemptFails \/ WillPublished \/ WifiChange

Next == Loop \/ update_cache \/ Network \/ TimePasses

Spec == Init /\ [][Next]_vars

\* loop() runs forever and time passes; a retry interval ends; WiFi comes back,
\* the broker publishes a due will and accepts an attempt that goes on.
Fairness ==
  /\ WF_vars(Loop) /\ WF_vars(TimePasses)
  /\ \A item \in {"diag", "home"} : SF_vars(DiscoverNow(item))
  /\ WF_vars(WifiChange /\ ~wifi)
  /\ WF_vars(WillPublished) /\ WF_vars(onConnect)

LiveSpec == Spec /\ Fairness
-----------------------------------------------------------------------------
(***************************************************************************)
(* Properties.                                                             *)
(***************************************************************************)
LinkType ==
  /\ wifi \in BOOLEAN /\ client \in {"down", "connecting", "up"}
  /\ pendingConnected \in BOOLEAN /\ pendingDisconnected \in BOOLEAN
  /\ attempted \in BOOLEAN /\ attemptAge \in 0 .. AgeCap
  /\ connectionAttemptPending \in BOOLEAN
  /\ drops \in 0 .. MaxDrops /\ rejects \in 0 .. MaxRejects

LoopType ==
  /\ pc \in {"poll", "birth", "read", "reconnect", "reset", "announce", "ha", "haNext", "tick"}
              \cup DOMAIN ItemAt
  /\ sent \in 0 .. HA_DISCOVERY_PER_TICK

FlagType ==
  /\ announced \in BOOLEAN /\ discovered \subseteq Wanted
  /\ cacheCount \in 0 .. MAX_CACHED_VALS /\ ha \subseteq 0 .. cacheCount - 1

BrokerType ==
  /\ status \in {"online", "offline"} /\ willDue \in BOOLEAN
  /\ got \in [device : BOOLEAN, discovery : SUBSET Wanted, keys : SUBSET Keys]

\* The type of every variable; only cached entries are marked discovered.
TypeOK == LinkType /\ LoopType /\ FlagType /\ BrokerType

\* An attempt still in flight is left alone for CONNECT_GUARD, although an event
\* older than the attempt, polled after it, ends the wait for its answer early.
InFlightNotOverlapped ==
  [][pc = "reconnect" /\ client = "connecting" /\ attemptAge < CONNECT_GUARD =>
       attemptAge' >= attemptAge /\ (connectionAttemptPending' => connectionAttemptPending)]_vars

\* The manager always comes back: no event, lost or late, blocks reconnecting.
Reconnects == []<>(isConnected)

NeverRefused == [](rejects = 0)

\* Birth: while the client refuses nothing, a session that stays up ends with
\* "online" retained on the broker, however the last session's will is delayed
\* and whatever order the connection events are polled in.
BirthWins == NeverRefused /\ <>[](isConnected) => <>[](status = "online")

\* While the client refuses nothing, a session that stays up announces the
\* device and every cached value under its entity key, also those cached in the
\* middle of a pass and those announced in an earlier session.
EverythingAnnounced ==
  NeverRefused /\ <>[](isConnected) =>
    <>[](got.device /\ \A i \in 0 .. cacheCount - 1 : EntityKey[i] \in got.keys)

\* Discovery of the diagnostics and derived entities is retried on transient
\* publish failures.
DiscoveryRetried == <>[](isConnected) => <>[](got.discovery = Wanted)
=============================================================================
