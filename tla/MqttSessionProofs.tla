-------------------------- MODULE MqttSessionProofs --------------------------
(***************************************************************************)
(* Theorems about MqttSession for every throttle, guard, share of a pass   *)
(* and size of the cache.                                                  *)
(***************************************************************************)
EXTENDS MqttSession, WellFoundedInduction, TLAPS

-----------------------------------------------------------------------------
(***************************************************************************)
(* The inductive invariant.                                                *)
(***************************************************************************)
\* A client is only ever connecting on account of an attempt that is timed.
AttemptTimed == client = "connecting" => attempted

SessionInv == TypeOK /\ AttemptTimed

-----------------------------------------------------------------------------
(***************************************************************************)
(* Constants, and the choice of an entry.                                  *)
(***************************************************************************)
LEMMA Cap ==
  AgeCap \in Nat /\ AgeCap >= CONNECT_GUARD /\ AgeCap >= RECONNECT_THROTTLE
BY TimeAssumption DEF AgeCap

LEMMA EarliestOf ==
  ASSUME NEW S \in SUBSET Nat, S # {}
  PROVE  Earliest(S) \in S
<1>1. PICK n \in S : \A m \in S : ~(<<m, n>> \in OpToRel(<, Nat))
  BY NatLessThanWellFounded, WFMin
<1>2. ASSUME NEW m \in S PROVE n <= m
  <2>1. <<m, n>> \in Nat \X Nat
    OBVIOUS
  <2>2. ~(m < n)
    BY <1>1, <2>1, Zenon DEF OpToRel
  <2> QED
    BY <2>2
<1> QED
  BY <1>2 DEF Earliest

\* The entry announced next is a cached one, not announced before.
LEMMA EarliestEntry ==
  ASSUME FlagType, Undiscovered # {}
  PROVE  Earliest(Undiscovered) \in 0 .. cacheCount - 1
<1>1. Undiscovered \in SUBSET Nat /\ Undiscovered \subseteq 0 .. cacheCount - 1
  BY DiscoveryAssumption DEF Undiscovered, FlagType
<1> QED
  BY <1>1, EarliestOf

-----------------------------------------------------------------------------
(***************************************************************************)
(* Types.                                                                  *)
(***************************************************************************)
\* What is counted and timed, apart from the connection and its events.
CountType == attemptAge \in 0 .. AgeCap /\ drops \in 0 .. MaxDrops /\ rejects \in 0 .. MaxRejects

EventType ==
  /\ wifi \in BOOLEAN /\ client \in {"down", "connecting", "up"}
  /\ pendingConnected \in BOOLEAN /\ pendingDisconnected \in BOOLEAN
  /\ attempted \in BOOLEAN /\ connectionAttemptPending \in BOOLEAN

LEMMA LinkParts == LinkType <=> CountType /\ EventType
BY DEF LinkType, CountType, EventType

LEMMA InitInv == Init => SessionInv
<1> SUFFICES ASSUME Init PROVE SessionInv
  OBVIOUS
<1>1. CountType
  BY Cap, BoundAssumption DEF Init, CountType
<1>2. EventType
  BY DEF Init, EventType
<1>3. LoopType
  BY DiscoveryAssumption DEF Init, LoopType
<1>4. FlagType
  <2>1. cacheCount \in 0 .. MAX_CACHED_VALS
    BY DiscoveryAssumption DEF Init
  <2> QED
    BY <2>1 DEF Init, FlagType
<1>5. BrokerType
  BY DEF Init, BrokerType, Nothing
<1>6. AttemptTimed
  BY DEF Init, AttemptTimed
<1> QED
  BY <1>1, <1>2, <1>3, <1>4, <1>5, <1>6, LinkParts DEF SessionInv, TypeOK

LEMMA CountStep ==
  ASSUME CountType, [Next]_vars
  PROVE  CountType'
<1> USE Cap, BoundAssumption DEF CountType
<1>1. CASE Birth \/ Announce \/ (\E item \in Wanted : DiscoverNow(item)) \/ HaOne
  <2>1. UNCHANGED <<attemptAge, drops>>
    BY <1>1 DEF Birth, Announce, DiscoverNow, HaOne, attempt
  <2>2. rejects' \in 0 .. MaxRejects
    BY <1>1 DEF Birth, Announce, mqtt_announce_device, DiscoverNow, Discover, HaOne, mqtt_publish_ha_discovery, Publish
  <2> QED
    BY <2>1, <2>2
<1>2. CASE Poll \/ ReadConnected \/ ReconnectNot \/ ReconnectStart \/ ResetFlags \/ DiscoverNotNow
           \/ HaStart \/ HaDone \/ TickDiscovery \/ update_cache \/ UNCHANGED vars
  <2>1. UNCHANGED <<drops, rejects>> /\ attemptAge' \in {attemptAge, 0}
    BY <1>2 DEF Poll, ReadConnected, ReconnectNot, ReconnectStart, ResetFlags, DiscoverNotNow, HaStart, HaDone,
        TickDiscovery, update_cache, attempt, vars
  <2> QED
    BY <2>1
<1>3. CASE Network
  <2>1. /\ attemptAge' = attemptAge /\ rejects' = rejects
        /\ drops' = drops \/ (drops < MaxDrops /\ drops' = drops + 1)
    <3>1. CASE WifiChange
      <4>1. IF wifi THEN drops < MaxDrops /\ drops' = drops + 1 ELSE drops' = drops
        BY <3>1, Zenon DEF WifiChange
      <4> QED
        BY <3>1, <4>1 DEF WifiChange, attempt
    <3>2. CASE onConnect \/ onDisconnect
      BY <3>2 DEF onConnect, onDisconnect, attempt
    <3>3. CASE AttemptFails \/ WillPublished
      BY <3>3 DEF AttemptFails, WillPublished, attempt
    <3> QED
      BY <1>3, <3>1, <3>2, <3>3 DEF Network
  <2> QED
    BY <2>1
<1>4. CASE TimePasses
  BY <1>4 DEF TimePasses
<1> QED
  BY <1>1, <1>2, <1>3, <1>4 DEF Next, Loop

LEMMA EventStep ==
  ASSUME EventType, AttemptTimed, [Next]_vars
  PROVE  EventType' /\ AttemptTimed'
<1> USE DEF EventType, AttemptTimed
<1>1. CASE Poll
  BY <1>1, Zenon DEF Poll
<1>2. CASE ReconnectNot
  BY <1>2, Zenon DEF ReconnectNot, link
<1>3. CASE ReconnectStart
  BY <1>3 DEF ReconnectStart
<1>4. CASE onConnect \/ onDisconnect
  BY <1>4 DEF onConnect, onDisconnect, attempt
<1>5. CASE AttemptFails
  BY <1>5 DEF AttemptFails, attempt
<1>6. CASE WifiChange
  BY <1>6 DEF WifiChange, attempt
<1>7. CASE ~(Poll \/ ReconnectNot \/ ReconnectStart \/ onConnect \/ onDisconnect \/ AttemptFails \/ WifiChange)
  <2>1. UNCHANGED <<link, attempted, connectionAttemptPending>>
    BY <1>7 DEF Next, Loop, Birth, ReadConnected, ResetFlags, Announce, DiscoverNow, DiscoverNotNow, HaStart, HaOne,
        HaDone, TickDiscovery, update_cache, Network, WillPublished, TimePasses, vars, attempt
  <2> QED
    BY <2>1 DEF link
<1> QED
  BY <1>1, <1>2, <1>3, <1>4, <1>5, <1>6, <1>7

LEMMA LoopStep ==
  ASSUME TypeOK, [Next]_vars
  PROVE  LoopType'
<1> USE DiscoveryAssumption DEF TypeOK, LoopType
<1>1. CASE (\E item \in Wanted : DiscoverNow(item)) \/ DiscoverNotNow
  <2>1. pc \in DOMAIN ItemAt /\ pc' = After[pc] /\ sent' = sent
    BY <1>1 DEF DiscoverNow, DiscoverNotNow
  <2> QED
    BY <2>1 DEF ItemAt, After
<1>2. CASE ~((\E item \in Wanted : DiscoverNow(item)) \/ DiscoverNotNow)
  BY <1>2 DEF Next, Loop, Poll, Birth, ReadConnected, ReconnectNot, ReconnectStart, ResetFlags, Announce, HaStart,
      HaOne, HaDone, TickDiscovery, update_cache, Network, onConnect, onDisconnect, AttemptFails, WillPublished,
      WifiChange, TimePasses, vars, ItemAt
<1> QED
  BY <1>1, <1>2

LEMMA FlagStep ==
  ASSUME TypeOK, [Next]_vars
  PROVE  FlagType'
<1> USE DiscoveryAssumption DEF TypeOK, FlagType
<1>1. CASE \E item \in Wanted : DiscoverNow(item)
  BY <1>1 DEF DiscoverNow, Discover, link, attempt
<1>2. CASE HaOne
  <2>1. /\ ha' = ha \cup {Earliest(Undiscovered)} /\ Undiscovered # {}
        /\ UNCHANGED <<announced, discovered, cacheCount>>
    BY <1>2 DEF HaOne
  <2> QED
    BY <2>1, EarliestEntry
<1>3. CASE update_cache
  BY <1>3 DEF update_cache, flags
<1>4. CASE Announce \/ ResetFlags
  BY <1>4 DEF Announce, ResetFlags
<1>5. CASE ~((\E item \in Wanted : DiscoverNow(item)) \/ HaOne \/ update_cache \/ Announce \/ ResetFlags)
  <2>1. UNCHANGED <<flags, cacheCount>>
    BY <1>5 DEF Next, Loop, Poll, Birth, ReadConnected, ReconnectNot, ReconnectStart, DiscoverNotNow, HaStart, HaDone,
        TickDiscovery, Network, onConnect, onDisconnect, AttemptFails, WillPublished, WifiChange, TimePasses, vars
  <2> QED
    BY <2>1 DEF flags
<1> QED
  BY <1>1, <1>2, <1>3, <1>4, <1>5

LEMMA BrokerStep ==
  ASSUME TypeOK, [Next]_vars
  PROVE  BrokerType'
<1> USE DEF TypeOK, BrokerType
<1>1. CASE Announce
  BY <1>1 DEF Announce, mqtt_announce_device, Publish
<1>2. CASE \E item \in Wanted : DiscoverNow(item)
  BY <1>2 DEF DiscoverNow, Discover
<1>3. CASE HaOne
  <2> DEFINE i == Earliest(Undiscovered)
  <2>1. i \in CacheIndex
    BY <1>3, EarliestEntry, DiscoveryAssumption DEF HaOne, FlagType, CacheIndex
  <2>2. EntityKey[i] \in Keys
    BY <2>1 DEF Keys
  <2>3. /\ got' = got \/ got' = [got EXCEPT !.keys = @ \cup {EntityKey[i]}]
        /\ UNCHANGED <<status, willDue>>
    BY <1>3 DEF HaOne, mqtt_publish_ha_discovery, Publish
  <2> QED
    BY <2>2, <2>3
<1>4. CASE Birth
  BY <1>4 DEF Birth, Publish
<1>5. CASE Network
  <2>1. /\ status' \in {status, "offline"} /\ got' \in {got, Nothing}
        /\ willDue' = willDue \/ willDue' \in BOOLEAN
    BY <1>5 DEF Network, onConnect, onDisconnect, AttemptFails, WillPublished, WifiChange, broker
  <2>2. willDue' \in BOOLEAN
    BY <2>1, Zenon
  <2>3. Nothing \in [device : BOOLEAN, discovery : SUBSET Wanted, keys : SUBSET Keys]
    BY Zenon DEF Nothing
  <2> QED
    BY <2>1, <2>2, <2>3
<1>6. CASE ~(Announce \/ (\E item \in Wanted : DiscoverNow(item)) \/ HaOne \/ Birth \/ Network)
  <2>1. UNCHANGED broker
    BY <1>6 DEF Next, Loop, Poll, ReadConnected, ReconnectNot, ReconnectStart, ResetFlags, DiscoverNotNow, HaStart,
        HaDone, TickDiscovery, update_cache, TimePasses, vars
  <2> QED
    BY <2>1 DEF broker
<1> QED
  BY <1>1, <1>2, <1>3, <1>4, <1>5, <1>6

THEOREM SessionInvariant == Spec => []SessionInv
<1>1. SessionInv /\ [Next]_vars => SessionInv'
  <2> SUFFICES ASSUME SessionInv, [Next]_vars PROVE SessionInv'
    OBVIOUS
  <2>1. CountType' /\ EventType' /\ AttemptTimed'
    BY CountStep, EventStep, LinkParts DEF SessionInv, TypeOK
  <2>2. LinkType'
    BY <2>1 DEF LinkType, CountType, EventType
  <2> QED
    BY <2>1, <2>2, LoopStep, FlagStep, BrokerStep DEF SessionInv, TypeOK
<1> QED
  BY <1>1, InitInv, PTL DEF Spec

\* Every variable of the session keeps its type: a pass announces no more than
\* its share, and only cached entries are marked discovered.
THEOREM TypeCorrect == Spec => []TypeOK
<1>1. SessionInv => TypeOK
  BY DEF SessionInv
<1> QED
  BY <1>1, SessionInvariant, PTL

-----------------------------------------------------------------------------
(***************************************************************************)
(* Reconnecting.                                                           *)
(***************************************************************************)
\* MQTTManager::reconnect leaves an attempt in flight alone for CONNECT_GUARD:
\* if an old event has ended the wait for it, the throttle still holds.
THEOREM InFlightNotOverlappedAlways == Spec => InFlightNotOverlapped
<1> DEFINE LeftAlone == pc = "reconnect" /\ client = "connecting" /\ attemptAge < CONNECT_GUARD =>
                          attemptAge' >= attemptAge /\ (connectionAttemptPending' => connectionAttemptPending)
<1>1. SessionInv /\ [Next]_vars => [LeftAlone]_vars
  <2> SUFFICES ASSUME SessionInv, [Next]_vars,
                      pc = "reconnect", client = "connecting", attemptAge < CONNECT_GUARD
               PROVE  attemptAge' >= attemptAge /\ (connectionAttemptPending' => connectionAttemptPending)
    OBVIOUS
  <2>1. attempted /\ attemptAge \in Nat
    BY Cap DEF SessionInv, AttemptTimed, TypeOK, LinkType
  <2>2. ~ReconnectStart
    BY <2>1, TimeAssumption, GuardAssumption DEF ReconnectStart, Throttled
  <2>3. CASE ReconnectNot
    <3>1. attemptAge' = attemptAge
      BY <2>3 DEF ReconnectNot
    <3>2. connectionAttemptPending' => connectionAttemptPending
      BY <2>3, Zenon DEF ReconnectNot, Guarded
    <3> QED
      BY <2>1, <3>1, <3>2
  <2>4. CASE Network \/ update_cache \/ TimePasses \/ UNCHANGED vars
    <3>1. connectionAttemptPending' = connectionAttemptPending /\ attemptAge' \in {attemptAge, attemptAge + 1}
      BY <2>4 DEF Network, onConnect, onDisconnect, AttemptFails, WillPublished, WifiChange, update_cache,
          TimePasses, vars, attempt
    <3> QED
      BY <2>1, <3>1
  <2>5. CASE Loop
    <3>1. ReconnectNot
      BY <2>2, <2>5 DEF Loop, Poll, Birth, ReadConnected, ResetFlags, Announce, DiscoverNow, DiscoverNotNow, HaStart,
          HaOne, HaDone, TickDiscovery, ItemAt
    <3> QED
      BY <2>3, <3>1
  <2> QED
    BY <2>4, <2>5 DEF Next
<1> QED
  BY <1>1, SessionInvariant, PTL DEF Spec, InFlightNotOverlapped
=============================================================================
