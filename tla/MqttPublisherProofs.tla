------------------------- MODULE MqttPublisherProofs -------------------------
(***************************************************************************)
(* Theorems about MqttPublisher for every number of groups and tiers,      *)
(* every assignment of one to the other, all intervals and all bounds.     *)
(***************************************************************************)
EXTENDS MqttPublisher, WellFoundedInduction, TLAPS

-----------------------------------------------------------------------------
(***************************************************************************)
(* The inductive invariant.                                                *)
(***************************************************************************)
\* Steps of flush_group whose slot is group g's, and those whose payload is.
SlotOwned == {"flush", "clearEmpty", "serialize", "clear"}
PayloadOwned == {"clear", "pubState"}

\* A buffer holds a value of its group, but for the one that mqtt_tick has
\* named after another group and not cleared yet.
BufferOfOwnGroup ==
  \A i \in Groups : bufs[i].doc.v = 0 \/ bufs[i].doc.of = bufs[i].group \/ (pc = "claimClear" /\ i = slot)

\* The slot mqtt_tick works on cannot be claimed by the sniffer task any more.
SlotIsOwn ==
  /\ pc \in {"claimGroup", "claimClear"} \cup SlotOwned => bufs[slot].active
  /\ pc \in {"claimClear"} \cup SlotOwned => bufs[slot].group = g

PayloadIsOwn == pc \in PayloadOwned => payload.v = 0 \/ payload.of = g

\* now2 is read after now, and forgotten once it has been used.
Now2Later == now2Age <= nowAge /\ (pc # "confirm" => now2Age = 0)

GroupNamed == pc \notin {"idle", "tier", "group", "watch"} => g \in Groups

\* Only the loop over the tiers runs past the last one.
TierNamed == pc # "tier" => tier \in Tiers

TopicInv == TypeOK /\ TierNamed /\ Now2Later /\ BufferOfOwnGroup /\ SlotIsOwn /\ PayloadIsOwn /\ TopicOfOwnGroup

-----------------------------------------------------------------------------
(***************************************************************************)
(* Constants, and the choice of a slot.                                    *)
(***************************************************************************)
LEMMA GroupFacts ==
  /\ Groups \subseteq Nat /\ 0 \in Groups /\ GRP_COUNT \in Nat
  /\ \A h \in Groups : h + 1 \in 0 .. GRP_COUNT
  /\ \A h \in 0 .. GRP_COUNT : h # GRP_COUNT => h \in Groups
BY CountAssumption DEF Groups

LEMMA LeastOf ==
  ASSUME NEW S \in SUBSET Groups, S # {}
  PROVE  Least(S) \in S /\ \A m \in S : Least(S) <= m
<1>1. S \in SUBSET Nat
  BY GroupFacts
<1>2. \E n \in S : \A m \in S : n <= m
  <2>1. PICK n \in S : \A m \in S : ~(<<m, n>> \in OpToRel(<, Nat))
    BY <1>1, NatLessThanWellFounded, WFMin
  <2>2. ASSUME NEW m \in S PROVE n <= m
    <3>1. ~(m < n)
      <4>1. <<m, n>> \in Nat \X Nat
        BY <1>1
      <4> QED
        BY <2>1, <4>1, Zenon DEF OpToRel
    <3> QED
      BY <1>1, <3>1
  <2> QED
    BY <2>2
<1> QED
  BY <1>2 DEF Least

\* Ages are compared with natural numbers.
LEMMA Limits ==
  /\ \A h \in Groups : Watchdog(h) \in Nat /\ SeenCap(h) \in Nat
  /\ \A t \in Tiers : tier_interval[t] \in Nat /\ TierCap(t) \in Nat
<1>1. ASSUME NEW h \in Groups PROVE tier_interval[group_tier[h]] \in Nat
  BY ConfigAssumption
<1> QED
  BY <1>1, ConfigAssumption, BoundAssumption DEF Watchdog, SeenCap, TierCap

LEMMA EmptyDoc == Empty \in Doc /\ Empty.v = 0
BY GroupFacts, BoundAssumption DEF Empty, Doc

-----------------------------------------------------------------------------
(***************************************************************************)
(* What each task does to the buffers.                                     *)
(***************************************************************************)

\* The sniffer task fills the group's buffer or claims an inactive one, and
\* leaves the others, and every claimed buffer's group, alone.
LEMMA Accumulated ==
  ASSUME BufferType, NEW h \in Groups, NEW v \in Nat, Accumulate(h, v)
  PROVE  /\ bufs' \in [Groups -> Buffer]
         /\ \A i \in Groups :
              \/ bufs'[i] = bufs[i]
              \/ /\ bufs'[i] = [group |-> h, active |-> TRUE, doc |-> [of |-> h, v |-> v]]
                 /\ bufs[i].active => bufs[i].group = h
<1> DEFINE doc == [of |-> h, v |-> v]
           new == [group |-> h, active |-> TRUE, doc |-> doc]
<1>1. new \in Buffer
  BY DEF Buffer, Doc
<1>2. CASE Holding(h) # {}
  <2>1. PICK i \in Groups : i = Least(Holding(h)) /\ i \in Holding(h)
    BY <1>2, LeastOf DEF Holding
  <2>2. bufs' = [bufs EXCEPT ![i].doc = doc]
    BY <1>2, <2>1 DEF Accumulate
  <2>3. bufs[i] \in Buffer /\ bufs[i].active /\ bufs[i].group = h
    BY <2>1 DEF Holding, BufferType
  <2>4. bufs'[i] = new
    BY <2>2, <2>3 DEF BufferType, Buffer
  <2>5. \A j \in Groups : j # i => bufs'[j] = bufs[j]
    BY <2>2 DEF BufferType
  <2>6. bufs' \in [Groups -> Buffer]
    BY <1>1, <2>2, <2>4, <2>5 DEF BufferType
  <2> QED
    BY <2>3, <2>4, <2>5, <2>6
<1>3. CASE Holding(h) = {} /\ Inactive # {}
  <2>1. PICK i \in Groups : i = Least(Inactive) /\ i \in Inactive
    BY <1>3, LeastOf DEF Inactive
  <2>2. bufs' = [bufs EXCEPT ![i] = new]
    BY <1>3, <2>1 DEF Accumulate
  <2> QED
    BY <1>1, <2>1, <2>2 DEF BufferType, Inactive
<1>4. CASE Holding(h) = {} /\ Inactive = {}
  BY <1>4 DEF Accumulate, BufferType
<1> QED
  BY <1>2, <1>3, <1>4

\* mqtt_tick assigns to one field of its slot at a time.
LEMMA SlotField ==
  ASSUME BufferType, TickType
  PROVE  /\ ClaimActive => /\ bufs' \in [Groups -> Buffer]
                           /\ bufs'[slot] = [bufs[slot] EXCEPT !.active = TRUE]
         /\ ClaimGroup /\ g \in Groups => /\ bufs' \in [Groups -> Buffer]
                                          /\ bufs'[slot] = [bufs[slot] EXCEPT !.group = g]
         /\ ClaimClear \/ ClearEmpty \/ Clear => /\ bufs' \in [Groups -> Buffer]
                                                 /\ bufs'[slot] = [bufs[slot] EXCEPT !.doc = Empty]
         /\ ClaimActive \/ ClaimGroup \/ ClaimClear \/ ClearEmpty \/ Clear =>
              \A i \in Groups : i # slot => bufs'[i] = bufs[i]
<1>1. slot \in Groups /\ bufs[slot] \in Buffer
  BY DEF BufferType, TickType
<1>2. ASSUME ClaimActive
      PROVE  bufs' = [bufs EXCEPT ![slot] = [bufs[slot] EXCEPT !.active = TRUE]]
  BY <1>2 DEF ClaimActive
<1>3. ASSUME ClaimGroup
      PROVE  bufs' = [bufs EXCEPT ![slot] = [bufs[slot] EXCEPT !.group = g]]
  BY <1>3 DEF ClaimGroup
<1>4. ASSUME ClaimClear \/ ClearEmpty \/ Clear
      PROVE  bufs' = [bufs EXCEPT ![slot] = [bufs[slot] EXCEPT !.doc = Empty]]
  BY <1>4 DEF ClaimClear, ClearEmpty, Clear
<1>5. [bufs[slot] EXCEPT !.active = TRUE] \in Buffer
  BY <1>1 DEF Buffer
<1>6. g \in Groups => [bufs[slot] EXCEPT !.group = g] \in Buffer
  BY <1>1 DEF Buffer
<1>7. [bufs[slot] EXCEPT !.doc = Empty] \in Buffer
  BY <1>1, EmptyDoc DEF Buffer
<1>8. ClaimActive => /\ bufs' \in [Groups -> Buffer]
                     /\ bufs'[slot] = [bufs[slot] EXCEPT !.active = TRUE]
                     /\ \A i \in Groups : i # slot => bufs'[i] = bufs[i]
  BY <1>1, <1>2, <1>5 DEF BufferType
<1>9. ClaimGroup => /\ g \in Groups => bufs' \in [Groups -> Buffer]
                    /\ bufs'[slot] = [bufs[slot] EXCEPT !.group = g]
                    /\ \A i \in Groups : i # slot => bufs'[i] = bufs[i]
  BY <1>1, <1>3, <1>6 DEF BufferType
<1>10. ClaimClear \/ ClearEmpty \/ Clear =>
         /\ bufs' \in [Groups -> Buffer]
         /\ bufs'[slot] = [bufs[slot] EXCEPT !.doc = Empty]
         /\ \A i \in Groups : i # slot => bufs'[i] = bufs[i]
  BY <1>1, <1>4, <1>7 DEF BufferType
<1> QED
  BY <1>8, <1>9, <1>10

\* Every other step leaves the buffers alone.
LEMMA BuffersUntouched ==
  ASSUME [Next]_vars, ~(\E h \in Groups : mqtt_publish_value(h)),
         ~(ClaimActive \/ ClaimGroup \/ ClaimClear \/ ClearEmpty \/ Clear)
  PROVE  bufs' = bufs
BY DEF Next, mqtt_tick, TickStart, TierSkip, TierFire, TiersDone, GroupSkip, GroupFlush, GroupsDone, FindSlot,
       FreeSlot, SizeCheck, Serialize, PubState, PubOnline, MarkOnline, WatchSkip, WatchStale, Now2, Confirm,
       PubOffline, WatchDone, TimePasses, Disconnect, Connect, vars, shared

-----------------------------------------------------------------------------
(***************************************************************************)
(* Types.                                                                  *)
(***************************************************************************)

\* What the sniffer task stores is a value of its group.
LEMMA NewestInRange ==
  ASSUME TypeOK, NEW h \in Groups, mqtt_publish_value(h)
  PROVE  latest'[h] \in Nat /\ Accumulate(h, latest'[h])
BY BoundAssumption DEF mqtt_publish_value, TypeOK, SniffedType

LEMMA BufferStep ==
  ASSUME TypeOK, [Next]_vars
  PROVE  BufferType'
<1>1. CASE \E h \in Groups : mqtt_publish_value(h)
  BY <1>1, NewestInRange, Accumulated DEF TypeOK, BufferType
<1>2. CASE ClaimActive \/ ClaimGroup \/ ClaimClear \/ ClearEmpty \/ Clear
  <2>1. ClaimGroup => g \in Groups
    BY DEF ClaimGroup, TypeOK
  <2> QED
    BY <1>2, <2>1, SlotField DEF TypeOK, BufferType
<1>3. CASE /\ ~\E h \in Groups : mqtt_publish_value(h)
           /\ ~(ClaimActive \/ ClaimGroup \/ ClaimClear \/ ClearEmpty \/ Clear)
  BY <1>3, BuffersUntouched DEF TypeOK, BufferType
<1> QED
  BY <1>1, <1>2, <1>3

LEMMA SniffedStep ==
  ASSUME TypeOK, [Next]_vars
  PROVE  SniffedType'
<1> USE DEF TypeOK, SniffedType
<1>1. CASE \E h \in Groups : mqtt_publish_value(h)
  <2>1. PICK h \in Groups : mqtt_publish_value(h)
    BY <1>1
  <2>2. latest[h] + 1 \in Nat
    BY <2>1, BoundAssumption DEF mqtt_publish_value
  <2>3. latest' \in [Groups -> Nat]
    BY <2>1, <2>2 DEF mqtt_publish_value
  <2>4. seen' \in [Groups -> BOOLEAN] /\ offline' \in [Groups -> BOOLEAN]
    BY <2>1 DEF mqtt_publish_value
  <2> QED
    BY <2>3, <2>4
<1>2. CASE MarkOnline \/ Confirm
  <2>1. offline' = offline \/ \E b \in BOOLEAN : offline' = [offline EXCEPT ![g] = b]
    BY <1>2 DEF MarkOnline, Confirm
  <2>2. latest' = latest /\ seen' = seen
    BY <1>2 DEF MarkOnline, Confirm, sniffed
  <2> QED
    BY <2>1, <2>2
<1>3. CASE /\ ~\E h \in Groups : mqtt_publish_value(h)
           /\ ~(MarkOnline \/ Confirm)
  <2>1. latest' = latest /\ seen' = seen /\ offline' = offline
    BY <1>3 DEF Next, mqtt_tick, TickStart, TierSkip, TierFire, TiersDone, GroupSkip, GroupFlush, GroupsDone,
        FindSlot, FreeSlot, ClaimActive, ClaimGroup, ClaimClear, SizeCheck, ClearEmpty, Serialize, Clear, PubState,
        PubOnline, WatchSkip, WatchStale, Now2, PubOffline, WatchDone, TimePasses, Disconnect, Connect,
        vars, shared, sniffed
  <2> QED
    BY <2>1
<1> QED
  BY <1>1, <1>2, <1>3

\* Ages grow up to their limit; the clock of a pass is read when it begins and,
\* for the confirmation, once more.
LEMMA AgeStep ==
  ASSUME TypeOK, Now2Later, [Next]_vars
  PROVE  AgeType' /\ Now2Later'
<1> USE DEF TypeOK, AgeType, Now2Later
<1>1. CASE \E h \in Groups : mqtt_publish_value(h)
  <2>1. PICK h \in Groups : mqtt_publish_value(h)
    BY <1>1
  <2>2. seenAge' = [seenAge EXCEPT ![h] = 0] /\ UNCHANGED <<tierAge, pc, nowAge, now2Age>>
    BY <2>1 DEF mqtt_publish_value, clock
  <2>3. seenAge' \in [Groups -> Nat] /\ \A i \in Groups : seenAge'[i] <= SeenCap(i)
    BY <2>2, Limits
  <2> QED
    BY <2>2, <2>3
<1>2. CASE TimePasses
  <2>1. seenAge' = [h \in Groups |-> IF seen[h] THEN Older(seenAge[h], SeenCap(h)) ELSE 0]
    BY <1>2 DEF TimePasses
  <2>2. \A h \in Groups : SeenCap(h) \in Nat /\ seenAge[h] \in Nat /\ seenAge[h] <= SeenCap(h)
    BY Limits
  <2>3. \A h \in Groups : seenAge'[h] \in Nat /\ seenAge'[h] <= SeenCap(h)
    BY <2>1, <2>2 DEF Older
  <2>4. seenAge' \in [Groups -> Nat]
    BY <2>1, <2>2 DEF Older
  <2>5. tierAge' = [t \in Tiers |-> Older(tierAge[t], TierCap(t))]
    BY <1>2 DEF TimePasses
  <2>6. \A t \in Tiers : TierCap(t) \in Nat /\ tierAge[t] \in Nat /\ tierAge[t] <= TierCap(t)
    BY Limits
  <2>7. tierAge' \in [Tiers -> Nat] /\ \A t \in Tiers : tierAge'[t] <= TierCap(t)
    BY <2>5, <2>6 DEF Older
  <2>8. /\ nowAge' = IF pc = "idle" THEN 0 ELSE nowAge + 1
        /\ now2Age' = IF pc = "confirm" THEN now2Age + 1 ELSE 0
        /\ pc # "idle" => nowAge < MaxPass
        /\ pc' = pc
    BY <1>2 DEF TimePasses
  <2>9. nowAge' \in 0 .. MaxPass /\ now2Age' <= nowAge' /\ now2Age' \in Nat
    BY <2>8, BoundAssumption
  <2>10. now2Age' \in 0 .. MaxPass /\ (pc' # "confirm" => now2Age' = 0)
    BY <2>8, <2>9, BoundAssumption
  <2> QED
    BY <2>3, <2>4, <2>7, <2>9, <2>10
<1>3. CASE TierFire
  <2>0. tier \in Tiers
    BY <1>3 DEF TierFire
  <2>1. nowAge <= TierCap(tier) /\ nowAge \in Nat
    BY <2>0, Limits, BoundAssumption DEF TierCap
  <2>2. tierAge' = [tierAge EXCEPT ![tier] = nowAge] /\ seenAge' = seenAge /\ nowAge' = nowAge /\ now2Age' = now2Age
    BY <1>3 DEF TierFire, sniffed, clock
  <2>3. tierAge' \in [Tiers -> Nat] /\ \A t \in Tiers : tierAge'[t] <= TierCap(t)
    BY <2>0, <2>1, <2>2
  <2>4. pc' # "confirm" /\ pc # "confirm"
    BY <1>3 DEF TierFire
  <2> QED
    BY <2>2, <2>3, <2>4
<1>4. CASE TickStart \/ TiersDone \/ WatchDone \/ Now2 \/ Confirm
  <2>1. seenAge' = seenAge /\ tierAge' = tierAge
    BY <1>4 DEF TickStart, TiersDone, WatchDone, Now2, Confirm, shared, sniffed
  <2>2. nowAge' \in {0, nowAge} /\ now2Age' = 0
    BY <1>4 DEF TickStart, TiersDone, WatchDone, Now2, Confirm
  <2> QED
    BY <2>1, <2>2, BoundAssumption
<1>5. CASE /\ ~\E h \in Groups : mqtt_publish_value(h)
           /\ ~(TimePasses \/ TierFire \/ TickStart \/ TiersDone \/ WatchDone \/ Now2 \/ Confirm)
  <2>1. UNCHANGED <<seenAge, tierAge, nowAge, now2Age>> /\ (pc' = pc \/ (pc # "confirm" /\ pc' # "confirm"))
    BY <1>5 DEF Next, mqtt_tick, TierSkip, GroupSkip, GroupFlush, GroupsDone,
        FindSlot, FreeSlot, ClaimActive, ClaimGroup, ClaimClear, SizeCheck, ClearEmpty, Serialize, Clear, PubState,
        PubOnline, MarkOnline, WatchSkip, WatchStale, PubOffline, Disconnect, Connect,
        vars, shared, sniffed, clock
  <2> QED
    BY <2>1
<1> QED
  BY <1>1, <1>2, <1>3, <1>4, <1>5

\* Where mqtt_tick goes next, and the group and tier it has then.
LEMMA TickStep ==
  ASSUME TypeOK, TierNamed, [Next]_vars
  PROVE  TickType' /\ GroupNamed' /\ TierNamed'
<1> USE DEF TypeOK, TickType, TierNamed
<1>1. CASE \/ UNCHANGED <<pc, local>>
           \/ (pc' \in {"claimGroup", "claimClear", "flush", "serialize", "clearEmpty", "mark", "now2", "confirm"}
                 /\ pc \notin {"idle", "tier", "group", "watch"} /\ UNCHANGED local)
  BY <1>1 DEF GroupNamed, local
<1>2. CASE \E h \in Groups : mqtt_publish_value(h)
  BY <1>1, <1>2 DEF mqtt_publish_value
<1>3. CASE TimePasses \/ Disconnect \/ Connect \/ UNCHANGED vars
  BY <1>1, <1>3 DEF TimePasses, Disconnect, Connect, vars
<1>4. CASE ClaimActive \/ ClaimGroup \/ ClaimClear \/ SizeCheck \/ PubOnline \/ Now2
  BY <1>1, <1>4 DEF ClaimActive, ClaimGroup, ClaimClear, SizeCheck, PubOnline, Now2
<1>5. CASE TickStart \/ TierSkip \/ TierFire \/ TiersDone \/ GroupsDone
  <2>1. /\ pc' \in {"tier", "group", "watch", "idle"}
        /\ g' \in {g, 0}
        /\ slot' = slot /\ payload' = payload
    BY <1>5 DEF TickStart, TierSkip, TierFire, TiersDone, GroupsDone, local
  <2>2. \/ tier' = 0
        \/ tier \in Tiers /\ (tier' = tier \/ (tier' = tier + 1 /\ pc' = "tier"))
    <3>1. CASE TierFire
      BY <3>1 DEF TierFire
    <3>2. CASE GroupsDone
      BY <3>2 DEF GroupsDone
    <3>3. CASE TickStart \/ TierSkip \/ TiersDone
      BY <3>3 DEF TickStart, TierSkip, TiersDone
    <3> QED
      BY <1>5, <3>1, <3>2, <3>3
  <2>3. tier' \in 0 .. TIER_COUNT /\ (pc' # "tier" => tier' \in Tiers)
    BY <2>2, CountAssumption DEF Tiers
  <2>4. g' \in 0 .. GRP_COUNT
    BY <2>1, CountAssumption
  <2> QED
    BY <2>1, <2>3, <2>4 DEF GroupNamed
<1>6. CASE GroupSkip \/ GroupFlush \/ WatchSkip \/ WatchStale \/ WatchDone
  <2>1. /\ pc' \in {"group", "find", "watch", "now2", "idle"}
        /\ pc # "tier" /\ tier' = tier /\ slot' = slot /\ payload' = payload
        /\ g' = 0 \/ (g \in Groups /\ g' = g + 1) \/ (g \in Groups /\ g' = g)
        /\ pc' \in {"find", "now2"} => g \in Groups /\ g' = g
    BY <1>6 DEF GroupSkip, GroupFlush, WatchSkip, WatchStale, WatchDone, local
  <2>2. g' \in 0 .. GRP_COUNT
    BY <2>1, GroupFacts
  <2> QED
    BY <2>1, <2>2 DEF GroupNamed
<1>7. CASE FindSlot \/ FreeSlot
  <2>1. g \in Groups /\ pc # "tier" /\ UNCHANGED <<tier, payload>>
    BY <1>7 DEF FindSlot, FreeSlot
  <2>2. slot' \in Groups
    BY <1>7, LeastOf DEF FindSlot, FreeSlot, Holding, Inactive
  <2>3. \/ pc' \in {"flush", "free", "claim"} /\ g' = g
        \/ pc' = "group" /\ g' = g + 1
    BY <1>7 DEF FindSlot, FreeSlot
  <2>4. g' \in 0 .. GRP_COUNT
    BY <2>1, <2>3, GroupFacts
  <2> QED
    BY <2>1, <2>2, <2>3, <2>4 DEF GroupNamed
<1>8. CASE ClearEmpty \/ Serialize \/ Clear \/ PubState \/ MarkOnline \/ Confirm \/ PubOffline
  <2>1. g \in Groups /\ pc # "tier" /\ tier' = tier
    BY <1>8 DEF ClearEmpty, Serialize, Clear, PubState, MarkOnline, Confirm, PubOffline
  <2>2. slot' \in Groups
    BY <1>8, GroupFacts DEF ClearEmpty, Serialize, Clear, PubState, MarkOnline, Confirm, PubOffline
  <2>3. payload' \in Doc
    BY <1>8, EmptyDoc DEF ClearEmpty, Serialize, Clear, PubState, MarkOnline, Confirm, PubOffline, BufferType, Buffer
  <2>4. \/ pc' \in {"clear", "pubState", "pubOnline", "pubOffline"} /\ g' = g
        \/ pc' \in {"group", "watch"} /\ g' = g + 1
    BY <1>8 DEF ClearEmpty, Serialize, Clear, PubState, MarkOnline, Confirm, PubOffline
  <2>5. g' \in 0 .. GRP_COUNT
    BY <2>1, <2>4, GroupFacts
  <2> QED
    BY <2>1, <2>2, <2>3, <2>4, <2>5 DEF GroupNamed
<1> QED
  BY <1>2, <1>3, <1>4, <1>5, <1>6, <1>7, <1>8 DEF Next, mqtt_tick

\* What the broker holds changes by a publication only.
LEMMA BrokerStep ==
  ASSUME TypeOK, [Next]_vars
  PROVE  BrokerType'
<1> USE DEF TypeOK, BrokerType
<1>1. ASSUME faults < MaxFaults PROVE faults + 1 \in 0 .. MaxFaults
  BY <1>1, BoundAssumption
<1>2. CASE PubState
  <2>1. state' = state \/ state' = [state EXCEPT ![g] = payload]
    BY <1>2 DEF PubState, Publish
  <2>2. state' \in [Groups -> Doc]
    BY <2>1 DEF TickType
  <2>3. faults' = faults \/ (faults < MaxFaults /\ faults' = faults + 1)
    BY <1>2 DEF PubState, Publish
  <2>4. UNCHANGED <<avail, connected>>
    BY <1>2 DEF PubState
  <2> QED
    BY <1>1, <2>2, <2>3, <2>4
<1>3. CASE PubOnline \/ PubOffline
  <2>1. avail' = avail \/ \E a \in {"online", "offline"} : avail' = [avail EXCEPT ![g] = a]
    BY <1>3 DEF PubOnline, PubOffline, Publish
  <2>2. avail' \in [Groups -> {"none", "online", "offline"}]
    BY <2>1
  <2>3. faults' = faults \/ (faults < MaxFaults /\ faults' = faults + 1)
    BY <1>3 DEF PubOnline, PubOffline, Publish
  <2>4. UNCHANGED <<state, connected>>
    BY <1>3 DEF PubOnline, PubOffline
  <2> QED
    BY <1>1, <2>2, <2>3, <2>4
<1>4. CASE Disconnect \/ Connect
  BY <1>1, <1>4 DEF Disconnect, Connect, broker
<1>5. CASE ~(PubState \/ PubOnline \/ PubOffline \/ Disconnect \/ Connect)
  <2>1. UNCHANGED <<state, avail, connected, faults>>
    BY <1>5 DEF Next, mqtt_publish_value, mqtt_tick, TickStart, TierSkip, TierFire, TiersDone, GroupSkip, GroupFlush,
        GroupsDone, FindSlot, FreeSlot, ClaimActive, ClaimGroup, ClaimClear, SizeCheck, ClearEmpty, Serialize, Clear,
        MarkOnline, WatchSkip, WatchStale, Now2, Confirm, WatchDone, TimePasses, vars, world, broker
  <2> QED
    BY <2>1
<1> QED
  BY <1>2, <1>3, <1>4, <1>5

-----------------------------------------------------------------------------
(***************************************************************************)
(* Whose value a buffer, a payload and a topic hold.                       *)
(***************************************************************************)

\* A value of another group stays in a claimed slot until mqtt_tick clears it,
\* and the sniffer task never takes a slot that is claimed.
LEMMA BufferOwnerStep ==
  ASSUME TopicInv, [Next]_vars
  PROVE  BufferOfOwnGroup' /\ SlotIsOwn'
<1> USE DEF TopicInv, BufferOfOwnGroup, SlotIsOwn, SlotOwned
<1>1. BufferType /\ TickType /\ slot \in Groups /\ \A i \in Groups : bufs[i] \in Buffer
  BY DEF TypeOK, BufferType, TickType
<1>2. CASE \E h \in Groups : mqtt_publish_value(h)
  <2>1. PICK h \in Groups : mqtt_publish_value(h)
    BY <1>2
  <2>2. UNCHANGED <<pc, slot, g>>
    BY <2>1 DEF mqtt_publish_value, local
  <2>3. \A i \in Groups :
          \/ bufs'[i] = bufs[i]
          \/ /\ bufs'[i] = [group |-> h, active |-> TRUE, doc |-> [of |-> h, v |-> latest'[h]]]
             /\ bufs[i].active => bufs[i].group = h
    BY <1>1, <2>1, NewestInRange, Accumulated
  <2>4. \A i \in Groups : bufs'[i] = bufs[i]
                            \/ (/\ bufs'[i].active /\ bufs'[i].group = h /\ bufs'[i].doc.of = h
                                /\ bufs[i].active => bufs[i].group = h)
    BY <2>3
  <2>5. BufferOfOwnGroup'
    BY <2>2, <2>4
  <2>6. SlotIsOwn'
    BY <1>1, <2>2, <2>4
  <2> QED
    BY <2>5, <2>6
<1>3. CASE ClaimActive
  <2>1. pc' = "claimGroup" /\ slot' = slot /\ pc = "claim"
    BY <1>3 DEF ClaimActive, local
  <2>2. /\ bufs'[slot].active /\ bufs'[slot].group = bufs[slot].group /\ bufs'[slot].doc = bufs[slot].doc
        /\ \A i \in Groups : i # slot => bufs'[i] = bufs[i]
    BY <1>1, <1>3, SlotField DEF Buffer
  <2> QED
    BY <1>1, <2>1, <2>2
<1>4. CASE ClaimGroup
  <2>1. pc' = "claimClear" /\ slot' = slot /\ g' = g /\ pc = "claimGroup" /\ g \in Groups
    BY <1>4 DEF ClaimGroup, local, TypeOK
  <2>2. /\ bufs'[slot].active = bufs[slot].active /\ bufs'[slot].group = g
        /\ \A i \in Groups : i # slot => bufs'[i] = bufs[i]
    BY <1>1, <1>4, <2>1, SlotField DEF Buffer
  <2> QED
    BY <1>1, <2>1, <2>2
<1>5. CASE ClaimClear \/ ClearEmpty \/ Clear
  <2>1. /\ pc \in {"claimClear", "clearEmpty", "clear"} /\ pc' \in {"flush", "group", "pubState"}
        /\ pc' = "flush" => pc = "claimClear" /\ slot' = slot /\ g' = g
    BY <1>5 DEF ClaimClear, ClearEmpty, Clear, local
  <2>2. /\ bufs'[slot].active = bufs[slot].active /\ bufs'[slot].group = bufs[slot].group
        /\ bufs'[slot].doc.v = 0
        /\ \A i \in Groups : i # slot => bufs'[i] = bufs[i]
    BY <1>1, <1>5, SlotField, EmptyDoc DEF Buffer
  <2> QED
    BY <1>1, <2>1, <2>2
<1>6. CASE FindSlot
  <2>1. bufs' = bufs /\ g' = g /\ pc = "find" /\ pc' \in {"flush", "free"}
    BY <1>6 DEF FindSlot, shared
  <2>2. pc' = "flush" => slot' \in Holding(g)
    BY <1>6, LeastOf DEF FindSlot, Holding
  <2>3. pc' = "flush" => bufs[slot'].active /\ bufs[slot'].group = g
    BY <2>2 DEF Holding
  <2> QED
    BY <2>1, <2>3
<1>7. CASE /\ ~\E h \in Groups : mqtt_publish_value(h)
           /\ ~(ClaimActive \/ ClaimGroup \/ ClaimClear \/ ClearEmpty \/ Clear \/ FindSlot)
  <2>1. bufs' = bufs
    BY <1>7, BuffersUntouched
  <2>2. \/ UNCHANGED <<pc, slot, g>>
        \/ pc \in SlotOwned /\ pc' \in SlotOwned /\ UNCHANGED <<slot, g>>
        \/ pc # "claimClear" /\ pc' \notin {"claimGroup", "claimClear"} \cup SlotOwned
    BY <1>7 DEF Next, mqtt_tick, TickStart, TierSkip, TierFire, TiersDone, GroupSkip, GroupFlush, GroupsDone, FreeSlot,
        SizeCheck, Serialize, PubState, PubOnline, MarkOnline, WatchSkip, WatchStale, Now2, Confirm, PubOffline,
        WatchDone, TimePasses, Disconnect, Connect, vars, local
  <2> QED
    BY <2>1, <2>2
<1> QED
  BY <1>2, <1>3, <1>4, <1>5, <1>6, <1>7

\* Every step that is none of the publication's leaves payload and topics alone.
LEMMA TopicStep ==
  ASSUME TopicInv, [Next]_vars
  PROVE  PayloadIsOwn' /\ TopicOfOwnGroup'
<1> USE DEF TopicInv, PayloadIsOwn, PayloadOwned, TopicOfOwnGroup, IsEmpty
<1>1. CASE Serialize
  <2>1. pc = "serialize" /\ payload' = bufs[slot].doc /\ UNCHANGED <<g, state>>
    BY <1>1 DEF Serialize, world, broker
  <2>2. slot \in Groups
    BY DEF TypeOK, TickType
  <2>3. bufs[slot].doc.v = 0 \/ bufs[slot].doc.of = bufs[slot].group
    BY <2>1, <2>2 DEF BufferOfOwnGroup
  <2>4. bufs[slot].group = g
    BY <2>1 DEF SlotIsOwn, SlotOwned
  <2> QED
    BY <2>1, <2>3, <2>4
<1>2. CASE Clear
  <2>1. pc = "clear" /\ UNCHANGED <<g, payload, state>>
    BY <1>2 DEF Clear, world, broker
  <2> QED
    BY <2>1
<1>3. CASE PubState
  <2>1. pc = "pubState" /\ pc' = "pubOnline"
    BY <1>3 DEF PubState
  <2>2. state' = state \/ state' = [state EXCEPT ![g] = payload]
    BY <1>3 DEF PubState, Publish
  <2>3. state \in [Groups -> Doc]
    BY DEF TypeOK, BrokerType
  <2>4. \A h \in Groups : h # g => state'[h] = state[h]
    BY <2>2, <2>3
  <2>5. g \in Groups => state'[g] = state[g] \/ state'[g] = payload
    BY <2>2, <2>3
  <2> QED
    BY <2>1, <2>4, <2>5
<1>4. CASE ~(Serialize \/ Clear \/ PubState)
  <2>1. /\ UNCHANGED state
        /\ UNCHANGED <<pc, g, payload>> \/ pc' \notin {"clear", "pubState"}
    BY <1>4 DEF Next, mqtt_publish_value, mqtt_tick, TickStart, TierSkip, TierFire, TiersDone, GroupSkip, GroupFlush,
        GroupsDone, FindSlot, FreeSlot, ClaimActive, ClaimGroup, ClaimClear, SizeCheck, ClearEmpty, PubOnline,
        MarkOnline, WatchSkip, WatchStale, Now2, Confirm, PubOffline, WatchDone, TimePasses, Disconnect, Connect,
        vars, local, world, broker
  <2> QED
    BY <2>1
<1> QED
  BY <1>1, <1>2, <1>3, <1>4

-----------------------------------------------------------------------------
(***************************************************************************)
(* The theorems.                                                           *)
(***************************************************************************)

\* Nothing is stored, claimed or published when the firmware starts.
LEMMA InitTopic ==
  ASSUME Init
  PROVE  TopicInv
<1> USE GroupFacts, EmptyDoc DEF Init
<1>1. BufferType /\ TickType /\ BrokerType
  BY CountAssumption, BoundAssumption DEF BufferType, TickType, BrokerType, Buffer
<1>2. SniffedType
  BY BoundAssumption DEF SniffedType
<1>3. AgeType /\ Now2Later
  BY Limits, BoundAssumption DEF AgeType, Now2Later
<1>4. TierNamed
  BY CountAssumption DEF TierNamed, Tiers
<1>5. BufferOfOwnGroup /\ SlotIsOwn /\ PayloadIsOwn /\ TopicOfOwnGroup
  BY DEF BufferOfOwnGroup, SlotIsOwn, PayloadIsOwn, TopicOfOwnGroup, SlotOwned, PayloadOwned, IsEmpty
<1> QED
  BY <1>1, <1>2, <1>3, <1>4, <1>5 DEF TopicInv, TypeOK

\* Every step of the sniffer task, of mqtt_tick, of time and of the network
\* preserves what the two tasks rely on.
THEOREM TopicInvariant == Spec => []TopicInv
<1>1. Init => TopicInv
  BY InitTopic
<1>2. TopicInv /\ [Next]_vars => TopicInv'
  <2> SUFFICES ASSUME TopicInv, [Next]_vars PROVE TopicInv'
    OBVIOUS
  <2>1. TypeOK /\ TierNamed /\ Now2Later
    BY DEF TopicInv
  <2>2. BufferType' /\ SniffedType' /\ AgeType' /\ TickType' /\ BrokerType' /\ GroupNamed'
    BY <2>1, BufferStep, SniffedStep, AgeStep, TickStep, BrokerStep
  <2>3. TypeOK'
    BY <2>2 DEF TypeOK, GroupNamed
  <2>4. TierNamed' /\ Now2Later'
    BY <2>1, TickStep, AgeStep
  <2> QED
    BY <2>3, <2>4, BufferOwnerStep, TopicStep DEF TopicInv
<1> QED
  BY <1>1, <1>2, PTL DEF Spec

\* Every variable of mqtt_publish_value and mqtt_tick keeps its type, and the
\* group and tier a pass works on exist.
THEOREM TypeCorrect == Spec => []TypeOK
<1>1. TopicInv => TypeOK
  BY DEF TopicInv
<1> QED
  BY <1>1, TopicInvariant, PTL

\* flush_group publishes only values of the topic's group, however the sniffer
\* task preempts get_group_buf, for every number of groups.
THEOREM TopicOfOwnGroupAlways == Spec => []TopicOfOwnGroup
<1>1. TopicInv => TopicOfOwnGroup
  BY DEF TopicInv
<1> QED
  BY <1>1, TopicInvariant, PTL

-----------------------------------------------------------------------------
(***************************************************************************)
(* Availability while nothing was lost.                                    *)
(***************************************************************************)

\* Without a fault a pass that began to publish stays connected.
Reached == faults = 0 /\ pc \notin {"idle", "tier"} => connected

\* flush_group goes on only with something to publish, and what is published
\* is not forgotten.
Filled ==
  /\ pc = "serialize" => bufs[slot].doc.v # 0
  /\ pc \in PayloadOwned => payload.v # 0
  /\ faults = 0 /\ pc \in {"pubOnline", "mark"} => state[g].v # 0

\* A group flagged offline is offline on the broker, or about to be, or about
\* to lose the flag.
Flagged ==
  faults = 0 => \A h \in Groups :
    offline[h] => avail[h] = "offline" \/ (pc \in {"pubOffline", "mark"} /\ g = h)

AvailInv == TopicInv /\ Reached /\ Filled /\ Flagged /\ OnlineOnlyWithData

\* Faults are only counted up.
LEMMA FaultsGrow ==
  ASSUME BrokerType, [Next]_vars, faults' = 0
  PROVE  faults = 0
<1>1. UNCHANGED faults \/ (faults \in Nat /\ faults' = faults + 1)
  <2>1. faults \in Nat
    BY BoundAssumption DEF BrokerType
  <2> QED
    BY <2>1 DEF Next, mqtt_publish_value, mqtt_tick, TickStart, TierSkip, TierFire, TiersDone, GroupSkip, GroupFlush,
        GroupsDone, FindSlot, FreeSlot, ClaimActive, ClaimGroup, ClaimClear, SizeCheck, ClearEmpty, Serialize, Clear,
        PubState, PubOnline, MarkOnline, WatchSkip, WatchStale, Now2, Confirm, PubOffline, WatchDone, TimePasses,
        Disconnect, Connect, Publish, vars, world
<1> QED
  BY <1>1

LEMMA ReachedStep ==
  ASSUME BrokerType, Reached, [Next]_vars
  PROVE  Reached'
<1> SUFFICES ASSUME faults' = 0, pc' \notin {"idle", "tier"}
             PROVE  connected'
  BY DEF Reached
<1>1. faults = 0
  BY FaultsGrow
<1>2. CASE Disconnect
  BY <1>1, <1>2 DEF Disconnect
<1>3. CASE Connect
  BY <1>3 DEF Connect
<1>4. CASE TierFire \/ TiersDone
  BY <1>4 DEF TierFire, TiersDone, world
<1>5. CASE ~(Disconnect \/ Connect \/ TierFire \/ TiersDone)
  <2>1. connected' = connected /\ pc \notin {"idle", "tier"}
    BY <1>5 DEF Next, mqtt_publish_value, mqtt_tick, TickStart, TierSkip, GroupSkip, GroupFlush, GroupsDone, FindSlot,
        FreeSlot, ClaimActive, ClaimGroup, ClaimClear, SizeCheck, ClearEmpty, Serialize, Clear, PubState, PubOnline,
        MarkOnline, WatchSkip, WatchStale, Now2, Confirm, PubOffline, WatchDone, TimePasses, vars, world
  <2> QED
    BY <1>1, <2>1 DEF Reached
<1> QED
  BY <1>2, <1>3, <1>4, <1>5

\* Without a fault, a publication in a pass reaches the broker.
LEMMA Delivered ==
  ASSUME Reached, faults = 0, faults' = 0
  PROVE  /\ PubState => state' = [state EXCEPT ![g] = payload]
         /\ PubOnline => avail' = [avail EXCEPT ![g] = "online"]
         /\ PubOffline => avail' = [avail EXCEPT ![g] = "offline"]
BY DEF Reached, PubState, PubOnline, PubOffline, Publish

\* A value once stored stays until mqtt_tick itself clears its slot.
LEMMA FilledStep ==
  ASSUME TopicInv, Reached, Filled, [Next]_vars
  PROVE  Filled'
<1>1. TypeOK /\ slot \in Groups /\ BufferType /\ state \in [Groups -> Doc] /\ payload \in Doc
  BY DEF TopicInv, TypeOK, TickType, BrokerType
<1>2. pc' = "serialize" => bufs'[slot'].doc.v # 0
  <2>1. CASE \E h \in Groups : mqtt_publish_value(h)
    <3>1. PICK h \in Groups : mqtt_publish_value(h)
      BY <2>1
    <3>2. UNCHANGED <<pc, slot>> /\ latest' = [latest EXCEPT ![h] = @ + 1]
      BY <3>1 DEF mqtt_publish_value, local
    <3>3. latest'[h] # 0
      BY <1>1, <3>2 DEF TypeOK, SniffedType
    <3>4. bufs'[slot] = bufs[slot] \/ bufs'[slot] = [group |-> h, active |-> TRUE, doc |-> [of |-> h, v |-> latest'[h]]]
      BY <1>1, <3>1, NewestInRange, Accumulated
    <3>5. bufs'[slot].doc = bufs[slot].doc \/ bufs'[slot].doc.v = latest'[h]
      BY <3>4
    <3> QED
      BY <3>2, <3>3, <3>5 DEF Filled
  <2>2. CASE SizeCheck
    BY <2>2 DEF SizeCheck, IsEmpty, shared, local
  <2>3. CASE ~(\E h \in Groups : mqtt_publish_value(h)) /\ ~SizeCheck
    <3>1. pc' = "serialize" => UNCHANGED <<pc, slot, bufs>>
      BY <2>3 DEF Next, mqtt_tick, TickStart, TierSkip, TierFire, TiersDone, GroupSkip, GroupFlush, GroupsDone, FindSlot,
          FreeSlot, ClaimActive, ClaimGroup, ClaimClear, ClearEmpty, Serialize, Clear, PubState, PubOnline, MarkOnline,
          WatchSkip, WatchStale, Now2, Confirm, PubOffline, WatchDone, TimePasses, Disconnect, Connect, vars, shared,
          local
    <3> QED
      BY <3>1 DEF Filled
  <2> QED
    BY <2>1, <2>2, <2>3
<1>3. pc' \in PayloadOwned => payload'.v # 0
  <2>1. CASE Serialize
    BY <2>1 DEF Serialize, Filled
  <2>2. CASE Clear
    BY <2>2 DEF Clear, Filled, PayloadOwned
  <2>3. CASE ~(Serialize \/ Clear)
    <3>1. pc' \in PayloadOwned => UNCHANGED <<pc, payload>>
      BY <2>3 DEF PayloadOwned, Next, mqtt_publish_value, mqtt_tick, TickStart, TierSkip, TierFire, TiersDone, GroupSkip,
          GroupFlush, GroupsDone, FindSlot, FreeSlot, ClaimActive, ClaimGroup, ClaimClear, SizeCheck, ClearEmpty,
          PubState, PubOnline, MarkOnline, WatchSkip, WatchStale, Now2, Confirm, PubOffline, WatchDone, TimePasses,
          Disconnect, Connect, vars, local
    <3> QED
      BY <3>1 DEF Filled
  <2> QED
    BY <2>1, <2>2, <2>3
<1>4. ASSUME faults' = 0, pc' \in {"pubOnline", "mark"}
      PROVE  state'[g'].v # 0
  <2>1. faults = 0
    BY <1>1, <1>4, FaultsGrow DEF TypeOK
  <2>2. CASE PubState
    <3>1. state' = [state EXCEPT ![g] = payload] /\ g' = g /\ g \in Groups /\ payload.v # 0
      BY <1>1, <1>4, <2>1, <2>2, Delivered DEF PubState, TypeOK, Filled, PayloadOwned
    <3> QED
      BY <1>1, <3>1
  <2>3. CASE PubOnline
    <3>1. UNCHANGED <<g, state>> /\ pc = "pubOnline"
      BY <2>3 DEF PubOnline, local
    <3> QED
      BY <2>1, <3>1 DEF Filled
  <2>4. CASE ~(PubState \/ PubOnline)
    <3>1. UNCHANGED <<pc, g, state>>
      BY <1>4, <2>4 DEF Next, mqtt_publish_value, mqtt_tick, TickStart, TierSkip, TierFire, TiersDone, GroupSkip,
          GroupFlush, GroupsDone, FindSlot, FreeSlot, ClaimActive, ClaimGroup, ClaimClear, SizeCheck, ClearEmpty,
          Serialize, Clear, MarkOnline, WatchSkip, WatchStale, Now2, Confirm, PubOffline, WatchDone, TimePasses,
          Disconnect, Connect, vars, local, world, broker
    <3> QED
      BY <1>4, <2>1, <3>1 DEF Filled
  <2> QED
    BY <2>2, <2>3, <2>4
<1> QED
  BY <1>2, <1>3, <1>4 DEF Filled

\* "online" follows a state that was delivered, and states are not withdrawn.
LEMMA OnlineStep ==
  ASSUME TopicInv, Reached, Filled, OnlineOnlyWithData, [Next]_vars
  PROVE  OnlineOnlyWithData'
<1> SUFFICES ASSUME faults' = 0, NEW h \in Groups, avail'[h] = "online"
             PROVE  state'[h].v # 0
  BY DEF OnlineOnlyWithData, IsEmpty
<1>1. TypeOK /\ state \in [Groups -> Doc] /\ avail \in [Groups -> {"none", "online", "offline"}] /\ faults = 0
  BY FaultsGrow DEF TopicInv, TypeOK, BrokerType
<1>2. avail[h] = "online" => state[h].v # 0
  BY <1>1 DEF OnlineOnlyWithData, IsEmpty
<1>3. CASE PubState
  <2>1. state' = [state EXCEPT ![g] = payload] /\ avail' = avail /\ payload.v # 0
    BY <1>1, <1>3, Delivered DEF PubState, Filled, PayloadOwned
  <2> QED
    BY <1>1, <1>2, <2>1
<1>4. CASE PubOnline
  <2>1. avail' = [avail EXCEPT ![g] = "online"] /\ state' = state /\ state[g].v # 0
    BY <1>1, <1>4, Delivered DEF PubOnline, Filled
  <2> QED
    BY <1>1, <1>2, <2>1
<1>5. CASE PubOffline
  <2>1. avail' = [avail EXCEPT ![g] = "offline"] /\ state' = state
    BY <1>1, <1>5, Delivered DEF PubOffline
  <2> QED
    BY <1>1, <1>2, <2>1
<1>6. CASE ~(PubState \/ PubOnline \/ PubOffline)
  <2>1. UNCHANGED <<state, avail>>
    BY <1>6 DEF Next, mqtt_publish_value, mqtt_tick, TickStart, TierSkip, TierFire, TiersDone, GroupSkip, GroupFlush,
        GroupsDone, FindSlot, FreeSlot, ClaimActive, ClaimGroup, ClaimClear, SizeCheck, ClearEmpty, Serialize, Clear,
        MarkOnline, WatchSkip, WatchStale, Now2, Confirm, WatchDone, TimePasses, Disconnect, Connect, vars, world, broker
  <2> QED
    BY <1>2, <2>1
<1> QED
  BY <1>3, <1>4, <1>5, <1>6

\* A flag is only raised to be published, and only a value lowers it while
\* "offline" is on the broker.
LEMMA FlaggedStep ==
  ASSUME TopicInv, Reached, Flagged, [Next]_vars
  PROVE  Flagged'
<1> SUFFICES ASSUME faults' = 0, NEW h \in Groups, offline'[h]
             PROVE  avail'[h] = "offline" \/ (pc' \in {"pubOffline", "mark"} /\ g' = h)
  BY DEF Flagged
<1>1. TypeOK /\ faults = 0 /\ avail \in [Groups -> {"none", "online", "offline"}] /\ offline \in [Groups -> BOOLEAN]
  BY FaultsGrow DEF TopicInv, TypeOK, BrokerType, SniffedType
<1>2. offline[h] => avail[h] = "offline" \/ (pc \in {"pubOffline", "mark"} /\ g = h)
  BY <1>1 DEF Flagged
<1>3. CASE \E i \in Groups : mqtt_publish_value(i)
  <2>1. UNCHANGED <<pc, g, avail>> /\ \E i \in Groups : offline' = [offline EXCEPT ![i] = FALSE]
    BY <1>3 DEF mqtt_publish_value, local, world, broker
  <2>2. offline[h]
    BY <1>1, <2>1
  <2> QED
    BY <1>2, <2>1, <2>2
<1>4. CASE MarkOnline
  <2>1. pc = "mark" /\ avail' = avail /\ offline' = [offline EXCEPT ![g] = FALSE] /\ g \in Groups
    BY <1>1, <1>4 DEF MarkOnline, world, broker, TypeOK
  <2>2. h # g /\ offline[h]
    BY <1>1, <2>1
  <2> QED
    BY <1>2, <2>1, <2>2
<1>5. CASE Confirm
  <2>1. avail' = avail /\ pc = "confirm"
    BY <1>5 DEF Confirm, world, broker
  <2>2. CASE Confirmed
    <3>1. pc' = "pubOffline" /\ g' = g /\ offline' = [offline EXCEPT ![g] = TRUE]
      BY <1>5, <2>2 DEF Confirm
    <3>2. h = g \/ offline[h]
      BY <1>1, <3>1
    <3> QED
      BY <1>2, <2>1, <3>1, <3>2
  <2>3. CASE ~Confirmed
    <3>1. offline' = offline
      BY <1>5, <2>3 DEF Confirm
    <3> QED
      BY <1>2, <2>1, <3>1
  <2> QED
    BY <2>2, <2>3
<1>6. CASE PubOnline
  <2>1. avail' = [avail EXCEPT ![g] = "online"] /\ offline' = offline /\ g' = g /\ pc' = "mark" /\ pc = "pubOnline"
    BY <1>1, <1>6, Delivered DEF PubOnline, shared, local
  <2>2. h # g => avail'[h] = avail[h]
    BY <1>1, <2>1
  <2> QED
    BY <1>2, <2>1, <2>2
<1>7. CASE PubOffline
  <2>1. avail' = [avail EXCEPT ![g] = "offline"] /\ offline' = offline /\ pc = "pubOffline"
    BY <1>1, <1>7, Delivered DEF PubOffline, shared
  <2>2. h = g => avail'[h] = "offline"
    BY <1>1, <2>1
  <2>3. h # g => avail'[h] = avail[h]
    BY <1>1, <2>1
  <2> QED
    BY <1>2, <2>1, <2>2, <2>3
<1>8. CASE ~((\E i \in Groups : mqtt_publish_value(i)) \/ MarkOnline \/ Confirm \/ PubOnline \/ PubOffline)
  <2>1. UNCHANGED <<avail, offline>> /\ (UNCHANGED <<pc, g>> \/ pc \notin {"pubOffline", "mark"})
    BY <1>8 DEF Next, mqtt_tick, TickStart, TierSkip, TierFire, TiersDone, GroupSkip, GroupFlush, GroupsDone, FindSlot,
        FreeSlot, ClaimActive, ClaimGroup, ClaimClear, SizeCheck, ClearEmpty, Serialize, Clear, PubState, WatchSkip,
        WatchStale, Now2, WatchDone, TimePasses, Disconnect, Connect, vars, shared, local, world, broker
  <2> QED
    BY <1>2, <2>1
<1> QED
  BY <1>3, <1>4, <1>5, <1>6, <1>7, <1>8

\* The watchdog and flush_group keep availability and data together.
THEOREM AvailInvariant == Spec => []AvailInv
<1>1. Init => AvailInv
  <2> SUFFICES ASSUME Init PROVE AvailInv
    OBVIOUS
  <2>1. Reached /\ Filled
    BY DEF Init, Reached, Filled, PayloadOwned
  <2>2. Flagged /\ OnlineOnlyWithData
    BY DEF Init, Flagged, OnlineOnlyWithData
  <2> QED
    BY <2>1, <2>2, InitTopic DEF AvailInv
<1>2. AvailInv /\ TopicInv' /\ [Next]_vars => AvailInv'
  <2> SUFFICES ASSUME AvailInv, TopicInv', [Next]_vars PROVE AvailInv'
    OBVIOUS
  <2>1. BrokerType
    BY DEF AvailInv, TopicInv, TypeOK
  <2> QED
    BY <2>1, ReachedStep, FilledStep, FlaggedStep, OnlineStep DEF AvailInv
<1> QED
  BY <1>1, <1>2, TopicInvariant, PTL DEF Spec

\* While nothing was lost, a group flagged offline is offline on the broker
\* between two passes of mqtt_tick.
THEOREM FlagOnBrokerAlways == Spec => []FlagOnBroker
<1>1. AvailInv => FlagOnBroker
  BY DEF AvailInv, Flagged, FlagOnBroker
<1> QED
  BY <1>1, AvailInvariant, PTL

\* While nothing was lost, flush_group never announces a group without data.
THEOREM OnlineOnlyWithDataAlways == Spec => []OnlineOnlyWithData
<1>1. AvailInv => OnlineOnlyWithData
  BY DEF AvailInv
<1> QED
  BY <1>1, AvailInvariant, PTL

-----------------------------------------------------------------------------
(***************************************************************************)
(* Nothing goes out twice.                                                 *)
(***************************************************************************)
\* The buffers of a group, without the slot mqtt_tick is claiming.
Claiming == {"claim", "claimGroup", "claimClear"}
Own(h) == Holding(h) \ (IF pc \in Claiming THEN {slot} ELSE {})

\* The one both scans of get_group_buf find.
First(i, h) == i \in Own(h) /\ \A j \in Own(h) : i <= j

\* What the broker has of the group, or is about to be sent.
Published(h) == IF pc = "pubState" /\ g = h THEN payload.v ELSE state[h].v

\* Nothing is ahead of what was decoded.
NotAhead ==
  /\ \A h \in Groups : state[h].v <= latest[h]
  /\ \A i \in Groups : bufs[i].doc.v # 0 => bufs[i].doc.v <= latest[bufs[i].doc.of]
  /\ pc \in PayloadOwned => payload.v <= latest[g]

\* What waits in a group's first buffer is newer than what was published. A
\* race for the claim can leave the group a second buffer, with an older value:
\* no scan ever finds it.
FirstIsNewer ==
  \A h \in Groups : \A i \in Own(h) :
    First(i, h) => bufs[i].doc.v = 0 \/ bufs[i].doc.v > Published(h)

\* flush_group serialises the group's first buffer, which stays filled.
SlotIsFirst ==
  /\ pc \in SlotOwned => bufs[slot].doc.v = 0 \/ First(slot, g)
  /\ pc \in {"serialize", "clear"} => bufs[slot].doc.v # 0

PayloadIsNewer == pc \in PayloadOwned => payload.v > state[g].v

NewerInv == TopicInv /\ NotAhead /\ FirstIsNewer /\ SlotIsFirst /\ PayloadIsNewer


\* The sniffer task writes to the group's first buffer, or to the only one it
\* then has.
LEMMA AccumulatedFirst ==
  ASSUME BufferType, NEW h \in Groups, NEW v \in Nat, Accumulate(h, v)
  PROVE  \/ bufs' = bufs
         \/ \E i \in Groups :
              /\ bufs' \in [Groups -> Buffer]
              /\ bufs'[i] = [group |-> h, active |-> TRUE, doc |-> [of |-> h, v |-> v]]
              /\ \A j \in Groups : j # i => bufs'[j] = bufs[j]
              /\ \/ i \in Holding(h) /\ \A j \in Holding(h) : i <= j
                 \/ i \in Inactive /\ Holding(h) = {}
<1> DEFINE doc == [of |-> h, v |-> v]
           new == [group |-> h, active |-> TRUE, doc |-> doc]
<1>0. new \in Buffer
  BY DEF Buffer, Doc
<1>1. CASE Holding(h) # {}
  <2>1. PICK i \in Groups : i = Least(Holding(h)) /\ i \in Holding(h) /\ \A j \in Holding(h) : i <= j
    BY <1>1, LeastOf DEF Holding
  <2>2. bufs' = [bufs EXCEPT ![i].doc = doc]
    BY <1>1, <2>1 DEF Accumulate
  <2>3. bufs[i] \in Buffer /\ bufs[i].active /\ bufs[i].group = h
    BY <2>1 DEF Holding, BufferType
  <2>4. bufs'[i] = new
    BY <2>2, <2>3 DEF BufferType, Buffer
  <2>5. \A j \in Groups : j # i => bufs'[j] = bufs[j]
    BY <2>2 DEF BufferType
  <2>6. bufs' \in [Groups -> Buffer]
    BY <1>0, <2>2, <2>4, <2>5 DEF BufferType
  <2> QED
    BY <2>1, <2>4, <2>5, <2>6
<1>2. CASE Holding(h) = {} /\ Inactive # {}
  <2>1. PICK i \in Groups : i = Least(Inactive) /\ i \in Inactive
    BY <1>2, LeastOf DEF Inactive
  <2>2. bufs' = [bufs EXCEPT ![i] = new]
    BY <1>2, <2>1 DEF Accumulate
  <2>3. /\ bufs' \in [Groups -> Buffer] /\ bufs'[i] = new
        /\ \A j \in Groups : j # i => bufs'[j] = bufs[j]
    BY <1>0, <2>2 DEF BufferType
  <2> QED
    BY <1>2, <2>1, <2>3
<1>3. CASE Holding(h) = {} /\ Inactive = {}
  BY <1>3 DEF Accumulate
<1> QED
  BY <1>1, <1>2, <1>3

\* Until a claim is complete, mqtt_tick changes which buffers a group has only
\* in the slot it is claiming.
LEMMA OwnStep ==
  ASSUME TopicInv, [Next]_vars, ~(\E h \in Groups : mqtt_publish_value(h)), ~ClaimClear
  PROVE  \A h \in Groups : Own(h)' = Own(h)
<1> USE DEF Own, Claiming
<1>1. BufferType /\ TickType /\ slot \in Groups /\ bufs \in [Groups -> Buffer]
  BY DEF TopicInv, TypeOK, BufferType, TickType
<1>2. CASE FreeSlot
  <2>1. bufs' = bufs /\ pc = "free"
    BY <1>2 DEF FreeSlot, shared
  <2>2. CASE Inactive # {}
    <3>1. slot' \in Inactive /\ pc' = "claim"
      BY <1>2, <2>2, LeastOf DEF FreeSlot, Inactive
    <3> QED
      BY <2>1, <3>1 DEF Holding, Inactive
  <2>3. CASE Inactive = {}
    <3>1. pc' = "group"
      BY <1>2, <2>3 DEF FreeSlot
    <3> QED
      BY <2>1, <3>1 DEF Holding
  <2> QED
    BY <2>2, <2>3
<1>3. CASE ClaimActive \/ ClaimGroup
  <2>1. /\ pc \in Claiming /\ pc' \in Claiming /\ slot' = slot
        /\ \A i \in Groups : i # slot => bufs'[i] = bufs[i]
    BY <1>1, <1>3, SlotField DEF ClaimActive, ClaimGroup, local
  <2> QED
    BY <2>1 DEF Holding
<1>4. CASE ClearEmpty \/ Clear
  <2>1. /\ bufs'[slot] = [bufs[slot] EXCEPT !.doc = Empty] /\ \A i \in Groups : i # slot => bufs'[i] = bufs[i]
        /\ pc \notin Claiming /\ pc' \notin Claiming
    BY <1>1, <1>4, SlotField DEF ClearEmpty, Clear
  <2>2. bufs'[slot].active = bufs[slot].active /\ bufs'[slot].group = bufs[slot].group
    BY <1>1, <2>1 DEF Buffer
  <2>3. \A i \in Groups : bufs'[i].active = bufs[i].active /\ bufs'[i].group = bufs[i].group
    BY <2>1, <2>2
  <2> QED
    BY <2>1, <2>3 DEF Holding
<1>5. CASE ~(FreeSlot \/ ClaimActive \/ ClaimGroup \/ ClearEmpty \/ Clear)
  <2>1. bufs' = bufs
    BY <1>5, BuffersUntouched
  <2>2. UNCHANGED <<pc, slot>> \/ (pc \notin Claiming /\ pc' \notin Claiming)
    BY <1>5 DEF Next, mqtt_tick, TickStart, TierSkip, TierFire, TiersDone, GroupSkip, GroupFlush, GroupsDone, FindSlot,
        SizeCheck, Serialize, PubState, PubOnline, MarkOnline, WatchSkip, WatchStale, Now2, Confirm, PubOffline,
        WatchDone, TimePasses, Disconnect, Connect, vars, local
  <2> QED
    BY <2>1, <2>2 DEF Holding
<1> QED
  BY <1>2, <1>3, <1>4, <1>5


\* A value is newer than all before it, and stays so until it is published.
LEMMA NotAheadStep ==
  ASSUME TopicInv, NotAhead, [Next]_vars
  PROVE  NotAhead'
<1>1. /\ state \in [Groups -> Doc] /\ latest \in [Groups -> Nat] /\ payload \in Doc /\ slot \in Groups
      /\ bufs \in [Groups -> Buffer]
  BY DEF TopicInv, TypeOK, BrokerType, SniffedType, TickType, BufferType
<1>2. (\A h \in Groups : latest[h] \in Nat /\ state[h].v \in Nat) /\ payload.v \in Nat
  BY <1>1, BoundAssumption DEF Doc
<1>3. \A i \in Groups : bufs[i].doc \in Doc /\ bufs[i].doc.v \in Nat /\ bufs[i].doc.of \in Groups
  BY <1>1, BoundAssumption DEF Buffer, Doc
<1>4. pc \in PayloadOwned => g \in Groups
  BY DEF TopicInv, TypeOK, PayloadOwned
<1>5. CASE \E h \in Groups : mqtt_publish_value(h)
  <2>1. PICK h \in Groups : mqtt_publish_value(h)
    BY <1>5
  <2>2. UNCHANGED <<state, pc, payload, g>> /\ latest' = [latest EXCEPT ![h] = @ + 1]
    BY <2>1 DEF mqtt_publish_value, local, world, broker
  <2>3. \A i \in Groups : latest[i] <= latest'[i] /\ latest'[i] \in Nat
    BY <1>1, <1>2, <2>2
  <2>4. \A i \in Groups : bufs'[i] = bufs[i] \/ bufs'[i].doc = [of |-> h, v |-> latest'[h]]
    <3>1. BufferType /\ latest'[h] \in Nat /\ Accumulate(h, latest'[h])
      BY <2>1, NewestInRange DEF TopicInv, TypeOK
    <3>2. \A i \in Groups : bufs'[i] = bufs[i] \/
            bufs'[i] = [group |-> h, active |-> TRUE, doc |-> [of |-> h, v |-> latest'[h]]]
      BY <3>1, Accumulated
    <3> QED
      BY <3>2
  <2>5. \A i \in Groups : bufs'[i].doc.v # 0 => bufs'[i].doc.v <= latest'[bufs'[i].doc.of]
    <3> SUFFICES ASSUME NEW i \in Groups, bufs'[i].doc.v # 0
                 PROVE  bufs'[i].doc.v <= latest'[bufs'[i].doc.of]
      OBVIOUS
    <3>1. CASE bufs'[i] = bufs[i]
      BY <1>2, <1>3, <2>3, <3>1 DEF NotAhead
    <3>2. CASE bufs'[i].doc = [of |-> h, v |-> latest'[h]]
      BY <2>3, <3>2
    <3> QED
      BY <2>4, <3>1, <3>2
  <2>6. \A i \in Groups : state'[i].v <= latest'[i]
    BY <1>2, <2>2, <2>3 DEF NotAhead
  <2>7. pc' \in PayloadOwned => payload'.v <= latest'[g']
    BY <1>2, <1>4, <2>2, <2>3 DEF NotAhead
  <2> QED
    BY <2>5, <2>6, <2>7 DEF NotAhead
<1>6. CASE Serialize
  <2>1. payload' = bufs[slot].doc /\ pc = "serialize" /\ UNCHANGED <<g, bufs, latest, state>>
    BY <1>6 DEF Serialize, shared, sniffed, world, broker
  <2>2. g \in Groups /\ (bufs[slot].doc.v = 0 \/ bufs[slot].doc.of = g)
    BY <1>1, <2>1 DEF TopicInv, TypeOK, SlotIsOwn, SlotOwned, BufferOfOwnGroup
  <2> QED
    BY <1>1, <1>2, <1>3, <2>1, <2>2 DEF NotAhead
<1>7. CASE PubState
  <2>1. /\ state' = state \/ state' = [state EXCEPT ![g] = payload]
        /\ pc = "pubState" /\ pc' = "pubOnline" /\ UNCHANGED <<bufs, latest>>
    BY <1>7 DEF PubState, Publish, shared, sniffed
  <2>2. payload.v <= latest[g] /\ g \in Groups
    BY <1>4, <2>1 DEF NotAhead, PayloadOwned
  <2>3. \A h \in Groups : state'[h].v <= latest'[h]
    BY <1>1, <2>1, <2>2 DEF NotAhead
  <2> QED
    BY <2>1, <2>3 DEF NotAhead, PayloadOwned
<1>8. CASE ClaimActive \/ ClaimGroup \/ ClaimClear \/ ClearEmpty \/ Clear
  <2>1. UNCHANGED <<latest, state>>
    BY <1>8 DEF ClaimActive, ClaimGroup, ClaimClear, ClearEmpty, Clear, sniffed, world, broker
  <2>2. pc' \in PayloadOwned => pc \in PayloadOwned /\ UNCHANGED <<payload, g>>
    BY <1>8 DEF ClaimActive, ClaimGroup, ClaimClear, ClearEmpty, Clear, PayloadOwned
  <2>3. /\ bufs'[slot].doc \in {bufs[slot].doc, Empty}
        /\ \A i \in Groups : i # slot => bufs'[i] = bufs[i]
    <3>1. /\ \/ bufs'[slot] = [bufs[slot] EXCEPT !.active = TRUE]
             \/ bufs'[slot] = [bufs[slot] EXCEPT !.group = g]
             \/ bufs'[slot] = [bufs[slot] EXCEPT !.doc = Empty]
          /\ \A i \in Groups : i # slot => bufs'[i] = bufs[i]
      BY <1>8, SlotField DEF TopicInv, TypeOK, ClaimGroup
    <3> QED
      BY <1>1, <3>1 DEF Buffer
  <2>4. \A i \in Groups : bufs'[i].doc \in {bufs[i].doc, Empty}
    BY <2>3
  <2> QED
    BY <2>1, <2>2, <2>4, EmptyDoc DEF NotAhead
<1>9. CASE ~((\E h \in Groups : mqtt_publish_value(h)) \/ Serialize \/ PubState \/ ClaimActive \/ ClaimGroup
               \/ ClaimClear \/ ClearEmpty \/ Clear)
  <2>1. bufs' = bufs
    BY <1>9, BuffersUntouched
  <2>2. UNCHANGED <<latest, state>> /\ (pc' \in PayloadOwned => UNCHANGED <<pc, payload, g>>)
    BY <1>9 DEF PayloadOwned, Next, mqtt_tick, TickStart, TierSkip, TierFire, TiersDone, GroupSkip, GroupFlush,
        GroupsDone, FindSlot, FreeSlot, SizeCheck, PubOnline, MarkOnline, WatchSkip, WatchStale, Now2, Confirm,
        PubOffline, WatchDone, TimePasses, Disconnect, Connect, vars, shared, sniffed, local, world, broker
  <2> QED
    BY <2>1, <2>2 DEF NotAhead
<1> QED
  BY <1>5, <1>6, <1>7, <1>8, <1>9

\* What the sniffer task stores is newer than all that was published, and it
\* stores it where flush_group will look.
LEMMA SnifferKeepsFirst ==
  ASSUME TopicInv, NotAhead, FirstIsNewer, SlotIsFirst, NEW h \in Groups, mqtt_publish_value(h)
  PROVE  FirstIsNewer' /\ SlotIsFirst'
<1>1. /\ UNCHANGED <<state, pc, payload, g, slot>> /\ latest' = [latest EXCEPT ![h] = @ + 1]
      /\ slot \in Groups /\ bufs \in [Groups -> Buffer]
  BY DEF mqtt_publish_value, local, world, broker, TopicInv, TypeOK, TickType, BufferType
<1>2. latest'[h] = latest[h] + 1 /\ latest[h] \in Nat
  BY <1>1, BoundAssumption DEF TopicInv, TypeOK, SniffedType
<1>3. /\ Published(h) \in Nat /\ Published(h) <= latest[h]
      /\ \A x \in Groups : Published(x)' = Published(x)
  BY <1>1, <1>2, BoundAssumption DEF Published, NotAhead, PayloadOwned, TopicInv, TypeOK, BrokerType, TickType, Doc
<1>4. CASE bufs' = bufs
  <2>1. /\ \A x \in Groups : Own(x)' = Own(x)
        /\ \A i, x \in Groups : First(i, x)' = First(i, x)
    BY <1>1, <1>4 DEF Own, First, Holding
  <2>2. FirstIsNewer'
    BY <1>3, <1>4, <2>1 DEF FirstIsNewer, Own, Holding
  <2>3. pc \in SlotOwned => g \in Groups
    BY DEF TopicInv, TypeOK, SlotOwned
  <2> QED
    BY <1>1, <1>4, <2>1, <2>2, <2>3 DEF SlotIsFirst
<1>5. CASE bufs' # bufs
  <2>1. PICK i \in Groups :
              /\ bufs' \in [Groups -> Buffer]
              /\ bufs'[i] = [group |-> h, active |-> TRUE, doc |-> [of |-> h, v |-> latest'[h]]]
              /\ \A j \in Groups : j # i => bufs'[j] = bufs[j]
              /\ \/ i \in Holding(h) /\ \A j \in Holding(h) : i <= j
                 \/ i \in Inactive /\ Holding(h) = {}
    BY <1>5, NewestInRange, AccumulatedFirst DEF TopicInv, TypeOK
  <2>2. \A x \in Groups : Holding(x)' = IF x = h THEN Holding(h) \cup {i} ELSE Holding(x)
    BY <2>1 DEF Holding, Inactive
  <2>3. \A x \in Groups : x # h => Own(x)' = Own(x)
    BY <1>1, <2>2 DEF Own
  <2>4. \A j \in Groups : First(j, h)' => j = i \/ First(j, h)
    BY <1>1, <2>1, <2>2 DEF First, Own
  <2>5. FirstIsNewer'
    <3> SUFFICES ASSUME NEW x \in Groups, NEW j \in Own(x)', First(j, x)'
                 PROVE  bufs'[j].doc.v = 0 \/ bufs'[j].doc.v > Published(x)'
      BY DEF FirstIsNewer
    <3>1. j \in Groups
      BY DEF Own, Holding
    <3>2. CASE j = i
      <4>1. x = h /\ bufs'[j].doc.v = latest'[h]
        BY <2>1, <3>2 DEF Own, Holding
      <4> QED
        BY <1>2, <1>3, <4>1
    <3>3. CASE j # i
      <4>1. First(j, x)
        BY <2>3, <2>4, <3>1, <3>3 DEF First
      <4>2. bufs'[j] = bufs[j]
        BY <2>1, <3>1, <3>3
      <4> QED
        BY <1>3, <4>1, <4>2 DEF FirstIsNewer, First
    <3> QED
      BY <3>2, <3>3
  <2>6. SlotIsFirst'
    <3>1. CASE slot = i
      <4>1. bufs'[slot].doc.v = latest'[h] /\ bufs'[slot].doc.v # 0
        BY <1>2, <2>1, <3>1
      <4>2. ASSUME pc \in SlotOwned PROVE First(slot, g)'
        <5>1. bufs[slot].active /\ bufs[slot].group = g /\ g \in Groups
          BY <4>2 DEF TopicInv, TypeOK, SlotIsOwn, SlotOwned
        <5>2. g = h /\ slot \in Holding(h) /\ \A j \in Holding(h) : slot <= j
          BY <2>1, <3>1, <5>1 DEF Holding, Inactive
        <5>3. pc \notin Claiming
          BY <4>2 DEF SlotOwned, Claiming
        <5> QED
          BY <1>1, <2>2, <3>1, <5>2, <5>3 DEF First, Own
      <4> QED
        BY <1>1, <4>1, <4>2 DEF SlotIsFirst
    <3>2. CASE slot # i
      <4>1. bufs'[slot] = bufs[slot]
        BY <1>1, <2>1, <3>2
      <4>2. ASSUME pc \in SlotOwned, First(slot, g) PROVE First(slot, g)'
        <5>1. g \in Groups /\ slot \in Holding(g)
          BY <1>1, <4>2 DEF TopicInv, TypeOK, SlotIsOwn, SlotOwned, Holding
        <5>2. CASE g = h
          BY <1>1, <2>1, <2>2, <4>2, <5>1, <5>2 DEF First, Own
        <5>3. CASE g # h
          BY <1>1, <2>3, <4>2, <5>1, <5>3 DEF First
        <5> QED
          BY <5>2, <5>3
      <4> QED
        BY <1>1, <4>1, <4>2 DEF SlotIsFirst
    <3> QED
      BY <3>1, <3>2
  <2> QED
    BY <2>5, <2>6
<1> QED
  BY <1>4, <1>5


\* A claim ends with an empty buffer: it may be the group's first, or come
\* after the one the sniffer task took in the meantime.
LEMMA ClaimKeepsFirst ==
  ASSUME TopicInv, FirstIsNewer, ClaimClear
  PROVE  FirstIsNewer' /\ SlotIsFirst'
<1>1. /\ pc = "claimClear" /\ pc' = "flush" /\ UNCHANGED <<g, slot, state>>
      /\ slot \in Groups /\ g \in Groups /\ bufs[slot].active /\ bufs[slot].group = g /\ bufs[slot] \in Buffer
      /\ bufs'[slot] = [bufs[slot] EXCEPT !.doc = Empty]
      /\ \A i \in Groups : i # slot => bufs'[i] = bufs[i]
  BY SlotField DEF ClaimClear, local, world, broker, TopicInv, TypeOK, TickType, BufferType, SlotIsOwn
<1>2. bufs'[slot].doc.v = 0 /\ bufs'[slot].active /\ bufs'[slot].group = g
  BY <1>1, EmptyDoc DEF Buffer
<1>3. \A h \in Groups : Own(h)' = IF h = g THEN Own(h) \cup {slot} ELSE Own(h)
  BY <1>1, <1>2 DEF Own, Holding, Claiming
<1>4. \A h \in Groups : Published(h)' = Published(h)
  BY <1>1 DEF Published
<1>5. FirstIsNewer'
  <2> SUFFICES ASSUME NEW h \in Groups, NEW i \in Own(h)', First(i, h)', i # slot
               PROVE  bufs'[i].doc.v = 0 \/ bufs'[i].doc.v > Published(h)'
    BY <1>2 DEF FirstIsNewer
  <2>1. i \in Own(h) /\ First(i, h)
    BY <1>3 DEF First
  <2>2. bufs'[i] = bufs[i]
    BY <1>1, <2>1 DEF Own, Holding
  <2> QED
    BY <1>4, <2>1, <2>2 DEF FirstIsNewer
<1> QED
  BY <1>1, <1>2, <1>5 DEF SlotIsFirst

\* mqtt_tick only empties buffers, and what it sends next is what it cleared.
LEMMA TickKeepsNewer ==
  ASSUME TopicInv, FirstIsNewer, SlotIsFirst, PayloadIsNewer, [Next]_vars,
         ~(\E h \in Groups : mqtt_publish_value(h)), ~ClaimClear
  PROVE  FirstIsNewer'
<1>1. /\ bufs \in [Groups -> Buffer] /\ slot \in Groups /\ payload \in Doc /\ state \in [Groups -> Doc]
      /\ payload.v \in Nat /\ \A h \in Groups : state[h].v \in Nat
  BY BoundAssumption DEF TopicInv, TypeOK, BufferType, TickType, BrokerType, Doc
<1>2. \A h \in Groups : Own(h)' = Own(h)
  BY OwnStep
<1> SUFFICES ASSUME NEW h \in Groups, NEW i \in Own(h)', First(i, h)', bufs'[i].doc.v # 0
             PROVE  bufs'[i].doc.v > Published(h)'
  BY DEF FirstIsNewer
<1>3. i \in Groups /\ i \in Own(h) /\ First(i, h)
  BY <1>2 DEF First, Own, Holding
<1>4. bufs[i].doc.v \in Nat
  BY <1>1, <1>3, BoundAssumption DEF Buffer, Doc
<1>5. bufs'[i].doc = bufs[i].doc /\ ((ClearEmpty \/ Clear) => i # slot)
  <2>1. CASE ClaimActive \/ ClaimGroup \/ ClearEmpty \/ Clear
    <3>1. /\ \/ bufs'[slot] = [bufs[slot] EXCEPT !.active = TRUE] /\ ~(ClearEmpty \/ Clear)
             \/ bufs'[slot] = [bufs[slot] EXCEPT !.group = g] /\ ~(ClearEmpty \/ Clear)
             \/ bufs'[slot] = [bufs[slot] EXCEPT !.doc = Empty]
          /\ \A j \in Groups : j # slot => bufs'[j] = bufs[j]
      BY <2>1, SlotField DEF TopicInv, TypeOK, ClaimGroup, ClaimActive, ClearEmpty, Clear
    <3>2. CASE i = slot
      BY <1>1, <3>1, <3>2, EmptyDoc DEF Buffer
    <3>3. CASE i # slot
      BY <1>3, <3>1, <3>3
    <3> QED
      BY <3>2, <3>3
  <2>2. CASE ~(ClaimActive \/ ClaimGroup \/ ClearEmpty \/ Clear)
    BY <2>2, BuffersUntouched
  <2> QED
    BY <2>1, <2>2
<1>6. bufs[i].doc.v > Published(h)
  BY <1>3, <1>5 DEF FirstIsNewer
<1>7. CASE Clear
  <2>1. pc = "clear" /\ pc' = "pubState" /\ UNCHANGED <<g, payload, state>>
    BY <1>7 DEF Clear, world, broker
  <2>2. bufs[slot].doc.v # 0 /\ First(slot, g)
    BY <2>1 DEF SlotIsFirst, SlotOwned
  <2>3. h # g
    <3> SUFFICES ASSUME h = g PROVE FALSE
      OBVIOUS
    <3>1. i <= slot /\ slot <= i
      BY <1>3, <2>2 DEF First
    <3> QED
      BY <1>1, <1>3, <1>5, <1>7, <3>1, GroupFacts
  <2> QED
    BY <1>5, <1>6, <2>1, <2>3 DEF Published
<1>8. CASE PubState
  <2>1. pc = "pubState" /\ pc' = "pubOnline" /\ (state' = state \/ state' = [state EXCEPT ![g] = payload])
    BY <1>8 DEF PubState, Publish
  <2>2. payload.v > state[g].v
    BY <2>1 DEF PayloadIsNewer, PayloadOwned
  <2>3. Published(h)' \in Nat /\ Published(h)' <= Published(h) /\ Published(h) \in Nat
    <3>1. CASE h = g
      BY <1>1, <2>1, <2>2, <3>1 DEF Published
    <3>2. CASE h # g
      BY <1>1, <2>1, <3>2 DEF Published
    <3> QED
      BY <3>1, <3>2
  <2> QED
    BY <1>4, <1>5, <1>6, <2>3
<1>9. CASE ~(Clear \/ PubState)
  <2>1. state' = state /\ (UNCHANGED <<pc, g, payload>> \/ (pc # "pubState" /\ pc' # "pubState"))
    BY <1>9 DEF Next, mqtt_tick, TickStart, TierSkip, TierFire, TiersDone, GroupSkip, GroupFlush, GroupsDone, FindSlot,
        FreeSlot, ClaimActive, ClaimGroup, ClaimClear, SizeCheck, ClearEmpty, Serialize, PubOnline, MarkOnline,
        WatchSkip, WatchStale, Now2, Confirm, PubOffline, WatchDone, TimePasses, Disconnect, Connect, vars, local,
        world, broker
  <2> QED
    BY <1>5, <1>6, <2>1 DEF Published
<1> QED
  BY <1>7, <1>8, <1>9

\* get_group_buf returns the group's first buffer, or one just cleared.
LEMMA TickKeepsSlot ==
  ASSUME TopicInv, SlotIsFirst, [Next]_vars, ~(\E h \in Groups : mqtt_publish_value(h)), ~ClaimClear
  PROVE  SlotIsFirst'
<1>1. \A h \in Groups : Own(h)' = Own(h)
  BY OwnStep
<1>2. CASE FindSlot
  <2>1. pc = "find" /\ g \in Groups /\ g' = g /\ (pc' \in SlotOwned => Holding(g) # {} /\ slot' = Least(Holding(g)))
    BY <1>2 DEF FindSlot, TopicInv, TypeOK, SlotOwned
  <2>2. pc' \in SlotOwned => slot' \in Holding(g) /\ \A j \in Holding(g) : slot' <= j
    BY <2>1, LeastOf DEF Holding
  <2>3. Own(g) = Holding(g)
    BY <2>1 DEF Own, Claiming
  <2>4. pc' \notin {"serialize", "clear"}
    BY <1>2 DEF FindSlot
  <2>5. pc' \in SlotOwned => First(slot, g)'
    BY <1>1, <2>1, <2>2, <2>3 DEF First
  <2> QED
    BY <2>4, <2>5 DEF SlotIsFirst
<1>3. CASE ~FindSlot
  <2>1. /\ pc' \in SlotOwned => pc \in SlotOwned /\ UNCHANGED <<slot, g, bufs>>
        /\ pc' \in {"serialize", "clear"} => bufs[slot].doc.v # 0 \/ pc \in {"serialize", "clear"}
    BY <1>3 DEF SlotOwned, Next, mqtt_tick, TickStart, TierSkip, TierFire, TiersDone, GroupSkip, GroupFlush, GroupsDone,
        FreeSlot, ClaimActive, ClaimGroup, ClaimClear, SizeCheck, IsEmpty, ClearEmpty, Serialize, Clear, PubState,
        PubOnline, MarkOnline, WatchSkip, WatchStale, Now2, Confirm, PubOffline, WatchDone, TimePasses, Disconnect,
        Connect, vars, shared, local
  <2>2. pc' \in SlotOwned /\ First(slot, g) => First(slot, g)'
    <3>1. pc \in SlotOwned => g \in Groups
      BY DEF TopicInv, TypeOK, SlotOwned
    <3> QED
      BY <1>1, <2>1, <3>1 DEF First
  <2> QED
    BY <2>1, <2>2 DEF SlotIsFirst, SlotOwned
<1> QED
  BY <1>2, <1>3

\* What is serialised is the group's first buffer.
LEMMA PayloadNewerStep ==
  ASSUME TopicInv, FirstIsNewer, SlotIsFirst, PayloadIsNewer, [Next]_vars
  PROVE  PayloadIsNewer'
<1>1. CASE Serialize
  <2>1. pc = "serialize" /\ payload' = bufs[slot].doc /\ UNCHANGED <<g, state>>
    BY <1>1 DEF Serialize, world, broker
  <2>2. g \in Groups /\ bufs[slot].doc.v # 0 /\ First(slot, g)
    BY <2>1 DEF SlotIsFirst, SlotOwned, TopicInv, TypeOK
  <2>3. bufs[slot].doc.v > Published(g)
    BY <2>2 DEF FirstIsNewer, First
  <2> QED
    BY <2>1, <2>3 DEF Published, PayloadIsNewer
<1>2. CASE ~Serialize
  <2>1. pc' \in PayloadOwned => pc \in PayloadOwned /\ UNCHANGED <<payload, g, state>>
    BY <1>2 DEF PayloadOwned, Next, mqtt_publish_value, mqtt_tick, TickStart, TierSkip, TierFire, TiersDone, GroupSkip,
        GroupFlush, GroupsDone, FindSlot, FreeSlot, ClaimActive, ClaimGroup, ClaimClear, SizeCheck, ClearEmpty, Clear,
        PubState, PubOnline, MarkOnline, WatchSkip, WatchStale, Now2, Confirm, PubOffline, WatchDone, TimePasses,
        Disconnect, Connect, vars, local, world, broker
  <2> QED
    BY <2>1 DEF PayloadIsNewer
<1> QED
  BY <1>1, <1>2

THEOREM NewerInvariant == Spec => []NewerInv
<1>1. Init => NewerInv
  <2> SUFFICES ASSUME Init PROVE NewerInv
    OBVIOUS
  <2>1. NotAhead
    BY EmptyDoc DEF Init, NotAhead, PayloadOwned
  <2>2. FirstIsNewer /\ SlotIsFirst /\ PayloadIsNewer
    BY EmptyDoc DEF Init, FirstIsNewer, SlotIsFirst, PayloadIsNewer, PayloadOwned, SlotOwned, Own, Holding
  <2> QED
    BY <2>1, <2>2, InitTopic DEF NewerInv
<1>2. TopicInv' /\ NewerInv /\ [Next]_vars => NewerInv'
  <2> SUFFICES ASSUME TopicInv', NewerInv, [Next]_vars PROVE NewerInv'
    OBVIOUS
  <2> USE DEF NewerInv
  <2>1. NotAhead' /\ PayloadIsNewer'
    BY NotAheadStep, PayloadNewerStep
  <2>2. FirstIsNewer' /\ SlotIsFirst'
    <3>1. CASE \E h \in Groups : mqtt_publish_value(h)
      BY <3>1, SnifferKeepsFirst
    <3>2. CASE ClaimClear
      BY <3>2, ClaimKeepsFirst
    <3>3. CASE ~(\E h \in Groups : mqtt_publish_value(h)) /\ ~ClaimClear
      BY <3>3, TickKeepsNewer, TickKeepsSlot
    <3> QED
      BY <3>1, <3>2, <3>3
  <2> QED
    BY <2>1, <2>2
<1> QED
  BY <1>1, <1>2, TopicInvariant, PTL DEF Spec

\* flush_group never publishes a value twice or out of order, however the
\* sniffer task and mqtt_tick race for a buffer.
THEOREM FlushIsNewerAlways == Spec => []FlushIsNewer
<1>1. NewerInv => FlushIsNewer
  BY DEF NewerInv, PayloadIsNewer, PayloadOwned, FlushIsNewer
<1> QED
  BY <1>1, NewerInvariant, PTL
=============================================================================
