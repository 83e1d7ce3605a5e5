# Verification of the Huawei Modbus sniffer

TLA+ models of the ESP32 firmware in `src/`, the TLC runs that check them, and
TLAPS proofs about them. Line numbers are those of the sources in `src/src/`
unless another directory is named.

## The system

The firmware listens on an RS-485 bus between a Huawei inverter and its dongle,
decodes the Modbus frames it overhears, publishes the values over MQTT for Home
Assistant, exports raw frames to a collector and serves a web UI.

| Task | Core, priority | What it runs |
|---|---|---|
| sniffer | 1, 5 | framing, `huawei_decoder_feed`, and in its callback `mqtt_publish_value`, `live_value_store_publish_*`; `raw_frame_streamer_enqueue` |
| loop | 1, 1 | `checkWiFiConnection`, OTA, `mqtt_loop`, `mqtt_tick`, `web_ui_loop`, `huawei_decoder_expire_pending` (main.cpp 259-311) |
| raw_stream | 0, 2 | `stream_task` of the exporter |
| network (AsyncTCP) | unpinned | HTTP handlers, MQTT client callbacks |

The sniffer preempts the loop task anywhere, but runs to completion as far as
the loop task can see: it has the higher priority on the same core and does not
block inside a handler. The other tasks are truly parallel. Critical sections
(`portENTER_CRITICAL`) guard the exporter's ring, the availability state, the
transport's events and the log buffer; the group buffers, the value cache, the
settings, the pending request tables, the live store and the OTA fields have no
lock.

### Inventory

| Component | State | Operations | Interacts with | What makes it correct |
|---|---|---|---|---|
| Raw frame exporter (`RawFrameStreamer.cpp`) | ring `s_slots/s_head/s_tail/s_count`, counters, connection | `enqueue`, `stream_task`, `get_stats` | sniffer calls it; TCP to the collector | a full ring gives up its oldest frame and counts it; order; nothing twice; drains |
| Collector (`scripts/raw_stream_collector.py`) | receive buffer, archive | `run_server`, `parse_stream_buffer` | reads the exporter's connections | only genuine records, in order |
| MQTT publisher (`mqtt_publisher.cpp`) | group buffers, tier timers, availability, value cache | `mqtt_publish_value`, `mqtt_tick`, `mqtt_loop` | sniffer and loop tasks, `MQTTManager`, dashboard | topics carry their group's newest data, availability follows the data |
| MQTT session (`MQTTManager.cpp`, `AsyncMqttTransport.cpp`, part of the publisher) | connection, pending events, attempt timers, announcement flags | `loop`, `reconnect`, `publish`, callbacks, discovery | network task, broker, Home Assistant | always reconnects; every session is announced in full |
| Configuration (`ConfigManager.cpp`, part of `web_ui.cpp`) | settings, `config.json`, `.tmp`, two backups | POST handler, update, save, load, deferred restart | network task, loop task, LittleFS | what was saved survives interruptions; memory and disk agree |
| Modbus sniffer (`huawei_decoder.cpp`, `modbus_rtu.cpp`, `sniffer_task`) | receive buffer, two tables of pending requests, groups seen | framing, `feed`, `expire_pending` | sniffer and loop tasks | a response is decoded with its own request's address |
| Debug log buffer (`DebugLogBuffer.cpp`, log handlers and page of `web_ui.cpp`, `UnifiedLogger`) | byte ring, line being assembled, viewer lease | `append`, `readSince`, `enableFor`, `keepAlive`, `disableIfOwner` | every logging task, web handlers, the page's worker | the reader sees whole lines in order; an abandoned capture ends |
| Live value store (`LiveValueStore.cpp`, live page of `web_ui.cpp`) | entries, update sequence | publish, delta reader | sniffer, web handlers, polling page | a polling page ends up with every value |
| OTA and WiFi (`OTAManager.cpp`, `WiFiManager.cpp`) | arming window, server state; connection attempt | `armFromWeb`, `loop`, upload callbacks; `checkWiFiConnection` | network and loop tasks | a window opens and closes as promised; WiFi is retried |
| IP whitelist, LED, chip temperature, PSRAM helpers, scripts | none or one flag | | | see "Not modelled" |

The behaviours that are hard to test are listed with their lines in
`PROJECT.json` under `hazards`: preemption inside unlocked updates, 32-bit age
arithmetic against stale timestamps, events polled late, failed publications
that nobody repeats, writes that stop in the middle of a record, and saves
interrupted by a restart.

## Modules

| Module | What it is |
|---|---|
| `LossyFifo` | abstract: a bounded queue that gives up its oldest record |
| `RawFrameStreamer` | the exporter: ring, `stream_task`, network |
| `RawStreamPipeline` | extends the exporter with TCP connections and the collector |
| `RawStreamProofs` | theorems about `RawFrameStreamer` and `RawStreamPipeline` |
| `ModbusSniffer` | framing, pending requests, decoding, expiry |
| `ModbusSnifferProofs` | theorems about `ModbusSniffer` |
| `MqttPublisher` | group buffers, tier flush, availability watchdog |
| `MqttPublisherProofs` | theorems about `MqttPublisher` |
| `MqttSession` | transport, manager, birth and will, announcement and discovery |
| `MqttSessionProofs` | theorems about `MqttSession` |
| `ConfigStore` | configuration upload, save, backups, restarts |
| `ConfigStoreProofs` | theorems about `ConfigStore` |
| `DebugLogBuffer` | log ring, lease, log handlers and page |
| `DebugLogBufferProofs` | theorems about `DebugLogBuffer` |
| `LiveValueStore` | live values and the page that polls for changes |
| `LiveValueStoreProofs` | theorems about `LiveValueStore` |
| `OtaUpdate` | arming, serving and closing of updates; WiFi watchdog |
| `OtaUpdateProofs` | theorems about `OtaUpdate` |
| `MC...` | small instances of the module they are named after |

### RawFrameStreamer

The variables are the code's statics. Each critical section is one action
(`push_slot`, `pop_slot`, the counter increments), and `pc` says where
`stream_task` is between two of them: `poll` is the top of its loop, `connect`
the blocking connect, `header` and `payload` the two blocking writes, `sent` the
moment before `s_sent_frames` is incremented. A frame is its length; its
sequence number identifies it. `lost` is a history variable: popped slots whose
write failed, which no counter of the code shows. `WifiChange` and `PeerClose`
are the environment. `reconnect_ms` is abstracted: an attempt is made
(`TaskAttempt`) or not yet (`TaskThrottled`).

### RawStreamPipeline

Adds a byte stream per connection, in units: a record is two header units, the
first with the magic, and `raw_len` payload units. A short write puts a proper
prefix on the wire; a broken connection loses a suffix of what was under way.
The collector works through connections one after the other (`srv.listen(1)`),
receives any chunk and may give a connection up. `parse_stream_buffer` is one
pass of the parser's loop, which cuts off a packet or moves on to the next
magic; the collector receives again only when the loop has ended (`Parsable`).
A payload that contains the magic by chance is not modelled, and two details of
the search for one are left out: the branch for a header of another version
(raw_stream_collector.py 45-48; the device writes no other) and the three bytes
kept when no magic is found (line 40; a unit is read whole). `NeverOutOfStepAlways`
proves that the search is never begun.

### MqttPublisher

`mqtt_publish_value` is one step (the sniffer is not preempted by the loop
task). `mqtt_tick` is a step per shared access: two scans and three assignments
of `get_group_buf`, size check, serialization, clear, two publications, the
flag; in the watchdog the snapshot, reading `now2`, the confirmation under the
lock, the publication. A timestamp is kept as its age, capped beyond the largest
limit it is compared with; `Elapsed` gives the 32-bit subtraction of a later
timestamp its real outcome, "longer than any limit". The values of a group are
numbered; a document remembers the group and the number of its newest value. The
groups of `GROUP_INFO` that share a subtopic have separate `state` entries here.
A tier interval of zero switches the tier off. Age zero and "never seen" are
kept apart by `seen`.

### MqttSession

The loop task is a cycle of steps in the order of `mqtt_loop` and `mqtt_tick`;
callbacks happen between any two. The two event counters matter only as zero or
not, as `pollConnectionEvents` treats them. `got` is what the broker has received
in the present session. The broker publishes the will of a broken session before
it accepts the next connection of the same client id. Of each announcement only
the result is modelled, not its payload; a cached value is its entity key, and
two cached values can share one (`FirstOfKey`).

### ConfigStore

One handler at a time, chunk by chunk; a step per LittleFS operation, each of
which may fail if the code has a branch for it or ignores its result. The value
of a configuration is where each part came from. A body is merged part by part
into the settings in use (`Merged`, `Candidate`), a file into the defaults
(`parseJson`, `Loaded`); both may leave out the parts in `Optional`, which `keep`
stands for. `Needs` are the rules between parts (a switch that needs another, an
enabled service that needs a host), checked on the result by
`validate_runtime_settings` in both cases. `short` and `renameFailed`
record faults that the code does not report: a truncated write that counts as
saved, a rename whose result is ignored. Checks of single keys are the
nondeterministic `UpdateRejected`. `processPendingRestart` may fire as soon as
it is pending: nothing stops the network task from starting another save within
the grace period, or from being in the middle of one when it ends.

### ModbusSniffer

The bus has a master that asks one slave at a time, by function 3 or by the
vendor's function 0x41 with a list of windows, and gives up when it likes;
slaves answer, refuse or stay silent. A frame is one or two units of bytes. `rx`,
`uart` and `silent` are `s_rx_frame`, the driver's buffer and the comparison of
`now` with `last_byte_us`; frames that arrive without a gap are glued together,
and a gap the task does not see may lie inside a frame. The CRC is abstracted to
what it accepts: a chunk that is exactly one frame.

`huawei_decoder_feed` is one step, since the loop task cannot preempt the
sniffer. `huawei_decoder_expire_pending` is a step per comparison and per
assignment (`scan`), with one reading of the clock at its start, so that a
request stored meanwhile is "older than any timeout" by 32-bit subtraction. A
response carries no address; its true window is the field `start`, which only
the bus and the properties read. The result of decoding is the set of announced
addresses, each with the address its words came from (`from`). `Known` and
`Output` translate the loops over `KNOWN_REGS`: values of enabled groups, text
skipped, and words no known register covers. A 0x41 answer names its registers,
so its request only matters for releasing the pending entry and a log line.

### DebugLogBuffer

A step per critical section, a step per character of a line, so that the lines
of two tasks mix in the one `partialLen` as they do in the code. The byte ring
is kept as the records between tail and head with their positions; wrap markers
are records with id 0. `writeRecord` makes room first and then decides whether to
skip the end of the ring, in that order; `spoiled` says that this made head pass
the tail since the last reset. From there the code reads text as headers:
`records` is then no longer what the ring holds and stays empty, the position of
head and the ids, which depend on nothing in the ring, go on, lines go on being
written, and an answer carries ids out of misread headers (`readOverrun`, within
the bound `Misread`). No property but `NewestReadable` and `AbandonedCaptureEnds`
speaks of such a ring; that a walk over misread headers need not end is left
out. `Cut` is the budget of bytes, which may end an answer after any line but the
first. `After` is the step from header to header that both the tail and the
reader take; an answer is the set of ids it carries, since a reader that walks
the ring finds them in its order. `Expire` is `enabledUnlocked`'s reset, which
every operation starts with: operations are therefore disabled while a lease has lapsed and not been noticed.
The page's worker (`client`) keeps `lastId` over a restart of the capture, as the
script in `web_ui.cpp` does.

### LiveValueStore

Both sides take a step per statement the other can tell apart: clear, name,
fields, number and stamp of an entry against test, id and value of the scan. A
value is the number of its publication. `millis()` is arbitrary at each
publication. Several requests of the page may be on their way; answers arrive in
any order or are lost. An item keeps its place in the answer: where a scan meets
an id twice, the page keeps the later item (`LastOf`). `excused` is a history variable with the three exceptions
of `CaughtUp`, each defined where it arises: `Missed` (a publication overlaps a
scan, or a restarted device numbers from the beginning) and `SetBack` (answers
that overtake each other). They are behaviours of the code, listed as hazards.

### OtaUpdate

`millis()` is a counter modulo `Wrap`; `Signed` is the cast
`static_cast<long>(a - b)`. The loop task is split between the accesses to the
fields the network task also writes (`armed`, `armedUntilMs`, `configValid`,
`started`), and so is `armFromWeb`. An upload runs inside `ArduinoOTA.handle()`:
between `onStart` and `onEnd` or `onError` the loop task does nothing else.
`lag` bounds the time a pass takes. `checkWiFiConnection` precedes OTA in every
pass and keeps its two timestamps as ages.

## Runs

| Run | Instance | Shows |
|---|---|---|
| `ring` | ring of 2, 5 frames, 3 network changes; lengths 0 (refused), 1, and 3 (too long) | consistency, accounting, order, refinement of `LossyFifo`, draining |
| `pipeline` | ring of 2, 3 frames, 2 changes | the archive is genuine, ordered, covered by `sent_frames` |
| `decoder` | 2 slaves (symmetric), windows of equal length, tables of 2 and 1, 4 frames, 4 time units | addresses of decoded values, lost requests, order of frames |
| `publisher` | 2 groups, 1 tier, 2 values each, 1 fault | topics and order under every preemption; availability while nothing is lost |
| `publisher_live` | 3 groups, one disabled, 2 tiers, one switched off; 2 values of one group, 1 of the others | a silent group is flagged; one flagged although a value waits is shown online again |
| `session` | 2 cached values sharing a key, 2 drops, 1 refused publication, discovery of 1 per tick | reconnecting, birth against late will, announcements, retried discovery |
| `config` | 4 requests of 2 chunks (symmetric), the first may be left out and the second needs it, 2 file faults, 1 power cut | recoverability, memory against disk |
| `log_buffer` | ring of 10 bytes, 3 lines of 1 or 2, 2 lines an answer, 2 tasks, 2 viewers, 2 captures | ring structure and no line skipped until head passes tail, abandoned captures end |
| `live_store` | 3 ids in 2 entries, 3 publications, 3 polls, 2 on their way, 1 restart | the page catches up |
| `ota` | window of 2, counter modulo 7, 2 requests | windows honoured and closed, uploads, WiFi retried |
| `config_power_cut` | 1 power cut | violated: boots with defaults |
| `log_ring_overrun` | as `log_buffer`, 4 lines | violated: the newest line cannot be read back |

Why the bounds are enough: a ring of 2 with 5 frames fills, wraps twice and
overflows while a slot is in transmission; three network changes allow a loss, a
return and a second loss. Two groups are what it takes for a claim to be
preempted by another group's value, two values for an older one to be published
after a newer one. Watchdog and floor are a few time units, and a pass lasts up
to `MaxPass`, so both timestamps of the watchdog can be older than a value. Two
dropped connections leave an event of one session to be polled in the next. Four
saves fill both backups and rotate them out.

Four frames on the bus are a request that is lost or refused, a second of the
same slave, and their answers, or enough requests to fill a table of two and
evict; the windows are of the same length, so that a wrong match decodes without
complaint; a timeout of 1 in 4 units lets a request expire and another be stored
during the scan. A log ring of 10 bytes holds two records of 3 or 4: three lines
wrap and evict, and lines of 1, 2 and 2 or a fourth line meet a skipped end that was
not counted, so that overrun rings are among the states of `log_buffer` too. Three ids for
two entries evict, a `millis()` of two values reaches the largest one, and two
requests on their way can overtake each other. A counter modulo 7 wraps within a
window of 2, and two requests re-arm a window that is open, closing or expired.

The violation runs are disagreements between the code and its own comments;
each is described under `findings` in `PROJECT.json` with the line it quotes.
The passing properties next to them say what still holds: `LastSaveRecoverable`
(some file still holds the configuration, though a boot does not look at the
backups), and `TypeOK` and `NothingSkipped` of the log (until head passes tail,
the ring is whole, and a reader misses nothing).

Several properties hold with exceptions, which are behaviours of the code and are
noted with the hazards in `PROJECT.json`. `FlagOnBroker` and `OnlineOnlyWithData`
are claimed while no publication was lost or refused; `MemoryIsDurable` excludes
renames that failed unnoticed; `BirthWins` and `EverythingAnnounced` exclude
refused publications; `MissingExplained`, `CaughtUp` and `ArmingHonoured` name the
races they excuse. A watchdog whose clock is older than a value takes the wrapped
age for silence and flags a group that is not silent: nothing forbids that step,
and `ShownOnlineAgain` says that it does not last.

One comment is at odds with the code without a property between them:
mqtt_publisher.cpp 1051 speaks of more than 3 times the tier's interval,
`group_watchdog_ms` (line 200) takes 4 times. The model follows the code.

## Fairness

- `ring`: the task runs (WF); an attempt is made and succeeds again and again
  while WiFi is up, and writes do not fail forever (SF) - the collector listens.
- `publisher_live`: `loop()` calls `mqtt_tick` forever, time passes, a broker
  that is up is reached.
- `session`: `loop()` runs, time passes, WiFi returns, a due will is published,
  an attempt that goes on is accepted, and the retry interval of a discovery
  ends (SF on the attempt, which the loop passes once per round).
- `log_buffer`: time passes, and `web_ui_loop` notices a lapsed lease (WF on
  `Elapse` and `Expire`). Pages and log lines are free to stop.
- `ota`: `loop()` runs, an upload ends (with a timeout at the latest), and time
  passes (WF on `Loop` and `Tick`). Nothing is assumed of WiFi or of requests.

No fairness is assumed of frames, values, faults or configuration uploads.

## Proofs

`RawStreamProofs` proves for every capacity, every set of lengths and all
bounds, from `CapacityAssumption`, `LengthAssumption` and `BoundAssumption`.
Of the exporter:

- `TypeCorrect`, `RingHoldsNewestAlways`, `AccountedAlways`: invariants;
- `NewerEachTimeAlways`, `DropsCountedAlways`: action properties;
- `Refinement`: `Spec => ImplementsLossyFifo`.

The inductive invariant is `RingInv`: types, `RingHoldsNewest` (the waiting
slots are the newest `count` frames and `head = (tail + count) % Capacity`),
`Accounted`, and `WaitingIsNewer`. The last is needed for `NewerEachTime`: that a
popped slot is newer than the one before follows only if everything that waits
is newer than the slot last popped. Wrapping is reduced to one lemma about `%`
below twice the capacity; the refinement maps the ring to the sequence of
waiting slots oldest first, and a push over a full ring to dropping its head.

Of the pipeline, for any number of connections, breaks and partial writes:

- `PipelineIsExporter`: `PipeSpec => Spec`, so that all of the above holds in it;
- `ArchiveGenuineAlways`, `ArchiveOrderedAlways`, `SentCoversArchiveAlways`;
- `NeverOutOfStepAlways`: the collector's search for a magic is never needed. No
  run has this as a property, since no part of the code relies on it.

The archive says nothing of the bytes under way, so none of these is inductive.
`PipeInv` follows the *stream* of each connection, all the collector has not cut
into packets: it is a sequence of whole records of which the last may be cut
short (`StreamsGood`); sequence numbers grow from the archive to the streams and
from one connection to the next (`StreamsOrdered`, `ArchiveOld`), up to the slot
the task holds (`StreamsOld`); the open connection ends where a record ends, or
with the header of that slot (`DeviceStream`), which is where closing the
connection after a short write is needed. `Good` is stated by the distance of
two units (`Precedes`), so that cutting a stream at any place, which is what
breaks, chunks and packets do, preserves it by arithmetic and without induction
over the stream. `CompleteCounted` counts the records archived or complete under
way against `sent_frames`; it needs that no record is complete twice, which the
order gives.

`ConfigStoreProofs` proves for every set of requests, number of parts, optional
parts and rules between them, and every number of faults and power cuts:
`TypeCorrect`, `LastSaveRecoverableAlways`, `MemoryIsDurableAlways` and
`NeverOlderAlways`. The inductive invariant `SaveInv` follows the last saved
configuration through the rotation (`SavedSomewhere`: it is in `config.json`, or
that is gone and the newest backup has it, or the first backup is gone too and
the older one has it), says what the temporary file holds from the write on
(`TmpWritten`), which of the settings and their copy agree with the disk at each
step (`Durable`), and that every file loads into settings that keep the rules
(`RulesKept`), on which `TypeOK` depends after a restart.

`OtaUpdateProofs` proves `TypeCorrect` and `ArmingHonouredAlways` for every
counter width, every window below half of it, and all intervals. `OtaInv` adds
that a window still due has its end in the signed future (`DueInFuture`) and
that the loop task is about to close a window only if it has seen its end or a
request came in between (`ExpireJustified`). Modular arithmetic is confined to
two lemmas, `Remainder` and `WindowAhead`.

`MqttPublisherProofs` proves every property of the run `publisher`, for every
number of groups and tiers and every assignment of one to the other, in three
layers:

- `TypeCorrect`, `TopicOfOwnGroupAlways`. The argument is `TopicInv`: a claimed
  slot is never taken by the sniffer task (`SlotIsOwn`), a value of another
  group survives in a slot only between the assignment of the group and the
  clear (`BufferOfOwnGroup`), hence what is serialised is the group's own
  (`PayloadIsOwn`). `TierNamed` and `GroupNamed` say that the indices a pass
  works with exist; `Now2Later` bounds the second clock reading by the first,
  without which the types are not inductive.
- `FlagOnBrokerAlways`, `OnlineOnlyWithDataAlways`, from `AvailInv`: what the
  broker holds while nothing was lost (`Reached`, `Flagged`), and that a step of
  a pass is only reached with a document that is not empty (`Filled`).
- `FlushIsNewerAlways`, from `NewerInv`. The sniffer task may take a second
  buffer for a group while the loop task is claiming the first, and an older
  value may stay behind in it. `FirstIsNewer` says why that one is never
  published: scans take the first buffer of a group, and what waits there is
  newer than what was published. `SlotIsFirst` and `PayloadIsNewer` carry it
  through a flush, `NotAhead` bounds all by the last value stored.

`ModbusSnifferProofs` proves `TypeCorrect`, `FedInOrderAlways`,
`OwnWindowAlways` and `MissingExplainedAlways` for every set of slaves, windows
and registers and every size of buffer and tables, from `SnifferAssumption` and
`MapAssumption`. `SnifferInv` orders the units between the bus and the decoder
(`InOrder`), says that requests, responses under way and pending entries agree
about who was asked for what (`Agreed`), that later pending requests have later
times, so that the latest match is the right one and eviction never takes it
(`Ordered`), and that the newest request stays until the frame after it unless
one of the two things that may rob it has happened (`LatestKept`).

`MqttSessionProofs` proves `TypeCorrect` and `InFlightNotOverlappedAlways` for
every cache, share of a pass, throttle and guard, from `TimeAssumption`,
`DiscoveryAssumption` and `GuardAssumption`: the guard is no longer than the
throttle (MQTTManager.h has 10 s for both). That is what the property rests on:
an event of an older connection ends the wait for an attempt under way, so that
only the throttle protects it. `AttemptTimed` is the strengthening.

`LiveValueStoreProofs` proves `TypeCorrect` and `CaughtUpAlways` for every set
of registers, every size of the store and any number of publications, requests
and restarts. `StoreInv` follows a publication through its five steps (no id
twice, no number twice). `LiveInv` adds that a publication no scan has
overlapped is about to get a number beyond all that requests, answers and the
page know (`Raced`, `Fresh`), that a scan has treated the entries before its
position and nothing else (`Scanned`), that an answer has an entry's value or
leaves it to a later request or was not asked for it (`Answers`), and that what
the page and its requests do not ask for is shown (`Shown`). The hard case is an
answer overtaken by a later one: its older row is excused only while a request
is under way that no longer asks for it, and `Shown` proves that no other case
exists.

`DebugLogBufferProofs` proves `TypeCorrect` and `NothingSkippedAlways` for every
size of the ring, its headers, its lines and its lease, and for any number of
tasks and viewers, from `LogAssumption` (a ring that holds the longest line).
`ViewerInv` has three parts:

- `LogInv`: until head passes tail the ring is `Walkable`, and ids grow along it (`IdsIn`, which is
  not local to two neighbours as `Walkable` is, since a wrap marker may lie
  between them). A line is written either behind the last or, past a marker,
  at the start of the ring (`AppendWalkable`, `WrapWalkable`), and the tail
  gives up a prefix that ends with a line (`SuffixWalkable`, `RoomMade`).
- `PageInv`: a page that polls the present capture has shown every line of the
  ring up to its `lastId`, which is below the next id. A worker that waits to
  restart belongs to an older capture: it starts again with its old `lastId`,
  about which nothing is claimed.
- `RequestInv`: what a request carries from one critical section to the next.
  `latest` is read before the lines, and the page's `lastId` becomes the larger
  of it and the last line's; in between the ring may have grown and given up its
  oldest lines. That nothing is skipped rests on two facts (`ReadHas`,
  `FirstLinesOf`): an answer that is cut off by `kMaxLines` or by its bytes
  names its own last line as the latest and holds every line before it, and an
  answer without lines was read from a ring that had none to give. An answer that arrives after
  its capture has ended is about nobody's current page (`CaptureEnds`).

`MakeRoom` and `FirstLines` pick a least and a greatest element of a set, whose
existence `SmallestOf` and `LargestOf` provide.

Every safety property of a passing run is thereby a theorem. What remains
model-checked only is liveness under fairness, which is out of the prover's
reach: `Drains`, `SilenceFlagged`, `ShownOnlineAgain`, `Reconnects`, `BirthWins`,
`EverythingAnnounced`, `DiscoveryRetried`, `AbandonedCaptureEnds`,
`WindowCloses` and `WifiRetried`.

No property about what a loop computes from arbitrary data is stated: induction
over data is out of the prover's reach. The parser's loop is a step per pass for
that reason, as is the scan of the live store.

## Not modelled

- Data: register tables, scaling, CRC arithmetic, text values. Wording: HTML,
  JSON layout, log text, status pages, interval statistics and other diagnostic
  counters.
- Undefined behaviour without outcomes to enumerate: a `JsonDocument` changed
  while it is serialised and log text read while it is replaced, which are
  hazards with a note, and the live `Settings` object read while it is replaced.
- The derived home consumption value and the insertion race of `update_cache`
  it brings; a group that shares its subtopic with another. No hazard lists them.
- Wraps that take 49 days or 2^32 events, except where a later timestamp makes an
  age wrap at any time (`ModbusSniffer`'s expiry, `MqttPublisher`'s watchdog) or
  the code handles the wrap itself (`OtaUpdate`). In particular, the pending
  tables compare stored stamps as they are (huawei_decoder.cpp 405 and 421): once
  millis() wraps, a stamp from before counts as the latest until it is released
  or expires. `SnifferAssumption` keeps the model short of that.
- Two interleaved configuration bodies are modelled, as the body is shared; no
  property forbids the mixture, because nothing in the sources promises
  otherwise. It is a hazard.
- `setup()`, the LED, the chip's temperature, PSRAM allocation, the build and
  upload scripts: one flag or none. The IP whitelist is a pure predicate on
  addresses, evaluated per request.
- A second `ArduinoOTA.begin()`, which both tasks can reach at once: its effect
  is the library's.

## Plan

1. Done: exporter and abstract queue, pipeline, publisher, session,
   configuration, decoder, log buffer, live store, OTA and WiFi; proofs of every
   safety invariant the passing runs check.
2. The derived home consumption value with the value cache, on the steps of
   `MqttPublisher`.
