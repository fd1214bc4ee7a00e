# Formal models of the Agile Firmware Framework

TLA+ specifications of the services of this repository, TLC runs that check them
on small instances, and TLAPS proofs of the results that matter most. Paths are
relative to the repository; `S` stands for `components/services`.

Check one run with `tlc -config <cfg> <module>` and the proofs of a module with
`tlapm <module>.tla`. `PROJECT.json` lists the runs, the mutants that each
property must catch, the source lines behind each definition, the findings, the
hazards and the theorems.

## 1. Inventory

The framework is a catalogue of components that a product composes. The services
are passive classes over injected ports: a product's main loop calls `poll(now)`
and the other methods, one at a time, so a method is one step of a model unless
something outside (storage, power, interrupts) can come between two effects.
Everything a port does, including failing, is the environment's choice.

| Component | State | Operations | What makes it hard | Correct when |
|---|---|---|---|---|
| `ConfigService` (`S/configuration`) | `records_`, `sequence_`, `active_slot_`; two slots in `IStorage` | initialize, set_*, erase, commit | power loss inside commit, failing storage, counter width | durable data is the last acknowledged, or a commit that was never acknowledged; nothing else |
| `OtaService` (`S/ota_manager`) | manifest, `received_`, `requested_`, state; store, digest, boot control | offer, poll, activate, cancel | untrusted and late chunks, port failures, restarts | only verified, signed images are started; downloads end |
| `OfflineQueue`, `FixedRingBuffer` | entries, two indices, count, `dropped_` | enqueue, peek, commit_front | full queue, wrap of the indices | bounded first-in first-out queue |
| `TelemetryService` (`S/telemetry`) | `sequence_`; shares queue and transport | publish_bool, replay_one | publish that fails after delivery, connection changes | losses are counted, backlog in order and drained |
| `CommandDispatcher` (`S/command_dispatcher`) | handlers, idempotency cache | add_handler, on_message | duplicated commands, eviction, full queue | a duplicate is not executed again, answers are true |
| `ProvisioningService` (`S/provisioning`) | state, `pending_`, `opened_at_`, `failures_`; portal, shared store | start, stop, poll, factory_reset | failing commits, other users of the store, power cycles | only validated credentials are stored, reset is final |
| `HealthMonitor` (`S/health_monitor`) | sources, `last_reboot_request_`; watchdog | add_source, check_in, poll | wrap of the clock, restarts | watchdog fed only when healthy |
| `NetworkManager`, `BackoffPolicy` | links, backoff, `retry_at_`, state, observer | add_link, set_observer, poll | signed time differences, two links in competition | links are retried in time, observer is current |
| `TimeSyncService` (`S/time_sync`) | `quality_`, `retry_at_`, `last_sync_ms_`, `requested_`, backoff | on_connectivity_up, poll, utc_now | late, bad and forgotten answers, a failing `set_utc()`, wraps | old time is called stale, unset time is not shown, requests recur |
| `IndicationService` (`S/indication`) | `requests_`, `applied_` | request, clear, poll | signed deadlines, failing apply | the highest live request is shown |
| `SecurityPolicy` (`S/security_policy`) | `authorizations_`, `credential_state_` | register_command, authorize, credentials life cycle, verify_image | any order of calls, full table | the last accepted registration decides |
| `BinarySwitchService` (`S/binary_switch`) | `state_`; two outputs, store | restore, set, toggle | one port call of three fails, power loss | ok means driven and durable |
| `DiagnosticsService` (`S/diagnostics`) | counters, gauges, fault ring | increment, set_gauge, record_fault | saturation, full ring | true sums, newest faults |
| `EnvironmentMonitor` and its NUCLEO-L476RG board | three times of day, `command_`; tick counter, UART register, LD2 | initialize, run_once (CLI, sensor, telemetry) | clock bring-up, lost characters, blocking writes, wrap | the typed line is executed, telemetry on time |
| `ButtonInput` (`libraries/button`) | debouncer, start of the press | update | bounce, late samples, wrap | class of a press is how long it was held |
| `EventBus`, `EventQueue`, `StateMachine` | subscribers, rings, current state | subscribe, publish, try_pop, process | full queues, publishing while consuming | each accepted event once, in order |
| Serialization, CRC16, `FrameCodec` | buffer and position | write and read, encode and decode | a buffer that ends inside a value, a disturbed line | what is read is what was written, or is refused |
| ESP32-C6 GPIO adapters | pin levels, ISR handler, mask | set, attach, detach, enable, disable | interrupts and failures between driver calls | no interrupt without an owner |

Interactions: `ProvisioningService` (and any product code) edits the same
`IConfigStore` and commits it; `CommandDispatcher` and `TelemetryService` share
one `IOfflineQueue` and one `IMessageTransport`, and only `replay_one()` empties
the queue; `OtaService` and `SecurityPolicy` share `ISignatureVerifier`;
`NetworkManager` reports to an `ILinkObserver`; `HealthMonitor` feeds
`uhal::IWatchdog`; `BinarySwitchService` drives two `OutputPin`s of the ESP32-C6;
the env_monitor product runs `EnvironmentMonitor` on the clock, UART and LED of the
NUCLEO-L476RG; `DiagnosticsService` and `OfflineQueue` keep their records in the same
`FixedRingBuffer`.

## 2. Modules

Abstract specifications:

* `ConfigStore` — what `IConfigStore` promises: one table in RAM, one durable
  table, commits that are atomic, and a set `maybe` of tables whose commit was
  never acknowledged. `ConfigService` implements it; `Provisioning` is built on it.
* `BoundedFifo` — what `IOfflineQueue` promises. `OfflineQueue` implements it;
  `Messaging` is built on it.

Components:

* `ConfigService` — `slots` is the medium, `table`, `sequence`, `active` are
  `records_`, `sequence_`, `active_slot_`. `commit()` is two steps, `CommitErase`
  and `CommitWrite`, because power can be lost between its two storage calls; a
  failed write may leave the slot empty, torn, or complete. A slot that does not
  decode is `Bad`: CRC32 is taken to detect every torn snapshot. `set_u32` and
  `set_bool` are `set_blob` with 4 and 1 bytes. `write_slot` cannot run out of
  room: 9 + 24 * (2 + 23 + 64) bytes fit in 2300. A full table fits, so its
  `no_resources` returns are unreachable.
* `OtaService` — the ports are part of the state: `staged` (firmware store),
  `digested` (digest calculator), `marked` and `running` (boot control). A chunk
  is any sequence of units, since neither the fetcher nor the channel is trusted.
* `OfflineQueue` — the ring with its indices as in `FixedRingBuffer.hpp`.
* `Messaging` — `CommandDispatcher` and `TelemetryService` with the transport.
  A publish that fails may have been delivered. Payloads and topics are taken to
  be buildable (their early returns change nothing).
* `Provisioning` — `poll()` is split by the branch it takes. A commit and its
  power loss are one step, justified by `ConfigStore`.
* `HealthMonitor` — with a clock that wraps and the watchdog, whose timeout is
  shorter than the clock's range. Sources are registered before the first poll.
* `NetworkManager` — with `BackoffPolicy`. `poll()` is `PollOnline` or
  `PollOffline`; `Started` is the loop that calls `start()` and breaks at the
  first link that accepts.
* `TimeSync` — `PollTime` is a whole `poll()`: take an answer, update the quality,
  make a request that is due. The time source keeps an answer until it is taken, so
  one that was forgotten in `on_connectivity_up()` may be taken for the next request.
  `set_utc()` on the system clock may fail; `poll()` ignores its status, so the quality
  (`quality`) and what became of the clock (`setOk`, `age`) are kept apart.
* `Indication` — besides the deadlines on the wrapping clock, `left` counts how long
  each request is really to be shown.
* `ButtonInput` — `update()` is `Changed`, `Waiting` or `Settled`; `held` is how long
  the samples were really pressed.
* `NucleoL476rg` — `initialize()` as the sequence of what it asks of the hardware
  (`Configure`), waits for (`Await`) and the hardware does (`TakesEffect`); the tick
  counter, the receive register with its overrun, blocking writes and LD2.
* `EnvironmentMonitor` — composes `run_once()` with the board. A write takes up to
  `WriteTicks` while the counter goes on. Answers are told apart, not worded.
* `BinarySwitch` — `set()` and `restore()` are cut into port calls (`ApplyLoad`,
  `ApplyIndicator`, `Save`), each of which may fail, with `OutputPin` underneath and
  `LosePower` between any two.
* `PinInterrupt` — `attach()` and `detach()` are one step per driver call; the handler
  and the mask belong to the driver. `add` unmasks the pin, as the driver does.
* `EventBus` — with the rings of `EventQueue` and a `StateMachine` that publishes
  from its actions while it consumes. The sinks of a topic do not see each other, so
  the loop of `publish()` is written as what each sink gets: a copy for each of its
  slots, while it has room.
* `FrameCodec` — the bytes and the real CRC-16/MODBUS, through a line that disturbs
  one byte or loses the end. A byte or a word is the set of its one-bits, so that
  exclusive or and shifts are operations on sets. `MCUntimed` evaluates the published
  check value of the CRC.
* `JsonDocument`, `ByteStream` — a client that writes and looks at the result at the
  end only, and the reader on the same buffer. The loops of the JSON writer and scanner
  over digits and characters are recursive functions over the prefixes or the rest of
  the text.
* `SecurityPolicy`, `Diagnostics` — each operation, with what it should have left
  behind as history.

`MCTimed` and `MCUntimed` each put several components into one run. These parts share
no state, so a behaviour runs one of them, the `subject`, and the state space is the
sum of theirs and not the product; an invariant of an idle component holds trivially
of its initial state. Components that do share state are composed in their own
modules (`Messaging`, `Provisioning`, `EnvironmentMonitor`, `BinarySwitch`).

`MC*` modules give the constants values. `*Proofs` modules hold theorems:
`ConfigServiceProofs`, `OtaServiceProofs`, `MessagingProofs`, `ProvisioningProofs` and
`NetworkManagerProofs` those of one component, `TimedProofs` those of the other components
in `MCTimed`, `UntimedProofs` those of the components in `MCUntimed` (the offline queue
among them). `ArithmeticLemmas` has what they share about wrapping clocks, rings, the
least and greatest of a set, induction and recursive functions.
Operators whose comment starts with "Mutant" are plausible bugs that replace one
definition; each property is violated under its mutant.

## 3. Runs, bounds and results

| Run | Result | Shows |
|---|---|---|
| `ConfigDurability.cfg` | holds | refinement of `ConfigStore`, its slot invariant, newest snapshot loaded |
| `ConfigFaults.cfg` | holds | RAM table, and survival of one fault, under all faults, unchecked boots and a wrap of the sequence |
| `ConfigReadFault.cfg` | violated | finding 1 |
| `Ota.cfg` | holds | only signed images run; downloads end |
| `Messaging.cfg` | holds | idempotency within the window, true answers |
| `MessagingTelemetry.cfg` | holds | counted loss, order, drained backlog |
| `Provisioning.cfg` | holds | credentials lifecycle; portal closes |
| `ProvisioningCapacity.cfg` | violated | finding 2 |
| `Timed.cfg` | holds | watchdog policy, time quality and requests, indication, button, env_monitor on its board, across wraps; links retried in time and observer current within half a range |
| `Untimed.cfg` | holds | refinement of `BoundedFifo`; event bus, codecs, switch, pin interrupt, policy, diagnostics |
| `NetworkUptime.cfg` | violated | finding 3 |
| `TimeUnset.cfg` | violated | finding 4 |

Bounds, and why they are enough:

* Configuration: three keys (one too long), three values (one too large), at most
  two records so that the table can be full, three commits (each slot is written,
  overwritten and erased again), two faults. `ConfigFaults` has a sequence of
  width 3 so that it wraps.
* OTA: images of up to three units, chunks of up to two: a download takes two or
  three chunks and each can be short, exact, empty or too long. Six manifests:
  sound, unsigned, signature of another image, digest of another length, empty.
* Queue: capacity three and seven drops, more than two wraps of each index.
* Messaging: window 2 with four commands of three ids (eviction happens),
  capacity 2; telemetry of four records over the same capacity.
* Provisioning: one acceptable and one unacceptable credential, timeout of two
  ticks, two starts between restarts, so that a start after a failed session
  occurs. The store of the passing runs has room for the 130 bytes of the
  credentials, as the store of the unit test has; `ProvisioningCapacity` uses the
  64 bytes of `ConfigService`.
* Health: two sources with deadlines of 1 and 2 ticks, watchdog of 2 ticks, a
  clock of 7 values that wraps many times between restarts.
* The other clocks wrap after 8 to 16 ticks, more than twice the longest period that
  is compared on them, as 2^32 ms is. Time: stale after 4, retries of 1 and 2 ticks.
  Indication: two sources, two frames, durations up to 2, polls up to 1 late. Button:
  thresholds 2, 4 and 6 with gaps up to 2, past one wrap. Product: periods 2, 3 and 4,
  a command buffer of 3 (two characters and the terminator), lines of up to 3.
* Event bus: two topics, two sinks, rings of two, four events, a machine that
  publishes to itself. Frames: payloads up to 2 bytes, every disturbance of one byte.
  JSON: buffers of 8, 16 and 40, two fields, keys of which one begins the other, all
  strings of up to two of the characters that matter, numbers at the (scaled) limit.
  Bytes: a buffer of 5 and four writes, so that a number of 4 bytes does not fit and
  a smaller one after it does. Switch: both polarities. Interrupt: two owners in turn.
  Policy: three commands for two slots. Diagnostics: maximum 3, a ring of two.
* Network: delays 1, 2, 3 and five attempts, so that the last delay is used more
  than once; uptime below half of the clock's range in `Timed`, above it in
  `NetworkUptime`.

`MaxFaults`, `LastSeq`, `MaxDropped`, `MaxSequence`, `MaxCommands`, `MaxStarts`,
`MaxUptime`, `MaxLinkTime`, `MaxEvents`, `MaxFields`, `MaxWrites` and `MaxLine` are the
names of the bounds; `MaxGap`, `MaxPollGap` and `MaxDelay` say how late the loop may be.

Fairness. `Ota`: the main loop calls `poll()` and a request is answered in
the end (weak fairness of both polls); the code has no timeout of its own.
`MessagingTelemetry`: the connection returns (weak), and a record that is published
over and over is acknowledged once (strong, since the connection may drop in
between). `Provisioning`: time passes (weak), and a portal that is closed
over and over closes once (strong: `stop()` may fail). `Timed`, health: time
passes and the hardware watchdog bites (weak); nothing is assumed of the
firmware, which may hang. `Timed`, time service: the loop polls, and the time source
answers a request it took (weak); the code has no timeout of its own, and without
that answer the service waits until the connectivity changes.

## 4. Findings

1. `ConfigService::initialize()` hides a read error when the other slot decodes:
   the older snapshot is loaded with status ok (`ConfigService.cpp:49`).
2. Credentials (130 bytes) do not fit a value of `ConfigService` (64 bytes), so
   provisioning over it always fails (`ProvisioningService.cpp:34`).
3. After a link was up for more than 24.8 days its retry time lies in the signed
   future and it is not restarted for as long again (`NetworkManager.cpp:26`).
4. `TimeSyncService::poll()` ignores the status of `set_utc()` (`TimeSyncService.cpp:15`):
   after one that failed the quality is synced, `utc_now()` shows a clock that was never
   set, where the service's README promises timestamp zero, or an old time counts as
   synced for another day, and the next request is six hours away. `StaleTimeIsFlagged`
   is therefore about a clock that took the last good answer.

Limits that the models make explicit, where the properties say what holds and
not more:

* `OtaService::cancel()` is accepted after a successful `activate()`. It discards
  the staged image that boot control was told to start and lets the next offer
  write into it (`OtaService.cpp:70`). With `ReuseAfterActivate = TRUE` TLC refutes
  `RunsOnlySigned`; the run and the theorem are about clients that do not do that.
* A duplicate command is executed again when more than eight other commands came
  between (`CommandDispatcher.cpp:65`); `OnceInWindow` is about the window.
* A request whose deadline falls on 0 of the clock never expires
  (`IndicationService.cpp:14`); `ShowsHighest` counts it as a request without end. An
  indicator that changes although its `apply()` fails may show another frame than the
  one it is taken to show (`FailedApplyShows = TRUE` refutes `ShowsHighest`).
* `S/time_sync/README.md` speaks of implausible jumps; the code accepts every time
  after 2020-01-01 (`TimeSyncService.cpp:14`), so `TimeSync` does too.
* The tail of a command that is too long is taken as a new command, and a character
  that arrives while one waits is lost (`EnvironmentMonitor.cpp:53`,
  `NucleoL476rgLowLevel.cpp:112`); `CommandIsLine` is about lines that arrive whole
  and fit.
* If masking the pin failed at the end of `attach()`, the handler would stay with no
  one to remove it (`MaskFails = TRUE` refutes `InterruptHasAnOwner`). The driver
  refuses that call only for a pin that earlier calls refuse already.
* After `set()` returned an error `is_on()` tells the new state, whether or not an
  output took it (`BinarySwitchService.cpp:20`); `OkIsDurable` is about ok.
* `publish()` is true when one sink of several took the event (`EventBus.hpp:84`).
* A `FrameCodec` for more than 255 bytes of payload encodes longer frames with the low
  byte of their length (`FrameCodec.hpp:38`), and its `decode()` refuses them;
  `FrameSurvivesHolds` is about codecs for at most 255.
* `encode()` leaves the byte behind the payload as it was in the buffer
  (`FrameCodec.hpp:41`); it is sent and covered by the CRC, and has no effect on
  `decode()`.
* `configure_output()` makes the pin an output before it sets its level
  (`Gpio.cpp:22`); the glitch between is below the granularity of `BinarySwitch`.

## 5. Proofs

Every invariant and every action property of the passing runs is proved for all values
of the constants that satisfy the modules' `ASSUME`s; only the liveness properties are
not. A theorem that needs more names it in an `ASSUME` of its own.

* `ConfigServiceProofs`. `TypeCorrect`, `RamTableSafe` and `OneFaultKeepsHolds` hold
  with all faults, without any hypothesis. The invariant of the last, `KeepInv`, tells
  the first fault from the state before it: without a fault both slots hold one of the
  last two acknowledged tables, except the one that is being written, and the active
  one holds the last. After the fault only one slot is known to, and a commit may even
  erase that one; but then it either puts the newly acknowledged table there or is the
  second fault.
  `SlotCorrect`, `LoadsNewestHolds` and `Implementation` assume `Disciplined`:
  clients wait for an initialize() that is ok, slots do not decay by themselves,
  and the sequence does not wrap; the last two also exclude read errors (finding 1
  is what happens otherwise). The inductive invariant is `TypeOK /\ SlotInv`: that
  a recovery finds the last acknowledged table is not inductive by itself, because
  it needs the active slot to hold exactly that table with the current sequence,
  the other slot to carry a different one, and the slot under a write to be empty.
  The refinement is proved step by step: edits map to `Edit`, the erase and a
  failed write to `Attempt` or a stutter, the successful write to `Acknowledge`,
  initialize to `Restore`.
* `OtaServiceProofs`. `OtaTypeCorrect`, `DigestMatchesStoreHolds` and
  `ReadyIsVerifiedHolds` without a hypothesis, `RunsOnlySignedHolds` under
  `~ReuseAfterActivate` (section 4). Each rests on the one before: what was digested is
  what is staged, so what is ready is what was signed, so what is marked and started is.
* `ProvisioningProofs`. `NoLingeringSecretsHolds`, `OnlyValidatedStoredHolds` and
  `ResetIsFinalHolds` support one another in `SecretsInv`. `ThreeAttemptsHolds` assumes
  `MaxStarts <= 253`, calls of `start()` between restarts: `failures_` is a
  `std::uint8_t` that `start()` does not clear, so with 254 it can wrap past the
  comparison. The bound is exact.
* `MessagingProofs`. `CommandInv` adds to `OnceInWindow` and `AnswersAreTrue` that
  walking back from the index of the cache meets the last `Window` commands in order;
  `TelemetryInv` adds that what is queued is older than the next record, which both
  the order and the count of losses need.
* `TimedProofs`. The inductive invariants relate the time a component computes on its
  wrapping clock to the real one, which the history variables count. Hence the
  hypotheses, all of the form "what is compared fits into the range of the clock":
  deadline + watchdog timeout (`FedOnlyWhenHealthyHolds`), stale limit + longest gap
  between polls (`StaleTimeIsFlaggedHolds`, one day in a range of 49.7, with any calls of
  `set_utc()` failing), debounce time + longest gap between samples (`PressIsHeldHolds`, 25 ms), telemetry period + longest
  write, of which the write is the shorter (`TelemetryOnTimeHolds`, 5 s). The code runs
  all of them on 2^32 ms. `RequestsSpacedHolds`, `ClockSafeHolds` and
  `CommandIsLineHolds` have no hypothesis; `ShowsHighestHolds` assumes
  `~FailedApplyShows` (section 4).
* `NetworkManagerProofs`. `NetworkTypeCorrect`, `ObserverIsCurrentHolds`, and
  `RetriedWithinCapHolds` under `ShortUptime`, an uptime below half of the clock's range:
  finding 3 is what happens beyond it.
* `UntimedProofs`. `QueueTypeCorrect` and `QueueImplementation`: the write index is the
  read index plus the count, modulo the capacity, and lemmas say how the contents change
  with a push, a drop and both. `OrderedOnceHolds`: the same for every sink of the bus,
  and no sink has two slots of a topic. `NumbersReadBackHolds`: every write lies in the
  buffer behind the one before it (`Marks`, a witness for where), and `RoundTrip` says
  that a number is the weighted sum of its bytes. `OkIsDurableHolds` (per port call,
  which pins are driven and what is stored), `PolicyIsCurrentHolds` (one slot for each
  accepted command), `DiagnosticsAreTrueHolds` (place by place of the history), and
  `InterruptHasAnOwnerHolds` under `~MaskFails` (section 4).
* `UntimedProofs`, frames. `FrameSurvivesHolds` assumes `MaximumPayload <= 255` (section
  4). No table of the CRC is needed: the polynomial has the highest bit and a shift to
  the right leaves it empty, so a shift of the register can be undone, hence a whole byte
  of `crc16_modbus()` can. Two bodies that differ in one byte have equal registers up to
  it, different ones behind it, and no later byte makes them equal again
  (`OneByteMatters`). A byte disturbed in the checksum itself changes the other side of
  the comparison, one in the sync word or the length is refused before it, and a lost
  end disagrees with the length byte.
* `UntimedProofs`, JSON. The inductive invariant `JsonInv` says of the writer that, unless
  it overflowed, the fields stand whole one behind the other (`Laid`, with a witness for
  where each begins), and that an overflow has filled the buffer, so that `end_object()`
  has no room for its brace: the one result the client looks at is enough. Of the scanner:
  every quote of such a text ends a key, or follows a backslash or a colon, or is followed
  by neither a space nor a colon (`QuoteKinds`), so `find_value()` stops at keys only
  (`StartsAreFields`), at the first of two. What the getters do from there is induction:
  the digits of `Decimal` stand for the number (`DecimalReads`), the check before each
  digit refuses exactly the numbers beyond 32 bits (`ParsedIsNumber`), and what `Escaped`
  wrote reads back up to the quote that ends it (`UnescapedReads`).

The induction theorems of the library take an operator, which the provers cannot
instantiate. `ArithmeticLemmas` does induction over the set of numbers that satisfy the
statement. For recursive functions it proves that an equation f[i] = step[i][f[prev[i]]]
with prev[i] < i has a solution, and only one, with the steps as functions; `Decimal`,
`Escaped`, `Number`, `Parsed` and `Unescaped` are known through that, and `Crc16` by an
induction of its own.

Only model-checked: `DownloadEnds`, `BacklogDrains`, `PortalTimesOut`, `SilenceEnds`,
`RequestsGoOn`. Liveness under fairness is out of the prover's reach.

## 6. Order of the work

`ConfigStore`, `ConfigService` and its proofs; `OtaService` and its proofs;
`BoundedFifo`, `OfflineQueue` and their refinement proof; `Messaging`; `Provisioning`;
`HealthMonitor`; `NetworkManager`; `ButtonInput`, `TimeSync`, `Indication`,
`NucleoL476rg` with `EnvironmentMonitor`; `BinarySwitch`, `PinInterrupt`, `EventBus`,
`FrameCodec`, `ByteStream`, `JsonDocument`, `SecurityPolicy`, `Diagnostics`; then the
proofs of all invariants and action properties, those of the two codecs last.

Left: two bytes disturbed at once, which a CRC of 16 bits detects only at some
distances, and the components of section 7.

## 7. Not modelled

* STM32H5 directories (placeholders without code) and test fakes.
* The SHT3x driver (one address check), the Modbus master and the MQTT session policy
  (each fills a buffer or a record and keeps no state), and MQTT topics (formatting).
* CRC32 at the level of bits: a torn snapshot is taken not to pass it.
* Input pins of the ESP32-C6, which only read a level; `FixedRingBuffer::try_pop` and
  `clear` and `Clock::sleep_ms`, which no service calls; pin registers of the STM32L4.
* Wording, logging and link quality.
