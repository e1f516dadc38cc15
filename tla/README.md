# Balansun PV router: a TLA+ model of the control core

Balansun is firmware for an ESP32 that diverts surplus photovoltaic power into
resistive loads. A meter tells how much the house imports or exports; a phase-cut
triac (channel 0) and auxiliary channels (relays, PWM, half-wave patterns, remote
relays over HTTP) are opened just far enough to bring the net power to a threshold.

This directory models the parts of it where the order of events decides whether the
program is right: interrupts against the main loop, requests against the regulation,
deferred flash writes against restarts, a migration against a loss of power. Paths
below are relative to `firmware/` unless they start with another top-level directory.

## 1. The system

Two tasks and three interrupts share global variables:

* **Metering task**, core 0 (`core/balansun_app.cpp:75`): polls the selected source and
  writes power and energy globals, without locks.
* **Main loop**, core 1 (`core/balansun_app.cpp:220`): in one pass, polls a pending
  reboot, starts triac timers, checks hardware presence, serves HTTP, services the
  write coalescer, talks MQTT, and every 200 ms runs the self-test and the regulation.
  HTTP and MQTT handlers run on this task, so they are atomic with respect to a
  regulation tick; the web server is also pumped inside the MQTT service, so there a request
  finds the link half way through.
* **Interrupts**, core 1 (`core/balansun_triac_isr.cpp`): zero-cross edge, 100 us phase
  timer, 10 ms half-cycle timer. They preempt the loop between any two of its writes.

| Component | State it keeps | Operations | Talks to | What is hard | What makes it correct |
|---|---|---|---|---|---|
| Phase-cut triac (`core/balansun_triac_isr.cpp`, `lib/balansun-core/src/triac.cpp`) | phase count, sync count, gate pin, timers | zero-cross, phase and 10 ms interrupts, start of the timers, pin write of the loop | reads the delay the regulation and the API write | three clocks, preemption, mains lost or noisy, the other core changing the maximum delay | no conduction without recent edges, never too early, off stays off, sync comes and goes with the mains |
| Regulation of channel 0 (`core/balansun_regulation_runtime.cpp` and the logic it calls) | delay (float and integer), integrator, load feedback, flags | tick, suspension, override on/off/fixed/auto, expiry, MQTT opening | meter, schedule, triac, API, MQTT | several writers of one command, early returns that skip stages, feedback of a stage into the next tick | closed means closed, ceiling kept, opens only on export, closes on import |
| Auxiliary channels (`core/balansun_load_runtime.cpp`, `core/balansun_pulse_modes.cpp`) | delay, pattern, counter, polarity, pin | decision, stop, pattern writes, half-cycle patterns of five modes | 10 ms interrupt | pattern written in two steps under the interrupt, variables reused between modes | stopped stays released, half waves balance, patterns progress |
| Remote relays (`core/Actions.cpp`, `core/balansun_load_runtime.cpp`) | On, time of the last command, override, last override acted on | tick, HTTP call, override, suspension, upload, restart | the peer, schedule, meter, API | calls that block, fail or arrive late, a peer the router forgets at a restart, wrap of millis | the belief is true unless a call was lost, commands are spaced, a repeated command heals a loss |
| Schedules, overrides, caps (`core/actions_logic.cpp`, `core/actions_api.cpp`) | periods, override, deadline, counters | lookup, request, expiry | regulation, API, MQTT | boundaries, wrap of millis, partial batches | exactly one period in force, overrides end |
| Configuration store (`metering/balansun_config_store.cpp`, `metering/storage_eeprom.cpp`) | RAM image, three flash keys, checksums, old blob | boot, migrate, commit, wipe, day tick | persistence, reset | power loss between any two writes, failed writes | what is skipped is stored, a saved configuration survives |
| Deferred writes and restarts (`core/balansun_persistence.cpp`, `core/balansun_reboot.cpp`) | dirty flag, two times, reboot deadline | mark, service, flush, reboot request and poll, OTA, WiFi give-up | store | wrap of millis, restart with a batch pending, writes that fail unnoticed | nothing pending is forgotten unless its write failed, bounded delay, few writes |
| Configuration image (`metering/storage_eeprom.cpp`, `metering/storage_eeprom_extension.cpp`, `core/balansun_*_persist.cpp`) | a stream of blocks behind the history, the key of the bindings | save, load, factory reset | store, API | one stream for everything: lengths move every later block, what does not fit is cut, the tail of an older stream stays behind it | what was saved is what is read back, a cut loses only the tail, nothing revoked returns |
| Sources and their health (`core/balansun_source*.cpp`) | reading, validity, age of the poll, error streak | poll cycle, change of source, score | regulation | two cores, one set of counters for every source | a dead source is cut, a sound one is not |
| Vacation and output suspension (`core/balansun_vacation_logic.cpp`, `core/balansun_output_suspend_logic.cpp`) | flag, end, guard | tick, site configuration, MQTT switch, state request | clock, store, regulation | ends by itself, set from two sides, a clock that is not set | closed exactly while asked for |
| Self-test, presence (`core/balansun_self_test*.cpp`, `core/balansun_hw_presence.cpp`) | test state, edge counters | tick, start, attach | triac | three users of one counter | a failed test blocks outputs |
| Day energy, history (`metering/storage_eeprom.cpp`, `metering/intraday_day_nvs.cpp`) | anchors, ring, intraday slots | midnight, restore, counting on the loop and on the metering task | store | restart around midnight, three tasks at the same stores, one gate for four counters | every day counted once |
| Action node, ESP8266 (`action_node/`, `lib/balansun-core/src/`) | schedule, override, surplus latch, pins, one flash sector | set-up, tick, command, schedule, polarity and WiFi requests, relay on/off | router | a latch that outlives its window, wrap of millis, a sector erased before it is written | overrides last as asked, settings survive, the surplus follows the router |
| MQTT client (`mqtt_ha_client.cpp`, `metering/pmqtt_bindings.cpp`, `metering/pmqtt_meter.cpp`) | link, subscriptions, two timers, discovery done, readings per binding | service tick, publication, callback, four requests, upload | broker, web server, meter readings | requests and commands inside a publication, one backoff for everybody, a link that is lost unnoticed | an open link hears the meter, publication and listening resume, halves of a reading wait for each other |
| Mains profile, hunting detector, pattern tables, HTTP API, WiFi | see `PROJECT.json` | | | | |

`PROJECT.json` lists every component with its status, and under `hazards` the places
where the code is hard to test, each with the properties that watch it or the reason
none does.

## 2. The modules

| Module | Models | Composition |
|---|---|---|
| `TriacPhase` | the triac interrupts, the timers, the loop steps they preempt | `MCTriacPhase` instantiates it; `TriacPhase_proofs` proves about it |
| `TriacRegulation` | the 200 ms tick of channel 0 and everybody else who writes its command | `MCTriacRegulation`; proofs in `TriacRegulation_proofs` |
| `AuxChannel` | one local auxiliary channel: tick steps against the 10 ms interrupt | `MCAuxChannel`; proofs in `Loads_proofs` |
| `Schedule` | the periods of a channel and the two lookups of the code, as operators | extended by `RemoteRelay`; proofs in `RemoteRelay_proofs` |
| `RemoteRelay` | a channel on another device: tick, blocking call, peer, requests, restart | extends `Schedule`; `MCRemoteRelay`; proofs in `RemoteRelay_proofs` |
| `ConfigStore` | the three-key store, its migration, its callers | `MCConfigStore`; proofs in `ConfigStore_proofs` |
| `WriteBack` | abstract promise: RAM is written back in time, a restart reads what was written | implemented by `Persistence` |
| `Persistence` | coalescer, reboot, OTA, WiFi give-up, power loss | `INSTANCE WriteBack`; `MCPersistence`; proofs in `Storage_proofs` |
| `DayEnergy` | the energy of the day: midnight, ring, saved counter, restarts | `MCDayEnergy`; proofs in `Storage_proofs` |
| `OutputGate` | what suspends the outputs: health of the source, vacation, and the writes of the metering task behind them | `MCOutputGate`; proofs in `OutputGate_proofs` |
| `ActionNode` | the pilot-wire node: schedule, override, surplus latch, relays, flash, and the router that talks to it | `MCActionNode`; proofs in `Loads_proofs` |
| `MqttClient` | the link to the broker, what runs inside it, and the readings of a meter on it | `MCMqttClient`; proofs in `MqttClient_proofs` |
| `ConfigImage` | the layout of the configuration: every block as written and as read back | `MCConfigImage` |

In every module a definition whose name ends in `Fault` is a seeded error: it replaces
the definition after it in a mutant, and no specification uses it. The theorems about two
components may share a module, which extends both; there the names both would have carry a
prefix (`AuxInit`, `DaySpec`).

### TriacPhase

Time is counted in ticks of 100 us. `Elapse` lets one pass and makes the timer
interrupts due; `PhaseTick`, `HalfCycleTick` and `ZcIsr` are the handlers, run to
completion because they share core and priority. `SyncTriac` and `WriteLow` are the two
writes of the end of a tick, `pc` the point between them; `ApiOverride` writes the delay
alone. `MainsChange` makes the mains good, absent or noisy, and `MainsFrequency` is the
write of the other core, which `PhaseTick` may also see between its two reads of the
maximum.

History: `missed` counts 10 ms alarms since the last accepted edge, `loose` says an
override wrote the delay and no tick has acted on it. They exist for the properties.

### TriacRegulation

One step per handler, because all of them run on the main loop. `Tick` is one of
`SuspendedTick` (early return), `SkippedTick` (channel inactive or capped, `barred`: the
`continue` before the feedback) and `RegulatedTick`, which expires the override, computes a command
(`Computed`), runs the load feedback, the site cap and the calibration in the order of
the code and publishes the delay (`Command`). The delay the interrupts obey is `hw`,
which overrides and MQTT readings write too; `by` remembers who wrote it last.

Numbers: delays count `Full` units, the float command `Fine` parts of a unit, so that
rounding is modelled. The correction of a tick (`error * ki`) is any of `Steps`. The
drift term 0.0001 the integrator adds at each tick is left out; it closes the triac.
The PID branch yields any value within the limits (`Pid`). Of the schedule two things are
kept, because the code looks them up separately: `sched`, the type of the period whose time and
temperature fit, and `limit`, the period the ceiling and the threshold come from, which looks at
time alone (`core/actions_logic.cpp:29`, `:40`). So a surplus period may run against the 32000 W
of an ON period out of its temperatures: everything is then an export (`Error`), and
`OpensOnlyOnExport` and `ImportCloses` except it. The calibration points are any bytes: the
request that sets them checks neither order nor range, so `Lerp` divides by differences of
either sign, truncating as C does.

### AuxChannel

The tick is a decision (`Decide`, `ForcedOff`) followed by its writes: `Stop`, or `ApplyOn`
then `ApplyTotal`. The interrupt `HalfCycle` may come between any two. `delays` are the delay
and the integrator; `pulse` the pattern. `On` serves telemetry only and is left out. Both
paths name the same pin, and the initial level options of the paths are not used.

### Schedule and RemoteRelay

`Schedule` has no state. A period is a record of start, end, type, thresholds and
temperature limit; `Sanitized` is what a channel makes of an upload. The code looks up
the period in force twice: `actions_logic_active_type` keeps the last match and tells
the API, `Action::apply_regulation` runs through every period with `start <= now < end`
and acts on each (`InForce`). That the two agree is a property, not a modelling choice.

In `RemoteRelay` one `Tick` is one pass of the loop through the channel: suspended,
overridden, or automatic; the last is a window (`WindowTick`) or a disabled channel. A
command starts a call, and a call blocks the loop: until `Return` only time passes, the
meter task writes `net`, and the peer may or may not `Hear`. The router is not told which.
`since` is the difference `Tseconde - T_LastAction`; with `Wraps` it may be negative, as
the signed difference in the code is. `Elapse` does not advance past `CallTime` during a call.
`Restart` forgets the belief and keeps the peer.

History: `lost` says the peer missed a command or the router restarted, `rest` the
seconds since the peer last switched, `excused` that since then the channel left automatic
operation (suspension, override, disabled, upload). Left open: whether an override has a
deadline (`AutoTick` may end it at any tick). Nothing keeps the limits of a window in order: with
`pmin > pmax + 1` a tick calls twice, on and then off (`Revoked`, `second`), the two calls
stamped alike and no rest between them. `excused` records it, `RepeatHeals` asks for limits that
demand one thing. Not modelled: a peer that acts on a call after the router gave up.

### ConfigStore

`pc` is where the program is (off, load, seed, run, commit, wipe, defaults), `todo` the
domains that operation still has to handle, so every flash write is a step and `Crash`
may come between two. A checksum stands for the content it was computed from;
`Flip` is the inversion that forces a write. `maybe` is the history of the parameters a
restart may find: the last save reported done and the later attempts. NVS writes are
atomic per key. The result of the migration's writes is ignored by the code; here they
succeed.

### DayEnergy

`img` is the image of the EEPROM in RAM, `hist`, `anchor` and `intra` what flash holds;
`j0` and `floor` are what the counter of the day is computed from, `pub` what is
published and saved. A clock tick runs in the loop or in the callback of the time
synchronisation: `Roll` decides and fills the image, `PutHist` and `PutAnchor` are the
writes of the commit, `Morning` reads the image back, `Wipe` erases the counter of the day;
`Restart` may come between any two. `Daily`, `SaveDate` and `SaveValue` are the rest of
the loop's pass, and with a source that reads a second meter itself (`second`) also the end of
a poll on the metering task of the other core (`Polled`, `core/balansun_source.cpp:79`). With
such a source a rollover is skipped while the second meter is silent, and the date advances
all the same (`SameOrSkip`, `metering/storage_eeprom.cpp:648` and `:677`): `AnchorsFollowDate`
is about the other sources.

One of the four counters of a day is modelled. The four are saved together, when the largest
has grown or after five minutes (`metering/intraday_day_nvs.cpp:69`), so a smaller one may have
grown and not be saved. `saved` is the largest at the last save, which the counter of
the module or another one may have been; `Gate` says when a save is certain and when possible.
The history `behind` says that it was another one: `RestartKeepsDay` promises the whole counter
where it is not, and never more than was counted where it is.

Five defects are exceptions of the properties, recorded by `overlap` and
`torn`: two tasks at the same stores at once (two rollovers, or a count of the metering task during
anything of the loop), a power cut between the date and the value of
the saved counter, one between a late rollover and the erasure of a counter that already has
the new date, a reset of the history that could not write the anchor, and a power cut after
two rollovers whose rings were stored and whose anchors were not (`Ahead`): the ring then
has a day that the old anchor counts again. The last came out of the proof: the account that
proves `NoDoubleCount` fails there, and a run of four days has the trace. `Midnight` waits for
the loop to be between two ticks, which run every two seconds.

History: `since` is the date of the anchor from which the last day of a ring was counted, for
the ring in RAM and for the stored one; `Ahead` is about it. It takes part in nothing else.

### Persistence

`now` is millis() modulo `Clock`; `Since` is the signed difference of the code. `Turn` is
one pass of the main loop (reboot poll, then service), `Elapse` a unit of time, at most
`Stall` of them between two turns. `batchAge` and `changeAge` are histories that do not
wrap. A write may fail, and then flash keeps the old configuration or has the new one
(`Outcomes`). A deferred write clears the flag without looking (`Flush`,
`core/balansun_persistence.cpp:19`), a critical one leaves it set, because
`persistConfigToEeprom` returns before it reports the write. The history `failed` says that the last
write failed and no deferred change came since: nothing will then write what RAM holds but the
next change or a requested restart. `WriteBack` is the abstract view on `value`, `disk` and
`failed` only: what differs from flash gets tried, and is left alone once the attempt failed.

### OutputGate

A poll of the metering task is three steps, because the loop on the other core runs between
its writes: `PollStart`, `PollAnswer` (the driver; only the peer's records its result) and
`PollEnd`, which counts the streak in the name of the source chosen by then. `age` saturates
past three periods, where the points of freshness are gone, `streak` where the code's
saturates. `Suspend` and `Regulate` are the two outcomes of a tick; what a regulated tick
computes is `TriacRegulation`'s, so here automatic operation opens or closes at will, and a
channel that is disabled or at its cap (`barred`) is closed whatever overrides it. `Request`
is what the two ways of setting a vacation have in common; `GetState` clears an ended one as a
side effect. A restart may keep the time of day.

History: `misses` counts polls of the active source without a reading, `asked` is the
vacation as last requested, `unsaved` that nothing was saved since.

### ActionNode

The node has one thread, so a request or a tick is one step, except for a write to flash:
`EEPROM.commit` erases the sector (`SchedulePut`, `ConfigPut`, `WifiPut`) and `Commit` writes
it, and `PowerOff` may come between. `now` is millis() modulo `Clock`, `Expired` its sign
test. The handlers test `body_json` the wrong way round (`action_node_http.cpp:31`, `:63`):
they refuse a body that parses and use the defaults of one that does not; the requests of
the module are those that reach the node's state. The router repeats `want`; a request it
gave up on may still wait in the node's queue (`late`) and is answered first.

### MqttClient

One pass of the loop is one second, the period of the service; every second pass includes
the publication. `at` is where the pass is: the service tick (`service`, `listening`), a
connection attempt (`connecting` before the client connects, `opened` after it subscribed),
the publication (`timer`, `hear`, `report`, `close`). `by` says for whom a connection is
made, because each caller goes on differently and none looks at the link again. The web
server is pumped at `connecting`, `opened` and `listening` and between the parts of a pass
(`Pumped`): there a request may open or close the link. `clientMQTT.loop()` takes at most one
message, in the callback of which `SetSource` closes the link under its caller. A request that
publishes calls it too (`reply`).

`link` is what the client believes, with `dead` for a connection it has not yet found lost.
`subs` are the meter's topics subscribed when the link opened. `live` are the bindings whose
last message could be read, `valid` is `meter_reading_valid`. Of the configuration the module
keeps what the link depends on; `PutConfig` keeps the fields before refused bindings, as the
code does. `sinceAttempt` saturates at the backoff, `sinceHa` beyond the longest period.

History: `measured`, the powers of the house received since the start; `replaced`, the
configuration was put while this link was open.

### ConfigImage

Cells hold bytes and `Cap` is their number. A block is a mark and a list of items, an item
says how many cells it asks for and what happens without them: it is skipped, the block is
left, or the stream stops. `Written` and `ReadStream` run through the blocks in the order
of the two functions; that the tables of the writer (`FrontBlocks`, `RearBlocks`) and of
the reader (`FrontFound`, `RearFound`) differ where the code differs is the point. A cell
past the capacity keeps what it held (`Kept`), and reading past it gives zero or the empty
text, as the EEPROM library does. `Start` reads, and saves again where it renames the device; `Save`
stores the bindings under their own key, lays the stream over the image in RAM and commits,
and either write may fail. `Init` includes images of an older firmware (`OldRearBlocks`).

Numbers are below 256 and their upper bytes zero; a text is a sequence of characters. One
channel stands for the twenty of the tables, its JSON is an opening bracket, the
coefficients, a text of the channel's length and a closing bracket. A serializer that runs out of
its scratch (`Scratch`, `core/actions_api.cpp:47`) leaves no block and no report (`Outgrown`):
as many channels come back as nobody set, with the coefficients of the block behind them.

History, in `disk`: who wrote the image, from which settings, and whether the save reported a
truncation.

## 3. The runs

| Run | Bounds | Shows |
|---|---|---|
| `triac` | 4 ticks per half cycle and alarm, debounce 1, delays 97 and 100, maximum 2 or 3 | interrupts, loop and other core in every order: no conduction without recent edges, none too early, off releases; under fairness a good mains brings sync, an open triac conducts |
| `regulation` | 3 units in 3 parts, corrections of a third of a unit and of more than two, ceiling of 2/3, hold of one tick | closed when forbidden, ceiling as reported, opens on export or against an ON threshold only; lasting import closes however small the corrections, a drawing load ends the backoff |
| `calibration` | 10 units and the points the diagnostics page writes | *violated*: see below |
| `aux` | all six modes, 3 units, accumulator of 4 | a stopped relay stays released, half sines alternate; trains alternate whatever counter they inherit, an unsynced relay follows its thresholds |
| `remote` | three uploads, one with crossed limits, over three times of day, tempo 3, repetition 4, calls of one second, no wrap | belief true unless a call was lost, the peer rests, a repeated command heals lost calls, the window in force is obeyed |
| `store` | two contents, any old blob or none, failing commits, power loss anywhere | skipped means stored, saves survive |
| `day` | four days, a ring of three slots, a counter of one to three, three days with a second meter; nothing explored after a tear, nor beyond day two once two tasks overlapped, nor after that with a second meter (`Explored`) | no energy in two days, restarts keep the day but for what the gate did not save, the date advances with its anchor |
| `persistence` | two configurations, clock of 16, debounce 2, ceiling 4, stall 2, any write may fail | nothing pending late, coalescing, graceful restarts keep what no failed write lost, and the refinement of `WriteBack` with its progress |
| `mqtt` | two topics, three configurations (import and export on two topics, without publication; a plain topic with publication, refused where it is uploaded but for its source, topic and period; another source, bindings ready for the signed power), backoff 5, one message per service tick | an open link hears the meter's topics, import and export wait for each other; under fairness publication and listening resume |
| `gate` | a period of one unit, streak up to 2, two days, vacations without end or until the second day | a silent peer is cut, a sound one never, a vacation is the one last asked for through ticks, saves and restarts; under fairness a recovered peer is sound again |
| `node` | three relays, a clock of 6, a day of two hours, three uploads (one refused), overrides of 0, 2 and 3 seconds | an override lasts as asked across wraps, settings answered for survive unless the sector was lost, the surplus follows the router whatever was refused or late |
| `image` | 262 cells, two changes, channels of 13 lengths, one beyond the serializer, tokens of 8 characters, older images | a save not reported as cut is restored whole but for channels beyond the serializer, a cut one keeps everything before the channels, no revoked token returns |

Why the bounds are enough. The triac handlers only compare the phase count with a
threshold and two limits; two or three ticks per half cycle put the count below, at and
above each of them, and the safety properties are proved for every value anyway. The
regulation needs one value strictly between closed and the ceiling, a correction below half
a unit, which a tick that starts from the rounded delay would lose (a third of one, with three
parts), and one larger than the distance to a bound. The
channel needs an opening whose pattern has both values. The remote channel needs a
repetition longer than the tempo, a call shorter than it, and periods of every type that
abut; three times of day put the clock before, at and after a boundary. Two contents tell an old from a
new one, and three domains are all there are. The clock wraps several times within the
states of a batch, and debounce, ceiling and stall are pairwise different. Four days are a
day rolled over from, two rolled over late or unsaved and one more, and `Explored` cuts only
where the properties ask for nothing, but for `AnchorsFollowDate`, which is proved; the fourth
day is left to sources with one meter, whose counting differs in nothing else, and the proofs
take any number of days; a counter of three has a small
backward jump (held) and a large one (a new meter). A period of one unit puts the age of a
poll below one, at two and beyond three periods; the score tells streaks of 0, 1 and more
apart, so 2 is enough; the three theorems on the gate hold for every value. A clock of 6
has its sign test at 3: durations of 2 and 3 seconds are one on each side of it, and every
override meets a wrap. The stream of the first settings takes 234 of the 262 cells; the
13 lengths of a channel move the end of the capacity over every block behind the channels
and into the channels themselves, and two changes with a save after each lay a shorter
stream over a longer one and the reverse. The backoff of the MQTT client is the real one in
seconds, longer than the publication period and than a pass, so attempts of publication and
service tick get in each other's way; one message per service tick leaves the source command
and the reading every place they may arrive at.

### Where the documents and the code disagree

| Run | What the run shows |
|---|---|
| `calibration` | the calibrated opening is the start of the next correction, so calibration opens the triac a little more at every tick, also while the house imports |

Seven more are stated as definitions that TLC finds violated; no run is spent on them:

* `HeldWhileIdle` (`TriacRegulation`): the load feedback closes the triac, and the closed
  triac is what releases the feedback in the next tick, with the load still idle.
* `RelayFollowsExport` (`AuxChannel`): local channels are driven by an interrupt that calls their
  pattern only while zero crossings are missing (`core/balansun_triac_isr.cpp:100`), so with the
  mains present a relay is never energised, whatever
  `web/src/i18n/locales/fieldHelp.en.ts:162` says of its threshold.
* `SuspendedStaysReleased` (`AuxChannel`): suspending outputs stops the pin once; the
  10 ms interrupt continues the pattern.
* `MigrationKeepsSettings` (`ConfigStore`): power lost during the migration makes the next
  boot erase the old settings before reading them.
* `ClearMeansStored` (`Persistence`): the comment at `core/balansun_persistence_logic.h:50` clears
  the flag "after a flush actually happened", and `core/balansun_persistence.h:15` promises that
  no deferred change is lost on a graceful restart; `do_flush` ignores the failure of its write
  (`core/balansun_persistence.cpp:19`), so a change whose write failed is in RAM alone, and a
  WiFi give-up loses it.
* `DeadSourceCuts` (`OutputGate`): for every source but the peer the last poll counts as
  good as soon as the wall clock was set once (`core/balansun_source_health_logic.cpp:50`), so
  the score never falls below 50 and the fail-safe never cuts a dead meter, which
  `web/src/i18n/locales/fieldHelp.en.ts:52` promises.
* `PinsTellOrder` (`ActionNode`), with `Wiring = "2relay"`: arret gives the two pins the
  levels of confort (`action_node/action_node_app.cpp:123`), where the test
  `TwoRelayGpioLevelsDistinct` of `lib/balansun-core/test/native/test_pilot_wire_full.cpp:42`
  tells them apart. With three relays it holds.

Others were seen while modelling and are reproduced by the modules, not judged by them:

* Regulation: the stale integer delay in an OFF window, outputs that are active low and the
  final LOW of a stop, the idle timer that keeps running through skipped ticks, the
  calibration after the site cap, the opening of an ON request before the next tick; before
  the first valid reading no tick closes it again (`core/balansun_app.cpp:300`). Reading an
  override that is due clears it and leaves the triac as it was (`api/api_v1_shared.cpp:659`).
* Vacation: ON over MQTT keeps an end that has passed, and then lasts one tick
  (`mqtt_ha_client.cpp:361`).
* Day: midnight writes the day that ended to the slot the API calls today
  (`metering/storage_eeprom.cpp:658`, logical index capacity - 1), while
  `balansun_yesterday_daily_metrics` reads index capacity - 2; with a second meter that is silent
  at midnight the day goes on under the new date and its energy is not rolled over; a restart
  loses what a counter below the largest gained since the last save; `intraday_day_nvs.h:12`
  promises about one write in five minutes where `intraday_day_nvs.cpp:81` writes whenever
  the counter has grown.
* Remote relays: after 49.7 days millis() starts again, the seconds since the last command
  turn negative, and neither thresholds nor repetition act until the clock reaches the time
  of that command again (`Wraps` in `RemoteRelay`).
* MQTT: an accepted configuration neither reconnects nor subscribes anew, so a changed topic
  is heard from the next link on; a refused one keeps the fields before the refused one
  (`api/api_v1_shared.cpp:388`). A source command in the middle of a publication closes the
  link, discovery is then sent into nothing and counts as done, and the rediscovery it asked
  for does not happen. A reconnect or a publication within five seconds of the last attempt is
  refused by the backoff and costs a whole period. Without a meter on the broker the client
  calls `clientMQTT.loop()` at publications only, so with a long period the broker drops it in
  between. The two halves of a split reading are never aged.
* Flash writes: the result of the coalescer's write is ignored; so is that of the migration's
  writes, which succeed in the model.
* Image: the secret of the last token may run past the capacity without the save saying so
  (`metering/storage_eeprom_extension.cpp:825`; the comment at `:469` says every
  capacity-forced exit is reported); channels too long for their serializer are left out
  without a report either; the report is logged and read by nobody; a secret of
  the wrong length is passed by its NUL only and misaligns the tokens after it; channels whose
  JSON was cut load as that many default channels; the pins that
  `core/balansun_pin_map.h:35` calls persisted, the load profile and the slots of the
  temperature probes do not survive a restart, and a manual frequency or voltage is
  overwritten by the row of its country; a factory reset keeps Victron, the calibration of
  the triac and the load profile.

## 4. Fairness

* `TriacPhase`: interrupts that are due run (`WF` on the three handlers), time passes,
  the loop comes by again and again (`SF` on `AttachZc` and on a `PollHw` whose
  `timerBegin` succeeds: the loop retries at every pass, and failure is transient
  memory pressure), and the loop finishes its tick (`WF` on `WriteLow`). Nothing is
  assumed of the mains, the requests or the other core.
* `TriacRegulation`, `AuxChannel`: the loop keeps ticking and the hardware timer keeps
  firing. Readings, requests and configuration are unconstrained.
* `RemoteRelay`: the loop ticks again and again (`SF`, because a call disables the tick and
  a tick may start a call; five ticks a second against a tempo of seconds), time passes,
  calls return, and of calls made without end the peer hears some (`SF(Hear)`: a flaky
  link, not a dead one). Overrides, uploads and readings are unconstrained, and the
  properties name the quiet they need.
* `Persistence`: turns and time go on. `Stall` bounds the time between two turns; the
  longest blocking call in the loop is the five-second HTTP call to a remote relay,
  small against the five-minute debounce.
* `OutputGate`: the metering task and time go on (`WF` on the steps of a poll and on
  `Elapse`). Nothing is assumed of the meter, the clock, the requests or the loop;
  `RecoveryEnds` names the answers it needs.
* `ActionNode`: a node with power finishes set-up and its flash writes and ticks every
  second (`WF`); of the requests the router repeats some arrive while they are accepted, and
  none waits in the queue for ever (`SF`).
* `MqttClient`: the loop runs, and a lost connection is noticed in the end (the ping of the
  client or TCP). Nothing is assumed of the broker, the messages or the requests; `LinkResumes`
  names the quiet and the broker it needs.
* `ConfigStore`, `DayEnergy`, `ConfigImage`: none; their properties are about what an
  interruption leaves behind.

## 5. The proofs

Each `..._proofs` module proves its theorems from the named `ASSUME` of the modules it
extends, and nothing else unless a theorem's own `ASSUME` says so. A property is seldom
inductive alone; the strengthening of each is below.

**`TriacPhase_proofs`** (`TypeCorrect`, `RecentEdge`, `OffReleases`, `NotEarly`), from
`TriacAssumption`. `IInv` adds to the types what ties the three clocks together:
`SyncIsEarned` (the sync count cannot outlive the edges that fed it), `GateOnItsWayDown`
(a gate still high after synchronisation ran out meets a phase tick before the next 10 ms
alarm: without it the 10 ms handler, which never touches the gate, would be blamed),
`CountFollowsTime` (the phase count is at most one tick ahead of the time since the edge)
and `DueMeansRunning`. `NotEarly` reads the earliest legal time off `CountFollowsTime`.

**`TriacRegulation_proofs`**, from `RegulationAssumption`. Lemmas give rounding, the
calibration and each stage of the tick their bounds. `Forbidden`
(`ForbiddenMeansClosed`) and `BackoffClosed` are inductive with the types, because every
stage maps closed to closed. `CeilingKept` needs calibration off: with it on the property is
about the uncalibrated command. `OpensOnExport` needs calibration and PID off, and rests
on `InStep`: between requests the delay of the interrupts is the rounded command, so
"opens further" can be read off the float by monotonicity of rounding. `TypeCorrect` holds for
whatever bytes the calibration points are (`QuotientInt`, `LerpInt`, `Calibration`). The run
`calibration` shows that the assumption on calibration cannot be dropped.

**`Loads_proofs`** is about two kinds of load. The channels (`AuxTypeCorrect`,
`StaysReleased`, `Alternate`) start from `AuxAssumption`. `StoppedIsClosed` carries the closed
delay from the decision to the stop and on to the next decision: it is what the interrupt
reads. `StaysReleased` assumes an active-high output, because a stop ends with LOW whatever
the level of the load. `TurnIsKept` ties the polarity fired last to the variable two modes
share.

The node (`NodeTypeCorrect`, `Timed`, `Survive`, `PeriodInForce`, `PinsTell`) starts from
`NodeAssumption`, for every clock, length of the day, wiring and set of requests. `Obeyed` is
`OverrideTimed` with the deadline: an override that is on is less than half a clock ahead of
`now`, by as much as the history says is left of it, which is what makes the sign test of
the code right on both sides of the wrap (`NotReached`, `Reached`). `Settled` follows a write
through the erased sector: what the node answered for is in RAM, and in flash unless the sector
is erased. `PeriodInForce` is about the schedule, whose periods abut and cover the day (`Whole`):
that some period holds the time is found as the last one that starts in time, by well-founded
induction on its number (`LastOne`, `WholeCovers`); so the null pointer the callers guard
against never comes. `PinsTell` says when the levels of the pins tell the order (`Told`), for
both wirings: two relays cannot tell arret from confort, which is the divergence
`PinsTellOrder` of section 3.

**`ConfigStore_proofs`** (`TypeCorrect`, `SkipSound`, `SavedFound`, `CommitStored`), from
`StoreAssumption`, which says that an inverted checksum is never the checksum of a
content; for the code's 32-bit sums that is true up to collision. `IInv`: `SumsAgree` (a
checksum in RAM that is not inverted is that of flash), `WipeForgets` (during a reset no
checksum matches), `SeedsAbsent`, `StoredSoFar` (the domains an operation is done with
hold RAM's content), `SavesAreKnown` and `SavedSurvives` itself.

**`Storage_proofs`** is about what is kept across restarts. The coalescer (`TypeCorrect`,
`Clean`, `GracefulKept`, `InTime`, `Coalesced`, `Refines`) starts from
`PersistenceAssumption`: no pending time exceeds half the clock. Writes may fail throughout:
`Clean` says that flash holds the configuration while nothing is pending and nothing has
failed since, and `GracefulKept` that a restart the program asks for keeps it wherever it can.
`InTime` is about times that wrap, so `Tracked` ties the history ages to the two readings
modulo the clock (`BatchTracked`, `ChangeTracked`) and bounds the age by the ceiling and the
time since the last turn (`BatchInTime`); `SinceIs` turns the signed difference of the code
back into that age. `Refines` proves the safety half of `Implements`.

The energy of the day (`DayTypeCorrect`, `AnchorFollows`, `KeepsDay`, `CountedOnce`) starts
from `DayAssumption`, for every size of the ring, number of days, use and threshold of a new
meter, with one meter and with two. `Follows` ties a task at its erasure to an anchor of its
date and gives `AnchorsFollowDate`, whatever tasks are at the stores. The other two are about
one task at a time, be it the loop, the time callback or the metering task. `Keep` says what
the steps of that task leave between them: the order of the dates of calendar, anchor and
counter (`Dated`), that what a rollover or a save takes is the counter of the day
(`Published`), that the anchor in use is the stored one, a lower one or the first (`Drifts`),
and that on its own anchor the stored counter is the counter, or one below a larger counter
saved with it (`Kept`). `Counted` is the account behind `NoDoubleCount`: days recorded, the
day so far and what the meter shows beyond an anchor have all been used, for the ring in RAM
and the stored one (`Ledger`), for every pair of a ring and an anchor that a restart may find
together (`Pairs`), with the stored counter in place of the day so far (`Stores`), and the
stored anchor is the one in RAM or an earlier one whose counter was erased (`Lineage`). The
code keeps no such pair together, so without the mixed pairs the invariant is not inductive. A
ring is added up by `FoldSet`; `AddsExists`, `TotalSplit` and `RingPut` say what the fold
computes, by well-founded induction on the subsets of the ring. `Keep` and `Counted` were
checked by TLC as invariants, first with the constants of the run and then with up to five
days, a ring of two or three slots, a use of up to three and small and large thresholds.

**`RemoteRelay_proofs`** (`OneInForce`, `SanitizedValid`, `TypeCorrect`, `OnePeriod`, `Belief`,
`Rests`), from `ScheduleAssumption` and `RemoteAssumption`, whether the clock wraps or not. It
begins with the schedules: a valid one has at most eight periods, as in the code, so the
argument goes through the starts one by one (`Ordered`, `Covered`) and needs no induction.
`Numbers` adds that the last command was given at a time of the clock, without which the
negative difference after a wrap has no bound. `CallIsBelief` says what a call in progress
commands; `StampIsRecent` and `Rested` relate the time stamp, which is set when a call
starts, to the history, which is set when the peer hears it: a call may not use more than
`CallTime` of the rest, and the second call of a tick, for which the time stamp says nothing,
is what `excused` excepts until the next switching.

**`OutputGate_proofs`** (`TypeCorrect`, `DeadPeer`, `SoundPeer`, `VacationKept`), from
`GateAssumption`, for every period, saturation and set of ends. `Counted` ties the history
`misses` to the counters the score reads: with the peer the streak is at least `misses`, and
after a miss the peer's result is false. The score is integer
arithmetic over the ramp of freshness; its lemmas bound it on each side of 50. `Remembered`
says that `vac` is `asked` or `asked` with the flag cleared after its end, and the same of
flash unless a request is unsaved.

**`MqttClient_proofs`** (`TypeCorrect`, `OpenHears`, `WaitsForBoth`), from `MqttAssumption`,
which says that one of the configurations has the longest publication period. `TypeCorrect`
needs it to bound the publication timer, which stops one past that period (`Numbers`), and
`Calls` to say where the pass may be when it goes on. `Linked` is
the property with the types it needs: the configuration changes under an open link only by
closing it or by an upload that is recorded.
`Received` says that every live binding of an import or an export has its power in `measured`,
so a pair that is ready was received whole.

Types are proved (`TypeCorrect` of each module that has one) and no run spends a check on them;
`ReportedBackoffIsClosed`, `OnePeriodInForce`, `CleanMeansStored` and `CommitMeansStored` are
proved and no run checks them.

Only model-checked: everything under fairness (`RecoveryEnds`, `LatchFollows`, `LinkResumes`,
`MainsBringsSync`, `OpenTriacConducts`, `ImportCloses`, `LoadEndsBackoff`, `TrainAlternates`,
`UnsyncedRelayFollows`, `RepeatHeals`, `WindowObeyed`, the progress of `Implements`), the
properties of `ConfigImage` (`RestartRestores`, `FrontSurvives`, `RevokedStaysOut`), and the
violated ones. Induction on data needs an operator as a parameter, which the provers cannot
instantiate; where the argument is about one definition, a least counterexample does (the sum
of a ring, the last period of a schedule). The image is a fold over sequences of blocks of
many kinds, and its properties depend on where the lengths of one configuration put the end of
the capacity, so its layout stays with TLC.

## 6. What is not modelled

Parsing of meter protocols, HTTP and MQTT payloads, JSON, the web interface, drivers of
external chips, generated defaults: input and output without control of their own. The
remaining components of the table are planned as below. Left out inside the modelled
components: `EEPROM.begin` failing, the clipping of texts to their longest length, the repair
of schedules at a start, the back-off of the poll period, the JSON the node reports, the
radiator products with fewer orders, the S3 variant of attaching the interrupt, separate pins
for on and off, the telemetry counters of the coalescer, sources that report the energy of a
day themselves, the import of a history, and of MQTT the Victron GX client, event edges,
payload contents, a change of the broker's address, a publish buffer that cannot be allocated.

## 7. Plan

1. Core, done: `TriacPhase`, `TriacRegulation`, `AuxChannel`, `ConfigStore`, `WriteBack`,
   `Persistence`, `Schedule` (the lookups), `RemoteRelay`, `DayEnergy`, with the proofs of
   section 5.
2. Around the core, done: `OutputGate`, `MqttClient` and `ActionNode` with their proofs, `ConfigImage`.
3. `SelfTest`: `core/balansun_self_test.cpp`, `core/balansun_hw_presence.cpp`; the users of
   the edge counter and the lockout, composed with the suspension of `OutputGate`.
4. `Override`, on top of `Schedule`: batches of channels, the deadline with the wrap of
   millis and the sentinel 0. The triac's two lookups, which `TriacRegulation` has as any pair of
   periods, join `Schedule`.
5. `PulseTables`: share and balance of the multi-sine patterns.
6. Proofs: done for every module but `ConfigImage`, where the lemmas on one block (what `Written` leaves
   is what `ReadStream` finds) are next.

Later modules join the existing instances where they share state, so that one run answers
for the composition.

Liveness, ENABLED and fairness stay with TLC.
