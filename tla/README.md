# PSU-EXT firmware: specification, model checking and proofs

The firmware turns an ESP32-S3 board with an ADS1115 converter and one relay into an
extension of a bench power supply: it measures two voltages and two currents, trips the
relay on over-voltage and over-current, switches it on a timer, on GPIO inputs, over SCPI
(USB and TCP) and from Home Assistant (MQTT). What makes it hard is that about ten FreeRTOS
tasks on two cores share the relay, the trip latches, a timer queue, a calibration
transaction, a sample ring and NVS, with many short critical sections and few locks held
across calls.

Paths below are relative to `src/`; `components/` is left out of module paths.

## 1. Inventory

### Tasks

| task | priority | started by | does |
| --- | --- | --- | --- |
| `app_main` | 1 | IDF | initialises every service in the order of `src/main/main.c:71-94`, waits for Wi-Fi |
| ADS acquisition | 6 | `measure_prov_ads1115.c` | converts one input after the other, auto range |
| `measure_sampler` | 5 | `measure_svc_sampler.c` | reads new conversions, publishes them, runs the listeners |
| `timer_svc` | 6 | `timer_svc.c` | sleeps until the step's deadline, switches the relay |
| trigger worker + GPIO ISR | 6 | `trigger_svc.c` | debounces the inputs, runs their actions |
| TinyUSB | - | esp_tinyusb | receives, executes SCPI commands, moves FIFO to endpoint |
| `usb_com_tx` | 5 | `usb_com.c` | writes a queued answer to TinyUSB's FIFO |
| `tcp_server` | 4 | `tcp_server.c` | listens, one SCPI session at a time |
| `mqtt_svc` | 4 | `mqtt_svc.c` | owns the MQTT client, publishes, executes commands |
| `esp_event` loop | - | IDF | Wi-Fi and IP event handlers |
| `status_led` | 3 | `status_led.c` | blink patterns |

### Components

State, operations, interactions and what makes each component correct. PROJECT.json lists all
31 of them with what is modelled of each.

| component | state | operations | interacts with | correct when |
| --- | --- | --- | --- | --- |
| `output_ctrl` | pin, cached state, listener | set with a cause, read | everyone who drives the relay; the timer listens to changes | the cached state is the pin's; the listener hears changes in order |
| `protection_svc` | thresholds, three latches, two mutexes | check a sample, clear trips, check enable, setters | sampler, relay, calibration (suspends it), NVS | a trip opens the relay and it stays open until acknowledged; no enable past a limit; no trip in a transaction |
| `timer_svc` | queue of steps, state, deadline | add, clear, toggle, expiry, relay listener | relay, protection (clears trips on resume), SCPI, triggers | queue and state agree; a due step is served; a tripped countdown stays paused; a cleared one does nothing |
| `trigger_svc` | pending and stable level per pin, queue of 8 | ISR, worker | `trigger_config`'s actions | the last level of a pin is dispatched; the queue never overflows |
| `trigger_config` | slot mapping, NVS keys | bind, clear, restore | trigger slots, NVS, SCPI sessions | the action that runs is the mapping that is answered and that a boot restores |
| ADS1115 provider | rate, epoch, range, cache | scan, apply rate, read | sampler, calibration, auto range | no conversion of an old rate is used; the range settles |
| `measure_svc` core, event bus | last published generation, pairs | sample, publish | history, capture, protection, MQTT | each conversion is published once, pairs are fresh |
| history | ring in PSRAM | append, page, average, newest | SCPI `DATA` commands | answers are gapless runs of what was published |
| calibration | transaction, staged and active tables, capture request | start, capture, clear, commit, abort, zero | both SCPI sessions, sampler, protection, NVS | one transaction; a capture is its own; tables are monotone and what a boot loads |
| settings (`protection_svc`, rate, averaging) | RAM values, NVS keys | set, boot | both sessions | legal values only; a power loss costs one call |
| `wifi_connection` | retry count, event bits | event handlers, start-up | `app_main`, LED, TCP, MQTT | status is the link's; start-up gets past Wi-Fi |
| `wifi_manager` | credentials and status in RAM, two NVS keys | set, clear, status, told of a link | event loop, both sessions, NVS | a credential survives a power loss; an answer is of one link |
| `tcp_server` | listener, session flag, line buffer | poll, listen, accept, serve | event loop, SCPI | an old client is inactive; the server always listens again |
| `usb_com` | transmit slot, `tx_lock`, FIFO, line buffer | receive, queue, write, flush | TinyUSB's task, SCPI | answers arrive whole and in order; nobody blocks for ever |
| `mqtt_svc` | client, event bits, connected, configuration, window | worker, event callbacks, setters, listener | broker, Wi-Fi, relay, sampler, NVS | the client is the wanted one; what the broker shows is so; RAM is what a boot loads; a sample counts once |
| `scpi_handler` | registry of patterns, buffers of the history queries | register, dispatch, query | transports, all services | each header finds one handler, each client its own answer |
| `timebase_svc` | base date and uptime | set, read | SCPI | a reading is the date set plus the time passed |
| `status_led` | five flags | setters, pass of its task | USB task, event loop, `app_main` | the lights settle on what is so |
| `flash_store` | records in external flash, count and writable flag | scan, append, read, clear | nobody yet | what was acknowledged is read back |
| `clock_test`, `firmware_info`, `i2c_1_modules` | own, small | - | - | see PROJECT.json |

### Hard behaviours

Forty hazards are listed in PROJECT.json at the line where each bites. The main families:

* **Locks across calls.** `protection_svc` drives the relay, and so the timer's listener, with
  its state lock held; `timer_svc` clears trips with its lock held; the writer of `usb_com` waits
  for the task that waits for its lock.
* **Check, then act.** A timer step is popped under the lock and applied after it; the newest
  samples are located in one critical section and copied in another; a setter writes NVS before
  it takes the lock that guards RAM; a bind is set, stored and rolled back under no lock.
* **Results of something given up.** A capture that timed out leaves its semaphore; a conversion
  belongs to a rate that has changed; a session to a link that was lost; a commit to a
  transaction that was aborted.
* **Coalesced events.** Debounced edges, MQTT event bits and Wi-Fi events are served in an order
  of their own.
* **Shared without a lock.** The registry is matched from snapshots, the status of the link and the
  LED's flags are written and read field by field, one response buffer serves all transports.
* **Power loss and failing NVS.** `nvs_set_*` may reach flash before `nvs_commit`; a mapping and the
  credentials have two keys; a missing key means the default; a flash record may be torn.
* **Time.** The converter is read after a sleep that a tick can cut short; the uptime wraps; an
  interval changes while the task that keeps it sleeps; a step is paused and resumed with rounding.
* **Arithmetic at a boundary.** Thresholds of the range policy under rounding and saturation,
  wrap of the ring, mean of a window, slopes of a table, limits of stored values, ends of months.

## 2. Plan

The modules, in the order they were written; all exist. The last column is what is proved of each.

| # | module | composes or implements | proved in |
| --- | --- | --- | --- |
| 1 | `RelayControl` implements `StepQueue` | `output_ctrl`, `protection_svc`, `timer_svc`, trigger actions and the calibration guard in one | `RelayControlProofs`, with the refinement |
| 2 | `Calibration` implements `CalibrationStore` | capture, service, persistence | `CalibrationProofs`, with the refinement |
| 3 | `SampleHistory` implements `SampleLog` | ring | `AcquisitionProofs`, with the refinement |
| 4 | `SamplePipeline` | provider, sampler, pair, capture window | `AcquisitionProofs` |
| 5 | `RangePolicy` | one input's range | `AcquisitionProofs` |
| 6 | `Settings` | setter, store, boot of four settings | `StorageProofs` |
| 7 | `TriggerInput` | ISR, queue, worker | `CommandsProofs` |
| 8 | `TriggerConfig` | bind, store, roll back, boot | `CommandsProofs` |
| 9 | `Network` | event loop, station, TCP server, start-up | `NetworkProofs` |
| 10 | `MqttService` | worker, client, broker | `MqttServiceProofs` |
| 11 | `UsbTransport` | TinyUSB's task, writer, host | `NetworkProofs` |
| 12 | `ScpiRegistry` | registration against lookup by a transport | `CommandsProofs` |
| 13 | `CommandPatterns` | check, enumeration and matcher against a grammar | TLC only: recursive |
| 14 | `LineInput` | assembling of a line, trim and split | `CommandsProofs` |
| 15 | `CalibrationMath` | mean of a capture, table, correction | `AcquisitionProofs` |
| 16 | `DataQuery` | history lock and buffer shared by the transports | `CommandsProofs` |
| 17 | `FlashLog` | append-only records with a torn last one | `StorageProofs` |
| 18 | `TimerSvc` implements `StepQueue` | queue and countdown against a clock | `ServicesProofs`, with the refinement |
| 19 | `AdsConverter` | selection, settling and timed reads of the converter | `AcquisitionProofs` |
| 20 | `MqttSettings`, `WifiManager` | configuration and credentials under power loss | `StorageProofs` |
| 21 | `Telemetry` | window, tick and interval of `mqtt_svc` | `ServicesProofs` |
| 22 | `StatusLed` | lights | `ServicesProofs` |
| 23 | `Timebase` | clock and calendar | `ServicesProofs` |

Abstract specifications: `CalibrationStore` (each call of a client is one atomic edit of one
session), `SampleLog` (a log of everything published from which answers are cut) and `StepQueue` (what
the timer promises those who queue steps and those who switch the relay meanwhile; implemented twice, once
by the timer among the other tasks and their locks, once by the timer against the clock). Pure
algorithms have a reference of another form in their module: the grammar of `CommandPatterns`, the
calendar's day after day of `Timebase`, the reader's view of a line in `LineInput`.

## 3. Modules and the code

PROJECT.json's `map` gives the lines of every definition. Common conventions: a task is a program
counter over the points where another task can run; a critical section that calls nothing is one
step; a mutex held across a call is a variable; a variable called *history* in its comment is read
by properties only and never guards a step. NVS is what a boot would read, so a failing commit has
two outcomes, written or not.

**`RelayControl`**. `pc[t]` is where task `t` is, `job[t]` the `output_ctrl_set_with_cause` it is
inside: write the pin, write the cache, call the listener (three steps). `lock` holds
the calibration guard, the protection lock and the timer lock while they span a call. `RequestOn/Off` and
`CheckInterlock` are `protection_svc_set_ch1_output`, `AddStep` and `ClearTimer` the timer's add and clear,
`ToggleTimer` and `ResumeAfterTrip` its run/pause, `TriggerOn/Off` the built-in actions, `BeginSample … EndSample` the sampler's listener,
`ExpireStep` the timer's task. A measured value is over or under its limit; time is whether the
deadline has passed (`due`).

**`StepQueue`** has the queue without tasks, locks and time: `Add`, `Take` and `Apply` of a step, `Pause` and
`Run` of the countdown, `Clear` with the `Open` that follows it, and `Switch` with the `Tell` that may be late.
For `RelayControl`, `taken` is the level the timer's task is about to write, `opening` the clears that have
not yet written the pin, and `untold` the tasks between the write of the pin and the end of the
listener, each with what its cause makes of a countdown; a step of a lock or a latch is no step of the queue. For `TimerSvc`,
`taken` is the popped step and a change of the relay is told at once; the clock, the reads of it and the sleep are no steps.

**`Calibration`** and **`CalibrationStore`**. Clients are the two SCPI sessions. A point capture is
arm, wait, be woken or time out, take the window, stage; a commit is check, store without the lock,
publish. `Persist` has three outcomes (nothing written, written but reported as failed, written).
`Restart` is a power loss at any point. `overtaken` and `attempted` are history.
`CalibrationStore` has one state per session and one action per call that takes effect.

**`SampleHistory`** and **`SampleLog`**. Samples are their publication numbers, so an answer
says exactly which samples it holds. `CopyLatest` is two critical sections; everything else is one.

**`SamplePipeline`**. `StartConversion`/`FinishConversion` are the acquisition task around the
conversion wait, `ReadSample`/`PublishSample` the sampler, `Pair` the power stage, `Collect` the
capture's window. Two conversions are discarded after arming: the one the sampler may hold and the
one in the cache. One in progress at arming is used.

**`RangePolicy`** has the two real tables of ranges and thresholds, the conversion to a saturated
16-bit code and back to tenths of millivolts, and the choice of the next range.

**`Settings`** runs one of four settings (OVP, OCP, ADC rate, averaging), which share no state:
`Begin` is the check, `Store` and `Apply` the two halves of a setter, `Restart` the boot with its
validation, clamping and write-back of a default.

**`TriggerInput`** has the level, ISR, `debounce_pending`, queue and worker (debounce delay, read,
reset of pending, dispatch) of each pin, and `trigger_svc_init` while edges already arrive.
**`TriggerConfig`** has one slot: resolve, set the action, two NVS keys, roll back, boot.

**`Network`** has the driver's station, the event loop as a queue, the handlers of
`wifi_connection` and `tcp_server`, `app_main`'s wait and the server task's loop.
**`UsbTransport`** has TinyUSB's task (receive callback, transfer completion), the one-answer slot
with its retries, the writer with `tx_lock`, FIFO and endpoint, and a host that reads; answers are
counted in units so that a cut one is visible. **`MqttService`** has the worker's event bits in
the code's serving order, `mqtt_svc_reconcile` with its plan, the esp-mqtt client and the broker as
external parts, and relay command and state.

**`TimerSvc`** has the same queue as `RelayControl`, without its neighbours and against a clock that
counts parts of a millisecond while the scheduler wakes at ticks: `Remaining` is the rounding up
to milliseconds, `Plan` the sleep in ticks, `ran` how long the first step has really counted. A resume
that clears a trip holds the lock for a while. **`Timebase`** has the base, the wrapping uptime read
after the lock, and the civil calendar of the C library as arithmetic on days. **`StatusLed`** has
the setters as the sequences of writes they make, one per step, for three tasks, and the pass that
reads one flag per step. **`Telemetry`** has the worker around its sleep (read the interval, plan, sleep,
tick) and the window as the set of numbered samples in it.

**`AdsConverter`** gives each conversion its selection and its end in milliseconds; `ReadDiscarded` and
`ReadAccepted` sleep `DelayTicks` from a tick that is up to `TickAges` old and read the register,
which holds the last conversion that has ended. `early` counts reads that came too soon.
**`CalibrationMath`** has the mean in fixed point with C's division and the width of `int32_t`, the
table's check and insertion, and the piecewise-linear correction as exact fractions.

**`LineInput`** has the line buffer of either transport a byte at a time; `meant` is the line as the
client wrote it, but for the bytes its transport filters. **`CommandPatterns`** grows every string of symbols and compares the code's check,
visitor and matcher with the language of a grammar. **`ScpiRegistry`** has the snapshot, the
comparison outside the spinlock and the commit that finds its snapshot stale, and a lookup that
copies one entry at a time. **`DataQuery`** has the handle of the mutex, its making in a race, the two
buffers and the answer sent in pieces to a client that may stop reading.

**`FlashLog`** has one region's slots (erased, whole, torn or garbled) and the RAM that counts them;
a scan may fail at any slot, an append or a clear half-way, and power at any point.
**`MqttSettings`** has the configuration record, each text as one of its classes (fits, too long,
odd, blank), loaded at boot and stored and applied under the lock. **`WifiManager`** has no lock: a
setter is the store and the writes it makes in RAM, the status three fields written one by one, a query
their copy and the second reading of the time.

`MC*` modules instantiate these. `MCAcquisition`, `MCTrigger`, `MCTransports`, `MCServices`,
`MCCommands` and `MCStorage` hold components that share no state and none of whose actions reads
another's. Each behaviour of such a module chooses one component at the start and moves only that one:
the reachable states of a component and the properties of it are those of a run of its own. They EXTEND the
components that are proved about, so that TLC evaluates the very assumptions the theorems rest on, and only
`CommandPatterns` is instantiated. That is why the names of
components that share a module differ by a prefix (`PipelineNext`, `UsbSpec`, `AdsTypeOK`).
`MCMqttService` gives a behaviour two of the kinds of input at a time, since all at once is out of
reach: relay with Home Assistant, relay with Wi-Fi, settings with Wi-Fi.

## 4. Runs

| run | shows | instance |
| --- | --- | --- |
| `relay` | `LocksAreSound`, `LatchedRelayWasRaced`, `TripStaysPaused`, refinement of `StepQueue`, over all interleavings | one SCPI client, the trigger worker, timer task, sampler; one step |
| `relay_live` | `CallsAndStepsAreServed` | one client, one step |
| `relay_sampler` | violation of `SamplerReturns` (section 5) | as above |
| `services` | timer: `StepRunsItsTime`, `ClearTurnsOff`, refinement of `StepQueue`; clock: `ReadingIsTime`; lights: `LedsTellTheTruth`; MQTT's tick: `TelemetryIsOnTime` | two steps, 5 calls in 12 half milliseconds; six dates over one wrap; three events a light; intervals 1 and 3 |
| `calibration` | `TransactionsAreSound`, `CapturesAreOwn`, refinement of `CalibrationStore` | two clients (symmetric), two targets, two codes and values, two points a table |
| `acquisition` | converter: `AcceptedIsSettled`; scan: `ConversionsAreFresh`; capture: `WindowIsSound`; range: `RangeIsSound`; table: `CorrectionIsSound`; ring: `HistoryIsSound`, refinement of `SampleLog` | two inputs in a turn and in a scan, a capture of one of them; every voltage near a threshold; three points; ring of 3, 8 samples |
| `commands` | patterns: `PatternsAreExact`; registry: `RegistryIsSound`; lines: `LineIsOneCommand`; history queries: `AnswerIsOwn`; both waits: `CommandsReturn` | every pattern of four symbols and of four after five nested beginnings; two registrars, one lookup; buffer of 3, lines of 5; two transports, two queries each |
| `storage` | `SettingIsSound`, `LogIsDurable`, `ConfigurationIsSound`, `WifiStateIsSound` | three clients, values on both sides of every limit; region of 3 slots, sectors of 2; two sessions |
| `trigger` | mapping: `MappingIsWhole`; inputs: `FlightIsBounded`, `LevelIsServed` | two pins, four edges; two sessions, three functions, every default |
| `trigger_persisted` | violation of `MappingIsPersisted` (section 5) | as above |
| `transports` | Wi-Fi and TCP: `StatusIsTrue`, `NetworkComesBack`; USB: `AnswersAreKept`, `TransmitGoesOn` | three queued events, two retries; FIFO and endpoint of two units |
| `mqtt` | `ServiceIsAsConfigured`, `BrokerShowsRelay`, `Connects` | two brokers and off |

A property that is named for a whole (`TransactionsAreSound`, `CapturesAreOwn`, `WifiStateIsSound`, ...) is the
conjunction of the named parts that stand before it in its module.

### Bounds, and why they are enough

* `MaxSteps` 1 or 2 (the code's 10): the queue at its limit, one step left and several are
  the cases the code distinguishes. One client beside the trigger worker in `relay`: a
  second client is another task with the client's program, and every race named needs only two
  tasks and the sampler. The theorems hold for any tasks and any limit.
* `services`: half milliseconds and ticks of two milliseconds give every rounding of a pause and of a sleep; steps
  of 3, 1 and 0 ms, two of one id, end before, at and after a tick; five calls pause, resume, clear and
  trip. `Wrap` 5 of the uptime and 8 parts of time pass the wrap once with readings on both sides; the
  dates are the ends of February in the four kinds of years, of a year and of the calendar. In six
  steps of time an interval of 3 becomes 1 and back during a sleep.
* The converter: 100 SPS is unsupported; at 128 and 860 SPS the delay is one tick of 10 ms, of which an age of 6
  leaves 4 ms: too short for a conversion of 128 SPS and enough for one of 860. Two inputs and two gains are the cases of `Settling`.
* `commands`: groups nest to `MaxDepth` 2, four expansions are the limit, so both limits are passed; the buffer
  of three overflows in a line of five and a tail of two is left. Two registrars and a registry of two
  entries meet in every order and reach the limit.
* `storage`: three slots in two sectors have a full sector, a partial one and a full region; two sessions and one
  text against the empty one distinguish all orders of two setters.
* `MaxGeneration` 5 in `calibration` lets a transaction be cleared, aborted and reopened twice while
  one captures; in `acquisition` 6 and 7 conversions outlast discards and a window of two;
  `MaxEpoch` 2 changes the rate and changes it back. `MCAcquisition` splits the pipeline in two: in `Scans` all codes
  are alike and nobody captures, in `Captures` the voltage is captured at one rate while the conversions of the
  current fail. A pair needs both inputs and no codes, a window the codes and ranges of one input; the proofs
  hold for the whole of `PipelineNext`.
* `MaxPublished` 8 overwrites a ring of three twice and more. Clients do not interact through the
  ring, so one is enough; the theorems hold for any number.
* `Voltages`: half units on both sides of every threshold and full scale, and one in each interval:
  reading and choice are monotone in between, and the theorem is for every voltage.
* `MaxEdges` 4 a pin: an edge during each of ISR, debounce, read and dispatch. The queue has its real
  length of 8. Edges end, so that a pin's level settles.
* `MaxEvents` 3 and `MaxRetries` 2: a loss, a retry and the answer to it in the loop at once; the budget
  is used up and renewed. USB: answers of 1 and 5 units against a FIFO and an endpoint of 2 fit
  or wait in the middle; three answers reuse the slot twice.

Deadlock is not checked where the system may really stop or a bound is used up: in `RelayControl` (the lock
cycle of section 5), `TriggerInput` (no edges left), `Network` (after the last failed retry the station stays
idle), `UsbTransport` (all answers read), and in the composites with `RangePolicy` and `SampleHistory` (steady
voltage, last sample), `LineInput`, `CommandPatterns` and `DataQuery` (pattern written, queries answered) and
`Timebase` (end of time).

### Fairness

* Tasks of a priority scheduler with blocking waits run when they can: weak fairness of each task's
  steps. `RelayControl` has strong fairness of `Continue(t)` since a step may wait for a mutex that is
  taken again and again; FreeRTOS gives a released mutex to the highest waiter, and the
  sampler sleeps between samples. Nothing makes a client send a command or a value exceed a limit.
* `Network`: the event loop serves its queue and the server task runs (WF); a connection attempt ends somehow
  (WF of success or failure together, never of success); opening a listener succeeds if tried again and
  again (SF). Nothing makes DHCP end: lwIP's client asks for ever and posts no event, and the access point need not drop the
  station. `app_main` then waits for ever (`wifi_connection.c:205`), so `NetworkComesBack` excepts a station that
  stays `Stranded`, and `StartupEnds` of section 5 shows the wait.
* `MqttService`: worker, callbacks and attempts (WF), and a broker that is tried again and again accepts
  (SF). `Connects` is about a service that is offered that.
* `TriggerInput`: worker, ISR and setup (WF). `UsbTransport`: both tasks, the host's reading and the
  completion of a transfer (WF).
* `ScpiRegistry` and `DataQuery`: each call in progress runs (WF). Two history queries may be
  taken by priority; WF of `TakeLock` suffices because queries of a client are few and end. With a USB
  host that never stops querying, a TCP query behind it could wait for longer than the model shows.
  Nothing makes a client read its answer.
* All other modules are checked for safety only; where time matters it is in the state (`TimerSvc`,
  `Telemetry`, `Timebase`, `AdsConverter`), and a bound on time stands for liveness.

Assumed of the platform: a FreeRTOS tick of 10 ms (the IDF's default, which `sdkconfig.defaults` does
not change), LEDC and the I2C driver return, and a clock within the converter's 10 % of its nominal rate.

## 5. Findings

Two runs show a violated statement of the documentation.

1. **`relay_sampler`, the sampler can be locked out for ever** (`timer_svc/timer_svc.c:367`).
   `timer_svc_toggle_run_pause` clears trips, which takes the protection lock, with the timer
   lock held. A trip drives the relay with the protection lock held, and the relay's listener takes
   the timer lock. When a resume after a trip meets the next trip neither task goes on and no sample is checked
   again; `.doc/scpi-ref.md:217` says "OVP is always enabled." `relay_live` shows that nothing but
   this cycle keeps a call from returning, `OnlyResumeLocksOut` (in `LocksAreSound`) that it has
   no other shape.
2. **`trigger_persisted`, a cleared slot comes back** (`trigger_svc/trigger_config.c:162`).
   Clearing erases the keys, and a boot takes missing keys for the default mapping.

The properties of the passing runs name their exceptions (history variables such as `raced`), and
each exception is real. TLC prints the counterexample of each when the property below stands in the named
configuration in place of its properties (as INVARIANT, or as PROPERTY where it is marked P). The last
three configurations are kept for this and are in no run.

| cfg (module) | property | what happens | says otherwise |
| --- | --- | --- | --- |
| `RelayControl` | `LatchedRelayIsOff` | a timer step, or an enable that cleared the latch before the trip, closes the relay under a latch | `.doc/home-assistant.md:87` |
| `RelayControl` | `CacheMatchesPin` | two tasks write pin and cache in opposite orders (`output_ctrl.c:124`) | `.doc/scpi-ref.md:127` |
| `RelayControl` | `ClearForcesOff` (P) | a popped step closes the relay after `TIMer:CLEar` (`timer_svc.c:206`) | `.doc/scpi-ref.md:142` |
| `RelayControl` | `EnableIsChecked` (P) | trigger and timer skip the CH0 OVP check | `.doc/calibration.md:363` |
| `MCStorage` | `ProtectionIsPersisted` | two sessions: NVS keeps one threshold, RAM the other | `.doc/scpi-ref.md:221` |
| `MCTrigger` | `FailureIsRolledBack` | two failing binds roll back into each other | `trigger_config.h:67` |
| `MCTransports` | `OldClientIsInactive` | a client in the backlog outlives a short loss | `tcp_server.c:67` |
| `MCTransports` | `StartupEnds` (P) | an access point that never answers DHCP keeps `app_main` from TCP and MQTT (`wifi_connection.c:205`) | `wifi_connection.h:34` |
| `MCTransports` | `ConnectedIsReported` | `WIFI:CLEAR` answers 0 with the link up | `.doc/scpi-ref.md:265` |
| `MCMqttService` | `ConnectedIsReal` | a connection and its loss in one wake-up leave `connected` set | `.doc/scpi-ref.md:300` |
| `MCMqttService` | `ClientHasAddress` | an expired lease is not heard | `.doc/scpi-ref.md:269` |
| `MCCalibrationRate` (`MCCalibration`) | `RateKept` (P) | the rate changes in a transaction opened after the check | `.doc/calibration.md:60` |
| `MCSampleHistoryLatest` (`SampleHistory`) | `LatestWereNewest` (P) | fewer samples than asked, never the newest at any moment | `measure_svc_history.h:45` |
| `MCTransportsBlocks` (`MCTransports`) | `BlocksAreWhole` | a second command in the burst stops the transfer of a long answer, even when retries are spent only while nobody else can move (`Prompt`) | `.doc/scpi-ref.md:91` |

Exceptions that a property of a new module names, without a statement of the documentation against them:
two early reads in one turn make the converter's code of another input pass (`AcceptedIsSettled`); the mean of
one code is stored a 65536th too high (`CorrectionIsSound`); the rest of an over-long line is executed as
a command of its own (`LineIsOneCommand`); a TCP client that does not read stops the history queries of USB
(`CommandsReturn`); an append after a failed scan writes over records (`LogIsDurable`); a stored MQTT text
that is too long keeps the service, and with it every setter, down (`ConfigurationIsSound`); a USB host
that comes up before `usb_com_init` ends is shown dark (`LedsTellTheTruth`); a date is wrong after 49.7 days without
being set again (`ReadingIsTime`).

## 6. Proofs

`tlapm` checks eight modules, one or several components in each. For every component there is an inductive
invariant (it holds initially, every step keeps it, one lemma for each action or kind of step), and the
properties the runs check follow from it. The invariants were checked by TLC on the instances of section 4
before they were proved. PROJECT.json lists the theorems; each holds for every value of the constants that
satisfies the assumptions named here, which TLC evaluates in the runs. The bounds (`MaxNow`, `MaxPublished`, ...) are
only natural numbers.

**`RelayControlProofs`**: for any sets of SCPI, MQTT and trigger tasks and any `MaxSteps`
(`TasksAssumption`: the kinds of tasks are disjoint; `MaxStepsAssumption`).
`IInv` is `TypeOK`, `PlaceInv` (at which point of which call a task can be), `LockInv` (who holds a mutex
is at a point between taking and releasing it), `GuardSnapshotHolds`, `TimerInv` and `TripInv`; `CauseInv` stands beside it for the refinement.
`TimerStateMatchesQueue` is not inductive alone: a resume after a trip leaves the timer's
critical section half way to clear the trips, and only the mutex it holds (`LockInv`) keeps the queue from
being emptied before it starts the countdown (`TimerInv`). `LatchedRelayWasRaced` needs `TripInv`:
every call in progress that will close the relay is either marked stale by the trip or cleared the
latch. `TripStaysPaused` is an action property from the same invariant. `LocksAreSound` is the guard, the lock order and that
a lock-out has one shape: of two tasks that wait for each other's mutex one goes against the order, and so resumes after a
trip (`OrderKept`); it waits for the protection lock, whose owner is the sampler (`LockInv`), and that waits only at the listener. `QueueImplemented` maps every step
to one of `StepQueue` or a stutter (`StepRefines`, one lemma for each kind of call). It needs `CauseInv`: the cause a call
carries is its task's own, so that a write by the timer's task is a step that was taken, a write that
opens after a clear is that clear's, every other one is untold until the listener has run, and no trip closes the relay.
`QueueCorrect` gives `RelayControl` the invariant of `StepQueue`, proved of the abstract steps alone.

**`CalibrationProofs`**: for any clients, targets, codes, values, rates and number of points
(`ClientsAssumption`, `TablesAssumption`). `IInv` adds
`CommitInv` (a commit has the transaction to itself, its table is the one staged, and before it publishes the table
is in NVS), `WindowInv` (a semaphore that a waiting client may take was given for its own window),
`GenerationInv` (a capture is of the present generation or was overtaken) and `TransactionInv`.
`StoredIsActive` is not inductive: that publishing drops what was attempted needs `CommitInv`'s stored table.
`CaptureIsOwn` needs `WindowInv`: a window accepted between a timeout and its cancel leaves the semaphore given, and
only the drain of the next `Arm` keeps it from waking a client that has no window. `SlopesArePositive` goes from
neighbours to any two points by the least counterexample (`LeastOf`, from the library's well-foundedness of the
natural numbers). `StoreImplemented` maps each action to one of `CalibrationStore` or a stutter.

**`AcquisitionProofs`**

* `SampleHistory`, for any capacity, clients and number of samples. `IInv` is `HistoryTypeOK`,
  `RingHoldsNewest`, `CallInv` (what a client between the two critical sections knows) and
  `AnswersAreRuns`. The arithmetic of the wrapped index is in four lemmas (`ModOfTwice` …
  `NewestAre`). `LogImplemented` is the refinement of `SampleLog`: initial states map to initial states and
  each step to the log's step or a stutter.
* `RangePolicy`, for every natural voltage, with the two tables as the code has them.
  `HuntingFree` follows from `MoveInv` (a range that moved up read too high below it, one that moved down
  read low above it) and `UpIsNotDown`, that no voltage reads too high in one range and too low in the next;
  `SettledCorrect` from where the thresholds lie in the range of the code; `RangeCorrect` is both.
* `AdsConverter`, for any inputs, gains, rates, tick and ages (`AdsAssumption`). `TurnInv` bounds by the reads of a
  turn that came early how far the register and the conversion in progress are from the selected input: with none
  both are its own, with one the conversion in progress still is. `AcceptedInv` is what a reading was accepted after.
* `SamplePipeline`, for any inputs, codes, rates, window lengths and ranges and any number of discards from
  two on (`PipelineAssumption`; the code's number is two). `RateInv`: a conversion in progress whose epoch is current has the current rate.
  `NewestInv`: what was published of an input is no newer than what the cache holds of it. `PairInv`: the half that
  waits for its partner is the newest published one unless the sampler has the next in hand; without that exception
  it is not inductive. `CaptureInv` counts what was on its way when the capture was armed: with a conversion in the cache
  and one in the sampler's hands two discards are left, with either of them one, so what is collected is newer than the arming. That
  the codes of a full window are as many different conversions rests on their generations rising, that they are steady
  on `LargestOf` (a finite sequence of integers has a largest one, by the least counterexample).

* `CalibrationMath`, for any table, capture windows, width of a code and number of steps Q16 between two codes from two on
  (`MathAssumption`; the code's are 16 bits and 65536). The table holds points whose codes are integers (an
  invariant of `StorePoint`); all else is about one such table. `MeanIs` bounds a mean before it is made 32 bits wide, so
  it fits unless a window is the lowest code alone. `RisesAll` goes from neighbours to any two points by the least
  counterexample. `PreciseIs`: the correction of a code is above, at or below the value of each point as the
  code is above, at or below that of the point; so between two codes with different segments lies a point that keeps
  their corrections apart (`SegmentsMeet`, `PreciseRises`). Fractions are compared by their products, which are
  named in each step so that the solver sees linear facts only.

**`StorageProofs`**

* `Settings`, for any number of sessions and any values and limits (`ValuesAssumption`,
  `DefaultAssumption`, `IdleAssumption`). `SettingInv` adds `CallInv` (a call that passed its check holds a legal value) and `SyncInv`
  (without a race or a torn store NVS and RAM differ only by the one call in progress).
* `FlashLog`, for any capacity, sector size and set of measurements (`FlashAssumption`). `FlashInv` is `FlashTypeOK`, `KeptInv`
  (below `limit` an acknowledged slot holds its record, behind whole ones only, and erased slots come
  last) and `CountInv` (what is counted is whole, what was acknowledged is counted, the next slots are erased).
  `LogIsDurable` alone is not inductive: that a scan finds the acknowledged records again rests on the flash being
  whole up to them, which only `KeptInv` says while nothing is mounted.
* `MqttSettings`, for any sessions and texts (`TextsAssumption`, `SetterAssumption`). `SettersInv`: who has stored a text still has the lock, its
  key is not torn, and NVS has the text; so the setter that applies it makes RAM what a boot loads.
* `WifiManager`, for any sessions, texts and number of links (`WifiAssumption`). `ShapeInv` says how far through its
  sequence of writes each task can be. `KeyInv`: a key whose setters never overlapped has one at a time, and NVS has its value from the
  store on. `LinkInv`: what a writer of the status has left to write is what the three fields need to agree again,
  unless two of them crossed. `QueryInv`: a query that no write disturbed has copied the fields as they are.

**`CommandsProofs`**

* `ScpiRegistry`, for any registrars, dispatchers, tables and capacity (`RegistryAssumption`). `RegistryInv` adds `CallInv` (a
  snapshot is a beginning of the registry, and what was found to fit behind it fits until the commit) and
  `DispatchInv` (the entries known when a command came are among those counted, those before the one looked at
  do not match). `LookupIsRight` rests on the registry only growing: entry `i` is the same in each of the
  lookup's critical sections.
* `DataQuery`, for any transports and lengths of answers (`QueryAssumption`). `MutexInv`: although two queries may each make a mutex, every query past the
  making goes by the one that stayed, and who touches the buffers owns it. `BufferInv`: from the copy on the array, and from the encoding on the
  buffer, is that query's.
* `LineInput`, for any size of the buffer (`LineAssumption`). `LineInv`: the buffer holds the line that is meant, as long as its
  client was not told that it is too long and the buffer was empty when it began, and never more than that line.
  `HandledIs` says what trim and split make of any line, from where each of their loops stops.
* `TriggerConfig`, for any sessions, functions, actions and defaults (`FunctionsAssumption`, `IdleAssumption`).
  `SlotInv` adds `AloneInv` (a bind that met no other is the only one, any other has set `raced`), `StageInv` (what
  such a bind has done so far, action, function and arguments, is still in place) and `SteadyInv` (what a bind may
  go back to is what the slot had, and until its first key is written a boot goes back to it, too). Neither half
  of `MappingIsWhole` is inductive: that a failed store leaves the right action needs the action noted by
  `Resolve`, and that a restart completes a stored bind needs both keys, which only `StageInv` relates.
* `TriggerInput`, for any finite set of pins and any length of the queue (`InputAssumption`). `FlightInv` counts the events of a pin in the interrupt,
  the queue and the worker: until its set-up ends a pin that is not pending has none, and the set-up, which clears
  the mark of one that may have been posted meanwhile, makes room for a second. `NoEdgeIsLost` adds
  that two places of the queue for each pin are enough (the code has eight for its two pins): the places of the queue are told apart by pin and by
  rank among the pin's own (`RoomIsLeft`).

**`ServicesProofs`**

* `TimerSvc`, for any steps, parts of a millisecond and ticks (`TimerAssumption`). `CountInv`: what the first step has counted and what its
  deadline, or the rest a pause left, still gives it make up its duration, up to a rounding for each pause and the time the lock
  was held. `TaskInv`: the task sleeps no further than the tick after the deadline, or has still to be notified.
  `ClearInv`: after a clear nothing counts down, and what the task still holds was popped before. `TimerQueueImplemented`
  maps its steps to `StepQueue`: that a resume starts nothing in an empty queue and nothing that runs is `TaskInv`'s, that a
  change of the relay pauses every countdown that runs is `CountInv`'s.
* `Telemetry`, for any intervals (`TelemetryAssumption`). Between two reads the worker's copy of the interval is the one set or a setter has
  still to wake it.
* `StatusLed`, for any retries and events. Each task's setter is a sequence of writes, so the invariant speaks of what a sequence ends
  with: `UsbInv` and `WifiInv` say that the last pending write of each flag by its owner, or the flag when none is
  pending, is what is so, and that nobody else has a contrary write to make; `RecentInv` and `PassInv` carry that to what a pass
  has read.
* `Timebase`, for any sessions, dates with the fields `strptime` takes, parts of a day and wraps (`ClockAssumption`). `YearLength` and `MonthFollows`
  are the calendar: years and months begin where the ones before end. From them a date that is a part later counts one part
  more (`NextIs`), `gmtime` is the inverse of `timegm` (`GmtimeOfTimegm`), and, by the least counterexample,
  every count is that of a date (`DateOf`) and n parts after a date are n steps of the calendar (`AfterIs`).
  `WrapCancels`: the difference of two wrapped uptimes, taken modulo the wrap, is the time between them if that is less
  than a wrap. `ClockInv`: the pair in the service stands for the date last set, the copy in a call for one in
  force in that call.

**`NetworkProofs`**

* `Network`, for any numbers of retries and events (`BoundAssumption`). `EventsInv`: the last event that waits tells what the driver did last, and with none
  left the status and the LED do. It needs `DriverInv`: the driver does not move again before the handler of
  a disconnection has told it to connect, so behind a disconnection only a lost address can wait. `SessionInv` is about the TCP
  session that outlives its link.
* `UsbTransport`, for any sizes of answers, FIFO and endpoint and any limit of retries (`UsbAssumption`). `received`, `endpoint` and `fifo` in a row
  are the wire. `EndInv`: the wire is in order and ends with the unit of the slot's answer that the writer counted last.
  `SentInv`: an answer that is not waiting, refused or cut is on the wire with all its units; the history `sizes` notes
  how many it was made with, and the size in the slot is that one. Every action moves units
  along the wire, adds the writer's next part, or leaves it alone.

**`MqttServiceProofs`**: for any brokers and settings (`NamesAssumption`). `ClientInv`: a client, or a plan for one, that is not the one wanted is one that a bit of
the worker will change. `ConnectionInv`: behind the end of a connection the worker finds the bit of the
one that followed, because it serves an end before a beginning. `ShownInv`: a connection that was served is as the broker shows it,
but for a change of the relay that the worker has still to hear of. `BootInv` keeps all three through the
start, when nobody listens to the link yet. `bits` (notified), `todo` (taken) and `telling` (about to be set) are one set of bits to each of them.

Only model-checked: all liveness (out of the proof system's reach, as is `ENABLED`); `PatternsAreExact` (the
code's visitor and the grammar it is compared with are recursive, and what recursion over data computes for every input
needs induction over an operator, which the installed provers cannot instantiate).

## 7. Not modelled

* `i2c_1_modules` (infrared thermometer and display): optional peripherals on a bus of their own, vendored drivers
  and drawing; they read published samples and drive nothing.
* `measure_prov_fake` (a waveform for boards without converter), `measure_svc_precision` (rounding of printed values),
  `clock_test` (a log line at start-up), `firmware_info` (constants).
* Text: topics, discovery payloads and number formats of MQTT, the arguments and answers of SCPI handlers beyond
  their order of calls, the bytes and the CRC of a calibration record.
* Registers: an I2C transfer is one step that succeeds or fails; the duty of each instant of a light.
* The arithmetic of averages and power; the correction and the mean are in `CalibrationMath`.
* The protection state that `mqtt_svc` publishes with the relay's; the open (DTR) status of `usb_com`; the wake-up
  timing of the sampler.
* A call of a driver that fails on the spot (`esp_wifi_connect`) in `Network`.

Outside the modules with a clock, time is abstracted: a deadline has passed or not, a wait times out
or not. Boot is the initial state of every module but `Network`, `MqttService`, `TriggerInput`, `StatusLed`, `AdsConverter`
and the modules of `MCStorage`, where events can overtake or interrupt it.

## 8. Running

In this directory: `tlc -config RelayControl.cfg RelayControl.tla` for a run (PROJECT.json names module
and cfg of each) and `tlapm RelayControlProofs.tla` for a proof.
Every property has a mutant in PROJECT.json: a definition of the code's model replaced by one with a plausible
bug, with which TLC finds the property violated.
