# Formal verification of the sensor firmware

This directory holds TLA+ models of the firmware in `src/`, the TLC runs that check
them on small instances and the TLAPS proofs of what holds for every instance. Paths
like `main.cpp:618` are relative to `src/src/`, `src/lib/thermo_core/src/` (and its
`modules/`), `src/lib/thermo_drivers/src/` or `src/lib/thermo_platform/src/`; `docs/...` is
`src/docs/...`.

## 1. The system

A *node* measures temperature, humidity, pressure, light and its battery, and publishes
them over MQTT. The same `main.cpp` is built in three ways:

* **Deep-sleep nodes** (`HAS_DEEP_SLEEP`, ESP8266 and ESP32) run `setup()` once per wake
  and never reach `loop()`: connect, publish, open a command window, sleep.
* **The duty-cycled MKR WiFi 1010** (SAMD, no display) runs the same wake from `loop()`
  and keeps its RAM over standby.
* **Continuous nodes** (a mains ESP8266, or any node with a display) run `loop()` for ever.

The *server* sends commands at QoS 1, which the *broker* keeps in the node's persistent
session while it sleeps. The node has an identity and a calibration in a config store in
flash, and counters and its sleep interval in RTC memory. A second firmware,
`cell_tester.cpp`, turns a MKR board into a tester of 18650 cells.

### Inventory

| Component (source) | State | Operations | Interacts with | What makes it correct |
|---|---|---|---|---|
| Wake cycle (`main.cpp` `setup()`, 769-1043) | stage of the wake, `last_data`, `g_uplink_confirmed`, command queue, interval, `resends` | boot, provision, connect, read, publish, window, process commands, sync, resend, sleep, reboot | all the others | the wake ends; the node does not sleep on an undelivered frame before its re-publishes are spent; no accepted command is lost |
| Diagnostics counters (`diagnostics.h`, `main.cpp:58-84`, `esp_sleep.cpp`) | eleven counters in RTC memory | `note_*`, persist, restore | wake cycle | every wake is attributed once; no update is lost by a sleep; ratios the server computes are at most 1 |
| Network client (`esp32_network.cpp`, `esp_network.cpp`) | connection, topic to subscribe to again | connect, publish, subscribe, loop, disconnect | broker, callback into `main.cpp` | a reconnection restores what is needed to receive commands |
| Broker and server (not in the repository) | session, backlog, packets in flight | accept, push, acknowledge, loop back | network client | environment; at least once for QoS 1, at most once for QoS 0 |
| Config store (`persistent_config_store.h`, `memory_config_store.cpp`, three platform stores) | entries in RAM, blob in flash | begin, set, commit, clear | calibration, provisioning | all or nothing: one whole calibration survives |
| Identity and calibration (`main.cpp`, `calibration_module.cpp`, `battery_module.cpp`, `battery.cpp`) | `device_id`, offsets, divider ratio in use, ratio reported | seed, provision, restore, `set_offset`, `set_calibration`, `calibrate_battery`, factory reset | config store, wake cycle | what is in use is what is saved; the identity is not lost; the ratio is plausible |
| Cell tester (`cell_tester.cpp`) | state machine, charger enable, smoothed voltage, hysteresis | serial commands, status, sampling, results | charger IC, operator | no test against the charger; charging comes back; removal is noticed; each test reports |
| OTA (`ota_module.cpp`, `esp8266/esp_ota.cpp`, `esp32/esp32_ota.cpp`) | the image in flash | five guards, download, reboot | command queue, network, session on the broker | no version is flashed over itself, however often an update comes again; a success can be told from a failure; what was acknowledged does not come back |
| Continuous mode and display (`main.cpp` `loop()`, 1143-1166, `update_display()`, `handle_button()`) | `last_sensor_read`, page, debounce, what the digits show, topic to subscribe to again | publish interval, button, reconnect | network, drivers | a reconnection brings the commands back; the interval is kept over the wrap of `millis()`; a press turns one page, and shows what the server was told |
| SAMD duty cycle (`main.cpp:1075-1141`, `samd_sleep.cpp`, `nina_network.cpp`) | as the wake cycle, but all RAM lives on over standby | `duty_cycle_publish` | network | each cycle is attributed once; nothing left over from one cycle is taken for a fact of the next; only a reset loses a command |
| Relay (`relay_module.cpp`; built by no environment yet) | contacts, pending delays, deadlines | toggle, contact, tick | `loop()` | a pulse ends when its time has passed; no timer outlives what it was set for |
| Registry, payloads, parsing (`module_registry.cpp`, `payload_builder.cpp`, `mqtt_payload.cpp`) | arrays with limits | add, build, parse | all modules | what is announced is what is published; a payload is whole and fits a packet |
| Health evaluation (`diagnostics.cpp`) | none | `diag_evaluate`, `format_diag_payload` | wake cycle | the most severe condition is reported, and silence means there is none |
| Sensor drivers (`bme280_sensor.cpp`, `sht30_sensor.cpp`, `mkr_env_sensor.cpp`, `bh1750_sensor.cpp`) | coefficients in RAM, configuration in the chip | `begin`, `read` | the I2C bus, `setup()`, `read_sensors()` | a reading called valid was measured; a sensor recovers from a bad bus |
| ADC, chip id, WiFi scanner, host tools | register-level or host I/O | | | outside the models |

### What is hard about it

* **Packets against the single thread.** The MQTT callback runs inside `network.loop()`
  and may only append to the queue; commands, loopbacks, acknowledgements and losses of
  the link interleave with the wake at every call of `loop()`.
* **Five kinds of memory with five lifetimes**: RAM, the RTC memory of the ESP32 (lost by
  every reset but a deep-sleep wake), the RTC user memory of the ESP8266 (survives a
  reset, garbage after a power loss), flash, and the broker's session, which remembers
  subscriptions that the node has forgotten.
* **Aborts**: a wake can end at six places, each of which has to count, persist,
  disconnect and sleep.
* **Partial failure**: a storage that cannot be read or written while nothing looks at
  the result of `commit()`; a command that is accepted by one layer and refused by the
  next, after the first has changed its state.
* **State machines driven by a noisy measurement and an operator** (the cell tester).
* **A clock that wraps** after 49.7 days, under a schedule, a debounced button and the
  timers of the relays, each with a comparison of its own.
* **Chips that outlive the resets of the node**: a driver looks at some of the answers on
  its bus and not at others, and what it missed stays until the next `begin()`, if any.

`PROJECT.json` lists the hazards one by one with the properties that cover them.

## 2. The modules

```text
                        CommandService     NodeCalibration   (promises)
DiagCounters   Broker         ^                   ^
       \      /    \          | implements        | implements
        \    /  Broker_proofs |                   |
     +---+--+----------- WakeCycle           Calibration          CellTester
     |                   MC_WakeCycle        MC_Calibration       MC_CellTester
  LoopNode               WakeCycle_proofs    Calibration_proofs   CellTester_proofs
  MC_LoopNode
  LoopNode_proofs            Broker --- Ota  MC_Ota  Ota_proofs

  Clock                          Sensors  Registry  Payload  Health
    |                                 \        \      /      /
  Relay                                +------- Reports ----+
    |                                           MC_Reports
  ContinuousNode                                Reports_proofs
  MC_ContinuousNode
  ContinuousNode_proofs
```

Five models of the node stand side by side, each with the parts of it that its questions
need: `WakeCycle` and `LoopNode` have the network, the commands and the counters, `Ota` the
commands that end in a reboot, `ContinuousNode` the time, `Reports` the bus and the bytes.
`Calibration` has the store.

### `DiagCounters` and `Broker`

`DiagCounters` has one operator per `note_*` helper over a record of the counters, modulo
`CounterModulus` (2^32 in the code). `Broker` has the connection and the packets in flight
in both directions, the persistent session with its subscriptions and its backlog of QoS-1
commands, and what the client library does when it is called. QoS-0 packets may be lost
with the link; a command stays in the backlog until its PUBACK arrives, so it can be
delivered twice. All broker-side definitions are external: modelled from how the network
clients use it (`cleanSession = false`, QoS-1 subscription, QoS-0 publishes).

### `WakeCycle` -- one wake of a deep-sleep node

`pc` is the place of `setup()` at which it can be interrupted by a packet. A step of the
node is the code between two such places, because the callback runs only inside
`network.loop()`.

| `pc` | place in `main.cpp` | actions |
|---|---|---|
| `off`, `asleep` | reset, deep sleep | `Boot` (769-835) |
| `provision` | `run_provisioning()` | `Provision` |
| `boot` | sensor init, connection (885-976) | `SensorInitFails`, `WifiFails`, `MqttFails`, `Connects` |
| `read` | read, publish, report (978-998) | `ReadAndPublish`, `ReadInvalid` |
| `window` | command window (1000-1008) | `WindowLoop` (one `network.loop()`: a message, a reconnection), `WindowClose` |
| `process` | `process_pending_commands()` (643-722) | one action per command: `handle_set_interval`, `handle_set_confirm_uplink`, `HandleQuery`, `OtaFails`, `OtaReboots`, `FactoryReset` |
| `sync`, `syncwait` | confirm and re-publish (1010-1035) | `Resend`, `SyncLoop`, `SyncTimeout`, `SyncEnd` |

The build flags are constants: `Esp8266` (where the counters live), `SyncBeforeSleep`.
`done`, `sent` and `heard` are history variables: the commands processed, the commands the
server sent, and whether the broker received a sensors publish of this wake.

`CommandService` is the promise of `docs/mqtt-protocol.md:258-262,536`: a command the broker
accepted is processed (`Spec`), in the order of sending. Where commands can be lost, by a reset or
in the wait of the sync, `LossySpec` is what remains of it: a command may be skipped, and then is
never carried out after a later one (`ServeOrSkip`). `WakeCycle` and `LoopNode` implement one or
the other with `accepted <- sent, served <- done`; `ServedInOrder` is the second.

### `LoopNode` -- the nodes that do not deep-sleep

`build` is which of the two forms of `loop()` was compiled. Both share the broker, the
counters, the callback, the command queue and `publish_sensor_data()` with `WakeCycle`, but
here all RAM lives on until a reset, and the network client remembers in `topic` what it
will subscribe to again.

| `pc` | place in `main.cpp` | actions |
|---|---|---|
| `off`, `provision` | reset, `run_provisioning()` | `Boot` (769-835), `Provision` |
| `setup` | connection of the continuous build (938-976) | `SetupFails`, `SetupConnects` |
| `cycle` | read and connect (1075-1094, 1133-1139) | `SensorFails`, `WifiFails`, `MqttFails`, `Connects` |
| `publish` | publish and report (1096-1102) | `CyclePublish` |
| `window`, `loop` | command window (1104-1117), continuous `loop()` (1143-1166) | `Pump`, `Reconnect`, `WindowClose`, `LoopPublish` |
| `process` | `process_pending_commands()` | `handle_set_confirm_uplink`, `HandleQuery`, `OtaReboots`, `FactoryReset` |
| `standby` | `SamdSleep::standby()` | `Wake` |

`Pump` is one `network.loop()` on a live connection: one message, its callback, and the PUBACK
of the client library whatever the callback did. `Reconnect` is one on a lost connection.
`ResetNode` is what every reset does to the RAM. `cycles` and `done` are history variables.

### `Ota` -- the commands that end in a reboot

An update and a factory reset change what is in flash and then cut the connection. Whatever
the broker has no PUBACK of by then comes again, so `Ota` follows a command from the session
(`Broker`) to the image (`running`) and the identity (`provisioned`).

| `pc` | place in the code | actions |
|---|---|---|
| `off` | reset, deep sleep, `run_provisioning()` | `Connects`, `Provision` |
| `window` | command window (`main.cpp:1003-1008`) | `Pump`, `Reconnect`, `WindowClose` |
| `process` | `process_pending_commands()`, `ota_module_handle()` up to the download | `HandleQuery`, `UpdateRefused`, `UpdateStarts`, `ResetPauses` |
| `download` | `platform_ota_perform()` | `UpdateFails`, `UpdateInstalled` |
| `pause` | `delay(200)` (`main.cpp:705`) | `FactoryReset` |

`Requests` says of every update command whether all its fields were sent, how many characters it
takes to read them, whether the image is for this hardware, and its version. `Refused` is the
ladder of guards; `Readable` is what the callback leaves of a long command. `carried` and
`answers` are history variables: the commands that rebooted the node, and the error acks.

Nothing in the code waits for a PUBACK. The client library writes it before the command is
processed, and the reboot takes the connection with it; whether it reached the broker by then is
part of the history (`acked`). So an update or a factory reset may come again after its own
reboot, and behind newer commands.

### `Calibration` -- identity and calibration

`entries` is the config store in RAM, `blob` the one in flash, `offset` and `divider_ratio`
what is in use, `bat_divider` the ratio that is *reported* (a variable of its own in
`calibration_module.cpp`). `mode` is off, provisioning or running. Each serial or MQTT
command that writes is one action; `Restart` is deep sleep, crash or power loss, `StorageFails`
switches between a storage that works and one that can neither be read nor written.

`NodeCalibration` is the promise of `docs/modules/calibration.md`: commands change one value,
all of it survives restarts, and a factory reset returns to the defaults; a storage that
does not work keeps the calibration last saved, whole. `Calibration` implements it with
`calibration <- InUse` (what the node uses; while it is off, what it would restart with)
and `saved <- CalibrationOf(blob)`.

### `CellTester` -- the 18650 tester

`turn` is the next of the four calls of `loop()`; the operator, the cell and the cable may
act between any two. A call that waits for an interval of `millis()` may find it elapsed or
not. Voltages are integers in units of 50 mV, so that 0.5, 1.0, 2.8, 3.6, 4.0 and 4.2 V
are exact; the smoothing moves a tenth of the distance and at least one unit.

### `Clock`, `Relay` and `ContinuousNode` -- `loop()` against the time

`Clock` is `millis()` as an unsigned counter modulo `ClockModulus` with its addition and
subtraction. `ContinuousNode` cuts a pass of `loop()` at the places that ask for the time; the
clock advances between two of them (`Tick`), at most `MaxPass` in one pass.

| `pc` | place in `main.cpp` | actions |
|---|---|---|
| `net` | `network.loop()`, `process_pending_commands()` | `SetInterval`, `SetOffset`, `RelayToggle`, `RelayContact`, `NetworkDone` |
| `button` | `handle_button()` (745-760) | `HandleButton`: `ButtonIgnored` or `ButtonTaken` |
| `relay` | `relay_module_tick()` (`relay_module.cpp:106-122`) | `RelayTick` |
| `rest` | the schedule (1153-1165), `read_sensors()` (1047-1070) | `Rest`: `NotDue`, or `ReadAndPublish` with `ReadInvalid`, or `ReadValid` and then `KeepReading` or `PublishReading` |

A reading is what was measured and the offsets that were added to it since. `read_sensors()` of
the BME280 build writes the digits first; publishing then adds the offsets in use to `last_data`
itself (`main.cpp:456-458`), and the next page turn encodes the result. `told` is a history
variable: the last reading as it was published, if it was.

`build` is the display node with a BME280, the one with an SHT30, or a node with relays. No
environment builds the relay module and `main.cpp` never calls it; it is modelled as its header
asks to be used, ticked by every pass of `loop()`. History variables hold the *real* time since
the last reading (`since_read`) and the last page turn (`since_turn`), and until the end of a
pulse (`left`), which the code knows only modulo the clock: the properties compare the two.

### `Sensors`, `Registry`, `Payload`, `Health` and `Reports` -- what a node says of itself

`Sensors` has the drivers as lists of bus transactions, each of a kind that says which answers
are looked at (an identifier, an acknowledgement, a number of bytes, a checksum, nothing). The
bus is up, noisy or down and changes between any two transactions; a chip that loses its supply
loses its configuration; a wake resets the node and not the chip. `Registry` is what each
module announces under its `#ifdef` (`With`), as far as the arrays have room (`Kept`). `Payload` is
the arithmetic of `PayloadBuilder` and `buf_append()`: where the writing stands and what was cut
off, as recursive functions over the fields written so far. `Health` is
the ladder of `diag_evaluate()` beside the table of `docs/diagnostics.md`.

`Reports` composes them into a node: `begin` and `read` (from `Sensors`), `publish`, `alert`,
`health`, `window` and `sent` (a message has just been handed to the network), `sleep`.
`message` is the last message, made from `build`, `reading` and `data`; `SizeOf` computes its
bytes from the key names and the widest values of the code. Its connection always stands; the
one that fails is the subject of `WakeCycle` and `LoopNode`.

## 3. What is checked

| Run | Instance | States | What it shows |
|---|---|---|---|
| `WakeSync` | ESP32 with sync, 2 re-publishes, queue 1, 1 query, lossy link | 61,796 | the loopback proves a delivery of *this* wake; no more is confirmed than attempted; sleep only when delivered or spent; every wake ends |
| `WakeEsp8266` | ESP8266 without sync, 2 commands of every kind, crashes, power losses, lossy link | 1,617,714 | attribution; counters and interval survive every way into deep sleep; commands are first carried out in the order of sending |
| `WakeService` | ESP32 without sync, 3 commands, queue 2, lossy link, counters modulo 1 | 19,460 | no command is lost; the command service is implemented, with liveness |
| `CellTester` | 4 voltages (dead, below cutoff, testable, full) | 472,412 | no test against the charger; hysteresis reset; charging comes back; removal noticed |
| `Calibration` | 2 identities, 3 offsets, 4 ratios, 1 measured ratio, 2 stale stores | 16,276 | types; the RAM store is what is in use; the ratio is plausible; the promise is kept; the identity is kept |
| `LoopNode` | both builds, 2 commands of every kind, queue 1, counters modulo 2, 1 packet in flight before a publish of the continuous build, resets and lost links at any time | 400,511 | the loopback proves a delivery of the *last* publish; every cycle attributed once; a connected node is subscribed; only a reset loses a command; commands are first carried out in the order of sending; every cycle ends; every command is taken |
| `Continuous` | 3 builds, clock modulo 7, intervals 1 and 2, debounce 2, 1 tick per pass, 1 reading, 2 offsets, 2 relays with pulses of up to 3 | 600,032 | readings exactly when due; page turns a press and a release apart; a page turn shows what the server was told; a timer belongs to a relay that is on; a pulse ends when due; a button that rests is seen |
| `Reports` | the 7 builds that differ in what they register, 144 snapshots, a bus that changes at any transaction | 89,689 | a valid reading was measured; payloads are whole, fit a packet and are announced; the verdict is the worst that holds; a sensor recovers |
| `Ota` | 6 kinds of command (2 versions, another hardware, one too long, a factory reset, a query), 2 of them sent, at most 3 reboots by command, queue 1, lost acknowledgements, resets, lost links, failing downloads | 534,988 | no version is flashed over itself; a success is answered by `same_version` and nothing else |
| `SyncRepublishes`, `SyncLosesCommand`, `CellTestReports` | | | see section 5: what a document says and the code does not do |

### Why the bounds are enough

* *Counters*: every comparison is between counters of one node that were bumped in the same
  wakes. `MaxBoots = 2` boots between two losses of the RTC memory let every pair of wakes
  happen in every order; the modulus is above what two wakes can reach where the properties
  add counters, and 1 where the question is not about them, which leaves the number of
  boots unbounded.
* *Queue*: 1 place where the wait of the sync can fill it (a command that is delivered twice
  finds it full and is dropped), 2 where the order of service is the question.
* *Re-publishes*: 2 (4 in the code): one that is not the last and one that is.
* *Commands*: 3 for the order of service, with a command behind one that is delivered twice.
* *Values*: `MaxCommandValue = 2` with 1 and 3: inside and above.
* *Voltages*: a step of each class that the thresholds tell apart; `LoadCurve` falls in
  steps of at most 0.4 V, which no single reading takes for a removal.
* *Calibration*: an offset that is refused, one on the bound and zero; ratios that are
  plausible, on the bound, implausible and refused by the first handler; a stale store with
  a plausible and one with an implausible ratio.

* *`LoopNode`*: the counters wrap with every second cycle, so the number of cycles is
  unbounded and `CycleAttribution` is checked over wraps; two commands let one be delivered
  again behind another; a queue of one place suffices to show that both forms of `loop()` empty
  it after every message, so that it is never full when a command arrives; one packet in
  flight when the continuous build publishes lets a publish be lost behind a subscription,
  and keeps the interval from filling the network.

* *`Continuous`*: the clock wraps every few passes, so every step happens at every distance
  from the wrap, and runs for ever; an interval and a debounce take one or two passes of the
  longest kind, and any number of short ones. A pulse whose deadline is closer to the wrap than
  two ticks of the module may be apart is not tracked (section 5). One reading suffices for the
  display: two readings differ by the offsets they were published with.
* *`Reports`*: snapshots on both sides of every threshold, with a reset cause of each level;
  the builds of `platformio.ini`, one for each different set of registered modules; counters of
  6 digits, which at a wake a minute is two years, and a firmware version of 9 characters.
* *`Ota`*: 2 commands and 3 reboots (`MaxReboots`, in the guard of `CarriedOut`) let an update
  be carried out, another behind it, and the first come again; with updates to one version, let
  each come again while its image runs. One message is taken per `network.loop()`, so a queue of
  one is never full.

Deadlock is checked for the cell tester, the calibration, `LoopNode`, `ContinuousNode`,
`Reports` and `Ota`. In `WakeCycle` it is not: the bound `MaxBoots` stops the node.

### Fairness

* `NodeFairness` (`EveryWakeEnds`): weak fairness of the node's step (one thread that always
  has a next instruction, and an RTC timer that ends a sleep), strong fairness of the end
  of the command window and of the wait for the loopback: both are `millis()` loops, which
  end however often a packet interrupts them.
* `NetworkSettles` (only `CommandsServed`): connections are not refused for ever, packets
  arrive, and from some time on no connection is lost and packets arrive within the window
  of `MQTT_COMMAND_WAIT_MS`. Without it the broker may keep a command for ever; the code can
  do nothing about that.
* `LoopNode!NodeFairness` (`EveryCycleEnds`): the node's step and `network.loop()`, which every
  turn of `loop()` and of the window calls, weakly fair; the end of the window, a `millis()`
  bound, strongly fair.
* `LoopNode!Settles` (only `EveryCommandTaken`): connections are not refused for ever, packets
  arrive, the operator provisions the node, and from some time on no reset and no loss
  happens, packets arrive within a window and before the reboot that a `factory_reset`
  (200 ms, `main.cpp:703`) or an update (its download) brings about.
* `CellTester!FairSpec`: `loop()` is called for ever, and an interval of 2 s or 5 s elapses
  again and again.
* `ContinuousNode!FairSpec` (`ButtonIsSeen`): `loop()` goes on and the clock advances.
* `Reports!FairSpec` (`SensorHeals`): the program goes on wherever its waits are bounded by
  `millis()`, which is everywhere but in `bme280_sensor.cpp:46`; there the wait ends when the
  bus answers. The end of the command window is strongly fair: commands are a detour.
* `Calibration`: safety only, no fairness.

## 4. What is proved

`tlapm` proves these for every value of the constants that satisfies the modules' `ASSUME`s.
Every invariant and every action property that a passing run checks is stated by one of these
theorems, and so is the refinement each run checks, except for liveness.

The type invariants of `WakeCycle`, `LoopNode`, `ContinuousNode`, `Reports` and `Ota` are proved and
not a property of a run.

### `WakeCycle_proofs`

| Theorem | Statement | Assumptions beyond the module's |
|---|---|---|
| `TypeCorrectness` | `Spec => []TypeOK` | none |
| `ConfirmedImpliesDelivered` | `Spec => []ConfirmedIsDelivered` | none |
| `NoSleepOnUndelivered` | `Spec => SleepsDeliveredOrSpent` | none |
| `ConfirmedWithinSent` | `TxOkWithinTxSent` | `SyncBeforeSleep`; the counter of the attempts has not wrapped |
| `CountersSurviveSleep` | `Spec => WakeKeepsCounters` | none |
| `IntervalSurvivesSleep` | `Spec => WakeKeepsInterval` | none |
| `WakesAttributedOnce` | `CounterAttribution` | the boot counter does not wrap (`MaxBoots < CounterModulus`) |
| `PlainBuildLosesNoCommand` | `NoCommandLost` | `PlainBuild`: no sync, no `set_confirm_uplink`, no crash, no power loss |
| `CommandsServedInOrder` | `Spec => ServedInOrder`: the refinement of `Service!LossySpec` | none: any build, with crashes and power losses |
| `PlainBuildServesInOrder` | `Spec => Service!Spec`: the refinement of the whole service | `PlainBuild` |
| `WakeGoesForward` | no step takes a wake back to an earlier stage, and every step of `setup()` but those that take a packet or a command comes to the next | none |

`TypeOK` is not inductive: how often the offsets were added is bounded only through `resends`,
and `process` needs a command at the head of the queue. `TypeInv == Flags /\ Data` adds both; it
is split because the Boolean variables and the arithmetic are proved by different backends.
`DeliveryInv` says that every loopback on its way to the node was caused by a publish of this
wake, that the session keeps commands only, and that the flag implies delivery. `AttributionInv`
adds to the sums that the wake in progress has not been attributed yet: the sums are strictly
below the number of boots until a wake fails or is confirmed, and on the ESP8266 the saved
counters satisfy what those in RAM do. `SentInv` keeps one attempt to spare from the moment a
publish is underway until its confirmation is counted, and needs `DeliveryInv` to know that a
confirmation has a publish of the same wake. `SleepInv` says what a node falls asleep with: the
interval of RTC memory, or the default, and counters where the next boot looks for them.
`ServiceInv` says that an acknowledgement on its way is one of a command that is queued or done,
that the queue holds at most one command and none outside `process`, and that the phases of the
sync, which would fill it, are not reached.

The order of the commands is a fact about the session first (`WireOrder` in `Broker_proofs`,
below) and about the node second. `OrderInv` says that whatever the broker has pushed on this
connection is done, queued or still in flight, and that for a command in the queue or done
everything before it that is still in the session is done: a delivery of an old command behind a
newer one is a repetition. The refinement is then one case per step: the server's is `Accept`,
`ProcessCommand` is `ServeOrSkip` or, for a repetition, a stutter, and all others are stutters.
In a plain build `OldestUnserved` makes `ServeOrSkip` a `Serve`: what has left the session was
done, by `ServiceInv`, and what has not is done, by `OrderInv`.

`WakeGoesForward` is the part of `EveryWakeEnds` that does not need fairness: `StagesLeft` counts
the stages a wake still has, two for each re-publish, 2 * `SYNC_MAX_RESENDS` + 4 at most.
What may hold a wake at a stage are the packets of two waits, and `millis()` ends both.

### `Broker_proofs` and `LoopNode_proofs`

`Broker_proofs` has the lemmas on types and on the order of the commands that both nodes use.
`WireOrder` has one part for each place a command can be. The session holds the commands after
the `Acked = sent - Len(backlog)` acknowledged ones, without a gap; those in flight are pushed
ones of this connection, in order; and what is acknowledged is older than what is still in
flight. `BrokerMoves` is what the nodes need of a step of the broker: `Acked` and `sent` only
grow, and a command that was pushed is coming.

| Theorem | Statement | Assumptions beyond the module's |
|---|---|---|
| `LoopTypeCorrectness` | `Spec => []TypeOK` | none |
| `LoopConfirmedIsDelivered` | `Spec => []ConfirmedIsDelivered` | none |
| `ReconnectionKeepsCommands` | `Spec => []ConnectedIsSubscribed` | none |
| `CyclesAttributedOnce` | `Spec => []CycleAttribution` | none: the counters may wrap |
| `CommandsOutliveTheLink` | `Spec => OnlyResetLosesCommands` | none |
| `LoopServesInOrder` | `Spec => ServedInOrder`: the refinement of `Service!LossySpec` | none: both builds, with resets |
| `UnresetNodeServesInOrder` | `Init /\ [][NextWithoutReset]_vars => Service!Spec` | no step is a `Reset`; the link may be lost, and the node may reboot itself by a command |

`DeliveryInv` has to say where the loopbacks of earlier cycles went: a duty cycle publishes with
nothing in flight, because the link was hung up before the standby, and a continuous node never
subscribes to its sensors topic, so no loopback exists that an earlier publish could have
caused. `SubscriptionInv` says that the command subscription is either in the broker's session,
which is never cleaned, or on its way on the link that is up: `Connect` in `setup()` or at the
start of a cycle sends it, a reconnection to the sensors topic may replace it only when it was
sent on a link that is gone, and a queued command proves that it arrived. `AttributionInv`
counts the cycle in progress: from its publish to its end the counters are one ahead of
`cycles`. The arithmetic is in `OneMore`: one more ending is one more cycle, on whichever side a
wrap happens. `CommandInv` is what an acknowledgement may be trusted with: one on its way is of
a command that is queued or done, and the queue is empty whenever the callback appends to it, so
that none is dropped. `OrderInv` is the same argument as for the wake. It has to survive
reconnections in the middle of the work, which push the whole backlog again: nothing is in
flight then, and what is done stays done.

### `Ota_proofs`

| Theorem | Statement | Assumption |
|---|---|---|
| `OtaTypeCorrectness` | `Spec => []TypeOK` | none |
| `AcknowledgedCommandsAreFinal` | `Spec => []AckedIsFinal` | none |
| `NothingIsFlashedTwice` | `Spec => []NoVersionFlashedTwice` | none |
| `SuccessIsRecognized` | `Spec => []SuccessIsSameVersion` | none |
| `RolloutFlashesOnce` | `Spec => [](Len(carried) <= 1)` | `OneRollout(v)`: all updates ask for `v`, no factory reset |

`AckedIsFinal` is the order that reboots keep: once a command rebooted the node with its PUBACK
at the broker, only newer commands do. `OrderInv` says what the broker and the node may still
hold: the backlog is sorted and newer than all that is final, and a command in flight or in the
queue is still in the backlog, or older than all of it (`Fresh`). A command that overtakes its
PUBACK is still in the backlog, which is why it can come again, and the only way it can.

`NoVersionFlashedTwice` holds because the version flashed last is the one that runs
(`LastFlashedRuns`), and because the version being downloaded is another one, from the guard
until the reboot (`VersionInv`). It needs nothing of the network: what comes again is stopped by
the guard, or undoes something else. `SuccessIsSameVersion` adds that what was carried out could
be read whole and is for this hardware (`AnswerInv`), so that the third guard decides; that the
battery comes after it is what the property is about. `RolloutInv` is the same argument for a
rollout of one version: once an update was carried out, `running` is the version all of them ask
for.

### `CellTester_proofs`

`TesterTypeCorrectness` (`Spec => []TypeOK`, for every set of cell voltages below 4.2 V),
`NoChargeDuringTest` (`ChargerOffDuringTest`) and `ChargerIsNotStuckOff` (`ChargerNotStuckOff`).
The last two are inductive only together (`ChargerInvariants`).

Two more are what the liveness properties of the run rest on. `OneStatusBringsChargerBack`: with
the cable there, one status report of a monitored cell that is not charged switches the charger
on or finds the cell gone; it needs `ChargerNotStuckOff`. `RemovalComesCloser`: while a cell
stays out, `Distance` (what the smoothed voltage has left to fall, 85 units at most) never
grows, shrinks with each sample of a test, and is zero after the next report elsewhere. A report
during a test may leave it as it is, so only the samples count. Its invariant is that a test has
a first reading, without which there is no smoothed voltage (`Restarted`).

### `Calibration_proofs`

| Theorem | Statement | Assumption |
|---|---|---|
| `CalibrationTypeCorrectness` | `Spec => []TypeOK` | none |
| `StoreInvariant` | `Spec => []StoreInv` | `SoundInput` |
| `RatioStaysPlausible` | `Spec => []RatioPlausible` | `SoundInput` |
| `IdentityNeverLost` | `Spec => IdentityKept` | `SoundInput`, no seed |
| `CalibrationIsKept` | `Spec => CalibrationKept`: the refinement of `NodeCalibration` | `SoundInput` |

`SoundInput` says that what `battery_calibrate()` computes is plausible. It is necessary:
without it `calibrate_battery` puts an implausible ratio in use (section 5). `StoreInv` is the
inductive invariant of the refinement: commands write *all* of the RAM store, so the promise
holds only because that store says exactly what is in use, and because a store without identity
is empty, so that a node waiting to be provisioned has no calibration to lose. The refinement is
then one lemma per action: a boot is `Restart`, or `Forget` when the storage cannot be read;
`Provision` and `FactoryReset` are `Reset`, or a `Restart` when the storage is not written; an
implausible `set_calibration` is a stuttering step.

### `ContinuousNode_proofs`

| Theorem | Statement | Assumptions beyond the module's |
|---|---|---|
| `ContinuousTypeCorrectness` | `Spec => []TypeOK` | none |
| `ReadsExactlyWhenDue` | `Spec => ReadWhenDue` | none |
| `PageTurnsAreApart` | `Spec => PageTurnsApart` | none |
| `PressesShowPublished` | `Spec => PressShowsPublished` | none |
| `TimersMeanOn` | `Spec => []TimerMeansOn` | none |
| `PulsesEndWhenDue` | `Spec => PulseEndsWhenDue` | none |

The module's assumptions are what the wrap needs: an interval and a pass, a debounce and two
passes, and a pulse, are each shorter than the clock's round (86,400 s, 50 ms and 5 min against
49.7 days). Under them the difference of two instants is the real time between them
(`since_read` is `Elapsed(now, last_sensor_read)` at every place of the loop), which is not true of a
comparison of the instants. `PageTurnsApart` needs more: two turns have a release between them,
so the invariant follows the time since the last change as well. For a pulse the invariant
ties `left` to the deadline: `deadline - now`, below zero at most by the gap between two ticks,
for as long as the clock does not wrap in between.

### `Reports_proofs`

| Theorem | Statement | Assumptions beyond the module's |
|---|---|---|
| `LadderIsTable` | `diag_evaluate(d)` is the worst of `Conditions(d)`, for every `d \in DiagData` | none |
| `ReportsTypeCorrectness` | `Spec => []TypeOK` | none |
| `HealthReported` | `Spec => []HealthIsWorst` | none |
| `ValidReadingsAreMeasured` | `Spec => []ValidIsMeasured` | none |
| `EveryPayloadIsWhole` | `Spec => []PayloadWhole` | every build has `OneSensor`; `CountersFit` |
| `AnnouncedNamesArePublished` | `Spec => []AnnouncedIsPublished` | every build has `OneSensor` and `OneLight`; `RoomForAll` |

`LadderIsTable` is about every signal strength, heap and miss counter, where the run has a few.
`ValidReadingsAreMeasured` holds for any set of builds; its invariant follows a driver through
the transactions of `begin()` and `read()`: on an undisturbed bus the chips that are behind are
started and their coefficients true, and for an SHT30 a read that goes on has heard only clean
answers.

The two theorems about the payloads are about every set of flags, not only the seven builds of the
run, every size of the registry and every version string. Their hypotheses are what the builds have in
common, and `MC_Reports` has TLC evaluate them on the shipped ones (`LikeTheBuilds`):

* `OneSensor`: at most one of `HAS_BME280`, `HAS_SHT30`, `HAS_MKR_ENV`, which `platformio.ini:95`
  asks for. With two of them `temp` would be sent twice, and the sensors payload of all three is cut.
* `OneLight`: not both of `HAS_BH1750` and `HAS_MKR_ENV`, which both send `lux` (section 5).
  Nothing in the code excludes it; no environment has both.
* `RoomForAll`: `MAX_METRICS` is 8 or more (12 in the code): no build that satisfies the other
  two has more.
* `CountersFit`: `10 * CounterDigits + FwLen <= 75`. It is a bound on how far the counters have
  come, since `uint32_t` counters of ten digits do not fit (section 5): with 6 digits a version
  has 15 characters.

A buffer is a budget. `Costs(s, Price, w)` says that the items of a list cost `w` bytes or less,
each at most its price (a field its key, quotes, colon, comma and value). Costs add up over `\o`
(`CostsJoined`), a part of a list costs no more than all of it (`CostsOfFirst`, for `Kept`), and
a list that costs no more than the buffer has left is written to its end (`AppendedFits`,
`BuildFits`). What remains is to price the lists: the sensors payload costs 224 of 256 bytes,
the diag payload 318 of 320, a status 48 of 64, the capabilities 215 and the version, and the
commands 358, of 512; and a payload of 394 bytes fits a packet of 512 behind the longest topic
(`Holds`).

The formatters are recursive functions. The induction theorem of the library takes an
operator as its parameter; `UpTo` states induction up to `N` over a *set* instead, and `Recursion`
that a function defined by recursion over `0 .. N` exists and has the values its definition says.
Both follow from the well-foundedness of the naturals (`Least`).

For the names, `Lists(s, N)` says that the metrics of `s` have the names `N`, as many as there
are, and `Writes(s, K)` that the fields of `s` have the keys `K`. Both add up over `\o` where no
name is in both, which is where `OneSensor` and `OneLight` are needed. `LitInv` says that a
payload with a light comes from a build with a BH1750; `soc` and `data` play no part.

### Only model-checked

Liveness: `EveryWakeEnds`, `CommandsServed`, `EveryCycleEnds`, `EveryCommandTaken`,
`ChargerComesBack`, `RemovalNoticed`, `ButtonIsSeen`, `SensorHeals`. The prover has no rules for
fairness and none for `ENABLED`. Of `CommandsServed` the safety part is proved
(`PlainBuildServesInOrder`), and the fairness of `Serve` is left to TLC; for `EveryWakeEnds`,
`ChargerComesBack` and `RemovalNoticed` the variant is proved and not that it reaches its end.
No invariant and no action property of a passing run is only model-checked.

## 5. Where documents and code disagree

Shown by a run:

1. `SyncRepublishes`, two causes. `docs/modules/calibration.md:80` says
   `raw_reading + offset`; the offsets are added in place (`main.cpp:457`), once more with
   every re-publish. `docs/diagnostics.md:120` says a wake with an invalid reading publishes
   nothing; the re-publish (`main.cpp:1021`) sends `last_data` whatever its `valid` says. TLC
   stops at the first; with the offsets applied to a copy the property is still violated,
   by the second.
2. `SyncLosesCommand`: `docs/mqtt-protocol.md:260-261` says undelivered commands survive. A
   command taken during the wait for the loopback is acknowledged, queued, and lost by the
   sleep: `process_pending_commands()` is not called again.
3. `CellTestReports`, two causes. `docs/battery-cells.md:179` says a test stops at 2.8 V;
   removal is measured against the voltage before the test (`cell_tester.cpp:306`), so the
   test of a full cell is aborted as "cell removed" at 3.7 V. `docs/battery-cells.md:214-216`
   describes one report per cell; `results_printed` is never cleared
   (`cell_tester.cpp:707-710`), so only the first test after a power-up reports. TLC stops at
   the first; restricted to tests that end by the cutoff, the property is violated by the second.

Seen while modelling, without a run of its own:

* **No update of the documented form is taken.** The update command that
  `docs/modules/ota.md:37-44` gives has 157 characters in one line. `on_mqtt_message()` keeps
  127 (`CMD_PAYLOAD_MAX`, `main.cpp:613,631`), which ends inside `ver`, so the command is
  acknowledged and refused as `bad_request`, which `docs/modules/ota.md:64` gives for a missing
  or malformed field. Everything but the URL takes 114 of the 127 characters; an update with all
  its fields fits only with a URL of at most 13 characters, or with an `md5` that is empty. The
  native tests call `ota_module_handle()` directly and do not see it. The `Ota` run has such a
  command (`Update(4)`); its other results are about commands that fit.
* `docs/ota-calibration-protocol.md:318-319` says the `ver` guard covers a command that lingers.
  It refuses the version that runs and nothing else: an update whose PUBACK was lost by its own
  reboot, or by the loss of the link before it, comes again behind a newer one and takes the
  node back to the older image. In `Ota` TLC finds it with two commands: update 1 fails or is
  carried out unacknowledged, update 2 is installed, update 1 comes again and is installed.
  `NoVersionFlashedTwice` is what the guard does give.
* A factory reset whose PUBACK is lost in the 200 ms before the reboot (`main.cpp:703-706`)
  comes again once the node is provisioned, and wipes it a second time.
  `AcknowledgedCommandsAreFinal` says that this is the only way.
* `docs/modules/ota.md:76-78` says that after an error the old firmware stays active. An update
  that is delivered twice may fail and then succeed, or succeed and then be refused as
  `same_version`; the server is told of an error for a node that runs the new image.
  `SuccessIsSameVersion` says that it can tell the second case by its message.
* `docs/configs/esp-display-sht30.md:45` and `docs/modules/display.md:9-10` say the display shows the
  current readings of the SHT30. `read_sensors()` calls `update_display()` inside `#ifdef HAS_BME280`
  only (`main.cpp:1056-1060`): the digits of the SHT30 build stay blank until the button is pressed,
  and then show the reading of that moment.
* `main.cpp:270-273` says an implausible ratio is rejected and never wrecks the reading.
  `battery_calibrate()` puts it in use before it is checked (`battery.cpp:63`), and the
  command is acknowledged as ok: `RatioPlausible` fails without `SoundInput`.
* `bme280_sensor.cpp:46`: `begin()` polls a status bit without a limit. A bus that goes down at
  that point reads 0xFF and holds the node in `setup()` until a watchdog ends it.
* `main.cpp:885-913`: a build that does not deep-sleep goes on after a failed `begin()`. A
  BME280 that was not started, or whose coefficients were not read, then answers `read()` with
  values that are called valid and published, for ever: `begin()` is not called again. The same
  is true of a chip that loses its supply later, and of `mkr_env_sensor.cpp:55-65`, whose
  readings are always valid, so that `sf` never counts a dead bus.
* `main.cpp:885-913`: in a deep-sleep build a failed `begin()` sleeps without a counter, against
  `docs/diagnostics.md:114-126`.
* `relay_module.cpp:109-115`: a pulse that crosses the wrap of the clock is cut at once, or never
  ends when its deadline is 0, against `docs/modules/relay.md:21`. `docs/modules/relay.md:118,134`
  describe a registration and a tick in `main.cpp` that are not there, and an environment that
  `platformio.ini` does not have.
* `diagnostics.cpp:40-78` in 320 bytes (`main.cpp:542`): with counters of seven digits each the
  payload no longer fits and is sent cut; when it fills the buffer exactly it is not closed.
* `docs/diagnostics.md:61`: "`error` also raises a `status` alert". The code raises one for the
  battery only. `docs/diagnostics.md:171` says `txsent` and `txok` are there only while the mode
  is on; they are there once anything was counted, so in sync builds too. Its table has
  "power-on / external" as an info; a software reset is one in the code, too.
* `mqtt_payload.h` says a command value is positive and finite; `strtof()` accepts `inf`.
* After an invalid reading a press of the button shows 0.0. The BME280 display shows the raw
  value after a reading and the corrected one after a press, because publishing corrects
  `last_data` in place (`main.cpp:457`), and the raw one again where the reading was not
  published: a set_offset is seen on the digits only with the next reading that is published and
  the page turn after it.
* The `wake_ms` of a duty-cycled MKR is its uptime: `millis()` goes on over the standby.
* A build with `HAS_BH1750` and `HAS_MKR_ENV` would send the key `lux` twice; none is shipped.

* `docs/diagnostics.md:92` says `{value:0}` switches the confirm mode off. The value parser
  refuses 0 (`mqtt_payload.cpp:165`), so the mode stays on until the counters are lost.
* `docs/mqtt-protocol.md:247-249`: "Always connected, no special handling needed". A continuous
  node whose connection fails in `setup()` never calls `subscribe()` (`main.cpp:938-976`); it
  reconnects, publishes, and takes no command unless the broker remembers an earlier session.
* A continuous node counts `txsent` but never `txok`, while `docs/diagnostics.md` gives the
  ratio of the two for all platforms: `note_tx_confirmed()` is called from the wake and the
  duty cycle only.
* `main.cpp:703`: a `factory_reset` whose PUBACK is not out within 200 ms is delivered again
  after the node is provisioned again.
* `samd_sleep.cpp:19`: an interval of 86400 s, which the parser accepts, becomes 86399 s.
* `docs/diagnostics.md:114,126`: the formula that attributes every boot does not hold for a
  failed sensor init (`main.cpp:885-913`) and for a cold boot that fails.
* `docs/diagnostics.md:72,101-104`: `txok` can exceed `txsent` without sync: after a reset the session
  still subscribes to the sensors topic, so a loopback confirms a publish that was not counted.
* `docs/diagnostics.md:68`: the ESP8266 persists its counters only before a deep sleep, so a
  boot that ends in a reset is not counted.
* `main.cpp:994-998`: the miss counter is cleared even when the diag publish failed.
* `calibration_module.cpp:122`: the reported ratio changes before the check, so after a refused
  `set_calibration` the report and the ratio in use differ, against the comment at
  `main.cpp:289-290`.
* `cell_tester.cpp:351`: a voltage that relaxes by 50 mV after a charge is reported as an
  internal short, since the peak is that of the whole charge.
* `docs/mqtt-protocol.md` speaks of a window of 2 s; `MQTT_COMMAND_WAIT_MS` is 3000.

## 6. What the models leave out

* Time: in `WakeCycle`, `LoopNode`, `CellTester` and `Reports` windows and intervals may end at
  any moment. Only `ContinuousNode` has a clock.
* A power loss *inside* a handler counts as one before or after it. LittleFS and NVS replace a
  file or a key; the SAMD flash page does not, and a LittleFS that fails to mount is
  formatted. Both are one hazard without a property.
* `WakeCycle`: the retries inside `connect_wifi()` are one outcome; all commands that only
  publish a reply are one action; an OTA is refused or fails, or reboots the node (`Ota` has the
  guards and the versions).
* `Ota`: what the update libraries check of an image (the MD5 on the ESP8266, the hash in the
  image on the ESP32-C3) decides between `UpdateFails` and `UpdateInstalled` and is not looked
  into; `hwrev` is one digit, as in every document, so that a command cut inside it is one
  without it; `no_performer` is not reached by a build that has `HAS_OTA`; the window is that of
  a node that sleeps or of one that stays connected, since it may stay open for ever; a node
  that is provisioned again gets its old identity.
* `Calibration`: ratios are hundredths, offsets integers; five of the eight entries are ever in
  use, so the store is never full; `dirty_` is left out because every `commit()` follows a set;
  the `FORCE_DEVICE_ID` recovery build bypasses the store and is not modelled.
* `CellTester`: `check_charge_health()` and the capacity integral only feed the printed text; a
  failed I2C write to the charger (`cell_tester.cpp:154`) is not modelled. `is_usb_connected()`
  is "a host has opened the serial port", as in the code; without one the charger starts as the
  board left it.
* `LoopNode`: the 5 s pacing of reconnections and the publish interval may be over at any time;
  the invalid reading of the continuous build, which changes nothing, and the button and display
  are left out (`ContinuousNode` has them); `set_interval` and calibration commands are
  `HandleQuery` here.
* `ContinuousNode`: the segments a page is encoded in; the 5 s pacing of reconnections
  (`esp_network.cpp`); the three metrics, which are one value with one offset, and the clamping
  of a corrected humidity to 0..100; the rest of what is published (`NodeCalibration`,
  `Reports`).
* `Sensors`: the compensation formulas: a value is what the chip measured, or not. The conversion
  time of the light sensors and the ADC are not modelled.
* `Reports`: the characters of a payload: a field is its key and its widest value. Parsing
  (`parse_command_*`) is modelled by what it accepts, in `WakeCycle` and `Calibration`. Topics,
  their prefix and the chip id are lengths.
* Not modelled at all: the WiFi scanner, the ADC, the provisioning and release tools on the host,
  for the reasons `PROJECT.json` gives.

## 7. Plan

The models of the core and of every component the plan named are written. What is left, in this
order:

1. **Composition**: `Calibration` below `WakeCycle` (a factory reset or a command in the middle
   of the queue, a storage that fails at the boot after it); `Sensors` below the continuous
   `loop()`, where a `begin()` is never repeated.
2. **Theorems**: an abstract specification of the update service, with the repetitions that late
   acknowledgements bring; variants for `EveryCycleEnds`, `ButtonIsSeen` and `SensorHeals`.

## 8. How to run

```bash
tlc -workers 2 -config WakeSync.cfg MC_WakeCycle.tla     # every run: PROJECT.json, "runs"
tlapm WakeCycle_proofs.tla                               # and the other *_proofs.tla
```

The runs take between 1 s and about two minutes, the proofs together about eight
minutes, half of them `Reports_proofs`.
