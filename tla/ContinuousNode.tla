--------------------------- MODULE ContinuousNode ---------------------------
(***************************************************************************)
(* The continuous loop() of src/main.cpp against a clock that wraps: when  *)
(* a reading is due, what the display shows and what the server is told,   *)
(* the debounced button, and the relay module's timers.                    *)
(*                                                                         *)
(* Three builds: the display node with a BME280, the display node with an  *)
(* SHT30, and a node with relays.  One pass of loop() is: the network and  *)
(* the commands it brought ("net"), the button or the relays ("button",    *)
(* "relay"), the schedule ("rest").  Time passes between two statements;   *)
(* each statement that asks for millis() is one action at one instant.     *)
(* Counters, topics and the broker are in LoopNode.                        *)
(***************************************************************************)
EXTENDS Relay

CONSTANTS
    Builds,             \* the builds that may run
    Debounce,           \* BUTTON_DEBOUNCE_MS
    MaxInterval,        \* largest publish interval, 86400 s in the code
    DefaultInterval,    \* DEFAULT_PUBLISH_INTERVAL_S
    Readings,           \* what a sensor may measure
    Zero,               \* the fields of SensorData{}, which no sensor measures here
    Offsets,            \* what the calibration may add to a reading; 0 is nothing
    MaxPass             \* longest time one pass of loop(), or setup(), takes

ASSUME ContinuousAssumption ==
    /\ Builds \subseteq {"bme280", "sht30", "relay"}
    /\ Debounce \in Nat
    /\ MaxInterval \in Nat \ {0}
    /\ DefaultInterval \in 1 .. MaxInterval
    /\ MaxPass \in Nat
    /\ Zero \notin Readings
    /\ Offsets \subseteq Int
    /\ 0 \in Offsets
    /\ MaxGap = 2 * MaxPass
    /\ MaxInterval + MaxPass < ClockModulus
    /\ Debounce + 2 * MaxPass < ClockModulus

VARIABLES
    build,              \* which build runs
    now,                \* millis()
    pc,                 \* where loop() is
    pass,               \* time spent in this pass of loop()
    publish_interval,   \* publish_interval_s
    last_sensor_read,
    since_read,         \* history: real time since the last reading fell due
    button,             \* the pin: TRUE is released
    last_button_state,
    last_button_change,
    since_turn,         \* history: real time since the last page turn, capped
    current_mode,       \* the page
    offset,             \* the offsets of the calibration module
    last_data,          \* the last reading, and what was added to it
    shown,              \* what the digits show: a page of a reading
    told                \* history: what the last reading was published as, if it was

scheduleVars == <<publish_interval, last_sensor_read, since_read>>
buttonVars   == <<last_button_state, last_button_change, since_turn, current_mode>>
displayVars  == <<last_data, shown, told>>
vars == <<build, now, pc, pass, scheduleVars, button, buttonVars, offset, displayVars,
          relayVars>>

DisplayBuilds == {"bme280", "sht30"}

\* DisplayMode::COUNT: the pressure page exists with a BME280 only.
Pages == IF build = "bme280" THEN 3 ELSE 2

Intervals == 1 .. MaxInterval

\* What may be on the digits: nothing yet, or one page of a reading.
Shown == [page : -1 .. 2, value : Readings \cup {Zero}, offset : Offsets]
Blank == [page |-> -1, value |-> Zero, offset |-> 0]

\* A reading as measured, and the offsets that were added to its fields since.
SensorData == [valid : BOOLEAN, value : Readings \cup {Zero}, offset : Offsets]
NoData == [valid |-> FALSE, value |-> Zero, offset |-> 0]

NotYet == 2 * Debounce      \* the cap of since_turn

TypeOK ==
    /\ RelayTypeOK
    /\ build \in Builds
    /\ now \in Instants
    /\ pc \in {"net", "button", "relay", "rest"}
    /\ pass \in 0 .. MaxPass
    /\ publish_interval \in Intervals
    /\ last_sensor_read \in Instants
    /\ since_read \in 0 .. MaxInterval + MaxPass
    /\ button \in BOOLEAN
    /\ last_button_state \in BOOLEAN
    /\ last_button_change \in Instants
    /\ since_turn \in 0 .. NotYet
    /\ current_mode \in 0 .. Pages - 1
    /\ offset \in Offsets
    /\ last_data \in SensorData
    /\ shown \in Shown
    /\ told \in SensorData

\* setup() took some of the first pass, and restored the offsets; last_sensor_read
\* starts so that the first reading is due at once.
Init ==
    /\ RelayInit
    /\ build \in Builds
    /\ pass \in 0 .. MaxPass
    /\ now = pass
    /\ pc = "net"
    /\ publish_interval = DefaultInterval
    /\ last_sensor_read = ClockModulus - DefaultInterval
    /\ since_read = DefaultInterval + pass
    /\ button \in BOOLEAN
    /\ last_button_state = TRUE
    /\ last_button_change = 0
    /\ since_turn = NotYet
    /\ current_mode = 0
    /\ offset \in Offsets
    /\ last_data = NoData
    /\ shown = Blank
    /\ told = NoData

Cap(t) == IF t < NotYet THEN t ELSE NotYet

-----------------------------------------------------------------------------
(* Outside the program *)

Tick ==
    /\ pass < MaxPass
    /\ pass' = pass + 1
    /\ now' = Later(now, 1)
    /\ since_read' = since_read + 1
    /\ since_turn' = Cap(since_turn + 1)
    /\ RelayTime
    /\ UNCHANGED <<build, pc, publish_interval, last_sensor_read, button,
                   last_button_state, last_button_change, current_mode, offset,
                   displayVars>>

\* Pressed, released, or bouncing.
ButtonMoves ==
    /\ build \in DisplayBuilds
    /\ button' = ~button
    /\ UNCHANGED <<build, now, pc, pass, scheduleVars, buttonVars, offset, displayVars,
                   relayVars>>

-----------------------------------------------------------------------------
(* network.loop() and process_pending_commands() *)

SetInterval ==
    /\ pc = "net"
    /\ publish_interval' \in Intervals
    /\ UNCHANGED <<build, now, pc, pass, last_sensor_read, since_read, button, buttonVars,
                   offset, displayVars, relayVars>>

\* The readings already taken stay as they are.
SetOffset ==
    /\ pc = "net"
    /\ build \in DisplayBuilds
    /\ offset' \in Offsets
    /\ UNCHANGED <<build, now, pc, pass, scheduleVars, button, buttonVars, displayVars,
                   relayVars>>

RelayToggle ==
    /\ pc = "net"
    /\ build = "relay"
    /\ \E r \in Relays : handle_relay_toggle(r)
    /\ UNCHANGED <<build, now, pc, pass, scheduleVars, button, buttonVars, offset,
                   displayVars>>

RelayContact ==
    /\ pc = "net"
    /\ build = "relay"
    /\ \E r \in Relays, delay \in ContactDelays : handle_relay_contact(r, delay)
    /\ UNCHANGED <<build, now, pc, pass, scheduleVars, button, buttonVars, offset,
                   displayVars>>

\* The other commands, and those that are refused, change nothing here.
NetworkDone ==
    /\ pc = "net"
    /\ pc' = IF build = "relay" THEN "relay" ELSE "button"
    /\ UNCHANGED <<build, now, pass, scheduleVars, button, buttonVars, offset, displayVars,
                   relayVars>>

-----------------------------------------------------------------------------
(* The display and the button *)

\* update_display() with data on page mode.
Encoded(mode, data) == [page |-> mode, value |-> data.value, offset |-> data.offset]

\* Mutant: one millisecond early.
DebouncedEarly == Elapsed(now, last_button_change) >= Debounce - 1

\* Mutant: the two instants compared instead of their difference.
DebouncedByInstant == now >= last_button_change + Debounce

Debounced == Elapsed(now, last_button_change) >= Debounce

NextPage(mode) == (mode + 1) % Pages

\* The pin agrees with the state, or changed too soon after the last change.
ButtonIgnored ==
    /\ button = last_button_state \/ ~Debounced
    /\ UNCHANGED <<buttonVars, shown>>

ButtonTaken ==
    /\ button # last_button_state
    /\ Debounced
    /\ last_button_state' = button
    /\ last_button_change' = now
    /\ IF button THEN UNCHANGED <<current_mode, since_turn, shown>>
       ELSE /\ current_mode' = NextPage(current_mode)
            /\ shown' = Encoded(current_mode', last_data)
            /\ since_turn' = 0

HandleButton ==
    /\ pc = "button"
    /\ ButtonIgnored \/ ButtonTaken
    /\ pc' = "rest"
    /\ UNCHANGED <<build, now, pass, scheduleVars, button, offset, last_data, told, relayVars>>

RelayTick ==
    /\ pc = "relay"
    /\ relay_module_tick(now)
    /\ pc' = "rest"
    /\ UNCHANGED <<build, now, pass, scheduleVars, button, buttonVars, offset, displayVars>>

-----------------------------------------------------------------------------
(* The schedule *)

\* Mutant: the two instants compared instead of their difference.
DueByInstant == now >= last_sensor_read + publish_interval

Due == Elapsed(now, last_sensor_read) >= publish_interval

NotDue ==
    /\ ~Due
    /\ UNCHANGED <<last_sensor_read, since_read, displayVars>>

\* read_sensors() returns false: nothing is published, and the digits stay.
ReadInvalid ==
    /\ last_data' = NoData
    /\ told' = NoData
    /\ UNCHANGED shown

\* Not connected: the reading stays as it was measured.
KeepReading(data) ==
    /\ last_data' = data
    /\ told' = NoData

\* calibration_apply(); that humidity is clamped is left out.
Corrected(data) ==
    [valid |-> data.valid, value |-> data.value, offset |-> data.offset + offset]

\* Mutant: what is published is a corrected copy.
PublishCopy(data) ==
    /\ last_data' = data
    /\ told' = Corrected(data)

\* publish_sensor_data() adds the offsets to last_data itself.
PublishReading(data) ==
    /\ last_data' = Corrected(data)
    /\ told' = last_data'

\* read_sensors() updates the display in the BME280 build only, before publishing.
ReadValid ==
    \E v \in Readings :
        LET data == [valid |-> TRUE, value |-> v, offset |-> 0]
        IN  /\ shown' = IF build = "bme280" THEN Encoded(current_mode, data) ELSE shown
            /\ KeepReading(data) \/ PublishReading(data)

ReadAndPublish ==
    /\ Due
    /\ last_sensor_read' = now
    /\ since_read' = 0
    /\ IF build \in DisplayBuilds THEN ReadInvalid \/ ReadValid
                                  ELSE UNCHANGED displayVars

Rest ==
    /\ pc = "rest"
    /\ NotDue \/ ReadAndPublish
    /\ pc' = "net"
    /\ pass' = 0
    /\ UNCHANGED <<build, now, publish_interval, button, buttonVars, offset, relayVars>>

-----------------------------------------------------------------------------
(* The specification *)

Commands == SetInterval \/ SetOffset \/ RelayToggle \/ RelayContact

LoopStep == NetworkDone \/ HandleButton \/ RelayTick \/ Rest

Next == Tick \/ ButtonMoves \/ Commands \/ LoopStep

Spec == Init /\ [][Next]_vars

\* The processor runs and its clock advances.
FairSpec == Spec /\ WF_vars(LoopStep) /\ WF_vars(Tick)
-----------------------------------------------------------------------------
(* Properties *)

\* However the clock wraps and the interval changes, the schedule reads when, and
\* only when, the interval has passed in real time since the last reading.
ReadWhenDue ==
    [][pc = "rest" /\ pc' = "net"
         => since_read' = IF since_read >= publish_interval THEN 0 ELSE since_read]_vars

\* However the contact bounces, two page turns are a press and a release apart.
PageTurnsApart == [][current_mode' # current_mode => since_turn >= 2 * Debounce]_vars

\* A page turn shows what the server was told: the last reading with the offsets it was
\* published with, once, whatever set_offset said since.  Between two page turns the
\* digits may show an older reading, or the uncorrected one.
PressShowsPublished ==
    [][current_mode' # current_mode /\ told.valid
         => shown' = Encoded(current_mode', told)]_vars

\* A button that rests is seen: the state follows it, whatever the clock reads.
ButtonIsSeen ==
    \A b \in BOOLEAN : build \in DisplayBuilds /\ <>[](button = b) => <>[](last_button_state = b)

\* A relay with a timer is on: nothing a command does leaves a timer behind that
\* would later switch off a relay somebody toggled on.
TimerMeansOn == \A r \in Relays : pending_delay[r] > 0 \/ deadline[r] > 0 => relay_state[r]

\* A tick ends a pulse when, and only when, its delay has passed in real time; the
\* pulses whose deadline is too close to the end of the clock are not tracked.
PulseEndsWhenDue ==
    [][\A r \in Relays :
          pc = "relay" /\ pc' = "rest" /\ left[r] # Untracked
              => (relay_state'[r] <=> left[r] > 0)]_vars
=============================================================================
