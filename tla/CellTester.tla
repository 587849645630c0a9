----------------------------- MODULE CellTester -----------------------------
(***************************************************************************)
(* The 18650 cell tester of src/cell_tester.cpp: its state machine, the    *)
(* charger (BQ24195L) it commands, and the cell and the USB cable that     *)
(* come and go.                                                            *)
(*                                                                         *)
(* loop() is four calls in a fixed order; `turn` names the next one, and   *)
(* the cell and the cable may change between any two.  Time is abstracted: *)
(* a call that waits for an interval of millis() may find it elapsed or    *)
(* not.  Voltages are in units of 50 mV, of which every threshold of the   *)
(* code but the noise ones is a multiple.  The bookkeeping of the charge   *)
(* diagnosis and of the capacity integral only feeds the printed text and  *)
(* is left out.                                                            *)
(***************************************************************************)
EXTENDS Integers

CONSTANT CellVoltages   \* what the terminals of a cell may read

V_NO_CELL      == 10    \* 0.5 V
V_DEAD         == 20    \* 1.0 V
V_CUTOFF       == 56    \* 2.8 V
V_DISCHARGED   == 72    \* 3.6 V
V_RECHARGE     == 80    \* 4.0 V, the hysteresis of "charge complete"
V_MAX          == 84    \* 4.2 V
V_DROP_REMOVAL == 10    \* 0.5 V

ASSUME CellVoltagesAssumption == CellVoltages \subseteq V_NO_CELL .. V_MAX

VARIABLES
    turn,                   \* the call loop() makes next
    state,
    charging,               \* CHG_CONFIG of the charger: charging enabled
    last_known_voltage,
    ema_voltage,            \* the smoothed voltage ...
    ema_initialized,
    charge_complete_seen,
    results_printed,
    volt,                   \* the voltage at the terminals, 0 without a cell
    usb,                    \* is_usb_connected(): a host has opened the serial port
    pulled                  \* history: a cell has been pulled out

testerVars == <<state, charging, last_known_voltage, ema_voltage, ema_initialized,
                charge_complete_seen, results_printed>>
worldVars  == <<volt, usb, pulled>>
vars       == <<turn, testerVars, worldVars>>

States == {"IDLE", "OCV_MEASURE", "MONITORING", "DISCHARGE_TEST", "TEST_COMPLETE"}

TypeOK ==
    /\ turn \in {"serial", "status", "discharge", "results"}
    /\ state \in States
    /\ charging \in BOOLEAN
    /\ last_known_voltage \in 0 .. V_MAX
    /\ ema_voltage \in 0 .. V_MAX
    /\ ema_initialized \in BOOLEAN
    /\ charge_complete_seen \in BOOLEAN
    /\ results_printed \in BOOLEAN
    /\ volt \in CellVoltages \cup {0}
    /\ usb \in BOOLEAN
    /\ pulled \in BOOLEAN

\* setup() configures the charger when a host is there, and leaves it as the board
\* started it when not.
Init ==
    /\ turn = "serial"
    /\ state = "IDLE"
    /\ last_known_voltage = 0
    /\ ema_voltage = 0
    /\ ema_initialized = FALSE
    /\ charge_complete_seen = FALSE
    /\ results_printed = FALSE
    /\ volt \in CellVoltages \cup {0}
    /\ usb \in BOOLEAN
    /\ charging \in BOOLEAN
    /\ usb => charging
    /\ pulled = FALSE

-----------------------------------------------------------------------------
(* Reading the voltage *)

\* Mutant: the weight of the average is a percentage taken for a fraction.
TenTimes(d) == 10 * d

\* A tenth of the way, and at least one unit.
Tenth(d) == IF d \in 1 .. 9 THEN 1 ELSE d \div 10

\* What read_battery_voltage() returns, and what it leaves in ema_voltage.
Smoothed ==
    IF ~ema_initialized THEN volt
    ELSE IF volt >= ema_voltage THEN ema_voltage + Tenth(volt - ema_voltage)
    ELSE ema_voltage - Tenth(ema_voltage - volt)

read_battery_voltage ==
    /\ ema_voltage' = Smoothed
    /\ ema_initialized' = TRUE

reset_ema ==
    /\ ema_voltage' = 0
    /\ ema_initialized' = FALSE

\* Mutant: only the sudden drop is noticed.
OnlySuddenDrop(v) ==
    last_known_voltage > V_DEAD /\ last_known_voltage - v > V_DROP_REMOVAL

cell_removed(v) ==
    \/ v < V_NO_CELL
    \/ (last_known_voltage > V_DEAD /\ last_known_voltage - v > V_DROP_REMOVAL)

-----------------------------------------------------------------------------
(* process_serial() *)

Served == turn = "serial" /\ turn' = "status" /\ UNCHANGED worldVars

\* Nothing to read, or a command that only prints or sets the load resistance.
NoCommand ==
    /\ Served
    /\ UNCHANGED testerVars

NewCell ==
    /\ turn = "serial"
    /\ turn' = "status"
    /\ state' = "IDLE"
    /\ last_known_voltage' = 0
    /\ reset_ema
    /\ UNCHANGED <<charging, charge_complete_seen, results_printed, worldVars>>

DischargeRefused ==
    /\ Served
    /\ state # "DISCHARGE_TEST"
    /\ Smoothed < V_DISCHARGED
    /\ read_battery_voltage
    /\ UNCHANGED <<state, charging, last_known_voltage, charge_complete_seen,
                   results_printed>>

\* Mutant: the charger stays on.
StartWithChargerOn ==
    /\ turn = "serial"
    /\ state # "DISCHARGE_TEST"
    /\ Smoothed >= V_DISCHARGED
    /\ read_battery_voltage
    /\ state' = "DISCHARGE_TEST"
    /\ turn' = "status"
    /\ UNCHANGED <<charging, last_known_voltage, charge_complete_seen, results_printed,
                   worldVars>>

StartDischarge ==
    /\ turn = "serial"
    /\ state # "DISCHARGE_TEST"
    /\ Smoothed >= V_DISCHARGED
    /\ read_battery_voltage
    /\ charging' = FALSE
    /\ state' = "DISCHARGE_TEST"
    /\ turn' = "status"
    /\ UNCHANGED <<last_known_voltage, charge_complete_seen, results_printed, worldVars>>

StopDischarge ==
    /\ Served
    /\ state = "DISCHARGE_TEST"
    /\ charging' = TRUE
    /\ state' = "TEST_COMPLETE"
    /\ UNCHANGED <<last_known_voltage, ema_voltage, ema_initialized,
                   charge_complete_seen, results_printed>>

-----------------------------------------------------------------------------
(* print_status(): every PRINT_INTERVAL_MS *)

Shown == turn = "status" /\ turn' = "discharge" /\ UNCHANGED worldVars

NotYetShown == Shown /\ UNCHANGED testerVars

\* No cell in IDLE; in DISCHARGE_TEST and TEST_COMPLETE only the smoothed
\* voltage advances.
OnlyMeasured ==
    /\ Shown
    /\ state = "IDLE" => volt < V_NO_CELL
    /\ state \in {"IDLE", "DISCHARGE_TEST", "TEST_COMPLETE"}
    /\ read_battery_voltage
    /\ UNCHANGED <<state, charging, last_known_voltage, charge_complete_seen,
                   results_printed>>

CellDetected ==
    /\ Shown
    /\ state = "IDLE"
    /\ volt >= V_NO_CELL
    /\ read_battery_voltage
    /\ last_known_voltage' = volt
    /\ state' = "OCV_MEASURE"
    /\ UNCHANGED <<charging, charge_complete_seen, results_printed>>

CellGone ==
    /\ Shown
    /\ state \in {"OCV_MEASURE", "MONITORING"}
    /\ cell_removed(volt)
    /\ last_known_voltage' = 0
    /\ reset_ema
    /\ state' = "IDLE"
    /\ UNCHANGED <<charging, charge_complete_seen, results_printed>>

OcvSettling ==
    /\ Shown
    /\ state = "OCV_MEASURE"
    /\ ~cell_removed(volt)
    /\ read_battery_voltage
    /\ last_known_voltage' = volt
    /\ UNCHANGED <<state, charging, charge_complete_seen, results_printed>>

\* Mutant: the hysteresis of the previous cell is kept.
OcvKeepsComplete ==
    /\ turn = "status"
    /\ state = "OCV_MEASURE"
    /\ ~cell_removed(volt)
    /\ last_known_voltage' = volt
    /\ ema_voltage' = volt
    /\ ema_initialized' = TRUE
    /\ charging' = (usb \/ charging)
    /\ state' = "MONITORING"
    /\ turn' = "discharge"
    /\ UNCHANGED <<charge_complete_seen, results_printed, worldVars>>

\* OCV_SETTLE_MS after the detection: the smoothed voltage restarts at the open
\* circuit voltage and charging is configured when the cable is there.
OcvSettled ==
    /\ turn = "status"
    /\ state = "OCV_MEASURE"
    /\ ~cell_removed(volt)
    /\ last_known_voltage' = volt
    /\ ema_voltage' = volt
    /\ ema_initialized' = TRUE
    /\ charge_complete_seen' = FALSE
    /\ charging' = (usb \/ charging)
    /\ state' = "MONITORING"
    /\ turn' = "discharge"
    /\ UNCHANGED <<results_printed, worldVars>>

\* What the status register of the charger may say: "idle" stands for "not
\* charging" and for a failed read.  The charger needs power, not a serial port.
ChargerStatus ==
    IF charging THEN {"idle", "charging", "complete"} ELSE {"idle"}

\* Mutant: charging is not enabled again by itself.
NoAutoEnable(status, seen) == charging

\* Charging is enabled when the cable is there, nothing is charging, and the
\* cell was not seen full.
auto_enable(status, seen) ==
    charging \/ (usb /\ status = "idle" /\ ~seen)

Monitored ==
    /\ Shown
    /\ state = "MONITORING"
    /\ ~cell_removed(volt)
    /\ read_battery_voltage
    /\ last_known_voltage' = volt
    /\ \E status \in ChargerStatus :
          /\ charge_complete_seen' =
                (status = "complete" \/ (charge_complete_seen /\ Smoothed >= V_RECHARGE))
          /\ charging' = auto_enable(status, charge_complete_seen')
    /\ UNCHANGED <<state, results_printed>>

-----------------------------------------------------------------------------
(* discharge_tick(): every DISCHARGE_SAMPLE_MS of a test *)

Ticked == turn = "discharge" /\ turn' = "results" /\ UNCHANGED worldVars

NoSampleDue == Ticked /\ UNCHANGED testerVars

Sampled ==
    /\ Ticked
    /\ state = "DISCHARGE_TEST"
    /\ Smoothed > V_CUTOFF
    /\ ~cell_removed(Smoothed)
    /\ read_battery_voltage
    /\ UNCHANGED <<state, charging, last_known_voltage, charge_complete_seen,
                   results_printed>>

CutoffReached ==
    /\ Ticked
    /\ state = "DISCHARGE_TEST"
    /\ Smoothed <= V_CUTOFF
    /\ ~cell_removed(Smoothed)
    /\ read_battery_voltage
    /\ charging' = TRUE
    /\ state' = "TEST_COMPLETE"
    /\ UNCHANGED <<last_known_voltage, charge_complete_seen, results_printed>>

\* The removal is looked for after the cutoff and prevails.
TestAborted ==
    /\ Ticked
    /\ state = "DISCHARGE_TEST"
    /\ cell_removed(Smoothed)
    /\ charging' = TRUE
    /\ last_known_voltage' = 0
    /\ reset_ema
    /\ state' = "IDLE"
    /\ UNCHANGED <<charge_complete_seen, results_printed>>

-----------------------------------------------------------------------------
(* print_results() *)

print_results ==
    /\ turn = "results"
    /\ turn' = "serial"
    /\ results_printed' = (results_printed \/ state = "TEST_COMPLETE")
    /\ UNCHANGED <<state, charging, last_known_voltage, ema_voltage, ema_initialized,
                   charge_complete_seen, worldVars>>

-----------------------------------------------------------------------------
(* The cell and the cable *)

NextLower(v) == {w \in CellVoltages : w < v /\ \A u \in CellVoltages : u < v => u <= w}
NextHigher(v) == {w \in CellVoltages : w > v /\ \A u \in CellVoltages : u > v => u >= w}

CellInserted ==
    /\ volt = 0
    /\ volt' \in CellVoltages
    /\ UNCHANGED <<turn, testerVars, usb, pulled>>

CellRemoved ==
    /\ volt # 0
    /\ volt' = 0
    /\ pulled' = TRUE
    /\ UNCHANGED <<turn, testerVars, usb>>

\* The load, or the rest after a charge, lowers the voltage.
VoltageFalls ==
    /\ volt # 0
    /\ volt' \in NextLower(volt)
    /\ UNCHANGED <<turn, testerVars, usb, pulled>>

VoltageRises ==
    /\ volt # 0
    /\ charging
    /\ volt' \in NextHigher(volt)
    /\ UNCHANGED <<turn, testerVars, usb, pulled>>

UsbSwitched ==
    /\ usb' = ~usb
    /\ UNCHANGED <<turn, testerVars, volt, pulled>>

-----------------------------------------------------------------------------

process_serial == NoCommand \/ NewCell \/ DischargeRefused \/ StartDischarge \/ StopDischarge

StatusDue == OnlyMeasured \/ CellDetected \/ CellGone \/ OcvSettling \/ OcvSettled \/ Monitored

SampleDue == Sampled \/ CutoffReached \/ TestAborted

loop == process_serial \/ NotYetShown \/ StatusDue \/ NoSampleDue \/ SampleDue \/ print_results

World == CellInserted \/ CellRemoved \/ VoltageFalls \/ VoltageRises \/ UsbSwitched

Next == loop \/ World

Spec == Init /\ [][Next]_vars

(***************************************************************************)
(* loop() is called for ever, and millis() advances: however fast the loop *)
(* runs, each interval elapses again and again.                            *)
(***************************************************************************)
FairSpec == Spec /\ WF_vars(loop) /\ SF_vars(StatusDue) /\ SF_vars(SampleDue)

-----------------------------------------------------------------------------
(* Properties *)

\* The charger never compensates the load during a test, which "would give false
\* capacity readings" (docs/battery-cells.md:384-387), whatever commands, removals
\* and re-insertions came before it.
ChargerOffDuringTest == state = "DISCHARGE_TEST" => ~charging

\* A monitored cell whose charging is disabled is not taken for a full one: the
\* hysteresis of an earlier cell, or of the charge before an abandoned test, would
\* keep the charger off (cell_tester.cpp:575, 599-608).
ChargerNotStuckOff == state = "MONITORING" /\ ~charging => ~charge_complete_seen

\* "Send 'N' for next cell (firmware re-enables charging)"
\* (docs/battery-cells.md:216): with the cable there, a monitored cell gets charged,
\* even when 'N' abandoned a test and left the charger off.
ChargerComesBack ==
    (state = "MONITORING" /\ usb) ~> (charging \/ ~usb \/ state # "MONITORING")

\* A cell that is pulled out and stays out is noticed: no state waits for ever for
\* a cell that is gone.
RemovalNoticed ==
    (volt = 0) ~> (volt # 0 \/ state \in {"IDLE", "TEST_COMPLETE"})

\* "stops at 2.8V cutoff", "Wait for cutoff (2.8V) -- firmware reports capacity and
\* grade" (docs/battery-cells.md:179, 214), for the next cell ('N') and for a retest
\* ('D') as for the first one: where no cell was ever pulled out and the smoothed
\* voltage has settled on the one at the terminals, a test ends by itself at the cutoff
\* only, and print_results() still has its results to print.
TestEndsInReport ==
    [][state = "DISCHARGE_TEST" /\ turn = "discharge" /\ state' # "DISCHARGE_TEST"
       /\ ~pulled /\ Smoothed = volt
       => state' = "TEST_COMPLETE" /\ ~results_printed]_vars
=============================================================================
