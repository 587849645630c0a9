-------------------------- MODULE CellTester_proofs --------------------------
(***************************************************************************)
(* Proofs about CellTester: type correctness, and the two invariants of    *)
(* the charger, for every set of cell voltages.                            *)
(***************************************************************************)
EXTENDS CellTester, TLAPS

\* The thresholds, as the numbers the provers need.
LEMMA Thresholds ==
    /\ V_MAX = 84
    /\ V_NO_CELL = 10
    /\ CellVoltages \cup {0} \subseteq 0 .. V_MAX
BY CellVoltagesAssumption DEF V_MAX, V_NO_CELL

\* The smoothed voltage lies between the old one and the one at the terminals.
LEMMA SmoothedInRange ==
    ASSUME TypeOK
    PROVE  Smoothed \in 0 .. V_MAX
<1>1. volt \in 0 .. 84 /\ ema_voltage \in 0 .. 84
  BY Thresholds DEF TypeOK
<1>2. ASSUME NEW d \in 0 .. 84
      PROVE  Tenth(d) \in 0 .. d
  BY <1>2 DEF Tenth
<1>3. CASE ~ema_initialized
  BY <1>1, <1>3, Thresholds DEF Smoothed
<1>4. CASE ema_initialized /\ volt >= ema_voltage
  <2>1. volt - ema_voltage \in 0 .. 84
    BY <1>1, <1>4
  <2>2. Tenth(volt - ema_voltage) \in 0 .. (volt - ema_voltage)
    BY <1>2, <2>1
  <2> QED
    BY <1>1, <1>4, <2>2, Thresholds DEF Smoothed
<1>5. CASE ema_initialized /\ ~(volt >= ema_voltage)
  <2>1. ema_voltage - volt \in 0 .. 84
    BY <1>1, <1>5
  <2>2. Tenth(ema_voltage - volt) \in 0 .. (ema_voltage - volt)
    BY <1>2, <2>1
  <2> QED
    BY <1>1, <1>5, <2>2, Thresholds DEF Smoothed
<1> QED
  BY <1>3, <1>4, <1>5

-----------------------------------------------------------------------------
(* Type correctness *)

\* The calls that process_serial() may make keep the types.
LEMMA SerialKeepsTypes ==
    ASSUME TypeOK, process_serial
    PROVE  TypeOK'
<1>1. Smoothed \in 0 .. V_MAX /\ 0 \in 0 .. V_MAX
  BY SmoothedInRange, Thresholds
<1>2. CASE NoCommand
  BY <1>2 DEF TypeOK, NoCommand, Served, testerVars, worldVars
<1>3. CASE NewCell
  BY <1>1, <1>3 DEF TypeOK, NewCell, States, reset_ema, worldVars
<1>4. CASE DischargeRefused
  BY <1>1, <1>4 DEF TypeOK, DischargeRefused, Served, read_battery_voltage, worldVars
<1>5. CASE StartDischarge
  BY <1>1, <1>5 DEF TypeOK, StartDischarge, States, read_battery_voltage, worldVars
<1>6. CASE StopDischarge
  BY <1>6 DEF TypeOK, StopDischarge, Served, States, worldVars
<1> QED
  BY <1>2, <1>3, <1>4, <1>5, <1>6 DEF process_serial

\* So do those of print_status().
LEMMA StatusKeepsTypes ==
    ASSUME TypeOK, NotYetShown \/ StatusDue
    PROVE  TypeOK'
<1>1. Smoothed \in 0 .. V_MAX /\ 0 \in 0 .. V_MAX /\ volt \in 0 .. V_MAX
  BY SmoothedInRange, Thresholds DEF TypeOK
<1>2. CASE NotYetShown
  BY <1>2 DEF TypeOK, NotYetShown, Shown, testerVars, worldVars
<1>3. CASE OnlyMeasured
  BY <1>1, <1>3 DEF TypeOK, OnlyMeasured, Shown, read_battery_voltage, worldVars
<1>4. CASE CellDetected
  BY <1>1, <1>4 DEF TypeOK, CellDetected, Shown, States, read_battery_voltage, worldVars
<1>5. CASE CellGone
  BY <1>1, <1>5 DEF TypeOK, CellGone, Shown, States, reset_ema, worldVars
<1>6. CASE OcvSettling
  BY <1>1, <1>6 DEF TypeOK, OcvSettling, Shown, read_battery_voltage, worldVars
<1>7. CASE OcvSettled
  BY <1>1, <1>7 DEF TypeOK, OcvSettled, States, worldVars
<1>8. CASE Monitored
  <2>1. /\ Shown
        /\ read_battery_voltage
        /\ last_known_voltage' = volt
        /\ charge_complete_seen' \in BOOLEAN
        /\ charging' \in BOOLEAN
        /\ UNCHANGED <<state, results_printed>>
    BY <1>8 DEF Monitored, auto_enable, TypeOK
  <2> QED
    BY <1>1, <2>1 DEF TypeOK, Shown, read_battery_voltage, worldVars
<1> QED
  BY <1>2, <1>3, <1>4, <1>5, <1>6, <1>7, <1>8 DEF StatusDue

\* So do those of discharge_tick() and print_results(), and the cell and the cable.
LEMMA RestKeepsTypes ==
    ASSUME TypeOK, NoSampleDue \/ SampleDue \/ print_results \/ World
    PROVE  TypeOK'
<1>1. Smoothed \in 0 .. V_MAX /\ 0 \in 0 .. V_MAX
  BY SmoothedInRange, Thresholds
<1>2. CASE NoSampleDue
  BY <1>2 DEF TypeOK, NoSampleDue, Ticked, testerVars, worldVars
<1>3. CASE Sampled
  BY <1>1, <1>3 DEF TypeOK, Sampled, Ticked, read_battery_voltage, worldVars
<1>4. CASE CutoffReached
  BY <1>1, <1>4 DEF TypeOK, CutoffReached, Ticked, States, read_battery_voltage, worldVars
<1>5. CASE TestAborted
  BY <1>1, <1>5 DEF TypeOK, TestAborted, Ticked, States, reset_ema, worldVars
<1>6. CASE print_results
  BY <1>6 DEF TypeOK, print_results, worldVars
<1>7. CASE CellInserted \/ CellRemoved \/ UsbSwitched
  BY <1>7 DEF TypeOK, CellInserted, CellRemoved, UsbSwitched, testerVars
<1>8. CASE VoltageFalls \/ VoltageRises
  BY <1>8 DEF TypeOK, VoltageFalls, VoltageRises, NextLower, NextHigher, testerVars
<1> QED
  BY <1>2, <1>3, <1>4, <1>5, <1>6, <1>7, <1>8 DEF SampleDue, World

\* Every variable keeps its type: the smoothed and the last known voltage never
\* leave the range of a cell, whatever the cell and the operator do.
THEOREM TesterTypeCorrectness == Spec => []TypeOK
<1>1. Init => TypeOK
  BY Thresholds DEF Init, TypeOK, States
<1>2. TypeOK /\ [Next]_vars => TypeOK'
  <2> SUFFICES ASSUME TypeOK, [Next]_vars
               PROVE  TypeOK'
    OBVIOUS
  <2>1. CASE process_serial
    BY <2>1, SerialKeepsTypes
  <2>2. CASE NotYetShown \/ StatusDue
    BY <2>2, StatusKeepsTypes
  <2>3. CASE NoSampleDue \/ SampleDue \/ print_results \/ World
    BY <2>3, RestKeepsTypes
  <2>4. CASE UNCHANGED vars
    BY <2>4 DEF TypeOK, vars, testerVars, worldVars
  <2> QED
    BY <2>1, <2>2, <2>3, <2>4 DEF Next, loop
<1> QED
  BY <1>1, <1>2, PTL DEF Spec

-----------------------------------------------------------------------------
(* The charger *)

\* Both invariants speak of `state`, `charging` and `charge_complete_seen` only:
\* the steps that write none of the three keep them.
LEMMA QuietStepsKeepCharger ==
    ASSUME ChargerOffDuringTest, ChargerNotStuckOff,
           UNCHANGED <<state, charging, charge_complete_seen>>
    PROVE  ChargerOffDuringTest' /\ ChargerNotStuckOff'
BY DEF ChargerOffDuringTest, ChargerNotStuckOff

\* The charger is off during a test, and a monitored cell whose charging is disabled
\* is not taken for a full one.  The two are inductive together: Monitored cannot
\* see "complete" from a charger that is off.
LEMMA ChargerInvariants == Spec => [](ChargerOffDuringTest /\ ChargerNotStuckOff)
<1> DEFINE Inv == ChargerOffDuringTest /\ ChargerNotStuckOff
<1>1. Init => Inv
  BY DEF Init, ChargerOffDuringTest, ChargerNotStuckOff
<1>2. Inv /\ [Next]_vars => Inv'
  <2> SUFFICES ASSUME Inv, [Next]_vars
               PROVE  Inv'
    OBVIOUS
  <2>1. CASE UNCHANGED <<state, charging, charge_complete_seen>>
    BY <2>1, QuietStepsKeepCharger
  <2>2. CASE NewCell
    BY <2>2 DEF NewCell, ChargerOffDuringTest, ChargerNotStuckOff
  <2>3. CASE StartDischarge
    BY <2>3 DEF StartDischarge, ChargerOffDuringTest, ChargerNotStuckOff
  <2>4. CASE StopDischarge
    BY <2>4 DEF StopDischarge, ChargerOffDuringTest, ChargerNotStuckOff
  <2>5. CASE CellDetected
    BY <2>5 DEF CellDetected, ChargerOffDuringTest, ChargerNotStuckOff
  <2>6. CASE CellGone
    BY <2>6 DEF CellGone, ChargerOffDuringTest, ChargerNotStuckOff
  <2>7. CASE OcvSettled
    BY <2>7 DEF OcvSettled, ChargerOffDuringTest, ChargerNotStuckOff
  <2>8. CASE Monitored
    <3>1. /\ state = "MONITORING"
          /\ state' = "MONITORING"
      BY <2>8 DEF Monitored
    <3>2. ASSUME ~charging'
          PROVE  ~charge_complete_seen'
      <4>1. PICK status \in ChargerStatus :
               /\ charge_complete_seen' =
                    (status = "complete" \/ (charge_complete_seen /\ Smoothed >= V_RECHARGE))
               /\ charging' = auto_enable(status, charge_complete_seen')
        BY <2>8 DEF Monitored
      <4>2. ~charging
        BY <3>2, <4>1 DEF auto_enable
      <4>3. ~charge_complete_seen
        BY <3>1, <4>2 DEF ChargerNotStuckOff
      <4>4. status = "idle"
        BY <4>2 DEF ChargerStatus
      <4> QED
        BY <4>1, <4>3, <4>4
    <3> QED
      BY <3>1, <3>2 DEF ChargerOffDuringTest, ChargerNotStuckOff
  <2>9. CASE CutoffReached
    BY <2>9 DEF CutoffReached, ChargerOffDuringTest, ChargerNotStuckOff
  <2>10. CASE TestAborted
    BY <2>10 DEF TestAborted, ChargerOffDuringTest, ChargerNotStuckOff
  <2>11. CASE NoCommand \/ NotYetShown \/ NoSampleDue \/ UNCHANGED vars
    BY <2>11, <2>1 DEF NoCommand, NotYetShown, NoSampleDue, vars, testerVars
  <2>12. CASE DischargeRefused \/ OnlyMeasured \/ OcvSettling \/ Sampled \/ print_results
    BY <2>12, <2>1 DEF DischargeRefused, OnlyMeasured, OcvSettling, Sampled, print_results
  <2>13. CASE World
    BY <2>13, <2>1 DEF World, CellInserted, CellRemoved, VoltageFalls, VoltageRises,
                       UsbSwitched, testerVars
  <2> QED
    BY <2>2, <2>3, <2>4, <2>5, <2>6, <2>7, <2>8, <2>9, <2>10, <2>11, <2>12, <2>13
       DEF Next, loop, process_serial, StatusDue, SampleDue
<1> QED
  BY <1>1, <1>2, PTL DEF Spec

\* bq_set_charging() and the test: nothing charges a cell that is being discharged
\* through the load, whatever commands and cells come and go.
THEOREM NoChargeDuringTest == Spec => []ChargerOffDuringTest
BY ChargerInvariants, PTL

\* The status report: a monitored cell whose charger is off is not held for a full one, so
\* the next status of the charger can switch it on again.
THEOREM ChargerIsNotStuckOff == Spec => []ChargerNotStuckOff
BY ChargerInvariants, PTL
\* One report later: with the cable there, the next status of a monitored cell that is
\* not charged switches the charger on, or finds the cell gone.
THEOREM OneStatusBringsChargerBack ==
    Spec => [][state = "MONITORING" /\ usb /\ ~charging /\ StatusDue
               => charging' \/ state' # "MONITORING"]_vars
<1>1. ASSUME ChargerNotStuckOff, state = "MONITORING", usb, ~charging, StatusDue
      PROVE  charging' \/ state' # "MONITORING"
  <2>1. CASE Monitored
    <3>1. PICK status \in ChargerStatus :
             /\ charge_complete_seen' =
                  (status = "complete" \/ (charge_complete_seen /\ Smoothed >= V_RECHARGE))
             /\ charging' = auto_enable(status, charge_complete_seen')
      BY <2>1 DEF Monitored
    <3>2. status = "idle" /\ ~charge_complete_seen
      BY <1>1 DEF ChargerStatus, ChargerNotStuckOff
    <3> QED BY <1>1, <3>1, <3>2 DEF auto_enable
  <2>2. CASE CellGone
    BY <2>2 DEF CellGone
  <2> QED
    BY <1>1, <2>1, <2>2
       DEF StatusDue, OnlyMeasured, CellDetected, OcvSettling, OcvSettled
<1> QED
  BY <1>1, ChargerInvariants, PTL

-----------------------------------------------------------------------------
(* A cell that is gone *)

Noticed == {"IDLE", "TEST_COMPLETE"}

\* How far the tester is from noticing that the cell is gone: with nothing at the
\* terminals the smoothed voltage has this many units left to fall at most.
Distance == IF state \in Noticed THEN 0 ELSE ema_voltage + 1

\* Without a first reading there is no smoothed voltage, and a test has one.
Restarted ==
    /\ ~ema_initialized => ema_voltage = 0
    /\ state = "DISCHARGE_TEST" => ema_initialized

LEMMA RestartedInv == Spec => [](TypeOK /\ Restarted)
<1>1. Init => Restarted
  BY DEF Init, Restarted
<1>2. Restarted /\ [Next]_vars => Restarted'
  <2> SUFFICES ASSUME Restarted, [Next]_vars PROVE Restarted'
    OBVIOUS
  <2>1. CASE NoCommand \/ NotYetShown \/ NoSampleDue \/ UNCHANGED vars
    BY <2>1 DEF Restarted, NoCommand, NotYetShown, NoSampleDue, vars, testerVars
  <2>2. CASE NewCell \/ CellGone \/ TestAborted
    BY <2>2 DEF Restarted, NewCell, CellGone, TestAborted, reset_ema
  <2>3. CASE DischargeRefused \/ StartDischarge \/ OnlyMeasured \/ CellDetected \/ OcvSettling
             \/ Monitored \/ Sampled \/ CutoffReached
    BY <2>3 DEF Restarted, DischargeRefused, StartDischarge, OnlyMeasured, CellDetected,
                OcvSettling, Monitored, Sampled, CutoffReached, read_battery_voltage
  <2>4. CASE StopDischarge \/ OcvSettled \/ print_results
    BY <2>4 DEF Restarted, StopDischarge, OcvSettled, print_results
  <2>5. CASE World
    BY <2>5 DEF Restarted, World, CellInserted, CellRemoved, VoltageFalls, VoltageRises,
                UsbSwitched, testerVars
  <2> QED
    BY <2>1, <2>2, <2>3, <2>4, <2>5
       DEF Next, loop, process_serial, StatusDue, SampleDue
<1> QED
  BY <1>1, <1>2, TesterTypeCorrectness, PTL DEF Spec

\* With nothing at the terminals the smoothed voltage falls, until it is zero.
LEMMA SmoothedFalls ==
    ASSUME TypeOK, Restarted, volt = 0
    PROVE  /\ Smoothed \in 0 .. ema_voltage
           /\ Smoothed < ema_voltage \/ Smoothed = 0
<1>1. ema_voltage \in 0 .. 84
  BY Thresholds DEF TypeOK
<1>2. \A d \in 1 .. 84 : Tenth(d) \in 1 .. d
  BY DEF Tenth
<1>3. CASE ~ema_initialized
  BY <1>1, <1>3 DEF Smoothed, Restarted
<1>4. CASE ema_initialized /\ ema_voltage = 0
  BY <1>4 DEF Smoothed, Tenth
<1>5. CASE ema_initialized /\ ema_voltage # 0
  <2>1. Smoothed = ema_voltage - Tenth(ema_voltage)
    BY <1>1, <1>5 DEF Smoothed
  <2>2. ema_voltage \in 1 .. 84
    BY <1>1, <1>5
  <2>3. Tenth(ema_voltage) \in 1 .. ema_voltage
    BY <1>2, <2>2
  <2> QED BY <2>1, <2>2, <2>3
<1> QED BY <1>3, <1>4, <1>5

\* The removal of a cell is noticed after a bounded number of reports and samples
\* (cell_removed(), read_battery_voltage(), discharge_tick()): while the cell stays out,
\* no step takes the tester further from noticing it, each sample of a test brings it
\* closer, and elsewhere the next report notices it.
THEOREM RemovalComesCloser ==
    Spec => [][volt = 0 /\ volt' = 0 /\ state \notin Noticed
               => /\ Distance \in 1 .. V_MAX + 1
                  /\ Distance' \in 0 .. Distance
                  /\ SampleDue => Distance' < Distance
                  /\ StatusDue /\ state # "DISCHARGE_TEST" => Distance' = 0]_vars
<1>1. ASSUME TypeOK, Restarted, [Next]_vars, volt = 0, volt' = 0, state \notin Noticed
      PROVE  /\ Distance \in 1 .. V_MAX + 1
             /\ Distance' \in 0 .. Distance
             /\ SampleDue => Distance' < Distance
             /\ StatusDue /\ state # "DISCHARGE_TEST" => Distance' = 0
  <2>1. ema_voltage \in 0 .. 84 /\ Distance = ema_voltage + 1
    BY <1>1, Thresholds DEF TypeOK, Distance
  <2>2. /\ Smoothed \in 0 .. ema_voltage
        /\ Smoothed < ema_voltage \/ Smoothed = 0
    BY <1>1, SmoothedFalls
  <2>3. cell_removed(volt) /\ (~cell_removed(Smoothed) => Smoothed # 0)
    BY <1>1, Thresholds DEF cell_removed
  <2>4. Distance \in 1 .. V_MAX + 1
    BY <2>1, Thresholds
  <2>5. ASSUME state' \in Noticed \/ ema_voltage' \in 0 .. ema_voltage
        PROVE  Distance' \in 0 .. Distance
    BY <2>1, <2>5 DEF Distance
  <2>6. Distance' \in 0 .. Distance
    <3>1. CASE NoCommand \/ NotYetShown \/ NoSampleDue \/ StopDischarge \/ print_results \/ World
               \/ UNCHANGED vars
      <4>1. ema_voltage' = ema_voltage
        BY <3>1
           DEF NoCommand, NotYetShown, NoSampleDue, StopDischarge, print_results, World,
               CellInserted, CellRemoved, VoltageFalls, VoltageRises, UsbSwitched, vars, testerVars
      <4> QED BY <2>1, <2>5, <4>1
    <3>2. CASE DischargeRefused \/ StartDischarge \/ OnlyMeasured \/ Monitored \/ OcvSettling
               \/ Sampled \/ CutoffReached
      <4>1. ema_voltage' = Smoothed
        BY <3>2
           DEF DischargeRefused, StartDischarge, OnlyMeasured, Monitored, OcvSettling, Sampled,
               CutoffReached, read_battery_voltage
      <4> QED BY <2>2, <2>5, <4>1
    <3>3. CASE NewCell \/ CellGone \/ TestAborted
      <4>1. state' \in Noticed
        BY <3>3 DEF NewCell, CellGone, TestAborted, Noticed
      <4> QED BY <2>5, <4>1
    <3>4. ~CellDetected /\ ~OcvSettled
      BY <1>1, <2>3 DEF CellDetected, OcvSettled, Noticed
    <3> QED
      BY <1>1, <3>1, <3>2, <3>3, <3>4 DEF Next, loop, process_serial, StatusDue, SampleDue
  <2>7. ASSUME SampleDue PROVE Distance' < Distance
    <3>1. CASE Sampled
      <4>1. Smoothed < ema_voltage /\ ema_voltage' = Smoothed /\ Smoothed \in 0 .. ema_voltage
        BY <2>1, <2>2, <2>3, <3>1 DEF Sampled, read_battery_voltage
      <4> QED BY <2>1, <4>1 DEF Distance
    <3>2. CASE CutoffReached \/ TestAborted
      <4>1. state' \in Noticed
        BY <3>2 DEF CutoffReached, TestAborted, Noticed
      <4> QED BY <2>1, <4>1 DEF Distance
    <3> QED BY <2>7, <3>1, <3>2 DEF SampleDue
  <2>8. ASSUME StatusDue, state # "DISCHARGE_TEST" PROVE Distance' = 0
    <3>1. CellGone
      BY <1>1, <2>3, <2>8
         DEF StatusDue, Noticed, OnlyMeasured, CellDetected, OcvSettling, OcvSettled, Monitored
    <3> QED BY <3>1 DEF CellGone, Distance, Noticed
  <2> QED
    BY <2>4, <2>6, <2>7, <2>8
<1> QED
  BY <1>1, RestartedInv, PTL DEF Spec
=============================================================================
