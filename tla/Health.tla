------------------------------- MODULE Health -------------------------------
(***************************************************************************)
(* The health model: diag_evaluate() of diagnostics.cpp on a snapshot of   *)
(* the node, and the table of docs/diagnostics.md it implements.           *)
(***************************************************************************)
EXTENDS Integers

\* ResetCause of platform_diag.h.
POWER_ON == 1
EXTERNAL == 2
SOFTWARE == 3
DEEP_SLEEP == 4
BROWNOUT == 5
PANIC == 6
WATCHDOG == 7

RSSI_WEAK == -80
RSSI_FAIR == -70
HEAP_LOW == 20000

OK == 0
INFO == 1
WARNING == 2
ERROR == 3

\* battery is "none" without HAS_BATTERY, else what the charge is compared with.
DiagData == [reset_cause : 0 .. 7, battery : {"none", "fine", "low", "critical"},
             miss : Nat, rssi : Int, heap : Nat]

Messages == {"none", "ok", "booted", "fair_signal", "low_battery", "missed_wakes", "weak_signal",
             "low_memory", "critical_battery", "reset_brownout", "reset_panic", "reset_wdt"}

Verdicts == [level : 0 .. 3, message : Messages]

Verdict(level, message) == [level |-> level, message |-> message]

\* The warnings of the ladder, below its errors.  A critical battery is low, too.
Warnings(d) ==
    IF d.battery \in {"low", "critical"} THEN Verdict(WARNING, "low_battery")
    ELSE IF d.miss > 0 THEN Verdict(WARNING, "missed_wakes")
    ELSE IF d.rssi # 0 /\ d.rssi < RSSI_WEAK THEN Verdict(WARNING, "weak_signal")
    ELSE IF d.heap # 0 /\ d.heap < HEAP_LOW THEN Verdict(WARNING, "low_memory")
    ELSE Verdict(OK, "none")

Infos(d) ==
    IF d.reset_cause \in {POWER_ON, EXTERNAL, SOFTWARE} THEN Verdict(INFO, "booted")
    ELSE IF d.rssi # 0 /\ d.rssi < RSSI_FAIR THEN Verdict(INFO, "fair_signal")
    ELSE Verdict(OK, "ok")

\* Mutant: the signal is looked at before the memory, at the wrong level.
FairBeforeWarnings(d) ==
    IF d.reset_cause = BROWNOUT THEN Verdict(ERROR, "reset_brownout")
    ELSE IF d.reset_cause = PANIC THEN Verdict(ERROR, "reset_panic")
    ELSE IF d.reset_cause = WATCHDOG THEN Verdict(ERROR, "reset_wdt")
    ELSE IF d.battery = "critical" THEN Verdict(ERROR, "critical_battery")
    ELSE IF Infos(d).level = INFO THEN Infos(d)
    ELSE IF Warnings(d).level = WARNING THEN Warnings(d)
    ELSE Infos(d)

diag_evaluate(d) ==
    IF d.reset_cause = BROWNOUT THEN Verdict(ERROR, "reset_brownout")
    ELSE IF d.reset_cause = PANIC THEN Verdict(ERROR, "reset_panic")
    ELSE IF d.reset_cause = WATCHDOG THEN Verdict(ERROR, "reset_wdt")
    ELSE IF d.battery = "critical" THEN Verdict(ERROR, "critical_battery")
    ELSE IF Warnings(d).level = WARNING THEN Warnings(d)
    ELSE Infos(d)

-----------------------------------------------------------------------------
(* The table of docs/diagnostics.md, and the message each condition has.  A *)
(* software reset is an info in the code only.                              *)

When(holds, level, message) == IF holds THEN {Verdict(level, message)} ELSE {}

Errors(d) ==
    When(d.reset_cause = BROWNOUT, ERROR, "reset_brownout")
    \cup When(d.reset_cause = PANIC, ERROR, "reset_panic")
    \cup When(d.reset_cause = WATCHDOG, ERROR, "reset_wdt")
    \cup When(d.battery = "critical", ERROR, "critical_battery")

Cautions(d) ==
    When(d.battery = "low", WARNING, "low_battery")
    \cup When(d.miss > 0, WARNING, "missed_wakes")
    \cup When(d.rssi < -80, WARNING, "weak_signal")
    \cup When(0 < d.heap /\ d.heap < 20000, WARNING, "low_memory")

Notices(d) ==
    When(d.reset_cause \in 1 .. 3, INFO, "booted")
    \cup When(d.rssi < -70, INFO, "fair_signal")

Conditions(d) == Errors(d) \cup Cautions(d) \cup Notices(d) \cup {Verdict(OK, "ok")}

\* The verdict on d is the worst of its conditions.
IsWorst(d, verdict) ==
    /\ verdict \in Conditions(d)
    /\ \A c \in Conditions(d) : c.level <= verdict.level
=============================================================================
