------------------------------ MODULE Registry ------------------------------
(***************************************************************************)
(* What a build announces: module_registry.cpp and the register functions  *)
(* of its modules.  A build is the set of its flags.  A metric is a name   *)
(* with the bytes of its unit, a command a name with its parameters, each  *)
(* a name with its type.                                                   *)
(***************************************************************************)
EXTENDS Naturals, Sequences

CONSTANTS
    MAX_METRICS,        \* 12 in the code
    MAX_COMMANDS        \* 8 in the code

ASSUME RegistryAssumption == MAX_METRICS \in Nat /\ MAX_COMMANDS \in Nat

Flags == {"HAS_BME280", "HAS_SHT30", "HAS_MKR_ENV", "HAS_BATTERY", "HAS_BH1750",
          "HAS_CALIBRATION", "HAS_OTA", "HAS_DEEP_SLEEP", "HAS_DISPLAY", "SAMD"}

Metric(name, unit) == [name |-> name, unit |-> unit]
Command(name, params) == [name |-> name, params |-> params]

Value == <<"value", "number">>

\* xxx_module_register(): what each module adds, in the order of register_modules().
core_register == [metrics |-> << Metric("rssi", 3) >>,
                  commands |-> << Command("set_interval", <<Value>>) >>]

\* Mutant: a module that publishes a field it does not announce.
Bme280WithoutPressure ==
    [metrics |-> << Metric("temp", 3), Metric("humi", 1) >>, commands |-> << >>]

bme280_module_register ==
    [metrics |-> << Metric("temp", 3), Metric("humi", 1), Metric("press", 3) >>,
     commands |-> << >>]

sht30_module_register ==
    [metrics |-> << Metric("temp", 3), Metric("humi", 1) >>, commands |-> << >>]

mkr_env_module_register ==
    [metrics |-> << Metric("temp", 3), Metric("humi", 1), Metric("press", 3),
                    Metric("lux", 3), Metric("uv", 0) >>,
     commands |-> << >>]

battery_module_register ==
    [metrics |-> << Metric("bat", 1), Metric("batv", 1) >>,
     commands |-> << Command("calibrate_battery", <<Value>>) >>]

bh1750_module_register == [metrics |-> << Metric("lux", 2) >>, commands |-> << >>]

calibration_module_register ==
    [metrics |-> << >>,
     commands |-> << Command("set_offset", << <<"metric", "string">>, Value >>),
                     Command("set_calibration", << <<"key", "string">>, Value >>),
                     Command("request_calibration", << >>) >>]

\* add_metric() and add_command(): a full registry refuses, and no caller looks at the
\* result; the first ones of the list have found room.
Kept(list, room) == SubSeq(list, 1, IF Len(list) < room THEN Len(list) ELSE room)

\* #ifdef
With(flags, flag, list) == IF flag \in flags THEN list ELSE << >>

AddedMetrics(flags) ==
    core_register.metrics
    \o With(flags, "HAS_BME280", bme280_module_register.metrics)
    \o With(flags, "HAS_SHT30", sht30_module_register.metrics)
    \o With(flags, "HAS_MKR_ENV", mkr_env_module_register.metrics)
    \o With(flags, "HAS_BATTERY", battery_module_register.metrics)
    \o With(flags, "HAS_BH1750", bh1750_module_register.metrics)

AddedCommands(flags) ==
    core_register.commands
    \o With(flags, "HAS_BATTERY", battery_module_register.commands)
    \o With(flags, "HAS_CALIBRATION", calibration_module_register.commands)

register_modules(flags) ==
    [metrics |-> Kept(AddedMetrics(flags), MAX_METRICS),
     commands |-> Kept(AddedCommands(flags), MAX_COMMANDS)]

Announced(flags) == LET m == register_modules(flags).metrics IN { m[i].name : i \in DOMAIN m }
=============================================================================
