----------------------------- MODULE MC_Reports -----------------------------
(***************************************************************************)
(* The instance of Reports for TLC: the seven builds of platformio.ini     *)
(* that differ in what they register, and snapshots on both sides of every *)
(* threshold.                                                              *)
(***************************************************************************)
EXTENDS Reports

Shipped ==
    { {"HAS_BME280", "HAS_OTA"},
      {"HAS_BME280", "HAS_BATTERY", "HAS_DEEP_SLEEP", "HAS_CALIBRATION", "HAS_OTA"},
      {"HAS_SHT30", "HAS_BATTERY", "HAS_DEEP_SLEEP", "HAS_CALIBRATION", "HAS_OTA"},
      {"HAS_SHT30", "HAS_DISPLAY", "HAS_CALIBRATION", "HAS_OTA"},
      {"HAS_MKR_ENV", "HAS_BATTERY", "HAS_CALIBRATION", "SAMD"},
      {"HAS_BME280", "HAS_BH1750", "HAS_BATTERY", "HAS_DEEP_SLEEP", "HAS_CALIBRATION",
       "HAS_OTA"},
      {"HAS_DEEP_SLEEP"} }

SomeSnapshots ==
    [reset_cause : {1, 4, 5}, battery : {"none", "fine", "low", "critical"},
     miss : {0, 1}, rssi : {0, -80, -81}, heap : {0, 19999}]

\* The theorems about what a node announces and sends are about instances like this one.
ASSUME LikeTheBuilds ==
    /\ \A flags \in Shipped : OneSensor(flags) /\ OneLight(flags)
    /\ RoomForAll
    /\ CountersFit
=============================================================================
