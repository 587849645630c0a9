---------------------------- MODULE Calibration ----------------------------
(***************************************************************************)
(* Identity and calibration of a node: the config store (RAM entries and   *)
(* the blob in flash, persistent_config_store.h), the values in use in the *)
(* calibration and battery modules, the commands that change them, and the *)
(* boot that restores them (main.cpp).                                     *)
(*                                                                         *)
(* The node is single-threaded, and a power loss inside a handler leaves   *)
(* either the old or the new blob, as a loss just before or after it       *)
(* would.  Ratios are in hundredths.  The %.7g of the blob is exact for    *)
(* them.  Every commit() of the program follows a set, so the dirty flag   *)
(* never skips one and is left out.                                        *)
(***************************************************************************)
EXTENDS Integers

CONSTANTS
    DeviceIds,
    None,
    Seed,               \* DEVICE_ID of a development build, or None
    Nominal,            \* BATTERY_DIVIDER_RATIO
    Offsets,            \* what set_offset may ask for
    Ratios,             \* what set_calibration may ask for
    MeasuredRatios,     \* what calibrate_battery may compute
    StaleRatios         \* what an older firmware may have left in the store

BAT_DIVIDER_MIN == 50
BAT_DIVIDER_MAX == 600

ASSUME CalibrationAssumption ==
    /\ Nominal \in BAT_DIVIDER_MIN .. BAT_DIVIDER_MAX
    /\ Seed \in DeviceIds \cup {None}
    /\ None \notin DeviceIds \cup Int
    /\ Offsets \subseteq Int
    /\ Ratios \cup MeasuredRatios \cup StaleRatios \subseteq Int

VARIABLES
    mode,           \* "off", "provisioning" or "running"
    entries,        \* the config store in RAM
    blob,           \* the same in flash
    offset,         \* offsets of the calibration module
    bat_divider,    \* the ratio that module reports, 0 = unset
    divider_ratio,  \* the ratio in use by battery.cpp
    healthy         \* the flash storage can be read and written

vars == <<mode, entries, blob, offset, bat_divider, divider_ratio, healthy>>

Metrics == {"temp", "humi", "press"}

\* cal[m] stands for the keys cal_temp, cal_humi and cal_press.
Store(id, cal, ratio) == [device_id |-> id, cal |-> cal, bat_divider |-> ratio]

EmptyStore == Store(None, [m \in Metrics |-> None], None)

\* set_str() and set_float() of one key, or of the three offsets.
SetDeviceId(e, id) == Store(id, e.cal, e.bat_divider)
SetCal(e, cal)     == Store(e.device_id, cal, e.bat_divider)
SetDivider(e, r)   == Store(e.device_id, e.cal, r)

OffsetRange  == -50 .. 50
MaybeId      == DeviceIds \cup {None}
MaybeOffset  == OffsetRange \cup {None}
MaybeDivider == Int \cup {None}

Stores ==
    [device_id : MaybeId, cal : [Metrics -> MaybeOffset], bat_divider : MaybeDivider]

Plausible(r) == r \in BAT_DIVIDER_MIN .. BAT_DIVIDER_MAX

\* An offset in use or stored is one that set_offset accepts.
TypeOK ==
    /\ mode \in {"off", "provisioning", "running"}
    /\ entries \in Stores
    /\ blob \in Stores
    /\ offset \in [Metrics -> OffsetRange]
    /\ bat_divider \in 0 .. 10000
    /\ divider_ratio \in Int
    /\ healthy \in BOOLEAN

\* The statics of the program at a reset.
RamDefaults ==
    /\ offset' = [m \in Metrics |-> 0]
    /\ bat_divider' = 0
    /\ divider_ratio' = Nominal

\* A fresh store, or one another firmware has written.
Init ==
    /\ mode = "off"
    /\ entries = EmptyStore
    /\ blob \in {EmptyStore} \cup
                {Store(id, EmptyStore.cal, r) : id \in DeviceIds, r \in StaleRatios}
    /\ offset = [m \in Metrics |-> 0]
    /\ bat_divider = 0
    /\ divider_ratio = Nominal
    /\ healthy = TRUE

-----------------------------------------------------------------------------
(* The store *)

begin == IF healthy THEN blob ELSE EmptyStore

\* commit() after a set: no caller looks at its result.
commit(e) == blob' = IF healthy THEN e ELSE blob

clear == commit(EmptyStore)

reboot_device ==
    /\ mode' = "off"
    /\ entries' = EmptyStore
    /\ RamDefaults

-----------------------------------------------------------------------------
(* setup() *)

\* The store a boot works with: what could be read and, in a development build, the
\* seed where there is no identity.
Seeded ==
    IF begin.device_id = None THEN SetDeviceId(begin, Seed) ELSE begin

OffsetsOf(e) == [m \in Metrics |-> IF e.cal[m] = None THEN 0 ELSE e.cal[m]]

\* Mutant: the restore takes what is stored.
StoredRatio(e) == IF e.bat_divider # None THEN e.bat_divider ELSE Nominal

RatioOf(e) ==
    IF e.bat_divider # None /\ Plausible(e.bat_divider) THEN e.bat_divider ELSE Nominal

Loaded ==
    /\ mode = "off"
    /\ entries' = Seeded
    /\ IF Seeded = begin THEN UNCHANGED blob ELSE commit(Seeded)
    /\ UNCHANGED healthy

BootUnprovisioned ==
    /\ Loaded
    /\ Seeded.device_id = None
    /\ mode' = "provisioning"
    /\ UNCHANGED <<offset, bat_divider, divider_ratio>>

\* The stored ratio is used, and reported, only when it is plausible.
BootProvisioned ==
    /\ Loaded
    /\ Seeded.device_id # None
    /\ mode' = "running"
    /\ offset' = OffsetsOf(Seeded)
    /\ divider_ratio' = RatioOf(Seeded)
    /\ bat_divider' =
          IF Seeded.bat_divider # None /\ Plausible(Seeded.bat_divider)
          THEN Seeded.bat_divider ELSE 0

\* handle_provision_line(): "provision <id>".
Provision ==
    /\ mode = "provisioning"
    /\ \E id \in DeviceIds : commit(SetDeviceId(entries, id))
    /\ reboot_device
    /\ UNCHANGED healthy

\* The serial command and the MQTT one.
FactoryReset ==
    /\ mode \in {"provisioning", "running"}
    /\ clear
    /\ reboot_device
    /\ UNCHANGED healthy

-----------------------------------------------------------------------------
(* The commands *)

Handled ==
    /\ mode = "running"
    /\ UNCHANGED <<mode, healthy>>

\* Mutant: the bounds of an offset are not checked.
AnyOffset ==
    /\ Handled
    /\ \E m \in Metrics, v \in Offsets : offset' = [offset EXCEPT ![m] = v]
    /\ entries' = SetCal(entries, offset')
    /\ commit(entries')
    /\ UNCHANGED <<bat_divider, divider_ratio>>

\* Mutant: the offsets are written as a store of their own.
OffsetsOnly ==
    /\ Handled
    /\ \E m \in Metrics, v \in Offsets \cap OffsetRange : offset' = [offset EXCEPT ![m] = v]
    /\ entries' = SetCal(EmptyStore, offset')
    /\ commit(entries')
    /\ UNCHANGED <<bat_divider, divider_ratio>>

\* All three offsets are written, the two unchanged ones too.
SetOffset ==
    /\ Handled
    /\ \E m \in Metrics, v \in Offsets \cap OffsetRange : offset' = [offset EXCEPT ![m] = v]
    /\ entries' = SetCal(entries, offset')
    /\ commit(entries')
    /\ UNCHANGED <<bat_divider, divider_ratio>>

\* Mutant: the ratio never reaches the flash.
UseWithoutCommit(r) ==
    /\ divider_ratio' = r
    /\ entries' = SetDivider(entries, r)
    /\ bat_divider' = r
    /\ UNCHANGED <<blob, offset>>

\* Mutant: the ratio is saved and reported, and used only after the next boot.
SaveWithoutUse(r) ==
    /\ entries' = SetDivider(entries, r)
    /\ commit(entries')
    /\ bat_divider' = r
    /\ UNCHANGED <<offset, divider_ratio>>

persist_bat_divider(r) ==
    /\ divider_ratio' = r
    /\ entries' = SetDivider(entries, r)
    /\ commit(entries')
    /\ bat_divider' = r
    /\ UNCHANGED offset

\* handle_set_calibration() takes any ratio up to 100 for the report, before
\* persist_bat_divider() looks at it.
SetCalibration ==
    /\ Handled
    /\ \E r \in Ratios \cap (1 .. 10000) :
          \/ Plausible(r) /\ persist_bat_divider(r)
          \/ /\ ~Plausible(r)
             /\ bat_divider' = r
             /\ UNCHANGED <<entries, blob, offset, divider_ratio>>

\* battery_calibrate() puts the new ratio in use before persist_bat_divider() looks
\* at it; with nothing at the ADC it returns the old one.
CalibrateBattery ==
    /\ Handled
    /\ \E r \in MeasuredRatios \cup {divider_ratio} :
          \/ Plausible(r) /\ persist_bat_divider(r)
          \/ /\ ~Plausible(r)
             /\ divider_ratio' = r
             /\ UNCHANGED <<entries, blob, offset, bat_divider>>

-----------------------------------------------------------------------------
(* The environment *)

\* Deep sleep, an update, a crash, a power loss.
Restart ==
    /\ mode # "off"
    /\ reboot_device
    /\ UNCHANGED <<blob, healthy>>

StorageFails ==
    /\ healthy' = ~healthy
    /\ UNCHANGED <<mode, entries, blob, offset, bat_divider, divider_ratio>>

-----------------------------------------------------------------------------

Next ==
    \/ BootUnprovisioned \/ BootProvisioned
    \/ Provision \/ FactoryReset
    \/ SetOffset \/ SetCalibration \/ CalibrateBattery
    \/ Restart \/ StorageFails

Spec == Init /\ [][Next]_vars

-----------------------------------------------------------------------------
(* Properties *)

CalibrationOf(e) == [offset |-> OffsetsOf(e), ratio |-> RatioOf(e)]

\* What the node uses; while it is off, what it would restart with.
InUse ==
    CASE mode = "running"      -> [offset |-> offset, ratio |-> divider_ratio]
      [] mode = "provisioning" -> CalibrationOf(entries)
      [] OTHER                 -> CalibrationOf(blob)

Promise == INSTANCE NodeCalibration WITH
    Ratios <- Ratios \cup MeasuredRatios,
    calibration <- InUse,
    saved <- CalibrationOf(blob)

\* docs/modules/calibration.md promises a calibration that commands change value by
\* value and that restarts keep whole; the store, its buffer in RAM and the restore
\* at boot implement it, also when the storage fails for a while.
CalibrationKept == Promise!Spec

\* Without an identity a store is empty, so that a node that has to be provisioned
\* has no calibration to lose; and while the node runs, what is in use is what its
\* store in RAM says: without that a command, which writes all of the store, would
\* save something else than what is used (main.cpp:280-307, 837-871).  The identity
\* in RAM is the one in flash unless a seed was used because the flash could not be read.
StoreInv ==
    /\ blob.device_id = None => blob = EmptyStore
    /\ mode = "provisioning" => entries = EmptyStore
    /\ mode = "running" =>
          /\ entries.device_id # None
          /\ Seed = None => blob.device_id = entries.device_id
          /\ offset = OffsetsOf(entries)
          /\ divider_ratio = RatioOf(entries)

\* No command of the server but a factory reset takes away the identity in flash, or
\* changes it: the node would be unreachable until someone comes with a cable.
IdentityKept ==
    [][mode = "running" /\ blob'.device_id # blob.device_id => blob' = EmptyStore]_vars

\* "rejected so it can never wreck the reading. Guards BOTH the boot restore and the
\* runtime set paths" (main.cpp:270-273): the ratio in use is plausible, whatever the
\* store holds and whatever set_calibration carries, as long as calibrate_battery
\* measures on a sound battery input.
RatioPlausible == Plausible(divider_ratio)
=============================================================================
