------------------------- MODULE Calibration_proofs -------------------------
(***************************************************************************)
(* Proofs about Calibration: type correctness, and that the config store,  *)
(* its buffer in RAM and the restore at boot implement NodeCalibration     *)
(* when the battery input measures plausible ratios.                       *)
(***************************************************************************)
EXTENDS Calibration, TLAPS

\* What battery_calibrate() computes is plausible: the input is not open.
SoundInput == MeasuredRatios \subseteq BAT_DIVIDER_MIN .. BAT_DIVIDER_MAX

\* The types with None in them.
LEMMA NonesType ==
    /\ None \in MaybeId /\ None \in MaybeOffset /\ None \in MaybeDivider
    /\ DeviceIds \subseteq MaybeId
    /\ OffsetRange \subseteq MaybeOffset
    /\ Int \subseteq MaybeDivider
    /\ \A x \in MaybeOffset : x # None => x \in OffsetRange
BY DEF MaybeId, MaybeOffset, MaybeDivider

\* What a store is made of has the type it had.
LEMMA StoreType ==
    ASSUME NEW id \in MaybeId,
           NEW cal \in [Metrics -> MaybeOffset],
           NEW ratio \in MaybeDivider
    PROVE  /\ Store(id, cal, ratio) \in Stores
           /\ Store(id, cal, ratio).device_id = id
           /\ Store(id, cal, ratio).cal = cal
           /\ Store(id, cal, ratio).bat_divider = ratio
BY DEF Store, Stores

LEMMA StorePartsType ==
    ASSUME NEW e \in Stores
    PROVE  /\ e.device_id \in MaybeId
           /\ e.cal \in [Metrics -> MaybeOffset]
           /\ e.bat_divider \in MaybeDivider
BY DEF Stores

LEMMA EmptyStoreType ==
    /\ EmptyStore \in Stores
    /\ EmptyStore.device_id = None
    /\ EmptyStore.cal = [m \in Metrics |-> None]
    /\ EmptyStore.bat_divider = None
<1>1. [m \in Metrics |-> None] \in [Metrics -> MaybeOffset]
  BY NonesType
<1> QED
  BY <1>1, NonesType, StoreType DEF EmptyStore

\* What a set leaves alone and what it changes.
LEMMA SetDeviceIdType ==
    ASSUME NEW e \in Stores, NEW id \in MaybeId
    PROVE  /\ SetDeviceId(e, id) \in Stores
           /\ SetDeviceId(e, id).device_id = id
           /\ SetDeviceId(e, id).cal = e.cal
           /\ SetDeviceId(e, id).bat_divider = e.bat_divider
BY StorePartsType, StoreType DEF SetDeviceId

LEMMA SetCalType ==
    ASSUME NEW e \in Stores, NEW cal \in [Metrics -> OffsetRange]
    PROVE  /\ SetCal(e, cal) \in Stores
           /\ SetCal(e, cal).device_id = e.device_id
           /\ SetCal(e, cal).cal = cal
           /\ SetCal(e, cal).bat_divider = e.bat_divider
<1>1. cal \in [Metrics -> MaybeOffset]
  BY NonesType
<1> QED
  BY <1>1, StorePartsType, StoreType DEF SetCal

LEMMA SetDividerType ==
    ASSUME NEW e \in Stores, NEW r \in Int
    PROVE  /\ SetDivider(e, r) \in Stores
           /\ SetDivider(e, r).device_id = e.device_id
           /\ SetDivider(e, r).cal = e.cal
           /\ SetDivider(e, r).bat_divider = r
<1>1. r \in MaybeDivider
  BY NonesType
<1> QED
  BY <1>1, StorePartsType, StoreType DEF SetDivider

LEMMA BeginType == ASSUME TypeOK PROVE begin \in Stores /\ Seeded \in Stores
<1>1. begin \in Stores
  BY EmptyStoreType DEF TypeOK, begin
<1>2. SetDeviceId(begin, Seed) \in Stores
  BY <1>1, SetDeviceIdType, CalibrationAssumption DEF MaybeId
<1> QED
  BY <1>1, <1>2 DEF Seeded

LEMMA OffsetsOfType ==
    ASSUME NEW e \in Stores
    PROVE  OffsetsOf(e) \in [Metrics -> OffsetRange]
<1>1. 0 \in OffsetRange
  BY DEF OffsetRange
<1> QED
  BY <1>1, StorePartsType, NonesType DEF OffsetsOf

LEMMA RatioOfType ==
    ASSUME NEW e \in Stores
    PROVE  RatioOf(e) \in BAT_DIVIDER_MIN .. BAT_DIVIDER_MAX
BY CalibrationAssumption DEF RatioOf, Plausible

LEMMA CommitType ==
    ASSUME NEW e \in Stores, blob \in Stores, commit(e)
    PROVE  blob' \in Stores
BY DEF commit

\* A reset leaves typed statics behind.
LEMMA DefaultsType ==
    /\ [m \in Metrics |-> 0] \in [Metrics -> OffsetRange]
    /\ 0 \in 0 .. 10000
    /\ Nominal \in Int
BY CalibrationAssumption DEF OffsetRange, BAT_DIVIDER_MIN, BAT_DIVIDER_MAX

LEMMA RebootType ==
    ASSUME reboot_device
    PROVE  /\ mode' = "off"
           /\ entries' \in Stores
           /\ offset' \in [Metrics -> OffsetRange]
           /\ bat_divider' \in 0 .. 10000
           /\ divider_ratio' \in Int
BY EmptyStoreType, DefaultsType DEF reboot_device, RamDefaults

LEMMA PersistType ==
    ASSUME TypeOK, NEW r \in BAT_DIVIDER_MIN .. BAT_DIVIDER_MAX, persist_bat_divider(r)
    PROVE  /\ entries' \in Stores
           /\ blob' \in Stores
           /\ offset' \in [Metrics -> OffsetRange]
           /\ bat_divider' \in 0 .. 10000
           /\ divider_ratio' \in Int
<1>1. entries' \in Stores
  BY SetDividerType DEF persist_bat_divider, TypeOK, BAT_DIVIDER_MIN, BAT_DIVIDER_MAX
<1> QED
  BY <1>1, CommitType
     DEF persist_bat_divider, TypeOK, BAT_DIVIDER_MIN, BAT_DIVIDER_MAX

\* Every variable keeps its type: in particular no offset in use or in flash leaves
\* the range a command may ask for.
THEOREM CalibrationTypeCorrectness == Spec => []TypeOK
<1>1. Init => TypeOK
  <2> SUFFICES ASSUME Init
               PROVE  TypeOK
    OBVIOUS
  <2>1. blob \in Stores
    <3>1. CASE blob = EmptyStore
      BY <3>1, EmptyStoreType
    <3>2. CASE blob # EmptyStore
      <4>1. PICK id \in DeviceIds, r \in StaleRatios :
               blob = Store(id, EmptyStore.cal, r)
        BY <3>2 DEF Init
      <4>2. id \in MaybeId /\ r \in MaybeDivider
        BY NonesType, CalibrationAssumption
      <4>3. EmptyStore.cal \in [Metrics -> MaybeOffset]
        BY EmptyStoreType, StorePartsType
      <4> QED
        BY <4>1, <4>2, <4>3, StoreType
    <3> QED
      BY <3>1, <3>2
  <2> QED
    BY <2>1, EmptyStoreType, DefaultsType DEF Init, TypeOK
<1>2. TypeOK /\ [Next]_vars => TypeOK'
  <2> SUFFICES ASSUME TypeOK, [Next]_vars
               PROVE  TypeOK'
    OBVIOUS
  <2>1. ASSUME Loaded
        PROVE  entries' \in Stores /\ blob' \in Stores /\ healthy' \in BOOLEAN
    BY <2>1, BeginType, CommitType DEF Loaded, TypeOK
  <2>2. CASE BootUnprovisioned
    BY <2>2, <2>1 DEF BootUnprovisioned, TypeOK
  <2>3. CASE BootProvisioned
    <3>1. offset' \in [Metrics -> OffsetRange] /\ divider_ratio' \in Int
      BY <2>3, BeginType, OffsetsOfType, RatioOfType
         DEF BootProvisioned, BAT_DIVIDER_MIN, BAT_DIVIDER_MAX
    <3>2. bat_divider' \in 0 .. 10000
      BY <2>3 DEF BootProvisioned, Plausible, BAT_DIVIDER_MIN, BAT_DIVIDER_MAX
    <3>3. mode' = "running" /\ Loaded
      BY <2>3 DEF BootProvisioned
    <3>4. entries' \in Stores /\ blob' \in Stores /\ healthy' \in BOOLEAN
      BY <2>1, <3>3
    <3> QED
      BY <3>1, <3>2, <3>3, <3>4 DEF TypeOK
  <2>4. CASE Provision
    <3>1. PICK id \in DeviceIds : commit(SetDeviceId(entries, id))
      BY <2>4 DEF Provision
    <3>2. SetDeviceId(entries, id) \in Stores
      BY SetDeviceIdType, NonesType DEF TypeOK
    <3> QED
      BY <2>4, <3>1, <3>2, CommitType, RebootType DEF Provision, TypeOK
  <2>5. CASE FactoryReset
    BY <2>5, EmptyStoreType, CommitType, RebootType DEF FactoryReset, clear, TypeOK
  <2>6. CASE SetOffset
    <3>1. offset' \in [Metrics -> OffsetRange]
      BY <2>6 DEF SetOffset, TypeOK
    <3>2. entries' \in Stores
      <4>1. entries \in Stores /\ entries' = SetCal(entries, offset')
        BY <2>6 DEF SetOffset, TypeOK
      <4> QED
        BY <4>1, <3>1, SetCalType
    <3>3. blob' \in Stores
      BY <2>6, <3>2 DEF SetOffset, commit, TypeOK
    <3>4. UNCHANGED <<mode, healthy, bat_divider, divider_ratio>>
      BY <2>6 DEF SetOffset, Handled
    <3> QED
      BY <3>1, <3>2, <3>3, <3>4 DEF TypeOK
  <2>7. CASE SetCalibration
    <3>1. PICK r \in Ratios \cap (1 .. 10000) :
             \/ Plausible(r) /\ persist_bat_divider(r)
             \/ /\ ~Plausible(r)
                /\ bat_divider' = r
                /\ UNCHANGED <<entries, blob, offset, divider_ratio>>
      BY <2>7 DEF SetCalibration
    <3>2. mode' = mode /\ healthy' = healthy
      BY <2>7 DEF SetCalibration, Handled
    <3>3. CASE Plausible(r) /\ persist_bat_divider(r)
      <4>1. r \in BAT_DIVIDER_MIN .. BAT_DIVIDER_MAX
        BY <3>3 DEF Plausible
      <4>2. /\ entries' \in Stores /\ blob' \in Stores /\ offset' \in [Metrics -> OffsetRange]
            /\ bat_divider' \in 0 .. 10000 /\ divider_ratio' \in Int
        BY <3>3, <4>1, PersistType
      <4> QED
        BY <3>2, <4>2 DEF TypeOK
    <3>4. CASE bat_divider' = r /\ UNCHANGED <<entries, blob, offset, divider_ratio>>
      <4>1. bat_divider' \in 0 .. 10000
        BY <3>4
      <4> QED
        BY <3>2, <3>4, <4>1 DEF TypeOK
    <3> QED
      BY <3>1, <3>3, <3>4
  <2>8. CASE CalibrateBattery
    <3>1. PICK r \in MeasuredRatios \cup {divider_ratio} :
             \/ Plausible(r) /\ persist_bat_divider(r)
             \/ /\ ~Plausible(r)
                /\ divider_ratio' = r
                /\ UNCHANGED <<entries, blob, offset, bat_divider>>
      BY <2>8 DEF CalibrateBattery
    <3>2. mode' = mode /\ healthy' = healthy
      BY <2>8 DEF CalibrateBattery, Handled
    <3>3. CASE Plausible(r) /\ persist_bat_divider(r)
      <4>1. r \in BAT_DIVIDER_MIN .. BAT_DIVIDER_MAX
        BY <3>3 DEF Plausible
      <4>2. /\ entries' \in Stores /\ blob' \in Stores /\ offset' \in [Metrics -> OffsetRange]
            /\ bat_divider' \in 0 .. 10000 /\ divider_ratio' \in Int
        BY <3>3, <4>1, PersistType
      <4> QED
        BY <3>2, <4>2 DEF TypeOK
    <3>4. CASE divider_ratio' = r /\ UNCHANGED <<entries, blob, offset, bat_divider>>
      <4>1. r \in Int
        BY CalibrationAssumption DEF TypeOK
      <4> QED
        BY <3>2, <3>4, <4>1 DEF TypeOK
    <3> QED
      BY <3>1, <3>3, <3>4
  <2>9. CASE Restart
    BY <2>9, RebootType DEF Restart, TypeOK
  <2>10. CASE StorageFails
    BY <2>10 DEF StorageFails, TypeOK
  <2>11. CASE UNCHANGED vars
    BY <2>11 DEF vars, TypeOK
  <2> QED
    BY <2>2, <2>3, <2>4, <2>5, <2>6, <2>7, <2>8, <2>9, <2>10, <2>11 DEF Next
<1> QED
  BY <1>1, <1>2, PTL DEF Spec

-----------------------------------------------------------------------------
(* The calibration a store stands for *)

LEMMA CalibrationOfType ==
    ASSUME NEW e \in Stores
    PROVE  CalibrationOf(e) \in Promise!Calibrations
BY OffsetsOfType, RatioOfType
   DEF CalibrationOf, Promise!Calibrations, Promise!PlausibleRatios, Promise!OffsetRange,
       Promise!Metrics, OffsetRange, Metrics, BAT_DIVIDER_MIN, BAT_DIVIDER_MAX

LEMMA IdentityIsNoCalibration ==
    ASSUME NEW e \in Stores, NEW id \in MaybeId
    PROVE  CalibrationOf(SetDeviceId(e, id)) = CalibrationOf(e)
BY SetDeviceIdType DEF CalibrationOf, OffsetsOf, RatioOf

LEMMA OffsetsOfSetCal ==
    ASSUME NEW e \in Stores, NEW cal \in [Metrics -> OffsetRange]
    PROVE  /\ OffsetsOf(SetCal(e, cal)) = cal
           /\ RatioOf(SetCal(e, cal)) = RatioOf(e)
<1>1. \A m \in Metrics : cal[m] # None
  BY CalibrationAssumption DEF OffsetRange
<1>2. cal = [m \in Metrics |-> IF cal[m] = None THEN 0 ELSE cal[m]]
  BY <1>1
<1>3. OffsetsOf(SetCal(e, cal)) = [m \in Metrics |-> IF cal[m] = None THEN 0 ELSE cal[m]]
  BY SetCalType DEF OffsetsOf
<1> QED
  BY <1>2, <1>3, SetCalType DEF RatioOf

LEMMA RatioOfSetDivider ==
    ASSUME NEW e \in Stores, NEW r \in BAT_DIVIDER_MIN .. BAT_DIVIDER_MAX
    PROVE  /\ OffsetsOf(SetDivider(e, r)) = OffsetsOf(e)
           /\ RatioOf(SetDivider(e, r)) = r
<1>1. r \in Int /\ r # None /\ Plausible(r)
  BY CalibrationAssumption DEF Plausible, BAT_DIVIDER_MIN, BAT_DIVIDER_MAX
<1> QED
  BY <1>1, SetDividerType DEF OffsetsOf, RatioOf

LEMMA EmptyIsDefault == CalibrationOf(EmptyStore) = Promise!Default
<1>1. OffsetsOf(EmptyStore) = [m \in Metrics |-> 0]
  BY EmptyStoreType DEF OffsetsOf
<1>2. RatioOf(EmptyStore) = Nominal
  BY EmptyStoreType DEF RatioOf
<1> QED
  BY <1>1, <1>2 DEF CalibrationOf, Promise!Default, Promise!Metrics, Metrics

LEMMA SeedIsNoCalibration ==
    ASSUME TypeOK
    PROVE  CalibrationOf(Seeded) = IF healthy THEN CalibrationOf(blob) ELSE Promise!Default
<1>1. CalibrationOf(Seeded) = CalibrationOf(begin)
  BY BeginType, IdentityIsNoCalibration, CalibrationAssumption DEF Seeded, MaybeId
<1> QED
  BY <1>1, EmptyIsDefault DEF begin

\* commit() saves the calibration of what it writes, when the storage works.
LEMMA CommitSaves ==
    ASSUME NEW e, commit(e)
    PROVE  CalibrationOf(blob)' = IF healthy THEN CalibrationOf(e) ELSE CalibrationOf(blob)
BY DEF commit, CalibrationOf

-----------------------------------------------------------------------------
(* The invariant of the store *)

\* What a boot finds: an empty store or one with an identity.
LEMMA SeededLemma ==
    ASSUME TypeOK, StoreInv
    PROVE  /\ Seeded.device_id = None => Seeded = EmptyStore
           /\ Seeded # begin => Seeded.device_id = Seed
           /\ Seed = None => Seeded = begin
<1>1. begin.device_id = None => begin = EmptyStore
  BY EmptyStoreType DEF StoreInv, begin
<1>2. Seed \in MaybeId
  BY CalibrationAssumption DEF MaybeId
<1>3. Seeded # begin => Seeded.device_id = Seed
  BY <1>2, BeginType, SetDeviceIdType DEF Seeded
<1>4. Seed = None => Seeded = begin
  <2> SUFFICES ASSUME Seed = None, begin.device_id = None
               PROVE  SetDeviceId(begin, None) = begin
    BY DEF Seeded
  <2>1. begin = Store(None, EmptyStore.cal, EmptyStore.bat_divider)
    BY <1>1, EmptyStoreType DEF EmptyStore
  <2> QED
    BY <2>1, <1>1, EmptyStoreType DEF SetDeviceId
<1>5. Seeded.device_id = None => Seeded = EmptyStore
  <2> SUFFICES ASSUME Seeded.device_id = None
               PROVE  Seeded = EmptyStore
    OBVIOUS
  <2>1. CASE begin.device_id = None
    <3>1. Seeded.device_id = Seed
      BY <2>1, <1>2, BeginType, SetDeviceIdType DEF Seeded
    <3> QED
      BY <3>1, <2>1, <1>1, <1>4
  <2>2. CASE begin.device_id # None
    BY <2>2 DEF Seeded
  <2> QED
    BY <2>1, <2>2
<1> QED
  BY <1>3, <1>4, <1>5

LEMMA StoreInvInit == Init => StoreInv
<1> SUFFICES ASSUME Init
             PROVE  StoreInv
  OBVIOUS
<1>1. blob.device_id = None => blob = EmptyStore
  <2>1. CASE blob # EmptyStore
    <3>1. PICK id \in DeviceIds, r \in StaleRatios : blob = Store(id, EmptyStore.cal, r)
      BY <2>1 DEF Init
    <3> QED
      BY <3>1, CalibrationAssumption DEF Store
  <2> QED
    BY <2>1
<1> QED
  BY <1>1 DEF Init, StoreInv

LEMMA BootKeepsStoreInv ==
    ASSUME TypeOK, StoreInv, BootUnprovisioned \/ BootProvisioned
    PROVE  StoreInv'
<1>1. Loaded
  BY DEF BootUnprovisioned, BootProvisioned
<1>2. entries' = Seeded /\ (blob' = blob \/ blob' = Seeded)
  BY <1>1 DEF Loaded, commit
<1>3. blob'.device_id = None => blob' = EmptyStore
  BY <1>2, SeededLemma DEF StoreInv
<1>5. CASE BootUnprovisioned
  <2>1. mode' = "provisioning" /\ Seeded.device_id = None
    BY <1>5 DEF BootUnprovisioned
  <2>2. entries' = EmptyStore
    BY <2>1, <1>2, SeededLemma
  <2> QED
    BY <2>1, <2>2, <1>3 DEF StoreInv, EmptyStore, Store
<1>6. CASE BootProvisioned
  <2>1. /\ Seeded.device_id # None
        /\ mode' = "running"
        /\ offset' = OffsetsOf(Seeded)
        /\ divider_ratio' = RatioOf(Seeded)
    BY <1>6 DEF BootProvisioned
  <2>2. ASSUME Seed = None
        PROVE  blob'.device_id = entries'.device_id
    <3>1. Seeded = begin /\ blob' = blob
      BY <2>2, <1>1, SeededLemma DEF Loaded
    <3>2. begin = blob
      BY <3>1, <2>1, EmptyStoreType DEF begin
    <3> QED
      BY <3>1, <3>2, <1>2
  <2>3. offset' = OffsetsOf(entries)' /\ divider_ratio' = RatioOf(entries)'
    BY <2>1, <1>2 DEF OffsetsOf, RatioOf
  <2> QED
    BY <1>2, <1>3, <2>1, <2>2, <2>3 DEF StoreInv
<1> QED
  BY <1>5, <1>6

\* What a command leaves when it writes a store with the same identity.
LEMMA WriteKeepsStoreInv ==
    ASSUME TypeOK, StoreInv, Handled,
           NEW e \in Stores, e.device_id = entries.device_id,
           entries' = e, commit(e),
           offset' = OffsetsOf(e), divider_ratio' = RatioOf(e)
    PROVE  StoreInv'
<1>1. mode = "running" /\ mode' = "running"
  BY DEF Handled
<1>2. e.device_id # None
  BY <1>1 DEF StoreInv
<1>3. blob' = e \/ blob' = blob
  BY DEF commit
<1>4. blob'.device_id = None => blob' = EmptyStore
  BY <1>2, <1>3 DEF StoreInv
<1>5. Seed = None => blob'.device_id = entries'.device_id
  BY <1>1, <1>3 DEF StoreInv
<1>6. offset' = OffsetsOf(entries)' /\ divider_ratio' = RatioOf(entries)'
  BY DEF OffsetsOf, RatioOf
<1> QED
  BY <1>1, <1>2, <1>4, <1>5, <1>6 DEF StoreInv

\* A reset of the microcontroller keeps it when the flash holds an empty store, one
\* with an identity, or what it held.
LEMMA ResetKeepsStoreInv ==
    ASSUME mode' = "off",
           \/ blob' = EmptyStore
           \/ blob'.device_id # None
           \/ blob' = blob /\ StoreInv
    PROVE  StoreInv'
<1>1. blob'.device_id = None => blob' = EmptyStore
  BY DEF StoreInv
<1> QED
  BY <1>1 DEF StoreInv, EmptyStore, Store

\* What is in use and in the store when a ratio is accepted.
LEMMA PersistLemma ==
    ASSUME TypeOK, StoreInv, mode = "running",
           NEW r \in BAT_DIVIDER_MIN .. BAT_DIVIDER_MAX, persist_bat_divider(r)
    PROVE  LET e == SetDivider(entries, r) IN
           /\ e \in Stores
           /\ e.device_id = entries.device_id
           /\ entries' = e
           /\ commit(e)
           /\ offset' = OffsetsOf(e) /\ offset' = offset
           /\ divider_ratio' = RatioOf(e) /\ divider_ratio' = r
<1>1. r \in Int /\ entries \in Stores
  BY DEF BAT_DIVIDER_MIN, BAT_DIVIDER_MAX, TypeOK
<1>2. offset = OffsetsOf(entries)
  BY DEF StoreInv
<1> QED
  BY <1>1, <1>2, SetDividerType, RatioOfSetDivider DEF persist_bat_divider

\* With a sound input every ratio in use is one that could be stored.
LEMMA RatioLemma ==
    ASSUME SoundInput, TypeOK, StoreInv, mode = "running",
           NEW r \in MeasuredRatios \cup {divider_ratio}
    PROVE  r \in BAT_DIVIDER_MIN .. BAT_DIVIDER_MAX
<1>1. divider_ratio \in BAT_DIVIDER_MIN .. BAT_DIVIDER_MAX
  BY RatioOfType DEF StoreInv, TypeOK
<1> QED
  BY <1>1 DEF SoundInput

LEMMA NextKeepsStoreInv ==
    ASSUME SoundInput, TypeOK, StoreInv, [Next]_vars
    PROVE  StoreInv'
<1>1. CASE BootUnprovisioned \/ BootProvisioned
  BY <1>1, BootKeepsStoreInv
<1>2. CASE Provision
  <2>1. PICK id \in DeviceIds : commit(SetDeviceId(entries, id))
    BY <1>2 DEF Provision
  <2>2. SetDeviceId(entries, id).device_id = id /\ id # None
    BY SetDeviceIdType, NonesType, CalibrationAssumption DEF TypeOK
  <2>3. mode' = "off"
    BY <1>2 DEF Provision, reboot_device
  <2>4. blob' = SetDeviceId(entries, id) \/ blob' = blob
    BY <2>1 DEF commit
  <2> QED
    BY <2>2, <2>3, <2>4, ResetKeepsStoreInv
<1>3. CASE FactoryReset
  <2>1. mode' = "off" /\ (blob' = EmptyStore \/ blob' = blob)
    BY <1>3 DEF FactoryReset, clear, commit, reboot_device
  <2> QED
    BY <2>1, ResetKeepsStoreInv
<1>4. CASE SetOffset
  <2>1. /\ Handled
        /\ offset' \in [Metrics -> OffsetRange]
        /\ entries' = SetCal(entries, offset')
        /\ commit(entries')
        /\ divider_ratio' = divider_ratio
    BY <1>4 DEF SetOffset, TypeOK
  <2>2. divider_ratio = RatioOf(entries) /\ entries \in Stores
    BY <2>1 DEF StoreInv, TypeOK, Handled
  <2> DEFINE e == SetCal(entries, offset')
  <2>3. /\ e \in Stores
        /\ e.device_id = entries.device_id
        /\ OffsetsOf(e) = offset'
        /\ RatioOf(e) = divider_ratio'
    BY <2>1, <2>2, SetCalType, OffsetsOfSetCal
  <2>4. entries' = e /\ commit(e)
    BY <2>1 DEF commit
  <2> HIDE DEF e
  <2> QED
    BY <2>1, <2>3, <2>4, WriteKeepsStoreInv
<1>5. CASE SetCalibration
  <2>1. Handled /\ mode = "running"
    BY <1>5 DEF SetCalibration, Handled
  <2>2. PICK r \in Ratios \cap (1 .. 10000) :
           \/ Plausible(r) /\ persist_bat_divider(r)
           \/ /\ ~Plausible(r)
              /\ bat_divider' = r
              /\ UNCHANGED <<entries, blob, offset, divider_ratio>>
    BY <1>5 DEF SetCalibration
  <2>3. CASE Plausible(r) /\ persist_bat_divider(r)
    BY <2>1, <2>3, PersistLemma, WriteKeepsStoreInv DEF Plausible
  <2>4. CASE UNCHANGED <<entries, blob, offset, divider_ratio>>
    BY <2>1, <2>4 DEF Handled, StoreInv, OffsetsOf, RatioOf
  <2> QED
    BY <2>2, <2>3, <2>4
<1>6. CASE CalibrateBattery
  <2>1. Handled /\ mode = "running"
    BY <1>6 DEF CalibrateBattery, Handled
  <2>2. PICK r \in MeasuredRatios \cup {divider_ratio} :
           \/ Plausible(r) /\ persist_bat_divider(r)
           \/ ~Plausible(r)
    BY <1>6 DEF CalibrateBattery
  <2>3. r \in BAT_DIVIDER_MIN .. BAT_DIVIDER_MAX
    BY <2>1, RatioLemma
  <2>4. persist_bat_divider(r)
    BY <2>2, <2>3 DEF Plausible
  <2> QED
    BY <2>1, <2>3, <2>4, PersistLemma, WriteKeepsStoreInv
<1>7. CASE Restart
  BY <1>7, ResetKeepsStoreInv DEF Restart, reboot_device
<1>8. CASE StorageFails
  BY <1>8 DEF StorageFails, StoreInv, OffsetsOf, RatioOf
<1>9. CASE UNCHANGED vars
  BY <1>9 DEF vars, StoreInv, OffsetsOf, RatioOf
<1> QED
  BY <1>1, <1>2, <1>3, <1>4, <1>5, <1>6, <1>7, <1>8, <1>9 DEF Next

\* The store stays in step with what is used, when the battery input is sound.
THEOREM StoreInvariant == ASSUME SoundInput PROVE Spec => []StoreInv
<1>1. Init => StoreInv
  BY StoreInvInit
<1>2. TypeOK /\ StoreInv /\ [Next]_vars => StoreInv'
  BY NextKeepsStoreInv
<1> QED
  BY <1>1, <1>2, CalibrationTypeCorrectness, PTL DEF Spec

\* The ratio in use is plausible whatever was stored and whatever set_calibration asks.
THEOREM RatioStaysPlausible == ASSUME SoundInput PROVE Spec => []RatioPlausible
<1>1. Init => RatioPlausible
  BY CalibrationAssumption DEF Init, RatioPlausible, Plausible
<1>2. \A e : Plausible(RatioOf(e)) /\ Plausible(Nominal)
  BY CalibrationAssumption DEF RatioOf, Plausible
<1>3. TypeOK /\ RatioPlausible /\ [Next]_vars => RatioPlausible'
  <2> SUFFICES ASSUME TypeOK, RatioPlausible, [Next]_vars
               PROVE  Plausible(divider_ratio')
    BY DEF RatioPlausible, Plausible
  <2>1. CASE BootUnprovisioned \/ StorageFails \/ SetOffset \/ UNCHANGED vars
    <3>1. divider_ratio' = divider_ratio
      BY <2>1 DEF BootUnprovisioned, StorageFails, SetOffset, vars
    <3> QED
      BY <3>1 DEF RatioPlausible
  <2>2. CASE BootProvisioned
    <3>1. divider_ratio' = RatioOf(Seeded)
      BY <2>2 DEF BootProvisioned
    <3> QED
      BY <3>1, <1>2
  <2>3. CASE Provision \/ FactoryReset \/ Restart
    <3>1. divider_ratio' = Nominal
      BY <2>3 DEF Provision, FactoryReset, Restart, reboot_device, RamDefaults
    <3> QED
      BY <3>1, <1>2
  <2>4. CASE SetCalibration
    <3>1. \/ divider_ratio' = divider_ratio
          \/ \E r \in Ratios : Plausible(r) /\ divider_ratio' = r
      BY <2>4 DEF SetCalibration, persist_bat_divider
    <3> QED
      BY <3>1 DEF RatioPlausible
  <2>5. CASE CalibrateBattery
    <3>1. PICK r \in MeasuredRatios \cup {divider_ratio} : divider_ratio' = r
      BY <2>5 DEF CalibrateBattery, persist_bat_divider
    <3>2. Plausible(r)
      BY <3>1 DEF SoundInput, RatioPlausible, Plausible
    <3> QED
      BY <3>1, <3>2
  <2> QED
    BY <2>1, <2>2, <2>3, <2>4, <2>5 DEF Next
<1> QED
  BY <1>1, <1>3, CalibrationTypeCorrectness, PTL DEF Spec

-----------------------------------------------------------------------------
(* The identity *)

\* In a build without a seed no command of the server but a factory reset changes the
\* identity in flash, whatever the storage does.
THEOREM IdentityNeverLost ==
    ASSUME SoundInput, Seed = None
    PROVE  Spec => IdentityKept
<1>1. ASSUME TypeOK, StoreInv, [Next]_vars, mode = "running",
             blob'.device_id # blob.device_id
      PROVE  blob' = EmptyStore
  <2>1. CASE BootUnprovisioned \/ BootProvisioned \/ Provision
    BY <1>1, <2>1 DEF BootUnprovisioned, BootProvisioned, Loaded, Provision
  <2>2. CASE FactoryReset
    BY <1>1, <2>2 DEF FactoryReset, clear, commit
  <2>3. CASE SetOffset
    <3>1. entries'.device_id = entries.device_id
      <4>1. offset' \in [Metrics -> OffsetRange] /\ entries' = SetCal(entries, offset')
        BY <2>3, <1>1 DEF SetOffset, TypeOK
      <4>2. entries \in Stores
        BY <1>1 DEF TypeOK
      <4> QED
        BY <4>1, <4>2, SetCalType
    <3>2. blob' = entries' \/ blob' = blob
      BY <2>3 DEF SetOffset, commit
    <3> QED
      BY <1>1, <3>1, <3>2 DEF StoreInv
  <2>4. CASE SetCalibration \/ CalibrateBattery
    <3>1. CASE blob' = blob
      BY <1>1, <3>1
    <3>2. CASE blob' # blob
      <4>1. PICK r \in Int : Plausible(r) /\ persist_bat_divider(r)
        BY <1>1, <2>4, <3>2, CalibrationAssumption
           DEF SetCalibration, CalibrateBattery, TypeOK
      <4>2. blob'.device_id = entries.device_id
        BY <1>1, <3>2, <4>1, SetDividerType DEF persist_bat_divider, commit, TypeOK
      <4> QED
        BY <1>1, <4>2 DEF StoreInv
    <3> QED
      BY <3>1, <3>2
  <2>5. CASE Restart \/ StorageFails \/ UNCHANGED vars
    BY <1>1, <2>5 DEF Restart, StorageFails, vars
  <2> QED
    BY <1>1, <2>1, <2>2, <2>3, <2>4, <2>5 DEF Next
<1>2. TypeOK /\ StoreInv /\ [Next]_vars =>
         [mode = "running" /\ blob'.device_id # blob.device_id => blob' = EmptyStore]_vars
  BY <1>1
<1> QED
  BY <1>2, CalibrationTypeCorrectness, StoreInvariant, PTL DEF Spec, IdentityKept

-----------------------------------------------------------------------------
(* The refinement *)

\* What is used changes to c, and is saved when the storage works.
LEMMA ChangeLemma ==
    ASSUME NEW c, InUse' = c, healthy' = healthy,
           CalibrationOf(blob)' = IF healthy THEN c ELSE CalibrationOf(blob)
    PROVE  Promise!Changed(c)
BY DEF Promise!Changed

\* A reset of the microcontroller that leaves the flash alone is a restart.
LEMMA RebootLemma ==
    ASSUME mode' = "off", healthy' = healthy, blob' = blob
    PROVE  Promise!Restart
BY DEF Promise!Restart, InUse, CalibrationOf, OffsetsOf, RatioOf

\* A command that writes the store e, while running.
LEMMA WriteLemma ==
    ASSUME mode = "running", Handled, NEW e, commit(e),
           offset' = OffsetsOf(e), divider_ratio' = RatioOf(e)
    PROVE  Promise!Changed(CalibrationOf(e))
<1>1. InUse' = CalibrationOf(e)
  BY DEF InUse, CalibrationOf, Handled
<1>2. CalibrationOf(blob)' = IF healthy THEN CalibrationOf(e) ELSE CalibrationOf(blob)
  BY CommitSaves
<1> QED
  BY <1>1, <1>2, ChangeLemma DEF Handled

LEMMA InitRefines == ASSUME Init, TypeOK PROVE Promise!Init
<1>1. InUse = CalibrationOf(blob)
  BY DEF Init, InUse
<1>2. CalibrationOf(blob) \in Promise!Calibrations
  BY CalibrationOfType DEF TypeOK
<1> QED
  BY <1>1, <1>2 DEF Init, Promise!Init

\* A boot restarts with what is saved, or with the defaults when that is unreadable.
LEMMA BootRefines ==
    ASSUME TypeOK, StoreInv, BootUnprovisioned \/ BootProvisioned
    PROVE  Promise!Restart \/ Promise!Forget
<1>1. Loaded
  BY DEF BootUnprovisioned, BootProvisioned
<1>2. InUse' = CalibrationOf(Seeded)
  <2>1. CASE BootUnprovisioned
    BY <2>1 DEF BootUnprovisioned, Loaded, InUse, CalibrationOf, OffsetsOf, RatioOf
  <2>2. CASE BootProvisioned
    BY <2>2 DEF BootProvisioned, InUse, CalibrationOf
  <2> QED
    BY <2>1, <2>2
<1>3. CalibrationOf(blob)' = CalibrationOf(blob)
  <2>1. CASE Seeded = begin
    BY <2>1, <1>1 DEF Loaded, CalibrationOf, OffsetsOf, RatioOf
  <2>2. CASE Seeded # begin
    <3>1. commit(Seeded)
      BY <2>2, <1>1 DEF Loaded
    <3> QED
      BY <3>1, CommitSaves, SeedIsNoCalibration
  <2> QED
    BY <2>1, <2>2
<1>4. healthy' = healthy
  BY <1>1 DEF Loaded
<1>5. CASE healthy
  BY <1>2, <1>3, <1>4, <1>5, SeedIsNoCalibration DEF Promise!Restart
<1>6. CASE ~healthy
  BY <1>2, <1>3, <1>4, <1>6, SeedIsNoCalibration DEF Promise!Forget
<1> QED
  BY <1>5, <1>6

\* A new identity comes with the defaults; without a working storage it is not kept.
LEMMA ProvisionRefines ==
    ASSUME TypeOK, StoreInv, Provision
    PROVE  Promise!Reset \/ Promise!Restart
<1>1. PICK id \in DeviceIds : commit(SetDeviceId(entries, id))
  BY DEF Provision
<1>2. mode' = "off" /\ healthy' = healthy /\ entries = EmptyStore
  BY DEF Provision, reboot_device, StoreInv
<1>3. CalibrationOf(SetDeviceId(entries, id)) = Promise!Default
  BY <1>2, NonesType, EmptyStoreType, IdentityIsNoCalibration, EmptyIsDefault
<1>4. InUse' = CalibrationOf(blob)'
  BY <1>2 DEF InUse
<1>5. CASE healthy
  <2>1. CalibrationOf(blob)' = Promise!Default
    BY <1>1, <1>3, <1>5, CommitSaves
  <2> QED
    BY <1>2, <1>4, <1>5, <2>1, ChangeLemma DEF Promise!Reset
<1>6. CASE ~healthy
  BY <1>1, <1>2, <1>6, RebootLemma DEF commit
<1> QED
  BY <1>5, <1>6

LEMMA FactoryResetRefines ==
    ASSUME FactoryReset
    PROVE  Promise!Reset \/ Promise!Restart
<1>1. mode' = "off" /\ healthy' = healthy /\ commit(EmptyStore)
  BY DEF FactoryReset, reboot_device, clear
<1>2. InUse' = CalibrationOf(blob)'
  BY <1>1 DEF InUse
<1>3. CASE healthy
  <2>1. CalibrationOf(blob)' = Promise!Default
    BY <1>1, <1>3, CommitSaves, EmptyIsDefault
  <2> QED
    BY <1>1, <1>2, <1>3, <2>1, ChangeLemma DEF Promise!Reset
<1>4. CASE ~healthy
  BY <1>1, <1>4, RebootLemma DEF commit
<1> QED
  BY <1>3, <1>4

LEMMA SetOffsetRefines ==
    ASSUME TypeOK, StoreInv, SetOffset
    PROVE  Promise!SetOffset
<1>1. /\ mode = "running" /\ Handled
      /\ commit(SetCal(entries, offset'))
      /\ divider_ratio' = divider_ratio
  BY DEF SetOffset, Handled, commit
<1>2. PICK m \in Metrics, v \in Offsets \cap OffsetRange : offset' = [offset EXCEPT ![m] = v]
  BY DEF SetOffset
<1>3. offset' \in [Metrics -> OffsetRange] /\ entries \in Stores
  BY <1>2 DEF TypeOK
<1>4. divider_ratio = RatioOf(entries)
  BY <1>1 DEF StoreInv
<1> DEFINE e == SetCal(entries, offset')
<1>5. OffsetsOf(e) = offset' /\ RatioOf(e) = divider_ratio'
  BY <1>1, <1>3, <1>4, OffsetsOfSetCal
<1>6. CalibrationOf(e) = [offset |-> [offset EXCEPT ![m] = v], ratio |-> divider_ratio]
  BY <1>1, <1>2, <1>5 DEF CalibrationOf
<1>7. Promise!Changed(CalibrationOf(e))
  <2> HIDE DEF e
  <2> QED
    BY <1>1, <1>5, WriteLemma DEF e
<1>8. InUse = [offset |-> offset, ratio |-> divider_ratio]
  BY <1>1 DEF InUse
<1> QED
  BY <1>6, <1>7, <1>8
     DEF Promise!SetOffset, Promise!Metrics, Promise!OffsetRange, Metrics, OffsetRange

LEMMA PersistRefines ==
    ASSUME TypeOK, StoreInv, Handled,
           NEW r \in (Ratios \cup MeasuredRatios \cup {divider_ratio})
                        \cap (BAT_DIVIDER_MIN .. BAT_DIVIDER_MAX),
           persist_bat_divider(r)
    PROVE  Promise!SetRatio
<1>1. mode = "running"
  BY DEF Handled
<1> DEFINE e == SetDivider(entries, r)
<1>2. /\ commit(e)
      /\ offset' = OffsetsOf(e) /\ offset' = offset
      /\ divider_ratio' = RatioOf(e) /\ divider_ratio' = r
  BY <1>1, PersistLemma
<1>3. Promise!Changed(CalibrationOf(e))
  <2> HIDE DEF e
  <2> QED
    BY <1>1, <1>2, WriteLemma
<1>4. CalibrationOf(e) = [offset |-> offset, ratio |-> r]
  BY <1>2 DEF CalibrationOf
<1>5. InUse = [offset |-> offset, ratio |-> divider_ratio]
  BY <1>1 DEF InUse
<1> QED
  BY <1>3, <1>4, <1>5
     DEF Promise!SetRatio, Promise!PlausibleRatios, BAT_DIVIDER_MIN, BAT_DIVIDER_MAX

\* A ratio that is only reported is not in use: no step of the promise.
LEMMA SetCalibrationRefines ==
    ASSUME TypeOK, StoreInv, SetCalibration
    PROVE  Promise!SetRatio \/ UNCHANGED Promise!calibrationVars
<1>1. Handled
  BY DEF SetCalibration
<1>2. PICK r \in Ratios :
         \/ Plausible(r) /\ persist_bat_divider(r)
         \/ UNCHANGED <<entries, blob, offset, divider_ratio>>
  BY DEF SetCalibration
<1>3. CASE Plausible(r) /\ persist_bat_divider(r)
  BY <1>1, <1>3, PersistRefines DEF Plausible
<1>4. CASE UNCHANGED <<entries, blob, offset, divider_ratio>>
  <2>1. UNCHANGED <<mode, healthy>>
    BY <1>1 DEF Handled
  <2> QED
    BY <1>4, <2>1 DEF Promise!calibrationVars, InUse, CalibrationOf, OffsetsOf, RatioOf
<1> QED
  BY <1>2, <1>3, <1>4

LEMMA CalibrateBatteryRefines ==
    ASSUME SoundInput, TypeOK, StoreInv, CalibrateBattery
    PROVE  Promise!SetRatio
<1>1. Handled /\ mode = "running"
  BY DEF CalibrateBattery, Handled
<1>2. PICK r \in MeasuredRatios \cup {divider_ratio} :
         Plausible(r) => persist_bat_divider(r)
  BY DEF CalibrateBattery
<1>3. r \in BAT_DIVIDER_MIN .. BAT_DIVIDER_MAX
  BY <1>1, RatioLemma
<1>4. persist_bat_divider(r)
  BY <1>2, <1>3 DEF Plausible
<1> QED
  BY <1>1, <1>3, <1>4, PersistRefines

\* The config store, its buffer in RAM and the restore at boot implement the promise
\* of docs/modules/calibration.md when the battery input is sound.
THEOREM CalibrationIsKept == ASSUME SoundInput PROVE Spec => CalibrationKept
<1>1. TypeOK /\ Init => Promise!Init
  BY InitRefines
<1>2. TypeOK /\ StoreInv /\ [Next]_vars => [Promise!Next]_(Promise!calibrationVars)
  <2> SUFFICES ASSUME TypeOK, StoreInv, [Next]_vars
               PROVE  Promise!Next \/ UNCHANGED Promise!calibrationVars
    OBVIOUS
  <2>1. CASE BootUnprovisioned \/ BootProvisioned
    BY <2>1, BootRefines DEF Promise!Next
  <2>2. CASE Provision
    BY <2>2, ProvisionRefines DEF Promise!Next
  <2>3. CASE FactoryReset
    BY <2>3, FactoryResetRefines DEF Promise!Next
  <2>4. CASE SetOffset
    BY <2>4, SetOffsetRefines DEF Promise!Next
  <2>5. CASE SetCalibration
    BY <2>5, SetCalibrationRefines DEF Promise!Next
  <2>6. CASE CalibrateBattery
    BY <2>6, CalibrateBatteryRefines DEF Promise!Next
  <2>7. CASE Restart
    BY <2>7, RebootLemma DEF Restart, reboot_device, Promise!Next
  <2>8. CASE StorageFails
    BY <2>8 DEF StorageFails, InUse, CalibrationOf, OffsetsOf, RatioOf,
                Promise!StorageFails, Promise!Next
  <2>9. CASE UNCHANGED vars
    BY <2>9 DEF vars, InUse, CalibrationOf, OffsetsOf, RatioOf, Promise!calibrationVars
  <2> QED
    BY <2>1, <2>2, <2>3, <2>4, <2>5, <2>6, <2>7, <2>8, <2>9 DEF Next
<1> QED
  BY <1>1, <1>2, CalibrationTypeCorrectness, StoreInvariant, PTL
     DEF Spec, CalibrationKept, Promise!Spec
=============================================================================
