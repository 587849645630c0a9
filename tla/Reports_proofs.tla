--------------------------- MODULE Reports_proofs ---------------------------
(***************************************************************************)
(* What a node reports, proved for every set of builds and of snapshots:   *)
(* the health it reports is the worst condition that holds, a valid        *)
(* reading was measured unless the bus has failed, every payload is whole  *)
(* and fits its packet, and the announced metrics are the published ones.  *)
(***************************************************************************)
EXTENDS Reports, FiniteSetTheorems, WellFoundedInduction, TLAPS

-----------------------------------------------------------------------------
(* Health *)

LEMMA DiagDataTypes ==
  ASSUME NEW d \in DiagData
  PROVE  /\ d.reset_cause \in 0 .. 7 /\ d.miss \in Nat /\ d.rssi \in Int /\ d.heap \in Nat
         /\ d.battery \in {"none", "fine", "low", "critical"}
  BY DEF DiagData

LEMMA LevelOfErrors == \A d : \A c \in Errors(d) : c.level = 3
  BY DEF Errors, When, Verdict, ERROR

LEMMA LevelOfCautions == \A d : \A c \in Cautions(d) : c.level = 2
  BY DEF Cautions, When, Verdict, WARNING

LEMMA LevelOfNotices == \A d : \A c \in Notices(d) : c.level = 1
  BY DEF Notices, When, Verdict, INFO

\* The warnings of the ladder are those of the table, where no error of the battery is.
LEMMA WarningsAreCautions ==
  ASSUME NEW d \in DiagData, d.battery # "critical"
  PROVE  /\ Warnings(d).level = 2 => Warnings(d) \in Cautions(d)
         /\ Warnings(d).level # 2 => Cautions(d) = {}
  <1>1. /\ d.miss \in Nat /\ d.rssi \in Int /\ d.heap \in Nat
    BY DiagDataTypes
  <1>2. d.rssi # 0 /\ d.rssi < RSSI_WEAK <=> d.rssi < -80
    BY <1>1 DEF RSSI_WEAK
  <1>3. d.heap # 0 /\ d.heap < HEAP_LOW <=> 0 < d.heap /\ d.heap < 20000
    BY <1>1 DEF HEAP_LOW
  <1>4. Verdict(WARNING, "low_battery").level = 2 /\ Verdict(WARNING, "missed_wakes").level = 2
        /\ Verdict(WARNING, "weak_signal").level = 2 /\ Verdict(WARNING, "low_memory").level = 2
        /\ Verdict(OK, "none").level = 0
    BY DEF Verdict, WARNING, OK
  <1> QED BY <1>2, <1>3, <1>4 DEF Warnings, Cautions, When

LEMMA InfosAreNotices ==
  ASSUME NEW d \in DiagData
  PROVE  \/ Infos(d).level = 1 /\ Infos(d) \in Notices(d)
         \/ Infos(d).level = 0 /\ Infos(d) = Verdict(OK, "ok") /\ Notices(d) = {}
  <1>1. d.reset_cause \in 0 .. 7 /\ d.rssi \in Int
    BY DiagDataTypes
  <1>2. d.rssi # 0 /\ d.rssi < RSSI_FAIR <=> d.rssi < -70
    BY <1>1 DEF RSSI_FAIR
  <1>3. d.reset_cause \in {POWER_ON, EXTERNAL, SOFTWARE} <=> d.reset_cause \in 1 .. 3
    BY <1>1 DEF POWER_ON, EXTERNAL, SOFTWARE
  <1>4. Verdict(INFO, "booted").level = 1 /\ Verdict(INFO, "fair_signal").level = 1
        /\ Verdict(OK, "ok").level = 0
    BY DEF Verdict, INFO, OK
  <1> QED BY <1>2, <1>3, <1>4 DEF Infos, Notices, When

\* The ladder of diag_evaluate() and the table of docs/diagnostics.md agree on every
\* snapshot: the verdict is the worst condition that holds.
THEOREM LadderIsTable == \A d \in DiagData : IsWorst(d, diag_evaluate(d))
  <1> SUFFICES ASSUME NEW d \in DiagData PROVE IsWorst(d, diag_evaluate(d))
      OBVIOUS
  <1>1. CASE Errors(d) # {}
    <2>1. diag_evaluate(d) \in Errors(d)
      BY <1>1 DEF diag_evaluate, Errors, When
    <2>2. diag_evaluate(d).level = 3
      BY <2>1, LevelOfErrors
    <2>3. \A c \in Conditions(d) : c.level \in 0 .. 3
      BY LevelOfErrors, LevelOfCautions, LevelOfNotices DEF Conditions, Verdict, OK
    <2> QED BY <2>1, <2>2, <2>3 DEF IsWorst, Conditions
  <1>2. CASE Errors(d) = {}
    <2>1. /\ d.battery # "critical"
          /\ diag_evaluate(d) = IF Warnings(d).level = WARNING THEN Warnings(d) ELSE Infos(d)
      BY <1>2 DEF diag_evaluate, Errors, When
    <2>2. CASE Warnings(d).level = 2
      <3>1. diag_evaluate(d) \in Cautions(d) /\ diag_evaluate(d).level = 2
        BY <2>1, <2>2, WarningsAreCautions DEF WARNING
      <3>2. \A c \in Conditions(d) : c.level \in 0 .. 2
        BY <1>2, LevelOfCautions, LevelOfNotices DEF Conditions, Verdict, OK
      <3> QED BY <3>1, <3>2 DEF IsWorst, Conditions
    <2>3. CASE Warnings(d).level # 2
      <3>1. diag_evaluate(d) = Infos(d) /\ Cautions(d) = {}
        BY <2>1, <2>3, WarningsAreCautions DEF WARNING
      <3>2. Conditions(d) = Notices(d) \cup {Verdict(OK, "ok")}
        BY <1>2, <3>1 DEF Conditions
      <3>3. Verdict(OK, "ok").level = 0
        BY DEF Verdict, OK
      <3>4. \A c \in Conditions(d) : c.level \in 0 .. 1
        BY <3>2, <3>3, LevelOfNotices
      <3> QED BY <3>1, <3>2, <3>3, <3>4, InfosAreNotices DEF IsWorst
    <2> QED BY <2>2, <2>3
  <1> QED BY <1>1, <1>2

-----------------------------------------------------------------------------
(* The tables of the drivers *)

LEMMA SensorKinds == Sensor \in {"bme280", "sht30", "mkr_env", "none"}
  BY DEF Sensor

LEMMA TheBeginSteps ==
  /\ Sensor = "bme280" => BeginSteps = bme280_begin
  /\ Sensor = "sht30" => BeginSteps = sht30_begin
  /\ Sensor = "mkr_env" => BeginSteps = mkr_env_begin
  /\ Sensor = "none" => BeginSteps = << >>
  BY DEF BeginSteps

LEMMA TheReadSteps ==
  /\ Sensor = "bme280" => ReadSteps = bme280_read
  /\ Sensor = "sht30" => ReadSteps = sht30_read
  /\ Sensor = "mkr_env" => ReadSteps = mkr_env_read
  /\ Sensor = "none" => ReadSteps = << >>
  BY DEF ReadSteps

\* The transactions of each begin() that leave something behind.
LEMMA BmeBegin ==
  /\ Len(bme280_begin) = 5
  /\ bme280_begin[1].op = "verify" /\ bme280_begin[2].op = "write"
  /\ bme280_begin[3].op = "wait" /\ bme280_begin[4].op = "load"
  /\ bme280_begin[5].op = "write" /\ bme280_begin[5].chip = "bme" /\ bme280_begin[5].on
  BY DEF bme280_begin, Step, Write

LEMMA ShtBegin ==
  /\ Len(sht30_begin) = 3
  /\ sht30_begin[1].op = "ask" /\ sht30_begin[2].op = "ask" /\ sht30_begin[3].op = "verify"
  BY DEF sht30_begin, Step

LEMMA MkrBegin ==
  /\ Len(mkr_env_begin) = 8
  /\ mkr_env_begin[1].op = "verify" /\ mkr_env_begin[2].op = "write"
  /\ mkr_env_begin[2].chip = "hts" /\ mkr_env_begin[2].on
  /\ mkr_env_begin[3].op = "load" /\ mkr_env_begin[4].op = "verify"
  /\ mkr_env_begin[5].op = "write" /\ mkr_env_begin[5].chip = "lps" /\ ~mkr_env_begin[5].on
  /\ mkr_env_begin[6].op = "write" /\ mkr_env_begin[6].chip = "lps" /\ mkr_env_begin[6].on
  /\ mkr_env_begin[7].op = "verify"
  /\ mkr_env_begin[8].op = "write" /\ mkr_env_begin[8].chip = "veml" /\ mkr_env_begin[8].on
  BY DEF mkr_env_begin, Step, Write

LEMMA TheReads ==
  /\ Len(bme280_read) = 2 /\ bme280_read[1].op = "ask"
  /\ bme280_read[2].op = "fetch" /\ bme280_read[2].chip = "bme"
  /\ Len(sht30_read) = 2 /\ sht30_read[1].op = "ask" /\ sht30_read[2].op = "check"
  /\ Len(mkr_env_read) = 3
  /\ mkr_env_read[1].op = "take" /\ mkr_env_read[1].chip = "hts"
  /\ mkr_env_read[2].op = "take" /\ mkr_env_read[2].chip = "lps"
  /\ mkr_env_read[3].op = "take" /\ mkr_env_read[3].chip = "veml"
  BY DEF bme280_read, sht30_read, mkr_env_read, Step

LEMMA BeginLen == Len(BeginSteps) \in 0 .. 8
  BY SensorKinds, TheBeginSteps, BmeBegin, ShtBegin, MkrBegin

LEMMA ReadLen ==
  /\ Sensor # "none" => Len(ReadSteps) \in 2 .. 3
  /\ Sensor = "none" => Len(ReadSteps) = 0
  <1>1. Len(bme280_read) = 2 /\ Len(sht30_read) = 2 /\ Len(mkr_env_read) = 3
    BY TheReads
  <1>2. Sensor # "none" => ReadSteps \in {bme280_read, sht30_read, mkr_env_read}
    BY SensorKinds, TheReadSteps
  <1>3. Sensor # "none" => Len(ReadSteps) = 2 \/ Len(ReadSteps) = 3
    BY <1>1, <1>2
  <1>4. Sensor = "none" => Len(ReadSteps) = 0
    BY TheReadSteps
  <1> QED BY <1>3, <1>4

\* A measurement is asked for first, and something follows.
LEMMA AskIsFirst ==
  ASSUME at \in Nat \ {0}, at <= Len(ReadSteps), ReadSteps[at].op = "ask"
  PROVE  at = 1 /\ Len(ReadSteps) = 2
  <1>1. at \in 1 .. 3
    <2>1. Len(ReadSteps) \in {0, 2, 3}
      BY ReadLen
    <2> QED BY <2>1
  <1>2. CASE at = 1
    BY <1>2, SensorKinds, TheReadSteps, TheReads
  <1>3. CASE at = 2
    BY <1>3, SensorKinds, TheReadSteps, TheReads
  <1>4. CASE at = 3
    BY <1>4, SensorKinds, TheReadSteps, TheReads
  <1> QED BY <1>1, <1>2, <1>3, <1>4

-----------------------------------------------------------------------------
(* What steps leave alone *)

LEMMA BuildStays == [Next]_vars => build' = build
  BY DEF Next, Program, Drivers, Environment, Answers, Publishes, vars, Begin, Read, Boot, BusMoves,
         Asked, Written, Waited, Loaded, BeginDone, MeasurementAsked, Fetched, Checked, Taken,
         NothingToRead, PublishSensorData, BatteryAlert, ReadFailed, MaybePublishDiag, GetStatus,
         GetDiag, RequestAnswered, Answer, LooksAtQueue, WindowOver

LEMMA SameBuild ==
  ASSUME build' = build
  PROVE  /\ Sensor' = Sensor /\ DeepSleep' = DeepSleep /\ Cycles' = Cycles
         /\ BeginSteps' = BeginSteps /\ ReadSteps' = ReadSteps
  BY DEF Sensor, DeepSleep, Cycles, BeginSteps, ReadSteps

-----------------------------------------------------------------------------
(* Messages *)

LEMMA NoVerdict == Verdict(OK, "none") \in Verdicts
  BY DEF Verdict, Verdicts, Messages, OK

LEMMA SentFields ==
  ASSUME NEW topic \in {"none", "silence", "sensors", "status", "diag", "capabilities", "commands"}
  PROVE  /\ Sent(topic).topic = topic /\ Sent(topic).about = "nothing" /\ Sent(topic) \in Message
         /\ DOMAIN Sent(topic) = {"topic", "lit", "used", "about", "verdict"}
  BY NoVerdict DEF Sent, Message

LEMMA Fields ==
  /\ Nothing.topic = "none" /\ Nothing.about = "nothing" /\ Nothing \in Message
  /\ Silence.topic = "silence" /\ Silence.about = "nothing" /\ Silence \in Message
  BY SentFields DEF Nothing, Silence

LEMMA SensorsFields ==
  ASSUME NEW lit \in BOOLEAN, NEW m, m = [Sent("sensors") EXCEPT !.lit = lit]
  PROVE  m.topic = "sensors" /\ m.about = "nothing" /\ m \in Message
  BY NoVerdict DEF Sent, Message

LEMMA StatusFields ==
  ASSUME NEW about \in {"battery", "snapshot"}, NEW v \in Verdicts
  PROVE  /\ StatusOf(about, v).topic = "status" /\ StatusOf(about, v).about = about
         /\ StatusOf(about, v).verdict = v /\ StatusOf(about, v) \in Message
  BY DEF StatusOf, Sent, Message

LEMMA VerdictType == \A d : diag_evaluate(d) \in Verdicts
  <1> SUFFICES ASSUME NEW d PROVE diag_evaluate(d) \in Verdicts
      OBVIOUS
  <1>1. Warnings(d) \in Verdicts
    BY DEF Warnings, Verdict, Verdicts, Messages, OK, WARNING
  <1>2. Infos(d) \in Verdicts
    BY DEF Infos, Verdict, Verdicts, Messages, OK, INFO
  <1> QED BY <1>1, <1>2 DEF diag_evaluate, Verdict, Verdicts, Messages, ERROR

LEMMA DiagMessageFields ==
  ASSUME NEW d, NEW used \in BOOLEAN
  PROVE  /\ publish_diag(d, used).topic = "diag" /\ publish_diag(d, used).about = "snapshot"
         /\ publish_diag(d, used).verdict = diag_evaluate(d) /\ publish_diag(d, used) \in Message
  BY VerdictType DEF publish_diag, Sent, Message

-----------------------------------------------------------------------------
(* Types *)

\* The steps that leave the messages alone.
DriverStep == (Drivers \/ Environment)

\* The driver's part of TypeOK, and at is 1 where no transaction comes next.
DriverType ==
  /\ SensorTypeOK
  /\ pc \in PCs
  /\ pc = "sleep" => DeepSleep
  /\ pc = "health" => Cycles
  /\ pc = "begin" => at <= Len(BeginSteps) + 1
  /\ pc = "read" /\ Sensor # "none" => at <= Len(ReadSteps)
  /\ pc # "begin" /\ (pc # "read" \/ Sensor = "none") => at = 1

ReportType ==
  /\ soc \in {"none", "fine", "low", "critical"}
  /\ data \in DiagData
  /\ message \in Message

LEMMA ReadStartsInside == Sensor # "none" => 1 <= Len(ReadSteps)
  <1>1. Sensor # "none" => Len(ReadSteps) \in 2 .. 3
    BY ReadLen
  <1> QED BY <1>1

LEMMA NoDataType == NoData \in DiagData
  BY DEF NoData, DiagData

LEMMA SnapshotType == build_diag_data \subseteq DiagData
  BY ReportsAssumption DEF build_diag_data

LEMMA InitTypes == Init => DriverType /\ ReportType
  <1> SUFFICES ASSUME Init PROVE DriverType /\ ReportType
      OBVIOUS
  <1>1. Len(BeginSteps) \in 0 .. 8
    BY BeginLen
  <1>2. DriverType
    <2>1. at = 1 /\ pc = "begin" /\ at <= Len(BeginSteps) + 1
      BY <1>1 DEF Init, SensorInit
    <2>2. SensorTypeOK
      <3>1. NoReading \in [valid : BOOLEAN, measured : BOOLEAN] /\ {} \subseteq Chips
        BY DEF NoReading
      <3>2. /\ build \in Builds /\ bus = "up" /\ disturbed = FALSE /\ started = {}
            /\ coefs = "none" /\ at = 1 /\ good = TRUE /\ reading = NoReading
        BY DEF Init, SensorInit
      <3>3. disturbed \in BOOLEAN /\ good \in BOOLEAN
        BY <3>2
      <3>4. at \in 1 .. 9
        BY <3>2
      <3> QED BY <3>1, <3>2, <3>3, <3>4 DEF SensorTypeOK
    <2> QED BY <2>1, <2>2 DEF DriverType, PCs
  <1>3. ReportType
    BY NoDataType, Fields DEF Init, ReportType
  <1> QED BY <1>2, <1>3

LEMMA BeginKeepsTypes ==
  ASSUME DriverType, Begin
  PROVE  DriverType'
  <1>1. build' = build
    BY DEF Begin, Asked, Written, Waited, Loaded, BeginDone
  <1>2. /\ Sensor' = Sensor /\ DeepSleep' = DeepSleep /\ Cycles' = Cycles
        /\ BeginSteps' = BeginSteps /\ ReadSteps' = ReadSteps
    BY <1>1, SameBuild
  <1>3. Len(BeginSteps) \in 0 .. 8 /\ (Sensor # "none" => 1 <= Len(ReadSteps))
    BY BeginLen, ReadStartsInside
  <1>4. SensorTypeOK
    BY DEF DriverType
  <1>5. at \in 1 .. 9
    BY <1>4 DEF SensorTypeOK
  <1>6. /\ pc' = "begin" => at' <= Len(BeginSteps) + 1
        /\ pc' = "read" /\ Sensor # "none" => at' <= Len(ReadSteps)
        /\ at' \in 1 .. 9 /\ pc' \in {"begin", "read", "sleep"} /\ (pc' = "sleep" => DeepSleep)
        /\ pc' # "begin" => at' = 1
    <2>1. CASE Asked
      BY <1>3, <1>5, <2>1 DEF Asked, Beginning, Passed, BeginFailed
    <2>2. CASE Written
      BY <1>3, <1>5, <2>2 DEF Written, Beginning, Passed
    <2>3. CASE Waited
      BY <1>3, <1>5, <2>3 DEF Waited, Beginning, Passed
    <2>4. CASE Loaded
      BY <1>3, <1>5, <2>4 DEF Loaded, Beginning, Passed
    <2>5. CASE BeginDone
      BY <1>3, <1>5, <2>5 DEF BeginDone
    <2> QED BY <2>1, <2>2, <2>3, <2>4, <2>5 DEF Begin
  <1>7. started' \subseteq Chips
    <2>1. CASE Written
      <3>1. Chip \in Chips
        <4>1. at <= Len(BeginSteps) /\ BeginSteps[at].op = "write"
          BY <2>1 DEF Written, Beginning
        <4>2. at \in 1 .. 8
          BY <1>3, <1>5, <4>1
        <4>3. CASE Sensor = "bme280"
          <5>1. at \in 1 .. 5 /\ bme280_begin[at].op = "write"
            <6>1. BeginSteps = bme280_begin /\ Len(BeginSteps) = 5
              BY <4>3, TheBeginSteps, BmeBegin
            <6>2. at \in 1 .. 5
              BY <4>1, <4>2, <6>1
            <6> QED BY <4>1, <6>1, <6>2
          <5>2. at = 2 \/ at = 5
            BY <5>1, BmeBegin
          <5>3. bme280_begin[2].chip = "bme" /\ bme280_begin[5].chip = "bme"
            BY DEF bme280_begin, Write, Step
          <5>4. Chip = "bme"
            BY <4>3, <5>2, <5>3, TheBeginSteps DEF Chip
          <5> QED BY <5>4 DEF Chips
        <4>4. CASE Sensor = "sht30"
          <5>1. at \in 1 .. 3 /\ sht30_begin[at].op = "write"
            <6>1. BeginSteps = sht30_begin /\ Len(BeginSteps) = 3
              BY <4>4, TheBeginSteps, ShtBegin
            <6>2. at \in 1 .. 3
              BY <4>1, <4>2, <6>1
            <6> QED BY <4>1, <6>1, <6>2
          <5> QED BY <5>1, ShtBegin
        <4>5. CASE Sensor = "mkr_env"
          BY <4>1, <4>2, <4>5, TheBeginSteps, MkrBegin DEF Chip, Chips
        <4>6. CASE Sensor = "none"
          BY <4>1, <4>2, <4>6, TheBeginSteps
        <4> QED BY <4>3, <4>4, <4>5, <4>6, SensorKinds
      <3> QED BY <1>4, <2>1, <3>1 DEF Written, SensorTypeOK
    <2>2. CASE ~Written
      BY <1>4, <2>2 DEF Begin, Asked, Waited, Loaded, BeginDone, chipVars, SensorTypeOK
    <2> QED BY <2>1, <2>2
  <1>8. /\ bus' = bus /\ good' = good /\ reading' = reading /\ disturbed' = disturbed
        /\ coefs' \in {"none", "true", "garbled"}
    BY <1>4 DEF Begin, Asked, Written, Waited, Loaded, BeginDone, chipVars, SensorTypeOK
  <1>9. SensorTypeOK'
    BY <1>1, <1>4, <1>6, <1>7, <1>8 DEF SensorTypeOK
  <1> QED BY <1>2, <1>6, <1>9 DEF DriverType, PCs

LEMMA ReadKeepsTypes ==
  ASSUME DriverType, Read
  PROVE  DriverType'
  <1>1. build' = build /\ chipVars' = chipVars /\ coefs' = coefs
    BY DEF Read, MeasurementAsked, Fetched, Checked, Taken, NothingToRead
  <1>2. /\ Sensor' = Sensor /\ DeepSleep' = DeepSleep /\ Cycles' = Cycles
        /\ BeginSteps' = BeginSteps /\ ReadSteps' = ReadSteps
    BY <1>1, SameBuild
  <1>3. /\ Sensor # "none" => Len(ReadSteps) \in 2 .. 3
        /\ Sensor = "none" => Len(ReadSteps) = 0
    BY ReadLen
  <1>4. SensorTypeOK /\ at \in 1 .. 9 /\ good \in BOOLEAN
    BY DEF DriverType, SensorTypeOK
  <1>5. /\ NoReading \in [valid : BOOLEAN, measured : BOOLEAN]
        /\ \A b \in BOOLEAN : [valid |-> TRUE, measured |-> b] \in [valid : BOOLEAN, measured : BOOLEAN]
        /\ reading \in [valid : BOOLEAN, measured : BOOLEAN]
    BY DEF NoReading, DriverType, SensorTypeOK
  <1>6. /\ pc' \in {"read", "invalid", "publish"} /\ at' \in 1 .. 9 /\ good' \in BOOLEAN
        /\ pc' = "read" /\ Sensor # "none" => at' <= Len(ReadSteps)
        /\ pc' # "read" \/ Sensor = "none" => at' = 1
        /\ reading' \in [valid : BOOLEAN, measured : BOOLEAN]
    <2>1. CASE MeasurementAsked
      <3>1. at = 1 /\ Len(ReadSteps) = 2 /\ pc = "read" /\ Sensor # "none"
        BY <1>3, <1>4, <2>1, AskIsFirst DEF MeasurementAsked, Reading
      <3>2. PICK h \in Heard : IF h = "lost" THEN Invalid
                              ELSE at' = at + 1 /\ good' = (h = "clean") /\ UNCHANGED <<pc, reading>>
        BY <2>1 DEF MeasurementAsked
      <3>3. CASE h = "lost"
        BY <1>5, <3>2, <3>3 DEF Invalid, Answered
      <3>4. CASE h # "lost"
        <4>1. at' = 2 /\ pc' = "read" /\ reading' = reading
          BY <3>1, <3>2, <3>4
        <4>2. good' \in BOOLEAN
          BY <3>2, <3>4
        <4> QED BY <1>5, <3>1, <4>1, <4>2
      <3> QED BY <3>3, <3>4
    <2>2. CASE Fetched
      <3>1. Invalid \/ \E b \in BOOLEAN : Valid(b)
        BY <2>2 DEF Fetched
      <3>2. CASE Invalid
        BY <1>5, <3>2 DEF Invalid, Answered
      <3>3. CASE \E b \in BOOLEAN : Valid(b)
        BY <1>5, <3>3 DEF Valid, Answered
      <3> QED BY <3>1, <3>2, <3>3
    <2>3. CASE Checked
      <3>1. Invalid \/ \E b \in BOOLEAN : Valid(b)
        BY <2>3 DEF Checked
      <3>2. CASE Invalid
        BY <1>5, <3>2 DEF Invalid, Answered
      <3>3. CASE \E b \in BOOLEAN : Valid(b)
        BY <1>5, <3>3 DEF Valid, Answered
      <3> QED BY <3>1, <3>2, <3>3
    <2>4. CASE Taken
      <3>1. pc = "read" /\ at <= Len(ReadSteps) /\ Len(ReadSteps) \in {0, 2, 3}
        BY <1>3, <2>4 DEF Taken, Reading
      <3>2. at # Len(ReadSteps) => at + 1 <= Len(ReadSteps) /\ at + 1 \in 1 .. 9
        <4> DEFINE n == Len(ReadSteps)
        <4>1. at \in 1 .. 9 /\ at <= n /\ n \in {0, 2, 3}
          BY <1>4, <3>1
        <4> HIDE DEF n
        <4>2. at # n => at + 1 <= n /\ at + 1 \in 1 .. 9
          BY <4>1
        <4> QED BY <4>2 DEF n
      <3>3. \/ \E b \in BOOLEAN : Valid(b)
            \/ /\ at # Len(ReadSteps) /\ at' = at + 1 /\ UNCHANGED <<pc, reading>>
               /\ \E b \in BOOLEAN : good' = b
        BY <2>4 DEF Taken
      <3>4. Sensor # "none"
        <4>1. at >= 1 /\ Len(ReadSteps) # 0
          BY <1>4, <3>1
        <4> QED BY <1>3, <4>1
      <3>5. CASE \E b \in BOOLEAN : Valid(b)
        BY <1>5, <3>5 DEF Valid, Answered
      <3>6. CASE /\ at # Len(ReadSteps) /\ at' = at + 1 /\ UNCHANGED <<pc, reading>>
                 /\ \E b \in BOOLEAN : good' = b
        BY <1>5, <3>1, <3>2, <3>4, <3>6
      <3> QED BY <3>3, <3>5, <3>6
    <2>5. CASE NothingToRead
      <3>1. at = 1 /\ pc' = "publish" /\ UNCHANGED <<at, good, reading>>
        BY <2>5 DEF NothingToRead, DriverType
      <3> QED BY <1>4, <1>5, <3>1
    <2> QED BY <2>1, <2>2, <2>3, <2>4, <2>5 DEF Read
  <1>7. SensorTypeOK'
    BY <1>1, <1>4, <1>6 DEF SensorTypeOK, chipVars
  <1> QED BY <1>2, <1>6, <1>7 DEF DriverType, PCs

LEMMA WiresKeepTypes ==
  ASSUME DriverType, BusMoves \/ Boot
  PROVE  DriverType'
  <1>1. build' = build
    BY DEF BusMoves, Boot
  <1>2. /\ Sensor' = Sensor /\ DeepSleep' = DeepSleep /\ Cycles' = Cycles
        /\ BeginSteps' = BeginSteps /\ ReadSteps' = ReadSteps
    BY <1>1, SameBuild
  <1>3. Len(BeginSteps) \in 0 .. 8
    BY BeginLen
  <1>4. CASE BusMoves
    BY <1>1, <1>2, <1>4 DEF BusMoves, driverVars, DriverType, SensorTypeOK
  <1>5. CASE Boot
    BY <1>1, <1>2, <1>3, <1>5 DEF Boot, DriverType, SensorTypeOK, NoReading, PCs
  <1> QED BY <1>4, <1>5

LEMMA ReportsKeepTypes ==
  ASSUME DriverType, ReportType, Publishes \/ Answers \/ LooksAtQueue \/ WindowOver
  PROVE  DriverType' /\ ReportType'
  <1>1. /\ build' = build /\ chipVars' = chipVars
        /\ UNCHANGED <<at, coefs, good, reading>>
    BY DEF Publishes, Answers, PublishSensorData, BatteryAlert, ReadFailed, MaybePublishDiag,
           GetStatus, GetDiag, RequestAnswered, Answer, LooksAtQueue, WindowOver
  <1>2. /\ Sensor' = Sensor /\ DeepSleep' = DeepSleep /\ Cycles' = Cycles
        /\ BeginSteps' = BeginSteps /\ ReadSteps' = ReadSteps
    BY <1>1, SameBuild
  <1>3. SensorTypeOK'
    BY <1>1 DEF DriverType, SensorTypeOK, chipVars
  <1> USE DEF ReportType
  <1>4. CASE PublishSensorData
    <2>1. pc' = "alert" /\ soc' \in Charges /\ data' = data
      BY <1>4 DEF PublishSensorData
    <2>2. PICK lit \in Lit : message' = [Sent("sensors") EXCEPT !.lit = lit]
      BY <1>4 DEF PublishSensorData
    <2>3. lit \in BOOLEAN
      BY DEF Lit
    <2>4. message' \in Message
      BY <2>2, <2>3, SensorsFields
    <2>5. at' = 1
      BY <1>1, <1>4 DEF PublishSensorData, DriverType
    <2> QED BY <1>3, <2>1, <2>4, <2>5 DEF DriverType, PCs, Charges
  <1>5. CASE BatteryAlert
    <2>1. message' \in Message
      <3>1. Verdict(ERROR, "critical_battery") \in Verdicts /\ Verdict(WARNING, "low_battery") \in Verdicts
        BY DEF Verdict, Verdicts, Messages, ERROR, WARNING
      <3> QED BY <1>5, <3>1, StatusFields, Fields DEF BatteryAlert
    <2>2. pc' \in {"health", "sent"} /\ (pc' = "health" => Cycles)
      BY <1>5 DEF BatteryAlert, AfterPublish
    <2> QED BY <1>2, <1>3, <1>5, <2>1, <2>2 DEF BatteryAlert, DriverType, PCs
  <1>6. CASE ReadFailed
    <2>1. at = 1 /\ at' = at
      BY <1>1, <1>6 DEF ReadFailed, DriverType
    <2>2. pc' \in {"health", "read", "sent"} /\ (pc' = "health" => DeepSleep)
      BY <1>6 DEF ReadFailed
    <2>3. message' \in Message /\ soc' = soc /\ data' = data
      BY <1>6, Fields DEF ReadFailed
    <2> QED BY <1>2, <1>3, <2>1, <2>2, <2>3, ReadStartsInside DEF DriverType, PCs, Cycles
  <1>7. CASE MaybePublishDiag
    <2>1. PICK d \in build_diag_data, used \in BOOLEAN, confirm \in BOOLEAN :
             /\ data' = d
             /\ message' = IF WorthReporting(d, confirm) THEN publish_diag(d, used) ELSE Silence
      BY <1>7 DEF MaybePublishDiag
    <2>2. message' \in Message /\ data' \in DiagData
      BY <2>1, SnapshotType, DiagMessageFields, Fields
    <2> QED BY <1>3, <1>7, <2>2 DEF MaybePublishDiag, DriverType, PCs
  <1>8. CASE Answers
    <2>1. pc' = "sent" /\ soc' = soc
      BY <1>8 DEF Answers, GetStatus, GetDiag, RequestAnswered, Answer
    <2>2. message' \in Message /\ data' \in DiagData
      <3>1. CASE GetStatus
        BY <3>1, SnapshotType, VerdictType, StatusFields DEF GetStatus
      <3>2. CASE GetDiag
        BY <3>2, SnapshotType, DiagMessageFields DEF GetDiag
      <3>3. CASE RequestAnswered
        BY <3>3, SentFields DEF RequestAnswered
      <3> QED BY <1>8, <3>1, <3>2, <3>3 DEF Answers
    <2>3. at' = 1
      BY <1>1, <1>8 DEF Answers, GetStatus, GetDiag, RequestAnswered, Answer, DriverType
    <2> QED BY <1>3, <2>1, <2>2, <2>3 DEF DriverType, PCs
  <1>9. CASE LooksAtQueue
    BY <1>3, <1>9, NoDataType, Fields DEF LooksAtQueue, DriverType, PCs
  <1>10. CASE WindowOver
    <2>1. at = 1 /\ at' = at
      BY <1>1, <1>10 DEF WindowOver, DriverType
    <2>2. pc' \in {"sleep", "read"} /\ (pc' = "sleep" => DeepSleep) /\ UNCHANGED reportVars
      BY <1>10 DEF WindowOver
    <2> QED BY <1>2, <1>3, <2>1, <2>2, ReadStartsInside DEF DriverType, PCs, reportVars
  <1> QED BY <1>4, <1>5, <1>6, <1>7, <1>8, <1>9, <1>10 DEF Publishes

LEMMA TypesKept == DriverType /\ ReportType /\ [Next]_vars => DriverType' /\ ReportType'
  <1> SUFFICES ASSUME DriverType, ReportType, [Next]_vars PROVE DriverType' /\ ReportType'
      OBVIOUS
  <1>1. CASE Drivers
    <2>1. ReportType'
      BY <1>1 DEF Drivers, reportVars, ReportType
    <2> QED BY <1>1, <2>1, BeginKeepsTypes, ReadKeepsTypes, WiresKeepTypes DEF Drivers
  <1>2. CASE Environment
    <2>1. ReportType'
      BY <1>2 DEF Environment, reportVars, ReportType
    <2> QED BY <1>2, <2>1, WiresKeepTypes DEF Environment
  <1>3. CASE Publishes \/ Answers \/ LooksAtQueue \/ WindowOver
    BY <1>3, ReportsKeepTypes
  <1>4. CASE UNCHANGED vars
    <2>1. build' = build /\ chipVars' = chipVars /\ driverVars' = driverVars
          /\ reportVars' = reportVars
      BY <1>4 DEF vars
    <2>2. /\ Sensor' = Sensor /\ DeepSleep' = DeepSleep /\ Cycles' = Cycles
          /\ BeginSteps' = BeginSteps /\ ReadSteps' = ReadSteps
      BY <2>1, SameBuild
    <2> QED BY <2>1, <2>2 DEF chipVars, driverVars, reportVars, DriverType, SensorTypeOK, ReportType
  <1> QED BY <1>1, <1>2, <1>3, <1>4 DEF Next, Program

\* Every variable keeps its type, and the place in a driver's list stays in the list.
THEOREM ReportsTypeCorrectness == Spec => []TypeOK
  <1>1. Init => DriverType /\ ReportType
    BY InitTypes
  <1>2. DriverType /\ ReportType /\ [Next]_vars => DriverType' /\ ReportType'
    BY TypesKept
  <1>3. DriverType /\ ReportType => TypeOK
    BY DEF DriverType, ReportType, TypeOK
  <1> QED BY <1>1, <1>2, <1>3, PTL DEF Spec

-----------------------------------------------------------------------------
(* Health, of every state *)

HealthInv ==
  /\ message.about = "snapshot" => data \in DiagData /\ message.verdict = diag_evaluate(data)
  /\ message.topic = "silence" => data \in DiagData /\ diag_evaluate(data).level < WARNING

LEMMA NotReportingIsBelow ==
  ASSUME NEW d, NEW confirm \in BOOLEAN, ~WorthReporting(d, confirm)
  PROVE  diag_evaluate(d).level < WARNING
  <1>1. diag_evaluate(d).level \in 0 .. 3
    BY VerdictType DEF Verdicts
  <1> QED BY <1>1 DEF WorthReporting, WARNING

LEMMA HealthInvStep ==
  ASSUME HealthInv, [Next]_vars
  PROVE  HealthInv'
  <1>1. CASE UNCHANGED reportVars
    BY <1>1 DEF HealthInv, reportVars
  <1>2. CASE PublishSensorData
    <2>1. PICK lit \in Lit : message' = [Sent("sensors") EXCEPT !.lit = lit]
      BY <1>2 DEF PublishSensorData
    <2>2. message'.topic = "sensors" /\ message'.about = "nothing"
      BY <2>1, SensorsFields DEF Lit
    <2> QED BY <2>2 DEF HealthInv
  <1>3. CASE BatteryAlert
    <2>1. Verdict(ERROR, "critical_battery") \in Verdicts /\ Verdict(WARNING, "low_battery") \in Verdicts
      BY DEF Verdict, Verdicts, Messages, ERROR, WARNING
    <2>2. message'.about # "snapshot" /\ message'.topic # "silence"
      BY <1>3, <2>1, StatusFields, Fields DEF BatteryAlert
    <2> QED BY <2>2 DEF HealthInv
  <1>4. CASE ReadFailed \/ LooksAtQueue
    BY <1>4, Fields DEF ReadFailed, LooksAtQueue, HealthInv
  <1>5. CASE MaybePublishDiag
    <2>1. PICK d \in build_diag_data, used \in BOOLEAN, confirm \in BOOLEAN :
             /\ data' = d
             /\ message' = IF WorthReporting(d, confirm) THEN publish_diag(d, used) ELSE Silence
      BY <1>5 DEF MaybePublishDiag
    <2>2. d \in DiagData
      BY SnapshotType
    <2>3. CASE WorthReporting(d, confirm)
      BY <2>1, <2>2, <2>3, DiagMessageFields DEF HealthInv
    <2>4. CASE ~WorthReporting(d, confirm)
      BY <2>1, <2>2, <2>4, Fields, NotReportingIsBelow DEF HealthInv
    <2> QED BY <2>3, <2>4
  <1>6. CASE GetStatus
    <2>1. PICK d \in build_diag_data :
             data' = d /\ message' = StatusOf("snapshot", diag_evaluate(d))
      BY <1>6 DEF GetStatus
    <2> QED BY <2>1, SnapshotType, VerdictType, StatusFields DEF HealthInv
  <1>7. CASE GetDiag
    <2>1. PICK d \in build_diag_data, used \in BOOLEAN : data' = d /\ message' = publish_diag(d, used)
      BY <1>7 DEF GetDiag
    <2> QED BY <2>1, SnapshotType, DiagMessageFields DEF HealthInv
  <1>8. CASE RequestAnswered
    <2>1. message'.about = "nothing" /\ message'.topic # "silence"
      BY <1>8, SentFields DEF RequestAnswered
    <2> QED BY <2>1 DEF HealthInv
  <1>9. Drivers \/ Environment \/ WindowOver \/ UNCHANGED vars => UNCHANGED reportVars
    BY DEF Drivers, Environment, WindowOver, vars
  <1> QED BY <1>1, <1>2, <1>3, <1>4, <1>5, <1>6, <1>7, <1>8, <1>9 DEF Next, Program, Publishes, Answers

\* Whatever build_diag_data() finds, the health reported is the worst condition that
\* holds, and no snapshot is withheld when one is a warning.
THEOREM HealthReported == Spec => []HealthIsWorst
  <1>1. Init => HealthInv
    BY Fields DEF Init, HealthInv
  <1>2. HealthInv /\ [Next]_vars => HealthInv'
    BY HealthInvStep
  <1>3. HealthInv => HealthIsWorst
    <2> SUFFICES ASSUME HealthInv PROVE HealthIsWorst
        OBVIOUS
    <2>1. message.about = "snapshot" => IsWorst(data, message.verdict)
      BY LadderIsTable DEF HealthInv
    <2>2. ASSUME message.topic = "silence" PROVE \A c \in Conditions(data) : c.level < WARNING
      <3>1. data \in DiagData /\ diag_evaluate(data).level < WARNING
        BY <2>2 DEF HealthInv
      <3>2. \A c \in Conditions(data) : c.level <= diag_evaluate(data).level
        BY <3>1, LadderIsTable DEF IsWorst
      <3>3. \A c \in Conditions(data) : c.level \in 0 .. 3
        BY LevelOfErrors, LevelOfCautions, LevelOfNotices DEF Conditions, Verdict, OK
      <3>4. diag_evaluate(data).level \in 0 .. 3
        BY VerdictType DEF Verdicts
      <3> QED BY <3>1, <3>2, <3>3, <3>4 DEF WARNING
    <2> QED BY <2>1, <2>2 DEF HealthIsWorst
  <1> QED BY <1>1, <1>2, <1>3, PTL DEF Spec

-----------------------------------------------------------------------------
(* Valid readings *)

\* What the first n transactions of a begin() nothing disturbed leave behind.
Prepared(n) ==
  /\ Sensor = "bme280" => /\ n >= 4 => coefs = "true"
                          /\ n >= 5 => "bme" \in started
  /\ Sensor = "mkr_env" => /\ n >= 2 => "hts" \in started
                           /\ n >= 3 => coefs = "true"
                           /\ n >= 6 => "lps" \in started
                           /\ n >= 8 => "veml" \in started

\* While nothing has disturbed the bus since the boot: begin() has prepared what it has
\* got to, all of it before the first read, and no read has failed.
Quiet ==
  /\ bus = "up"
  /\ pc = "begin" => Prepared(at - 1)
  /\ pc \notin {"begin", "sleep"} => Prepared(8)
  /\ good
  /\ pc # "invalid"
  /\ reading.valid => reading.measured

MeasuredInv ==
  /\ ~disturbed => Quiet
  /\ Sensor = "sht30" /\ reading.valid => reading.measured

LEMMA QuietBegin ==
  ASSUME DriverType, ~disturbed, Quiet, Begin
  PROVE  Quiet' /\ reading' = reading
  <1>1. Heard = {"clean"}
    BY DEF Heard, Quiet
  <1>2. UNCHANGED <<bus, good, reading>> /\ build' = build
    BY DEF Begin, Asked, Written, Waited, Loaded, BeginDone, chipVars
  <1>3. Sensor' = Sensor /\ BeginSteps' = BeginSteps
    BY <1>2, SameBuild
  <1>4. at \in 1 .. 9 /\ pc = "begin" /\ Prepared(at - 1)
    BY DEF Begin, Asked, Written, Waited, Loaded, BeginDone, Beginning, Quiet, DriverType,
           SensorTypeOK
  <1>5. CASE BeginDone
    <2>1. at > Len(BeginSteps) /\ UNCHANGED <<started, coefs>> /\ pc' = "read"
      BY <1>5 DEF BeginDone, chipVars
    <2>2. Prepared(8)'
      <3>1. CASE Sensor = "bme280"
        <4>1. Len(BeginSteps) = 5
          BY <3>1, TheBeginSteps, BmeBegin
        <4>2. at - 1 >= 4 /\ at - 1 >= 5
          BY <1>4, <2>1, <4>1
        <4> QED BY <1>3, <1>4, <2>1, <3>1, <4>2 DEF Prepared
      <3>2. CASE Sensor = "mkr_env"
        <4>1. Len(BeginSteps) = 8
          BY <3>2, TheBeginSteps, MkrBegin
        <4>2. at - 1 >= 2 /\ at - 1 >= 3 /\ at - 1 >= 6 /\ at - 1 >= 8
          BY <1>4, <2>1, <4>1
        <4> QED BY <1>3, <1>4, <2>1, <3>2, <4>2 DEF Prepared
      <3>3. CASE Sensor \notin {"bme280", "mkr_env"}
        BY <1>3, <3>3 DEF Prepared
      <3> QED BY <3>1, <3>2, <3>3
    <2> QED BY <1>2, <2>1, <2>2 DEF Quiet
  <1>6. CASE ~BeginDone
    <2>1. at <= Len(BeginSteps) /\ at' = at + 1 /\ pc' = pc
      BY <1>1, <1>6 DEF Begin, Asked, Written, Waited, Loaded, Beginning, Passed
    <2>2. /\ BeginSteps[at].op = "load" => coefs' = "true"
          /\ BeginSteps[at].op # "load" => coefs' = coefs
      BY <1>1, <1>6 DEF Begin, Asked, Written, Waited, Loaded, Beginning
    <2>3. /\ BeginSteps[at].op # "write" => started' = started
          /\ BeginSteps[at].op = "write" =>
                started' = IF BeginSteps[at].on THEN started \cup {BeginSteps[at].chip}
                           ELSE started \ {BeginSteps[at].chip}
      BY <1>1, <1>6 DEF Begin, Asked, Written, Waited, Loaded, Beginning, chipVars, Chip
    <2>4. ASSUME NEW n, n = at PROVE Prepared(n)'
      <3>1. CASE Sensor = "bme280"
        <4>1. BeginSteps = bme280_begin /\ Len(BeginSteps) = 5
          BY <3>1, TheBeginSteps, BmeBegin
        <4>2. at \in 1 .. 5
          BY <1>4, <2>1, <4>1
        <4>3. at - 1 >= 4 => coefs = "true"
          BY <1>4, <3>1 DEF Prepared
        <4>4. at >= 4 => coefs' = "true"
          <5>1. CASE at = 4
            BY <2>2, <4>1, <5>1, BmeBegin
          <5>2. CASE at = 5
            BY <2>2, <4>1, <4>3, <5>2, BmeBegin
          <5> QED BY <4>2, <5>1, <5>2
        <4>5. at >= 5 => "bme" \in started'
          <5>1. CASE at = 5
            BY <2>3, <4>1, <5>1, BmeBegin
          <5> QED BY <4>2, <5>1
        <4> QED BY <1>3, <2>4, <3>1, <4>2, <4>4, <4>5 DEF Prepared
      <3>2. CASE Sensor = "mkr_env"
        <4>1. BeginSteps = mkr_env_begin /\ Len(BeginSteps) = 8
          BY <3>2, TheBeginSteps, MkrBegin
        <4>2. at \in 1 .. 8
          BY <1>4, <2>1, <4>1
        <4>3. /\ at - 1 >= 2 => "hts" \in started
              /\ at - 1 >= 3 => coefs = "true"
              /\ at - 1 >= 6 => "lps" \in started
          BY <1>4, <3>2 DEF Prepared
        <4>4. at = 3 => coefs' = "true"
          BY <2>2, <4>1, MkrBegin
        <4>5. at # 3 => coefs' = coefs
          <5>1. at # 3 => BeginSteps[at].op # "load"
            BY <4>1, <4>2, MkrBegin
          <5> QED BY <2>2, <5>1
        <4>6. /\ at = 2 => "hts" \in started'
              /\ at = 6 => "lps" \in started'
              /\ at = 8 => "veml" \in started'
          BY <2>3, <4>1, MkrBegin
        <4>7. /\ at # 5 => started \subseteq started'
              /\ "hts" \in started => "hts" \in started'
          <5>1. at \in {1, 3, 4, 7} => started' = started
            BY <2>3, <4>1, MkrBegin
          <5>2. at \in {2, 6, 8} => started \subseteq started'
            BY <2>3, <4>1, MkrBegin
          <5>3. at = 5 => started' = started \ {"lps"}
            BY <2>3, <4>1, MkrBegin
          <5> QED BY <4>2, <5>1, <5>2, <5>3
        <4>8. at >= 2 => "hts" \in started'
          <5>1. CASE at = 2
            BY <4>6, <5>1
          <5>2. CASE at > 2
            <6>1. at - 1 >= 2
              BY <4>2, <5>2
            <6> QED BY <4>3, <4>7, <6>1
          <5> QED BY <4>2, <5>1, <5>2
        <4>9. at >= 3 => coefs' = "true"
          <5>1. CASE at = 3
            BY <4>4, <5>1
          <5>2. CASE at > 3
            <6>1. at - 1 >= 3 /\ at # 3
              BY <4>2, <5>2
            <6> QED BY <4>3, <4>5, <6>1
          <5> QED BY <4>2, <5>1, <5>2
        <4>10. at >= 6 => "lps" \in started'
          <5>1. CASE at = 6
            BY <4>6, <5>1
          <5>2. CASE at > 6
            <6>1. at - 1 >= 6 /\ at # 5
              BY <4>2, <5>2
            <6> QED BY <4>3, <4>7, <6>1
          <5> QED BY <4>2, <5>1, <5>2
        <4>11. at >= 8 => "veml" \in started'
          <5>1. at >= 8 => at = 8
            BY <4>2
          <5> QED BY <4>6, <5>1
        <4> QED BY <1>3, <2>4, <3>2, <4>8, <4>9, <4>10, <4>11 DEF Prepared
      <3>3. CASE Sensor \notin {"bme280", "mkr_env"}
        BY <1>3, <3>3 DEF Prepared
      <3> QED BY <3>1, <3>2, <3>3
    <2>5. at' - 1 = at
      BY <1>4, <2>1
    <2>6. Prepared(at - 1)'
      BY <2>4, <2>5 DEF Prepared
    <2> QED BY <1>2, <1>4, <2>1, <2>6 DEF Quiet
  <1> QED BY <1>2, <1>5, <1>6

\* Which driver reads in which way.
LEMMA WhoReads ==
  ASSUME at \in 1 .. 9, at <= Len(ReadSteps)
  PROVE  /\ ReadSteps[at].op = "fetch" => Sensor = "bme280" /\ ReadSteps[at].chip = "bme"
         /\ ReadSteps[at].op = "check" => Sensor = "sht30"
         /\ ReadSteps[at].op = "take" =>
               Sensor = "mkr_env" /\ ReadSteps[at].chip \in {"hts", "lps", "veml"}
  <1>1. CASE Sensor = "bme280"
    <2>1. ReadSteps = bme280_read /\ Len(ReadSteps) = 2
      BY <1>1, TheReadSteps, TheReads
    <2>2. at = 1 \/ at = 2
      BY <2>1
    <2> QED BY <1>1, <2>1, <2>2, TheReads
  <1>2. CASE Sensor = "sht30"
    <2>1. ReadSteps = sht30_read /\ Len(ReadSteps) = 2
      BY <1>2, TheReadSteps, TheReads
    <2>2. at = 1 \/ at = 2
      BY <2>1
    <2> QED BY <1>2, <2>1, <2>2, TheReads
  <1>3. CASE Sensor = "mkr_env"
    <2>1. ReadSteps = mkr_env_read /\ Len(ReadSteps) = 3
      BY <1>3, TheReadSteps, TheReads
    <2>2. at = 1 \/ at = 2 \/ at = 3
      BY <2>1
    <2> QED BY <1>3, <2>1, <2>2, TheReads
  <1>4. CASE Sensor = "none"
    <2>1. Len(ReadSteps) = 0
      BY <1>4, ReadLen
    <2> QED BY <2>1
  <1> QED BY <1>1, <1>2, <1>3, <1>4, SensorKinds

LEMMA QuietRead ==
  ASSUME DriverType, ~disturbed, Quiet, Read
  PROVE  Quiet'
  <1>1. Heard = {"clean"}
    BY DEF Heard, Quiet
  <1>2. UNCHANGED <<bus, started, coefs>> /\ build' = build /\ pc = "read" /\ good
    BY DEF Read, MeasurementAsked, Fetched, Checked, Taken, NothingToRead, Reading, chipVars, Quiet
  <1>3. at \in 1 .. 9
    BY DEF DriverType, SensorTypeOK
  <1>4. Prepared(8)
    BY <1>2 DEF Quiet
  <1>5. Prepared(8)'
    BY <1>2, <1>4, SameBuild DEF Prepared
  <1>6. pc' \in {"read", "publish"} /\ good' /\ (reading'.valid => reading'.measured)
    <2>1. CASE MeasurementAsked
      BY <1>1, <1>2, <2>1 DEF MeasurementAsked, Quiet
    <2>2. CASE Fetched
      <3>1. Sensor = "bme280" /\ ReadSteps[at].chip = "bme"
        BY <1>3, <2>2, WhoReads DEF Fetched, Reading
      <3>2. Measures /\ coefs = "true"
        <4>1. (8 >= 4 => coefs = "true") /\ (8 >= 5 => "bme" \in started)
          BY <1>4, <3>1 DEF Prepared
        <4> QED BY <3>1, <4>1 DEF Measures
      <3>3. Valid(good /\ "clean" = "clean" /\ Measures /\ (coefs = "true" \/ Sensor = "sht30"))
        BY <1>1, <2>2 DEF Fetched
      <3> QED BY <1>2, <3>2, <3>3 DEF Valid, Answered
    <2>3. CASE Checked
      BY <1>1, <1>2, <2>3 DEF Checked, Valid, Answered
    <2>4. CASE Taken
      <3>1. Sensor = "mkr_env" /\ ReadSteps[at].chip \in {"hts", "lps", "veml"}
        BY <1>3, <2>4, WhoReads DEF Taken, Reading
      <3>2. Measures /\ coefs = "true"
        <4>1. /\ 8 >= 2 => "hts" \in started
              /\ 8 >= 3 => coefs = "true"
              /\ 8 >= 6 => "lps" \in started
              /\ 8 >= 8 => "veml" \in started
          BY <1>4, <3>1 DEF Prepared
        <4> QED BY <3>1, <4>1 DEF Measures
      <3>3. good /\ "clean" = "clean" /\ Measures
        BY <1>2, <3>2
      <3>4. IF at = Len(ReadSteps) THEN Valid(good /\ "clean" = "clean" /\ Measures /\ coefs = "true")
            ELSE /\ at' = at + 1 /\ good' = (good /\ "clean" = "clean" /\ Measures)
                 /\ UNCHANGED <<pc, reading>>
        BY <1>1, <2>4 DEF Taken
      <3>5. CASE at = Len(ReadSteps)
        <4>1. Valid(good /\ "clean" = "clean" /\ Measures /\ coefs = "true")
          BY <3>4, <3>5
        <4> QED BY <1>2, <3>2, <4>1 DEF Valid, Answered
      <3>6. CASE at # Len(ReadSteps)
        <4>1. good' /\ UNCHANGED <<pc, reading>>
          BY <3>3, <3>4, <3>6
        <4> QED BY <1>2, <4>1 DEF Quiet
      <3> QED BY <3>5, <3>6
    <2>5. CASE NothingToRead
      BY <1>2, <2>5 DEF NothingToRead, Quiet
    <2> QED BY <2>1, <2>2, <2>3, <2>4, <2>5 DEF Read
  <1> QED BY <1>2, <1>5, <1>6 DEF Quiet

\* The checksums of an SHT30 hold on any bus.
LEMMA ShtRead ==
  ASSUME DriverType, Sensor = "sht30", reading.valid => reading.measured, Read
  PROVE  reading'.valid => reading'.measured
  <1>1. at \in 1 .. 9
    BY DEF DriverType, SensorTypeOK
  <1>2. ~NoReading.valid
    BY DEF NoReading
  <1>3. CASE MeasurementAsked
    BY <1>2, <1>3 DEF MeasurementAsked, Invalid
  <1>4. CASE Fetched
    BY <1>1, <1>4, WhoReads DEF Fetched, Reading
  <1>5. CASE Checked
    BY <1>2, <1>5 DEF Checked, Invalid, Valid
  <1>6. CASE Taken
    BY <1>1, <1>6, WhoReads DEF Taken, Reading
  <1>7. CASE NothingToRead
    BY <1>7 DEF NothingToRead
  <1> QED BY <1>3, <1>4, <1>5, <1>6, <1>7 DEF Read

LEMMA MeasuredInvStep ==
  ASSUME DriverType, MeasuredInv, [Next]_vars
  PROVE  MeasuredInv'
  <1>1. build' = build
    BY BuildStays
  <1>2. Sensor' = Sensor /\ BeginSteps' = BeginSteps
    BY <1>1, SameBuild
  <1>3. CASE Begin
    <2>1. disturbed' = disturbed /\ reading' = reading
      BY <1>3 DEF Begin, Asked, Written, Waited, Loaded, BeginDone, chipVars
    <2> QED BY <1>2, <1>3, <2>1, QuietBegin DEF MeasuredInv
  <1>4. CASE Read
    <2>1. disturbed' = disturbed
      BY <1>4 DEF Read, MeasurementAsked, Fetched, Checked, Taken, NothingToRead, chipVars
    <2> QED BY <1>2, <1>4, <2>1, QuietRead, ShtRead DEF MeasuredInv
  <1>5. CASE Boot
    <2>1. /\ pc' = "begin" /\ at' = 1 /\ good' /\ reading' = NoReading /\ bus' = bus
          /\ disturbed' = (bus # "up")
      BY <1>5 DEF Boot
    <2>2. Prepared(at - 1)'
      <3>1. at' - 1 = 0
        BY <2>1
      <3> QED BY <3>1 DEF Prepared
    <2> QED BY <2>1, <2>2 DEF MeasuredInv, Quiet, NoReading
  <1>6. CASE BusMoves
    <2>1. bus' # bus /\ bus' \in {"up", "noisy", "down"} /\ disturbed' = (disturbed \/ bus' # "up")
          /\ reading' = reading
      BY <1>6 DEF BusMoves, driverVars
    <2>2. disturbed'
      BY <2>1 DEF MeasuredInv, Quiet
    <2> QED BY <1>2, <2>1, <2>2 DEF MeasuredInv
  <1>7. CASE Publishes \/ Answers \/ LooksAtQueue \/ WindowOver
    <2>1. UNCHANGED <<bus, started, disturbed, coefs, good, reading>>
      BY <1>7 DEF Publishes, Answers, PublishSensorData, BatteryAlert, ReadFailed, MaybePublishDiag,
             GetStatus, GetDiag, RequestAnswered, Answer, LooksAtQueue, WindowOver, chipVars
    <2>2. Prepared(8) <=> Prepared(8)'
      BY <1>2, <2>1 DEF Prepared
    <2>3. pc' \in {"alert", "health", "sent", "read", "window", "sleep"}
      BY <1>7 DEF Publishes, Answers, PublishSensorData, BatteryAlert, ReadFailed, MaybePublishDiag,
             GetStatus, GetDiag, RequestAnswered, Answer, LooksAtQueue, WindowOver, AfterPublish
    <2>4. pc \in {"publish", "alert", "invalid", "health", "sent", "window"}
      BY <1>7 DEF Publishes, Answers, PublishSensorData, BatteryAlert, ReadFailed, MaybePublishDiag,
             GetStatus, GetDiag, RequestAnswered, Answer, LooksAtQueue, WindowOver
    <2> QED BY <1>2, <2>1, <2>2, <2>3, <2>4 DEF MeasuredInv, Quiet
  <1>8. CASE UNCHANGED vars
    <2>1. UNCHANGED <<bus, started, disturbed, coefs, good, reading, pc, at>>
      BY <1>8 DEF vars, chipVars, driverVars
    <2>2. (Prepared(8) <=> Prepared(8)') /\ (Prepared(at - 1) <=> Prepared(at - 1)')
      BY <1>2, <2>1 DEF Prepared
    <2> QED BY <1>2, <2>1, <2>2 DEF MeasuredInv, Quiet
  <1> QED BY <1>3, <1>4, <1>5, <1>6, <1>7, <1>8 DEF Next, Program, Drivers, Environment

\* A valid reading was measured: always with an SHT30, and with the other sensors as long
\* as nothing has happened on the bus since the boot; and no read fails until then.
THEOREM ValidReadingsAreMeasured == Spec => []ValidIsMeasured
  <1>1. Init => DriverType /\ ReportType
    BY InitTypes
  <1>2. Init => MeasuredInv
    <2> SUFFICES ASSUME Init PROVE MeasuredInv
        OBVIOUS
    <2>1. bus = "up" /\ pc = "begin" /\ at = 1 /\ good /\ ~reading.valid
      BY DEF Init, SensorInit, NoReading
    <2>2. Prepared(at - 1)
      <3>1. at - 1 = 0
        BY <2>1
      <3> QED BY <3>1 DEF Prepared
    <2> QED BY <2>1, <2>2 DEF MeasuredInv, Quiet
  <1>3. DriverType /\ ReportType /\ [Next]_vars => DriverType' /\ ReportType'
    BY TypesKept
  <1>4. DriverType /\ MeasuredInv /\ [Next]_vars => MeasuredInv'
    BY MeasuredInvStep
  <1>5. MeasuredInv => ValidIsMeasured
    BY DEF MeasuredInv, Quiet, ValidIsMeasured
  <1> QED BY <1>1, <1>2, <1>3, <1>4, <1>5, PTL DEF Spec

-----------------------------------------------------------------------------
(* Recursion over a bounded range: induction over a set, for the formatters *)
(* of Payload are recursive functions. *)

\* A set of numbers has a least one.
LEMMA Least ==
  ASSUME NEW T, T \subseteq Nat, T # {}
  PROVE  \E n \in T : \A m \in T : n <= m
  <1> DEFINE R == OpToRel(<, Nat)
  <1>1. IsWellFoundedOn(R, Nat)
    BY NatLessThanWellFounded
  <1>2. \A x, y \in Nat : <<y, x>> \in R <=> y < x
    BY DEF OpToRel
  <1> HIDE DEF R
  <1>3. PICK x \in T : \A y \in T : ~ (<<y, x>> \in R)
    BY <1>1, WFMin
  <1>4. \A m \in T : ~ (m < x)
    BY <1>2, <1>3
  <1>5. \A m \in T : x <= m
    BY <1>4
  <1> QED BY <1>5

\* Induction up to N, over a set instead of a predicate.
LEMMA UpTo ==
  ASSUME NEW N \in Nat, NEW S, 0 \in S, \A n \in 0 .. N - 1 : n \in S => n + 1 \in S
  PROVE  0 .. N \subseteq S
  <1> DEFINE T == {n \in 0 .. N : n \notin S}
  <1>1. SUFFICES ASSUME T # {} PROVE FALSE
    OBVIOUS
  <1>2. T \subseteq Nat
    OBVIOUS
  <1>3. PICK n \in T : \A m \in T : n <= m
    <2> HIDE DEF T
    <2> QED BY <1>1, <1>2, Least
  <1>4. n # 0 /\ n - 1 \in 0 .. N - 1 /\ n - 1 \in S
    BY <1>3
  <1> QED BY <1>3, <1>4

\* The operations on X that N steps of a recursion make.
Steps(N, X) == [1 .. N -> [X -> X]]

Recurs(g, N, X, b, h) ==
    g \in [0 .. N -> X] /\ g[0] = b /\ \A n \in 1 .. N : g[n] = h[n][g[n - 1]]

\* What is defined by recursion over 0 .. N exists.
LEMMA Recursion ==
  ASSUME NEW N \in Nat, NEW X, NEW b \in X, NEW h \in Steps(N, X)
  PROVE  \E g : Recurs(g, N, X, b, h)
  <1> DEFINE S == {k \in 0 .. N : \E g : Recurs(g, k, X, b, h)}
  <1>1. 0 \in S
    <2> DEFINE f == [i \in 0 .. 0 |-> b]
    <2>1. f \in [0 .. 0 -> X] /\ f[0] = b
      OBVIOUS
    <2> HIDE DEF f
    <2>2. Recurs(f, 0, X, b, h)
      BY <2>1 DEF Recurs
    <2> QED BY <2>2
  <1>2. ASSUME NEW k \in 0 .. N - 1, k \in S PROVE k + 1 \in S
    <2>0. PICK g : Recurs(g, k, X, b, h)
      BY <1>2
    <2>1. g \in [0 .. k -> X] /\ g[0] = b /\ \A n \in 1 .. k : g[n] = h[n][g[n - 1]]
      BY <2>0 DEF Recurs
    <2> DEFINE f == [i \in 0 .. k + 1 |-> IF i <= k THEN g[i] ELSE h[k + 1][g[k]]]
    <2>2. k + 1 \in 1 .. N /\ g[k] \in X /\ h[k + 1] \in [X -> X]
      BY <2>1 DEF Steps
    <2>3. h[k + 1][g[k]] \in X
      BY <2>2
    <2>4. f \in [0 .. k + 1 -> X]
      BY <2>1, <2>3
    <2>5. f[0] = b
      BY <2>1
    <2>6. ASSUME NEW n \in 1 .. k + 1 PROVE f[n] = h[n][f[n - 1]]
      <3>1. CASE n <= k
        BY <2>1, <3>1
      <3>2. CASE n = k + 1
        BY <3>2
      <3> QED BY <3>1, <3>2
    <2> HIDE DEF f
    <2>7. Recurs(f, k + 1, X, b, h)
      BY <2>4, <2>5, <2>6 DEF Recurs
    <2> QED BY <2>7
  <1>3. 0 .. N \subseteq S
    <2> HIDE DEF S
    <2> QED BY <1>1, <1>2, UpTo
  <1> QED BY <1>3

-----------------------------------------------------------------------------
(* Lists of bytes and what they add up to *)

\* The numbers of s add up to w or less: W[n] is a bound of the first n.
Within(s, w) ==
    /\ s \in Seq(Nat)
    /\ \E W \in [0 .. Len(s) -> 0 .. w] :
          W[0] = 0 /\ \A n \in 1 .. Len(s) : W[n - 1] + s[n] <= W[n]

LEMMA WithinNone == Within(<< >>, 0)
  <1> DEFINE W == [n \in 0 .. 0 |-> 0]
  <1>1. W \in [0 .. Len(<< >>) -> 0 .. 0] /\ W[0] = 0
    OBVIOUS
  <1>2. << >> \in Seq(Nat) /\ Len(<< >>) = 0
    OBVIOUS
  <1> HIDE DEF W
  <1> QED BY <1>1, <1>2 DEF Within

LEMMA WithinOne ==
  ASSUME NEW n \in Nat
  PROVE  Within(<< n >>, n)
  <1> DEFINE W == [i \in 0 .. 1 |-> i * n]
  <1>1. << n >> \in Seq(Nat) /\ Len(<< n >>) = 1 /\ << n >>[1] = n
    OBVIOUS
  <1>2. W \in [0 .. 1 -> 0 .. n] /\ W[0] = 0 /\ W[1] = n
    OBVIOUS
  <1> HIDE DEF W
  <1>3. \A k \in 1 .. 1 : W[k - 1] + << n >>[k] <= W[k]
    BY <1>1, <1>2
  <1> QED BY <1>1, <1>2, <1>3 DEF Within

LEMMA WithinMore ==
  ASSUME NEW s, NEW w \in Nat, NEW v \in Nat, Within(s, w), w <= v
  PROVE  Within(s, v)
  <1>1. PICK W \in [0 .. Len(s) -> 0 .. w] :
          W[0] = 0 /\ \A n \in 1 .. Len(s) : W[n - 1] + s[n] <= W[n]
    BY DEF Within
  <1>2. s \in Seq(Nat)
    BY DEF Within
  <1>3. W \in [0 .. Len(s) -> 0 .. v]
    OBVIOUS
  <1> QED BY <1>1, <1>2, <1>3 DEF Within

Climbs(W, n, w) == W \in [0 .. n -> 0 .. w]

Stacked(U, W, p, V, q) ==
    /\ \A n \in 0 .. p : U[n] = W[n]
    /\ \A n \in 0 .. q : U[p + n] = W[p] + V[n]

\* One climb after the other.
LEMMA ClimbOn ==
  ASSUME NEW p \in Nat, NEW q \in Nat, NEW w \in Nat, NEW v \in Nat,
         NEW W, Climbs(W, p, w), NEW V, Climbs(V, q, v), V[0] = 0
  PROVE  \E U : Climbs(U, p + q, w + v) /\ Stacked(U, W, p, V, q)
  <1> DEFINE U == [n \in 0 .. p + q |-> IF n <= p THEN W[n] ELSE W[p] + V[n - p]]
  <1>0. W \in [0 .. p -> 0 .. w] /\ V \in [0 .. q -> 0 .. v]
    BY DEF Climbs
  <1>1. Climbs(U, p + q, w + v)
    <2>1. ASSUME NEW n \in 0 .. p + q PROVE U[n] \in 0 .. w + v
      <3>1. CASE n <= p
        <4>1. W[n] \in 0 .. w
          BY <1>0, <3>1
        <4> QED BY <3>1, <4>1
      <3>2. CASE n > p
        <4>1. n - p \in 0 .. q /\ p \in 0 .. p
          BY <3>2
        <4>2. V[n - p] \in 0 .. v /\ W[p] \in 0 .. w
          BY <1>0, <4>1
        <4> QED BY <3>2, <4>2
      <3> QED BY <3>1, <3>2
    <2> QED BY <2>1 DEF Climbs
  <1>2. \A n \in 0 .. p : U[n] = W[n]
    OBVIOUS
  <1>3. ASSUME NEW n \in 0 .. q PROVE U[p + n] = W[p] + V[n]
    <2>1. p + n \in 0 .. p + q /\ p \in 0 .. p
      OBVIOUS
    <2>2. CASE n = 0
      <3>1. U[p] = W[p] /\ W[p] \in 0 .. w
        BY <1>0, <1>2, <2>1
      <3>2. p + n = p /\ V[n] = 0
        BY <2>2
      <3> HIDE DEF U
      <3> QED BY <3>1, <3>2
    <2>3. CASE n # 0
      <3>1. ~ (p + n <= p) /\ (p + n) - p = n
        BY <2>3
      <3> QED BY <2>1, <3>1
    <2> QED BY <2>2, <2>3
  <1> HIDE DEF U
  <1> QED BY <1>1, <1>2, <1>3 DEF Stacked

\* Sums add up.
LEMMA WithinJoined ==
  ASSUME NEW s, NEW t, NEW w \in Nat, NEW v \in Nat, Within(s, w), Within(t, v)
  PROVE  Within(s \o t, w + v)
  <1>1. s \in Seq(Nat) /\ t \in Seq(Nat)
    BY DEF Within
  <1> DEFINE p == Len(s)
             q == Len(t)
  <1>2. p \in Nat /\ q \in Nat
    BY <1>1
  <1>3. PICK W \in [0 .. p -> 0 .. w] : W[0] = 0 /\ \A n \in 1 .. p : W[n - 1] + s[n] <= W[n]
    BY DEF Within
  <1>4. PICK V \in [0 .. q -> 0 .. v] : V[0] = 0 /\ \A n \in 1 .. q : V[n - 1] + t[n] <= V[n]
    BY DEF Within
  <1>5. /\ s \o t \in Seq(Nat) /\ Len(s \o t) = p + q
        /\ \A n \in 1 .. p : (s \o t)[n] = s[n]
        /\ \A n \in 1 .. q : (s \o t)[p + n] = t[n]
    BY <1>1
  <1>6. \A n \in 1 .. p : s[n] \in Nat
    BY <1>1
  <1>7. \A n \in 1 .. q : t[n] \in Nat
    BY <1>1
  <1> HIDE DEF p, q
  <1>70. PICK U : Climbs(U, p + q, w + v) /\ Stacked(U, W, p, V, q)
    <2>1. Climbs(W, p, w) /\ Climbs(V, q, v) /\ V[0] = 0
      BY <1>4 DEF Climbs
    <2> QED BY <1>2, <2>1, ClimbOn
  <1>8. /\ \A n \in 0 .. p : U[n] = W[n]
        /\ \A n \in 0 .. q : U[p + n] = W[p] + V[n]
    BY <1>70 DEF Stacked
  <1>9. W[p] \in Nat /\ U[0] = 0
    <2>1. 0 \in 0 .. p /\ p \in 0 .. p
      BY <1>2
    <2> QED BY <1>3, <1>8, <2>1
  <1>10. ASSUME NEW n \in 1 .. p + q PROVE U[n - 1] + (s \o t)[n] <= U[n]
    <2>1. CASE n \in 1 .. p
      <3>1. n - 1 \in 0 .. p /\ n \in 0 .. p
        BY <1>2, <2>1
      <3>2. U[n - 1] = W[n - 1] /\ U[n] = W[n] /\ (s \o t)[n] = s[n]
        BY <1>5, <1>8, <2>1, <3>1
      <3> QED BY <1>3, <2>1, <3>2
    <2>2. CASE n \notin 1 .. p
      <3>1. PICK m \in 1 .. q : n = p + m
        <4>1. n - p \in 1 .. q /\ n = p + (n - p)
          BY <1>2, <2>2
        <4> QED BY <4>1
      <3>2. m - 1 \in 0 .. q /\ m \in 0 .. q /\ n - 1 = p + (m - 1)
        BY <1>2, <3>1
      <3>3. U[n - 1] = W[p] + V[m - 1] /\ U[n] = W[p] + V[m] /\ (s \o t)[n] = t[m]
        BY <1>5, <1>8, <3>1, <3>2
      <3>4. V[m - 1] \in Nat /\ V[m] \in Nat /\ t[m] \in Nat
        BY <1>7, <3>2
      <3>5. V[m - 1] + t[m] <= V[m]
        BY <1>4
      <3> QED BY <1>9, <3>3, <3>4, <3>5
    <2> QED BY <2>1, <2>2
  <1>11. U \in [0 .. Len(s \o t) -> 0 .. w + v]
    BY <1>5, <1>70 DEF Climbs
  <1>12. \A n \in 1 .. Len(s \o t) : U[n - 1] + (s \o t)[n] <= U[n]
    BY <1>5, <1>10
  <1> QED BY <1>5, <1>9, <1>11, <1>12 DEF Within

LEMMA WithinSmaller ==
  ASSUME NEW s, NEW w \in Nat, Within(s, w),
         NEW t \in Seq(Nat), Len(t) = Len(s), \A n \in 1 .. Len(s) : t[n] <= s[n]
  PROVE  Within(t, w)
  <1>1. PICK W \in [0 .. Len(s) -> 0 .. w] :
          W[0] = 0 /\ \A n \in 1 .. Len(s) : W[n - 1] + s[n] <= W[n]
    BY DEF Within
  <1>2. s \in Seq(Nat) /\ Len(s) \in Nat
    BY DEF Within
  <1>3. ASSUME NEW n \in 1 .. Len(s) PROVE W[n - 1] + t[n] <= W[n]
    <2>1. n - 1 \in 0 .. Len(s) /\ n \in 0 .. Len(s)
      BY <1>2
    <2>2. W[n - 1] \in 0 .. w /\ W[n] \in 0 .. w
      BY <2>1
    <2>3. s[n] \in Nat /\ t[n] \in Nat /\ t[n] <= s[n]
      BY <1>2
    <2> QED BY <1>1, <2>2, <2>3
  <1> QED BY <1>1, <1>2, <1>3 DEF Within

-----------------------------------------------------------------------------
(* buf_append() *)

\* Pieces that add up to no more than what is left are all written.
LEMMA AppendedFits ==
  ASSUME NEW size \in Nat, NEW start \in Nat, NEW pieces, NEW w \in Nat,
         Within(pieces, w), start + w < size
  PROVE  Appended(size, start, pieces) \in 0 .. start + w
  <1> DEFINE N == Len(pieces)
             h == [n \in 1 .. N |-> [x \in Int |-> buf_append(size, x, pieces[n])]]
             Eq(f) == f = [n \in 0 .. N |->
                             IF n = 0 THEN start ELSE buf_append(size, f[n - 1], pieces[n])]
             pos == CHOOSE f : Eq(f)
  <1>1. pieces \in Seq(Nat) /\ N \in Nat /\ \A n \in 1 .. N : pieces[n] \in Nat
    BY DEF Within
  <1>2. PICK W \in [0 .. N -> 0 .. w] : W[0] = 0 /\ \A n \in 1 .. N : W[n - 1] + pieces[n] <= W[n]
    BY DEF Within
  <1>3. PICK g \in [0 .. N -> Int] :
          g[0] = start /\ \A n \in 1 .. N : g[n] = buf_append(size, g[n - 1], pieces[n])
    <2>1. h \in Steps(N, Int)
      <3> HIDE DEF N
      <3> QED BY <1>1 DEF buf_append, Steps
    <2>2. PICK g : Recurs(g, N, Int, start, h)
      <3>1. N \in Nat /\ start \in Int
        BY <1>1
      <3> HIDE DEF h, N
      <3> QED BY <2>1, <3>1, Recursion
    <2> HIDE DEF N
    <2>3. g \in [0 .. N -> Int] /\ g[0] = start /\ \A n \in 1 .. N : g[n] = h[n][g[n - 1]]
      BY <2>2 DEF Recurs
    <2>4. \A n \in 1 .. N : g[n - 1] \in Int
      BY <1>1, <2>3
    <2> QED BY <2>3, <2>4
  <1>4. Eq(pos)
    <2>1. Eq(g)
      <3> HIDE DEF N
      <3> QED BY <1>1, <1>3
    <2> HIDE DEF Eq
    <2> QED BY <2>1
  <1>5. Appended(size, start, pieces) = pos[N]
    BY DEF Appended
  <1>6. pos = [n \in 0 .. N |-> IF n = 0 THEN start ELSE buf_append(size, pos[n - 1], pieces[n])]
    BY <1>4
  <1> HIDE DEF pos, N
  <1>7. pos[0] = start /\ \A n \in 1 .. N : pos[n] = buf_append(size, pos[n - 1], pieces[n])
    BY <1>1, <1>6
  <1> DEFINE S == {n \in 0 .. N : pos[n] \in 0 .. start + W[n]}
  <1>8. 0 \in S
    BY <1>1, <1>2, <1>7
  <1>9. ASSUME NEW n \in 0 .. N - 1, n \in S PROVE n + 1 \in S
    <2>1. n + 1 \in 1 .. N /\ n + 1 \in 0 .. N /\ (n + 1) - 1 = n /\ n \in 0 .. N
      BY <1>1
    <2>2. W[n] \in 0 .. w /\ W[n + 1] \in 0 .. w /\ pieces[n + 1] \in Nat
      BY <1>1, <2>1
    <2>3. W[n] + pieces[n + 1] <= W[n + 1]
      BY <1>2, <2>1
    <2>4. pos[n] \in 0 .. start + W[n] /\ pos[n + 1] = buf_append(size, pos[n], pieces[n + 1])
      BY <1>7, <1>9, <2>1
    <2>5. pos[n + 1] = pos[n] + pieces[n + 1]
      BY <2>2, <2>3, <2>4 DEF buf_append
    <2> QED BY <2>1, <2>2, <2>3, <2>4, <2>5
  <1>10. N \in S
    <2> HIDE DEF S
    <2>1. 0 .. N \subseteq S
      BY <1>1, <1>8, <1>9, UpTo
    <2> QED BY <1>1, <2>1
  <1>11. W[N] \in 0 .. w
    BY <1>1
  <1> QED BY <1>5, <1>10, <1>11

-----------------------------------------------------------------------------
(* Prices: what an item of a list takes of the buffer at most *)

\* What the price list R has a price for.
Goods(R) == {r[1] : r \in R}

\* The items of s cost w or less, each at a price of R.
Costs(s, R, w) ==
    /\ s \in Seq(Goods(R))
    /\ \E U : Within(U, w) /\ Len(U) = Len(s) /\ \A n \in 1 .. Len(s) : <<s[n], U[n]>> \in R

LEMMA CostsNone == ASSUME NEW R PROVE Costs(<< >>, R, 0)
  <1>1. Within(<< >>, 0) /\ << >> \in Seq(Goods(R)) /\ Len(<< >>) = 0
    BY WithinNone
  <1> QED BY <1>1 DEF Costs

LEMMA CostsOne ==
  ASSUME NEW R, NEW x, NEW u \in Nat, <<x, u>> \in R
  PROVE  Costs(<< x >>, R, u)
  <1>1. x \in Goods(R)
    <2>1. <<x, u>>[1] = x
      OBVIOUS
    <2> QED BY <2>1 DEF Goods
  <1>2. << x >> \in Seq(Goods(R)) /\ Len(<< x >>) = 1 /\ << x >>[1] = x
    BY <1>1
  <1>3. Within(<< u >>, u) /\ Len(<< u >>) = 1 /\ << u >>[1] = u
    BY WithinOne
  <1>4. \A n \in 1 .. 1 : << << x >>[n], << u >>[n] >> \in R
    BY <1>2, <1>3
  <1> QED BY <1>2, <1>3, <1>4 DEF Costs

\* One list behind the other costs what both cost.
LEMMA CostsJoined ==
  ASSUME NEW R, NEW s, NEW t, NEW w \in Nat, NEW v \in Nat, Costs(s, R, w), Costs(t, R, v)
  PROVE  Costs(s \o t, R, w + v)
  <1>1. s \in Seq(Goods(R)) /\ t \in Seq(Goods(R))
    BY DEF Costs
  <1>2. PICK U : Within(U, w) /\ Len(U) = Len(s) /\ \A n \in 1 .. Len(s) : <<s[n], U[n]>> \in R
    BY DEF Costs
  <1>3. PICK V : Within(V, v) /\ Len(V) = Len(t) /\ \A n \in 1 .. Len(t) : <<t[n], V[n]>> \in R
    BY DEF Costs
  <1>4. U \in Seq(Nat) /\ V \in Seq(Nat)
    BY <1>2, <1>3 DEF Within
  <1>5. Within(U \o V, w + v)
    BY <1>2, <1>3, WithinJoined
  <1>6. Len(U \o V) = Len(s \o t) /\ Len(s \o t) = Len(s) + Len(t) /\ s \o t \in Seq(Goods(R))
    <2>1. Len(s \o t) = Len(s) + Len(t) /\ s \o t \in Seq(Goods(R))
      BY <1>1
    <2>2. Len(U \o V) = Len(U) + Len(V)
      BY <1>4
    <2> QED BY <1>2, <1>3, <2>1, <2>2
  <1>7. ASSUME NEW n \in 1 .. Len(s) + Len(t) PROVE << (s \o t)[n], (U \o V)[n] >> \in R
    <2>1. CASE n <= Len(s)
      <3>1. n \in 1 .. Len(s) /\ (s \o t)[n] = s[n] /\ (U \o V)[n] = U[n]
        BY <1>1, <1>2, <1>4, <2>1
      <3> QED BY <1>2, <3>1
    <2>2. CASE ~ (n <= Len(s))
      <3>1. n - Len(s) \in 1 .. Len(t)
        BY <1>1, <2>2
      <3>2. (s \o t)[n] = t[n - Len(s)] /\ (U \o V)[n] = V[n - Len(s)]
        BY <1>1, <1>2, <1>3, <1>4, <2>2
      <3> QED BY <1>3, <3>1, <3>2
    <2> QED BY <2>1, <2>2
  <1> QED BY <1>5, <1>6, <1>7 DEF Costs

LEMMA CostsMore ==
  ASSUME NEW R, NEW s, NEW w \in Nat, NEW v \in Nat, Costs(s, R, w), w <= v
  PROVE  Costs(s, R, v)
  BY WithinMore DEF Costs

\* The first items of a list cost no more than all of them.
LEMMA CostsOfFirst ==
  ASSUME NEW R, NEW s, NEW w \in Nat, Costs(s, R, w), NEW room \in Nat
  PROVE  Costs(Kept(s, room), R, w)
  <1>1. s \in Seq(Goods(R)) /\ Len(s) \in Nat
    BY DEF Costs
  <1>2. PICK U : Within(U, w) /\ Len(U) = Len(s) /\ \A n \in 1 .. Len(s) : <<s[n], U[n]>> \in R
    BY DEF Costs
  <1> DEFINE k == IF Len(s) < room THEN Len(s) ELSE room
             V == SubSeq(U, 1, k)
             t == SubSeq(s, 1, k)
  <1>3. k \in 0 .. Len(s)
    BY <1>1
  <1>4. U \in Seq(Nat)
    BY <1>2 DEF Within
  <1>5. Kept(s, room) = t
    BY DEF Kept
  <1> HIDE DEF k
  <1>6. t \in Seq(Goods(R)) /\ Len(t) = k /\ \A n \in 1 .. k : t[n] = s[n]
    BY <1>1, <1>3
  <1>7. V \in Seq(Nat) /\ Len(V) = k /\ \A n \in 1 .. k : V[n] = U[n]
    BY <1>2, <1>3, <1>4
  <1>8. Within(V, w)
    <2>1. PICK W \in [0 .. Len(U) -> 0 .. w] :
            W[0] = 0 /\ \A n \in 1 .. Len(U) : W[n - 1] + U[n] <= W[n]
      BY <1>2 DEF Within
    <2> DEFINE Y == [n \in 0 .. k |-> W[n]]
    <2>2. \A n \in 0 .. k : n \in 0 .. Len(U) /\ W[n] \in 0 .. w
      BY <1>2, <1>3
    <2>3. Y \in [0 .. k -> 0 .. w] /\ Y[0] = 0
      BY <1>3, <2>1, <2>2
    <2>4. \A n \in 1 .. k : n \in 1 .. Len(U) /\ n - 1 \in 0 .. k /\ n \in 0 .. k
      BY <1>2, <1>3
    <2>5. \A n \in 1 .. k : Y[n - 1] + V[n] <= Y[n]
      BY <1>7, <2>1, <2>4
    <2> HIDE DEF Y, V
    <2> QED BY <1>7, <2>3, <2>5 DEF Within
  <1>9. \A n \in 1 .. k : <<t[n], V[n]>> \in R
    <2>1. \A n \in 1 .. k : n \in 1 .. Len(s)
      BY <1>1, <1>3
    <2> HIDE DEF t, V
    <2> QED BY <1>2, <1>6, <1>7, <2>1
  <1> HIDE DEF t, V
  <1> QED BY <1>5, <1>6, <1>7, <1>8, <1>9 DEF Costs

-----------------------------------------------------------------------------
(* The fields of an object *)

Names ==
    {"uv", "wf", "mf", "sf", "bx", "fw", "hw", "id", "lux", "bat", "rst", "seq", "key", "temp",
     "humi", "batv", "rssi", "boot", "miss", "txok", "heap", "press", "level", "hwrev", "value",
     "txsent", "metric", "string", "number", "message", "wake_ms", "pubfail", "set_offset",
     "set_interval", "set_calibration", "calibrate_battery", "request_calibration"}

\* A field has its quotes, its colon and a comma.
FieldPrices ==
    {r \in [key : Names, width : Nat] \X Nat :
        Len(r[1].key) \in Nat /\ Len(r[1].key) + 4 + r[1].width <= r[2]}

LEMMA FieldCosts ==
  ASSUME NEW key \in Names, NEW width \in Nat,
         NEW l \in Nat, Len(key) = l, NEW u \in Nat, l + 4 + width = u
  PROVE  Costs(<< Field(key, width) >>, FieldPrices, u)
  <1> DEFINE f == Field(key, width)
  <1>1. f \in [key : Names, width : Nat] /\ f.key = key /\ f.width = width
    BY DEF Field
  <1>2. <<f, u>> \in FieldPrices
    <2> HIDE DEF f
    <2> QED BY <1>1 DEF FieldPrices
  <1> HIDE DEF f
  <1>3. Costs(<< f >>, FieldPrices, u)
    BY <1>2, CostsOne
  <1> QED BY <1>3 DEF f

LEMMA FieldsOfLength ==
  ASSUME NEW K \in SUBSET Names, NEW l \in Nat, \A s \in K : Len(s) = l
  PROVE  \A key \in K, width \in Nat : Costs(<< Field(key, width) >>, FieldPrices, l + 4 + width)
  <1> TAKE key \in K, width \in Nat
  <1>1. key \in Names /\ Len(key) = l /\ l + 4 + width \in Nat
    OBVIOUS
  <1> QED BY <1>1, FieldCosts

\* The fields by the lengths of their keys.
LEMMA FieldLengths ==
  /\ \A key \in {"uv", "wf", "mf", "sf", "bx", "fw", "hw", "id"}, width \in Nat :
        Costs(<< Field(key, width) >>, FieldPrices, 2 + 4 + width)
  /\ \A key \in {"lux", "bat", "rst", "seq"}, width \in Nat :
        Costs(<< Field(key, width) >>, FieldPrices, 3 + 4 + width)
  /\ \A key \in {"temp", "humi", "batv", "rssi", "boot", "miss", "txok", "heap"}, width \in Nat :
        Costs(<< Field(key, width) >>, FieldPrices, 4 + 4 + width)
  /\ \A key \in {"press", "level", "hwrev"}, width \in Nat :
        Costs(<< Field(key, width) >>, FieldPrices, 5 + 4 + width)
  /\ \A key \in {"txsent"}, width \in Nat :
        Costs(<< Field(key, width) >>, FieldPrices, 6 + 4 + width)
  /\ \A key \in {"message", "wake_ms", "pubfail"}, width \in Nat :
        Costs(<< Field(key, width) >>, FieldPrices, 7 + 4 + width)
  <1>1. \A key \in {"uv", "wf", "mf", "sf", "bx", "fw", "hw", "id"}, width \in Nat :
        Costs(<< Field(key, width) >>, FieldPrices, 2 + 4 + width)
    <2> DEFINE K == {"uv", "wf", "mf", "sf", "bx", "fw", "hw", "id"}
    <2>1. K \in SUBSET Names /\ \A s \in K : Len(s) = 2
      BY NameLengths DEF Names
    <2> HIDE DEF K
    <2>2. \A key \in K, width \in Nat : Costs(<< Field(key, width) >>, FieldPrices, 2 + 4 + width)
      BY <2>1, FieldsOfLength
    <2> QED BY <2>2 DEF K
  <1>2. \A key \in {"lux", "bat", "rst", "seq"}, width \in Nat :
        Costs(<< Field(key, width) >>, FieldPrices, 3 + 4 + width)
    <2> DEFINE K == {"lux", "bat", "rst", "seq"}
    <2>1. K \in SUBSET Names /\ \A s \in K : Len(s) = 3
      BY NameLengths DEF Names
    <2> HIDE DEF K
    <2>2. \A key \in K, width \in Nat : Costs(<< Field(key, width) >>, FieldPrices, 3 + 4 + width)
      BY <2>1, FieldsOfLength
    <2> QED BY <2>2 DEF K
  <1>3. \A key \in {"temp", "humi", "batv", "rssi", "boot", "miss", "txok", "heap"}, width \in Nat :
        Costs(<< Field(key, width) >>, FieldPrices, 4 + 4 + width)
    <2> DEFINE K == {"temp", "humi", "batv", "rssi", "boot", "miss", "txok", "heap"}
    <2>1. K \in SUBSET Names /\ \A s \in K : Len(s) = 4
      BY NameLengths DEF Names
    <2> HIDE DEF K
    <2>2. \A key \in K, width \in Nat : Costs(<< Field(key, width) >>, FieldPrices, 4 + 4 + width)
      BY <2>1, FieldsOfLength
    <2> QED BY <2>2 DEF K
  <1>4. \A key \in {"press", "level", "hwrev"}, width \in Nat :
        Costs(<< Field(key, width) >>, FieldPrices, 5 + 4 + width)
    <2> DEFINE K == {"press", "level", "hwrev"}
    <2>1. K \in SUBSET Names /\ \A s \in K : Len(s) = 5
      BY NameLengths DEF Names
    <2> HIDE DEF K
    <2>2. \A key \in K, width \in Nat : Costs(<< Field(key, width) >>, FieldPrices, 5 + 4 + width)
      BY <2>1, FieldsOfLength
    <2> QED BY <2>2 DEF K
  <1>5. \A key \in {"txsent"}, width \in Nat :
        Costs(<< Field(key, width) >>, FieldPrices, 6 + 4 + width)
    <2> DEFINE K == {"txsent"}
    <2>1. K \in SUBSET Names /\ \A s \in K : Len(s) = 6
      BY NameLengths DEF Names
    <2> HIDE DEF K
    <2>2. \A key \in K, width \in Nat : Costs(<< Field(key, width) >>, FieldPrices, 6 + 4 + width)
      BY <2>1, FieldsOfLength
    <2> QED BY <2>2 DEF K
  <1>6. \A key \in {"message", "wake_ms", "pubfail"}, width \in Nat :
        Costs(<< Field(key, width) >>, FieldPrices, 7 + 4 + width)
    <2> DEFINE K == {"message", "wake_ms", "pubfail"}
    <2>1. K \in SUBSET Names /\ \A s \in K : Len(s) = 7
      BY NameLengths DEF Names
    <2> HIDE DEF K
    <2>2. \A key \in K, width \in Nat : Costs(<< Field(key, width) >>, FieldPrices, 7 + 4 + width)
      BY <2>1, FieldsOfLength
    <2> QED BY <2>2 DEF K
  <1> QED BY <1>1, <1>2, <1>3, <1>4, <1>5, <1>6

\* Fields that cost less than the buffer has are all written, and the object is closed.
LEMMA BuildFits ==
  ASSUME NEW size \in Nat, NEW fields, fields # << >>, NEW w \in Nat,
         Costs(fields, FieldPrices, w), w + 1 < size
  PROVE  Whole(Build(fields, size)) /\ Build(fields, size).pos \in 1 .. w + 1
  <1> DEFINE N == Len(fields)
             X == [size : {size}, pos : Nat, first : BOOLEAN, cut : BOOLEAN, closed : BOOLEAN]
             h == [n \in 1 .. N |-> [x \in X |-> AddField(x, fields[n])]]
             Eq(f) == f = [n \in 0 .. N |->
                             IF n = 0 THEN Opened(size) ELSE AddField(f[n - 1], fields[n])]
             pb == CHOOSE f : Eq(f)
  <1>1. N \in Nat /\ N >= 1
    BY DEF Costs
  <1>20. PICK U : /\ Within(U, w) /\ Len(U) = N
                  /\ \A n \in 1 .. N : <<fields[n], U[n]>> \in FieldPrices
    BY DEF Costs
  <1>2. \A n \in 1 .. N : /\ Len(fields[n].key) \in Nat /\ fields[n].width \in Nat /\ U[n] \in Nat
                          /\ Len(fields[n].key) + 4 + fields[n].width <= U[n]
    BY <1>20 DEF FieldPrices
  <1>3. PICK W \in [0 .. N -> 0 .. w] : W[0] = 0 /\ \A n \in 1 .. N : W[n - 1] + U[n] <= W[n]
    <2> HIDE DEF N
    <2> QED BY <1>20 DEF Within
  <1>4. Opened(size) \in X
    BY DEF Opened
  <1>5. ASSUME NEW x \in X, NEW n \in 1 .. N PROVE AddField(x, fields[n]) \in X
    <2>1. /\ x.pos \in Nat /\ x.size = size /\ x.first \in BOOLEAN
          /\ x.cut \in BOOLEAN /\ x.closed \in BOOLEAN
      OBVIOUS
    <2> DEFINE k == (IF x.first THEN 0 ELSE 1) + Len(fields[n].key) + 3 + fields[n].width
    <2>2. k \in Nat
      <3>1. (IF x.first THEN 0 ELSE 1) \in Nat
        BY <2>1
      <3> DEFINE l == Len(fields[n].key)
                 v == fields[n].width
                 c == IF x.first THEN 0 ELSE 1
      <3>2. l \in Nat /\ v \in Nat /\ c \in Nat
        BY <1>2, <3>1
      <3> HIDE DEF l, v, c
      <3>3. c + l + 3 + v \in Nat
        BY <3>2
      <3> QED BY <3>3 DEF l, v, c
    <2>3. AddField(x, fields[n]) =
            IF x.pos >= x.size THEN x
            ELSE [x EXCEPT !.pos = @ + k, !.first = FALSE, !.cut = x.pos + k >= x.size]
      BY DEF AddField
    <2>4. x.pos + k \in Nat /\ (x.pos + k >= x.size) \in BOOLEAN
      <3> HIDE DEF k
      <3> QED BY <2>1, <2>2
    <2> HIDE DEF k, N
    <2> QED BY <2>1, <2>3, <2>4
  <1>6. PICK g \in [0 .. N -> X] :
          g[0] = Opened(size) /\ \A n \in 1 .. N : g[n] = AddField(g[n - 1], fields[n])
    <2>1. h \in Steps(N, X)
      <3> HIDE DEF N, X
      <3> QED BY <1>5 DEF Steps
    <2>2. PICK g : Recurs(g, N, X, Opened(size), h)
      <3> HIDE DEF h, N, X
      <3> QED BY <1>1, <1>4, <2>1, Recursion
    <2> HIDE DEF N, X
    <2>3. /\ g \in [0 .. N -> X] /\ g[0] = Opened(size)
          /\ \A n \in 1 .. N : g[n] = h[n][g[n - 1]]
      BY <2>2 DEF Recurs
    <2>4. \A n \in 1 .. N : g[n - 1] \in X
      BY <1>1, <2>3
    <2> QED BY <2>3, <2>4
  <1>7. Eq(pb)
    <2>1. Eq(g)
      <3> HIDE DEF N, X
      <3> QED BY <1>1, <1>6
    <2> HIDE DEF Eq
    <2> QED BY <2>1
  <1>8. Build(fields, size) = Closed(pb[N])
    BY DEF Build
  <1>9. pb = [n \in 0 .. N |-> IF n = 0 THEN Opened(size) ELSE AddField(pb[n - 1], fields[n])]
    BY <1>7
  <1> HIDE DEF pb, N
  <1>10. pb[0] = Opened(size) /\ \A n \in 1 .. N : pb[n] = AddField(pb[n - 1], fields[n])
    BY <1>1, <1>9
  <1> DEFINE S == {n \in 0 .. N : /\ pb[n] \in X /\ ~pb[n].cut /\ (pb[n].first <=> n = 0)
                                  /\ pb[n].pos \in 1 .. (IF n = 0 THEN 1 ELSE W[n])}
  <1>11. 0 \in S
    <2>1. Opened(size).first = TRUE /\ Opened(size).cut = FALSE /\ Opened(size).pos = 1
      BY DEF Opened
    <2>2. 0 \in 0 .. N
      BY <1>1
    <2> HIDE DEF X
    <2> QED BY <1>4, <1>10, <2>1, <2>2
  <1>12. ASSUME NEW n \in 0 .. N - 1, n \in S PROVE n + 1 \in S
    <2>1. n + 1 \in 1 .. N /\ n + 1 \in 0 .. N /\ (n + 1) - 1 = n /\ n \in 0 .. N /\ n + 1 # 0
      BY <1>1
    <2> DEFINE f == fields[n + 1]
               x == pb[n]
               k == (IF x.first THEN 0 ELSE 1) + Len(f.key) + 3 + f.width
    <2>2. Len(f.key) \in Nat /\ f.width \in Nat /\ W[n] \in 0 .. w /\ W[n + 1] \in 0 .. w
      BY <1>2, <2>1
    <2>3. W[n] + Len(f.key) + 4 + f.width <= W[n + 1]
      <3> DEFINE l == Len(f.key)
                 v == f.width
                 u == U[n + 1]
      <3>1. l \in Nat /\ v \in Nat /\ u \in Nat /\ l + 4 + v <= u
        BY <1>2, <2>1
      <3>2. W[n] + u <= W[n + 1]
        BY <1>3, <2>1
      <3> HIDE DEF l, v, u
      <3>3. W[n] + l + 4 + v <= W[n + 1]
        BY <2>2, <3>1, <3>2
      <3> QED BY <3>3 DEF l, v
    <2>4. /\ x \in X /\ ~x.cut /\ (x.first <=> n = 0)
          /\ x.pos \in 1 .. (IF n = 0 THEN 1 ELSE W[n])
          /\ pb[n + 1] = AddField(x, f)
      BY <1>10, <1>12, <2>1
    <2>5. pb[n + 1] \in X
      BY <1>5, <2>1, <2>4
    <2>6. x.size = size /\ x.pos \in Nat /\ x.first \in BOOLEAN
      BY <2>4
    <2>7. k \in Nat /\ x.pos + k \in 1 .. W[n + 1] /\ x.pos < size
      <3> DEFINE l == Len(f.key)
                 v == f.width
      <3>0. /\ l \in Nat /\ v \in Nat /\ W[n] \in 0 .. w /\ W[n + 1] \in 0 .. w
            /\ W[n] + l + 4 + v <= W[n + 1]
        BY <2>2, <2>3
      <3> HIDE DEF X, l, v
      <3>1. CASE n = 0
        <4>1. x.first /\ x.pos = 1 /\ W[n] = 0
          BY <1>3, <2>4, <3>1
        <4>2. k = 0 + l + 3 + v
          BY <4>1 DEF l, v
        <4> HIDE DEF k, x
        <4> QED BY <3>0, <4>1, <4>2
      <3>2. CASE n # 0
        <4>1. ~x.first /\ x.pos \in 1 .. W[n]
          BY <2>4, <3>2
        <4>2. k = 1 + l + 3 + v
          BY <4>1 DEF l, v
        <4> DEFINE a == W[n]
                   b == W[n + 1]
                   p == x.pos
        <4>3. /\ l \in Nat /\ v \in Nat /\ a \in 0 .. w /\ b \in 0 .. w /\ a + l + 4 + v <= b
              /\ p \in 1 .. a
          BY <3>0, <4>1
        <4> HIDE DEF k, a, b, p
        <4>4. k \in Nat /\ p + k \in 1 .. b /\ p < size
          BY <4>2, <4>3
        <4> QED BY <4>4 DEF a, b, p
      <3> QED BY <3>1, <3>2
    <2>8. AddField(x, f) = IF x.pos >= x.size THEN x
                           ELSE [x EXCEPT !.pos = @ + k, !.first = FALSE, !.cut = x.pos + k >= x.size]
      BY DEF AddField
    <2> HIDE DEF f, x, k
    <2>9. pb[n + 1] = [x EXCEPT !.pos = @ + k, !.first = FALSE, !.cut = x.pos + k >= x.size]
      BY <2>4, <2>6, <2>7, <2>8
    <2>10. pb[n + 1].pos = x.pos + k /\ ~pb[n + 1].first /\ ~pb[n + 1].cut
      BY <2>2, <2>4, <2>6, <2>7, <2>9
    <2> HIDE DEF X
    <2> QED BY <2>1, <2>5, <2>7, <2>10
  <1>13. N \in S
    <2> HIDE DEF S
    <2>1. 0 .. N \subseteq S
      BY <1>1, <1>11, <1>12, UpTo
    <2> QED BY <1>1, <2>1
  <1>14. /\ pb[N] \in X /\ ~pb[N].cut /\ pb[N].pos \in 1 .. W[N] /\ W[N] \in 0 .. w
    BY <1>1, <1>13
  <1>15. pb[N].size = size /\ pb[N].pos \in Nat
    BY <1>14
  <1>16. Closed(pb[N]) = [pb[N] EXCEPT !.pos = @ + 1, !.closed = TRUE]
    BY <1>14, <1>15 DEF Closed
  <1>17. /\ ~Closed(pb[N]).cut /\ Closed(pb[N]).closed /\ Closed(pb[N]).size = size
         /\ Closed(pb[N]).pos = pb[N].pos + 1
    BY <1>14, <1>15, <1>16
  <1> QED BY <1>8, <1>14, <1>15, <1>17 DEF Whole

-----------------------------------------------------------------------------
(* The metrics of the capabilities *)

\* A metric has the quotes of its name and its unit, its colon and a comma.
MetricPrices ==
    {r \in [name : Names, unit : Nat] \X Nat :
        Len(r[1].name) \in Nat /\ Len(r[1].name) + r[1].unit + 6 <= r[2]}

LEMMA MetricCosts ==
  ASSUME NEW name \in Names, NEW unit \in Nat,
         NEW l \in Nat, Len(name) = l, NEW u \in Nat, l + unit + 6 = u
  PROVE  Costs(<< Metric(name, unit) >>, MetricPrices, u)
  <1> DEFINE m == Metric(name, unit)
  <1>1. m \in [name : Names, unit : Nat] /\ m.name = name /\ m.unit = unit
    BY DEF Metric
  <1>2. <<m, u>> \in MetricPrices
    <2> HIDE DEF m
    <2> QED BY <1>1 DEF MetricPrices
  <1> HIDE DEF m
  <1>3. Costs(<< m >>, MetricPrices, u)
    BY <1>2, CostsOne
  <1> QED BY <1>3 DEF m

LEMMA CapabilitiesFit ==
  ASSUME NEW size \in Nat, NEW metrics, NEW values \in Nat, NEW w \in Nat,
         Costs(metrics, MetricPrices, w), 82 + values + w < size
  PROVE  format_capabilities_payload(metrics, values, size) \in 0 .. 82 + values + w
  <1> DEFINE N == Len(metrics)
             p == [i \in DOMAIN metrics |->
                     (IF i > 1 THEN 1 ELSE 0) + Len(metrics[i].name) + metrics[i].unit + 5]
  <1>1. N \in Nat /\ DOMAIN metrics = 1 .. N
    BY DEF Costs
  <1>2. PICK U : /\ Within(U, w) /\ Len(U) = N
                 /\ \A n \in 1 .. N : <<metrics[n], U[n]>> \in MetricPrices
    BY DEF Costs
  <1>3. \A n \in 1 .. N : /\ Len(metrics[n].name) \in Nat /\ metrics[n].unit \in Nat /\ U[n] \in Nat
                          /\ Len(metrics[n].name) + metrics[n].unit + 6 <= U[n]
    BY <1>2 DEF MetricPrices
  <1>4. ASSUME NEW n \in 1 .. N PROVE p[n] \in Nat /\ p[n] <= U[n]
    <2> DEFINE l == Len(metrics[n].name)
               u == metrics[n].unit
               c == IF n > 1 THEN 1 ELSE 0
    <2>1. l \in Nat /\ u \in Nat /\ U[n] \in Nat /\ l + u + 6 <= U[n] /\ c \in 0 .. 1
      BY <1>3
    <2>2. p[n] = c + l + u + 5
      BY <1>1
    <2> HIDE DEF l, u, c, p
    <2> QED BY <2>1, <2>2
  <1>5. p \in Seq(Nat) /\ Len(p) = N
    <2>1. p = [i \in 1 .. N |-> p[i]]
      BY <1>1
    <2> HIDE DEF p, N
    <2> QED BY <1>1, <1>4, <2>1
  <1>6. Within(p, w)
    <2> HIDE DEF p, N
    <2> QED BY <1>2, <1>4, <1>5, WithinSmaller
  <1> HIDE DEF p
  <1>7. Within(<< CapabilitiesHead + values >>, 80 + values)
    BY WithinOne DEF CapabilitiesHead
  <1>8. Within(<< CapabilitiesHead + values >> \o p, (80 + values) + w)
    BY <1>6, <1>7, WithinJoined
  <1>9. Within(<< 2 >>, 2)
    BY WithinOne
  <1>10. Within(<< CapabilitiesHead + values >> \o p \o << 2 >>, ((80 + values) + w) + 2)
    BY <1>8, <1>9, WithinJoined
  <1>11. Appended(size, 0, << CapabilitiesHead + values >> \o p \o << 2 >>)
           \in 0 .. 0 + (((80 + values) + w) + 2)
    BY <1>10, AppendedFits
  <1> QED BY <1>11 DEF format_capabilities_payload, p

-----------------------------------------------------------------------------
(* The commands and their parameters *)

\* A command of the registry.
Named == [name : Names, params : Seq(Names \X Names)]

\* The name of a command has its quotes and a comma ...
NamePrices == {r \in Named \X Nat : Len(r[1].name) \in Nat /\ Len(r[1].name) + 3 <= r[2]}

\* ... once more with its parameters in brackets, if it has any.
DescriptionPrices ==
    {r \in Named \X Nat :
        r[1].params # << >> =>
            /\ Len(r[1].name) \in Nat
            /\ \E p \in Nat : Within(ParamPieces(r[1].params), p) /\ Len(r[1].name) + 6 + p <= r[2]}

LEMMA NamesFit ==
  ASSUME NEW cs, NEW w \in Nat, Costs(cs, NamePrices, w)
  PROVE  Within(NamePieces(cs), w)
  <1> DEFINE N == Len(cs)
             p == NamePieces(cs)
  <1>1. N \in Nat /\ DOMAIN cs = 1 .. N
    BY DEF Costs
  <1>2. PICK U : /\ Within(U, w) /\ Len(U) = N
                 /\ \A n \in 1 .. N : <<cs[n], U[n]>> \in NamePrices
    BY DEF Costs
  <1>3. \A n \in 1 .. N : Len(cs[n].name) \in Nat /\ U[n] \in Nat /\ Len(cs[n].name) + 3 <= U[n]
    BY <1>2 DEF NamePrices
  <1>4. ASSUME NEW n \in 1 .. N PROVE p[n] \in Nat /\ p[n] <= U[n]
    <2> DEFINE l == Len(cs[n].name)
               c == IF n > 1 THEN 1 ELSE 0
    <2>1. l \in Nat /\ U[n] \in Nat /\ l + 3 <= U[n] /\ c \in 0 .. 1
      BY <1>3
    <2>2. p[n] = c + l + 2
      BY <1>1 DEF NamePieces
    <2> HIDE DEF l, c, p
    <2> QED BY <2>1, <2>2
  <1>5. p \in Seq(Nat) /\ Len(p) = N
    <2>1. p = [i \in 1 .. N |-> p[i]]
      BY <1>1 DEF NamePieces
    <2> HIDE DEF p, N
    <2> QED BY <1>1, <1>4, <2>1
  <1> HIDE DEF p, N
  <1>6. Within(p, w)
    BY <1>2, <1>4, <1>5, WithinSmaller
  <1> QED BY <1>6 DEF p

LEMMA DescriptionFits ==
  ASSUME NEW cs, NEW n \in Nat, NEW u \in Nat,
         <<cs[n], u>> \in DescriptionPrices, cs[n].params # << >>
  PROVE  Within(CommandPieces(cs, n), u)
  <1> DEFINE l == Len(cs[n].name)
             c == IF \E j \in 1 .. n - 1 : cs[j].params # << >> THEN 1 ELSE 0
  <1>1. PICK p \in Nat : Within(ParamPieces(cs[n].params), p) /\ l + 6 + p <= u
    BY DEF DescriptionPrices
  <1>2. l \in Nat
    BY DEF DescriptionPrices
  <1>3. c \in 0 .. 1
    OBVIOUS
  <1> HIDE DEF l, c
  <1>4. Within(<< c + l + 4 >>, c + l + 4) /\ Within(<< 1 >>, 1) /\ c + l + 4 \in Nat
    <2>1. c + l + 4 \in Nat
      BY <1>2, <1>3
    <2> QED BY <2>1, WithinOne
  <1>5. Within(<< c + l + 4 >> \o ParamPieces(cs[n].params), (c + l + 4) + p)
    BY <1>1, <1>4, WithinJoined
  <1>6. Within(<< c + l + 4 >> \o ParamPieces(cs[n].params) \o << 1 >>, ((c + l + 4) + p) + 1)
    <2>1. (c + l + 4) + p \in Nat
      BY <1>4
    <2> QED BY <1>4, <1>5, <2>1, WithinJoined
  <1>7. Within(<< c + l + 4 >> \o ParamPieces(cs[n].params) \o << 1 >>, u)
    <2>1. ((c + l + 4) + p) + 1 \in Nat /\ ((c + l + 4) + p) + 1 <= u
      BY <1>1, <1>2, <1>3
    <2> QED BY <1>6, <2>1, WithinMore
  <1> QED BY <1>7 DEF CommandPieces, l, c

\* The descriptions of the commands, one after the other.
LEMMA CommandsFit ==
  ASSUME NEW size \in Nat, NEW cs, NEW w \in Nat, NEW v \in Nat,
         Costs(cs, NamePrices, w), Costs(cs, DescriptionPrices, v), 35 + w + v < size
  PROVE  format_commands_payload(cs, size) \in 0 .. 35 + w + v
  <1> DEFINE N == Len(cs)
             start == Appended(size, 0, << 13 >> \o NamePieces(cs) \o << 20 >>)
             S(x, n) == IF cs[n].params = << >> THEN x ELSE Appended(size, x, CommandPieces(cs, n))
             h == [n \in 1 .. N |-> [x \in Int |-> IF S(x, n) \in Int THEN S(x, n) ELSE 0]]
             Eq(f) == f = [i \in 0 .. N |->
                             IF i = 0 THEN start
                             ELSE IF cs[i].params = << >> THEN f[i - 1]
                             ELSE Appended(size, f[i - 1], CommandPieces(cs, i))]
             pos == CHOOSE f : Eq(f)
  <1>1. N \in Nat
    BY DEF Costs
  <1>2. start \in 0 .. 33 + w
    <2>1. Within(<< 13 >>, 13) /\ Within(<< 20 >>, 20) /\ Within(NamePieces(cs), w)
      BY WithinOne, NamesFit
    <2>2. Within(<< 13 >> \o NamePieces(cs), 13 + w)
      BY <2>1, WithinJoined
    <2>3. Within(<< 13 >> \o NamePieces(cs) \o << 20 >>, (13 + w) + 20)
      BY <2>1, <2>2, WithinJoined
    <2>4. (13 + w) + 20 \in Nat /\ 0 + ((13 + w) + 20) < size
      OBVIOUS
    <2>5. start \in 0 .. 0 + ((13 + w) + 20)
      BY <2>3, <2>4, AppendedFits
    <2> HIDE DEF start
    <2> QED BY <2>5
  <1> HIDE DEF start
  <1>3. PICK U : /\ Within(U, v) /\ Len(U) = N
                 /\ \A n \in 1 .. N : <<cs[n], U[n]>> \in DescriptionPrices
    BY DEF Costs
  <1>4. PICK W \in [0 .. N -> 0 .. v] : W[0] = 0 /\ \A n \in 1 .. N : W[n - 1] + U[n] <= W[n]
    <2> HIDE DEF N
    <2> QED BY <1>3 DEF Within
  <1>5. ASSUME NEW n \in 0 .. N - 1, NEW x \in 0 .. start + W[n]
        PROVE  S(x, n + 1) \in 0 .. start + W[n + 1]
    <2>1. n + 1 \in 1 .. N /\ n + 1 \in 0 .. N /\ n \in 0 .. N /\ (n + 1) - 1 = n
      BY <1>1
    <2>2. W[n] \in 0 .. v /\ W[n + 1] \in 0 .. v /\ U[n + 1] \in Nat /\ W[n] + U[n + 1] <= W[n + 1]
      <3>1. U \in Seq(Nat)
        BY <1>3 DEF Within
      <3>2. U[n + 1] \in Nat
        BY <1>3, <2>1, <3>1
      <3>3. W[n] \in 0 .. v /\ W[n + 1] \in 0 .. v
        BY <2>1
      <3> QED BY <1>4, <2>1, <3>2, <3>3
    <2> DEFINE u == U[n + 1]
               a == W[n]
               b == W[n + 1]
    <2>3. u \in Nat /\ a \in 0 .. v /\ b \in 0 .. v /\ a + u <= b /\ x \in 0 .. start + a
      BY <2>2
    <2>4. CASE cs[n + 1].params = << >>
      <3>1. S(x, n + 1) = x
        BY <2>4
      <3> HIDE DEF S, a, b, u
      <3>2. S(x, n + 1) \in 0 .. start + b
        BY <1>2, <2>3, <3>1
      <3> QED BY <3>2 DEF b
    <2>5. CASE cs[n + 1].params # << >>
      <3>1. <<cs[n + 1], u>> \in DescriptionPrices
        BY <1>3, <2>1
      <3>2. S(x, n + 1) = Appended(size, x, CommandPieces(cs, n + 1))
        BY <2>5
      <3> HIDE DEF S, a, b, u
      <3>3. Within(CommandPieces(cs, n + 1), u)
        BY <2>1, <2>3, <2>5, <3>1, DescriptionFits
      <3>4. x \in Nat /\ x + u < size
        BY <1>2, <2>3
      <3>5. S(x, n + 1) \in 0 .. x + u
        BY <2>3, <3>2, <3>3, <3>4, AppendedFits
      <3>6. S(x, n + 1) \in 0 .. start + b
        BY <1>2, <2>3, <3>4, <3>5
      <3> QED BY <3>6 DEF b
    <2> QED BY <2>4, <2>5
  <1>6. \E g : Eq(g)
    <2>1. h \in Steps(N, Int)
      BY DEF Steps
    <2>2. PICK g : Recurs(g, N, Int, start, h)
      <3>1. start \in Int
        BY <1>2
      <3> HIDE DEF h, N
      <3> QED BY <1>1, <2>1, <3>1, Recursion
    <2>3. /\ g \in [0 .. N -> Int] /\ g[0] = start
          /\ \A n \in 1 .. N : g[n] = h[n][g[n - 1]]
      BY <2>2 DEF Recurs
    <2> DEFINE T == {n \in 0 .. N : /\ g[n] \in 0 .. start + W[n]
                                    /\ n # 0 => g[n] = S(g[n - 1], n)}
    <2>4. 0 \in T
      BY <1>1, <1>2, <1>4, <2>3
    <2>5. ASSUME NEW n \in 0 .. N - 1, n \in T PROVE n + 1 \in T
      <3>1. n + 1 \in 1 .. N /\ n + 1 \in 0 .. N /\ (n + 1) - 1 = n /\ n \in 0 .. N
        BY <1>1
      <3>2. g[n] \in 0 .. start + W[n]
        BY <2>5
      <3> HIDE DEF S
      <3>3. S(g[n], n + 1) \in 0 .. start + W[n + 1]
        BY <1>5, <3>2
      <3>4. S(g[n], n + 1) \in Int
        BY <3>3
      <3>5. g[n + 1] = S(g[n], n + 1)
        <4>1. g[n] \in Int /\ g[n + 1] = h[n + 1][g[n]]
          BY <2>3, <3>1
        <4> HIDE DEF N
        <4> QED BY <3>1, <3>4, <4>1
      <3> HIDE DEF N
      <3> QED BY <3>1, <3>3, <3>5
    <2>6. 0 .. N \subseteq T
      <3> HIDE DEF T, N
      <3> QED BY <1>1, <2>4, <2>5, UpTo
    <2>7. \A n \in 1 .. N : g[n] = S(g[n - 1], n)
      <3> HIDE DEF S, N
      <3> QED BY <1>1, <2>6
    <2>8. g = [i \in 0 .. N |-> IF i = 0 THEN start ELSE S(g[i - 1], i)]
      <3> HIDE DEF S, N
      <3> QED BY <1>1, <2>3, <2>7
    <2>9. Eq(g)
      <3> HIDE DEF N
      <3> QED BY <2>8
    <2> QED BY <2>9
  <1>7. Eq(pos)
    <2> HIDE DEF Eq
    <2> QED BY <1>6
  <1>8. format_commands_payload(cs, size) = Appended(size, pos[N], << 2 >>)
    BY DEF format_commands_payload, start
  <1>9. pos = [i \in 0 .. N |-> IF i = 0 THEN start ELSE S(pos[i - 1], i)]
    BY <1>7
  <1> HIDE DEF pos, S, N
  <1>10. pos[0] = start /\ \A n \in 1 .. N : pos[n] = S(pos[n - 1], n)
    BY <1>1, <1>9
  <1> DEFINE T == {n \in 0 .. N : pos[n] \in 0 .. start + W[n]}
  <1>11. 0 \in T
    BY <1>1, <1>2, <1>4, <1>10
  <1>12. ASSUME NEW n \in 0 .. N - 1, n \in T PROVE n + 1 \in T
    <2>1. n + 1 \in 1 .. N /\ n + 1 \in 0 .. N /\ (n + 1) - 1 = n
      BY <1>1
    <2>2. pos[n + 1] = S(pos[n], n + 1) /\ pos[n] \in 0 .. start + W[n]
      BY <1>10, <1>12, <2>1
    <2>3. S(pos[n], n + 1) \in 0 .. start + W[n + 1]
      BY <1>5, <2>2
    <2> QED BY <2>1, <2>2, <2>3
  <1>13. N \in T
    <2> HIDE DEF T
    <2>1. 0 .. N \subseteq T
      BY <1>1, <1>11, <1>12, UpTo
    <2> QED BY <1>1, <2>1
  <1>14. pos[N] \in 0 .. 33 + w + v
    <2>1. pos[N] \in 0 .. start + W[N] /\ W[N] \in 0 .. v
      BY <1>1, <1>13
    <2> QED BY <1>2, <2>1
  <1>15. Within(<< 2 >>, 2)
    BY WithinOne
  <1>16. Appended(size, pos[N], << 2 >>) \in 0 .. pos[N] + 2
    <2>1. pos[N] \in Nat /\ pos[N] + 2 < size
      BY <1>14
    <2> QED BY <1>15, <2>1, AppendedFits
  <1> QED BY <1>8, <1>14, <1>16

-----------------------------------------------------------------------------
(* The payloads of the builds, piece by piece *)

LEMMA CostsAppended ==
  ASSUME NEW R, NEW s, NEW w \in Nat, Costs(s, R, w), NEW x, NEW u \in Nat, Costs(<< x >>, R, u)
  PROVE  Costs(Append(s, x), R, w + u)
  <1>1. Costs(s \o << x >>, R, w + u)
    BY CostsJoined
  <1>2. x \in Goods(R) /\ s \in Seq(Goods(R))
    <2>1. << x >> \in Seq(Goods(R)) /\ Len(<< x >>) = 1 /\ << x >>[1] = x
      BY DEF Costs
    <2> QED BY <2>1 DEF Costs
  <1>3. s \o << x >> = Append(s, x)
    BY <1>2
  <1> QED BY <1>1, <1>3

LEMMA CostsWith ==
  ASSUME NEW R, NEW list, NEW w \in Nat, Costs(list, R, w), NEW flags, NEW flag
  PROVE  Costs(With(flags, flag, list), R, IF flag \in flags THEN w ELSE 0)
  BY CostsNone DEF With

LEMMA Costs2 ==
  ASSUME NEW R, NEW a, NEW b, NEW u \in Nat, NEW v \in Nat,
         Costs(<< a >>, R, u), Costs(<< b >>, R, v)
  PROVE  Costs(<< a, b >>, R, u + v)
  <1>1. Costs(Append(<< a >>, b), R, u + v)
    BY CostsAppended
  <1>2. Append(<< a >>, b) = [i \in 1 .. 2 |-> IF i = 1 THEN a ELSE b]
    OBVIOUS
  <1>3. << a, b >> = [i \in 1 .. 2 |-> IF i = 1 THEN a ELSE b]
    OBVIOUS
  <1> QED BY <1>1, <1>2, <1>3

LEMMA Costs3 ==
  ASSUME NEW R, NEW a, NEW b, NEW c, NEW u \in Nat, NEW v \in Nat, NEW w \in Nat,
         Costs(<< a >>, R, u), Costs(<< b >>, R, v), Costs(<< c >>, R, w)
  PROVE  Costs(<< a, b, c >>, R, u + v + w)
  <1>1. Costs(Append(<< a, b >>, c), R, (u + v) + w)
    <2>1. Costs(<< a, b >>, R, u + v) /\ u + v \in Nat
      BY Costs2
    <2> QED BY <2>1, CostsAppended
  <1>2. Append(<< a, b >>, c) = [i \in 1 .. 3 |-> IF i = 1 THEN a ELSE IF i = 2 THEN b ELSE c]
    OBVIOUS
  <1>3. << a, b, c >> = [i \in 1 .. 3 |-> IF i = 1 THEN a ELSE IF i = 2 THEN b ELSE c]
    OBVIOUS
  <1> QED BY <1>1, <1>2, <1>3

\* What the sensors add to a list, of which a build has one at most.
LEMMA CostsOfSensor ==
  ASSUME NEW R, NEW flags, OneSensor(flags), NEW s, NEW w \in Nat, Costs(s, R, w),
         NEW bme, NEW sht, NEW mkr, NEW v \in Nat,
         Costs(bme, R, v), Costs(sht, R, v), Costs(mkr, R, v)
  PROVE  Costs(s \o With(flags, "HAS_BME280", bme) \o With(flags, "HAS_SHT30", sht)
                 \o With(flags, "HAS_MKR_ENV", mkr), R, w + v)
  <1> DEFINE a == IF "HAS_BME280" \in flags THEN v ELSE 0
             b == IF "HAS_SHT30" \in flags THEN v ELSE 0
             c == IF "HAS_MKR_ENV" \in flags THEN v ELSE 0
  <1>1. a \in Nat /\ b \in Nat /\ c \in Nat /\ a + b + c <= v
    <2>1. /\ "HAS_BME280" \in flags => "HAS_SHT30" \notin flags /\ "HAS_MKR_ENV" \notin flags
          /\ "HAS_SHT30" \in flags => "HAS_MKR_ENV" \notin flags
      BY DEF OneSensor
    <2> QED BY <2>1
  <1>2. /\ Costs(With(flags, "HAS_BME280", bme), R, a)
        /\ Costs(With(flags, "HAS_SHT30", sht), R, b)
        /\ Costs(With(flags, "HAS_MKR_ENV", mkr), R, c)
    BY CostsWith
  <1> HIDE DEF a, b, c
  <1> DEFINE x == s \o With(flags, "HAS_BME280", bme)
             y == x \o With(flags, "HAS_SHT30", sht)
             z == y \o With(flags, "HAS_MKR_ENV", mkr)
  <1>3. Costs(x, R, w + a) /\ w + a \in Nat
    BY <1>1, <1>2, CostsJoined
  <1> HIDE DEF x
  <1>4. Costs(y, R, (w + a) + b) /\ (w + a) + b \in Nat
    BY <1>1, <1>2, <1>3, CostsJoined
  <1> HIDE DEF y
  <1>5. Costs(z, R, ((w + a) + b) + c) /\ ((w + a) + b) + c \in Nat
    BY <1>1, <1>2, <1>4, CostsJoined
  <1> HIDE DEF z
  <1>6. ((w + a) + b) + c <= w + v /\ w + v \in Nat
    BY <1>1
  <1>7. Costs(z, R, w + v)
    BY <1>5, <1>6, CostsMore
  <1> QED BY <1>7 DEF x, y, z

\* 224 bytes of 256.
LEMMA SensorFieldsCost ==
  ASSUME NEW flags, OneSensor(flags), NEW lit \in BOOLEAN
  PROVE  Costs(SensorFields(flags, lit), FieldPrices, 224) /\ SensorFields(flags, lit) # << >>
  <1> DEFINE R == FieldPrices
             temp == Field("temp", 42)
             humi == Field("humi", 5)
             press == Field("press", 42)
             lux == Field("lux", 5)
             rssi == Field("rssi", 4)
  <1>1. /\ Costs(<< temp >>, R, 4 + 4 + 42) /\ Costs(<< humi >>, R, 4 + 4 + 5)
        /\ Costs(<< press >>, R, 5 + 4 + 42) /\ Costs(<< lux >>, R, 3 + 4 + 5)
        /\ Costs(<< rssi >>, R, 4 + 4 + 4)
    BY FieldLengths
  <1>2. /\ Costs(<< Field("uv", 8) >>, R, 2 + 4 + 8) /\ Costs(<< Field("bat", 3) >>, R, 3 + 4 + 3)
        /\ Costs(<< Field("batv", 42) >>, R, 4 + 4 + 42)
    BY FieldLengths
  <1>3. Costs(<< temp, humi, press >>, R, (4 + 4 + 42) + (4 + 4 + 5) + (5 + 4 + 42))
    BY <1>1, Costs3
  <1>4. Costs(bme280_module_contribute, R, 140)
    <2>1. bme280_module_contribute = << temp, humi, press >>
      BY DEF bme280_module_contribute, FloatWidth
    <2> HIDE DEF temp, humi, press
    <2> QED BY <1>3, <2>1, CostsMore
  <1>5. Costs(sht30_module_contribute, R, 140)
    <2>1. Costs(<< temp, humi >>, R, (4 + 4 + 42) + (4 + 4 + 5))
      BY <1>1, Costs2
    <2>2. sht30_module_contribute = << temp, humi >>
      BY DEF sht30_module_contribute, FloatWidth
    <2> HIDE DEF temp, humi
    <2> QED BY <2>1, <2>2, CostsMore
  <1>6. Costs(mkr_env_module_contribute, R, 140)
    <2> DEFINE uv == Field("uv", 8)
    <2>1. mkr_env_module_contribute = << temp, humi, press, lux, uv >>
      BY DEF mkr_env_module_contribute, FloatWidth
    <2>2. Costs(<< lux, uv >>, R, (3 + 4 + 5) + (2 + 4 + 8))
      BY <1>1, <1>2, Costs2
    <2> HIDE DEF temp, humi, press, lux, uv
    <2>3. << temp, humi, press, lux, uv >> = << temp, humi, press >> \o << lux, uv >>
      OBVIOUS
    <2>4. Costs(<< temp, humi, press >> \o << lux, uv >>, R,
                ((4 + 4 + 42) + (4 + 4 + 5) + (5 + 4 + 42)) + ((3 + 4 + 5) + (2 + 4 + 8)))
      BY <1>3, <2>2, CostsJoined
    <2>5. Costs(<< temp, humi, press >> \o << lux, uv >>, R, 140)
      BY <2>4, CostsMore
    <2> QED BY <2>1, <2>3, <2>5
  <1>7. Costs(battery_module_contribute, R, 60)
    <2>1. Costs(battery_module_contribute, R, (3 + 4 + 3) + (4 + 4 + 42))
      BY <1>2, Costs2 DEF battery_module_contribute, FloatWidth
    <2> QED BY <2>1, CostsMore
  <1>8. Costs(bh1750_module_contribute, R, 12)
    BY <1>1, CostsMore DEF bh1750_module_contribute
  <1> DEFINE a == With(flags, "HAS_BME280", bme280_module_contribute)
                  \o With(flags, "HAS_SHT30", sht30_module_contribute)
                  \o With(flags, "HAS_MKR_ENV", mkr_env_module_contribute)
             b == IF lit THEN bh1750_module_contribute ELSE << >>
             c == With(flags, "HAS_BATTERY", battery_module_contribute)
  <1>9. Costs(a, R, 140)
    <2> DEFINE A == With(flags, "HAS_BME280", bme280_module_contribute)
               B == With(flags, "HAS_SHT30", sht30_module_contribute)
               C == With(flags, "HAS_MKR_ENV", mkr_env_module_contribute)
    <2>1. Costs(<< >>, R, 0)
      BY CostsNone
    <2>2. Costs(<< >> \o A \o B \o C, R, 0 + 140)
      BY <1>4, <1>5, <1>6, <2>1, CostsOfSensor
    <2>3. Costs(A, R, IF "HAS_BME280" \in flags THEN 140 ELSE 0)
      BY <1>4, CostsWith
    <2> HIDE DEF A, B, C
    <2>4. << >> \o A = A
      BY <2>3 DEF Costs
    <2>5. Costs(A \o B \o C, R, 140)
      BY <2>2, <2>4
    <2> QED BY <2>5 DEF A, B, C
  <1>10. Costs(b, R, 12)
    BY <1>8, CostsNone, CostsMore
  <1>11. Costs(c, R, 60)
    <2>1. Costs(c, R, IF "HAS_BATTERY" \in flags THEN 60 ELSE 0)
      BY <1>7, CostsWith
    <2> HIDE DEF c
    <2> QED BY <2>1, CostsMore
  <1>12. Costs(a \o b, R, 140 + 12)
    BY <1>9, <1>10, CostsJoined
  <1>13. Costs(a \o b \o c, R, (140 + 12) + 60)
    BY <1>11, <1>12, CostsJoined
  <1>14. Costs(a \o b \o c \o << rssi >>, R, ((140 + 12) + 60) + (4 + 4 + 4))
    BY <1>1, <1>13, CostsJoined
  <1>15. SensorFields(flags, lit) = a \o b \o c \o << rssi >>
    BY DEF SensorFields
  <1> HIDE DEF a, b, c, rssi
  <1>16. a \o b \o c \o << rssi >> # << >>
    <2>1. (a \o b) \o c \in Seq(Goods(R))
      BY <1>13 DEF Costs
    <2> DEFINE s == (a \o b) \o c
    <2> HIDE DEF s
    <2>2. s \o << rssi >> # << >>
      <3>1. Len(s) \in Nat /\ Len(<< rssi >>) = 1
        BY <2>1 DEF s
      <3> QED BY <3>1
    <2> QED BY <2>2 DEF s
  <1>17. Costs(a \o b \o c \o << rssi >>, R, 224)
    BY <1>14, CostsMore
  <1> QED BY <1>15, <1>16, <1>17

LEMMA JoinTwo ==
  ASSUME NEW S, NEW s \in Seq(S), NEW x \in S, NEW y \in S
  PROVE  s \o << x, y >> = Append(Append(s, x), y)
  OBVIOUS

LEMMA JoinFour ==
  ASSUME NEW a, NEW b, NEW x, NEW y
  PROVE  << a, b >> \o << x, y >> = << a, b, x, y >>
  <1> DEFINE S == {a, b, x, y}
  <1>1. << a, b >> \in Seq(S) /\ x \in S /\ y \in S
    OBVIOUS
  <1>2. << a, b >> \o << x, y >> = Append(Append(<< a, b >>, x), y)
    <2> HIDE DEF S
    <2> QED BY <1>1, JoinTwo
  <1>3. << a, b, x, y >> = Append(Append(<< a, b >>, x), y)
    OBVIOUS
  <1> QED BY <1>2, <1>3

LEMMA JoinSix ==
  ASSUME NEW a, NEW b, NEW c, NEW x, NEW y, NEW z
  PROVE  << a, b, c >> \o << x, y, z >> = << a, b, c, x, y, z >>
  <1> DEFINE S == {a, b, c, x, y, z}
  <1>1. ASSUME NEW T, NEW s \in Seq(T), NEW p \in T, NEW q \in T, NEW r \in T
        PROVE  s \o << p, q, r >> = Append(Append(Append(s, p), q), r)
    OBVIOUS
  <1>2. << a, b, c >> \in Seq(S) /\ x \in S /\ y \in S /\ z \in S
    OBVIOUS
  <1>3. << a, b, c >> \o << x, y, z >> = Append(Append(Append(<< a, b, c >>, x), y), z)
    <2> HIDE DEF S
    <2> QED BY <1>1, <1>2
  <1>4. << a, b, c, x, y, z >> = Append(Append(Append(<< a, b, c >>, x), y), z)
    OBVIOUS
  <1> QED BY <1>3, <1>4

LEMMA JoinEight ==
  ASSUME NEW a, NEW b, NEW c, NEW x, NEW y, NEW z, NEW u, NEW v
  PROVE  << a, b, c >> \o << x, y, z >> \o << u, v >> = << a, b, c, x, y, z, u, v >>
  <1> DEFINE S == {a, b, c, x, y, z, u, v}
             s == << a, b, c, x, y, z >>
  <1>1. s \in Seq(S) /\ u \in S /\ v \in S
    OBVIOUS
  <1>2. s \o << u, v >> = Append(Append(s, u), v)
    <2> HIDE DEF S, s
    <2> QED BY <1>1, JoinTwo
  <1>3. << a, b, c, x, y, z, u, v >> = Append(Append(s, u), v)
    OBVIOUS
  <1>4. << a, b, c >> \o << x, y, z >> = s
    BY JoinSix
  <1> QED BY <1>2, <1>3, <1>4

LEMMA TwoMore == \A k \in 2 .. 16 : k + 2 \in 0 .. 18
  OBVIOUS

\* 318 bytes of 320.
LEMMA DiagFieldsCost ==
  ASSUME CountersFit, NEW d \in DiagData, NEW used \in BOOLEAN
  PROVE  Costs(DiagFields(d, used), FieldPrices, 318) /\ DiagFields(d, used) # << >>
  <1> DEFINE R == FieldPrices
             C == IF used THEN CounterDigits ELSE 1
             v == diag_evaluate(d)
             l == (IF v.level = WARNING THEN 7 ELSE 5) + 2
             m == Len(v.message) + 2
             level == Field("level", l)
             text == Field("message", m)
             rst == Field("rst", 1)
             boot == Field("boot", C)
             miss == Field("miss", C)
             wake == Field("wake_ms", 10)
             seq == Field("seq", C)
             fail == Field("pubfail", C)
             txsent == Field("txsent", C)
             txok == Field("txok", C)
             wf == Field("wf", C)
             mf == Field("mf", C)
             sf == Field("sf", C)
             bx == Field("bx", C)
             rssi == Field("rssi", 4)
             heap == Field("heap", 6)
             bat == Field("bat", 3)
             fw == Field("fw", FwLen + 2)
             hw == Field("hw", 8 + 2)
             rev == Field("hwrev", 2)
             id == Field("id", 12 + 2)
  <1>1. /\ C \in Nat /\ CounterDigits \in Nat /\ FwLen \in Nat /\ C <= CounterDigits
        /\ 10 * CounterDigits + FwLen <= 75
    BY ReportsAssumption DEF CountersFit
  <1>2. l \in 0 .. 9 /\ m \in 0 .. 18
    <2>1. v.message \in Messages
      BY VerdictType DEF Verdicts
    <2>2. Len(v.message) \in 2 .. 16
      BY <2>1, NameLengths
    <2>3. m \in 0 .. 18
      <3> HIDE DEF v
      <3> QED BY <2>2, TwoMore
    <2> QED BY <2>3
  <1> HIDE DEF C, l, m
  <1> DEFINE eight == << level, text, rst, boot, miss, wake, seq, fail >>
             six == << txsent, txok, wf, mf, sf, bx >>
             counted == IF used THEN six ELSE << >>
             battery == IF d.battery = "none" THEN << >> ELSE << bat >>
             four == << fw, hw, rev, id >>
  <1>3. DiagFields(d, used) = eight \o counted \o << rssi, heap >> \o battery \o four
    <2>1. << txsent, txok, wf, mf, sf, bx >> =
            [i \in DOMAIN << "txsent", "txok", "wf", "mf", "sf", "bx" >> |->
               Field(<< "txsent", "txok", "wf", "mf", "sf", "bx" >>[i], C)]
      OBVIOUS
    <2> QED BY <2>1 DEF DiagFields, StringField, HwIdLen, C, l, m
  <1>4. /\ Costs(<< level >>, R, 5 + 4 + l) /\ Costs(<< text >>, R, 7 + 4 + m)
        /\ Costs(<< rst >>, R, 3 + 4 + 1) /\ Costs(<< boot >>, R, 4 + 4 + C)
        /\ Costs(<< miss >>, R, 4 + 4 + C) /\ Costs(<< wake >>, R, 7 + 4 + 10)
        /\ Costs(<< seq >>, R, 3 + 4 + C) /\ Costs(<< fail >>, R, 7 + 4 + C)
    <2>1. l \in Nat /\ m \in Nat /\ C \in Nat
      BY <1>1, <1>2
    <2> QED BY <2>1, FieldLengths
  <1>5. /\ Costs(<< txsent >>, R, 6 + 4 + C) /\ Costs(<< txok >>, R, 4 + 4 + C)
        /\ Costs(<< wf >>, R, 2 + 4 + C) /\ Costs(<< mf >>, R, 2 + 4 + C)
        /\ Costs(<< sf >>, R, 2 + 4 + C) /\ Costs(<< bx >>, R, 2 + 4 + C)
    BY <1>1, FieldLengths
  <1>6. /\ Costs(<< rssi >>, R, 4 + 4 + 4) /\ Costs(<< heap >>, R, 4 + 4 + 6)
        /\ Costs(<< bat >>, R, 3 + 4 + 3) /\ Costs(<< fw >>, R, 2 + 4 + (FwLen + 2))
        /\ Costs(<< hw >>, R, 2 + 4 + (8 + 2)) /\ Costs(<< rev >>, R, 5 + 4 + 2)
        /\ Costs(<< id >>, R, 2 + 4 + (12 + 2))
    <2>1. FwLen + 2 \in Nat
      BY <1>1
    <2> QED BY <2>1, FieldLengths
  <1> HIDE DEF level, text, rst, boot, miss, wake, seq, fail, txsent, txok, wf, mf, sf, bx,
               rssi, heap, bat, fw, hw, rev, id
  <1>7. Costs(eight, R, 110 + 4 * C)
    <2>1. /\ Costs(<< level, text, rst >>, R, (5 + 4 + l) + (7 + 4 + m) + (3 + 4 + 1))
          /\ Costs(<< boot, miss, wake >>, R, (4 + 4 + C) + (4 + 4 + C) + (7 + 4 + 10))
          /\ Costs(<< seq, fail >>, R, (3 + 4 + C) + (7 + 4 + C))
      <3>1. /\ 5 + 4 + l \in Nat /\ 7 + 4 + m \in Nat /\ 4 + 4 + C \in Nat
            /\ 3 + 4 + C \in Nat /\ 7 + 4 + C \in Nat
        BY <1>1, <1>2
      <3>2. Costs(<< level, text, rst >>, R, (5 + 4 + l) + (7 + 4 + m) + (3 + 4 + 1))
        BY <1>4, <3>1, Costs3
      <3>3. Costs(<< boot, miss, wake >>, R, (4 + 4 + C) + (4 + 4 + C) + (7 + 4 + 10))
        BY <1>4, <3>1, Costs3
      <3>4. Costs(<< seq, fail >>, R, (3 + 4 + C) + (7 + 4 + C))
        BY <1>4, <3>1, Costs2
      <3> QED BY <3>2, <3>3, <3>4
    <2>2. /\ Costs(<< level, text, rst >>, R, 55) /\ Costs(<< boot, miss, wake >>, R, 37 + 2 * C)
          /\ Costs(<< seq, fail >>, R, 18 + 2 * C)
      <3>1. /\ (5 + 4 + l) + (7 + 4 + m) + (3 + 4 + 1) \in 0 .. 55
            /\ (4 + 4 + C) + (4 + 4 + C) + (7 + 4 + 10) = 37 + 2 * C
            /\ (3 + 4 + C) + (7 + 4 + C) = 18 + 2 * C /\ 37 + 2 * C \in Nat /\ 18 + 2 * C \in Nat
        BY <1>1, <1>2
      <3>2. Costs(<< level, text, rst >>, R, 55)
        BY <2>1, <3>1, CostsMore
      <3> QED BY <2>1, <3>1, <3>2
    <2>3. Costs(<< level, text, rst >> \o << boot, miss, wake >>, R, 55 + (37 + 2 * C))
      <3>1. 37 + 2 * C \in Nat
        BY <1>1
      <3> QED BY <2>2, <3>1, CostsJoined
    <2>4. Costs(<< level, text, rst >> \o << boot, miss, wake >> \o << seq, fail >>, R,
                (55 + (37 + 2 * C)) + (18 + 2 * C))
      <3>1. 55 + (37 + 2 * C) \in Nat /\ 18 + 2 * C \in Nat
        BY <1>1
      <3> QED BY <2>2, <2>3, <3>1, CostsJoined
    <2>5. << level, text, rst >> \o << boot, miss, wake >> \o << seq, fail >> = eight
      BY JoinEight
    <2>6. (55 + (37 + 2 * C)) + (18 + 2 * C) = 110 + 4 * C
      BY <1>1
    <2> HIDE DEF eight
    <2> QED BY <2>4, <2>5, <2>6
  <1>8. Costs(counted, R, 42 + 6 * C)
    <2>1. /\ Costs(<< txsent, txok, wf >>, R, (6 + 4 + C) + (4 + 4 + C) + (2 + 4 + C))
          /\ Costs(<< mf, sf, bx >>, R, (2 + 4 + C) + (2 + 4 + C) + (2 + 4 + C))
      <3>1. 6 + 4 + C \in Nat /\ 4 + 4 + C \in Nat /\ 2 + 4 + C \in Nat
        BY <1>1
      <3> QED BY <1>5, <3>1, Costs3
    <2>2. Costs(<< txsent, txok, wf >>, R, 24 + 3 * C) /\ Costs(<< mf, sf, bx >>, R, 18 + 3 * C)
      <3>1. /\ (6 + 4 + C) + (4 + 4 + C) + (2 + 4 + C) = 24 + 3 * C
            /\ (2 + 4 + C) + (2 + 4 + C) + (2 + 4 + C) = 18 + 3 * C
        BY <1>1
      <3> QED BY <2>1, <3>1
    <2>3. Costs(<< txsent, txok, wf >> \o << mf, sf, bx >>, R, (24 + 3 * C) + (18 + 3 * C))
      <3>1. 24 + 3 * C \in Nat /\ 18 + 3 * C \in Nat
        BY <1>1
      <3> QED BY <2>2, <3>1, CostsJoined
    <2>4. << txsent, txok, wf >> \o << mf, sf, bx >> = six
      BY JoinSix
    <2>5. (24 + 3 * C) + (18 + 3 * C) = 42 + 6 * C /\ 42 + 6 * C \in Nat /\ 0 <= 42 + 6 * C
      BY <1>1
    <2> HIDE DEF six
    <2>6. Costs(six, R, 42 + 6 * C)
      BY <2>3, <2>4, <2>5
    <2>7. Costs(<< >>, R, 42 + 6 * C)
      BY <2>5, CostsNone, CostsMore
    <2> QED BY <2>6, <2>7
  <1>9. Costs(<< rssi, heap >>, R, (4 + 4 + 4) + (4 + 4 + 6))
    BY <1>6, Costs2
  <1>10. Costs(battery, R, 10)
    BY <1>6, CostsNone, CostsMore
  <1>11. Costs(four, R, 55 + FwLen)
    <2>1. Costs(<< fw, hw >>, R, (2 + 4 + (FwLen + 2)) + (2 + 4 + (8 + 2)))
      <3>1. 2 + 4 + (FwLen + 2) \in Nat
        BY <1>1
      <3> QED BY <1>6, <3>1, Costs2
    <2>2. Costs(<< rev, id >>, R, (5 + 4 + 2) + (2 + 4 + (12 + 2)))
      BY <1>6, Costs2
    <2>3. Costs(<< fw, hw >> \o << rev, id >>, R,
                ((2 + 4 + (FwLen + 2)) + (2 + 4 + (8 + 2))) + ((5 + 4 + 2) + (2 + 4 + (12 + 2))))
      <3>1. (2 + 4 + (FwLen + 2)) + (2 + 4 + (8 + 2)) \in Nat
        BY <1>1
      <3> QED BY <2>1, <2>2, <3>1, CostsJoined
    <2>4. << fw, hw >> \o << rev, id >> = four
      BY JoinFour
    <2>5. ((2 + 4 + (FwLen + 2)) + (2 + 4 + (8 + 2))) + ((5 + 4 + 2) + (2 + 4 + (12 + 2))) = 55 + FwLen
      BY <1>1
    <2> HIDE DEF four
    <2> QED BY <2>3, <2>4, <2>5
  <1> HIDE DEF eight, counted, battery, four
  <1> DEFINE e1 == eight \o counted
             e2 == e1 \o << rssi, heap >>
             e3 == e2 \o battery
             e4 == e3 \o four
             c1 == (110 + 4 * C) + (42 + 6 * C)
             c2 == c1 + 26
             c3 == c2 + 10
             c4 == c3 + (55 + FwLen)
  <1>12. Costs(e1, R, c1)
    <2>1. 110 + 4 * C \in Nat /\ 42 + 6 * C \in Nat
      BY <1>1
    <2> QED BY <1>7, <1>8, <2>1, CostsJoined
  <1>13. c1 \in Nat /\ c4 = 10 * C + FwLen + 243 /\ c4 \in 0 .. 318 /\ 55 + FwLen \in Nat
    BY <1>1
  <1> HIDE DEF e1, c1
  <1>14. Costs(e2, R, c2)
    <2>1. Costs(<< rssi, heap >>, R, 26)
      BY <1>9, CostsMore
    <2> QED BY <1>12, <1>13, <2>1, CostsJoined
  <1> HIDE DEF e2
  <1>15. Costs(e3, R, c3)
    <2>1. c2 \in Nat
      BY <1>13
    <2> HIDE DEF c2
    <2> QED BY <1>10, <1>14, <2>1, CostsJoined
  <1> HIDE DEF e3
  <1>16. Costs(e4, R, c4)
    <2>1. c3 \in Nat
      BY <1>13
    <2> HIDE DEF c3
    <2> QED BY <1>11, <1>13, <1>15, <2>1, CostsJoined
  <1>17. DiagFields(d, used) = e4
    BY <1>3 DEF e1, e2, e3
  <1>18. Costs(e4, R, 318)
    <2> HIDE DEF e4, c4
    <2> QED BY <1>13, <1>16, CostsMore
  <1>19. e4 # << >>
    <2>1. e3 \in Seq(Goods(R)) /\ four \in Seq(Goods(R))
      BY <1>11, <1>15 DEF Costs
    <2>2. Len(e4) = Len(e3) + Len(four) /\ Len(e3) \in Nat
      BY <2>1
    <2>3. Len(four) = 4
      BY DEF four
    <2> HIDE DEF e4
    <2> QED BY <2>2, <2>3
  <1> QED BY <1>17, <1>18, <1>19

-----------------------------------------------------------------------------
(* What the registry of a build costs *)

LEMMA MetricsOfLength ==
  ASSUME NEW K \in SUBSET Names, NEW l \in Nat, \A s \in K : Len(s) = l
  PROVE  \A name \in K, unit \in Nat : Costs(<< Metric(name, unit) >>, MetricPrices, l + unit + 6)
  <1> TAKE name \in K, unit \in Nat
  <1>1. name \in Names /\ Len(name) = l /\ l + unit + 6 \in Nat
    OBVIOUS
  <1> QED BY <1>1, MetricCosts

LEMMA MetricLengths ==
  /\ \A unit \in Nat : Costs(<< Metric("uv", unit) >>, MetricPrices, 2 + unit + 6)
  /\ \A name \in {"lux", "bat"}, unit \in Nat :
        Costs(<< Metric(name, unit) >>, MetricPrices, 3 + unit + 6)
  /\ \A name \in {"temp", "humi", "batv", "rssi"}, unit \in Nat :
        Costs(<< Metric(name, unit) >>, MetricPrices, 4 + unit + 6)
  /\ \A unit \in Nat : Costs(<< Metric("press", unit) >>, MetricPrices, 5 + unit + 6)
  <1>1. \A unit \in Nat : Costs(<< Metric("uv", unit) >>, MetricPrices, 2 + unit + 6)
    <2> DEFINE K == {"uv"}
    <2>1. K \in SUBSET Names /\ \A s \in K : Len(s) = 2
      BY NameLengths DEF Names
    <2> HIDE DEF K
    <2>2. \A name \in K, unit \in Nat : Costs(<< Metric(name, unit) >>, MetricPrices, 2 + unit + 6)
      BY <2>1, MetricsOfLength
    <2> QED BY <2>2 DEF K
  <1>2. \A name \in {"lux", "bat"}, unit \in Nat :
           Costs(<< Metric(name, unit) >>, MetricPrices, 3 + unit + 6)
    <2> DEFINE K == {"lux", "bat"}
    <2>1. K \in SUBSET Names /\ \A s \in K : Len(s) = 3
      BY NameLengths DEF Names
    <2> HIDE DEF K
    <2>2. \A name \in K, unit \in Nat : Costs(<< Metric(name, unit) >>, MetricPrices, 3 + unit + 6)
      BY <2>1, MetricsOfLength
    <2> QED BY <2>2 DEF K
  <1>3. \A name \in {"temp", "humi", "batv", "rssi"}, unit \in Nat :
           Costs(<< Metric(name, unit) >>, MetricPrices, 4 + unit + 6)
    <2> DEFINE K == {"temp", "humi", "batv", "rssi"}
    <2>1. K \in SUBSET Names /\ \A s \in K : Len(s) = 4
      BY NameLengths DEF Names
    <2> HIDE DEF K
    <2>2. \A name \in K, unit \in Nat : Costs(<< Metric(name, unit) >>, MetricPrices, 4 + unit + 6)
      BY <2>1, MetricsOfLength
    <2> QED BY <2>2 DEF K
  <1>4. \A unit \in Nat : Costs(<< Metric("press", unit) >>, MetricPrices, 5 + unit + 6)
    <2> DEFINE K == {"press"}
    <2>1. K \in SUBSET Names /\ \A s \in K : Len(s) = 5
      BY NameLengths DEF Names
    <2> HIDE DEF K
    <2>2. \A name \in K, unit \in Nat : Costs(<< Metric(name, unit) >>, MetricPrices, 5 + unit + 6)
      BY <2>1, MetricsOfLength
    <2> QED BY <2>2 DEF K
  <1> QED BY <1>1, <1>2, <1>3, <1>4

\* The metrics, at most 103 bytes.
LEMMA AddedMetricsCost ==
  ASSUME NEW flags, OneSensor(flags)
  PROVE  Costs(AddedMetrics(flags), MetricPrices, 103)
  <1> DEFINE R == MetricPrices
             core == << Metric("rssi", 3) >>
             temp == Metric("temp", 3)
             humi == Metric("humi", 1)
             press == Metric("press", 3)
             bat == Metric("bat", 1)
             batv == Metric("batv", 1)
  <1>1. /\ Costs(<< Metric("rssi", 3) >>, R, 4 + 3 + 6) /\ Costs(<< temp >>, R, 4 + 3 + 6)
        /\ Costs(<< humi >>, R, 4 + 1 + 6) /\ Costs(<< press >>, R, 5 + 3 + 6)
        /\ Costs(<< bat >>, R, 3 + 1 + 6) /\ Costs(<< batv >>, R, 4 + 1 + 6)
    BY MetricLengths
  <1>2. /\ Costs(<< Metric("lux", 3) >>, R, 3 + 3 + 6) /\ Costs(<< Metric("lux", 2) >>, R, 3 + 2 + 6)
        /\ Costs(<< Metric("uv", 0) >>, R, 2 + 0 + 6)
    BY MetricLengths
  <1> HIDE DEF temp, humi, press, bat, batv
  <1>3. Costs(<< temp, humi, press >>, R, (4 + 3 + 6) + (4 + 1 + 6) + (5 + 3 + 6))
    BY <1>1, Costs3
  <1>4. Costs(bme280_module_register.metrics, R, 58)
    <2>1. bme280_module_register.metrics = << temp, humi, press >>
      BY DEF bme280_module_register, temp, humi, press
    <2> QED BY <1>3, <2>1, CostsMore
  <1>5. Costs(sht30_module_register.metrics, R, 58)
    <2>1. Costs(<< temp, humi >>, R, (4 + 3 + 6) + (4 + 1 + 6))
      BY <1>1, Costs2
    <2>2. sht30_module_register.metrics = << temp, humi >>
      BY DEF sht30_module_register, temp, humi
    <2> QED BY <2>1, <2>2, CostsMore
  <1>6. Costs(mkr_env_module_register.metrics, R, 58)
    <2> DEFINE lux == Metric("lux", 3)
               uv == Metric("uv", 0)
    <2>1. mkr_env_module_register.metrics = << temp, humi, press, lux, uv >>
      BY DEF mkr_env_module_register, temp, humi, press
    <2>2. Costs(<< lux, uv >>, R, (3 + 3 + 6) + (2 + 0 + 6))
      BY <1>2, Costs2
    <2> HIDE DEF lux, uv
    <2>3. << temp, humi, press, lux, uv >> = << temp, humi, press >> \o << lux, uv >>
      OBVIOUS
    <2>4. Costs(<< temp, humi, press >> \o << lux, uv >>, R,
                ((4 + 3 + 6) + (4 + 1 + 6) + (5 + 3 + 6)) + ((3 + 3 + 6) + (2 + 0 + 6)))
      BY <1>3, <2>2, CostsJoined
    <2>5. Costs(<< temp, humi, press >> \o << lux, uv >>, R, 58)
      BY <2>4, CostsMore
    <2> QED BY <2>1, <2>3, <2>5
  <1>7. Costs(battery_module_register.metrics, R, 21)
    <2>1. battery_module_register.metrics = << bat, batv >>
      BY DEF battery_module_register, bat, batv
    <2>2. Costs(<< bat, batv >>, R, (3 + 1 + 6) + (4 + 1 + 6))
      BY <1>1, Costs2
    <2> QED BY <2>1, <2>2, CostsMore
  <1>8. Costs(bh1750_module_register.metrics, R, 11)
    BY <1>2, CostsMore DEF bh1750_module_register
  <1>9. Costs(core_register.metrics, R, 13)
    BY <1>1, CostsMore DEF core_register
  <1> DEFINE a == core_register.metrics
                  \o With(flags, "HAS_BME280", bme280_module_register.metrics)
                  \o With(flags, "HAS_SHT30", sht30_module_register.metrics)
                  \o With(flags, "HAS_MKR_ENV", mkr_env_module_register.metrics)
             b == With(flags, "HAS_BATTERY", battery_module_register.metrics)
             c == With(flags, "HAS_BH1750", bh1750_module_register.metrics)
  <1>10. Costs(a, R, 13 + 58)
    BY <1>4, <1>5, <1>6, <1>9, CostsOfSensor
  <1>11. Costs(b, R, 21)
    <2>1. Costs(b, R, IF "HAS_BATTERY" \in flags THEN 21 ELSE 0)
      BY <1>7, CostsWith
    <2> HIDE DEF b
    <2> QED BY <2>1, CostsMore
  <1>12. Costs(c, R, 11)
    <2>1. Costs(c, R, IF "HAS_BH1750" \in flags THEN 11 ELSE 0)
      BY <1>8, CostsWith
    <2> HIDE DEF c
    <2> QED BY <2>1, CostsMore
  <1>13. AddedMetrics(flags) = a \o b \o c
    BY DEF AddedMetrics
  <1> HIDE DEF a, b, c
  <1>14. Costs(a \o b, R, (13 + 58) + 21)
    BY <1>10, <1>11, CostsJoined
  <1>15. Costs(a \o b \o c, R, ((13 + 58) + 21) + 11)
    BY <1>12, <1>14, CostsJoined
  <1>16. Costs(a \o b \o c, R, 103)
    BY <1>15, CostsMore
  <1> QED BY <1>13, <1>16

\* What a command costs in the list of names, and in the descriptions.
LEMMA NameCosts ==
  ASSUME NEW name \in Names, NEW params \in Seq(Names \X Names),
         NEW l \in Nat, Len(name) = l, NEW u \in Nat, l + 3 = u
  PROVE  Costs(<< Command(name, params) >>, NamePrices, u)
  <1> DEFINE c == Command(name, params)
  <1>1. c \in Named /\ c.name = name
    BY DEF Command, Named
  <1>2. <<c, u>> \in NamePrices
    <2> HIDE DEF c
    <2> QED BY <1>1 DEF NamePrices
  <1> HIDE DEF c
  <1>3. Costs(<< c >>, NamePrices, u)
    BY <1>2, CostsOne
  <1> QED BY <1>3 DEF c

LEMMA DescriptionCosts ==
  ASSUME NEW name \in Names, NEW params \in Seq(Names \X Names), NEW p \in Nat,
         Within(ParamPieces(params), p),
         NEW l \in Nat, Len(name) = l
  PROVE  Costs(<< Command(name, params) >>, DescriptionPrices, l + 6 + p)
  <1> DEFINE c == Command(name, params)
             u == l + 6 + p
  <1>1. c \in Named /\ c.name = name /\ c.params = params
    BY DEF Command, Named
  <1>0. u \in Nat /\ l + 6 + p <= u
    OBVIOUS
  <1>2. <<c, u>> \in DescriptionPrices
    <2> HIDE DEF c, u
    <2> QED BY <1>0, <1>1 DEF DescriptionPrices
  <1> HIDE DEF c
  <1>3. Costs(<< c >>, DescriptionPrices, u)
    <2> HIDE DEF u
    <2> QED BY <1>0, <1>2, CostsOne
  <1> QED BY <1>3 DEF c

\* One parameter, and two.
LEMMA PieceOf ==
  ASSUME NEW ps, NEW j \in Nat, j \in DOMAIN ps, NEW q, ps[j] = q,
         NEW a \in Nat, Len(q[1]) = a, NEW b \in Nat, Len(q[2]) = b
  PROVE  ParamPieces(ps)[j] = (IF j > 1 THEN 16 ELSE 15) + a + b
  <1>1. ParamPieces(ps)[j] = (IF j > 1 THEN 1 ELSE 0) + 15 + Len(ps[j][1]) + Len(ps[j][2])
    BY DEF ParamPieces
  <1>2. Len(ps[j][1]) = a /\ Len(ps[j][2]) = b
    OBVIOUS
  <1>3. ParamPieces(ps)[j] = (IF j > 1 THEN 1 ELSE 0) + 15 + a + b
    BY <1>1, <1>2
  <1> QED BY <1>3

LEMMA OneParam ==
  ASSUME NEW q \in Names \X Names, NEW a \in Nat, Len(q[1]) = a, NEW b \in Nat, Len(q[2]) = b
  PROVE  << q >> \in Seq(Names \X Names) /\ Within(ParamPieces(<< q >>), 15 + a + b)
  <1> DEFINE ps == << q >>
             P == ParamPieces(ps)
             k == 15 + a + b
  <1>1. ps \in Seq(Names \X Names) /\ DOMAIN ps = 1 .. 1 /\ ps[1] = q
    OBVIOUS
  <1> HIDE DEF ps
  <1>2. P[1] = k
    <2>1. 1 \in DOMAIN ps
      BY <1>1
    <2>2. P[1] = (IF 1 > 1 THEN 16 ELSE 15) + a + b
      BY <1>1, <2>1, PieceOf
    <2> HIDE DEF P
    <2> QED BY <2>2
  <1>3. DOMAIN P = 1 .. 1 /\ P = [j \in DOMAIN P |-> P[j]]
    BY <1>1 DEF ParamPieces
  <1>4. k \in Nat
    OBVIOUS
  <1> HIDE DEF P, k
  <1>5. P = [j \in 1 .. 1 |-> k]
    BY <1>2, <1>3
  <1>6. P = << k >>
    BY <1>5
  <1>7. Within(P, k)
    BY <1>4, <1>6, WithinOne
  <1> QED BY <1>1, <1>7 DEF P, ps, k

LEMMA TwoParams ==
  ASSUME NEW q \in Names \X Names, NEW a \in Nat, Len(q[1]) = a, NEW b \in Nat, Len(q[2]) = b,
         NEW r \in Names \X Names, NEW c \in Nat, Len(r[1]) = c, NEW d \in Nat, Len(r[2]) = d
  PROVE  Within(ParamPieces(<< q, r >>), (15 + a + b) + (16 + c + d))
  <1> DEFINE ps == << q, r >>
             P == ParamPieces(ps)
             k == 15 + a + b
             m == 16 + c + d
  <1>1. ps \in Seq(Names \X Names) /\ DOMAIN ps = 1 .. 2 /\ ps[1] = q /\ ps[2] = r
    OBVIOUS
  <1> HIDE DEF ps
  <1>2. P[1] = k
    <2>1. 1 \in DOMAIN ps
      BY <1>1
    <2>2. P[1] = (IF 1 > 1 THEN 16 ELSE 15) + a + b
      BY <1>1, <2>1, PieceOf
    <2> HIDE DEF P
    <2> QED BY <2>2
  <1>20. P[2] = m
    <2>1. 2 \in DOMAIN ps
      BY <1>1
    <2>2. P[2] = (IF 2 > 1 THEN 16 ELSE 15) + c + d
      BY <1>1, <2>1, PieceOf
    <2> HIDE DEF P
    <2> QED BY <2>2
  <1>3. DOMAIN P = 1 .. 2 /\ P = [j \in DOMAIN P |-> P[j]]
    BY <1>1 DEF ParamPieces
  <1>4. k \in Nat /\ m \in Nat
    OBVIOUS
  <1> HIDE DEF P, k, m
  <1>5. P = [j \in 1 .. 2 |-> IF j = 1 THEN k ELSE m]
    BY <1>2, <1>20, <1>3
  <1>6. P = Append(<< k >>, m)
    <2>1. Append(<< k >>, m) = [j \in 1 .. 2 |-> IF j = 1 THEN k ELSE m]
      OBVIOUS
    <2> QED BY <1>5, <2>1
  <1>7. << k >> \o << m >> = Append(<< k >>, m)
    BY <1>4
  <1>8. Within(P, k + m)
    <2>1. Within(<< k >>, k) /\ Within(<< m >>, m)
      BY <1>4, WithinOne
    <2>2. Within(<< k >> \o << m >>, k + m)
      BY <1>4, <2>1, WithinJoined
    <2> QED BY <1>6, <1>7, <2>2
  <1> QED BY <1>8 DEF P, ps, k, m

\* The commands, at most 88 bytes in the list and 235 in the descriptions.
LEMMA AddedCommandsCost ==
  ASSUME NEW flags
  PROVE  /\ Costs(AddedCommands(flags), NamePrices, 88)
         /\ Costs(AddedCommands(flags), DescriptionPrices, 235)
  <1> DEFINE metric == <<"metric", "string">>
             key == <<"key", "string">>
             none == << >>
             one == << Value >>
             offset == << metric, Value >>
             cal == << key, Value >>
             T == Names \X Names
             interval == Command("set_interval", one)
             battery == Command("calibrate_battery", one)
             setoff == Command("set_offset", offset)
             setcal == Command("set_calibration", cal)
             request == Command("request_calibration", none)
  <1>26. 3 \in Nat /\ 5 \in Nat /\ 6 \in Nat
    OBVIOUS
  <1>1. /\ Value \in T /\ Len(Value[1]) = 5 /\ Len(Value[2]) = 6
        /\ metric \in T /\ Len(metric[1]) = 6 /\ Len(metric[2]) = 6
        /\ key \in T /\ Len(key[1]) = 3 /\ Len(key[2]) = 6
    BY NameLengths DEF Value, Names
  <1>27. /\ 12 \in Nat /\ 15 \in Nat /\ 12 + 3 = 15 /\ 17 \in Nat /\ 20 \in Nat /\ 17 + 3 = 20
         /\ 10 \in Nat /\ 13 \in Nat /\ 10 + 3 = 13 /\ 18 \in Nat /\ 15 + 3 = 18
         /\ 19 \in Nat /\ 22 \in Nat /\ 19 + 3 = 22
    OBVIOUS
  <1>25. /\ Len("set_interval") = 12 /\ Len("calibrate_battery") = 17 /\ Len("set_offset") = 10
         /\ Len("set_calibration") = 15 /\ Len("request_calibration") = 19
    BY NameLengths
  <1>2. /\ "set_interval" \in Names /\ "calibrate_battery" \in Names /\ "set_offset" \in Names
        /\ "set_calibration" \in Names /\ "request_calibration" \in Names
    BY DEF Names
  <1>3. /\ core_register.commands = << interval >>
        /\ battery_module_register.commands = << battery >>
        /\ calibration_module_register.commands = << setoff, setcal, request >>
    BY DEF core_register, battery_module_register, calibration_module_register
  <1> HIDE DEF metric, key
  <1>4. one \in Seq(T) /\ Within(ParamPieces(one), 15 + 5 + 6)
    BY <1>1, OneParam
  <1>5. offset \in Seq(T) /\ Within(ParamPieces(offset), (15 + 6 + 6) + (16 + 5 + 6))
    <2>1. Within(ParamPieces(offset), (15 + 6 + 6) + (16 + 5 + 6))
      <3> DEFINE a == 6
                 c == 5
      <3>1. /\ Len(metric[1]) = a /\ Len(metric[2]) = a /\ Len(Value[1]) = c /\ Len(Value[2]) = a
            /\ a \in Nat /\ c \in Nat
        BY <1>1
      <3> HIDE DEF a, c
      <3>2. Within(ParamPieces(offset), (15 + a + a) + (16 + c + a))
        BY <1>1, <3>1, TwoParams
      <3> QED BY <3>2 DEF a, c
    <2>2. offset \in Seq(T)
      BY <1>1
    <2> QED BY <2>1, <2>2
  <1>6. cal \in Seq(T) /\ Within(ParamPieces(cal), (15 + 3 + 6) + (16 + 5 + 6))
    <2>1. Within(ParamPieces(cal), (15 + 3 + 6) + (16 + 5 + 6))
      <3> DEFINE a == 3
                 b == 6
                 c == 5
      <3>1. /\ Len(key[1]) = a /\ Len(key[2]) = b /\ Len(Value[1]) = c /\ Len(Value[2]) = b
            /\ a \in Nat /\ b \in Nat /\ c \in Nat
        BY <1>1
      <3> HIDE DEF a, b, c
      <3>2. Within(ParamPieces(cal), (15 + a + b) + (16 + c + b))
        BY <1>1, <3>1, TwoParams
      <3> QED BY <3>2 DEF a, b, c
    <2>2. cal \in Seq(T)
      BY <1>1
    <2> QED BY <2>1, <2>2
  <1>7. none \in Seq(T)
    OBVIOUS
  <1> HIDE DEF one, offset, cal
  <1>8. Costs(<< interval >>, NamePrices, 15)
    BY <1>2, <1>4, <1>25, <1>27, NameCosts
  <1>9. Costs(<< battery >>, NamePrices, 20)
    BY <1>2, <1>4, <1>25, <1>27, NameCosts
  <1>10. Costs(<< setoff >>, NamePrices, 13)
    BY <1>2, <1>5, <1>25, <1>27, NameCosts
  <1>11. Costs(<< setcal >>, NamePrices, 18)
    BY <1>2, <1>6, <1>25, <1>27, NameCosts
  <1>12. Costs(<< request >>, NamePrices, 22)
    BY <1>2, <1>7, <1>25, <1>27, NameCosts
  <1>13. Costs(<< interval >>, DescriptionPrices, 44)
    <2>1. Within(ParamPieces(one), 26)
      BY <1>4, WithinMore
    <2>2. Costs(<< interval >>, DescriptionPrices, 12 + 6 + 26)
      BY <1>2, <1>4, <1>25, <2>1, DescriptionCosts
    <2> HIDE DEF interval
    <2> QED BY <2>2, CostsMore
  <1>14. Costs(<< battery >>, DescriptionPrices, 49)
    <2>1. Within(ParamPieces(one), 26)
      BY <1>4, WithinMore
    <2>2. Costs(<< battery >>, DescriptionPrices, 17 + 6 + 26)
      BY <1>2, <1>4, <1>25, <2>1, DescriptionCosts
    <2> HIDE DEF battery
    <2> QED BY <2>2, CostsMore
  <1>15. Costs(<< setoff >>, DescriptionPrices, 70)
    <2>1. Within(ParamPieces(offset), 54)
      BY <1>5, WithinMore
    <2>2. Costs(<< setoff >>, DescriptionPrices, 10 + 6 + 54)
      BY <1>2, <1>5, <1>25, <2>1, DescriptionCosts
    <2> HIDE DEF setoff
    <2> QED BY <2>2, CostsMore
  <1>16. Costs(<< setcal >>, DescriptionPrices, 72)
    <2>1. Within(ParamPieces(cal), 51)
      BY <1>6, WithinMore
    <2>2. Costs(<< setcal >>, DescriptionPrices, 15 + 6 + 51)
      BY <1>2, <1>6, <1>25, <2>1, DescriptionCosts
    <2> HIDE DEF setcal
    <2> QED BY <2>2, CostsMore
  <1>17. Costs(<< request >>, DescriptionPrices, 0)
    <2>1. request \in Named /\ request.params = << >>
      BY <1>2, <1>7 DEF Command, Named
    <2> HIDE DEF request
    <2>2. <<request, 0>> \in DescriptionPrices
      BY <2>1 DEF DescriptionPrices
    <2> QED BY <2>2, CostsOne
  <1> HIDE DEF interval, battery, setoff, setcal, request
  <1> DEFINE a == << interval >>
             b == With(flags, "HAS_BATTERY", << battery >>)
             c == With(flags, "HAS_CALIBRATION", << setoff, setcal, request >>)
  <1>18. AddedCommands(flags) = a \o b \o c
    BY <1>3 DEF AddedCommands
  <1>19. Costs(<< setoff, setcal, request >>, NamePrices, 13 + 18 + 22)
    BY <1>10, <1>11, <1>12, Costs3
  <1>20. Costs(<< setoff, setcal, request >>, DescriptionPrices, 70 + 72 + 0)
    BY <1>15, <1>16, <1>17, Costs3
  <1>21. Costs(b, NamePrices, 20) /\ Costs(b, DescriptionPrices, 49)
    <2>1. Costs(b, NamePrices, IF "HAS_BATTERY" \in flags THEN 20 ELSE 0)
      BY <1>9, CostsWith
    <2>2. Costs(b, DescriptionPrices, IF "HAS_BATTERY" \in flags THEN 49 ELSE 0)
      BY <1>14, CostsWith
    <2> HIDE DEF b
    <2>3. Costs(b, NamePrices, 20)
      BY <2>1, CostsMore
    <2>4. Costs(b, DescriptionPrices, 49)
      BY <2>2, CostsMore
    <2> QED BY <2>3, <2>4
  <1>22. Costs(c, NamePrices, 53) /\ Costs(c, DescriptionPrices, 142)
    <2>1. Costs(c, NamePrices, IF "HAS_CALIBRATION" \in flags THEN 13 + 18 + 22 ELSE 0)
      BY <1>19, CostsWith
    <2>2. Costs(c, DescriptionPrices, IF "HAS_CALIBRATION" \in flags THEN 70 + 72 + 0 ELSE 0)
      BY <1>20, CostsWith
    <2> HIDE DEF c
    <2>3. Costs(c, NamePrices, 53)
      BY <2>1, CostsMore
    <2>4. Costs(c, DescriptionPrices, 142)
      BY <2>2, CostsMore
    <2> QED BY <2>3, <2>4
  <1> HIDE DEF b, c
  <1>23. Costs(a \o b \o c, NamePrices, 88)
    <2>1. Costs(a \o b, NamePrices, 15 + 20)
      BY <1>8, <1>21, CostsJoined
    <2>2. Costs(a \o b \o c, NamePrices, (15 + 20) + 53)
      BY <1>22, <2>1, CostsJoined
    <2> QED BY <2>2, CostsMore
  <1>24. Costs(a \o b \o c, DescriptionPrices, 235)
    <2>1. Costs(a \o b, DescriptionPrices, 44 + 49)
      BY <1>13, <1>21, CostsJoined
    <2>2. Costs(a \o b \o c, DescriptionPrices, (44 + 49) + 142)
      BY <1>22, <2>1, CostsJoined
    <2> QED BY <2>2, CostsMore
  <1> QED BY <1>18, <1>23, <1>24

-----------------------------------------------------------------------------
(* Every message *)

\* A payload of 394 bytes fits the packet behind the longest topic.
LEMMA Holds ==
  ASSUME NEW len \in Nat, len <= 394
  PROVE  /\ FitsPacket(len)
         /\ \A size \in Nat : len < size =>
               AppendedTo(size, len).whole /\ AppendedTo(size, len).len = len
  <1>1. FitsPacket(len)
    BY DEF FitsPacket, MQTT_MAX_PACKET_SIZE, MQTT_MAX_HEADER_SIZE, TOPIC_LEN
  <1>2. ASSUME NEW size \in Nat, len < size
        PROVE  AppendedTo(size, len).whole /\ AppendedTo(size, len).len = len
    <2>1. len >= 0 /\ len < size
      BY <1>2
    <2>2. AppendedTo(size, len).whole = (len >= 0 /\ len < size) /\ AppendedTo(size, len).len = len
      BY Zenon DEF AppendedTo
    <2> QED BY <2>1, <2>2
  <1> QED BY <1>1, <1>2

LEMMA ObjectWhole ==
  ASSUME NEW fields, fields # << >>, NEW w \in Nat, Costs(fields, FieldPrices, w),
         NEW size \in Nat, w + 1 < size, w < 394
  PROVE  Built(fields, size).whole /\ FitsPacket(Built(fields, size).len)
  <1>1. Whole(Build(fields, size)) /\ Build(fields, size).pos \in 1 .. w + 1
    BY BuildFits
  <1>2. FitsPacket(Build(fields, size).pos)
    <2>1. Build(fields, size).pos \in Nat /\ Build(fields, size).pos <= 394
      BY <1>1
    <2> QED BY <2>1, Holds
  <1> QED BY <1>1, <1>2 DEF Built

LEMMA StatusWhole ==
  ASSUME NEW verdict \in Verdicts
  PROVE  StatusSize(verdict).whole /\ FitsPacket(StatusSize(verdict).len)
  <1> DEFINE k == Len(verdict.message)
  <1>1. k \in 2 .. 16
    BY NameLengths DEF Verdicts
  <1> HIDE DEF k
  <1>2. 25 + 7 + k \in Nat /\ 25 + 7 + k <= 394 /\ 25 + 7 + k < 64
    BY <1>1
  <1>3. FitsPacket(25 + 7 + k) /\ AppendedTo(64, 25 + 7 + k).whole
        /\ AppendedTo(64, 25 + 7 + k).len = 25 + 7 + k
    BY <1>2, Holds
  <1> QED BY <1>3 DEF StatusSize, k

LEMMA CapabilitiesWhole ==
  ASSUME CountersFit, NEW flags, OneSensor(flags)
  PROVE  LET len == format_capabilities_payload(
                      register_modules(flags).metrics, CapabilityValues, AnswerBuffer)
         IN  AppendedTo(AnswerBuffer, len).whole /\ FitsPacket(AppendedTo(AnswerBuffer, len).len)
  <1> DEFINE ms == register_modules(flags).metrics
             len == format_capabilities_payload(ms, CapabilityValues, AnswerBuffer)
  <1>1. Costs(ms, MetricPrices, 103)
    <2>1. MAX_METRICS \in Nat
      BY RegistryAssumption
    <2>2. Costs(Kept(AddedMetrics(flags), MAX_METRICS), MetricPrices, 103)
      BY <2>1, AddedMetricsCost, CostsOfFirst
    <2> QED BY <2>2 DEF register_modules
  <1>2. CapabilityValues = 30 + FwLen /\ FwLen \in Nat /\ FwLen <= 75
    BY ReportsAssumption DEF CapabilityValues, HwIdLen, CountersFit
  <1>3. AnswerBuffer = 512
    BY DEF AnswerBuffer
  <1>4. CapabilityValues \in Nat /\ 82 + CapabilityValues + 103 < 512
    BY <1>2
  <1>5. len \in 0 .. 82 + CapabilityValues + 103
    <2> HIDE DEF ms
    <2> QED BY <1>1, <1>3, <1>4, CapabilitiesFit
  <1> HIDE DEF len
  <1>6. len \in Nat /\ len <= 394 /\ len < 512
    BY <1>2, <1>5
  <1>7. AppendedTo(AnswerBuffer, len).whole /\ FitsPacket(AppendedTo(AnswerBuffer, len).len)
    BY <1>3, <1>6, Holds
  <1> QED BY <1>7 DEF len

LEMMA CommandsWhole ==
  ASSUME NEW flags
  PROVE  LET len == format_commands_payload(register_modules(flags).commands, AnswerBuffer)
         IN  AppendedTo(AnswerBuffer, len).whole /\ FitsPacket(AppendedTo(AnswerBuffer, len).len)
  <1> DEFINE cs == register_modules(flags).commands
             len == format_commands_payload(cs, AnswerBuffer)
  <1>1. Costs(cs, NamePrices, 88) /\ Costs(cs, DescriptionPrices, 235)
    <2>1. MAX_COMMANDS \in Nat
      BY RegistryAssumption
    <2>2. Costs(Kept(AddedCommands(flags), MAX_COMMANDS), NamePrices, 88)
      BY <2>1, AddedCommandsCost, CostsOfFirst
    <2>3. Costs(Kept(AddedCommands(flags), MAX_COMMANDS), DescriptionPrices, 235)
      BY <2>1, AddedCommandsCost, CostsOfFirst
    <2> QED BY <2>2, <2>3 DEF register_modules
  <1>2. AnswerBuffer = 512
    BY DEF AnswerBuffer
  <1>3. len \in 0 .. 35 + 88 + 235
    <2> DEFINE w == 88
               v == 235
    <2>1. Costs(cs, NamePrices, w) /\ Costs(cs, DescriptionPrices, v)
      BY <1>1
    <2>2. w \in Nat /\ v \in Nat /\ AnswerBuffer \in Nat /\ 35 + w + v < AnswerBuffer
      BY <1>2
    <2> HIDE DEF cs, w, v
    <2>3. len \in 0 .. 35 + w + v
      BY <2>1, <2>2, CommandsFit
    <2> QED BY <2>3 DEF w, v
  <1> HIDE DEF len
  <1>4. len \in Nat /\ len <= 394 /\ len < 512
    BY <1>3
  <1>5. AppendedTo(AnswerBuffer, len).whole /\ FitsPacket(AppendedTo(AnswerBuffer, len).len)
    BY <1>2, <1>4, Holds
  <1> QED BY <1>5 DEF len

LEMMA EveryPayloadWhole ==
  ASSUME CountersFit, OneSensor(build), data \in DiagData, message \in Message
  PROVE  PayloadWhole
  <1> SUFFICES ASSUME message.topic \notin {"none", "silence"}
               PROVE  SizeOf(message).whole /\ FitsPacket(SizeOf(message).len)
    BY DEF PayloadWhole
  <1>1. /\ message.topic \in {"sensors", "status", "diag", "capabilities", "commands"}
        /\ message.lit \in BOOLEAN /\ message.used \in BOOLEAN /\ message.verdict \in Verdicts
    BY DEF Message
  <1>2. CASE message.topic = "sensors"
    <2>1. SizeOf(message) = Built(SensorFields(build, message.lit), SensorsBuffer)
      BY <1>2 DEF SizeOf
    <2> DEFINE fields == SensorFields(build, message.lit)
    <2>2. Costs(fields, FieldPrices, 224) /\ fields # << >>
      BY <1>1, SensorFieldsCost
    <2> HIDE DEF fields
    <2>3. Built(fields, 256).whole /\ FitsPacket(Built(fields, 256).len)
      BY <2>2, ObjectWhole
    <2> QED BY <2>1, <2>3 DEF fields, SensorsBuffer
  <1>3. CASE message.topic = "diag"
    <2>1. SizeOf(message) = Built(DiagFields(data, message.used), DiagBuffer)
      BY <1>3 DEF SizeOf
    <2> DEFINE fields == DiagFields(data, message.used)
    <2>2. Costs(fields, FieldPrices, 318) /\ fields # << >>
      BY <1>1, DiagFieldsCost
    <2> HIDE DEF fields
    <2>3. Built(fields, 320).whole /\ FitsPacket(Built(fields, 320).len)
      BY <2>2, ObjectWhole
    <2> QED BY <2>1, <2>3 DEF fields, DiagBuffer
  <1>4. CASE message.topic = "status"
    <2>1. SizeOf(message) = StatusSize(message.verdict)
      BY <1>4 DEF SizeOf
    <2> QED BY <1>1, <2>1, StatusWhole
  <1>5. CASE message.topic = "capabilities"
    BY <1>5, CapabilitiesWhole DEF SizeOf
  <1>6. CASE message.topic = "commands"
    BY <1>6, CommandsWhole DEF SizeOf
  <1> QED BY <1>1, <1>2, <1>3, <1>4, <1>5, <1>6

-----------------------------------------------------------------------------
(* What is announced *)

NamesIn(s) == {s[i].name : i \in DOMAIN s}
KeysIn(s) == {s[i].key : i \in DOMAIN s}

\* A list of metrics has the names N, each of them once.
Lists(s, N) ==
  /\ s \in Seq([name : Names, unit : Nat])
  /\ NamesIn(s) = N
  /\ \A i, j \in 1 .. Len(s) : s[i].name = s[j].name => i = j

\* A list of fields has the keys K.
Writes(s, K) == s \in Seq([key : Names, width : Nat]) /\ KeysIn(s) = K

\* Lists without a name in common make a list.
LEMMA ListsJoined ==
  ASSUME NEW s, NEW t, NEW M, NEW N, Lists(s, M), Lists(t, N), M \cap N = {}
  PROVE  Lists(s \o t, M \cup N) /\ Len(s \o t) = Len(s) + Len(t)
  <1> DEFINE T == [name : Names, unit : Nat]
             p == Len(s)
             q == Len(t)
             u == s \o t
  <1>1. s \in Seq(T) /\ t \in Seq(T)
    BY DEF Lists
  <1>2. p \in Nat /\ q \in Nat /\ DOMAIN s = 1 .. p /\ DOMAIN t = 1 .. q
    BY <1>1
  <1>3. u \in Seq(T) /\ Len(u) = p + q /\ DOMAIN u = 1 .. p + q
    BY <1>1
  <1>4. /\ \A i \in 1 .. p : u[i] = s[i]
        /\ \A i \in 1 .. p + q : ~ (i <= p) => i - p \in 1 .. q /\ u[i] = t[i - p]
        /\ \A i \in 1 .. q : u[p + i] = t[i]
    BY <1>1
  <1>5. NamesIn(s) = M /\ NamesIn(t) = N
    BY DEF Lists
  <1>6. /\ \A i, j \in 1 .. p : s[i].name = s[j].name => i = j
        /\ \A i, j \in 1 .. q : t[i].name = t[j].name => i = j
    BY DEF Lists
  <1>7. (\A i \in 1 .. p : s[i].name \in M) /\ (\A i \in 1 .. q : t[i].name \in N)
    BY <1>2, <1>5 DEF NamesIn
  <1> HIDE DEF T, p, q, u
  <1>8. NamesIn(u) = M \cup N
    <2>1. ASSUME NEW x \in NamesIn(u) PROVE x \in M \cup N
      <3>1. PICK i \in 1 .. p + q : x = u[i].name
        BY <1>3 DEF NamesIn
      <3>2. CASE i <= p
        <4>1. i \in 1 .. p
          BY <1>2, <3>2
        <4> QED BY <1>4, <1>7, <3>1, <4>1
      <3>3. CASE ~ (i <= p)
        BY <1>4, <1>7, <3>1, <3>3
      <3> QED BY <3>2, <3>3
    <2>2. ASSUME NEW x \in M PROVE x \in NamesIn(u)
      <3>1. PICK i \in 1 .. p : x = s[i].name
        BY <1>2, <1>5 DEF NamesIn
      <3>2. i \in 1 .. p + q
        BY <1>2
      <3> QED BY <1>3, <1>4, <3>1, <3>2 DEF NamesIn
    <2>3. ASSUME NEW x \in N PROVE x \in NamesIn(u)
      <3>1. PICK i \in 1 .. q : x = t[i].name
        BY <1>2, <1>5 DEF NamesIn
      <3>2. p + i \in 1 .. p + q
        BY <1>2
      <3> QED BY <1>3, <1>4, <3>1, <3>2 DEF NamesIn
    <2> QED BY <2>1, <2>2, <2>3
  <1>9. ASSUME NEW i \in 1 .. p + q, NEW j \in 1 .. p + q, u[i].name = u[j].name
        PROVE  i = j
    <2>1. (i <= p => i \in 1 .. p) /\ (j <= p => j \in 1 .. p)
      BY <1>2
    <2>2. CASE i <= p /\ j <= p
      BY <1>4, <1>6, <1>9, <2>1, <2>2
    <2>3. CASE i <= p /\ ~ (j <= p)
      <3>1. u[i].name \in M /\ u[j].name \in N
        BY <1>4, <1>7, <2>1, <2>3
      <3> QED BY <1>9, <3>1
    <2>4. CASE ~ (i <= p) /\ j <= p
      <3>1. u[i].name \in N /\ u[j].name \in M
        BY <1>4, <1>7, <2>1, <2>4
      <3> QED BY <1>9, <3>1
    <2>5. CASE ~ (i <= p) /\ ~ (j <= p)
      <3>1. i - p = j - p
        BY <1>4, <1>6, <1>9, <2>5
      <3> QED BY <1>2, <3>1
    <2> QED BY <2>2, <2>3, <2>4, <2>5
  <1>10. Lists(u, M \cup N)
    <2>1. \A i, j \in 1 .. Len(u) : u[i].name = u[j].name => i = j
      BY <1>3, <1>9
    <2> QED BY <1>3, <1>8, <2>1 DEF Lists, T
  <1> QED BY <1>3, <1>10 DEF u, p, q

LEMMA WritesJoined ==
  ASSUME NEW s, NEW t, NEW K, NEW L, Writes(s, K), Writes(t, L)
  PROVE  Writes(s \o t, K \cup L)
  <1> DEFINE T == [key : Names, width : Nat]
             p == Len(s)
             q == Len(t)
             u == s \o t
  <1>1. s \in Seq(T) /\ t \in Seq(T)
    BY DEF Writes
  <1>2. p \in Nat /\ q \in Nat /\ DOMAIN s = 1 .. p /\ DOMAIN t = 1 .. q
    BY <1>1
  <1>3. u \in Seq(T) /\ DOMAIN u = 1 .. p + q
    BY <1>1
  <1>4. /\ \A i \in 1 .. p : u[i] = s[i]
        /\ \A i \in 1 .. p + q : ~ (i <= p) => i - p \in 1 .. q /\ u[i] = t[i - p]
        /\ \A i \in 1 .. q : u[p + i] = t[i]
    BY <1>1
  <1>5. KeysIn(s) = K /\ KeysIn(t) = L
    BY DEF Writes
  <1>7. (\A i \in 1 .. p : s[i].key \in K) /\ (\A i \in 1 .. q : t[i].key \in L)
    BY <1>2, <1>5 DEF KeysIn
  <1> HIDE DEF T, p, q, u
  <1>8. KeysIn(u) = K \cup L
    <2>1. ASSUME NEW x \in KeysIn(u) PROVE x \in K \cup L
      <3>1. PICK i \in 1 .. p + q : x = u[i].key
        BY <1>3 DEF KeysIn
      <3>2. CASE i <= p
        <4>1. i \in 1 .. p
          BY <1>2, <3>2
        <4> QED BY <1>4, <1>7, <3>1, <4>1
      <3>3. CASE ~ (i <= p)
        BY <1>4, <1>7, <3>1, <3>3
      <3> QED BY <3>2, <3>3
    <2>2. ASSUME NEW x \in K PROVE x \in KeysIn(u)
      <3>1. PICK i \in 1 .. p : x = s[i].key
        BY <1>2, <1>5 DEF KeysIn
      <3>2. i \in 1 .. p + q
        BY <1>2
      <3> QED BY <1>3, <1>4, <3>1, <3>2 DEF KeysIn
    <2>3. ASSUME NEW x \in L PROVE x \in KeysIn(u)
      <3>1. PICK i \in 1 .. q : x = t[i].key
        BY <1>2, <1>5 DEF KeysIn
      <3>2. p + i \in 1 .. p + q
        BY <1>2
      <3> QED BY <1>3, <1>4, <3>1, <3>2 DEF KeysIn
    <2> QED BY <2>1, <2>2, <2>3
  <1> QED BY <1>3, <1>8 DEF Writes, T, u

\* Each name once: as many items as names.
LEMMA ListsCounted ==
  ASSUME NEW s, NEW N, Lists(s, N)
  PROVE  Cardinality(N) = Len(s)
  <1> DEFINE n == Len(s)
             f == [i \in 1 .. n |-> s[i].name]
  <1>1. n \in Nat /\ DOMAIN s = 1 .. n
    BY DEF Lists
  <1>2. N = {s[i].name : i \in 1 .. n}
    BY <1>1 DEF Lists, NamesIn
  <1>3. f \in Bijection(1 .. n, N)
    <2>1. f \in [1 .. n -> N]
      BY <1>2
    <2>2. \A i, j \in 1 .. n : f[i] = f[j] => i = j
      BY DEF Lists
    <2>3. \A x \in N : \E i \in 1 .. n : f[i] = x
      BY <1>2
    <2> HIDE DEF f, n
    <2> QED BY <2>1, <2>2, <2>3 DEF Bijection, Injection, Surjection, IsInjective
  <1> HIDE DEF f, n
  <1>4. ExistsBijection(1 .. n, N)
    BY <1>3 DEF ExistsBijection
  <1>5. Cardinality(N) = n
    BY <1>1, <1>4, FS_CountingElements
  <1> QED BY <1>5 DEF n

LEMMA ListsOne ==
  ASSUME NEW name \in Names, NEW unit \in Nat
  PROVE  Lists(<< Metric(name, unit) >>, {name}) /\ Len(<< Metric(name, unit) >>) = 1
  <1> DEFINE m == Metric(name, unit)
  <1>1. m \in [name : Names, unit : Nat] /\ m.name = name
    BY DEF Metric
  <1> HIDE DEF m
  <1>2. << m >> \in Seq([name : Names, unit : Nat]) /\ Len(<< m >>) = 1 /\ << m >>[1] = m
        /\ DOMAIN << m >> = 1 .. 1
    BY <1>1
  <1>3. NamesIn(<< m >>) = {name}
    BY <1>1, <1>2 DEF NamesIn
  <1>4. \A i, j \in 1 .. 1 : i = j
    OBVIOUS
  <1>5. Lists(<< m >>, {name})
    BY <1>2, <1>3, <1>4 DEF Lists
  <1> QED BY <1>2, <1>5 DEF m

LEMMA ListsMore ==
  ASSUME NEW s, NEW N, Lists(s, N), NEW name \in Names, name \notin N, NEW unit \in Nat
  PROVE  /\ Lists(Append(s, Metric(name, unit)), N \cup {name})
         /\ Len(Append(s, Metric(name, unit))) = Len(s) + 1
  <1> DEFINE m == Metric(name, unit)
  <1>1. Lists(<< m >>, {name}) /\ Len(<< m >>) = 1
    BY ListsOne
  <1>2. s \o << m >> = Append(s, m)
    <2>1. s \in Seq([name : Names, unit : Nat]) /\ << m >> \in Seq([name : Names, unit : Nat])
      BY <1>1 DEF Lists
    <2> HIDE DEF m
    <2>2. m \in [name : Names, unit : Nat]
      <3>1. << m >>[1] = m /\ Len(<< m >>) = 1
        OBVIOUS
      <3> QED BY <2>1, <3>1
    <2> QED BY <2>1, <2>2
  <1> HIDE DEF m
  <1>3. Lists(s \o << m >>, N \cup {name}) /\ Len(s \o << m >>) = Len(s) + Len(<< m >>)
    BY <1>1, ListsJoined
  <1> QED BY <1>1, <1>2, <1>3 DEF m

\* S if b holds.
Only(b, S) == IF b THEN S ELSE {}

LEMMA ListsWith ==
  ASSUME NEW list, NEW N, Lists(list, N), NEW n, Len(list) = n, NEW flags, NEW flag
  PROVE  /\ Lists(With(flags, flag, list), Only(flag \in flags, N))
         /\ Len(With(flags, flag, list)) = IF flag \in flags THEN n ELSE 0
  <1>1. CASE flag \in flags
    BY <1>1 DEF With, Only
  <1>2. CASE flag \notin flags
    <2>1. With(flags, flag, list) = << >>
      BY <1>2 DEF With
    <2>2. << >> \in Seq([name : Names, unit : Nat]) /\ Len(<< >>) = 0 /\ NamesIn(<< >>) = {}
      BY DEF NamesIn
    <2>3. \A i, j \in 1 .. Len(<< >>) : i = j
      BY <2>2
    <2>4. Lists(<< >>, {})
      BY <2>2, <2>3 DEF Lists
    <2> QED BY <1>2, <2>1, <2>2, <2>4 DEF Only
  <1> QED BY <1>1, <1>2

LEMMA WritesOne ==
  ASSUME NEW key \in Names, NEW width \in Nat
  PROVE  Writes(<< Field(key, width) >>, {key})
  <1> DEFINE f == Field(key, width)
  <1>1. f \in [key : Names, width : Nat] /\ f.key = key
    BY DEF Field
  <1> HIDE DEF f
  <1>2. << f >> \in Seq([key : Names, width : Nat]) /\ << f >>[1] = f /\ DOMAIN << f >> = 1 .. 1
    BY <1>1
  <1>3. KeysIn(<< f >>) = {key}
    BY <1>1, <1>2 DEF KeysIn
  <1>4. Writes(<< f >>, {key})
    BY <1>2, <1>3 DEF Writes
  <1> QED BY <1>4 DEF f

LEMMA WritesMore ==
  ASSUME NEW s, NEW K, Writes(s, K), NEW key \in Names, NEW width \in Nat
  PROVE  Writes(Append(s, Field(key, width)), K \cup {key})
  <1> DEFINE f == Field(key, width)
  <1>1. Writes(<< f >>, {key})
    BY WritesOne
  <1>2. s \o << f >> = Append(s, f)
    <2>1. s \in Seq([key : Names, width : Nat])
      BY DEF Writes
    <2>2. f \in [key : Names, width : Nat]
      BY DEF Field
    <2> HIDE DEF f
    <2> QED BY <2>1, <2>2
  <1> HIDE DEF f
  <1>3. Writes(s \o << f >>, K \cup {key})
    BY <1>1, WritesJoined
  <1> QED BY <1>2, <1>3 DEF f

LEMMA WritesWith ==
  ASSUME NEW list, NEW K, Writes(list, K), NEW b \in BOOLEAN
  PROVE  Writes(IF b THEN list ELSE << >>, Only(b, K))
  <1>1. << >> \in Seq([key : Names, width : Nat]) /\ KeysIn(<< >>) = {}
    BY DEF KeysIn
  <1> QED BY <1>1 DEF Writes, Only

LEMMA TupleTwo ==
  ASSUME NEW x, NEW y
  PROVE  << x, y >> = Append(<< x >>, y)
  OBVIOUS

LEMMA TupleThree ==
  ASSUME NEW x, NEW y, NEW z
  PROVE  << x, y, z >> = Append(<< x, y >>, z)
  OBVIOUS

LEMMA TupleFour ==
  ASSUME NEW x, NEW y, NEW z, NEW u
  PROVE  << x, y, z, u >> = Append(<< x, y, z >>, u)
  OBVIOUS

LEMMA TupleFive ==
  ASSUME NEW x, NEW y, NEW z, NEW u, NEW v
  PROVE  << x, y, z, u, v >> = Append(<< x, y, z, u >>, v)
  OBVIOUS

\* The lists of the modules.
LEMMA ModuleLists ==
  /\ Lists(core_register.metrics, {"rssi"}) /\ Len(core_register.metrics) = 1
  /\ Lists(bme280_module_register.metrics, {"temp", "humi", "press"})
  /\ Len(bme280_module_register.metrics) = 3
  /\ Lists(sht30_module_register.metrics, {"temp", "humi"})
  /\ Len(sht30_module_register.metrics) = 2
  /\ Lists(mkr_env_module_register.metrics, {"temp", "humi", "press", "lux", "uv"})
  /\ Len(mkr_env_module_register.metrics) = 5
  /\ Lists(battery_module_register.metrics, {"bat", "batv"})
  /\ Len(battery_module_register.metrics) = 2
  /\ Lists(bh1750_module_register.metrics, {"lux"}) /\ Len(bh1750_module_register.metrics) = 1
  <1>0. {"rssi", "temp", "humi", "press", "lux", "uv", "bat", "batv"} \subseteq Names
    BY DEF Names
  <1> DEFINE temp == Metric("temp", 3)
             humi == Metric("humi", 1)
             press == Metric("press", 3)
             lux == Metric("lux", 3)
             uv == Metric("uv", 0)
             one == << temp >>
             two == Append(one, humi)
             three == Append(two, press)
             four == Append(three, lux)
             five == Append(four, uv)
  <1>1. Lists(one, {"temp"}) /\ Len(one) = 1
    BY <1>0, ListsOne
  <1> HIDE DEF one
  <1>2. Lists(two, {"temp"} \cup {"humi"}) /\ Len(two) = Len(one) + 1
    <2>1. "humi" \notin {"temp"} /\ "humi" \in Names
      BY <1>0
    <2> QED BY <1>1, <2>1, ListsMore
  <1> HIDE DEF two
  <1>3. Lists(three, {"temp"} \cup {"humi"} \cup {"press"}) /\ Len(three) = Len(two) + 1
    <2>1. "press" \notin {"temp"} \cup {"humi"} /\ "press" \in Names
      BY <1>0
    <2> QED BY <1>2, <2>1, ListsMore
  <1> HIDE DEF three
  <1>4. Lists(four, {"temp"} \cup {"humi"} \cup {"press"} \cup {"lux"}) /\ Len(four) = Len(three) + 1
    <2>1. "lux" \notin {"temp"} \cup {"humi"} \cup {"press"} /\ "lux" \in Names
      BY <1>0
    <2> QED BY <1>3, <2>1, ListsMore
  <1> HIDE DEF four
  <1>5. Lists(five, {"temp"} \cup {"humi"} \cup {"press"} \cup {"lux"} \cup {"uv"})
        /\ Len(five) = Len(four) + 1
    <2>1. "uv" \notin {"temp"} \cup {"humi"} \cup {"press"} \cup {"lux"} /\ "uv" \in Names
      BY <1>0
    <2> QED BY <1>4, <2>1, ListsMore
  <1> HIDE DEF five
  <1>6. /\ two = << temp, humi >> /\ three = << temp, humi, press >>
        /\ five = << temp, humi, press, lux, uv >>
    <2> HIDE DEF temp, humi, press, lux, uv
    <2>1. two = << temp, humi >>
      BY TupleTwo DEF one, two
    <2>2. three = << temp, humi, press >>
      BY <2>1, TupleThree DEF three
    <2>3. five = << temp, humi, press, lux, uv >>
      <3>1. four = << temp, humi, press, lux >>
        BY <2>2, TupleFour DEF four
      <3> QED BY <3>1, TupleFive DEF five
    <2> QED BY <2>1, <2>2, <2>3
  <1>7. /\ bme280_module_register.metrics = three /\ sht30_module_register.metrics = two
        /\ mkr_env_module_register.metrics = five
    BY <1>6 DEF bme280_module_register, sht30_module_register, mkr_env_module_register
  <1>8. /\ Lists(two, {"temp", "humi"}) /\ Lists(three, {"temp", "humi", "press"})
        /\ Lists(five, {"temp", "humi", "press", "lux", "uv"})
        /\ Len(two) = 2 /\ Len(three) = 3 /\ Len(five) = 5
    <2>1. /\ {"temp"} \cup {"humi"} = {"temp", "humi"}
          /\ {"temp"} \cup {"humi"} \cup {"press"} = {"temp", "humi", "press"}
          /\ {"temp"} \cup {"humi"} \cup {"press"} \cup {"lux"} \cup {"uv"}
               = {"temp", "humi", "press", "lux", "uv"}
      OBVIOUS
    <2> QED BY <1>1, <1>2, <1>3, <1>4, <1>5, <2>1
  <1>9. Lists(core_register.metrics, {"rssi"}) /\ Len(core_register.metrics) = 1
    BY <1>0, ListsOne DEF core_register
  <1>10. Lists(bh1750_module_register.metrics, {"lux"}) /\ Len(bh1750_module_register.metrics) = 1
    BY <1>0, ListsOne DEF bh1750_module_register
  <1>11. Lists(battery_module_register.metrics, {"bat", "batv"})
         /\ Len(battery_module_register.metrics) = 2
    <2> DEFINE b == << Metric("bat", 1) >>
    <2>1. Lists(b, {"bat"}) /\ Len(b) = 1
      BY <1>0, ListsOne
    <2>2. "batv" \notin {"bat"} /\ "batv" \in Names
      BY <1>0
    <2> HIDE DEF b
    <2>3. Lists(Append(b, Metric("batv", 1)), {"bat"} \cup {"batv"})
          /\ Len(Append(b, Metric("batv", 1))) = Len(b) + 1
      BY <2>1, <2>2, ListsMore
    <2>4. {"bat"} \cup {"batv"} = {"bat", "batv"}
      OBVIOUS
    <2>5. battery_module_register.metrics = Append(b, Metric("batv", 1))
      BY DEF battery_module_register, b
    <2> QED BY <2>1, <2>3, <2>4, <2>5
  <1> QED BY <1>7, <1>8, <1>9, <1>10, <1>11


\* The payloads of the modules.
LEMMA ModuleFields ==
  /\ Writes(bme280_module_contribute, {"temp", "humi", "press"})
  /\ Writes(sht30_module_contribute, {"temp", "humi"})
  /\ Writes(mkr_env_module_contribute, {"temp", "humi", "press", "lux", "uv"})
  /\ Writes(battery_module_contribute, {"bat", "batv"})
  /\ Writes(bh1750_module_contribute, {"lux"})
  /\ Writes(<< Field("rssi", 4) >>, {"rssi"})
  <1>0. /\ {"rssi", "temp", "humi", "press", "lux", "uv", "bat", "batv"} \subseteq Names
        /\ FloatWidth \in Nat
    BY DEF Names, FloatWidth
  <1> DEFINE temp == Field("temp", FloatWidth)
             humi == Field("humi", 5)
             press == Field("press", FloatWidth)
             lux == Field("lux", 5)
             uv == Field("uv", 8)
             one == << temp >>
             two == Append(one, humi)
             three == Append(two, press)
             four == Append(three, lux)
             five == Append(four, uv)
  <1>1. Writes(one, {"temp"})
    BY <1>0, WritesOne
  <1> HIDE DEF one
  <1>2. Writes(two, {"temp"} \cup {"humi"})
    BY <1>0, <1>1, WritesMore
  <1> HIDE DEF two
  <1>3. Writes(three, {"temp"} \cup {"humi"} \cup {"press"})
    BY <1>0, <1>2, WritesMore
  <1> HIDE DEF three
  <1>4. Writes(four, {"temp"} \cup {"humi"} \cup {"press"} \cup {"lux"})
    BY <1>0, <1>3, WritesMore
  <1> HIDE DEF four
  <1>5. Writes(five, {"temp"} \cup {"humi"} \cup {"press"} \cup {"lux"} \cup {"uv"})
    BY <1>0, <1>4, WritesMore
  <1> HIDE DEF five
  <1>6. /\ two = << temp, humi >> /\ three = << temp, humi, press >>
        /\ five = << temp, humi, press, lux, uv >>
    <2> HIDE DEF temp, humi, press, lux, uv
    <2>1. two = << temp, humi >>
      BY TupleTwo DEF one, two
    <2>2. three = << temp, humi, press >>
      BY <2>1, TupleThree DEF three
    <2>3. five = << temp, humi, press, lux, uv >>
      <3>1. four = << temp, humi, press, lux >>
        BY <2>2, TupleFour DEF four
      <3> QED BY <3>1, TupleFive DEF five
    <2> QED BY <2>1, <2>2, <2>3
  <1>7. /\ bme280_module_contribute = three /\ sht30_module_contribute = two
        /\ mkr_env_module_contribute = five
    BY <1>6 DEF bme280_module_contribute, sht30_module_contribute, mkr_env_module_contribute
  <1>8. /\ Writes(two, {"temp", "humi"}) /\ Writes(three, {"temp", "humi", "press"})
        /\ Writes(five, {"temp", "humi", "press", "lux", "uv"})
    <2>1. /\ {"temp"} \cup {"humi"} = {"temp", "humi"}
          /\ {"temp"} \cup {"humi"} \cup {"press"} = {"temp", "humi", "press"}
          /\ {"temp"} \cup {"humi"} \cup {"press"} \cup {"lux"} \cup {"uv"}
               = {"temp", "humi", "press", "lux", "uv"}
      OBVIOUS
    <2> QED BY <1>2, <1>3, <1>5, <2>1
  <1>9. Writes(<< Field("rssi", 4) >>, {"rssi"})
    BY <1>0, WritesOne
  <1>10. Writes(bh1750_module_contribute, {"lux"})
    BY <1>0, WritesOne DEF bh1750_module_contribute
  <1>11. Writes(battery_module_contribute, {"bat", "batv"})
    <2> DEFINE b == << Field("bat", 3) >>
    <2>1. Writes(b, {"bat"})
      BY <1>0, WritesOne
    <2> HIDE DEF b
    <2>2. Writes(Append(b, Field("batv", FloatWidth)), {"bat"} \cup {"batv"})
      BY <1>0, <2>1, WritesMore
    <2>3. {"bat"} \cup {"batv"} = {"bat", "batv"}
      OBVIOUS
    <2>4. battery_module_contribute = Append(b, Field("batv", FloatWidth))
      BY DEF battery_module_contribute, b
    <2> QED BY <2>2, <2>3, <2>4
  <1> QED BY <1>7, <1>8, <1>9, <1>10, <1>11

\* The names of the sensor and of the battery, in the registry and in the payload.
SensorNames(flags) ==
  Only("HAS_BME280" \in flags, {"temp", "humi", "press"})
  \cup Only("HAS_SHT30" \in flags, {"temp", "humi"})
  \cup Only("HAS_MKR_ENV" \in flags, {"temp", "humi", "press", "lux", "uv"})
BatteryNames(flags) == Only("HAS_BATTERY" \in flags, {"bat", "batv"})

\* A build adds each name once: the two sensors with a name in common exclude each other.
LEMMA NamesAdded ==
  ASSUME NEW flags, OneSensor(flags), OneLight(flags)
  PROVE  /\ Lists(AddedMetrics(flags), {"rssi"} \cup SensorNames(flags) \cup BatteryNames(flags)
                                         \cup Only("HAS_BH1750" \in flags, {"lux"}))
         /\ Len(AddedMetrics(flags)) <= 8
  <1> DEFINE bme == "HAS_BME280" \in flags
             sht == "HAS_SHT30" \in flags
             mkr == "HAS_MKR_ENV" \in flags
             bat == "HAS_BATTERY" \in flags
             lux == "HAS_BH1750" \in flags
             L1 == With(flags, "HAS_BME280", bme280_module_register.metrics)
             L2 == With(flags, "HAS_SHT30", sht30_module_register.metrics)
             L3 == With(flags, "HAS_MKR_ENV", mkr_env_module_register.metrics)
             L4 == With(flags, "HAS_BATTERY", battery_module_register.metrics)
             L5 == With(flags, "HAS_BH1750", bh1750_module_register.metrics)
             N1 == Only(bme, {"temp", "humi", "press"})
             N2 == Only(sht, {"temp", "humi"})
             N3 == Only(mkr, {"temp", "humi", "press", "lux", "uv"})
             N4 == Only(bat, {"bat", "batv"})
             N5 == Only(lux, {"lux"})
             core == core_register.metrics
  <1>1. /\ bme => ~sht /\ ~mkr
        /\ sht => ~mkr
        /\ lux => ~mkr
    BY DEF OneSensor, OneLight
  <1>2. /\ Lists(core, {"rssi"}) /\ Len(core) = 1
        /\ Lists(L1, N1) /\ Len(L1) = (IF bme THEN 3 ELSE 0)
        /\ Lists(L2, N2) /\ Len(L2) = (IF sht THEN 2 ELSE 0)
        /\ Lists(L3, N3) /\ Len(L3) = (IF mkr THEN 5 ELSE 0)
        /\ Lists(L4, N4) /\ Len(L4) = (IF bat THEN 2 ELSE 0)
        /\ Lists(L5, N5) /\ Len(L5) = (IF lux THEN 1 ELSE 0)
    <2>1. Lists(core, {"rssi"}) /\ Len(core) = 1
      BY ModuleLists
    <2>2. Lists(L1, N1) /\ Len(L1) = (IF bme THEN 3 ELSE 0)
      <3> DEFINE m == bme280_module_register.metrics
                 N == {"temp", "humi", "press"}
      <3>1. Lists(m, N) /\ Len(m) = 3
        BY ModuleLists
      <3> HIDE DEF m, N
      <3>2. Lists(L1, N1) /\ Len(L1) = (IF bme THEN 3 ELSE 0)
        <4>1. \A f : /\ Lists(With(flags, f, m), Only(f \in flags, N))
                     /\ Len(With(flags, f, m)) = (IF f \in flags THEN 3 ELSE 0)
          BY <3>1, ListsWith
        <4> QED BY <4>1 DEF m, N
      <3> QED BY <3>2
    <2>3. Lists(L2, N2) /\ Len(L2) = (IF sht THEN 2 ELSE 0)
      <3> DEFINE m == sht30_module_register.metrics
                 N == {"temp", "humi"}
      <3>1. Lists(m, N) /\ Len(m) = 2
        BY ModuleLists
      <3> HIDE DEF m, N
      <3>2. Lists(L2, N2) /\ Len(L2) = (IF sht THEN 2 ELSE 0)
        <4>1. \A f : /\ Lists(With(flags, f, m), Only(f \in flags, N))
                     /\ Len(With(flags, f, m)) = (IF f \in flags THEN 2 ELSE 0)
          BY <3>1, ListsWith
        <4> QED BY <4>1 DEF m, N
      <3> QED BY <3>2
    <2>4. Lists(L3, N3) /\ Len(L3) = (IF mkr THEN 5 ELSE 0)
      <3> DEFINE m == mkr_env_module_register.metrics
                 N == {"temp", "humi", "press", "lux", "uv"}
      <3>1. Lists(m, N) /\ Len(m) = 5
        BY ModuleLists
      <3> HIDE DEF m, N
      <3>2. Lists(L3, N3) /\ Len(L3) = (IF mkr THEN 5 ELSE 0)
        <4>1. \A f : /\ Lists(With(flags, f, m), Only(f \in flags, N))
                     /\ Len(With(flags, f, m)) = (IF f \in flags THEN 5 ELSE 0)
          BY <3>1, ListsWith
        <4> QED BY <4>1 DEF m, N
      <3> QED BY <3>2
    <2>5. Lists(L4, N4) /\ Len(L4) = (IF bat THEN 2 ELSE 0)
      <3> DEFINE m == battery_module_register.metrics
                 N == {"bat", "batv"}
      <3>1. Lists(m, N) /\ Len(m) = 2
        BY ModuleLists
      <3> HIDE DEF m, N
      <3>2. Lists(L4, N4) /\ Len(L4) = (IF bat THEN 2 ELSE 0)
        <4>1. \A f : /\ Lists(With(flags, f, m), Only(f \in flags, N))
                     /\ Len(With(flags, f, m)) = (IF f \in flags THEN 2 ELSE 0)
          BY <3>1, ListsWith
        <4> QED BY <4>1 DEF m, N
      <3> QED BY <3>2
    <2>6. Lists(L5, N5) /\ Len(L5) = (IF lux THEN 1 ELSE 0)
      BY ModuleLists, ListsWith
    <2> QED BY <2>1, <2>2, <2>3, <2>4, <2>5, <2>6
  <1>3. /\ {"rssi"} \cap N1 = {}
        /\ ({"rssi"} \cup N1) \cap N2 = {}
        /\ ({"rssi"} \cup N1 \cup N2) \cap N3 = {}
        /\ ({"rssi"} \cup N1 \cup N2 \cup N3) \cap N4 = {}
        /\ ({"rssi"} \cup N1 \cup N2 \cup N3 \cup N4) \cap N5 = {}
    BY <1>1 DEF Only
  <1>4. AddedMetrics(flags) = core \o L1 \o L2 \o L3 \o L4 \o L5
    BY DEF AddedMetrics
  <1>5. {"rssi"} \cup SensorNames(flags) \cup BatteryNames(flags) \cup N5
          = {"rssi"} \cup N1 \cup N2 \cup N3 \cup N4 \cup N5
    BY DEF SensorNames, BatteryNames
  <1> HIDE DEF L1, L2, L3, L4, L5, N1, N2, N3, N4, N5, core
  <1>6. Lists(core \o L1, {"rssi"} \cup N1) /\ Len(core \o L1) = Len(core) + Len(L1)
    BY <1>2, <1>3, ListsJoined
  <1> DEFINE s1 == core \o L1
             s2 == s1 \o L2
             s3 == s2 \o L3
             s4 == s3 \o L4
             s5 == s4 \o L5
  <1> HIDE DEF s1
  <1>7. Lists(s1 \o L2, {"rssi"} \cup N1 \cup N2) /\ Len(s1 \o L2) = Len(s1) + Len(L2)
    BY <1>2, <1>3, <1>6, ListsJoined DEF s1
  <1> HIDE DEF s2
  <1>8. Lists(s2 \o L3, {"rssi"} \cup N1 \cup N2 \cup N3) /\ Len(s2 \o L3) = Len(s2) + Len(L3)
    BY <1>2, <1>3, <1>7, ListsJoined DEF s2
  <1> HIDE DEF s3
  <1>9. /\ Lists(s3 \o L4, {"rssi"} \cup N1 \cup N2 \cup N3 \cup N4)
        /\ Len(s3 \o L4) = Len(s3) + Len(L4)
    BY <1>2, <1>3, <1>8, ListsJoined DEF s3
  <1> HIDE DEF s4
  <1>10. /\ Lists(s4 \o L5, {"rssi"} \cup N1 \cup N2 \cup N3 \cup N4 \cup N5)
         /\ Len(s4 \o L5) = Len(s4) + Len(L5)
    BY <1>2, <1>3, <1>9, ListsJoined DEF s4
  <1>11. AddedMetrics(flags) = s5
    BY <1>4 DEF s1, s2, s3, s4
  <1>12. Len(s5) = 1 + (IF bme THEN 3 ELSE 0) + (IF sht THEN 2 ELSE 0) + (IF mkr THEN 5 ELSE 0)
                     + (IF bat THEN 2 ELSE 0) + (IF lux THEN 1 ELSE 0)
    BY <1>2, <1>6, <1>7, <1>8, <1>9, <1>10 DEF s1, s2, s3, s4
  <1> HIDE DEF bme, sht, mkr, bat, lux
  <1>13. Len(s5) <= 8
    <2> HIDE DEF s5
    <2> QED BY <1>1, <1>12
  <1> QED BY <1>5, <1>10, <1>11, <1>13 DEF N5, lux


\* A payload has the same names, but the light only if it was read.
LEMMA KeysWritten ==
  ASSUME NEW flags, NEW lit \in BOOLEAN
  PROVE  Writes(SensorFields(flags, lit),
                SensorNames(flags) \cup Only(lit, {"lux"}) \cup BatteryNames(flags) \cup {"rssi"})
  <1> DEFINE f1 == bme280_module_contribute
             f2 == sht30_module_contribute
             f3 == mkr_env_module_contribute
             f4 == bh1750_module_contribute
             f5 == battery_module_contribute
             f6 == << Field("rssi", 4) >>
             K1 == {"temp", "humi", "press"}
             K2 == {"temp", "humi"}
             K3 == {"temp", "humi", "press", "lux", "uv"}
             K4 == {"lux"}
             K5 == {"bat", "batv"}
             K6 == {"rssi"}
             b1 == "HAS_BME280" \in flags
             b2 == "HAS_SHT30" \in flags
             b3 == "HAS_MKR_ENV" \in flags
             b5 == "HAS_BATTERY" \in flags
  <1>1. /\ Writes(f1, K1) /\ Writes(f2, K2) /\ Writes(f3, K3)
        /\ Writes(f4, K4) /\ Writes(f5, K5) /\ Writes(f6, K6)
    BY ModuleFields
  <1>2. b1 \in BOOLEAN /\ b2 \in BOOLEAN /\ b3 \in BOOLEAN /\ b5 \in BOOLEAN
    OBVIOUS
  <1>3. SensorFields(flags, lit) =
          (IF b1 THEN f1 ELSE << >>) \o (IF b2 THEN f2 ELSE << >>) \o (IF b3 THEN f3 ELSE << >>)
          \o (IF lit THEN f4 ELSE << >>) \o (IF b5 THEN f5 ELSE << >>) \o f6
    BY DEF SensorFields, With
  <1>4. SensorNames(flags) \cup Only(lit, {"lux"}) \cup BatteryNames(flags) \cup {"rssi"}
          = Only(b1, K1) \cup Only(b2, K2) \cup Only(b3, K3) \cup Only(lit, K4) \cup Only(b5, K5)
            \cup K6
    BY DEF SensorNames, BatteryNames
  <1> HIDE DEF f1, f2, f3, f4, f5, f6, K1, K2, K3, K4, K5, K6, b1, b2, b3, b5
  <1>5. /\ Writes(IF b1 THEN f1 ELSE << >>, Only(b1, K1))
        /\ Writes(IF b2 THEN f2 ELSE << >>, Only(b2, K2))
        /\ Writes(IF b3 THEN f3 ELSE << >>, Only(b3, K3))
        /\ Writes(IF lit THEN f4 ELSE << >>, Only(lit, K4))
        /\ Writes(IF b5 THEN f5 ELSE << >>, Only(b5, K5))
    BY <1>1, <1>2, WritesWith
  <1> DEFINE g1 == IF b1 THEN f1 ELSE << >>
             g2 == IF b2 THEN f2 ELSE << >>
             g3 == IF b3 THEN f3 ELSE << >>
             g4 == IF lit THEN f4 ELSE << >>
             g5 == IF b5 THEN f5 ELSE << >>
  <1> HIDE DEF g1, g2, g3, g4, g5
  <1>6. Writes(g1 \o g2, Only(b1, K1) \cup Only(b2, K2))
    BY <1>5, WritesJoined DEF g1, g2
  <1>7. Writes(g1 \o g2 \o g3, Only(b1, K1) \cup Only(b2, K2) \cup Only(b3, K3))
    BY <1>5, <1>6, WritesJoined DEF g3
  <1>8. Writes(g1 \o g2 \o g3 \o g4,
               Only(b1, K1) \cup Only(b2, K2) \cup Only(b3, K3) \cup Only(lit, K4))
    BY <1>5, <1>7, WritesJoined DEF g4
  <1>9. Writes(g1 \o g2 \o g3 \o g4 \o g5,
               Only(b1, K1) \cup Only(b2, K2) \cup Only(b3, K3) \cup Only(lit, K4) \cup Only(b5, K5))
    BY <1>5, <1>8, WritesJoined DEF g5
  <1>10. Writes(g1 \o g2 \o g3 \o g4 \o g5 \o f6,
               Only(b1, K1) \cup Only(b2, K2) \cup Only(b3, K3) \cup Only(lit, K4) \cup Only(b5, K5)
               \cup K6)
    BY <1>1, <1>9, WritesJoined
  <1>11. SensorFields(flags, lit) = g1 \o g2 \o g3 \o g4 \o g5 \o f6
    BY <1>3 DEF g1, g2, g3, g4, g5
  <1> QED BY <1>4, <1>10, <1>11

\* With room for all of them every name is announced, and announced once.
LEMMA NamesAnnounced ==
  ASSUME NEW flags, OneSensor(flags), OneLight(flags), RoomForAll
  PROVE  /\ Announced(flags) = {"rssi"} \cup SensorNames(flags) \cup BatteryNames(flags)
                                 \cup Only("HAS_BH1750" \in flags, {"lux"})
         /\ Len(register_modules(flags).metrics) = Cardinality(Announced(flags))
  <1> DEFINE s == AddedMetrics(flags)
             N == {"rssi"} \cup SensorNames(flags) \cup BatteryNames(flags)
                    \cup Only("HAS_BH1750" \in flags, {"lux"})
  <1>1. Lists(s, N) /\ Len(s) <= 8
    BY NamesAdded
  <1>2. MAX_METRICS \in Nat /\ MAX_METRICS >= 8
    BY RegistryAssumption DEF RoomForAll
  <1> HIDE DEF s, N
  <1>3. s \in Seq([name : Names, unit : Nat]) /\ Len(s) \in Nat
    BY <1>1 DEF Lists
  <1>4. Kept(s, MAX_METRICS) = s
    <2>1. (IF Len(s) < MAX_METRICS THEN Len(s) ELSE MAX_METRICS) = Len(s)
      BY <1>1, <1>2, <1>3
    <2>2. SubSeq(s, 1, Len(s)) = s
      BY <1>3
    <2> QED BY <2>1, <2>2 DEF Kept
  <1>5. register_modules(flags).metrics = s
    BY <1>4 DEF register_modules, s
  <1>6. Announced(flags) = N
    BY <1>1, <1>5 DEF Announced, Lists, NamesIn
  <1>7. Cardinality(N) = Len(s)
    BY <1>1, ListsCounted
  <1> QED BY <1>5, <1>6, <1>7 DEF N

\* A light in the payload comes from a BH1750 of the build.
LitInv == message.topic = "sensors" /\ message.lit => "HAS_BH1750" \in build

LEMMA LitInvStep ==
  ASSUME LitInv, [Next]_vars
  PROVE  LitInv'
  <1>0. build' = build
    BY BuildStays
  <1>1. CASE UNCHANGED reportVars
    BY <1>0, <1>1 DEF LitInv, reportVars
  <1>2. CASE PublishSensorData
    <2>1. PICK lit \in Lit : message' = [Sent("sensors") EXCEPT !.lit = lit]
      BY <1>2 DEF PublishSensorData
    <2>2. message'.lit = lit
      BY <2>1 DEF Sent
    <2>3. lit => "HAS_BH1750" \in build
      BY DEF Lit
    <2> QED BY <1>0, <2>2, <2>3 DEF LitInv
  <1>3. CASE BatteryAlert
    <2>1. Verdict(ERROR, "critical_battery") \in Verdicts /\ Verdict(WARNING, "low_battery") \in Verdicts
      BY DEF Verdict, Verdicts, Messages, ERROR, WARNING
    <2>2. message'.topic # "sensors"
      BY <1>3, <2>1, StatusFields, Fields DEF BatteryAlert
    <2> QED BY <2>2 DEF LitInv
  <1>4. CASE ReadFailed \/ LooksAtQueue
    BY <1>4, Fields DEF ReadFailed, LooksAtQueue, LitInv
  <1>5. CASE MaybePublishDiag
    BY <1>5, DiagMessageFields, Fields DEF MaybePublishDiag, LitInv
  <1>6. CASE GetStatus
    BY <1>6, VerdictType, StatusFields DEF GetStatus, LitInv
  <1>7. CASE GetDiag
    BY <1>7, DiagMessageFields DEF GetDiag, LitInv
  <1>8. CASE RequestAnswered
    BY <1>8, SentFields DEF RequestAnswered, LitInv
  <1>9. Drivers \/ Environment \/ WindowOver \/ UNCHANGED vars => UNCHANGED reportVars
    BY DEF Drivers, Environment, WindowOver, vars
  <1> QED BY <1>1, <1>2, <1>3, <1>4, <1>5, <1>6, <1>7, <1>8, <1>9 DEF Next, Program, Publishes, Answers

LEMMA AgreeingNames ==
  ASSUME OneSensor(build), OneLight(build), RoomForAll, LitInv, message \in Message
  PROVE  AnnouncedIsPublished
  <1> SUFFICES ASSUME message.topic = "sensors" PROVE AnnouncedIsPublished
    BY DEF AnnouncedIsPublished
  <1> DEFINE lit == message.lit
             fields == SensorFields(build, lit)
             keys == {fields[i].key : i \in DOMAIN fields}
             announced == Announced(build)
             both == SensorNames(build) \cup BatteryNames(build) \cup {"rssi"}
  <1>1. lit \in BOOLEAN /\ (lit => "HAS_BH1750" \in build)
    BY DEF Message, LitInv
  <1>2. keys = both \cup Only(lit, {"lux"})
    <2> HIDE DEF lit
    <2>1. Writes(fields, SensorNames(build) \cup Only(lit, {"lux"}) \cup BatteryNames(build) \cup {"rssi"})
      BY <1>1, KeysWritten
    <2>2. keys = SensorNames(build) \cup Only(lit, {"lux"}) \cup BatteryNames(build) \cup {"rssi"}
      BY <2>1 DEF Writes, KeysIn
    <2> QED BY <2>2
  <1>3. /\ announced = both \cup Only("HAS_BH1750" \in build, {"lux"})
        /\ Len(register_modules(build).metrics) = Cardinality(announced)
    BY NamesAnnounced
  <1> HIDE DEF keys, announced, both, lit
  <1>4. keys \subseteq announced /\ announced \ keys \subseteq (IF lit THEN {} ELSE {"lux"})
    BY <1>1, <1>2, <1>3 DEF Only
  <1> QED BY <1>3, <1>4 DEF AnnouncedIsPublished, keys, announced, lit, fields

\* In builds with one sensor at most, as in platformio.ini, and counters that fit, every
\* payload is whole in its buffer and in its packet, with any calibration offset.
THEOREM EveryPayloadIsWhole ==
  ASSUME \A flags \in Builds : OneSensor(flags), CountersFit
  PROVE  Spec => []PayloadWhole
  <1>1. Spec => []TypeOK
    BY ReportsTypeCorrectness
  <1>2. TypeOK => PayloadWhole
    <2>1. TypeOK => OneSensor(build) /\ data \in DiagData /\ message \in Message
      BY DEF TypeOK, SensorTypeOK
    <2> QED BY <2>1, EveryPayloadWhole
  <1> QED BY <1>1, <1>2, PTL

\* In such builds, with room for eight metrics, the server is announced every field it
\* gets, each once, and gets every field it is announced but an unread light.
THEOREM AnnouncedNamesArePublished ==
  ASSUME \A flags \in Builds : OneSensor(flags) /\ OneLight(flags), RoomForAll
  PROVE  Spec => []AnnouncedIsPublished
  <1>1. Spec => []TypeOK
    BY ReportsTypeCorrectness
  <1>2. Init => LitInv
    BY Fields DEF Init, LitInv
  <1>3. LitInv /\ [Next]_vars => LitInv'
    BY LitInvStep
  <1>4. TypeOK /\ LitInv => AnnouncedIsPublished
    <2>1. TypeOK => OneSensor(build) /\ OneLight(build) /\ message \in Message
      BY DEF TypeOK, SensorTypeOK
    <2> QED BY <2>1, AgreeingNames
  <1> QED BY <1>1, <1>2, <1>3, <1>4, PTL DEF Spec

=============================================================================
