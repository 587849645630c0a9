------------------------------- MODULE Reports -------------------------------
(***************************************************************************)
(* What a node says of itself: the sensors payload of a reading, the       *)
(* battery alert, the health summary and snapshot, the announced metrics   *)
(* and commands, each built in its buffer and sent if it fits a packet.    *)
(*                                                                         *)
(* A node begins and reads its sensor (Sensors), publishes, and answers    *)
(* commands until it sleeps or reads again.  Its connection stands here:   *)
(* connections that fail and messages that are lost are in WakeCycle and   *)
(* LoopNode.                                                               *)
(***************************************************************************)
EXTENDS Sensors, Registry, Payload, Health, FiniteSets

CONSTANTS
    Snapshots,          \* what build_diag_data() may find: a set of DiagData
    CounterDigits,      \* digits of the largest counter of a snapshot
    FwLen               \* longest FIRMWARE_VERSION

ASSUME ReportsAssumption ==
    /\ Snapshots \subseteq DiagData
    /\ CounterDigits \in 1 .. 10
    /\ FwLen \in Nat

\* The lengths of the names a payload is made of.
ASSUME NameLengths ==
    /\ \A s \in {"uv", "wf", "mf", "sf", "bx", "fw", "hw", "id"} : Len(s) = 2
    /\ \A s \in {"lux", "bat", "rst", "seq", "key"} : Len(s) = 3
    /\ \A s \in {"temp", "humi", "batv", "rssi", "boot", "miss", "txok", "heap"} : Len(s) = 4
    /\ \A s \in {"press", "level", "hwrev", "value"} : Len(s) = 5
    /\ \A s \in {"txsent", "metric", "string", "number"} : Len(s) = 6
    /\ \A s \in {"message", "wake_ms", "pubfail"} : Len(s) = 7
    /\ Len("set_offset") = 10 /\ Len("set_interval") = 12 /\ Len("set_calibration") = 15
    /\ Len("calibrate_battery") = 17 /\ Len("request_calibration") = 19
    /\ \A m \in Messages : Len(m) \in 2 .. 16

VARIABLES
    soc,                \* the charge publish_sensor_data() found
    data,               \* the snapshot the last verdict is about
    message             \* the last message handed to the network

reportVars == <<soc, data, message>>
vars == <<build, chipVars, driverVars, reportVars>>

\* The MQTT packet: a fixed header, the topic of at most TOPIC_LEN - 1 bytes, the payload.
MQTT_MAX_PACKET_SIZE == 512
MQTT_MAX_HEADER_SIZE == 5
TOPIC_LEN == 112

\* get_hw_id(): "MKR-" and eight digits are the longest.
HwIdLen == 12

SensorsBuffer == 256
\* Mutant: the buffer of the diag payload as it was before it got the wake-path fields.
SmallDiagBuffer == 256
DiagBuffer == 320
AnswerBuffer == 512

\* A message is what it was made from; its bytes are in SizeOf.
Message == [topic : {"none", "silence", "sensors", "status", "diag", "capabilities", "commands"},
            lit : BOOLEAN, used : BOOLEAN, about : {"nothing", "battery", "snapshot"},
            verdict : Verdicts]

Sent(topic) == [topic |-> topic, lit |-> FALSE, used |-> FALSE, about |-> "nothing",
                verdict |-> Verdict(OK, "none")]

\* No message, and the decision of maybe_publish_diag() to send none.
Nothing == Sent("none")
Silence == Sent("silence")

NoData == [reset_cause |-> 0, battery |-> "none", miss |-> 0, rssi |-> 0, heap |-> 0]

-----------------------------------------------------------------------------
(* The sensors payload *)

\* The widest a float prints with one decimal: a calibration offset may be any float.
FloatWidth == 42

\* xxx_module_contribute()
bme280_module_contribute ==
    << Field("temp", FloatWidth), Field("humi", 5), Field("press", FloatWidth) >>

sht30_module_contribute == << Field("temp", FloatWidth), Field("humi", 5) >>

mkr_env_module_contribute ==
    << Field("temp", FloatWidth), Field("humi", 5), Field("press", FloatWidth),
       Field("lux", 5), Field("uv", 8) >>

bh1750_module_contribute == << Field("lux", 5) >>

battery_module_contribute == << Field("bat", 3), Field("batv", FloatWidth) >>

\* publish_sensor_data(): lit tells whether the light sensor answered.
SensorFields(flags, lit) ==
    With(flags, "HAS_BME280", bme280_module_contribute)
    \o With(flags, "HAS_SHT30", sht30_module_contribute)
    \o With(flags, "HAS_MKR_ENV", mkr_env_module_contribute)
    \o (IF lit THEN bh1750_module_contribute ELSE << >>)
    \o With(flags, "HAS_BATTERY", battery_module_contribute)
    \o << Field("rssi", 4) >>

\* read_lux() of the BH1750: the acknowledgement and the number of bytes are looked at.
Lit == IF "HAS_BH1750" \in build THEN { h # "lost" : h \in Heard } ELSE {FALSE}

\* voltage_to_soc() against the two thresholds.
Charges == IF "HAS_BATTERY" \in build THEN {"fine", "low", "critical"} ELSE {"none"}

PublishSensorData ==
    /\ pc = "publish"
    /\ soc' \in Charges
    /\ \E lit \in Lit : message' = [Sent("sensors") EXCEPT !.lit = lit]
    /\ pc' = "alert"
    /\ UNCHANGED <<build, chipVars, at, coefs, good, reading, data>>

\* Duty-cycled nodes look at their health next; a continuous node looks at its commands.
Cycles == DeepSleep \/ "SAMD" \in build
AfterPublish == IF Cycles THEN "health" ELSE "sent"

\* publish_health_status() and the alerts of publish_sensor_data().
StatusOf(about, verdict) == [Sent("status") EXCEPT !.about = about, !.verdict = verdict]

BatteryAlert ==
    /\ pc = "alert"
    /\ message' = CASE soc = "critical" -> StatusOf("battery", Verdict(ERROR, "critical_battery"))
                    [] soc = "low" -> StatusOf("battery", Verdict(WARNING, "low_battery"))
                    [] OTHER -> Nothing
    /\ pc' = AfterPublish
    /\ UNCHANGED <<build, chipVars, at, coefs, good, reading, soc, data>>

\* An invalid reading is not published: a node that sleeps still reports and waits for
\* commands, a duty cycle ends, and loop() starts over.
ReadFailed ==
    /\ pc = "invalid"
    /\ pc' = IF DeepSleep THEN "health" ELSE IF "SAMD" \in build THEN "read" ELSE "sent"
    /\ message' = Nothing
    /\ UNCHANGED <<build, chipVars, at, coefs, good, reading, soc, data>>

-----------------------------------------------------------------------------
(* Health *)

\* build_diag_data(): a build without a battery says so.
build_diag_data ==
    { d \in Snapshots : (d.battery = "none") <=> ("HAS_BATTERY" \notin build) }

\* The fields of a snapshot; used = TRUE when every counter has counted.
DiagFields(d, used) ==
    LET verdict == diag_evaluate(d)
        Counter(key) == Field(key, IF used THEN CounterDigits ELSE 1)
        Counted(keys) == IF used THEN [i \in DOMAIN keys |-> Counter(keys[i])] ELSE << >>
    IN  << StringField("level", IF verdict.level = WARNING THEN 7 ELSE 5),
           StringField("message", Len(verdict.message)), Field("rst", 1), Counter("boot"),
           Counter("miss"), Field("wake_ms", 10), Counter("seq"), Counter("pubfail") >>
        \o Counted(<< "txsent", "txok", "wf", "mf", "sf", "bx" >>)
        \o << Field("rssi", 4), Field("heap", 6) >>
        \o (IF d.battery = "none" THEN << >> ELSE << Field("bat", 3) >>)
        \o << StringField("fw", FwLen), StringField("hw", 8), Field("hwrev", 2),
              StringField("id", HwIdLen) >>

publish_diag(d, used) ==
    [Sent("diag") EXCEPT !.used = used, !.about = "snapshot", !.verdict = diag_evaluate(d)]

\* maybe_publish_diag()'s condition.
WorthReporting(d, confirm) == confirm \/ diag_evaluate(d).level >= WARNING

MaybePublishDiag ==
    /\ pc = "health"
    /\ pc' = "sent"
    /\ \E d \in build_diag_data, used, confirm \in BOOLEAN :
          /\ data' = d
          /\ message' = IF WorthReporting(d, confirm) THEN publish_diag(d, used) ELSE Silence
    /\ UNCHANGED <<build, chipVars, at, coefs, good, reading, soc>>

-----------------------------------------------------------------------------
(* process_pending_commands(): the four commands that are answered with a report *)

Answer ==
    /\ pc = "window" /\ pc' = "sent"
    /\ UNCHANGED <<build, chipVars, at, coefs, good, reading, soc>>

GetStatus ==
    /\ Answer
    /\ \E d \in build_diag_data : data' = d /\ message' = StatusOf("snapshot", diag_evaluate(d))

GetDiag ==
    /\ Answer
    /\ \E d \in build_diag_data, used \in BOOLEAN : data' = d /\ message' = publish_diag(d, used)

RequestAnswered ==
    /\ Answer
    /\ message' \in { Sent("capabilities"), Sent("commands") }
    /\ UNCHANGED data

\* The message has left, the node looks at its queue (again).
LooksAtQueue ==
    /\ pc = "sent" /\ pc' = "window"
    /\ message' = Nothing /\ data' = NoData /\ soc' = "none"
    /\ UNCHANGED <<build, chipVars, at, coefs, good, reading>>

\* The wake, the duty cycle or the interval is over.
WindowOver ==
    /\ pc = "window"
    /\ pc' = IF DeepSleep THEN "sleep" ELSE "read"
    /\ UNCHANGED <<build, chipVars, at, coefs, good, reading, reportVars>>

-----------------------------------------------------------------------------
(* The bytes of a message: whether its buffer holds all of it, and how many *)

Built(fields, size) ==
    LET pb == Build(fields, size) IN [whole |-> Whole(pb), len |-> pb.pos]

AppendedTo(size, len) == [whole |-> len >= 0 /\ len < size, len |-> len]

\* {"level":"","message":""} in the smaller of its two buffers.
StatusSize(verdict) == AppendedTo(64, 25 + 7 + Len(verdict.message))

\* The values before the metrics: chip id, hardware code and revision, firmware, interval.
CapabilityValues == HwIdLen + 8 + 5 + FwLen + 5

SizeOf(m) ==
    CASE m.topic = "sensors" -> Built(SensorFields(build, m.lit), SensorsBuffer)
      [] m.topic = "diag" -> Built(DiagFields(data, m.used), DiagBuffer)
      [] m.topic = "status" -> StatusSize(m.verdict)
      [] m.topic = "capabilities" ->
            AppendedTo(AnswerBuffer, format_capabilities_payload(
                register_modules(build).metrics, CapabilityValues, AnswerBuffer))
      [] m.topic = "commands" ->
            AppendedTo(AnswerBuffer,
                       format_commands_payload(register_modules(build).commands, AnswerBuffer))

\* publish() of PubSubClient: header, length of the topic, topic, payload.
FitsPacket(len) ==
    MQTT_MAX_HEADER_SIZE + 2 + (TOPIC_LEN - 1) + len <= MQTT_MAX_PACKET_SIZE

-----------------------------------------------------------------------------
(* What the builds of platformio.ini have in common: HAS_BME280, HAS_SHT30  *)
(* and HAS_MKR_ENV are mutually exclusive, an MKR ENV shield has a light    *)
(* sensor of its own, every metric finds room, and ten counters and the     *)
(* version leave the diag payload the room it needs.                        *)

OneSensor(flags) ==
    \A f, g \in flags \cap {"HAS_BME280", "HAS_SHT30", "HAS_MKR_ENV"} : f = g

OneLight(flags) == ~ ({"HAS_MKR_ENV", "HAS_BH1750"} \subseteq flags)

RoomForAll == MAX_METRICS >= 8

CountersFit == 10 * CounterDigits + FwLen <= 75

-----------------------------------------------------------------------------
Init ==
    /\ SensorInit
    /\ soc = "none"
    /\ data = NoData
    /\ message = Nothing

Drivers == (Begin \/ Read \/ Boot) /\ UNCHANGED reportVars
Environment == BusMoves /\ UNCHANGED reportVars
Answers == GetStatus \/ GetDiag \/ RequestAnswered

\* What the node does of itself, without a command.
Publishes == PublishSensorData \/ BatteryAlert \/ ReadFailed \/ MaybePublishDiag
Program == Drivers \/ Publishes \/ LooksAtQueue \/ WindowOver

Next == Program \/ Environment \/ Answers

Spec == Init /\ [][Next]_vars

\* The program runs on: every wait of it is bounded by millis() but the one of begin()
\* for the chip, which ends when the bus answers clean.  The window closes when its time
\* is over, however many commands come: strong fairness, for a command is a detour.
FairSpec ==
    /\ Spec
    /\ WF_vars(Drivers)
    /\ WF_vars(Publishes \/ LooksAtQueue)
    /\ SF_vars(WindowOver)

-----------------------------------------------------------------------------
PCs == {"begin", "read", "invalid", "publish", "alert", "health", "sent", "window", "sleep"}

\* Every variable has its type, only builds that sleep do, and only nodes that go quiet
\* after their report look at their health first.
TypeOK ==
    /\ SensorTypeOK
    /\ pc \in PCs
    /\ pc = "sleep" => DeepSleep
    /\ pc = "health" => Cycles
    /\ pc = "begin" => at <= Len(BeginSteps) + 1
    /\ pc = "read" /\ Sensor # "none" => at <= Len(ReadSteps)
    /\ soc \in {"none", "fine", "low", "critical"}
    /\ data \in DiagData
    /\ message \in Message

\* The capabilities and the payloads agree: every field of a sensors payload is an
\* announced metric of this build, none was refused by a full registry, and every
\* announced metric is in every payload, but the light of a BH1750 that did not answer.
AnnouncedIsPublished ==
    message.topic = "sensors" =>
        LET fields == SensorFields(build, message.lit)
            keys == { fields[i].key : i \in DOMAIN fields }
            announced == Announced(build)
        IN  /\ keys \subseteq announced
            /\ announced \ keys \subseteq (IF message.lit THEN {} ELSE {"lux"})
            /\ Len(register_modules(build).metrics) = Cardinality(announced)

\* Every payload is a whole JSON object in its buffer and fits one MQTT packet with the
\* longest topic, with calibration offsets of any size and counters of CounterDigits
\* digits: a cut object would be sent, and dropped by the server, without a trace.
PayloadWhole ==
    message.topic \notin {"none", "silence"} =>
        SizeOf(message).whole /\ FitsPacket(SizeOf(message).len)

\* The health a node reports, on either topic, is the worst condition docs/diagnostics.md
\* lists that holds; and a wake that publishes no snapshot has none at warning or above.
HealthIsWorst ==
    /\ message.about = "snapshot" => IsWorst(data, message.verdict)
    /\ message.topic = "silence" => \A c \in Conditions(data) : c.level < WARNING

\* Once the bus is up for good the node recovers: it publishes valid readings again and
\* again, and from some time on all of them are measured.  Builds that sleep start their
\* sensor over at every wake, and an SHT30 needs no start.
SensorHeals ==
    (DeepSleep \/ Sensor = "sht30") /\ Sensor # "none" /\ <>[](bus = "up") =>
        /\ []<>(pc = "alert" /\ reading.valid)
        /\ <>[](reading.valid => reading.measured)
=============================================================================
