------------------------------- MODULE Sensors -------------------------------
(***************************************************************************)
(* The drivers of lib/thermo_drivers on a bus that fails: begin() and      *)
(* read() of the BME280, the SHT30 and the MKR ENV shield, one transaction *)
(* per step.  A driver is the list of its transactions; what differs       *)
(* between them is which answers are looked at.                            *)
(*                                                                         *)
(* The chips keep their configuration while the node resets: they lose it  *)
(* with their power only.  The node keeps the coefficients a chip was made *)
(* with in RAM, read once by begin().                                      *)
(***************************************************************************)
EXTENDS Naturals, Sequences

CONSTANT Builds         \* the builds that may run: sets of flags of platformio.ini

VARIABLES
    build,              \* the flags of the build that runs
    bus,                \* the wires: "up", "noisy", "down"
    started,            \* the chips that measure continuously
    coefs,              \* dig_* of the BME280, hts_* of the shield: "none", "true", "garbled"
    pc,                 \* where the node is
    at,                 \* the transaction begin() or read() is at
    good,               \* every transaction of this read brought what the chip measured
    reading,            \* last_data: what valid says, and whether it was measured
    disturbed           \* history: the bus was not up at some time since the boot

chipVars   == <<bus, started, disturbed>>
driverVars == <<pc, at, coefs, good, reading>>

Sensor ==
    IF "HAS_BME280" \in build THEN "bme280"
    ELSE IF "HAS_SHT30" \in build THEN "sht30"
    ELSE IF "HAS_MKR_ENV" \in build THEN "mkr_env" ELSE "none"

DeepSleep == "HAS_DEEP_SLEEP" \in build

\* SensorData{}: not valid, and no chip measured its zeros.
NoReading == [valid |-> FALSE, measured |-> FALSE]

-----------------------------------------------------------------------------
(* Transactions.                                                           *)
(*   verify  an identifier or a checksum is compared: only a clean answer  *)
(*           passes                                                        *)
(*   ask     the acknowledgement is looked at                              *)
(*   write   nothing is looked at: on = TRUE starts the chip, FALSE resets *)
(*   wait    a status bit is polled until it is clear                      *)
(*   load    the coefficients are read, whatever comes back                *)
(*   fetch   the number of bytes is looked at                              *)
(*   check   the number of bytes and their checksum are                    *)
(*   take    bytes are used, whatever comes back                           *)

Step(op, chip) == [op |-> op, chip |-> chip]
Write(chip, on) == [op |-> "write", chip |-> chip, on |-> on]

bme280_begin == << Step("verify", "bme"), Write("bme", FALSE), Step("wait", "bme"),
                   Step("load", "bme"), Write("bme", TRUE) >>
bme280_read  == << Step("ask", "bme"), Step("fetch", "bme") >>

\* Neither command needs the chip to be started: one shot per reading.
sht30_begin  == << Step("ask", "sht"), Step("ask", "sht"), Step("verify", "sht") >>

\* Mutant: the two CRCs are not compared.
UncheckedRead == << Step("ask", "sht"), Step("fetch", "sht") >>

sht30_read   == << Step("ask", "sht"), Step("check", "sht") >>

mkr_env_begin == << Step("verify", "hts"), Write("hts", TRUE), Step("load", "hts"),
                    Step("verify", "lps"), Write("lps", FALSE), Write("lps", TRUE),
                    Step("verify", "veml"), Write("veml", TRUE) >>
mkr_env_read  == << Step("take", "hts"), Step("take", "lps"), Step("take", "veml") >>

BeginSteps ==
    CASE Sensor = "bme280" -> bme280_begin [] Sensor = "sht30" -> sht30_begin
      [] Sensor = "mkr_env" -> mkr_env_begin [] OTHER -> << >>

ReadSteps ==
    CASE Sensor = "bme280" -> bme280_read [] Sensor = "sht30" -> sht30_read
      [] Sensor = "mkr_env" -> mkr_env_read [] OTHER -> << >>

\* What becomes of one transaction.
Heard ==
    CASE bus = "up" -> {"clean"} [] bus = "noisy" -> {"clean", "garbled", "lost"}
      [] OTHER -> {"lost"}

-----------------------------------------------------------------------------
(* begin() *)

SensorInit ==
    /\ build \in Builds
    /\ bus = "up" /\ disturbed = FALSE
    /\ started = {} /\ coefs = "none"
    /\ pc = "begin" /\ at = 1
    /\ good = TRUE /\ reading = NoReading

Beginning(op) == pc = "begin" /\ at <= Len(BeginSteps) /\ BeginSteps[at].op = op
Chip == BeginSteps[at].chip

Passed == at' = at + 1 /\ UNCHANGED pc

\* setup(): a node that sleeps tries again at the next wake, another goes on and reads.
BeginFailed ==
    IF DeepSleep THEN pc' = "sleep" /\ at' = 1 ELSE pc' = "read" /\ at' = 1

Asked ==
    /\ Beginning("verify") \/ Beginning("ask")
    /\ \E h \in Heard :
          IF h = "clean" \/ (h = "garbled" /\ BeginSteps[at].op = "ask")
          THEN Passed ELSE BeginFailed
    /\ UNCHANGED <<build, chipVars, coefs, good, reading>>

\* A write that is not heard clean changes nothing, and begin() does not know.
Written ==
    /\ Beginning("write")
    /\ Passed
    /\ \E h \in Heard :
          started' = IF h # "clean" THEN started
                     ELSE IF BeginSteps[at].on THEN started \cup {Chip}
                     ELSE started \ {Chip}
    /\ UNCHANGED <<build, bus, disturbed, coefs, good, reading>>

\* while (read8(STATUS) & 1): a lost answer reads as 0xFF.
Waited ==
    /\ Beginning("wait")
    /\ \E h \in Heard :
          \/ h # "lost" /\ Passed
          \/ h # "clean" /\ UNCHANGED <<pc, at>>
    /\ UNCHANGED <<build, chipVars, coefs, good, reading>>

Loaded ==
    /\ Beginning("load")
    /\ Passed
    /\ \E h \in Heard : coefs' = IF h = "clean" THEN "true" ELSE "garbled"
    /\ UNCHANGED <<build, chipVars, good, reading>>

BeginDone ==
    /\ pc = "begin" /\ at > Len(BeginSteps)
    /\ pc' = "read" /\ at' = 1
    /\ UNCHANGED <<build, chipVars, coefs, good, reading>>

Begin == Asked \/ Written \/ Waited \/ Loaded \/ BeginDone

-----------------------------------------------------------------------------
(* read() *)

Reading(op) == pc = "read" /\ at <= Len(ReadSteps) /\ ReadSteps[at].op = op

\* The chip has measured: an SHT30 when the command reached it, another when started.
Measures == Sensor = "sht30" \/ ReadSteps[at].chip \in started

Answered(v) == pc' = v /\ at' = 1 /\ good' = TRUE

Invalid == Answered("invalid") /\ reading' = NoReading

Valid(measured) ==
    /\ Answered("publish")
    /\ reading' = [valid |-> TRUE, measured |-> measured]

MeasurementAsked ==
    /\ Reading("ask")
    /\ \E h \in Heard :
          IF h = "lost" THEN Invalid
          ELSE at' = at + 1 /\ good' = (h = "clean") /\ UNCHANGED <<pc, reading>>
    /\ UNCHANGED <<build, chipVars, coefs>>

\* Any eight bytes make a valid reading.
Fetched ==
    /\ Reading("fetch")
    /\ \E h \in Heard :
          IF h = "lost" THEN Invalid
          ELSE Valid(good /\ h = "clean" /\ Measures /\ (coefs = "true" \/ Sensor = "sht30"))
    /\ UNCHANGED <<build, chipVars, coefs>>

\* An SHT30 that was not asked has nothing to send.
Checked ==
    /\ Reading("check")
    /\ \E h \in Heard : IF h = "clean" /\ good THEN Valid(TRUE) ELSE Invalid
    /\ UNCHANGED <<build, chipVars, coefs>>

\* MkrEnvSensor::read(): valid whatever came back.
Taken ==
    /\ Reading("take")
    /\ \E h \in Heard :
          LET measured == good /\ h = "clean" /\ Measures
          IN  IF at = Len(ReadSteps) THEN Valid(measured /\ coefs = "true")
              ELSE at' = at + 1 /\ good' = measured /\ UNCHANGED <<pc, reading>>
    /\ UNCHANGED <<build, chipVars, coefs>>

\* A build without a sensor publishes at once.
NothingToRead ==
    /\ pc = "read" /\ Sensor = "none"
    /\ pc' = "publish"
    /\ UNCHANGED <<build, chipVars, coefs, at, good, reading>>

Read == MeasurementAsked \/ Fetched \/ Checked \/ Taken \/ NothingToRead

-----------------------------------------------------------------------------
(* The wires and the node *)

\* The bus changes; it may take the supply of the chips with it.  It matters where a
\* transaction comes next, and is left alone elsewhere.
BusMoves ==
    /\ pc \in {"begin", "read"}
    /\ bus' \in {"up", "noisy", "down"} \ {bus}
    /\ started' \in IF bus' = "down" THEN {started, {}} ELSE {started}
    /\ disturbed' = (disturbed \/ bus' # "up")
    /\ UNCHANGED <<build, driverVars>>

\* Mutant: the coefficients survive in RTC memory, and begin() is for a node without any.
BootWithCoefs ==
    /\ pc = "sleep" /\ DeepSleep
    /\ pc' = (IF coefs = "none" THEN "begin" ELSE "read") /\ at' = 1
    /\ good' = TRUE /\ reading' = NoReading
    /\ disturbed' = (bus # "up")
    /\ UNCHANGED <<build, bus, started, coefs>>

\* A wake is a reset: RAM is new, the chips are not.
Boot ==
    /\ pc = "sleep" /\ DeepSleep
    /\ pc' = "begin" /\ at' = 1
    /\ coefs' = "none" /\ good' = TRUE /\ reading' = NoReading
    /\ disturbed' = (bus # "up")
    /\ UNCHANGED <<build, bus, started>>

-----------------------------------------------------------------------------
Chips == {"bme", "hts", "lps", "veml"}

SensorTypeOK ==
    /\ build \in Builds
    /\ bus \in {"up", "noisy", "down"}
    /\ started \subseteq Chips
    /\ coefs \in {"none", "true", "garbled"}
    /\ at \in 1 .. 9
    /\ good \in BOOLEAN
    /\ reading \in [valid : BOOLEAN, measured : BOOLEAN]
    /\ disturbed \in BOOLEAN

\* A reading that is valid was measured: whatever happened on the bus for an SHT30,
\* whose bytes have checksums, and for the others as long as nothing has happened on it
\* since the boot (a failed or half-heard begin() leaves chips unstarted and
\* coefficients unread, and read() does not know).  On such a bus no read fails.
ValidIsMeasured ==
    /\ reading.valid /\ (Sensor = "sht30" \/ ~disturbed) => reading.measured
    /\ pc = "invalid" => disturbed
=============================================================================
