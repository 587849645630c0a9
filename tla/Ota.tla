--------------------------------- MODULE Ota ---------------------------------
(***************************************************************************)
(* The commands that end in a reboot, ota_update and factory_reset, from   *)
(* the session on the broker to what they leave in flash.                  *)
(*                                                                         *)
(* The client library acknowledges a command before it is carried out, the *)
(* reboot cuts the connection, and the broker delivers again whatever it   *)
(* has no acknowledgement of.  Nothing waits for a PUBACK: what keeps an   *)
(* update from being carried out twice are the guards of ota_module.cpp.   *)
(*                                                                         *)
(* The node is one that sleeps and wakes, or stays connected: a window may *)
(* stay open for ever.  A wake that does not connect changes nothing.      *)
(***************************************************************************)
EXTENDS Broker

CONSTANTS
    CMD_QUEUE_SIZE,     \* 4 in the code
    CMD_PAYLOAD_MAX,    \* 128 in the code: the characters of a queued command, and a NUL
    Requests,           \* what the update commands ask for, by their value
    MaxReboots          \* bound: how many commands reboot the node

\* An update command: were all its fields sent, how many characters it takes to read
\* them all, is the image for this hardware, and the version of the image.
Request == [complete : BOOLEAN, length : Nat, ours : BOOLEAN, ver : Nat]

ASSUME OtaAssumption ==
    /\ CMD_QUEUE_SIZE \in Nat \ {0}
    /\ CMD_PAYLOAD_MAX \in Nat \ {0}
    /\ Requests \in [DOMAIN Requests -> Request]
    /\ MaxReboots \in Nat
    /\ \A c \in Commands : c.action = "ota_update" => c.value \in DOMAIN Requests

VARIABLES
    pc,             \* where the node is
    running,        \* FIRMWARE_VERSION of the image in flash
    provisioned,    \* the config store holds a valid device_id
    low,            \* the battery is below OTA_MIN_BATTERY_PCT
    cmdq,           \* cmd_queue[0 .. cmd_queue_count)
    carried,        \* history: the commands that rebooted the node, in order
    answers         \* history: the error acks of updates

nodeVars == <<pc, running, provisioned, low, cmdq, carried, answers>>
vars == <<nodeVars, brokerVars>>

linkVars    == <<link, up, down, pushed>>
sessionVars == <<session, backlog, sent, heard>>
flashVars   == <<running, provisioned>>

\* "download": platform_ota_perform(); "pause": the 200 ms before a factory reset.
Phases == {"off", "window", "process", "download", "pause"}

Reasons == {"bad_request", "hw_mismatch", "same_version", "low_battery", "update_failed"}

\* A command that was carried out, and whether its PUBACK was with the broker by then.
Reboot == [id : Nat, cmd : Commands, acked : BOOLEAN]

\* An error ack: to which request, by which version, and why.
Answer == [value : Nat, by : Nat, message : Reasons]

TypeOK ==
    /\ BrokerTypeOK
    /\ pc \in Phases
    /\ running \in Nat
    /\ provisioned \in BOOLEAN
    /\ low \in BOOLEAN
    /\ cmdq \in Seq(Message)
    /\ Len(cmdq) <= CMD_QUEUE_SIZE
    /\ pc \in {"process", "download", "pause"} => cmdq # <<>>
    /\ carried \in Seq(Reboot)
    /\ answers \subseteq Answer

Init ==
    /\ BrokerInit
    /\ pc = "off"
    /\ running = 0
    /\ provisioned \in BOOLEAN
    /\ low \in BOOLEAN
    /\ cmdq = <<>>
    /\ carried = <<>>
    /\ answers = {}

-----------------------------------------------------------------------------
(* Waking and sleeping *)

\* Every reboot ends the connection and loses the RAM; so does deep sleep.
ResetNode ==
    /\ pc' = "off"
    /\ Hangup
    /\ cmdq' = <<>>
    /\ UNCHANGED <<low, sessionVars>>

Connects ==
    /\ pc = "off"
    /\ provisioned
    /\ pc' = "window"
    /\ Connect(<<Subscribe("command")>>)
    /\ UNCHANGED <<flashVars, low, cmdq, carried, answers, sessionVars>>

\* The operator provisions the node over the serial line, with the identity it had.
Provision ==
    /\ pc = "off"
    /\ ~provisioned
    /\ provisioned' = TRUE
    /\ UNCHANGED <<pc, running, low, cmdq, carried, answers, brokerVars>>

\* Asleep, the node is as after any other reset.
WindowClose ==
    /\ pc = "window"
    /\ ResetNode
    /\ UNCHANGED <<flashVars, carried, answers>>

Reconnect ==
    /\ pc = "window"
    /\ ~link
    /\ Connect(<<Subscribe("command")>>)
    /\ UNCHANGED <<nodeVars, sessionVars>>

-----------------------------------------------------------------------------
(* process_pending_commands() *)

on_mqtt_message(m) ==
    cmdq' = IF Len(cmdq) < CMD_QUEUE_SIZE THEN Append(cmdq, m) ELSE cmdq

\* One message a call; the PUBACK follows the callback, and the processing both.
Pump ==
    /\ pc = "window"
    /\ link
    /\ down # <<>>
    /\ on_mqtt_message(Head(down))
    /\ down' = Tail(down)
    /\ up' = Append(up, Puback(Head(down).id))
    /\ pc' = "process"
    /\ UNCHANGED <<flashVars, low, carried, answers, link, pushed, sessionVars>>

Current == Head(cmdq)

Pending(action) == pc = "process" /\ Current.cmd.action = action

Processed ==
    /\ cmdq' = Tail(cmdq)
    /\ pc' = IF Tail(cmdq) = <<>> THEN "window" ELSE "process"
    /\ UNCHANGED <<flashVars, low, carried, linkVars, sessionVars>>

HandleQuery ==
    /\ pc = "process"
    /\ Current.cmd.action \notin {"ota_update", "factory_reset"}
    /\ Processed
    /\ UNCHANGED answers

\* The callback cuts what does not fit; a field that is not whole is no field.
Readable(r) == r.complete /\ r.length < CMD_PAYLOAD_MAX

\* Mutant: the version is not compared.
RefusedByAnyVersion(r) ==
    IF ~Readable(r) THEN "bad_request"
    ELSE IF ~r.ours THEN "hw_mismatch"
    ELSE IF low THEN "low_battery"
    ELSE "none"

\* Mutant: the battery is looked at before the version.
RefusedBatteryFirst(r) ==
    IF ~Readable(r) THEN "bad_request"
    ELSE IF ~r.ours THEN "hw_mismatch"
    ELSE IF low THEN "low_battery"
    ELSE IF r.ver = running THEN "same_version"
    ELSE "none"

\* The guards in their order; without a battery `low` never holds.
Refused(r) ==
    IF ~Readable(r) THEN "bad_request"
    ELSE IF ~r.ours THEN "hw_mismatch"
    ELSE IF r.ver = running THEN "same_version"
    ELSE IF low THEN "low_battery"
    ELSE "none"

\* An error ack, and the next command.
ErrorAck(message) ==
    /\ answers' = answers \cup
          {[value |-> Current.cmd.value, by |-> running, message |-> message]}
    /\ Processed

UpdateRefused ==
    /\ Pending("ota_update")
    /\ Refused(Requests[Current.cmd.value]) # "none"
    /\ ErrorAck(Refused(Requests[Current.cmd.value]))

\* The ack "start", and the performer takes over.
UpdateStarts ==
    /\ Pending("ota_update")
    /\ Refused(Requests[Current.cmd.value]) = "none"
    /\ pc' = "download"
    /\ UNCHANGED <<flashVars, low, cmdq, carried, answers, brokerVars>>

\* The performer returns, which always means failure.
UpdateFails ==
    /\ pc = "download"
    /\ ErrorAck("update_failed")

\* The broker keeps command i, and will deliver it again.
Holds(q, i) == \E k \in 1 .. Len(q) : q[k].id = i

\* The command in hand reboots the node, wherever its PUBACK is.
CarriedOut ==
    /\ Len(carried) < MaxReboots
    /\ carried' = Append(carried, [id |-> Current.id, cmd |-> Current.cmd,
                                   acked |-> ~Holds(backlog, Current.id)])
    /\ ResetNode
    /\ UNCHANGED answers

\* The performer does not return: the image is complete and the node boots into it.
UpdateInstalled ==
    /\ pc = "download"
    /\ running' = Requests[Current.cmd.value].ver
    /\ UNCHANGED provisioned
    /\ CarriedOut

\* The ack is published, and delay(200).
ResetPauses ==
    /\ Pending("factory_reset")
    /\ pc' = "pause"
    /\ UNCHANGED <<flashVars, low, cmdq, carried, answers, brokerVars>>

FactoryReset ==
    /\ pc = "pause"
    /\ provisioned' = FALSE
    /\ UNCHANGED running
    /\ CarriedOut

-----------------------------------------------------------------------------
(* What may happen around the node at any time *)

CommandSent    == ServerSend /\ UNCHANGED nodeVars
MessageSent    == BrokerPush /\ UNCHANGED nodeVars
PacketReceived == BrokerReceive /\ UNCHANGED nodeVars
ConnectionLost == LinkDrop /\ UNCHANGED nodeVars

PowerLoss ==
    /\ pc # "off"
    /\ ResetNode
    /\ UNCHANGED <<flashVars, carried, answers>>

BatteryMoves ==
    /\ low' = ~low
    /\ UNCHANGED <<pc, flashVars, cmdq, carried, answers, brokerVars>>

-----------------------------------------------------------------------------

Process ==
    \/ HandleQuery
    \/ UpdateRefused
    \/ UpdateStarts
    \/ UpdateFails
    \/ ResetPauses

Reboots == UpdateInstalled \/ FactoryReset

Node == Connects \/ WindowClose \/ Reconnect \/ Pump \/ Process \/ Reboots

Environment ==
    \/ CommandSent
    \/ MessageSent
    \/ PacketReceived
    \/ ConnectionLost
    \/ Provision
    \/ PowerLoss
    \/ BatteryMoves

Next == Node \/ Environment

Spec == Init /\ [][Next]_vars

-----------------------------------------------------------------------------
(* Properties *)

Flashed(k) == carried[k].cmd.action = "ota_update"
Asked(k)   == Requests[carried[k].cmd.value]

\* However often an update is delivered again, no version is flashed over itself: where one
\* was flashed twice another one was in between ("garde-fou idempotence : refus si
\* ver == FIRMWARE_VERSION", docs/ota-calibration-protocol.md:315).
NoVersionFlashedTwice ==
    \A i, j \in 1 .. Len(carried) :
       i < j /\ Flashed(i) /\ Flashed(j) /\ Asked(i).ver = Asked(j).ver
          => \E k \in i + 1 .. j - 1 : Flashed(k) /\ Asked(k).ver # Asked(i).ver

\* An update that was carried out and comes again while its image runs is answered by
\* "same_version" and nothing else, by which the server can tell a success from an
\* update that was refused or failed: never by the battery, nor by another download.
SuccessIsSameVersion ==
    \A a \in answers, k \in 1 .. Len(carried) :
       Flashed(k) /\ carried[k].cmd.value = a.value /\ a.by = Asked(k).ver
          => a.message = "same_version"
=============================================================================
