------------------------------ MODULE LoopNode ------------------------------
(***************************************************************************)
(* A node that does not deep-sleep: loop() of src/main.cpp, in its two     *)
(* forms, over the same broker and counters as WakeCycle.                  *)
(*                                                                         *)
(*  - "standby" (MKR WiFi 1010 without display): every turn of loop() is a *)
(*    duty cycle: read, connect, subscribe, publish, command window, radio *)
(*    off, standby.  Standby resumes where it was: RAM, hence the counters *)
(*    and the command queue, lives on until a reset.                       *)
(*  - "continuous" (ESP8266 mains node, or any node with a display):       *)
(*    setup() tries to connect once and loop() keeps the connection.       *)
(*                                                                         *)
(* Which of the two was compiled is chosen at the start and never changes. *)
(* Time is abstracted: a window, a standby or a publish interval may be    *)
(* over at any moment, so a command that only sets the interval changes    *)
(* nothing here ("query"), like the commands that only publish a reply.    *)
(***************************************************************************)
EXTENDS DiagCounters, Broker

CONSTANTS
    CMD_QUEUE_SIZE,     \* 4 in the code
    MaxCommandValue,    \* 86400 in the code: largest value a command may carry
    MaxInFlight         \* bound: packets in flight when the continuous node publishes

ASSUME LoopNodeAssumption ==
    /\ CMD_QUEUE_SIZE \in Nat \ {0}
    /\ MaxCommandValue \in Nat \ {0}
    /\ MaxInFlight \in Nat

VARIABLES
    build,          \* which loop() was compiled
    pc,             \* where the node is
    dc,             \* g_dc, in RAM
    provisioned,    \* the config store holds a valid device_id
    confirmed,      \* g_uplink_confirmed
    cmdq,           \* cmd_queue[0 .. cmd_queue_count)
    topic,          \* subscribe_topic_: the topic a reconnection subscribes to
    done,           \* history: ids of the commands processed so far
    cycles          \* history: duty cycles since the reset, as a uint32_t

nodeVars == <<build, pc, dc, provisioned, confirmed, cmdq, topic, done, cycles>>
vars == <<nodeVars, brokerVars>>

(* What groups of actions leave alone. *)
ramVars     == <<confirmed, cmdq, topic, heard>>
sessionVars == <<session, backlog, sent>>
linkVars    == <<link, up, down, pushed>>

Builds == {"standby", "continuous"}

Phases == {"off", "provision", "setup", "cycle", "publish", "window", "process",
           "standby", "loop"}

\* What the queue may hold: a loopback is no command.
Queued == [topic : {"command"}, id : Nat, cmd : Command]

TypeOK ==
    /\ BrokerTypeOK
    /\ build \in Builds
    /\ pc \in Phases
    /\ dc \in Counters
    /\ provisioned \in BOOLEAN
    /\ confirmed \in BOOLEAN
    /\ cmdq \in Seq(Queued)
    /\ Len(cmdq) <= CMD_QUEUE_SIZE
    /\ topic \in Topics \cup {"none"}
    /\ done \subseteq Nat
    /\ cycles \in Counter

Init ==
    /\ BrokerInit
    /\ build \in Builds
    /\ pc = "off"
    /\ dc = ZeroCounters
    /\ provisioned \in BOOLEAN
    /\ confirmed = FALSE
    /\ cmdq = <<>>
    /\ topic = "none"
    /\ done = {}
    /\ cycles = 0

\* Where network.loop() is called from.
Listening == IF build = "standby" THEN "window" ELSE "loop"

-----------------------------------------------------------------------------
(* Reset and setup() *)

\* Every reset, whatever its cause, initialises the statics again.
ResetNode ==
    /\ pc' = "off"
    /\ Hangup
    /\ dc' = ZeroCounters
    /\ confirmed' = FALSE
    /\ cmdq' = <<>>
    /\ topic' = "none"
    /\ heard' = FALSE
    /\ cycles' = 0
    /\ UNCHANGED <<build, sessionVars>>

\* No cause of a reset is a deep-sleep timer here.  The standby build leaves the
\* connection to loop().
Boot ==
    /\ pc = "off"
    /\ dc' = note_boot_nds(note_boot(dc))
    /\ pc' = IF ~provisioned THEN "provision"
             ELSE IF build = "standby" THEN "cycle" ELSE "setup"
    /\ UNCHANGED <<build, provisioned, ramVars, done, cycles, linkVars, sessionVars>>

\* The operator provisions the node over the serial line, which reboots it.
Provision ==
    /\ pc = "provision"
    /\ provisioned' = TRUE
    /\ ResetNode
    /\ UNCHANGED done

\* A connection that fails in setup() of the continuous build is left to loop();
\* subscribe() has not been called then.
SetupFails ==
    /\ pc = "setup"
    /\ pc' = "loop"
    /\ dc' \in {note_wifi_fail(dc), note_mqtt_fail(dc)}
    /\ UNCHANGED <<build, provisioned, ramVars, done, cycles, linkVars, sessionVars>>

SetupConnects ==
    /\ pc = "setup"
    /\ pc' = "loop"
    /\ Connect(<<Subscribe("command")>>)
    /\ topic' = "command"
    /\ UNCHANGED <<build, dc, provisioned, confirmed, cmdq, heard, done, cycles,
                   sessionVars>>

-----------------------------------------------------------------------------
(* The duty cycle *)

\* The cycle ends with counters d: power_down(), where the radio was on, and
\* standby().
EndCycle(d) ==
    /\ pc' = "standby"
    /\ dc' = d
    /\ cycles' = Inc(cycles)
    /\ Hangup
    /\ UNCHANGED <<build, provisioned, ramVars, done, sessionVars>>

Wake ==
    /\ pc = "standby"
    /\ pc' = "cycle"
    /\ UNCHANGED <<build, dc, provisioned, ramVars, done, cycles, linkVars, sessionVars>>

SensorFails ==
    /\ pc = "cycle"
    /\ EndCycle(note_sensor_fail(dc))

\* Mutant: a failed WiFi connection is counted as an MQTT failure too.
WifiFailsTwice ==
    /\ pc = "cycle"
    /\ EndCycle(note_missed_wake(note_mqtt_fail(note_wifi_fail(dc))))

WifiFails ==
    /\ pc = "cycle"
    /\ EndCycle(note_missed_wake(note_wifi_fail(dc)))

MqttFails ==
    /\ pc = "cycle"
    /\ EndCycle(note_missed_wake(note_mqtt_fail(dc)))

Connects ==
    /\ pc = "cycle"
    /\ pc' = "publish"
    /\ topic' = IF dc.confirm THEN "sensors" ELSE "command"
    /\ Connect(IF dc.confirm THEN <<Subscribe("command"), Subscribe("sensors")>>
                             ELSE <<Subscribe("command")>>)
    /\ UNCHANGED <<build, dc, provisioned, confirmed, cmdq, heard, done, cycles,
                   sessionVars>>

-----------------------------------------------------------------------------
(* publish_sensor_data(), in either build *)

\* What it does to the counters.
Published(d, ok) ==
    LET p == note_publish(next_publish_seq(d), ok)
    IN  IF d.confirm THEN note_tx_sent(p) ELSE p

\* Mutant: the loopback flag of an earlier publish is left standing.
PublishKeepsFlag(ok) ==
    /\ UNCHANGED confirmed
    /\ heard' = FALSE
    /\ Publish(Sensors(0), ok)

\* `heard` is the observer's: has the broker received this publish?
publish_sensor_data(ok) ==
    /\ confirmed' = FALSE
    /\ heard' = FALSE
    /\ Publish(Sensors(0), ok)

\* Duty cycle: publish, report (maybe_publish_diag() only sends), clear the misses.
CyclePublish ==
    /\ pc = "publish"
    /\ pc' = "window"
    /\ \E ok \in BOOLEAN :
          /\ publish_sensor_data(ok)
          /\ dc' = clear_missed_wakes(Published(dc, ok))
    /\ UNCHANGED <<build, provisioned, cmdq, topic, done, cycles, link, down, pushed,
                   sessionVars>>

\* Continuous: the interval is over, the read is valid and the client believes that
\* it is connected, which it may for a while after the connection was lost.
LoopPublish ==
    /\ pc = "loop"
    /\ Len(up) < MaxInFlight
    /\ \E ok \in BOOLEAN :
          /\ publish_sensor_data(ok)
          /\ dc' = Published(dc, ok)
    /\ UNCHANGED <<build, pc, provisioned, cmdq, topic, done, cycles, link, down, pushed,
                   sessionVars>>

-----------------------------------------------------------------------------
(* network.loop() and the command queue *)

\* The callback: a message on the sensors topic is the loopback, any other is a
\* command, dropped when the queue is full.
on_mqtt_message(m) ==
    /\ confirmed' = (confirmed \/ m.topic = "sensors")
    /\ cmdq' = IF m.topic = "command" /\ Len(cmdq) < CMD_QUEUE_SIZE
               THEN Append(cmdq, m) ELSE cmdq

\* Mutant: process_pending_commands() is not called after the pump.
PumpOnly ==
    /\ pc = Listening
    /\ link
    /\ down # <<>>
    /\ on_mqtt_message(Head(down))
    /\ down' = Tail(down)
    /\ up' = IF Head(down).topic = "command" THEN Append(up, Puback(Head(down).id))
                                            ELSE up
    /\ UNCHANGED <<build, pc, dc, provisioned, topic, done, cycles, link, pushed,
                   sessionVars, heard>>

\* Mutant: the newest message is taken first.
PumpNewestFirst ==
    /\ pc = Listening
    /\ link
    /\ down # <<>>
    /\ on_mqtt_message(down[Len(down)])
    /\ down' = SubSeq(down, 1, Len(down) - 1)
    /\ up' = IF down[Len(down)].topic = "command"
             THEN Append(up, Puback(down[Len(down)].id)) ELSE up
    /\ pc' = IF cmdq' = <<>> THEN pc ELSE "process"
    /\ UNCHANGED <<build, dc, provisioned, topic, done, cycles, link, pushed,
                   sessionVars, heard>>

\* On a live connection the client takes one message, runs the callback and
\* acknowledges a QoS-1 message whatever the callback did;
\* process_pending_commands() follows when there is something to process.
Pump ==
    /\ pc = Listening
    /\ link
    /\ down # <<>>
    /\ on_mqtt_message(Head(down))
    /\ down' = Tail(down)
    /\ up' = IF Head(down).topic = "command" THEN Append(up, Puback(Head(down).id))
                                            ELSE up
    /\ pc' = IF cmdq' = <<>> THEN pc ELSE "process"
    /\ UNCHANGED <<build, dc, provisioned, topic, done, cycles, link, pushed,
                   sessionVars, heard>>

\* Mutant: the topic is not remembered, a reconnection subscribes to nothing.
ReconnectOnly ==
    /\ pc = Listening
    /\ ~link
    /\ Connect(<<>>)
    /\ UNCHANGED <<nodeVars, sessionVars, heard>>

\* Mutant: the continuous loop() pumps a live connection only.
ReconnectInWindow ==
    /\ pc = "window"
    /\ ~link
    /\ Connect(IF topic = "none" THEN <<>> ELSE <<Subscribe(topic)>>)
    /\ UNCHANGED <<nodeVars, sessionVars, heard>>

\* On a lost connection that can be made again, only the last topic given to
\* subscribe() is subscribed to again, and none when it was never called.
Reconnect ==
    /\ pc = Listening
    /\ ~link
    /\ Connect(IF topic = "none" THEN <<>> ELSE <<Subscribe(topic)>>)
    /\ UNCHANGED <<nodeVars, sessionVars, heard>>

parse_command_value(v) == v \in 1 .. MaxCommandValue

\* process_pending_commands() has handled the oldest command and goes on.
Processed ==
    /\ cmdq' = Tail(cmdq)
    /\ pc' = IF Tail(cmdq) = <<>> THEN Listening ELSE "process"
    /\ done' = done \cup {Head(cmdq).id}
    /\ UNCHANGED <<build, provisioned, confirmed, topic, heard, cycles, linkVars,
                   sessionVars>>

Pending(action) == pc = "process" /\ Head(cmdq).cmd.action = action

handle_set_confirm_uplink ==
    /\ Pending("set_confirm_uplink")
    /\ LET v == Head(cmdq).cmd.value
       IN  dc' = IF parse_command_value(v) THEN set_confirm_uplink(dc, v # 0) ELSE dc
    /\ Processed

\* A reply is all there is to see, also of an update that is refused or fails and of
\* one that the build does not know.
HandleQuery ==
    /\ Pending("query") \/ Pending("ota_update")
    /\ dc' = dc
    /\ Processed

\* An update that succeeds reboots the node; the standby build has no HAS_OTA.
OtaReboots ==
    /\ build = "continuous"
    /\ Pending("ota_update")
    /\ done' = done \cup {Head(cmdq).id}
    /\ ResetNode
    /\ UNCHANGED provisioned

\* The store is cleared and the node reboots into provisioning.
FactoryReset ==
    /\ Pending("factory_reset")
    /\ provisioned' = FALSE
    /\ done' = done \cup {Head(cmdq).id}
    /\ ResetNode

ProcessCommand ==
    \/ handle_set_confirm_uplink
    \/ HandleQuery
    \/ OtaReboots
    \/ FactoryReset

\* Mutant: the window stays open until the loopback is there.
WindowWaits ==
    /\ pc = "window"
    /\ confirmed
    /\ EndCycle(IF dc.confirm THEN note_tx_confirmed(dc) ELSE dc)

\* The command window is over.
WindowClose ==
    /\ pc = "window"
    /\ EndCycle(IF dc.confirm /\ confirmed THEN note_tx_confirmed(dc) ELSE dc)

-----------------------------------------------------------------------------
(* What may happen around the node at any time *)

CommandSent    == ServerSend /\ UNCHANGED nodeVars
MessageSent    == BrokerPush /\ UNCHANGED nodeVars
PacketReceived == BrokerReceive /\ UNCHANGED nodeVars
ConnectionLost == LinkDrop /\ UNCHANGED nodeVars

\* A power loss, a brownout, a watchdog or a panic: all clear the RAM.
Reset ==
    /\ pc # "off"
    /\ UNCHANGED <<provisioned, done>>
    /\ ResetNode

-----------------------------------------------------------------------------

Setup == Boot \/ SetupFails \/ SetupConnects

DutyCycle ==
    \/ Wake
    \/ SensorFails
    \/ WifiFails
    \/ MqttFails
    \/ Connects
    \/ CyclePublish
    \/ WindowClose

Loop == DutyCycle \/ LoopPublish \/ Pump \/ Reconnect \/ ProcessCommand

Environment ==
    \/ CommandSent
    \/ MessageSent
    \/ PacketReceived
    \/ ConnectionLost
    \/ Provision
    \/ Reset

Next == Setup \/ Loop \/ Environment

Spec == Init /\ [][Next]_vars

(***************************************************************************)
(* Fairness.  The node is one thread whose step is always ready; every     *)
(* turn of loop() and of the window calls network.loop(); and the window   *)
(* is bounded by millis(): however busy it is, it closes.                  *)
(***************************************************************************)
NodeFairness ==
    /\ WF_vars(Setup \/ Loop)
    /\ WF_vars(Pump)
    /\ SF_vars(WindowClose)

FairSpec == Spec /\ NodeFairness

(***************************************************************************)
(* The network and the power settle: connections are not refused for ever, *)
(* the operator provisions the node, and from some time on nothing is lost *)
(* or reset, a window stays open until everything in flight is there, and  *)
(* so do the 200 ms before the reboot of a factory reset and the download  *)
(* before that of an update.                                               *)
(***************************************************************************)
Quiet == up = <<>> /\ down = <<>> /\ pushed = Len(backlog)

Settles ==
    /\ SF_vars(Connects)
    /\ WF_vars(Reconnect)
    /\ WF_vars(MessageSent)
    /\ WF_vars(PacketReceived)
    /\ WF_vars(Provision)
    /\ <>[][/\ ~ConnectionLost /\ ~Reset
            /\ WindowClose => Quiet
            /\ FactoryReset \/ OtaReboots => up = <<>>]_vars

-----------------------------------------------------------------------------
(* Properties *)

Holds(q, i) == \E k \in 1 .. Len(q) : q[k].id = i
Kept(i)     == Holds(backlog, i) \/ Holds(cmdq, i)

\* Delivery proof (main.cpp:623-626): when the loopback flag is set, the broker
\* has received the node's last sensors publish.  RAM lives on, so the flag of an
\* earlier cycle is still there when the next one begins.
ConfirmedIsDelivered == confirmed => heard

\* How the cycles ended, and whether that is n cycles, but for the wraps of the
\* counters.
Endings(d) == d.wifi_fail + d.mqtt_fail + d.sensor_fail + d.seq

Accounts(d, n) == \E wraps \in 0 .. 3 : Endings(d) = n + wraps * CounterModulus

\* "each stage that aborts a wake bumps one counter" (docs/diagnostics.md:114-121):
\* over any number of duty cycles each is one publish or exactly one of wf, mf and sf.
CycleAttribution == pc = "standby" => Accounts(dc, cycles)

\* A node that is connected, and has nothing more to say, is subscribed to its
\* commands, whatever was lost before and whichever topic the reconnection chose.
\* (A node whose very first connection failed in setup() is not: SetupFails.)
ConnectedIsSubscribed ==
    link /\ up = <<>> /\ topic # "none" => "command" \in session

\* A command the broker accepted is processed, queued or still with the broker: only
\* a reset may take one from the node ("The persistent session (and any
\* still-undelivered commands) survives on the broker", docs/mqtt-protocol.md:260-261).
OnlyResetLosesCommands ==
    [][pc' # "off" => \A i \in 1 .. sent : Kept(i) => i \in done' \/ Kept(i)']_vars

\* "On reconnect the broker immediately delivers any commands it queued"
\* (docs/mqtt-protocol.md:252-253): once the network settles, no command stays with the
\* broker for ever, in either build and whatever happened before.
EveryCommandTaken ==
    Settles => []<>(backlog = <<>>)

\* What CommandService says of a node that may be reset: a command that is lost is
\* skipped, and none is carried out for the first time after a later one ("queued and
\* processed in order", docs/mqtt-protocol.md:536).
Service == INSTANCE CommandService WITH accepted <- sent, served <- done

ServedInOrder == Service!LossySpec

\* Every duty cycle ends, whatever the network does.
EveryCycleEnds == pc = "cycle" ~> pc \in {"standby", "off", "provision"}
=============================================================================
