----------------------------- MODULE WakeCycle -----------------------------
(***************************************************************************)
(* A deep-sleep node (build flag HAS_DEEP_SLEEP) and the broker: setup()   *)
(* of src/main.cpp from boot to the next deep sleep, with everything it    *)
(* calls that changes state.  loop() never runs in these builds.           *)
(*                                                                         *)
(* One wake is                                                             *)
(*   boot -> (provision) -> connect, subscribe -> read, publish, report    *)
(*        -> command window -> (confirm / resend) -> disconnect -> sleep   *)
(* and a single thread runs it, so a step of the node is a maximal run of  *)
(* code that no packet can interrupt: the broker, the server, the network  *)
(* and the power supply act between steps.                                 *)
(*                                                                         *)
(* Time is abstracted: a window may close at any moment.                   *)
(***************************************************************************)
EXTENDS DiagCounters, Broker

CONSTANTS
    Esp8266,            \* TRUE: ESP8266 (counters copied to RTC user memory);
                        \* FALSE: ESP32 (counters live in RTC memory)
    SyncBeforeSleep,    \* build flag SYNC_BEFORE_SLEEP
    SYNC_MAX_RESENDS,   \* 4 in the code
    CMD_QUEUE_SIZE,     \* 4 in the code
    MaxCommandValue,    \* 86400 in the code: largest value a command may carry
    DefaultInterval,    \* DEFAULT_SLEEP_INTERVAL_S
    Faults,             \* which of "link", "crash", "power" the environment has
    MaxBoots            \* bound: boots between two losses of the RTC memory

ASSUME WakeCycleAssumption ==
    /\ Esp8266 \in BOOLEAN
    /\ SyncBeforeSleep \in BOOLEAN
    /\ SYNC_MAX_RESENDS \in Nat
    /\ CMD_QUEUE_SIZE \in Nat \ {0}
    /\ MaxCommandValue \in Nat \ {0}
    /\ DefaultInterval \in Nat \ {0}
    /\ Faults \subseteq {"link", "crash", "power"}
    /\ MaxBoots \in Nat

VARIABLES
    pc,             \* where setup() is
    cause,          \* what the next platform_reset_cause() will report
    dc,             \* g_dc
    rtcDiag,        \* ESP8266: counters saved in RTC user memory ...
    rtcDiagOk,      \* ... and whether their magic number is valid
    rtcInterval,    \* interval in RTC memory, 0 when its magic is not valid
    interval,       \* publish_interval_s
    provisioned,    \* the config store holds a valid device_id
    valid,          \* last_data.valid
    applied,        \* how often the offsets were added to last_data
    confirmed,      \* g_uplink_confirmed
    resends,        \* local of setup(): re-publishes so far
    cmdq,           \* cmd_queue[0 .. cmd_queue_count)
    topic,          \* subscribe_topic_: the topic a reconnection subscribes to
    done            \* history: ids of the commands processed so far

nodeVars == <<pc, cause, dc, rtcDiag, rtcDiagOk, rtcInterval, interval,
              provisioned, valid, applied, confirmed, resends, cmdq, topic, done>>
vars == <<nodeVars, brokerVars>>

(* What groups of actions leave alone. *)
ramVars     == <<valid, applied, confirmed, resends, cmdq, topic, heard>>
rtcVars     == <<rtcDiag, rtcDiagOk, rtcInterval>>
sessionVars == <<session, backlog, sent>>
linkVars    == <<link, up, down, pushed>>

Phases == {"off", "asleep", "provision", "boot", "read", "window", "process",
           "sync", "syncwait"}

Awake == Phases \ {"off", "asleep"}

TypeOK ==
    /\ BrokerTypeOK
    /\ pc \in Phases
    /\ cause \in {"timer", "power", "reset", "software"}
    /\ dc \in Counters
    /\ rtcDiag \in Counters
    /\ rtcDiagOk \in BOOLEAN
    /\ rtcInterval \in 0 .. MaxCommandValue
    /\ interval \in Nat \ {0}
    /\ provisioned \in BOOLEAN
    /\ valid \in BOOLEAN
    /\ applied \in 0 .. SYNC_MAX_RESENDS + 1
    /\ confirmed \in BOOLEAN
    /\ resends \in 0 .. SYNC_MAX_RESENDS
    /\ cmdq \in Seq(Message)
    /\ Len(cmdq) <= CMD_QUEUE_SIZE
    /\ topic \in Topics \cup {"none"}
    /\ done \subseteq Nat

Init ==
    /\ BrokerInit
    /\ pc = "off"
    /\ cause = "power"
    /\ dc = ZeroCounters
    /\ rtcDiag = ZeroCounters
    /\ rtcDiagOk = FALSE
    /\ rtcInterval = 0
    /\ interval = DefaultInterval
    /\ provisioned \in BOOLEAN
    /\ valid = FALSE
    /\ applied = 0
    /\ confirmed = FALSE
    /\ resends = 0
    /\ cmdq = <<>>
    /\ topic = "none"
    /\ done = {}

-----------------------------------------------------------------------------
(* RAM, RTC memory, sleep and reboot *)

\* Statics are initialised again by the next boot.  `heard` is the observer's
\* memory of the wake and goes with it.
RamLost ==
    /\ valid' = FALSE
    /\ applied' = 0
    /\ confirmed' = FALSE
    /\ resends' = 0
    /\ cmdq' = <<>>
    /\ topic' = "none"
    /\ heard' = FALSE

RtcLost ==
    /\ dc' = ZeroCounters
    /\ rtcDiag' = ZeroCounters
    /\ rtcDiagOk' = FALSE
    /\ rtcInterval' = 0

\* ESP8266 user memory outlives any reset but a power loss; the RTC_DATA_ATTR
\* variables of the ESP32 are initialised by every boot but a deep-sleep wake.
RtcAfterReset == IF Esp8266 THEN UNCHANGED <<dc, rtcVars>> ELSE RtcLost

\* Mutant: the ESP8266 sleeps without copying the counters.
NoPersist(d) == UNCHANGED <<rtcDiag, rtcDiagOk>>

diag_counters_persist(d) ==
    IF Esp8266
    THEN rtcDiag' = d /\ rtcDiagOk' = TRUE
    ELSE UNCHANGED <<rtcDiag, rtcDiagOk>>

diag_counters_restore ==
    IF Esp8266
    THEN IF rtcDiagOk THEN rtcDiag ELSE ZeroCounters
    ELSE IF cause = "timer" THEN dc ELSE ZeroCounters

\* network.disconnect(), if connected, then enter_deep_sleep(interval).
enter_deep_sleep(d) ==
    /\ pc' = "asleep"
    /\ cause' = "timer"
    /\ dc' = d
    /\ diag_counters_persist(d)
    /\ Hangup
    /\ RamLost
    /\ UNCHANGED <<rtcInterval, interval, provisioned, done, sessionVars>>

reboot_device ==
    /\ pc' = "off"
    /\ cause' = "software"
    /\ Hangup
    /\ RamLost
    /\ UNCHANGED <<interval, sessionVars>>

-----------------------------------------------------------------------------
(* setup(): boot and connect *)

sync_publish_on(d) == SyncBeforeSleep \/ d.confirm

\* Mutant: only deep-sleep wakes are counted as boots.
BootCountsWakesOnly ==
    /\ pc \in {"off", "asleep"}
    /\ diag_counters_restore.boot < MaxBoots
    /\ LET d == diag_counters_restore
       IN  dc' = IF cause = "timer" THEN note_boot(d) ELSE note_boot_nds(d)
    /\ pc' = IF provisioned THEN "boot" ELSE "provision"
    /\ interval' = IF provisioned /\ rtcInterval # 0 THEN rtcInterval ELSE DefaultInterval
    /\ UNCHANGED <<cause, rtcVars, provisioned, ramVars, done, linkVars, sessionVars>>

Boot ==
    /\ pc \in {"off", "asleep"}
    /\ diag_counters_restore.boot < MaxBoots
    /\ LET d == note_boot(diag_counters_restore)
       IN  dc' = IF cause = "timer" THEN d ELSE note_boot_nds(d)
    /\ pc' = IF provisioned THEN "boot" ELSE "provision"
    /\ interval' = IF provisioned /\ rtcInterval # 0 THEN rtcInterval ELSE DefaultInterval
    /\ UNCHANGED <<cause, rtcVars, provisioned, ramVars, done, linkVars, sessionVars>>

\* The operator provisions the node over the serial line: it stores the
\* device_id and reboots.
Provision ==
    /\ pc = "provision"
    /\ provisioned' = TRUE
    /\ reboot_device
    /\ RtcAfterReset
    /\ UNCHANGED done

SensorInitFails ==
    /\ pc = "boot"
    /\ enter_deep_sleep(dc)

WifiFails ==
    /\ pc = "boot"
    /\ enter_deep_sleep(note_missed_wake(note_wifi_fail(dc)))

MqttFails ==
    /\ pc = "boot"
    /\ enter_deep_sleep(note_missed_wake(note_mqtt_fail(dc)))

\* Mutant: cleanSession = true, the broker forgets the session.
ConnectsCleanSession ==
    /\ pc = "boot"
    /\ pc' = "read"
    /\ topic' = IF sync_publish_on(dc) THEN "sensors" ELSE "command"
    /\ Connect(<<Subscribe("command")>>)
    /\ session' = {}
    /\ backlog' = <<>>
    /\ UNCHANGED <<cause, dc, rtcVars, interval, provisioned, valid, applied,
                   confirmed, resends, cmdq, done, sent, heard>>

Connects ==
    /\ pc = "boot"
    /\ pc' = "read"
    /\ topic' = IF sync_publish_on(dc) THEN "sensors" ELSE "command"
    /\ Connect(IF sync_publish_on(dc)
               THEN <<Subscribe("command"), Subscribe("sensors")>>
               ELSE <<Subscribe("command")>>)
    /\ UNCHANGED <<cause, dc, rtcVars, interval, provisioned, valid, applied,
                   confirmed, resends, cmdq, done, sessionVars, heard>>

-----------------------------------------------------------------------------
(* setup(): read, publish, report *)

\* Mutant: attempts are counted in confirm mode only, not in a sync build.
PublishedInConfirmMode(d, ok) ==
    LET p == note_publish(next_publish_seq(d), ok)
    IN  IF d.confirm THEN note_tx_sent(p) ELSE p

\* What publish_sensor_data() does to the counters.
Published(d, ok) ==
    LET p == note_publish(next_publish_seq(d), ok)
    IN  IF sync_publish_on(d) THEN note_tx_sent(p) ELSE p

\* publish_sensor_data() on a last_data that had the offsets added n times:
\* it adds them once more, in place, and publishes the result.
publish_sensor_data(n, ok) ==
    /\ applied' = n + 1
    /\ confirmed' = FALSE
    /\ Publish(Sensors(n + 1), ok)

ReadAndPublish ==
    /\ pc = "read"
    /\ valid' = TRUE
    /\ \E ok \in BOOLEAN :
          /\ publish_sensor_data(0, ok)
          /\ dc' = clear_missed_wakes(Published(dc, ok))
    /\ pc' = "window"
    /\ UNCHANGED <<cause, rtcVars, interval, provisioned, resends, cmdq, topic,
                   done, link, down, pushed, sessionVars, heard>>

ReadInvalid ==
    /\ pc = "read"
    /\ dc' = clear_missed_wakes(note_sensor_fail(dc))
    /\ pc' = "window"
    /\ UNCHANGED <<cause, rtcVars, interval, provisioned, ramVars, done, linkVars,
                   sessionVars>>

-----------------------------------------------------------------------------
(* network.loop() and the command queue *)

\* Mutant: the topic is not compared, any message proves the delivery.
AnyMessageConfirms(m) ==
    /\ confirmed' = TRUE
    /\ cmdq' = IF m.topic = "command" /\ Len(cmdq) < CMD_QUEUE_SIZE
               THEN Append(cmdq, m) ELSE cmdq

\* The callback: a message on the sensors topic is the loopback, any other is a
\* command, dropped when the queue is full.
on_mqtt_message(m) ==
    /\ confirmed' = (confirmed \/ m.topic = "sensors")
    /\ cmdq' = IF m.topic = "command" /\ Len(cmdq) < CMD_QUEUE_SIZE
               THEN Append(cmdq, m) ELSE cmdq

\* Mutant: the newest message is taken first.
NewestMessageFirst ==
    /\ link
    /\ down # <<>>
    /\ down' = SubSeq(down, 1, Len(down) - 1)
    /\ on_mqtt_message(down[Len(down)])
    /\ up' = IF down[Len(down)].topic = "command"
             THEN Append(up, Puback(down[Len(down)].id)) ELSE up
    /\ UNCHANGED <<link, pushed>>

\* network.loop() on a live connection: the client takes one message, runs the
\* callback, then acknowledges a QoS-1 message whatever the callback did.
ReceiveMessage ==
    /\ link
    /\ down # <<>>
    /\ down' = Tail(down)
    /\ on_mqtt_message(Head(down))
    /\ up' = IF Head(down).topic = "command" THEN Append(up, Puback(Head(down).id))
                                            ELSE up
    /\ UNCHANGED <<link, pushed>>

\* network.loop() on a lost connection that can be made again.  Only the last
\* topic given to subscribe() is subscribed to again.
Reconnect ==
    /\ pc \in {"window", "syncwait"}
    /\ ~link
    /\ Connect(IF topic = "none" THEN <<>> ELSE <<Subscribe(topic)>>)
    /\ UNCHANGED <<nodeVars, sessionVars, heard>>

\* Mutant: the window pumps the network and processes nothing.
WindowOnlyPumps ==
    /\ pc = "window"
    /\ ReceiveMessage
    /\ UNCHANGED <<pc, cause, dc, rtcVars, interval, provisioned, valid, applied,
                   resends, topic, done, sessionVars, heard>>

\* One turn of the command window; process_pending_commands() follows when
\* there is something to process.
WindowLoop ==
    /\ pc = "window"
    /\ ReceiveMessage
    /\ pc' = IF cmdq' = <<>> THEN "window" ELSE "process"
    /\ UNCHANGED <<cause, dc, rtcVars, interval, provisioned, valid, applied, resends,
                   topic, done, sessionVars, heard>>

parse_command_value(v) == v \in 1 .. MaxCommandValue

\* process_pending_commands() has handled the oldest command and goes on.
Processed ==
    /\ cmdq' = Tail(cmdq)
    /\ pc' = IF Tail(cmdq) = <<>> THEN "window" ELSE "process"
    /\ done' = done \cup {Head(cmdq).id}
    /\ UNCHANGED <<cause, rtcDiag, rtcDiagOk, provisioned, valid, applied, confirmed,
                   resends, topic, heard, linkVars, sessionVars>>

Pending(action) == pc = "process" /\ Head(cmdq).cmd.action = action

\* Mutant: write_rtc_interval() is forgotten.
IntervalInRamOnly ==
    /\ Pending("set_interval")
    /\ LET v == Head(cmdq).cmd.value
       IN  interval' = IF parse_command_value(v) THEN v ELSE interval
    /\ Processed
    /\ UNCHANGED <<dc, rtcInterval>>

handle_set_interval ==
    /\ Pending("set_interval")
    /\ LET v == Head(cmdq).cmd.value
       IN  IF parse_command_value(v)
           THEN interval' = v /\ rtcInterval' = v
           ELSE UNCHANGED <<interval, rtcInterval>>
    /\ Processed
    /\ UNCHANGED dc

handle_set_confirm_uplink ==
    /\ Pending("set_confirm_uplink")
    /\ LET v == Head(cmdq).cmd.value
       IN  dc' = IF parse_command_value(v) THEN set_confirm_uplink(dc, v # 0) ELSE dc
    /\ Processed
    /\ UNCHANGED <<interval, rtcInterval>>

\* Commands that only publish a reply.
HandleQuery ==
    /\ Pending("query")
    /\ Processed
    /\ UNCHANGED <<dc, interval, rtcInterval>>

\* The update is refused or fails ...
OtaFails ==
    /\ Pending("ota_update")
    /\ Processed
    /\ UNCHANGED <<dc, interval, rtcInterval>>

\* ... or the performer reboots into the new image.  The update of an ESP8266
\* may write over RTC user memory.
OtaReboots ==
    /\ Pending("ota_update")
    /\ reboot_device
    /\ RtcAfterReset \/ RtcLost
    /\ done' = done \cup {Head(cmdq).id}
    /\ UNCHANGED provisioned

FactoryReset ==
    /\ Pending("factory_reset")
    /\ provisioned' = FALSE
    /\ reboot_device
    /\ RtcAfterReset
    /\ done' = done \cup {Head(cmdq).id}

ProcessCommand ==
    \/ handle_set_interval
    \/ handle_set_confirm_uplink
    \/ HandleQuery
    \/ OtaFails
    \/ OtaReboots
    \/ FactoryReset

-----------------------------------------------------------------------------
(* Sync before sleep *)

\* The command window is over.
WindowClose ==
    /\ pc = "window"
    /\ IF sync_publish_on(dc)
       THEN /\ pc' = "sync"
            /\ UNCHANGED <<cause, dc, rtcVars, interval, provisioned, ramVars, done,
                           linkVars, sessionVars>>
       ELSE enter_deep_sleep(dc)

Resend ==
    /\ pc = "sync"
    /\ ~confirmed
    /\ resends < SYNC_MAX_RESENDS
    /\ resends' = resends + 1
    /\ \E ok \in BOOLEAN :
          /\ publish_sensor_data(applied, ok)
          /\ dc' = Published(dc, ok)
    /\ pc' = "syncwait"
    /\ UNCHANGED <<cause, rtcVars, interval, provisioned, valid, cmdq, topic, done,
                   link, down, pushed, sessionVars, heard>>

\* One turn of the wait for the loopback: the queue is filled, not processed.
SyncLoop ==
    /\ pc = "syncwait"
    /\ ReceiveMessage
    /\ pc' = IF confirmed' THEN "sync" ELSE "syncwait"
    /\ UNCHANGED <<cause, dc, rtcVars, interval, provisioned, valid, applied, resends,
                   topic, done, sessionVars, heard>>

\* Mutant: the wait for the loopback has no time limit.
WaitForLoopback ==
    /\ pc = "syncwait"
    /\ confirmed
    /\ pc' = "sync"
    /\ UNCHANGED <<cause, dc, rtcVars, interval, provisioned, ramVars, done, linkVars,
                   sessionVars>>

SyncTimeout ==
    /\ pc = "syncwait"
    /\ pc' = "sync"
    /\ UNCHANGED <<cause, dc, rtcVars, interval, provisioned, ramVars, done, linkVars,
                   sessionVars>>

\* Mutant: gives up one re-publish early.
SyncEndsEarly ==
    /\ pc = "sync"
    /\ confirmed \/ resends >= SYNC_MAX_RESENDS - 1
    /\ enter_deep_sleep(IF confirmed THEN note_tx_confirmed(dc) ELSE dc)

SyncEnd ==
    /\ pc = "sync"
    /\ confirmed \/ resends = SYNC_MAX_RESENDS
    /\ enter_deep_sleep(IF confirmed THEN note_tx_confirmed(dc) ELSE dc)

-----------------------------------------------------------------------------
(* What may happen around the node at any time *)

CommandSent    == ServerSend /\ UNCHANGED nodeVars
MessageSent    == BrokerPush /\ UNCHANGED nodeVars
PacketReceived == BrokerReceive /\ UNCHANGED nodeVars

\* A watchdog reset, a panic or a brownout.
Crash ==
    /\ "crash" \in Faults
    /\ pc \in Awake
    /\ pc' = "off"
    /\ cause' = "reset"
    /\ Hangup
    /\ RamLost
    /\ RtcAfterReset
    /\ UNCHANGED <<interval, provisioned, done, sessionVars>>

PowerLoss ==
    /\ "power" \in Faults
    /\ pc # "off"
    /\ pc' = "off"
    /\ cause' = "power"
    /\ Hangup
    /\ RamLost
    /\ RtcLost
    /\ UNCHANGED <<interval, provisioned, done, sessionVars>>

ConnectionLost ==
    /\ "link" \in Faults
    /\ LinkDrop
    /\ UNCHANGED nodeVars

-----------------------------------------------------------------------------

Setup ==
    \/ Boot
    \/ SensorInitFails
    \/ WifiFails
    \/ MqttFails
    \/ Connects
    \/ ReadAndPublish
    \/ ReadInvalid
    \/ WindowLoop
    \/ ProcessCommand
    \/ Reconnect
    \/ WindowClose
    \/ Resend
    \/ SyncLoop
    \/ SyncTimeout
    \/ SyncEnd

Environment ==
    \/ CommandSent
    \/ MessageSent
    \/ PacketReceived
    \/ ConnectionLost
    \/ Provision
    \/ Crash
    \/ PowerLoss

Next == Setup \/ Environment

Spec == Init /\ [][Next]_vars

(***************************************************************************)
(* Fairness.  The node is one thread whose step is always ready (the RTC   *)
(* timer ends a sleep), and both windows are bounded by millis(): however  *)
(* often they are busy, they close.                                        *)
(***************************************************************************)
NodeFairness ==
    /\ WF_vars(Setup)
    /\ SF_vars(WindowClose)
    /\ SF_vars(SyncTimeout)

NodeFairSpec == Spec /\ NodeFairness

(***************************************************************************)
(* The network settles: connections are not refused for ever, and from     *)
(* some time on none is lost, packets arrive, and they arrive within the   *)
(* command window (3 s for a broker on the local network).                 *)
(***************************************************************************)
Quiet == up = <<>> /\ down = <<>> /\ pushed = Len(backlog)

NetworkSettles ==
    /\ SF_vars(Connects)
    /\ WF_vars(MessageSent)
    /\ WF_vars(PacketReceived)
    /\ <>[][~ConnectionLost /\ (WindowClose => Quiet)]_vars

FairSpec == NodeFairSpec /\ NetworkSettles

-----------------------------------------------------------------------------
(* Properties *)

InFlight(type) == \E k \in 1 .. Len(up) : up[k].type = type

\* Delivery proof (main.cpp:623-626, "proof it reached the broker"): when the
\* loopback flag is set, the broker has received a sensors publish made in this
\* very wake.  A loopback left over from an earlier wake or an earlier
\* connection, or a command taken for one, would break it.
ConfirmedIsDelivered == confirmed => heard

\* The wake-path counters attribute every wake at most once (diagnostics.h:27-34):
\* a boot ends in at most one of wf, mf, sf, a confirmed wake is none that failed
\* to connect, no reset is counted that was no boot, and the misses still to be
\* reported are connect failures.
AttributionOf(d) ==
    /\ d.wifi_fail + d.mqtt_fail + d.sensor_fail <= d.boot
    /\ d.wifi_fail + d.mqtt_fail + d.tx_ok <= d.boot
    /\ d.boot_nds <= d.boot
    /\ d.miss <= d.wifi_fail + d.mqtt_fail

CounterAttribution == AttributionOf(dc) /\ (rtcDiagOk => AttributionOf(rtcDiag))

\* "txok: of those [txsent], confirmed delivered" (docs/diagnostics.md:71-72):
\* the server divides txok by txsent (docs/diagnostics.md:104).
TxOkWithinTxSent == dc.tx_ok <= dc.tx_sent

\* The node never sleeps on an undelivered frame before it has spent every
\* re-publish (main.cpp:1010-1015).
SleepsDeliveredOrSpent ==
    [][pc = "sync" /\ pc' = "asleep" => heard \/ resends = SYNC_MAX_RESENDS]_vars

\* Every wake ends, whatever the network does: no packet, loss or reconnection
\* keeps the node awake.  (An unprovisioned node waits for its operator.)
EveryWakeEnds == pc \in Awake ~> pc \in {"off", "asleep", "provision"}

\* "no counter update is lost across a wake" (main.cpp:184-185): a deep-sleep
\* wake finds the counters as the previous wake left them and counts itself.
WakeKeepsCounters ==
    [][pc = "asleep" /\ pc' \notin {"off", "asleep"} => dc' = note_boot(dc)]_vars

\* The interval a node sleeps with is the interval it wakes with: an interval set
\* by command (main.cpp:244-254) is never forgotten by a sleep.
WakeKeepsInterval ==
    [][pc = "asleep" /\ pc' \notin {"off", "asleep"} => interval' = interval]_vars

\* Every command the broker accepted is still with the broker, is in the node's
\* queue or has been processed ("The persistent session (and any
\* still-undelivered commands) survives on the broker", docs/mqtt-protocol.md:260-261).
Holds(q, i) == \E k \in 1 .. Len(q) : q[k].id = i

NoCommandLost ==
    \A i \in 1 .. sent : i \in done \/ Holds(backlog, i) \/ Holds(cmdq, i)

\* A sensors publish on its way to the broker carries a valid reading of this wake
\* ("the sensor read is invalid, so the wake publishes nothing", docs/diagnostics.md:120)
\* with the offsets added exactly once ("published_value = raw_reading + offset",
\* docs/modules/calibration.md:80).
PublishedIsReading ==
    \A k \in 1 .. Len(up) : up[k].type = "sensors" => valid /\ up[k].arg = 1

\* The commands are served as CommandService says: all of them, in order.
Service == INSTANCE CommandService WITH accepted <- sent, served <- done

CommandsServed == Service!FairSpec

\* "queued and processed in order" (docs/mqtt-protocol.md:536), of every build and
\* under every fault: a command that is lost is skipped, and none is carried out for
\* the first time after a later one, although each connection delivers again whatever
\* was not acknowledged and a reset forgets what was.
ServedInOrder == Service!LossySpec
=============================================================================
