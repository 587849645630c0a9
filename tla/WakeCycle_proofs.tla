-------------------------- MODULE WakeCycle_proofs --------------------------
(***************************************************************************)
(* Theorems about WakeCycle, for every value of its constants.             *)
(***************************************************************************)
EXTENDS WakeCycle, Broker_proofs, TLAPS

-----------------------------------------------------------------------------
(* The counters *)

\* publish_sensor_data() maps counters to counters.
LEMMA PublishedType ==
    ASSUME NEW d \in Counters, NEW ok \in BOOLEAN
    PROVE  Published(d, ok) \in Counters
BY CountersType DEF Published

-----------------------------------------------------------------------------
(* Type correctness *)

\* TypeOK is not inductive: the type of `applied` holds because it is bounded
\* through resends, and Head(cmdq) is a message because the processing never
\* starts on an empty queue.
Flags ==
    /\ link \in BOOLEAN
    /\ heard \in BOOLEAN
    /\ rtcDiagOk \in BOOLEAN
    /\ provisioned \in BOOLEAN
    /\ valid \in BOOLEAN
    /\ confirmed \in BOOLEAN

Data ==
    /\ up \in Seq(Packet)
    /\ down \in Seq(Message)
    /\ session \in SUBSET Topics
    /\ backlog \in Seq(Message)
    /\ pushed \in Nat
    /\ sent \in 0 .. MaxCommands
    /\ pc \in Phases
    /\ cause \in {"timer", "power", "reset", "software"}
    /\ dc \in Counters
    /\ rtcDiag \in Counters
    /\ rtcInterval \in 0 .. MaxCommandValue
    /\ interval \in Nat \ {0}
    /\ resends \in 0 .. SYNC_MAX_RESENDS
    /\ applied \in 0 .. resends + 1
    /\ cmdq \in Seq(Message)
    /\ Len(cmdq) <= CMD_QUEUE_SIZE
    /\ topic \in Topics \cup {"none"}
    /\ done \subseteq Nat
    /\ pc = "process" => cmdq # <<>>

TypeInv == Flags /\ Data

LEMMA TypeInvTypeOK == TypeInv => TypeOK
BY WakeCycleAssumption DEF TypeInv, Flags, Data, TypeOK, BrokerTypeOK

LEMMA TypeInvInit == Init => TypeInv
<1>1. Init => Flags
  BY DEF Init, Flags, BrokerInit
<1>2. Init => Data
  BY ZeroCountersType, WakeCycleAssumption, CommandsAssumption
     DEF Init, Data, BrokerInit, Phases
<1>3. QED
  BY <1>1, <1>2 DEF TypeInv

LEMMA RestoreType ==
    ASSUME Data
    PROVE  diag_counters_restore \in Counters
BY ZeroCountersType DEF Data, diag_counters_restore

\* Going to sleep and restarting keep the types.
LEMMA SleepType ==
    ASSUME TypeInv, NEW d \in Counters, enter_deep_sleep(d)
    PROVE  TypeInv'
<1>1. Flags'
  BY DEF TypeInv, Flags, enter_deep_sleep, diag_counters_persist, Hangup,
         RamLost, sessionVars
<1>2. Data'
  BY WakeCycleAssumption
     DEF TypeInv, Data, Phases, enter_deep_sleep, diag_counters_persist, Hangup,
         RamLost, sessionVars
<1>3. QED
  BY <1>1, <1>2 DEF TypeInv

LEMMA RestartType ==
    ASSUME TypeInv, Hangup, RamLost, RtcAfterReset \/ RtcLost,
           pc' = "off", cause' \in {"power", "reset", "software"},
           provisioned' \in BOOLEAN, done' \subseteq Nat,
           UNCHANGED <<interval, sessionVars>>
    PROVE  TypeInv'
<1>1. Flags'
  BY DEF TypeInv, Flags, Hangup, RamLost, RtcAfterReset, RtcLost, rtcVars
<1>2. Data'
  BY ZeroCountersType, WakeCycleAssumption
     DEF TypeInv, Data, Phases, Hangup, RamLost, RtcAfterReset, RtcLost,
         sessionVars, rtcVars
<1>3. QED
  BY <1>1, <1>2 DEF TypeInv

\* What the broker does keeps the types.
LEMMA BrokerSideType ==
    ASSUME TypeInv, CommandSent \/ MessageSent \/ PacketReceived
    PROVE  TypeInv'
<1>1. CASE CommandSent
  <2>1. Flags'
    BY <1>1 DEF TypeInv, Flags, CommandSent, ServerSend, nodeVars
  <2>2. \A c \in Commands : Append(backlog, CommandMessage(sent + 1, c)) \in Seq(Message)
    BY MessageType, CommandsAssumption DEF TypeInv, Data
  <2>3. Data'
    BY <1>1, <2>2, CommandsAssumption DEF TypeInv, Data, CommandSent, ServerSend, nodeVars
  <2>4. QED
    BY <2>1, <2>3 DEF TypeInv
<1>2. CASE MessageSent
  <2>1. Flags'
    BY <1>2 DEF TypeInv, Flags, MessageSent, BrokerPush, nodeVars
  <2>2. Data'
    BY <1>2 DEF TypeInv, Data, MessageSent, BrokerPush, nodeVars
  <2>3. QED
    BY <2>1, <2>2 DEF TypeInv
<1>3. CASE PacketReceived
  <2>1. Flags'
    BY <1>3 DEF TypeInv, Flags, PacketReceived, BrokerReceive, ReceiveSubscribe,
                ReceiveSensors, ReceivePuback, nodeVars
  <2>2. up' \in Seq(Packet) /\ sent' = sent
    BY <1>3 DEF TypeInv, Data, PacketReceived, BrokerReceive
  <2>3. ASSUME ReceiveSubscribe(Head(up)) PROVE Data'
    BY <1>3, <2>2, <2>3
       DEF TypeInv, Data, ReceiveSubscribe, Topics, PacketReceived, nodeVars
  <2>4. ASSUME ReceiveSensors(Head(up)) PROVE Data'
    BY <1>3, <2>2, <2>4, MessageType
       DEF TypeInv, Data, ReceiveSensors, PacketReceived, nodeVars
  <2>5. ASSUME ReceivePuback(Head(up)) PROVE Data'
    <3>1. backlog' \in Seq(Message) /\ pushed' \in Nat
      <4>1. backlog \in Seq(Message) /\ pushed \in Nat
        BY DEF TypeInv, Data
      <4>2. CASE pushed > 0 /\ backlog # <<>> /\ Head(backlog).id = Head(up).arg
        BY <2>5, <4>1, <4>2 DEF ReceivePuback
      <4>3. CASE ~(pushed > 0 /\ backlog # <<>> /\ Head(backlog).id = Head(up).arg)
        BY <2>5, <4>1, <4>3 DEF ReceivePuback
      <4>4. QED
        BY <4>2, <4>3
    <3>2. QED
      BY <1>3, <2>2, <2>5, <3>1
         DEF TypeInv, Data, ReceivePuback, PacketReceived, nodeVars
  <2>6. QED
    BY <1>3, <2>1, <2>3, <2>4, <2>5 DEF TypeInv, PacketReceived, BrokerReceive
<1>4. QED
  BY <1>1, <1>2, <1>3

\* The steps of setup() up to the command window.
LEMMA SetupType ==
    ASSUME TypeInv,
           \/ Boot \/ SensorInitFails \/ WifiFails \/ MqttFails \/ Connects
           \/ ReadAndPublish \/ ReadInvalid
    PROVE  TypeInv'
<1>1. CASE Boot
  <2>1. Flags'
    BY <1>1 DEF TypeInv, Flags, Boot, rtcVars, ramVars, linkVars
  <2>2. dc' \in Counters
    <3> DEFINE d == note_boot(diag_counters_restore)
    <3>1. d \in Counters /\ note_boot_nds(d) \in Counters
      BY RestoreType, CountersType DEF TypeInv
    <3>2. dc' = IF cause = "timer" THEN d ELSE note_boot_nds(d)
      BY <1>1 DEF Boot
    <3>3. QED
      BY <3>1, <3>2
  <2>3. Data'
    BY <1>1, <2>2, WakeCycleAssumption
       DEF TypeInv, Data, Boot, Phases, rtcVars, ramVars, linkVars, sessionVars
  <2>4. QED
    BY <2>1, <2>3 DEF TypeInv
<1>2. CASE SensorInitFails
  BY <1>2, SleepType DEF SensorInitFails, TypeInv, Data
<1>3. CASE WifiFails
  BY <1>3, SleepType, CountersType DEF WifiFails, TypeInv, Data
<1>4. CASE MqttFails
  BY <1>4, SleepType, CountersType DEF MqttFails, TypeInv, Data
<1>5. CASE Connects
  <2>1. Flags'
    BY <1>5 DEF TypeInv, Flags, Connects, Connect, rtcVars
  <2>2. <<Subscribe("command")>> \in Seq(Packet)
    /\ <<Subscribe("command"), Subscribe("sensors")>> \in Seq(Packet)
    BY PacketType DEF Topics
  <2>3. Data'
    BY <1>5, <2>2
       DEF TypeInv, Data, Connects, Connect, Phases, Topics, rtcVars, sessionVars
  <2>4. QED
    BY <2>1, <2>3 DEF TypeInv
<1>6. CASE ReadAndPublish
  <2>1. Flags'
    BY <1>6 DEF TypeInv, Flags, ReadAndPublish, publish_sensor_data, rtcVars
  <2>2. PICK ok \in BOOLEAN :
          /\ publish_sensor_data(0, ok)
          /\ dc' = clear_missed_wakes(Published(dc, ok))
    BY <1>6 DEF ReadAndPublish
  <2>3. dc' \in Counters
    BY <2>2, PublishedType, CountersType DEF TypeInv, Data
  <2>4. up' \in Seq(Packet) /\ applied' = 1
    BY <2>2, PacketType DEF TypeInv, Data, publish_sensor_data, Publish
  <2>5. Data'
    BY <1>6, <2>3, <2>4
       DEF TypeInv, Data, ReadAndPublish, Phases, rtcVars, sessionVars
  <2>6. QED
    BY <2>1, <2>5 DEF TypeInv
<1>7. CASE ReadInvalid
  <2>1. Flags'
    BY <1>7 DEF TypeInv, Flags, ReadInvalid, rtcVars, ramVars, linkVars
  <2>2. dc' \in Counters
    BY <1>7, CountersType DEF TypeInv, Data, ReadInvalid
  <2>3. Data'
    BY <1>7, <2>2
       DEF TypeInv, Data, ReadInvalid, Phases, rtcVars, ramVars, linkVars, sessionVars
  <2>4. QED
    BY <2>1, <2>3 DEF TypeInv
<1>8. QED
  BY <1>1, <1>2, <1>3, <1>4, <1>5, <1>6, <1>7

\* network.loop() takes a message: in the window and while waiting to confirm.
LEMMA ReceiveType ==
    ASSUME TypeInv, ReceiveMessage
    PROVE  /\ up' \in Seq(Packet)
           /\ down' \in Seq(Message)
           /\ cmdq' \in Seq(Message)
           /\ Len(cmdq') <= CMD_QUEUE_SIZE
           /\ link' = link /\ pushed' = pushed
           /\ confirmed' \in BOOLEAN
<1>1. down # <<>> /\ Head(down) \in Message /\ down' = Tail(down)
  BY DEF TypeInv, Data, ReceiveMessage
<1>2. up' \in Seq(Packet)
  BY <1>1, PacketType DEF TypeInv, Data, ReceiveMessage, Message
<1>3. cmdq' \in Seq(Message) /\ Len(cmdq') <= CMD_QUEUE_SIZE
  BY <1>1, WakeCycleAssumption DEF TypeInv, Data, ReceiveMessage, on_mqtt_message
<1>4. confirmed' \in BOOLEAN
  BY DEF ReceiveMessage, on_mqtt_message
<1>5. QED
  BY <1>1, <1>2, <1>3, <1>4 DEF TypeInv, Data, ReceiveMessage

\* process_pending_commands() handles the oldest command.
LEMMA ProcessedType ==
    ASSUME TypeInv, pc = "process", Processed, dc' \in Counters,
           interval' \in Nat \ {0}, rtcInterval' \in 0 .. MaxCommandValue
    PROVE  TypeInv'
<1>1. Head(cmdq) \in Message /\ Tail(cmdq) \in Seq(Message) /\ Len(Tail(cmdq)) < Len(cmdq)
  BY DEF TypeInv, Data
<1>2. Head(cmdq).id \in Nat
  BY <1>1 DEF Message
<1>3. Flags'
  BY DEF TypeInv, Flags, Processed, linkVars
<1>4. cmdq' \in Seq(Message) /\ Len(cmdq') <= CMD_QUEUE_SIZE
  BY <1>1, WakeCycleAssumption DEF TypeInv, Data, Processed
<1>5. done' \subseteq Nat
  BY <1>2 DEF TypeInv, Data, Processed
<1>6. pc' \in Phases /\ (pc' = "process" => cmdq' # <<>>)
  BY DEF Processed, Phases
<1>7. Data'
  BY <1>4, <1>5, <1>6 DEF TypeInv, Data, Processed, linkVars, sessionVars
<1>8. QED
  BY <1>3, <1>7 DEF TypeInv

LEMMA CommandType ==
    ASSUME TypeInv, WindowLoop \/ ProcessCommand
    PROVE  TypeInv'
<1>1. CASE WindowLoop
  <2>1. Flags'
    BY <1>1, ReceiveType DEF TypeInv, Flags, WindowLoop, rtcVars, sessionVars
  <2>2. Data'
    BY <1>1, ReceiveType DEF TypeInv, Data, WindowLoop, Phases, rtcVars, sessionVars
  <2>3. QED
    BY <2>1, <2>2 DEF TypeInv
<1>2. ASSUME pc = "process"
      PROVE  Head(cmdq) \in Message /\ Head(cmdq).id \in Nat /\ Head(cmdq).cmd.value \in Nat
  <2>1. Head(cmdq) \in Message
    BY <1>2 DEF TypeInv, Data
  <2>2. QED
    BY <2>1 DEF Message, Command
<1>3. CASE handle_set_interval
  <2>1. interval' \in Nat \ {0} /\ rtcInterval' \in 0 .. MaxCommandValue
    BY <1>2, <1>3, WakeCycleAssumption
       DEF TypeInv, Data, handle_set_interval, Pending, parse_command_value
  <2>2. QED
    BY <1>3, <2>1, ProcessedType DEF handle_set_interval, Pending, TypeInv, Data
<1>4. CASE handle_set_confirm_uplink
  <2>1. dc' \in Counters
    <3>1. (Head(cmdq).cmd.value # 0) \in BOOLEAN
      OBVIOUS
    <3>2. QED
      BY <1>4, <3>1, CountersType DEF TypeInv, Data, handle_set_confirm_uplink
  <2>2. QED
    BY <1>4, <2>1, ProcessedType DEF handle_set_confirm_uplink, Pending, TypeInv, Data
<1>5. CASE HandleQuery
  BY <1>5, ProcessedType DEF HandleQuery, Pending, TypeInv, Data
<1>6. CASE OtaFails
  BY <1>6, ProcessedType DEF OtaFails, Pending, TypeInv, Data
<1>7. CASE OtaReboots
  <2>1. done' \subseteq Nat
    BY <1>2, <1>7 DEF TypeInv, Data, OtaReboots, Pending
  <2>2. provisioned' \in BOOLEAN
    BY <1>7 DEF TypeInv, Flags, OtaReboots
  <2>3. QED
    BY <1>7, <2>1, <2>2, RestartType DEF OtaReboots, reboot_device
<1>8. CASE FactoryReset
  <2>1. done' \subseteq Nat
    BY <1>2, <1>8 DEF TypeInv, Data, FactoryReset, Pending
  <2>2. provisioned' \in BOOLEAN
    BY <1>8 DEF FactoryReset
  <2>3. QED
    BY <1>8, <2>1, <2>2, RestartType DEF FactoryReset, reboot_device
<1>9. QED
  BY <1>1, <1>3, <1>4, <1>5, <1>6, <1>7, <1>8 DEF ProcessCommand

\* The end of the wake.
LEMMA SyncType ==
    ASSUME TypeInv,
           Reconnect \/ WindowClose \/ Resend \/ SyncLoop \/ SyncTimeout \/ SyncEnd
    PROVE  TypeInv'
<1>1. CASE Reconnect
  <2>1. Flags'
    BY <1>1 DEF TypeInv, Flags, Reconnect, Connect, nodeVars
  <2>2. up' \in Seq(Packet)
    <3>1. \A t \in Topics : <<Subscribe(t)>> \in Seq(Packet)
      BY PacketType
    <3>2. QED
      BY <1>1, <3>1 DEF TypeInv, Data, Reconnect, Connect
  <2>3. Data'
    BY <1>1, <2>2 DEF TypeInv, Data, Reconnect, Connect, nodeVars, sessionVars
  <2>4. QED
    BY <2>1, <2>3 DEF TypeInv
<1>2. CASE WindowClose
  <2>1. CASE enter_deep_sleep(dc)
    BY <2>1, SleepType DEF TypeInv, Data
  <2>2. ASSUME pc' = "sync",
               UNCHANGED <<cause, dc, rtcVars, interval, provisioned, ramVars, done,
                           linkVars, sessionVars>>
        PROVE  TypeInv'
    <3>1. Flags'
      BY <2>2 DEF TypeInv, Flags, rtcVars, ramVars, linkVars
    <3>2. Data'
      BY <2>2 DEF TypeInv, Data, Phases, rtcVars, ramVars, linkVars, sessionVars
    <3>3. QED
      BY <3>1, <3>2 DEF TypeInv
  <2>3. QED
    BY <1>2, <2>1, <2>2 DEF WindowClose
<1>3. CASE Resend
  <2>1. Flags'
    BY <1>3 DEF TypeInv, Flags, Resend, publish_sensor_data, rtcVars
  <2>2. PICK ok \in BOOLEAN :
          publish_sensor_data(applied, ok) /\ dc' = Published(dc, ok)
    BY <1>3 DEF Resend
  <2>3. dc' \in Counters
    BY <2>2, PublishedType DEF TypeInv, Data
  <2>4. up' \in Seq(Packet) /\ applied' = applied + 1
    BY <2>2, PacketType DEF TypeInv, Data, publish_sensor_data, Publish
  <2>5. Data'
    BY <1>3, <2>3, <2>4, WakeCycleAssumption
       DEF TypeInv, Data, Resend, Phases, rtcVars, sessionVars
  <2>6. QED
    BY <2>1, <2>5 DEF TypeInv
<1>4. CASE SyncLoop
  <2>1. Flags'
    BY <1>4, ReceiveType DEF TypeInv, Flags, SyncLoop, rtcVars, sessionVars
  <2>2. Data'
    BY <1>4, ReceiveType DEF TypeInv, Data, SyncLoop, Phases, rtcVars, sessionVars
  <2>3. QED
    BY <2>1, <2>2 DEF TypeInv
<1>5. CASE SyncTimeout
  <2>1. Flags'
    BY <1>5 DEF TypeInv, Flags, SyncTimeout, rtcVars, ramVars, linkVars
  <2>2. Data'
    BY <1>5 DEF TypeInv, Data, SyncTimeout, Phases, rtcVars, ramVars, linkVars, sessionVars
  <2>3. QED
    BY <2>1, <2>2 DEF TypeInv
<1>6. CASE SyncEnd
  BY <1>6, SleepType, CountersType DEF SyncEnd, TypeInv, Data
<1>7. QED
  BY <1>1, <1>2, <1>3, <1>4, <1>5, <1>6

\* What the surroundings do to the node and its connection.
LEMMA FaultType ==
    ASSUME TypeInv, Provision \/ Crash \/ PowerLoss \/ ConnectionLost
    PROVE  TypeInv'
<1>1. CASE Provision
  BY <1>1, RestartType DEF Provision, reboot_device, TypeInv, Data
<1>2. CASE Crash
  BY <1>2, RestartType DEF Crash, TypeInv, Data, Flags
<1>3. CASE PowerLoss
  BY <1>3, RestartType DEF PowerLoss, TypeInv, Data, Flags
<1>4. CASE ConnectionLost
  <2>1. Flags'
    BY <1>4 DEF TypeInv, Flags, ConnectionLost, LinkDrop, Hangup, nodeVars
  <2>2. Data'
    BY <1>4 DEF TypeInv, Data, ConnectionLost, LinkDrop, Hangup, nodeVars
  <2>3. QED
    BY <2>1, <2>2 DEF TypeInv
<1>5. QED
  BY <1>1, <1>2, <1>3, <1>4

LEMMA TypeInvStep == TypeInv /\ [Next]_vars => TypeInv'
<1> SUFFICES ASSUME TypeInv, [Next]_vars PROVE TypeInv'
  OBVIOUS
<1>1. CASE Setup
  BY <1>1, SetupType, CommandType, SyncType DEF Setup
<1>2. CASE Environment
  BY <1>2, BrokerSideType, FaultType DEF Environment
<1>3. CASE UNCHANGED vars
  <2>1. Flags'
    BY <1>3 DEF TypeInv, Flags, vars, nodeVars, brokerVars
  <2>2. Data'
    BY <1>3 DEF TypeInv, Data, vars, nodeVars, brokerVars
  <2>3. QED
    BY <2>1, <2>2 DEF TypeInv
<1>4. QED
  BY <1>1, <1>2, <1>3 DEF Next

LEMMA Types == Spec => []TypeInv
BY TypeInvInit, TypeInvStep, PTL DEF Spec

\* Every variable keeps its type; in particular the command queue never holds
\* more than CMD_QUEUE_SIZE commands and the offsets are never added more often
\* than the data is published (on_mqtt_message, publish_sensor_data).
THEOREM TypeCorrectness == Spec => []TypeOK
BY Types, TypeInvTypeOK, PTL

-----------------------------------------------------------------------------
(* Delivery proof *)

\* A loopback on its way to the node belongs to a publish of the current wake:
\* the end of a wake empties the connection.  What the session keeps for the
\* node are commands, never a loopback.
DeliveryInv ==
    /\ confirmed => heard
    /\ \A k \in 1 .. Len(down) : down[k].topic = "sensors" => heard
    /\ \A k \in 1 .. Len(backlog) : backlog[k].topic = "command"

LEMMA DeliveryInit == Init => DeliveryInv
BY DEF Init, BrokerInit, DeliveryInv

\* Steps that empty the connection and the RAM, or start a wake.
LEMMA DeliveryReset ==
    ASSUME DeliveryInv, Hangup, RamLost, UNCHANGED sessionVars
    PROVE  DeliveryInv'
BY DEF DeliveryInv, Hangup, RamLost, sessionVars

LEMMA DeliveryReceive ==
    ASSUME TypeInv, DeliveryInv, ReceiveMessage, UNCHANGED <<heard, sessionVars>>
    PROVE  DeliveryInv'
<1>1. down \in Seq(Message) /\ down # <<>> /\ down' = Tail(down)
  BY DEF TypeInv, Data, ReceiveMessage
<1>2. Head(down).topic = "sensors" => heard
  BY <1>1 DEF DeliveryInv
<1>3. confirmed' => heard'
  BY <1>2 DEF DeliveryInv, ReceiveMessage, on_mqtt_message
<1>4. \A k \in 1 .. Len(down') : down'[k] = down[k + 1] /\ k + 1 \in 1 .. Len(down)
  BY <1>1
<1>5. QED
  BY <1>3, <1>4 DEF DeliveryInv, sessionVars

LEMMA DeliveryStep == TypeInv /\ DeliveryInv /\ [Next]_vars => DeliveryInv'
<1> SUFFICES ASSUME TypeInv, DeliveryInv, [Next]_vars PROVE DeliveryInv'
  OBVIOUS
<1>1. CASE Boot
  BY <1>1 DEF DeliveryInv, Boot, ramVars, linkVars, sessionVars
<1>2. CASE SensorInitFails \/ WifiFails \/ MqttFails \/ SyncEnd
  BY <1>2, DeliveryReset DEF SensorInitFails, WifiFails, MqttFails, SyncEnd, enter_deep_sleep
<1>3. CASE Connects
  BY <1>3 DEF DeliveryInv, Connects, Connect, sessionVars
<1>4. CASE ReadAndPublish
  BY <1>4 DEF DeliveryInv, ReadAndPublish, publish_sensor_data, sessionVars
<1>5. CASE ReadInvalid
  BY <1>5 DEF DeliveryInv, ReadInvalid, ramVars, linkVars, sessionVars
<1>6. CASE WindowLoop \/ SyncLoop
  BY <1>6, DeliveryReceive DEF WindowLoop, SyncLoop
<1>7. CASE ProcessCommand
  <2>1. CASE Processed
    BY <2>1 DEF DeliveryInv, Processed, linkVars, sessionVars
  <2>2. CASE reboot_device
    BY <2>2, DeliveryReset DEF reboot_device
  <2>3. QED
    BY <1>7, <2>1, <2>2 DEF ProcessCommand, handle_set_interval,
       handle_set_confirm_uplink, HandleQuery, OtaFails, OtaReboots, FactoryReset
<1>8. CASE Reconnect
  BY <1>8 DEF DeliveryInv, Reconnect, Connect, nodeVars, sessionVars
<1>9. CASE WindowClose
  <2>1. CASE enter_deep_sleep(dc)
    BY <2>1, DeliveryReset DEF enter_deep_sleep
  <2>2. CASE UNCHANGED <<ramVars, linkVars, sessionVars>>
    BY <2>2 DEF DeliveryInv, ramVars, linkVars, sessionVars
  <2>3. QED
    BY <1>9, <2>1, <2>2 DEF WindowClose
<1>10. CASE Resend
  BY <1>10 DEF DeliveryInv, Resend, publish_sensor_data, sessionVars
<1>11. CASE SyncTimeout
  BY <1>11 DEF DeliveryInv, SyncTimeout, ramVars, linkVars, sessionVars
<1>12. CASE CommandSent
  <2>1. PICK c \in Commands : backlog' = Append(backlog, CommandMessage(sent + 1, c))
    BY <1>12 DEF CommandSent, ServerSend
  <2>2. \A k \in 1 .. Len(backlog') : backlog'[k].topic = "command"
    BY <2>1 DEF TypeInv, Data, DeliveryInv, CommandMessage
  <2>3. QED
    BY <1>12, <2>2 DEF DeliveryInv, CommandSent, ServerSend, nodeVars
<1>13. CASE MessageSent
  <2>1. /\ pushed + 1 \in 1 .. Len(backlog)
        /\ down' = Append(down, backlog[pushed + 1])
        /\ UNCHANGED <<backlog, heard, confirmed>>
    BY <1>13 DEF TypeInv, Data, MessageSent, BrokerPush, nodeVars
  <2>2. QED
    BY <2>1 DEF TypeInv, Data, DeliveryInv
<1>14. CASE PacketReceived
  <2>1. UNCHANGED confirmed
    BY <1>14 DEF PacketReceived, nodeVars
  <2>2. CASE ReceiveSubscribe(Head(up))
    BY <2>1, <2>2 DEF DeliveryInv, ReceiveSubscribe
  <2>3. CASE ReceiveSensors(Head(up))
    BY <2>1, <2>3 DEF DeliveryInv, ReceiveSensors
  <2>4. CASE ReceivePuback(Head(up))
    <3>1. CASE UNCHANGED backlog
      BY <2>1, <2>4, <3>1 DEF DeliveryInv, ReceivePuback
    <3>2. CASE backlog # <<>> /\ backlog' = Tail(backlog)
      <4>1. \A k \in 1 .. Len(backlog') : backlog'[k] = backlog[k + 1]
                                          /\ k + 1 \in 1 .. Len(backlog)
        BY <3>2 DEF TypeInv, Data
      <4>2. QED
        BY <2>1, <2>4, <4>1 DEF DeliveryInv, ReceivePuback
    <3>3. QED
      BY <2>4, <3>1, <3>2 DEF ReceivePuback
  <2>5. QED
    BY <1>14, <2>2, <2>3, <2>4 DEF PacketReceived, BrokerReceive
<1>15. CASE ConnectionLost
  BY <1>15 DEF DeliveryInv, ConnectionLost, LinkDrop, Hangup, nodeVars
<1>16. CASE Provision \/ Crash \/ PowerLoss
  BY <1>16, DeliveryReset DEF Provision, Crash, PowerLoss, reboot_device
<1>17. CASE UNCHANGED vars
  BY <1>17 DEF DeliveryInv, vars, nodeVars, brokerVars
<1>18. QED
  BY <1>1, <1>2, <1>3, <1>4, <1>5, <1>6, <1>7, <1>8, <1>9, <1>10, <1>11, <1>12,
     <1>13, <1>14, <1>15, <1>16, <1>17 DEF Next, Setup, Environment

LEMMA Delivery == Spec => []DeliveryInv
BY Types, DeliveryInit, DeliveryStep, PTL DEF Spec

\* The loopback flag proves that the broker received a sensors publish of this
\* wake (on_mqtt_message), whatever is lost, redelivered, reset or reconnected.
THEOREM ConfirmedImpliesDelivered == Spec => []ConfirmedIsDelivered
BY Delivery, PTL DEF DeliveryInv, ConfirmedIsDelivered

\* setup() never sleeps on an undelivered frame before every re-publish is spent.
THEOREM NoSleepOnUndelivered == Spec => SleepsDeliveredOrSpent
<1>1. DeliveryInv /\ [Next]_vars
        => [pc = "sync" /\ pc' = "asleep" => heard \/ resends = SYNC_MAX_RESENDS]_vars
  <2> SUFFICES ASSUME DeliveryInv, [Next]_vars, pc = "sync", pc' = "asleep"
               PROVE  heard \/ resends = SYNC_MAX_RESENDS
    OBVIOUS
  <2>1. SyncEnd
    BY DEF Next, Setup, Environment, Boot, SensorInitFails, WifiFails, MqttFails,
       Connects, ReadAndPublish, ReadInvalid, WindowLoop, ProcessCommand,
       handle_set_interval, handle_set_confirm_uplink, HandleQuery, OtaFails,
       OtaReboots, FactoryReset, Pending, Reconnect, WindowClose, Resend, SyncLoop,
       SyncTimeout, CommandSent, MessageSent, PacketReceived, ConnectionLost,
       Provision, Crash, PowerLoss, nodeVars, vars
  <2>2. QED
    BY <2>1 DEF SyncEnd, DeliveryInv
<1>2. QED
  BY <1>1, Delivery, PTL DEF Spec, SleepsDeliveredOrSpent

-----------------------------------------------------------------------------
(* Attribution of the wakes *)

\* The counters have not wrapped, and attribute each boot at most once.
Attributed(d) == AttributionOf(d) /\ d.boot <= MaxBoots

\* Until a wake connects, and until its read is judged, it is not attributed yet:
\* its boot is still to spare.  Until it goes to sleep it is not confirmed.
AttributionInv ==
    /\ Attributed(dc)
    /\ rtcDiagOk => Attributed(rtcDiag)
    /\ pc \in {"boot", "read"} =>
          dc.wifi_fail + dc.mqtt_fail + dc.sensor_fail < dc.boot
    /\ pc \in {"boot", "read", "window", "process", "sync", "syncwait"} =>
          dc.wifi_fail + dc.mqtt_fail + dc.tx_ok < dc.boot

\* What the attribution reads of the counters.
SameAttribution(d, e) ==
    /\ e.wifi_fail = d.wifi_fail
    /\ e.mqtt_fail = d.mqtt_fail
    /\ e.sensor_fail = d.sensor_fail
    /\ e.tx_ok = d.tx_ok
    /\ e.boot = d.boot
    /\ e.boot_nds = d.boot_nds

LEMMA CountersAreNat ==
    ASSUME NEW d \in Counters
    PROVE  /\ d.miss \in Nat /\ d.boot \in Nat /\ d.boot_nds \in Nat /\ d.tx_ok \in Nat
           /\ d.wifi_fail \in Nat /\ d.mqtt_fail \in Nat /\ d.sensor_fail \in Nat
BY CounterModulusAssumption DEF Counters, Counter

\* Publishing touches none of them.
LEMMA PublishedSame ==
    ASSUME NEW d \in Counters, NEW ok \in BOOLEAN
    PROVE  SameAttribution(d, Published(d, ok)) /\ Published(d, ok).miss = d.miss
BY DEF Counters, SameAttribution, Published, note_publish, next_publish_seq, note_tx_sent

\* A counter that has not reached boot is incremented without wrapping.
LEMMA IncNat ==
    ASSUME MaxBoots < CounterModulus, NEW n \in Nat, n < MaxBoots
    PROVE  Inc(n) = n + 1
BY WakeCycleAssumption, CounterModulusAssumption DEF Inc

LEMMA ZeroAttributed == Attributed(ZeroCounters)
BY WakeCycleAssumption DEF Attributed, AttributionOf, ZeroCounters

LEMMA AttributionInit == Init => AttributionInv
BY ZeroAttributed DEF Init, AttributionInv

\* A boot leaves one boot to spare for this wake to be attributed.
LEMMA BootAttribution ==
    ASSUME MaxBoots < CounterModulus, TypeInv, AttributionInv, Boot
    PROVE  AttributionInv'
<1> DEFINE r == diag_counters_restore
           d == note_boot(r)
<1>1. r \in Counters /\ Attributed(r)
  BY RestoreType, ZeroAttributed DEF TypeInv, AttributionInv, diag_counters_restore
<1>2. r.boot < MaxBoots
  BY DEF Boot
<1>3. /\ d.boot = r.boot + 1 /\ d.boot_nds = r.boot_nds /\ d.tx_ok = r.tx_ok
      /\ d.wifi_fail = r.wifi_fail /\ d.mqtt_fail = r.mqtt_fail
      /\ d.sensor_fail = r.sensor_fail /\ d.miss = r.miss
  <2> HIDE DEF r
  <2>1. r.boot + 1 # CounterModulus
    BY <1>1, <1>2, CountersAreNat, WakeCycleAssumption, CounterModulusAssumption
  <2>2. QED
    BY <1>1, <2>1 DEF Counters, note_boot, Inc
<1>4. d \in Counters
  BY <1>1, CountersType
<1> HIDE DEF r, d
<1>5. note_boot_nds(d).boot_nds = r.boot_nds + 1
  <2>1. r.boot_nds + 1 # CounterModulus
    BY <1>1, <1>2, CountersAreNat, WakeCycleAssumption, CounterModulusAssumption
       DEF Attributed, AttributionOf
  <2>2. QED
    BY <1>3, <1>4, <2>1 DEF Counters, note_boot_nds, Inc
<1>6. /\ note_boot_nds(d).miss = d.miss
      /\ note_boot_nds(d).boot = d.boot
      /\ note_boot_nds(d).tx_ok = d.tx_ok
      /\ note_boot_nds(d).wifi_fail = d.wifi_fail
      /\ note_boot_nds(d).mqtt_fail = d.mqtt_fail
      /\ note_boot_nds(d).sensor_fail = d.sensor_fail
  BY <1>4 DEF Counters, note_boot_nds
<1>7. dc' = d \/ dc' = note_boot_nds(d)
  BY DEF Boot, d, r
<1>8. /\ dc'.boot = r.boot + 1 /\ dc'.boot_nds <= r.boot_nds + 1 /\ dc'.tx_ok = r.tx_ok
      /\ dc'.wifi_fail = r.wifi_fail /\ dc'.mqtt_fail = r.mqtt_fail
      /\ dc'.sensor_fail = r.sensor_fail /\ dc'.miss = r.miss
      /\ dc'.boot_nds \in Nat
  BY <1>1, <1>3, <1>5, <1>6, <1>7, CountersAreNat
<1>9. Attributed(dc')
  BY <1>1, <1>2, <1>8, CountersAreNat, WakeCycleAssumption DEF Attributed, AttributionOf
<1>10. /\ dc'.wifi_fail + dc'.mqtt_fail + dc'.sensor_fail < dc'.boot
       /\ dc'.wifi_fail + dc'.mqtt_fail + dc'.tx_ok < dc'.boot
  BY <1>1, <1>8, CountersAreNat DEF Attributed, AttributionOf
<1>11. UNCHANGED <<rtcDiag, rtcDiagOk>>
  BY DEF Boot, rtcVars
<1>12. QED
  BY <1>9, <1>10, <1>11 DEF AttributionInv, Attributed, AttributionOf

\* A step that leaves the counters alone and does not go back to an earlier phase.
LEMMA AttributionKept ==
    ASSUME AttributionInv, UNCHANGED <<dc, rtcDiag, rtcDiagOk>>,
           pc' \in {"boot", "read"} => pc \in {"boot", "read"},
           pc' \in {"boot", "read", "window", "process", "sync", "syncwait"} =>
               pc \in {"boot", "read", "window", "process", "sync", "syncwait"}
    PROVE  AttributionInv'
BY DEF AttributionInv, Attributed, AttributionOf

\* A publish or a change of the confirm mode during the wake.
LEMMA AttributionSame ==
    ASSUME TypeInv, AttributionInv, SameAttribution(dc, dc'), dc' \in Counters,
           dc'.miss = dc.miss \/ dc'.miss = 0,
           pc \in {"read", "window", "process", "sync"},
           pc' \in {"window", "process", "syncwait"},
           UNCHANGED <<rtcDiag, rtcDiagOk>>
    PROVE  AttributionInv'
<1>1. dc \in Counters
  BY DEF TypeInv, Data
<1>2. Attributed(dc')
  BY <1>1, CountersAreNat DEF AttributionInv, Attributed, AttributionOf, SameAttribution
<1>3. dc'.wifi_fail + dc'.mqtt_fail + dc'.tx_ok < dc'.boot
  BY DEF AttributionInv, SameAttribution
<1>4. QED
  BY <1>2, <1>3 DEF AttributionInv, Attributed, AttributionOf

LEMMA AttributionSleep ==
    ASSUME AttributionInv, NEW d, Attributed(d), enter_deep_sleep(d)
    PROVE  AttributionInv'
BY DEF AttributionInv, Attributed, AttributionOf, enter_deep_sleep, diag_counters_persist

LEMMA AttributionRestart ==
    ASSUME AttributionInv, RtcAfterReset \/ RtcLost, pc' = "off"
    PROVE  AttributionInv'
<1>1. CASE UNCHANGED <<dc, rtcVars>>
  BY <1>1 DEF AttributionInv, Attributed, AttributionOf, rtcVars
<1>2. CASE RtcLost
  BY <1>2, ZeroAttributed DEF AttributionInv, Attributed, AttributionOf, RtcLost
<1>3. QED
  BY <1>1, <1>2 DEF RtcAfterReset

\* A failed connection spends the boot of this wake.
LEMMA FailAttribution ==
    ASSUME MaxBoots < CounterModulus, TypeInv, AttributionInv, WifiFails \/ MqttFails
    PROVE  AttributionInv'
<1>1. dc \in Counters /\ Attributed(dc)
      /\ dc.wifi_fail + dc.mqtt_fail + dc.sensor_fail < dc.boot
      /\ dc.wifi_fail + dc.mqtt_fail + dc.tx_ok < dc.boot
  BY DEF TypeInv, Data, AttributionInv, WifiFails, MqttFails
<1>2. /\ Inc(dc.wifi_fail) = dc.wifi_fail + 1
      /\ Inc(dc.mqtt_fail) = dc.mqtt_fail + 1
      /\ Inc(dc.miss) = dc.miss + 1
  BY <1>1, CountersAreNat, IncNat, WakeCycleAssumption DEF Attributed, AttributionOf
<1>3. Attributed(note_missed_wake(note_wifi_fail(dc)))
  <2>1. note_missed_wake(note_wifi_fail(dc)) =
          [dc EXCEPT !.wifi_fail = dc.wifi_fail + 1, !.miss = dc.miss + 1]
    BY <1>1, <1>2 DEF Counters, note_missed_wake, note_wifi_fail
  <2>2. QED
    BY <1>1, <2>1, CountersAreNat DEF Counters, Attributed, AttributionOf
<1>4. Attributed(note_missed_wake(note_mqtt_fail(dc)))
  <2>1. note_missed_wake(note_mqtt_fail(dc)) =
          [dc EXCEPT !.mqtt_fail = dc.mqtt_fail + 1, !.miss = dc.miss + 1]
    BY <1>1, <1>2 DEF Counters, note_missed_wake, note_mqtt_fail
  <2>2. QED
    BY <1>1, <2>1, CountersAreNat DEF Counters, Attributed, AttributionOf
<1>5. QED
  BY <1>3, <1>4, AttributionSleep DEF WifiFails, MqttFails

LEMMA ReadInvalidAttribution ==
    ASSUME MaxBoots < CounterModulus, TypeInv, AttributionInv, ReadInvalid
    PROVE  AttributionInv'
<1>1. dc \in Counters /\ Attributed(dc)
      /\ dc.wifi_fail + dc.mqtt_fail + dc.sensor_fail < dc.boot
      /\ dc.wifi_fail + dc.mqtt_fail + dc.tx_ok < dc.boot
  BY DEF TypeInv, Data, AttributionInv, ReadInvalid
<1>2. Inc(dc.sensor_fail) = dc.sensor_fail + 1
  BY <1>1, CountersAreNat, IncNat, WakeCycleAssumption DEF Attributed, AttributionOf
<1>3. dc' = [dc EXCEPT !.sensor_fail = dc.sensor_fail + 1, !.miss = 0]
  BY <1>1, <1>2 DEF Counters, ReadInvalid, clear_missed_wakes, note_sensor_fail
<1>4. Attributed(dc') /\ dc'.wifi_fail + dc'.mqtt_fail + dc'.tx_ok < dc'.boot
  BY <1>1, <1>3, CountersAreNat DEF Counters, Attributed, AttributionOf
<1>5. QED
  BY <1>4 DEF ReadInvalid, AttributionInv, Attributed, AttributionOf, rtcVars

\* A confirmed wake is counted once, by the boot still to spare.
LEMMA SyncEndAttribution ==
    ASSUME MaxBoots < CounterModulus, TypeInv, AttributionInv, SyncEnd
    PROVE  AttributionInv'
<1>1. dc \in Counters /\ Attributed(dc)
      /\ dc.wifi_fail + dc.mqtt_fail + dc.tx_ok < dc.boot
  BY DEF TypeInv, Data, AttributionInv, SyncEnd
<1>2. Inc(dc.tx_ok) = dc.tx_ok + 1
  BY <1>1, CountersAreNat, IncNat, WakeCycleAssumption DEF Attributed, AttributionOf
<1>3. Attributed(note_tx_confirmed(dc))
  <2>1. note_tx_confirmed(dc) = [dc EXCEPT !.tx_ok = dc.tx_ok + 1]
    BY <1>2 DEF note_tx_confirmed
  <2>2. QED
    BY <1>1, <2>1, CountersAreNat DEF Counters, Attributed, AttributionOf
<1>4. QED
  BY <1>1, <1>3, AttributionSleep DEF SyncEnd

LEMMA AttributionStep ==
    ASSUME MaxBoots < CounterModulus
    PROVE  TypeInv /\ AttributionInv /\ [Next]_vars => AttributionInv'
<1> SUFFICES ASSUME TypeInv, AttributionInv, [Next]_vars PROVE AttributionInv'
  OBVIOUS
<1>1. CASE Boot
  BY <1>1, BootAttribution
<1>2. CASE SensorInitFails
  BY <1>2, AttributionSleep DEF SensorInitFails, AttributionInv
<1>3. CASE WifiFails \/ MqttFails
  BY <1>3, FailAttribution
<1>4. CASE Connects
  BY <1>4, AttributionKept DEF Connects, rtcVars
<1>5. CASE ReadAndPublish
  <2>1. PICK ok \in BOOLEAN : dc' = clear_missed_wakes(Published(dc, ok))
    BY <1>5 DEF ReadAndPublish
  <2>2. dc' \in Counters
    BY <2>1, PublishedType, CountersType DEF TypeInv, Data
  <2>3. SameAttribution(dc, dc') /\ dc'.miss = 0
    BY <2>1, PublishedSame, PublishedType
       DEF TypeInv, Data, SameAttribution, Counters, clear_missed_wakes
  <2>4. QED
    BY <1>5, <2>2, <2>3, AttributionSame DEF ReadAndPublish, rtcVars
<1>6. CASE ReadInvalid
  BY <1>6, ReadInvalidAttribution
<1>7. CASE WindowLoop
  BY <1>7, AttributionKept DEF WindowLoop, rtcVars
<1>8. CASE ProcessCommand
  <2>1. CASE handle_set_interval \/ HandleQuery \/ OtaFails
    BY <2>1, AttributionKept
       DEF handle_set_interval, HandleQuery, OtaFails, Processed, Pending
  <2>2. CASE handle_set_confirm_uplink
    <3>1. SameAttribution(dc, dc') /\ dc'.miss = dc.miss
      BY <2>2 DEF TypeInv, Data, Counters, handle_set_confirm_uplink,
                  set_confirm_uplink, SameAttribution
    <3>2. dc' \in Counters
      BY <1>8, TypeInvStep DEF TypeInv, Data, Next, Setup
    <3>3. QED
      BY <2>2, <3>1, <3>2, AttributionSame
         DEF handle_set_confirm_uplink, Processed, Pending
  <2>3. CASE OtaReboots \/ FactoryReset
    BY <2>3, AttributionRestart DEF OtaReboots, FactoryReset, reboot_device
  <2>4. QED
    BY <1>8, <2>1, <2>2, <2>3 DEF ProcessCommand
<1>9. CASE Reconnect
  BY <1>9, AttributionKept DEF Reconnect, nodeVars
<1>10. CASE WindowClose
  <2>1. CASE enter_deep_sleep(dc)
    BY <2>1, AttributionSleep DEF AttributionInv
  <2>2. CASE pc' = "sync" /\ UNCHANGED <<dc, rtcVars>>
    BY <1>10, <2>2, AttributionKept DEF WindowClose, rtcVars
  <2>3. QED
    BY <1>10, <2>1, <2>2 DEF WindowClose
<1>11. CASE Resend
  <2>1. PICK ok \in BOOLEAN : dc' = Published(dc, ok)
    BY <1>11 DEF Resend
  <2>2. QED
    BY <1>11, <2>1, PublishedSame, PublishedType, AttributionSame
       DEF TypeInv, Data, Resend, rtcVars
<1>12. CASE SyncLoop \/ SyncTimeout
  BY <1>12, AttributionKept DEF SyncLoop, SyncTimeout, rtcVars
<1>13. CASE SyncEnd
  BY <1>13, SyncEndAttribution
<1>14. CASE Environment
  BY <1>14, AttributionKept, AttributionRestart
     DEF Environment, CommandSent, MessageSent, PacketReceived, ConnectionLost,
         Provision, Crash, PowerLoss, reboot_device, nodeVars
<1>15. CASE UNCHANGED vars
  BY <1>15, AttributionKept DEF vars, nodeVars
<1>16. QED
  BY <1>1, <1>2, <1>3, <1>4, <1>5, <1>6, <1>7, <1>8, <1>9, <1>10, <1>11, <1>12,
     <1>13, <1>14, <1>15 DEF Next, Setup

\* As long as the uint32_t boot counter has not wrapped, no wake is attributed
\* twice: the wake-path counters of diagnostics.h partition the boots, on either
\* platform, through any mixture of sleeps, resets and power losses.
THEOREM WakesAttributedOnce ==
    ASSUME MaxBoots < CounterModulus
    PROVE  Spec => []CounterAttribution
<1>1. AttributionInv => CounterAttribution
  BY DEF AttributionInv, Attributed, CounterAttribution
<1>2. TypeInv /\ AttributionInv /\ [Next]_vars => AttributionInv'
  BY AttributionStep
<1>3. QED
  BY <1>1, <1>2, Types, AttributionInit, PTL DEF Spec

-----------------------------------------------------------------------------
(* What is confirmed was counted *)

\* A sensors publish of this wake has reached the broker, or is on its way there.
Underway == heard \/ \E k \in 1 .. Len(up) : up[k].type = "sensors"

ConfirmedWithin(d) == d.tx_ok <= d.tx_sent

\* One attempt is to spare for the confirmation of this wake once it has published.
SentInv ==
    /\ ConfirmedWithin(dc)
    /\ ConfirmedWithin(rtcDiag)
    /\ Underway => pc \in {"window", "process", "sync", "syncwait"} /\ dc.tx_ok < dc.tx_sent

SameSent(d, e) == e.tx_ok = d.tx_ok /\ e.tx_sent = d.tx_sent

LEMMA SentInit == Init => SentInv
BY DEF Init, BrokerInit, ZeroCounters, SentInv, ConfirmedWithin, Underway

\* A step of the wake that counts no publish and sends none.
LEMMA SentKept ==
    ASSUME SentInv, SameSent(dc, dc'), UNCHANGED rtcDiag, Underway' => Underway,
           pc \in {"window", "process", "sync", "syncwait"} =>
               pc' \in {"window", "process", "sync", "syncwait"}
    PROVE  SentInv'
BY DEF SentInv, ConfirmedWithin, SameSent

\* The end of a wake empties the connection.
LEMMA QuietAfterHangup ==
    ASSUME Hangup, RamLost
    PROVE  ~Underway'
BY DEF Hangup, RamLost, Underway

LEMMA SentSleep ==
    ASSUME SentInv, NEW d, ConfirmedWithin(d), enter_deep_sleep(d)
    PROVE  SentInv'
<1>1. ~Underway'
  BY QuietAfterHangup DEF enter_deep_sleep
<1>2. QED
  BY <1>1 DEF SentInv, enter_deep_sleep, diag_counters_persist

LEMMA SentRestart ==
    ASSUME SentInv, RtcAfterReset \/ RtcLost, Hangup, RamLost
    PROVE  SentInv'
<1>1. ~Underway'
  BY QuietAfterHangup
<1>2. CASE UNCHANGED <<dc, rtcVars>>
  BY <1>1, <1>2 DEF SentInv, ConfirmedWithin, rtcVars
<1>3. CASE RtcLost
  BY <1>1, <1>3 DEF SentInv, ConfirmedWithin, RtcLost, ZeroCounters
<1>4. QED
  BY <1>2, <1>3 DEF RtcAfterReset

LEMMA SentBoot ==
    ASSUME TypeInv, SentInv, Boot
    PROVE  SentInv'
<1> DEFINE r == diag_counters_restore
<1>1. r \in Counters
  BY RestoreType DEF TypeInv, Data
<1>2. ConfirmedWithin(r)
  BY DEF SentInv, ConfirmedWithin, ZeroCounters, diag_counters_restore
<1>3. dc' = note_boot(r) \/ dc' = note_boot_nds(note_boot(r))
  BY DEF Boot
<1> HIDE DEF r
<1>4. SameSent(r, dc')
  BY <1>1, <1>3 DEF SameSent, Counters, note_boot, note_boot_nds
<1>5. ~Underway /\ Underway' = Underway /\ UNCHANGED rtcDiag
  BY DEF SentInv, Boot, Underway, ramVars, rtcVars, linkVars
<1>6. QED
  BY <1>2, <1>4, <1>5 DEF SentInv, ConfirmedWithin, SameSent

\* publish_sensor_data() of a sync build counts one attempt.
LEMMA PublishCounts ==
    ASSUME SyncBeforeSleep, NEW d \in Counters, NEW ok \in BOOLEAN,
           d.tx_sent + 1 < CounterModulus
    PROVE  /\ Published(d, ok).tx_ok = d.tx_ok
           /\ Published(d, ok).tx_sent = d.tx_sent + 1
BY CounterModulusAssumption
   DEF Counters, Counter, Published, sync_publish_on, note_publish, next_publish_seq,
       note_tx_sent, Inc

LEMMA SentPublish ==
    ASSUME TypeInv, SentInv, dc'.tx_ok = dc.tx_ok, dc'.tx_sent = dc.tx_sent + 1,
           UNCHANGED rtcDiag, pc' \in {"window", "syncwait"}
    PROVE  SentInv'
<1>1. dc.tx_ok \in Nat /\ dc.tx_sent \in Nat
  BY CounterModulusAssumption DEF TypeInv, Data, Counters, Counter
<1>2. QED
  BY <1>1 DEF SentInv, ConfirmedWithin

\* The broker's side of the connection, and the node's reading of it.
LEMMA SentReceive ==
    ASSUME TypeInv, SentInv, ReceiveMessage, UNCHANGED heard
    PROVE  Underway' => Underway
<1>1. up \in Seq(Packet)
  BY DEF TypeInv, Data
<1>2. up' = up \/ up' = Append(up, Puback(Head(down).id))
  BY DEF ReceiveMessage
<1>3. QED
  BY <1>1, <1>2 DEF Underway, Puback

LEMMA SentBroker ==
    ASSUME TypeInv, SentInv, PacketReceived
    PROVE  Underway' => Underway
<1>1. up \in Seq(Packet) /\ up # <<>> /\ up' = Tail(up)
  BY DEF TypeInv, Data, PacketReceived, BrokerReceive
<1>2. \A k \in 1 .. Len(up') : up'[k] = up[k + 1] /\ k + 1 \in 1 .. Len(up)
  BY <1>1
<1>3. 1 \in 1 .. Len(up) /\ Head(up) = up[1]
  BY <1>1
<1>4. heard' => heard \/ Head(up).type = "sensors"
  BY DEF PacketReceived, BrokerReceive, ReceiveSubscribe, ReceiveSensors, ReceivePuback
<1>5. QED
  BY <1>2, <1>3, <1>4 DEF Underway

\* A confirmation proves a delivery of this wake, and that was counted before.
LEMMA SentEnd ==
    ASSUME TypeInv, DeliveryInv, SentInv, SyncEnd
    PROVE  SentInv'
<1>1. CASE ~confirmed
  BY <1>1, SentSleep DEF SyncEnd, SentInv
<1>2. CASE confirmed
  <2> dc \in Counters
    BY DEF TypeInv, Data
  <2>1. dc.tx_ok \in Nat /\ dc.tx_sent \in Nat /\ dc.tx_sent < CounterModulus
    BY CounterModulusAssumption DEF Counters, Counter
  <2>2. dc.tx_ok < dc.tx_sent
    BY <1>2 DEF DeliveryInv, SentInv, Underway
  <2>3. note_tx_confirmed(dc).tx_ok = dc.tx_ok + 1
        /\ note_tx_confirmed(dc).tx_sent = dc.tx_sent
    BY <2>1, <2>2, CounterModulusAssumption
       DEF Counters, note_tx_confirmed, Inc
  <2>4. ConfirmedWithin(note_tx_confirmed(dc))
    BY <2>1, <2>2, <2>3 DEF ConfirmedWithin
  <2>5. QED
    BY <1>2, <2>4, SentSleep DEF SyncEnd
<1>3. QED
  BY <1>1, <1>2

LEMMA SentStep ==
    ASSUME SyncBeforeSleep
    PROVE  TypeInv /\ DeliveryInv /\ SentInv /\ dc.tx_sent + 1 < CounterModulus
             /\ [Next]_vars => SentInv'
<1> SUFFICES ASSUME TypeInv, DeliveryInv, SentInv, dc.tx_sent + 1 < CounterModulus,
                    [Next]_vars
             PROVE  SentInv'
  OBVIOUS
<1> dc \in Counters
  BY DEF TypeInv, Data
<1>1. CASE Boot
  BY <1>1, SentBoot
<1>2. CASE SensorInitFails
  BY <1>2, SentSleep DEF SensorInitFails, SentInv
<1>3. CASE WifiFails \/ MqttFails
  <2>1. /\ ConfirmedWithin(note_missed_wake(note_wifi_fail(dc)))
        /\ ConfirmedWithin(note_missed_wake(note_mqtt_fail(dc)))
    BY DEF SentInv, ConfirmedWithin, Counters, note_missed_wake, note_wifi_fail,
           note_mqtt_fail
  <2>2. QED
    BY <1>3, <2>1, SentSleep DEF WifiFails, MqttFails
<1>4. CASE Connects
  <2>1. ~Underway /\ UNCHANGED <<dc, rtcDiag>>
    BY <1>4 DEF SentInv, Connects, rtcVars
  <2>2. ~Underway'
    BY <1>4, <2>1 DEF Connects, Connect, Underway, Subscribe
  <2>3. QED
    BY <2>1, <2>2 DEF SentInv, ConfirmedWithin
<1>5. CASE ReadAndPublish
  <2>1. PICK ok \in BOOLEAN : dc' = clear_missed_wakes(Published(dc, ok))
    BY <1>5 DEF ReadAndPublish
  <2>2. Published(dc, ok) \in Counters
    BY PublishedType
  <2>3. dc'.tx_ok = dc.tx_ok /\ dc'.tx_sent = dc.tx_sent + 1
    BY <2>1, <2>2, PublishCounts DEF Counters, clear_missed_wakes
  <2>4. QED
    BY <1>5, <2>3, SentPublish DEF ReadAndPublish, rtcVars
<1>6. CASE ReadInvalid
  <2>1. SameSent(dc, dc')
    BY <1>6 DEF ReadInvalid, SameSent, Counters, clear_missed_wakes, note_sensor_fail
  <2>2. QED
    BY <1>6, <2>1, SentKept DEF ReadInvalid, Underway, rtcVars, ramVars, linkVars
<1>7. CASE WindowLoop \/ SyncLoop
  <2>1. Underway' => Underway
    BY <1>7, SentReceive DEF WindowLoop, SyncLoop
  <2>2. QED
    BY <1>7, <2>1, SentKept DEF WindowLoop, SyncLoop, SameSent, rtcVars
<1>8. CASE ProcessCommand
  <2>1. CASE Processed /\ SameSent(dc, dc')
    BY <2>1, SentKept DEF Processed, Underway, linkVars
  <2>2. CASE reboot_device /\ (RtcAfterReset \/ RtcLost)
    BY <2>2, SentRestart DEF reboot_device
  <2>3. CASE handle_set_confirm_uplink
    <3>1. SameSent(dc, dc')
      BY <2>3 DEF handle_set_confirm_uplink, set_confirm_uplink, SameSent, Counters
    <3>2. QED
      BY <2>1, <2>3, <3>1 DEF handle_set_confirm_uplink
  <2>4. CASE handle_set_interval \/ HandleQuery \/ OtaFails
    BY <2>1, <2>4 DEF handle_set_interval, HandleQuery, OtaFails, SameSent
  <2>5. QED
    BY <1>8, <2>2, <2>3, <2>4 DEF ProcessCommand, OtaReboots, FactoryReset
<1>9. CASE Reconnect
  <2>1. Underway' => Underway
    BY <1>9 DEF Reconnect, Connect, Underway, Subscribe
  <2>2. QED
    BY <1>9, <2>1, SentKept DEF Reconnect, nodeVars, SameSent
<1>10. CASE WindowClose
  <2>1. CASE enter_deep_sleep(dc)
    BY <2>1, SentSleep DEF SentInv
  <2>2. CASE pc' = "sync" /\ UNCHANGED <<dc, rtcVars, ramVars, linkVars>>
    BY <2>2, SentKept DEF SameSent, Underway, rtcVars, ramVars, linkVars
  <2>3. QED
    BY <1>10, <2>1, <2>2 DEF WindowClose
<1>11. CASE Resend
  <2>1. PICK ok \in BOOLEAN : dc' = Published(dc, ok)
    BY <1>11 DEF Resend
  <2>2. dc'.tx_ok = dc.tx_ok /\ dc'.tx_sent = dc.tx_sent + 1
    BY <2>1, PublishCounts
  <2>3. QED
    BY <1>11, <2>2, SentPublish DEF Resend, rtcVars
<1>12. CASE SyncTimeout
  BY <1>12, SentKept DEF SyncTimeout, SameSent, Underway, rtcVars, ramVars, linkVars
<1>13. CASE SyncEnd
  BY <1>13, SentEnd
<1>14. CASE CommandSent \/ MessageSent \/ ConnectionLost
  <2>1. Underway' => Underway
    BY <1>14 DEF CommandSent, MessageSent, ConnectionLost, ServerSend, BrokerPush,
                 LinkDrop, Hangup, Underway
  <2>2. QED
    BY <1>14, <2>1, SentKept DEF CommandSent, MessageSent, ConnectionLost, nodeVars, SameSent
<1>15. CASE PacketReceived
  BY <1>15, SentBroker, SentKept DEF PacketReceived, nodeVars, SameSent
<1>16. CASE Provision \/ Crash \/ PowerLoss
  BY <1>16, SentRestart DEF Provision, Crash, PowerLoss, reboot_device
<1>17. CASE UNCHANGED vars
  BY <1>17, SentKept DEF vars, nodeVars, brokerVars, SameSent, Underway
<1>18. QED
  BY <1>1, <1>2, <1>3, <1>4, <1>5, <1>6, <1>7, <1>8, <1>9, <1>10, <1>11, <1>12, <1>13,
     <1>14, <1>15, <1>16, <1>17 DEF Next, Setup, Environment

\* A sync build never counts more confirmed publishes than attempts (txok and txsent of
\* publish_sensor_data() and setup()), as long as the uint32_t counter of the attempts
\* has not wrapped.  A build that switches the mode on by a command may: see README.
THEOREM ConfirmedWithinSent ==
    ASSUME SyncBeforeSleep
    PROVE  Spec /\ [](dc.tx_sent + 1 < CounterModulus) => []TxOkWithinTxSent
<1>1. TypeInv /\ DeliveryInv /\ SentInv /\ dc.tx_sent + 1 < CounterModulus
        /\ [Next]_vars => SentInv'
  BY SentStep
<1>2. SentInv => TxOkWithinTxSent
  BY DEF SentInv, ConfirmedWithin, TxOkWithinTxSent
<1>3. QED
  BY <1>1, <1>2, SentInit, Types, Delivery, PTL DEF Spec

-----------------------------------------------------------------------------
(* What a node goes to sleep with *)

AwakePhases == {"boot", "read", "window", "process", "sync", "syncwait"}

\* A wake works with the interval that RTC memory holds, or with the default, and the
\* next boot is told by the timer and finds the counters where it looks for them.
SleepInv ==
    /\ pc \in AwakePhases \cup {"asleep"} =>
          /\ provisioned
          /\ interval = IF rtcInterval # 0 THEN rtcInterval ELSE DefaultInterval
    /\ pc = "asleep" => cause = "timer" /\ (Esp8266 => rtcDiagOk /\ rtcDiag = dc)

LEMMA SleepInit == Init => SleepInv
BY DEF Init, SleepInv, AwakePhases

LEMMA FallsAsleep ==
    ASSUME SleepInv, NEW d, enter_deep_sleep(d), pc \in AwakePhases
    PROVE  SleepInv'
BY DEF SleepInv, enter_deep_sleep, diag_counters_persist

LEMMA StaysAwake ==
    ASSUME SleepInv, UNCHANGED <<provisioned, interval, rtcInterval>>,
           pc' \in AwakePhases => pc \in AwakePhases, pc' # "asleep"
    PROVE  SleepInv'
BY DEF SleepInv

\* The broker's side, and a connection that comes and goes.
LEMMA NodeUntouched ==
    ASSUME SleepInv, UNCHANGED nodeVars
    PROVE  SleepInv'
BY DEF SleepInv, nodeVars

LEMMA SleepStep == TypeInv /\ SleepInv /\ [Next]_vars => SleepInv'
<1> SUFFICES ASSUME TypeInv, SleepInv, [Next]_vars PROVE SleepInv'
  OBVIOUS
<1>1. CASE Boot
  <2>1. pc' # "asleep" /\ (pc' \in AwakePhases => provisioned)
    BY <1>1 DEF Boot, AwakePhases
  <2>2. QED
    BY <1>1, <2>1 DEF Boot, SleepInv, rtcVars
<1>2. CASE SensorInitFails \/ WifiFails \/ MqttFails \/ SyncEnd
  BY <1>2, FallsAsleep DEF SensorInitFails, WifiFails, MqttFails, SyncEnd, AwakePhases
<1>3. CASE Connects \/ ReadAndPublish \/ ReadInvalid \/ WindowLoop \/ Resend \/ SyncLoop
           \/ SyncTimeout
  BY <1>3, StaysAwake
     DEF Connects, ReadAndPublish, ReadInvalid, WindowLoop, Resend, SyncLoop, SyncTimeout,
         rtcVars, AwakePhases
<1>4. CASE ProcessCommand
  <2>1. CASE handle_set_confirm_uplink \/ HandleQuery \/ OtaFails
    BY <2>1, StaysAwake
       DEF handle_set_confirm_uplink, HandleQuery, OtaFails, Processed, Pending, AwakePhases
  <2>2. CASE handle_set_interval
    <3>1. pc = "process" /\ pc' \in {"window", "process"} /\ UNCHANGED provisioned
      BY <2>2 DEF handle_set_interval, Processed, Pending
    <3>2. CASE UNCHANGED <<interval, rtcInterval>>
      BY <3>1, <3>2, StaysAwake DEF AwakePhases
    <3>3. CASE /\ parse_command_value(Head(cmdq).cmd.value)
               /\ interval' = Head(cmdq).cmd.value
               /\ rtcInterval' = Head(cmdq).cmd.value
      <4>1. Head(cmdq).cmd.value # 0
        BY <3>3, WakeCycleAssumption DEF parse_command_value
      <4>2. QED
        BY <3>1, <3>3, <4>1 DEF SleepInv, AwakePhases
    <3>4. QED
      BY <2>2, <3>2, <3>3 DEF handle_set_interval
  <2>3. CASE OtaReboots \/ FactoryReset
    BY <2>3 DEF OtaReboots, FactoryReset, reboot_device, SleepInv, AwakePhases
  <2>4. QED
    BY <1>4, <2>1, <2>2, <2>3 DEF ProcessCommand
<1>5. CASE WindowClose
  <2>1. pc \in AwakePhases
    BY <1>5 DEF WindowClose, AwakePhases
  <2>2. CASE enter_deep_sleep(dc)
    BY <2>1, <2>2, FallsAsleep
  <2>3. CASE pc' = "sync" /\ UNCHANGED <<rtcVars, interval, provisioned>>
    BY <2>1, <2>3, StaysAwake DEF rtcVars
  <2>4. QED
    BY <1>5, <2>2, <2>3 DEF WindowClose
<1>6. CASE Reconnect \/ CommandSent \/ MessageSent \/ PacketReceived \/ ConnectionLost
  BY <1>6, NodeUntouched DEF Reconnect, CommandSent, MessageSent, PacketReceived, ConnectionLost
<1>7. CASE Provision \/ Crash \/ PowerLoss
  BY <1>7 DEF Provision, Crash, PowerLoss, reboot_device, SleepInv, AwakePhases
<1>8. CASE UNCHANGED vars
  BY <1>8, NodeUntouched DEF vars
<1>9. QED
  BY <1>1, <1>2, <1>3, <1>4, <1>5, <1>6, <1>7, <1>8 DEF Next, Setup, Environment

\* A sleeping node wakes by its timer, or loses its power.
LEMMA WakesByBoot ==
    ASSUME [Next]_vars, pc = "asleep", pc' \notin {"off", "asleep"}
    PROVE  Boot
BY DEF Next, Setup, Environment, SensorInitFails, WifiFails, MqttFails,
   Connects, ReadAndPublish, ReadInvalid, WindowLoop, ProcessCommand,
   handle_set_interval, handle_set_confirm_uplink, HandleQuery, OtaFails,
   OtaReboots, FactoryReset, Pending, Reconnect, WindowClose, Resend, SyncLoop,
   SyncTimeout, SyncEnd, CommandSent, MessageSent, PacketReceived, ConnectionLost,
   Provision, Crash, PowerLoss, Awake, nodeVars, vars

LEMMA SleepKept == Spec => []SleepInv
BY Types, SleepInit, SleepStep, PTL DEF Spec

\* enter_deep_sleep() and setup(): on either platform a wake starts from the counters
\* the previous one slept with, whichever way into deep sleep it took.
THEOREM CountersSurviveSleep == Spec => WakeKeepsCounters
<1>1. SleepInv /\ [Next]_vars
        => (pc = "asleep" /\ pc' \notin {"off", "asleep"} => dc' = note_boot(dc))
  <2> SUFFICES ASSUME SleepInv, [Next]_vars, pc = "asleep", pc' \notin {"off", "asleep"}
               PROVE  dc' = note_boot(dc)
    OBVIOUS
  <2>1. Boot
    BY WakesByBoot
  <2>2. diag_counters_restore = dc /\ cause = "timer"
    BY DEF SleepInv, diag_counters_restore
  <2>3. QED
    BY <2>1, <2>2 DEF Boot
<1>2. QED
  BY <1>1, SleepKept, PTL DEF Spec, WakeKeepsCounters

\* handle_set_interval() and setup(): a wake has the interval the previous one slept
\* with, on either platform and for any sequence of commands.
THEOREM IntervalSurvivesSleep == Spec => WakeKeepsInterval
<1>1. SleepInv /\ [Next]_vars
        => (pc = "asleep" /\ pc' \notin {"off", "asleep"} => interval' = interval)
  <2> SUFFICES ASSUME SleepInv, [Next]_vars, pc = "asleep", pc' \notin {"off", "asleep"}
               PROVE  interval' = interval
    OBVIOUS
  <2>1. Boot
    BY WakesByBoot
  <2>2. provisioned /\ interval = IF rtcInterval # 0 THEN rtcInterval ELSE DefaultInterval
    BY DEF SleepInv
  <2>3. QED
    BY <2>1, <2>2 DEF Boot
<1>2. QED
  BY <1>1, SleepKept, PTL DEF Spec, WakeKeepsInterval

-----------------------------------------------------------------------------
(* No command is lost by a plain build *)

\* A build without SYNC_BEFORE_SLEEP whose server leaves the confirm mode alone,
\* and a node that is not reset.
PlainBuild ==
    /\ ~SyncBeforeSleep
    /\ Faults \subseteq {"link"}
    /\ \A c \in Commands : c.action # "set_confirm_uplink"

\* What is acknowledged is queued or carried out, what is queued is carried out
\* before the RAM is lost, and the wait that does not process commands never runs.
ServiceInv ==
    /\ NoCommandLost
    /\ pc \notin {"sync", "syncwait"}
    /\ ~dc.confirm /\ ~rtcDiag.confirm
    /\ pc # "process" => cmdq = <<>>
    /\ Len(cmdq) <= 1
    /\ \A k \in 1 .. Len(backlog) : backlog[k].topic = "command" /\ backlog[k].cmd \in Commands
    /\ \A k \in 1 .. Len(down) : down[k].topic = "command" => down[k].cmd \in Commands
    /\ \A k \in 1 .. Len(cmdq) : cmdq[k].cmd \in Commands
    /\ \A k \in 1 .. Len(up) :
          up[k].type = "puback" => up[k].arg \in done \/ Holds(cmdq, up[k].arg)

LEMMA ServiceInit == Init => ServiceInv
BY DEF Init, BrokerInit, ServiceInv, NoCommandLost, ZeroCounters

\* The RAM and the connection are lost when nothing waits in the queue, or only
\* the command that is just being carried out.
LEMMA ServiceReset ==
    ASSUME TypeInv, ServiceInv, Hangup, RamLost, UNCHANGED sessionVars,
           pc' \in {"off", "asleep"}, ~dc'.confirm, ~rtcDiag'.confirm,
           \/ done' = done /\ cmdq = <<>>
           \/ done' = done \cup {Head(cmdq).id} /\ cmdq # <<>>
    PROVE  ServiceInv'
<1>1. \A i : Holds(cmdq, i) => i \in done'
  BY DEF TypeInv, Data, ServiceInv, Holds
<1>2. NoCommandLost'
  BY <1>1 DEF ServiceInv, NoCommandLost, Holds, RamLost, sessionVars
<1>3. QED
  BY <1>2 DEF ServiceInv, Hangup, RamLost, sessionVars

\* The confirm mode stays off.
LEMMA ConfirmOff ==
    ASSUME NEW d \in Counters, ~d.confirm
    PROVE  /\ ~note_missed_wake(d).confirm
           /\ ~clear_missed_wakes(d).confirm
           /\ ~note_boot(d).confirm
           /\ ~note_boot_nds(d).confirm
           /\ ~note_wifi_fail(d).confirm
           /\ ~note_mqtt_fail(d).confirm
           /\ ~note_sensor_fail(d).confirm
           /\ \A ok \in BOOLEAN : ~Published(d, ok).confirm
BY DEF Counters, note_missed_wake, clear_missed_wakes, note_boot, note_boot_nds,
       note_wifi_fail, note_mqtt_fail, note_sensor_fail, Published, note_publish,
       next_publish_seq, note_tx_sent

\* A step that touches neither the queue nor what is in flight nor the session,
\* but may append packets other than acknowledgements.
LEMMA ServiceKept ==
    ASSUME ServiceInv, UNCHANGED <<cmdq, done, sessionVars, down>>,
           pc' \in Phases \ {"process", "sync", "syncwait"}, pc # "process",
           ~dc'.confirm, ~rtcDiag'.confirm,
           \A k \in 1 .. Len(up') :
              up'[k].type = "puback" => \E j \in 1 .. Len(up) : up[j] = up'[k]
    PROVE  ServiceInv'
BY DEF ServiceInv, NoCommandLost, Holds, sessionVars

LEMMA ServiceSleep ==
    ASSUME TypeInv, ServiceInv, NEW d \in Counters, ~d.confirm,
           enter_deep_sleep(d), cmdq = <<>>
    PROVE  ServiceInv'
<1>1. ~dc'.confirm /\ ~rtcDiag'.confirm
  BY DEF ServiceInv, enter_deep_sleep, diag_counters_persist
<1>2. QED
  BY <1>1, ServiceReset DEF enter_deep_sleep

\* Setup up to the window.
LEMMA ServiceSetup ==
    ASSUME PlainBuild, TypeInv, ServiceInv,
           \/ Boot \/ SensorInitFails \/ WifiFails \/ MqttFails \/ Connects
           \/ ReadAndPublish \/ ReadInvalid
    PROVE  ServiceInv'
<1>1. dc \in Counters /\ ~dc.confirm /\ ~rtcDiag.confirm
  BY DEF TypeInv, Data, ServiceInv
<1>2. CASE Boot
  <2>1. diag_counters_restore \in Counters /\ ~diag_counters_restore.confirm
    BY <1>1, RestoreType DEF TypeInv, diag_counters_restore, ZeroCounters
  <2>2. ~dc'.confirm
    BY <1>2, <2>1, ConfirmOff, CountersType DEF Boot
  <2>3. QED
    BY <1>1, <1>2, <2>2, ServiceKept DEF Boot, Phases, rtcVars, ramVars, linkVars
<1>3. CASE SensorInitFails \/ WifiFails \/ MqttFails
  <2>1. cmdq = <<>>
    BY <1>3 DEF ServiceInv, SensorInitFails, WifiFails, MqttFails
  <2>2. QED
    BY <1>1, <1>3, <2>1, ServiceSleep, ConfirmOff, CountersType
       DEF SensorInitFails, WifiFails, MqttFails
<1>4. CASE Connects
  <2>1. ~sync_publish_on(dc)
    BY <1>1 DEF PlainBuild, sync_publish_on
  <2>2. up' = <<Subscribe("command")>> /\ down' = <<>>
    BY <1>4, <2>1 DEF Connects, Connect
  <2>3. QED
    BY <1>1, <1>4, <2>2
       DEF ServiceInv, NoCommandLost, Holds, Connects, Subscribe, rtcVars, sessionVars
<1>5. CASE ReadAndPublish
  <2>1. PICK ok \in BOOLEAN :
          publish_sensor_data(0, ok) /\ dc' = clear_missed_wakes(Published(dc, ok))
    BY <1>5 DEF ReadAndPublish
  <2>2. ~dc'.confirm
    BY <1>1, <2>1, ConfirmOff, PublishedType
  <2>3. \A k \in 1 .. Len(up') :
          up'[k].type = "puback" => \E j \in 1 .. Len(up) : up[j] = up'[k]
    BY <2>1 DEF TypeInv, Data, publish_sensor_data, Publish, Sensors
  <2>4. QED
    BY <1>1, <1>5, <2>2, <2>3, ServiceKept DEF ReadAndPublish, Phases, rtcVars
<1>6. CASE ReadInvalid
  <2>1. ~dc'.confirm
    BY <1>1, <1>6, ConfirmOff, CountersType DEF ReadInvalid
  <2>2. QED
    BY <1>1, <1>6, <2>1, ServiceKept DEF ReadInvalid, Phases, rtcVars, ramVars, linkVars
<1>7. QED
  BY <1>2, <1>3, <1>4, <1>5, <1>6

\* The window takes a command into the empty queue and acknowledges it.
LEMMA ServiceWindow ==
    ASSUME TypeInv, ServiceInv, WindowLoop
    PROVE  ServiceInv'
<1> DEFINE m == Head(down)
<1>1. down \in Seq(Message) /\ down # <<>> /\ m \in Message /\ up \in Seq(Packet)
  BY DEF TypeInv, Data, WindowLoop, ReceiveMessage
<1>2. /\ cmdq = <<>>
      /\ down' = Tail(down)
      /\ UNCHANGED <<dc, rtcDiag, done, sessionVars>>
  BY DEF ServiceInv, WindowLoop, ReceiveMessage, rtcVars
<1>3. cmdq' = IF m.topic = "command" THEN <<m>> ELSE <<>>
  BY <1>2, WakeCycleAssumption DEF WindowLoop, ReceiveMessage, on_mqtt_message
<1>4. up' = IF m.topic = "command" THEN Append(up, Puback(m.id)) ELSE up
  BY DEF WindowLoop, ReceiveMessage
<1>5. m.topic = "command" => m.cmd \in Commands
  BY <1>1 DEF ServiceInv
<1>6. m.topic = "command" => Holds(cmdq', m.id)
  BY <1>3 DEF Holds
<1> HIDE DEF m
<1>7. \A k \in 1 .. Len(up') :
        up'[k].type = "puback" => up'[k].arg \in done' \/ Holds(cmdq', up'[k].arg)
  BY <1>1, <1>2, <1>4, <1>6 DEF ServiceInv, Holds, Puback
<1>8. \A k \in 1 .. Len(down') : down'[k].topic = "command" => down'[k].cmd \in Commands
  BY <1>1, <1>2 DEF ServiceInv
<1>9. NoCommandLost'
  BY <1>2 DEF ServiceInv, NoCommandLost, Holds, sessionVars
<1>10. Len(cmdq') <= 1 /\ \A k \in 1 .. Len(cmdq') : cmdq'[k].cmd \in Commands
  BY <1>3, <1>5
<1>11. pc' \notin {"sync", "syncwait"} /\ (pc' # "process" => cmdq' = <<>>)
  BY DEF WindowLoop
<1>12. QED
  BY <1>2, <1>7, <1>8, <1>9, <1>10, <1>11 DEF ServiceInv, sessionVars

\* A processed command is done.
LEMMA ServiceProcess ==
    ASSUME PlainBuild, TypeInv, ServiceInv, ProcessCommand
    PROVE  ServiceInv'
<1>1. /\ pc = "process" /\ cmdq # <<>> /\ cmdq \in Seq(Message)
      /\ Head(cmdq).cmd.action # "set_confirm_uplink"
  BY DEF ProcessCommand, handle_set_interval, handle_set_confirm_uplink, HandleQuery,
         OtaFails, OtaReboots, FactoryReset, Pending, TypeInv, Data, PlainBuild, ServiceInv
<1>2. Tail(cmdq) = <<>> /\ \A i : Holds(cmdq, i) => i = Head(cmdq).id
  BY <1>1 DEF ServiceInv, Holds
<1>3. CASE Processed /\ dc' = dc
  <2>1. cmdq' = <<>> /\ pc' = "window" /\ done' = done \cup {Head(cmdq).id}
    BY <1>2, <1>3 DEF Processed
  <2>2. QED
    BY <1>2, <1>3, <2>1
       DEF ServiceInv, NoCommandLost, Holds, Processed, linkVars, sessionVars
<1>4. CASE OtaReboots \/ FactoryReset
  <2>1. ~dc'.confirm /\ ~rtcDiag'.confirm
    BY <1>4 DEF ServiceInv, OtaReboots, FactoryReset, RtcAfterReset, RtcLost, ZeroCounters,
                rtcVars
  <2>2. QED
    BY <1>1, <1>4, <2>1, ServiceReset DEF OtaReboots, FactoryReset, reboot_device
<1>5. QED
  BY <1>1, <1>3, <1>4 DEF ProcessCommand, handle_set_interval,
     handle_set_confirm_uplink, HandleQuery, OtaFails, Pending

LEMMA ServiceBroker ==
    ASSUME TypeInv, ServiceInv, CommandSent \/ MessageSent \/ PacketReceived
    PROVE  ServiceInv'
<1>1. UNCHANGED <<pc, dc, rtcDiag, cmdq, done>>
  BY DEF CommandSent, MessageSent, PacketReceived, nodeVars
<1>2. CASE CommandSent
  <2>1. PICK c \in Commands : backlog' = Append(backlog, CommandMessage(sent + 1, c))
    BY <1>2 DEF CommandSent, ServerSend
  <2>2. /\ backlog \in Seq(Message) /\ sent \in Nat
        /\ sent' = sent + 1 /\ UNCHANGED <<up, down>>
    BY <1>2 DEF TypeInv, Data, CommandSent, ServerSend
  <2>3. backlog'[Len(backlog')].id = sent' /\ Len(backlog') = Len(backlog) + 1
        /\ \A k \in 1 .. Len(backlog) : backlog'[k] = backlog[k]
    BY <2>1, <2>2 DEF CommandMessage
  <2>4. /\ \A i : Holds(backlog, i) => Holds(backlog', i)
        /\ Holds(backlog', sent')
    BY <2>2, <2>3 DEF Holds
  <2>5. NoCommandLost'
    <3>1. ASSUME NEW i \in 1 .. sent'
          PROVE  i \in done' \/ Holds(backlog', i) \/ Holds(cmdq', i)
      <4>1. CASE i = sent'
        BY <2>4, <4>1
      <4>2. CASE i \in 1 .. sent
        BY <1>1, <2>4, <4>2 DEF ServiceInv, NoCommandLost
      <4>3. QED
        BY <2>2, <4>1, <4>2
    <3>2. QED
      BY <3>1 DEF NoCommandLost, Holds
  <2>6. \A k \in 1 .. Len(backlog') :
          backlog'[k].topic = "command" /\ backlog'[k].cmd \in Commands
    BY <2>1, <2>2 DEF ServiceInv, CommandMessage
  <2>7. QED
    BY <1>1, <2>2, <2>5, <2>6 DEF ServiceInv, Holds
<1>3. CASE MessageSent
  <2>1. /\ pushed + 1 \in 1 .. Len(backlog)
        /\ down' = Append(down, backlog[pushed + 1])
        /\ UNCHANGED <<backlog, up, sent>>
    BY <1>3 DEF TypeInv, Data, MessageSent, BrokerPush
  <2>2. \A k \in 1 .. Len(down') : down'[k].topic = "command" => down'[k].cmd \in Commands
    BY <2>1 DEF TypeInv, Data, ServiceInv
  <2>3. QED
    BY <1>1, <2>1, <2>2 DEF ServiceInv, NoCommandLost, Holds
<1>4. CASE PacketReceived
  <2>1. up # <<>> /\ up' = Tail(up) /\ up \in Seq(Packet) /\ sent' = sent
    BY <1>4 DEF TypeInv, Data, PacketReceived, BrokerReceive
  <2>2. \A k \in 1 .. Len(up') :
          up'[k].type = "puback" => up'[k].arg \in done \/ Holds(cmdq, up'[k].arg)
    BY <2>1 DEF ServiceInv
  <2>3. CASE ReceiveSubscribe(Head(up))
    BY <1>1, <2>1, <2>2, <2>3 DEF ServiceInv, NoCommandLost, Holds, ReceiveSubscribe
  <2>4. CASE ReceiveSensors(Head(up))
    <3>1. \A k \in 1 .. Len(down') : down'[k].topic = "command" => down'[k].cmd \in Commands
      BY <2>4 DEF TypeInv, Data, ServiceInv, ReceiveSensors, Loopback
    <3>2. QED
      BY <1>1, <2>1, <2>2, <2>4, <3>1 DEF ServiceInv, NoCommandLost, Holds, ReceiveSensors
  <2>5. CASE ReceivePuback(Head(up))
    <3>1. CASE UNCHANGED backlog
      BY <1>1, <2>1, <2>2, <2>5, <3>1 DEF ServiceInv, NoCommandLost, Holds, ReceivePuback
    <3>2. CASE /\ backlog # <<>> /\ backlog' = Tail(backlog)
               /\ Head(backlog).id = Head(up).arg
      <4>1. Head(up).arg \in done \/ Holds(cmdq, Head(up).arg)
        BY <2>1, <2>5 DEF ServiceInv, ReceivePuback
      <4>2. /\ backlog \in Seq(Message)
            /\ \A k \in 1 .. Len(backlog) :
                  k = 1 \/ (k - 1 \in 1 .. Len(backlog') /\ backlog'[k - 1] = backlog[k])
            /\ \A k \in 1 .. Len(backlog') :
                  k + 1 \in 1 .. Len(backlog) /\ backlog'[k] = backlog[k + 1]
        BY <3>2 DEF TypeInv, Data
      <4>3. ASSUME NEW i, Holds(backlog, i), i # Head(up).arg
            PROVE  Holds(backlog', i)
        <5>1. PICK k \in 1 .. Len(backlog) : backlog[k].id = i
          BY <4>3 DEF Holds
        <5>2. k # 1
          BY <3>2, <4>2, <4>3, <5>1
        <5>3. QED
          BY <4>2, <5>1, <5>2 DEF Holds
      <4>4. NoCommandLost'
        BY <1>1, <2>1, <4>1, <4>3 DEF ServiceInv, NoCommandLost, Holds
      <4>5. QED
        BY <1>1, <2>1, <2>2, <2>5, <4>2, <4>4 DEF ServiceInv, Holds, ReceivePuback
    <3>3. QED
      BY <2>5, <3>1, <3>2 DEF ReceivePuback
  <2>6. QED
    BY <1>4, <2>3, <2>4, <2>5 DEF PacketReceived, BrokerReceive
<1>5. QED
  BY <1>2, <1>3, <1>4

LEMMA ServiceStep ==
    ASSUME PlainBuild
    PROVE  TypeInv /\ ServiceInv /\ [Next]_vars => ServiceInv'
<1> SUFFICES ASSUME TypeInv, ServiceInv, [Next]_vars PROVE ServiceInv'
  OBVIOUS
<1>1. dc \in Counters /\ ~dc.confirm /\ ~rtcDiag.confirm
  BY DEF TypeInv, Data, ServiceInv
<1>2. CASE Boot \/ SensorInitFails \/ WifiFails \/ MqttFails \/ Connects
           \/ ReadAndPublish \/ ReadInvalid
  BY <1>2, ServiceSetup
<1>3. CASE WindowLoop
  BY <1>3, ServiceWindow
<1>4. CASE ProcessCommand
  BY <1>4, ServiceProcess
<1>5. CASE Reconnect
  <2>1. \A k \in 1 .. Len(up') : up'[k].type # "puback"
    BY <1>5 DEF Reconnect, Connect, Subscribe
  <2>2. QED
    BY <1>5, <2>1
       DEF ServiceInv, NoCommandLost, Holds, Reconnect, Connect, nodeVars, sessionVars
<1>6. CASE WindowClose
  <2>1. enter_deep_sleep(dc) /\ cmdq = <<>>
    BY <1>1, <1>6 DEF PlainBuild, sync_publish_on, WindowClose, ServiceInv
  <2>2. QED
    BY <1>1, <2>1, ServiceSleep
<1>7. CASE Resend \/ SyncLoop \/ SyncTimeout \/ SyncEnd
  BY <1>7 DEF ServiceInv, Resend, SyncLoop, SyncTimeout, SyncEnd
<1>8. CASE CommandSent \/ MessageSent \/ PacketReceived
  BY <1>8, ServiceBroker
<1>9. CASE ConnectionLost
  BY <1>9 DEF ServiceInv, NoCommandLost, Holds, ConnectionLost, LinkDrop, Hangup, nodeVars
<1>10. CASE Provision
  <2>1. ~dc'.confirm /\ ~rtcDiag'.confirm
    BY <1>1, <1>10 DEF Provision, RtcAfterReset, RtcLost, ZeroCounters, rtcVars
  <2>2. cmdq = <<>>
    BY <1>10 DEF Provision, ServiceInv
  <2>3. QED
    BY <1>10, <2>1, <2>2, ServiceReset DEF Provision, reboot_device
<1>11. CASE Crash \/ PowerLoss
  BY <1>11 DEF PlainBuild, Crash, PowerLoss
<1>12. CASE UNCHANGED vars
  BY <1>12 DEF ServiceInv, NoCommandLost, Holds, vars, nodeVars, brokerVars
<1>13. QED
  BY <1>2, <1>3, <1>4, <1>5, <1>6, <1>7, <1>8, <1>9, <1>10, <1>11, <1>12
     DEF Next, Setup, Environment

\* In a plain build that is not reset, every command the broker accepted is in
\* the session, in the node's queue or carried out, although the client
\* acknowledges a command before process_pending_commands() has seen it.  The
\* hypotheses are needed: a sync build and the confirm mode lose commands.
THEOREM PlainBuildLosesNoCommand ==
    ASSUME PlainBuild
    PROVE  Spec => []NoCommandLost
<1>1. TypeInv /\ ServiceInv /\ [Next]_vars => ServiceInv'
  BY ServiceStep
<1>2. ServiceInv => NoCommandLost
  BY DEF ServiceInv
<1>3. QED
  BY <1>1, <1>2, Types, ServiceInit, PTL DEF Spec
-----------------------------------------------------------------------------
(* The commands are served in order *)

Syncing == {"sync", "syncwait"}

\* Every build, every fault.  What was carried out has no gap but among the commands
\* acknowledged and lost.  Before the confirmation phase, whatever was sent on this
\* connection is carried out, queued or in flight, and the queue holds at most one
\* command; the one being carried out is a repetition or newer than all before it, and
\* every unacknowledged one before it is carried out.
OrderInv ==
    /\ WireOrder
    /\ done \subseteq 1 .. sent
    /\ \A j \in done : \A i \in Acked + 1 .. j - 1 : i \in done
    /\ pc \notin Syncing =>
          /\ Len(cmdq) <= 1
          /\ pc # "process" => cmdq = <<>>
          /\ \A i \in Acked + 1 .. Acked + pushed :
                i \in done \/ Holds(cmdq, i) \/ Coming(down, i)
    /\ pc = "process" =>
          /\ Head(cmdq).id \in 1 .. sent
          /\ Head(cmdq).id \in done \/ \A j \in done : j < Head(cmdq).id
          /\ \A i \in Acked + 1 .. Head(cmdq).id - 1 : i \in done

LEMMA OrderInit == Init => OrderInv
BY WireOrderInit DEF Init, BrokerInit, OrderInv, Acked

\* The numbers the arguments below reason with.
LEMMA OrderTypes ==
    ASSUME TypeInv, OrderInv
    PROVE  BrokerTypeOK /\ WireOrder /\ Acked \in Nat /\ sent \in Nat /\ pushed \in Nat
<1>1. BrokerTypeOK /\ WireOrder
  BY TypeInvTypeOK DEF TypeOK, OrderInv
<1> QED BY <1>1, AckedType, CommandsAssumption DEF WireOrder, BrokerTypeOK

\* The connection starts over: whatever happened to the queue, nothing was sent yet.
LEMMA OrderRestart ==
    ASSUME TypeInv, OrderInv, UNCHANGED <<backlog, sent>>, pushed' = 0, down' = <<>>,
           \A k \in 1 .. Len(up') : up'[k].type # "puback",
           done' \subseteq 1 .. sent,
           \A j \in done' : \A i \in Acked + 1 .. j - 1 : i \in done',
           pc' # "process", pc' \notin Syncing => cmdq' = <<>>
    PROVE  OrderInv'
<1>1. WireOrder' /\ Acked' = Acked /\ Acked \in Nat
  BY OrderTypes, WireOrderRestart DEF Acked
<1>2. Acked' + 1 .. Acked' + pushed' = {}
  BY <1>1
<1> QED BY <1>1, <1>2 DEF OrderInv

\* The node hangs up: to sleep, to reboot or in a reset.
LEMMA OrderHangup ==
    ASSUME TypeInv, OrderInv, Hangup, RamLost, UNCHANGED <<sessionVars, done>>,
           pc' \in {"off", "asleep"}
    PROVE  OrderInv'
BY OrderRestart DEF OrderInv, Hangup, RamLost, sessionVars, Syncing

\* A step that leaves the queue and the session alone and sends no acknowledgement.
LEMMA OrderKept ==
    ASSUME TypeInv, OrderInv, UNCHANGED <<backlog, sent, pushed, down, done, cmdq>>,
           \A k \in 1 .. Len(up') :
              up'[k].type = "puback" => \E j \in 1 .. Len(up) : up[j] = up'[k],
           \/ pc' = pc
           \/ pc' \in Syncing
           \/ pc \notin Syncing \cup {"process"} /\ pc' # "process"
    PROVE  OrderInv'
<1>1. WireOrder' /\ Acked' = Acked
  BY WireOrderSame DEF OrderInv, Acked
<1> QED BY <1>1 DEF OrderInv, Holds, Coming, Syncing

\* The node takes a message, and what does not concern the order of what it takes.
LEMMA OrderReceive ==
    ASSUME TypeInv, OrderInv, ReceiveMessage, UNCHANGED <<done, sessionVars>>
    PROVE  /\ WireOrder' /\ Acked' = Acked /\ sent' = sent
           /\ down # <<>> /\ down' = Tail(down) /\ pushed' = pushed
           /\ pc' \in Syncing => OrderInv'
<1>1. /\ down # <<>> /\ down' = Tail(down) /\ UNCHANGED <<backlog, sent, pushed>>
      /\ up' = IF IsCommand(Head(down)) THEN Append(up, Puback(Head(down).id)) ELSE up
  BY DEF ReceiveMessage, IsCommand, sessionVars
<1>2. WireOrder'
  BY <1>1, OrderTypes, WireOrderTake
<1>3. Acked' = Acked
  BY <1>1 DEF Acked
<1> QED BY <1>1, <1>2, <1>3 DEF OrderInv, Syncing

\* The window takes the oldest message in flight into the empty queue.
LEMMA OrderWindow ==
    ASSUME TypeInv, OrderInv, WindowLoop
    PROVE  OrderInv'
<1> DEFINE m == Head(down)
<1>1. /\ WireOrder' /\ Acked' = Acked /\ sent' = sent
      /\ down # <<>> /\ down' = Tail(down) /\ pushed' = pushed /\ done' = done
  BY OrderReceive DEF WindowLoop
<1>2. Acked \in Nat /\ sent \in Nat /\ pushed \in Nat /\ done \subseteq Nat
  BY OrderTypes DEF TypeInv, Data
<1>3. cmdq = <<>> /\ cmdq' = IF IsCommand(m) THEN <<m>> ELSE <<>>
  BY WakeCycleAssumption
     DEF OrderInv, Syncing, WindowLoop, ReceiveMessage, on_mqtt_message, IsCommand
<1>4. pc' = IF IsCommand(m) THEN "process" ELSE "window"
  BY <1>3 DEF WindowLoop
<1>5. /\ IsCommand(m) => /\ m.id \in Acked + 1 .. Acked + pushed
                         /\ m.id \in 1 .. sent
                         /\ \A i : Coming(down', i) => m.id < i
      /\ \A i : Coming(down, i) => (IsCommand(m) /\ i = m.id) \/ Coming(down', i)
  BY <1>1, OrderTypes, FirstInFlight
<1>6. \A i \in Acked + 1 .. Acked + pushed : i \in done \/ Coming(down, i)
  BY <1>3 DEF OrderInv, Holds, Syncing, WindowLoop
<1>7. IsCommand(m) => Holds(cmdq', m.id)
  BY <1>3 DEF Holds
<1> HIDE DEF m
<1>8. \A i \in Acked' + 1 .. Acked' + pushed' :
         i \in done' \/ Holds(cmdq', i) \/ Coming(down', i)
  BY <1>1, <1>5, <1>6, <1>7
<1>9. ASSUME IsCommand(m)
      PROVE  /\ m.id \in done \/ \A j \in done : j < m.id
             /\ \A i \in Acked + 1 .. m.id - 1 : i \in done
  <2>1. m.id \in Acked + 1 .. Acked + pushed /\ m.id \in Nat
    BY <1>2, <1>5, <1>9
  <2>2. ASSUME NEW j \in done, ~(j < m.id)
        PROVE  m.id \in done
    <3>1. j \in Nat /\ (j = m.id \/ m.id \in Acked + 1 .. j - 1)
      BY <1>2, <2>1, <2>2
    <3> QED BY <2>2, <3>1 DEF OrderInv
  <2>3. ASSUME NEW i \in Acked + 1 .. m.id - 1
        PROVE  i \in done
    <3>1. i \in Acked + 1 .. Acked + pushed /\ i < m.id
      BY <1>2, <2>1
    <3>2. ~Coming(down', i) /\ i # m.id
      <4>1. Coming(down', i) => m.id < i
        BY <1>5, <1>9
      <4> QED BY <1>2, <2>1, <3>1, <4>1
    <3> QED BY <1>5, <1>6, <3>1, <3>2
  <2> QED BY <2>2, <2>3
<1>10. IsCommand(m) => Head(cmdq') = m
  BY <1>3
<1>11. /\ done' \subseteq 1 .. sent'
       /\ \A j \in done' : \A i \in Acked' + 1 .. j - 1 : i \in done'
  BY <1>1 DEF OrderInv
<1>12. Len(cmdq') <= 1 /\ (pc' # "process" => cmdq' = <<>>)
  BY <1>3, <1>4
<1>13. pc' = "process" =>
          /\ Head(cmdq').id \in 1 .. sent'
          /\ Head(cmdq').id \in done' \/ \A j \in done' : j < Head(cmdq').id
          /\ \A i \in Acked' + 1 .. Head(cmdq').id - 1 : i \in done'
  BY <1>1, <1>4, <1>5, <1>9, <1>10
<1> QED BY <1>1, <1>8, <1>11, <1>12, <1>13 DEF OrderInv

\* What a command that is carried out adds to those before it.
LEMMA OrderDone ==
    ASSUME TypeInv, OrderInv, pc = "process"
    PROVE  LET after == done \cup {Head(cmdq).id}
           IN  /\ after \subseteq 1 .. sent
               /\ \A j \in after : \A i \in Acked + 1 .. j - 1 : i \in after
               /\ \A i : Holds(cmdq, i) => i \in after
               /\ Tail(cmdq) = <<>>
<1>1. cmdq \in Seq(Message) /\ cmdq # <<>> /\ Len(cmdq) <= 1
  BY DEF TypeInv, Data, OrderInv, Syncing
<1>2. \A i : Holds(cmdq, i) => i = Head(cmdq).id
  BY <1>1 DEF Holds
<1>3. Tail(cmdq) = <<>>
  BY <1>1
<1> DEFINE c == Head(cmdq).id
<1>4. /\ c \in 1 .. sent /\ done \subseteq 1 .. sent
      /\ \A i \in Acked + 1 .. c - 1 : i \in done
      /\ \A j \in done : \A i \in Acked + 1 .. j - 1 : i \in done
  BY DEF OrderInv
<1> HIDE DEF c
<1>5. \A j \in done \cup {c} : \A i \in Acked + 1 .. j - 1 : i \in done \cup {c}
  BY <1>4
<1> QED BY <1>2, <1>3, <1>4, <1>5 DEF c

LEMMA OrderProcess ==
    ASSUME TypeInv, OrderInv, ProcessCommand
    PROVE  OrderInv'
<1>1. pc = "process"
  BY DEF ProcessCommand, handle_set_interval, handle_set_confirm_uplink, HandleQuery,
         OtaFails, OtaReboots, FactoryReset, Pending
<1>2. /\ done' = done \cup {Head(cmdq).id} /\ UNCHANGED sessionVars
      /\ \/ Processed
         \/ Hangup /\ RamLost /\ pc' = "off"
  BY DEF ProcessCommand, handle_set_interval, handle_set_confirm_uplink, HandleQuery,
         OtaFails, OtaReboots, FactoryReset, reboot_device, Processed
<1>3. CASE Processed
  <2>1. /\ UNCHANGED <<backlog, sent, pushed, down, up>> /\ cmdq' = Tail(cmdq)
        /\ pc' = IF Tail(cmdq) = <<>> THEN "window" ELSE "process"
    BY <1>3 DEF Processed, linkVars, sessionVars
  <2>2. WireOrder' /\ Acked' = Acked
    BY <2>1, WireOrderSame DEF OrderInv, Acked
  <2>3. cmdq' = <<>> /\ pc' = "window"
    BY <1>1, <2>1, OrderDone
  <2>4. \A i \in Acked + 1 .. Acked + pushed : i \in done' \/ Coming(down, i)
    BY <1>1, <1>2, OrderDone DEF OrderInv, Syncing
  <2>5. /\ done' \subseteq 1 .. sent
        /\ \A j \in done' : \A i \in Acked + 1 .. j - 1 : i \in done'
    BY <1>1, <1>2, OrderDone
  <2>6. \A i \in Acked' + 1 .. Acked' + pushed' : i \in done' \/ Coming(down', i)
    BY <2>1, <2>2, <2>4
  <2>7. /\ done' \subseteq 1 .. sent'
        /\ \A j \in done' : \A i \in Acked' + 1 .. j - 1 : i \in done'
    BY <2>1, <2>2, <2>5
  <2> QED BY <2>2, <2>3, <2>6, <2>7 DEF OrderInv
<1>4. CASE Hangup /\ RamLost /\ pc' = "off"
  <2>1. /\ UNCHANGED <<backlog, sent>> /\ pushed' = 0 /\ down' = <<>> /\ up' = <<>>
        /\ cmdq' = <<>> /\ pc' # "process"
    BY <1>2, <1>4 DEF Hangup, RamLost, sessionVars
  <2>2. /\ done' \subseteq 1 .. sent
        /\ \A j \in done' : \A i \in Acked + 1 .. j - 1 : i \in done'
    BY <1>1, <1>2, OrderDone
  <2> QED BY <2>1, <2>2, OrderRestart
<1> QED BY <1>2, <1>3, <1>4

\* What the broker does while the node is anywhere in its wake.
LEMMA OrderBroker ==
    ASSUME TypeInv, OrderInv, CommandSent \/ MessageSent \/ PacketReceived
    PROVE  OrderInv'
<1>1. ServerSend \/ BrokerPush \/ BrokerReceive
  BY DEF CommandSent, MessageSent, PacketReceived
<1>2. UNCHANGED <<pc, cmdq, done>>
  BY DEF CommandSent, MessageSent, PacketReceived, nodeVars
<1>3. /\ WireOrder'
      /\ sent \in Nat /\ sent' \in Nat /\ sent <= sent'
      /\ Acked \in Nat /\ Acked' \in Nat /\ Acked <= Acked'
      /\ \A i : Coming(down, i) => Coming(down', i)
      /\ \A i \in Acked' + 1 .. Acked' + pushed' :
            i \in Acked + 1 .. Acked + pushed \/ Coming(down', i)
  BY <1>1, OrderTypes, BrokerMoves
<1>4. done' \subseteq 1 .. sent' /\ (Head(cmdq).id \in 1 .. sent => Head(cmdq).id \in 1 .. sent')
  BY <1>2, <1>3 DEF OrderInv
<1>5. \A j \in Nat : \A i \in Acked' + 1 .. j - 1 : i \in Acked + 1 .. j - 1
  BY <1>3, LaterStart
<1>6. \A j \in done' : \A i \in Acked' + 1 .. j - 1 : i \in done'
  BY <1>2, <1>5 DEF OrderInv, TypeInv, Data
<1>7. pc' \notin Syncing =>
        \A i \in Acked' + 1 .. Acked' + pushed' :
           i \in done' \/ Holds(cmdq', i) \/ Coming(down', i)
  BY <1>2, <1>3 DEF OrderInv
<1>8. pc' = "process" => \A i \in Acked' + 1 .. Head(cmdq').id - 1 : i \in done'
  <2> SUFFICES ASSUME pc = "process"
               PROVE  \A i \in Acked' + 1 .. Head(cmdq).id - 1 : i \in done
    BY <1>2
  <2>1. /\ Head(cmdq).id \in 1 .. sent
        /\ \A i \in Acked + 1 .. Head(cmdq).id - 1 : i \in done
    BY DEF OrderInv
  <2>2. Head(cmdq).id \in Nat
    BY <1>3, <2>1
  <2> QED BY <1>5, <2>1, <2>2
<1> QED BY <1>2, <1>3, <1>4, <1>6, <1>7, <1>8 DEF OrderInv

\* The steps of setup() up to the command window.
LEMMA OrderSetup ==
    ASSUME TypeInv, OrderInv,
           \/ Boot \/ SensorInitFails \/ WifiFails \/ MqttFails \/ Connects
           \/ ReadAndPublish \/ ReadInvalid
    PROVE  OrderInv'
<1>1. CASE Boot \/ ReadInvalid
  BY <1>1, OrderKept DEF Boot, ReadInvalid, Syncing, ramVars, linkVars, sessionVars
<1>2. CASE SensorInitFails \/ WifiFails \/ MqttFails
  BY <1>2, OrderHangup DEF SensorInitFails, WifiFails, MqttFails, enter_deep_sleep
<1>3. CASE Connects
  <2>1. \A k \in 1 .. Len(up') : up'[k].type # "puback"
    BY <1>3 DEF Connects, Connect, Subscribe
  <2>2. cmdq = <<>>
    BY <1>3 DEF Connects, OrderInv, Syncing
  <2> QED
    BY <1>3, <2>1, <2>2, OrderRestart
       DEF OrderInv, Connects, Connect, sessionVars
<1>4. CASE ReadAndPublish
  <2>1. \A k \in 1 .. Len(up') :
          up'[k].type = "puback" => \E j \in 1 .. Len(up) : up[j] = up'[k]
    BY <1>4 DEF TypeInv, Data, ReadAndPublish, publish_sensor_data, Publish, Sensors
  <2> QED BY <1>4, <2>1, OrderKept DEF ReadAndPublish, Syncing, sessionVars
<1> QED BY <1>1, <1>2, <1>3, <1>4

\* The end of the wake.
LEMMA OrderSync ==
    ASSUME TypeInv, OrderInv,
           Reconnect \/ WindowClose \/ Resend \/ SyncLoop \/ SyncTimeout \/ SyncEnd
    PROVE  OrderInv'
<1>1. CASE Reconnect
  <2>1. \A k \in 1 .. Len(up') : up'[k].type # "puback"
    BY <1>1 DEF Reconnect, Connect, Subscribe
  <2>2. pc' = pc /\ pc # "process" /\ cmdq' = cmdq /\ done' = done
    BY <1>1 DEF Reconnect, nodeVars
  <2> QED BY <1>1, <2>1, <2>2, OrderRestart DEF OrderInv, Reconnect, Connect, sessionVars
<1>2. CASE WindowClose
  BY <1>2, OrderKept, OrderHangup
     DEF WindowClose, enter_deep_sleep, ramVars, linkVars, sessionVars, Syncing
<1>3. CASE Resend
  <2>1. \A k \in 1 .. Len(up') :
          up'[k].type = "puback" => \E j \in 1 .. Len(up) : up[j] = up'[k]
    BY <1>3 DEF TypeInv, Data, Resend, publish_sensor_data, Publish, Sensors
  <2> QED BY <1>3, <2>1, OrderKept DEF Resend, Syncing, sessionVars
<1>4. CASE SyncLoop
  BY <1>4, OrderReceive DEF SyncLoop, Syncing
<1>5. CASE SyncTimeout
  BY <1>5, OrderKept DEF SyncTimeout, Syncing, ramVars, linkVars, sessionVars
<1>6. CASE SyncEnd
  BY <1>6, OrderHangup DEF SyncEnd, enter_deep_sleep
<1> QED BY <1>1, <1>2, <1>3, <1>4, <1>5, <1>6

LEMMA OrderStep == TypeInv /\ OrderInv /\ [Next]_vars => OrderInv'
<1> SUFFICES ASSUME TypeInv, OrderInv, [Next]_vars PROVE OrderInv'
  OBVIOUS
<1>1. CASE Provision
  BY <1>1, OrderHangup DEF Provision, reboot_device
<1>2. CASE Crash \/ PowerLoss
  BY <1>2, OrderHangup DEF Crash, PowerLoss
<1>3. CASE ConnectionLost
  <2>1. pc' = pc /\ cmdq' = cmdq /\ done' = done /\ UNCHANGED <<backlog, sent>>
    BY <1>3 DEF ConnectionLost, LinkDrop, nodeVars
  <2>2. up' = <<>> /\ down' = <<>> /\ pushed' = 0
    BY <1>3 DEF ConnectionLost, LinkDrop, Hangup
  <2>3. WireOrder' /\ Acked' = Acked /\ Acked \in Nat
    BY <2>1, <2>2, OrderTypes, WireOrderRestart DEF Acked
  <2>4. Acked' + 1 .. Acked' + pushed' = {}
    BY <2>2, <2>3
  <2> QED BY <2>1, <2>3, <2>4 DEF OrderInv
<1>4. CASE UNCHANGED vars
  BY <1>4, OrderKept DEF vars, nodeVars, brokerVars
<1> QED
  BY <1>1, <1>2, <1>3, <1>4, OrderSetup, OrderWindow, OrderProcess, OrderSync, OrderBroker
     DEF Next, Setup, Environment

LEMMA Order == Spec => []OrderInv
BY OrderInit, Types, OrderStep, PTL DEF Spec

\* What process_pending_commands() does to the history.
LEMMA CarriesOut ==
    ASSUME ProcessCommand
    PROVE  pc = "process" /\ done' = done \cup {Head(cmdq).id} /\ sent' = sent
BY DEF ProcessCommand, handle_set_interval, handle_set_confirm_uplink, HandleQuery, OtaFails,
       OtaReboots, FactoryReset, Pending, Processed, reboot_device, sessionVars

\* Only the server accepts commands and only process_pending_commands() serves them.
LEMMA ServesBySteps ==
    ASSUME [Next]_vars, ~CommandSent, ~ProcessCommand
    PROVE  UNCHANGED Service!serviceVars
<1>1. CASE Setup
  BY <1>1
     DEF Setup, Boot, SensorInitFails, WifiFails, MqttFails, Connects, ReadAndPublish,
         ReadInvalid, WindowLoop, Reconnect, WindowClose, Resend, SyncLoop, SyncTimeout,
         SyncEnd, enter_deep_sleep, sessionVars, nodeVars, Service!serviceVars
<1>2. CASE Environment
  BY <1>2
     DEF Environment, MessageSent, BrokerPush, PacketReceived, BrokerReceive, ConnectionLost,
         LinkDrop, Provision, Crash, PowerLoss, reboot_device, sessionVars, nodeVars,
         Service!serviceVars
<1>3. CASE UNCHANGED vars
  BY <1>3 DEF vars, nodeVars, brokerVars, Service!serviceVars
<1> QED BY <1>1, <1>2, <1>3 DEF Next

\* A step of the node or of the server, as a step of the service.
LEMMA ServesOrSkips ==
    ASSUME TypeInv, OrderInv, [Next]_vars
    PROVE  [Service!Accept \/ Service!ServeOrSkip]_(Service!serviceVars)
<1>1. CASE CommandSent
  BY <1>1 DEF CommandSent, ServerSend, nodeVars, Service!Accept
<1>2. CASE ProcessCommand
  <2>1. pc = "process" /\ done' = done \cup {Head(cmdq).id} /\ sent' = sent
    BY <1>2, CarriesOut
  <2>2. /\ Head(cmdq).id \in 1 .. sent
        /\ Head(cmdq).id \in done \/ \A j \in done : j < Head(cmdq).id
    BY <2>1 DEF OrderInv
  <2>3. CASE Head(cmdq).id \in done
    BY <2>1, <2>3 DEF Service!serviceVars
  <2>4. CASE \A j \in done : j < Head(cmdq).id
    BY <2>1, <2>2, <2>4 DEF Service!ServeOrSkip
  <2> QED BY <2>2, <2>3, <2>4
<1> QED BY <1>1, <1>2, ServesBySteps

\* Where no command is lost, all those before the one carried out are carried out.
LEMMA OldestUnserved ==
    ASSUME TypeInv, OrderInv, ServiceInv, pc = "process"
    PROVE  /\ Head(cmdq).id \in 1 .. sent
           /\ \A j \in 1 .. Head(cmdq).id - 1 : j \in done
<1>1. /\ Head(cmdq).id \in 1 .. sent
      /\ \A i \in Acked + 1 .. Head(cmdq).id - 1 : i \in done
  BY DEF OrderInv
<1>2. Acked \in Nat /\ sent \in Nat /\ Head(cmdq).id \in Nat
  BY <1>1, OrderTypes
<1>3. \A i : Holds(cmdq, i) => i = Head(cmdq).id
  BY DEF TypeInv, Data, ServiceInv, Holds
<1>4. \A i \in 1 .. Acked : ~Holds(backlog, i)
  BY <1>2 DEF Holds, OrderInv, WireOrder, SessionOrder
<1>5. ASSUME NEW j \in 1 .. Head(cmdq).id - 1
      PROVE  j \in done
  <2>1. j \in 1 .. sent /\ j # Head(cmdq).id
    BY <1>1, <1>2
  <2>2. CASE j \in 1 .. Acked
    BY <1>3, <1>4, <2>1, <2>2 DEF ServiceInv, NoCommandLost
  <2>3. CASE j \in Acked + 1 .. Head(cmdq).id - 1
    BY <1>1, <2>3
  <2> QED BY <1>2, <2>2, <2>3
<1> QED BY <1>1, <1>5

\* In every build and under every fault the commands are carried out for the first
\* time in the order they were sent: the wake cycle implements the service that may
\* lose commands (on_mqtt_message, process_pending_commands, the persistent session).
THEOREM CommandsServedInOrder == Spec => ServedInOrder
<1>1. Init => Service!Init
  BY DEF Init, BrokerInit, Service!Init
<1> QED
  BY <1>1, Types, Order, ServesOrSkips, PTL
     DEF Spec, ServedInOrder, Service!LossySpec

\* Where no command is lost none is skipped: a plain build that is not reset
\* implements the service that carries out every command, in order.
THEOREM PlainBuildServesInOrder ==
    ASSUME PlainBuild
    PROVE  Spec => Service!Spec
<1>1. Init => Service!Init
  BY DEF Init, BrokerInit, Service!Init
<1>2. ASSUME TypeInv, OrderInv, ServiceInv, [Next]_vars
      PROVE  [Service!Next]_(Service!serviceVars)
  <2>1. CASE Service!Accept \/ UNCHANGED Service!serviceVars
    BY <2>1 DEF Service!Next
  <2>2. CASE Service!ServeOrSkip /\ ~UNCHANGED Service!serviceVars
    <3>1. ProcessCommand
      <4>1. sent' = sent /\ sent \in Nat
        BY <1>2, <2>2, OrderTypes DEF Service!ServeOrSkip
      <4>2. ~CommandSent
        BY <4>1 DEF CommandSent, ServerSend
      <4> QED BY <1>2, <2>2, <4>2, ServesBySteps
    <3>2. /\ pc = "process" /\ done' = done \cup {Head(cmdq).id} /\ sent' = sent
          /\ Head(cmdq).id \notin done
      BY <2>2, <3>1, CarriesOut DEF Service!serviceVars
    <3>3. Head(cmdq).id \in 1 .. sent /\ \A j \in 1 .. Head(cmdq).id - 1 : j \in done
      BY <1>2, <3>2, OldestUnserved
    <3> QED BY <3>2, <3>3 DEF Service!Next, Service!Serve
  <2> QED BY <1>2, <2>1, <2>2, ServesOrSkips
<1> QED
  BY <1>1, <1>2, Types, Order, ServiceInit, ServiceStep, PTL
     DEF Spec, Service!Spec
-----------------------------------------------------------------------------
(* A wake goes forward *)

Ended == {"off", "asleep", "provision"}

\* The stages a wake has before it at most: each re-publish is one, and the wait for its
\* loopback another.
Republishes == 2 * (SYNC_MAX_RESENDS - resends)

StagesLeft ==
    CASE pc \in Ended                 -> 0
      [] pc = "sync"                  -> Republishes + 1
      [] pc = "syncwait"              -> Republishes + 2
      [] pc \in {"window", "process"} -> 2 * SYNC_MAX_RESENDS + 2
      [] pc = "read"                  -> 2 * SYNC_MAX_RESENDS + 3
      [] pc = "boot"                  -> 2 * SYNC_MAX_RESENDS + 4

\* The steps that a wake makes without coming to another stage: those of the network.
Pumps == WindowLoop \/ SyncLoop \/ Reconnect

LEMMA Stages ==
    ASSUME TypeInv
    PROVE  /\ SYNC_MAX_RESENDS \in Nat /\ resends \in 0 .. SYNC_MAX_RESENDS
           /\ Republishes \in 0 .. 2 * SYNC_MAX_RESENDS
           /\ pc \in Ended <=> StagesLeft = 0
           /\ StagesLeft \in 0 .. 2 * SYNC_MAX_RESENDS + 4
<1>1. SYNC_MAX_RESENDS \in Nat /\ resends \in 0 .. SYNC_MAX_RESENDS /\ pc \in Phases
  BY WakeCycleAssumption DEF TypeInv, Data
<1>2. Republishes \in 0 .. 2 * SYNC_MAX_RESENDS
  BY <1>1 DEF Republishes
<1> QED BY <1>1, <1>2 DEF StagesLeft, Ended, Phases

\* Aborts, the end and the reboots of a wake have no stage before them.
LEMMA WakeOver == ASSUME pc' \in Ended PROVE StagesLeft' = 0
BY DEF StagesLeft, Ended

LEMMA StepOfTheNode ==
    ASSUME TypeInv, TypeInv', Setup, pc \notin Ended
    PROVE  /\ StagesLeft' <= StagesLeft
           /\ ~Pumps /\ ~ProcessCommand => StagesLeft' < StagesLeft
           /\ ProcessCommand /\ StagesLeft' = StagesLeft => Len(cmdq') < Len(cmdq)
<1>1. /\ SYNC_MAX_RESENDS \in Nat /\ resends \in 0 .. SYNC_MAX_RESENDS
      /\ Republishes \in 0 .. 2 * SYNC_MAX_RESENDS
      /\ StagesLeft \in Nat /\ StagesLeft # 0
      /\ cmdq \in Seq(Message)
  BY Stages DEF TypeInv, Data
<1>2. CASE pc' \in Ended
  BY <1>1, <1>2, WakeOver
<1>3. CASE Connects \/ ReadAndPublish \/ ReadInvalid
  BY <1>1, <1>3 DEF Connects, ReadAndPublish, ReadInvalid, StagesLeft, Ended, Pumps,
                    WindowLoop, SyncLoop, Reconnect
<1>4. CASE WindowClose /\ pc' \notin Ended
  <2>1. pc = "window" /\ pc' = "sync" /\ resends' = resends
    BY <1>4 DEF WindowClose, enter_deep_sleep, ramVars, Ended
  <2> QED BY <1>1, <2>1 DEF StagesLeft, Republishes, Ended, ProcessCommand, Pending,
                    handle_set_interval, handle_set_confirm_uplink, HandleQuery, OtaFails,
                    OtaReboots, FactoryReset
<1>5. CASE Resend
  <2>1. pc = "sync" /\ pc' = "syncwait" /\ resends' = resends + 1 /\ resends < SYNC_MAX_RESENDS
    BY <1>5 DEF Resend
  <2> QED BY <1>1, <2>1 DEF StagesLeft, Republishes, Ended, ProcessCommand, Pending,
                    handle_set_interval, handle_set_confirm_uplink, HandleQuery, OtaFails,
                    OtaReboots, FactoryReset
<1>6. CASE SyncLoop \/ SyncTimeout
  <2>1. pc = "syncwait" /\ pc' \in {"sync", "syncwait"} /\ resends' = resends
        /\ (SyncTimeout => pc' = "sync")
    BY <1>6 DEF SyncLoop, SyncTimeout, ramVars
  <2> QED BY <1>1, <1>6, <2>1 DEF StagesLeft, Republishes, Ended, Pumps, ProcessCommand, Pending,
                    handle_set_interval, handle_set_confirm_uplink, HandleQuery, OtaFails,
                    OtaReboots, FactoryReset
<1>7. CASE WindowLoop
  BY <1>1, <1>7 DEF WindowLoop, StagesLeft, Ended, Pumps, ProcessCommand, Pending,
                    handle_set_interval, handle_set_confirm_uplink, HandleQuery, OtaFails,
                    OtaReboots, FactoryReset
<1>8. CASE Reconnect
  BY <1>1, <1>8 DEF Reconnect, nodeVars, StagesLeft, Republishes, Ended, Pumps, ProcessCommand,
                    Pending, handle_set_interval, handle_set_confirm_uplink, HandleQuery,
                    OtaFails, OtaReboots, FactoryReset
<1>9. CASE ProcessCommand /\ pc' \notin Ended
  <2>1. pc = "process" /\ pc' \in {"window", "process"} /\ cmdq' = Tail(cmdq) /\ cmdq # <<>>
    BY <1>9 DEF ProcessCommand, Pending, Processed, handle_set_interval, Ended,
                handle_set_confirm_uplink, HandleQuery, OtaFails, OtaReboots, FactoryReset,
                reboot_device, TypeInv, Data
  <2>2. Len(cmdq') < Len(cmdq)
    BY <1>1, <2>1
  <2>3. StagesLeft' = StagesLeft
    BY <2>1 DEF StagesLeft, Ended
  <2> QED BY <1>1, <1>9, <2>2, <2>3
<1>10. CASE Boot \/ SensorInitFails \/ WifiFails \/ MqttFails \/ SyncEnd
  <2>1. pc' \in Ended
    BY <1>10 DEF Boot, SensorInitFails, WifiFails, MqttFails, SyncEnd, enter_deep_sleep, Ended
  <2> QED BY <1>2, <2>1
<1> QED
  BY <1>2, <1>3, <1>4, <1>5, <1>6, <1>7, <1>8, <1>9, <1>10 DEF Setup

\* No packet, loss or command takes a wake back: it has 2 * SYNC_MAX_RESENDS + 4 stages at
\* most, and comes to the next with every step of setup() but those that take a packet or
\* a command; a command leaves the queue shorter.  What keeps a wake at a stage is the
\* network alone, in the two waits that millis() ends (main.cpp:1003, 1026).
THEOREM WakeGoesForward ==
    Spec => [][pc \notin Ended =>
               /\ StagesLeft \in 1 .. 2 * SYNC_MAX_RESENDS + 4
               /\ StagesLeft' <= StagesLeft
               /\ Setup /\ ~Pumps /\ ~ProcessCommand => StagesLeft' < StagesLeft
               /\ ProcessCommand /\ StagesLeft' = StagesLeft => Len(cmdq') < Len(cmdq)]_vars
<1>1. ASSUME TypeInv, TypeInv', [Next]_vars, pc \notin Ended
      PROVE  /\ StagesLeft \in 1 .. 2 * SYNC_MAX_RESENDS + 4
             /\ StagesLeft' <= StagesLeft
             /\ Setup /\ ~Pumps /\ ~ProcessCommand => StagesLeft' < StagesLeft
             /\ ProcessCommand /\ StagesLeft' = StagesLeft => Len(cmdq') < Len(cmdq)
  <2>1. StagesLeft \in 1 .. 2 * SYNC_MAX_RESENDS + 4
    BY <1>1, Stages
  <2>2. CASE Setup
    BY <1>1, <2>1, <2>2, StepOfTheNode
  <2>3. CASE ~Setup
    <3>1. ~ProcessCommand
      BY <2>3 DEF Setup
    <3>2. CASE pc' \in Ended
      BY <2>1, <2>3, <3>1, <3>2, WakeOver, Stages
    <3>3. CASE pc' \notin Ended
      <4>1. pc' = pc /\ resends' = resends
        BY <1>1, <2>3, <3>3
           DEF Next, Environment, CommandSent, MessageSent, PacketReceived, ConnectionLost,
               Provision, Crash, PowerLoss, reboot_device, nodeVars, vars, ramVars, Ended
      <4>2. StagesLeft' = StagesLeft
        BY <4>1 DEF StagesLeft, Republishes, Ended
      <4> QED BY <2>1, <2>3, <3>1, <4>2
    <3> QED BY <3>2, <3>3
  <2> QED BY <2>2, <2>3
<1> QED BY <1>1, Types, PTL DEF Spec
=============================================================================
