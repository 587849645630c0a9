------------------------------ MODULE Ota_proofs ------------------------------
(***************************************************************************)
(* Theorems about Ota, for any set of commands and requests, any number of *)
(* them and any size of the queue.                                         *)
(***************************************************************************)
EXTENDS Ota, Broker_proofs, Integers

-----------------------------------------------------------------------------
(* Type correctness *)

\* TypeOK is not inductive: that the version to install is one has to be known from
\* the moment the server sends the command.
OfTheServer(m) == m.topic = "command" /\ m.cmd \in Commands

Flags ==
    /\ link \in BOOLEAN
    /\ heard \in BOOLEAN
    /\ provisioned \in BOOLEAN
    /\ low \in BOOLEAN

Data ==
    /\ up \in Seq(Packet)
    /\ down \in Seq(Message)
    /\ session \in SUBSET Topics
    /\ backlog \in Seq(Message)
    /\ pushed \in Nat
    /\ sent \in 0 .. MaxCommands
    /\ pc \in Phases
    /\ running \in Nat
    /\ cmdq \in Seq(Message)
    /\ Len(cmdq) <= CMD_QUEUE_SIZE
    /\ carried \in Seq(Reboot)
    /\ answers \subseteq Answer

Traffic ==
    /\ \A k \in 1 .. Len(backlog) : OfTheServer(backlog[k])
    /\ \A k \in 1 .. Len(down) : OfTheServer(down[k])
    /\ \A k \in 1 .. Len(cmdq) : OfTheServer(cmdq[k])
    /\ \A k \in 1 .. Len(up) : up[k].type \in {"subscribe_command", "puback"}
    /\ pc \in {"process", "download", "pause"} => cmdq # <<>>
    /\ pc = "download" => Current.cmd.action = "ota_update"
    /\ pc = "pause" => Current.cmd.action = "factory_reset"

TypeInv == Flags /\ Data /\ Traffic

LEMMA TypeInvTypeOK == TypeInv => TypeOK
BY DEF TypeInv, Flags, Data, Traffic, TypeOK, BrokerTypeOK

LEMMA TypeInvInit == Init => TypeInv
<1>1. Init => Flags
  BY DEF Init, Flags, BrokerInit
<1>2. Init => Data
  BY OtaAssumption, CommandsAssumption DEF Init, Data, BrokerInit, Phases
<1>3. Init => Traffic
  BY DEF Init, Traffic, BrokerInit
<1>4. QED
  BY <1>1, <1>2, <1>3 DEF TypeInv

LEMMA ResetType ==
    ASSUME TypeInv, ResetNode, provisioned' \in BOOLEAN, running' \in Nat,
           carried' \in Seq(Reboot), answers' = answers
    PROVE  TypeInv'
<1>1. Flags'
  BY DEF TypeInv, Flags, ResetNode, Hangup, sessionVars
<1>2. Data'
  BY OtaAssumption DEF TypeInv, Data, ResetNode, Hangup, Phases, sessionVars
<1>3. Traffic'
  BY DEF TypeInv, Traffic, OfTheServer, ResetNode, Hangup, sessionVars
<1>4. QED
  BY <1>1, <1>2, <1>3 DEF TypeInv

LEMMA ProcessedType ==
    ASSUME TypeInv, Processed, pc \in {"process", "download"},
           answers' \subseteq Answer
    PROVE  TypeInv'
<1>1. cmdq # <<>> /\ cmdq \in Seq(Message) /\ cmdq' = Tail(cmdq)
  BY DEF TypeInv, Data, Traffic, Processed
<1>2. /\ cmdq' \in Seq(Message) /\ Len(cmdq') = Len(cmdq) - 1
      /\ \A k \in 1 .. Len(cmdq') : k + 1 \in 1 .. Len(cmdq) /\ cmdq'[k] = cmdq[k + 1]
  BY <1>1
<1>3. Flags'
  BY DEF TypeInv, Flags, Processed, flashVars, linkVars, sessionVars
<1>4. Len(cmdq') <= CMD_QUEUE_SIZE
  BY <1>1, <1>2, OtaAssumption DEF TypeInv, Data
<1>5. Data'
  BY <1>2, <1>4 DEF TypeInv, Data, Processed, Phases, flashVars, linkVars, sessionVars
<1>6. Traffic'
  BY <1>2 DEF TypeInv, Traffic, OfTheServer, Processed, linkVars, sessionVars
<1>7. QED
  BY <1>3, <1>5, <1>6 DEF TypeInv

LEMMA CurrentType ==
    ASSUME TypeInv, pc \in {"process", "download", "pause"}
    PROVE  /\ Current \in Message /\ Current.id \in Nat
           /\ Current.cmd \in Commands /\ Current.cmd.value \in Nat
           /\ Current.cmd.action = "ota_update" => Requests[Current.cmd.value] \in Request
<1>1. Current \in Message /\ Current.cmd \in Commands
  BY DEF TypeInv, Data, Traffic, Current, OfTheServer
<1>2. Current.id \in Nat
  BY <1>1 DEF Message
<1>3. Current.cmd.action = "ota_update" => Requests[Current.cmd.value] \in Request
  BY <1>1, OtaAssumption
<1>4. Current.cmd.value \in Nat
  BY <1>1, CommandsAssumption DEF Command
<1>5. QED
  BY <1>1, <1>2, <1>3, <1>4

\* An error ack is one whatever it says.
LEMMA ErrorAckType ==
    ASSUME TypeInv, pc \in {"process", "download"}, NEW message \in Reasons, ErrorAck(message)
    PROVE  TypeInv'
<1>1. [value |-> Current.cmd.value, by |-> running, message |-> message] \in Answer
  BY CurrentType DEF Answer, TypeInv, Data
<1>2. answers' \subseteq Answer
  BY <1>1 DEF ErrorAck, TypeInv, Data
<1>3. QED
  BY <1>2, ProcessedType DEF ErrorAck

LEMMA ProcessType ==
    ASSUME TypeInv, Process
    PROVE  TypeInv'
<1>1. CASE HandleQuery
  BY <1>1, ProcessedType DEF HandleQuery, TypeInv, Data
<1>2. CASE UpdateRefused
  <2>1. Refused(Requests[Current.cmd.value]) \in Reasons
    BY <1>2 DEF UpdateRefused, Refused, Reasons
  <2>2. pc = "process"
    BY <1>2 DEF UpdateRefused, Pending
  <2>3. QED
    BY <1>2, <2>1, <2>2, ErrorAckType DEF UpdateRefused
<1>3. CASE UpdateFails
  BY <1>3, ErrorAckType DEF UpdateFails, Reasons
<1>4. CASE UpdateStarts \/ ResetPauses
  <2>1. Flags'
    BY <1>4 DEF TypeInv, Flags, UpdateStarts, ResetPauses, flashVars, brokerVars
  <2>2. Data'
    BY <1>4 DEF TypeInv, Data, UpdateStarts, ResetPauses, Phases, flashVars, brokerVars
  <2>3. Traffic'
    BY <1>4 DEF TypeInv, Traffic, OfTheServer, UpdateStarts, ResetPauses, Pending, Current,
                flashVars, brokerVars
  <2>4. QED
    BY <2>1, <2>2, <2>3 DEF TypeInv
<1>5. QED
  BY <1>1, <1>2, <1>3, <1>4 DEF Process

\* What the command in hand leaves in the history.
ThisReboot == [id |-> Current.id, cmd |-> Current.cmd, acked |-> ~Holds(backlog, Current.id)]

LEMMA RebootType ==
    ASSUME TypeInv, Reboots
    PROVE  TypeInv'
<1>1. pc \in {"download", "pause"}
  BY DEF Reboots, UpdateInstalled, FactoryReset
<1>2. carried' \in Seq(Reboot)
  <2>1. carried' = Append(carried, ThisReboot)
    BY DEF Reboots, UpdateInstalled, FactoryReset, CarriedOut, ThisReboot
  <2>2. ThisReboot \in Reboot
    BY <1>1, CurrentType DEF ThisReboot, Reboot
  <2>3. carried \in Seq(Reboot)
    BY DEF TypeInv, Data
  <2>4. QED
    BY <2>1, <2>2, <2>3
<1>3. CASE UpdateInstalled
  <2>1. running' \in Nat
    BY <1>3, CurrentType DEF UpdateInstalled, Request, TypeInv, Traffic
  <2>2. provisioned' \in BOOLEAN
    BY <1>3 DEF UpdateInstalled, TypeInv, Flags
  <2>3. QED
    BY <1>2, <1>3, <2>1, <2>2, ResetType DEF UpdateInstalled, CarriedOut
<1>4. CASE FactoryReset
  <2>1. running' \in Nat
    BY <1>4 DEF FactoryReset, TypeInv, Data
  <2>2. QED
    BY <1>2, <1>4, <2>1, ResetType DEF FactoryReset, CarriedOut
<1>5. QED
  BY <1>3, <1>4 DEF Reboots

LEMMA PumpType ==
    ASSUME TypeInv, Pump
    PROVE  TypeInv'
<1> DEFINE m == Head(down)
<1>1. /\ down \in Seq(Message) /\ down # <<>>
      /\ down' = Tail(down) /\ up' = Append(up, Puback(m.id))
  BY DEF TypeInv, Data, Pump
<1>2. m \in Message /\ m.id \in Nat /\ m = down[1] /\ 1 \in 1 .. Len(down)
  <2>1. m \in Message /\ m = down[1] /\ 1 \in 1 .. Len(down)
    BY <1>1
  <2>2. QED
    BY <2>1 DEF Message
<1>10. OfTheServer(m)
  BY <1>2 DEF TypeInv, Traffic
<1> HIDE DEF m
<1>3. /\ down' \in Seq(Message)
      /\ \A k \in 1 .. Len(down') : k + 1 \in 1 .. Len(down) /\ down'[k] = down[k + 1]
  BY <1>1, <1>2
<1>4. cmdq' = IF Len(cmdq) < CMD_QUEUE_SIZE THEN Append(cmdq, m) ELSE cmdq
  BY DEF Pump, on_mqtt_message, m
<1>5. /\ cmdq' \in Seq(Message) /\ Len(cmdq') <= CMD_QUEUE_SIZE /\ cmdq' # <<>>
      /\ \A k \in 1 .. Len(cmdq') :
            cmdq'[k] = m \/ (k \in 1 .. Len(cmdq) /\ cmdq'[k] = cmdq[k])
  <2>1. cmdq \in Seq(Message) /\ Len(cmdq) <= CMD_QUEUE_SIZE
    BY DEF TypeInv, Data
  <2>2. CASE Len(cmdq) < CMD_QUEUE_SIZE
    BY <1>2, <1>4, <2>1, <2>2, OtaAssumption
  <2>3. CASE ~(Len(cmdq) < CMD_QUEUE_SIZE)
    BY <1>4, <2>1, <2>3, OtaAssumption
  <2>4. QED
    BY <2>2, <2>3
<1>6. /\ up' \in Seq(Packet)
      /\ \A k \in 1 .. Len(up') : up'[k].type \in {"subscribe_command", "puback"}
  BY <1>1, <1>2, PacketType DEF TypeInv, Data, Traffic, Puback
<1>7. Flags'
  BY DEF TypeInv, Flags, Pump, flashVars, sessionVars
<1>8. Data'
  BY <1>3, <1>5, <1>6 DEF TypeInv, Data, Pump, Phases, flashVars, sessionVars
<1>9. Traffic'
  BY <1>3, <1>5, <1>6, <1>10 DEF TypeInv, Traffic, OfTheServer, Pump, sessionVars
<1>11. QED
  BY <1>7, <1>8, <1>9 DEF TypeInv

LEMMA ConnectType ==
    ASSUME TypeInv, Connects \/ Reconnect
    PROVE  TypeInv'
<1>1. /\ link' = TRUE /\ up' = <<Subscribe("command")>> /\ down' = <<>> /\ pushed' = 0
      /\ pc' = "window" /\ pc \in {"off", "window"}
      /\ UNCHANGED <<flashVars, low, cmdq, carried, answers, sessionVars>>
  BY DEF Connects, Reconnect, Connect, nodeVars, flashVars
<1>2. up' \in Seq(Packet) /\ up'[1].type = "subscribe_command" /\ Len(up') = 1
  BY <1>1, PacketType DEF Subscribe, Topics
<1>3. Flags'
  BY <1>1 DEF TypeInv, Flags, flashVars, sessionVars
<1>4. Data'
  BY <1>1, <1>2 DEF TypeInv, Data, Phases, flashVars, sessionVars
<1>5. Traffic'
  BY <1>1, <1>2 DEF TypeInv, Traffic, OfTheServer, sessionVars
<1>6. QED
  BY <1>3, <1>4, <1>5 DEF TypeInv

LEMMA BrokerType ==
    ASSUME TypeInv, BrokerSide, UNCHANGED nodeVars
    PROVE  TypeInv'
<1>1. BrokerTypeOK'
  BY BrokerSideTypeOK DEF TypeInv, Flags, Data, BrokerTypeOK
<1>2. Flags'
  BY <1>1 DEF TypeInv, Flags, BrokerTypeOK, nodeVars
<1>3. Data'
  BY <1>1 DEF TypeInv, Data, BrokerTypeOK, nodeVars
<1>4. CASE ServerSend
  <2>1. PICK c \in Commands : backlog' = Append(backlog, CommandMessage(sent + 1, c))
    BY <1>4 DEF ServerSend
  <2>2. QED
    BY <1>2, <1>3, <1>4, <2>1
       DEF ServerSend, CommandMessage, TypeInv, Data, Traffic, OfTheServer, Current, nodeVars
<1>5. CASE BrokerPush
  <2>1. pushed + 1 \in 1 .. Len(backlog) /\ down' = Append(down, backlog[pushed + 1])
    BY <1>5 DEF BrokerPush, TypeInv, Data
  <2>2. QED
    BY <1>2, <1>3, <1>5, <2>1
       DEF BrokerPush, TypeInv, Data, Traffic, OfTheServer, Current, nodeVars
<1>6. CASE BrokerReceive
  <2>1. up # <<>> /\ up \in Seq(Packet) /\ up' = Tail(up)
        /\ Head(up).type \in {"subscribe_command", "puback"}
    BY <1>6 DEF BrokerReceive, TypeInv, Data, Traffic
  <2>2. \A k \in 1 .. Len(up') : up'[k].type \in {"subscribe_command", "puback"}
    BY <2>1 DEF TypeInv, Traffic
  <2>3. down' = down /\ (backlog' = backlog \/ (backlog # <<>> /\ backlog' = Tail(backlog)))
    BY <1>6, <2>1 DEF BrokerReceive, ReceiveSubscribe, ReceiveSensors, ReceivePuback
  <2>4. \A k \in 1 .. Len(backlog') : OfTheServer(backlog'[k])
    <3>1. backlog \in Seq(Message) /\ \A k \in 1 .. Len(backlog) : OfTheServer(backlog[k])
      BY DEF TypeInv, Data, Traffic
    <3>2. CASE backlog # <<>> /\ backlog' = Tail(backlog)
      <4>1. \A k \in 1 .. Len(backlog') :
               k + 1 \in 1 .. Len(backlog) /\ backlog'[k] = backlog[k + 1]
        BY <3>1, <3>2
      <4>2. QED
        BY <3>1, <4>1
    <3>3. QED
      BY <2>3, <3>1, <3>2
  <2>5. QED
    BY <1>2, <1>3, <2>2, <2>3, <2>4 DEF TypeInv, Traffic, OfTheServer, Current, nodeVars
<1>7. CASE LinkDrop
  BY <1>2, <1>3, <1>7
     DEF LinkDrop, Hangup, TypeInv, Traffic, OfTheServer, Current, nodeVars
<1>8. QED
  BY <1>4, <1>5, <1>6, <1>7 DEF BrokerSide

LEMMA TypeInvStep == TypeInv /\ [Next]_vars => TypeInv'
<1> SUFFICES ASSUME TypeInv, [Next]_vars
             PROVE  TypeInv'
  OBVIOUS
<1>1. CASE Connects \/ Reconnect
  BY <1>1, ConnectType
<1>2. CASE WindowClose \/ PowerLoss
  <2>1. provisioned' \in BOOLEAN
    BY <1>2 DEF WindowClose, PowerLoss, flashVars, TypeInv, Flags
  <2>2. QED
    BY <1>2, <2>1, ResetType DEF WindowClose, PowerLoss, flashVars, TypeInv, Data
<1>3. CASE Pump
  BY <1>3, PumpType
<1>4. CASE Process
  BY <1>4, ProcessType
<1>5. CASE Reboots
  BY <1>5, RebootType
<1>6. CASE CommandSent \/ MessageSent \/ PacketReceived \/ ConnectionLost
  BY <1>6, BrokerType DEF BrokerSide, CommandSent, MessageSent, PacketReceived, ConnectionLost
<1>7. CASE Provision \/ BatteryMoves \/ UNCHANGED vars
  <2>1. provisioned' \in BOOLEAN
    BY <1>7 DEF Provision, BatteryMoves, TypeInv, Flags, flashVars, vars, nodeVars
  <2>2. low' \in BOOLEAN
    BY <1>7 DEF Provision, BatteryMoves, TypeInv, Flags, flashVars, vars, nodeVars
  <2>3. UNCHANGED <<brokerVars, pc, running, cmdq, carried, answers>>
    BY <1>7 DEF Provision, BatteryMoves, flashVars, vars, nodeVars
  <2>4. Flags'
    BY <2>1, <2>2, <2>3 DEF TypeInv, Flags, brokerVars
  <2>5. Data' /\ Traffic'
    BY <2>3 DEF TypeInv, Data, Traffic, OfTheServer, Current, brokerVars
  <2>6. QED
    BY <2>4, <2>5 DEF TypeInv
<1>8. QED
  BY <1>1, <1>2, <1>3, <1>4, <1>5, <1>6, <1>7 DEF Next, Node, Environment

LEMMA Types == Spec => []TypeInv
BY TypeInvInit, TypeInvStep, PTL DEF Spec

\* The queue stays within its size, never runs empty while a command is in hand, and the
\* version that is installed is one that a command asked for.
THEOREM OtaTypeCorrectness == Spec => []TypeOK
BY Types, TypeInvTypeOK, PTL

-----------------------------------------------------------------------------
(* What was acknowledged is not repeated *)

\* A command whose PUBACK was with the broker when it rebooted the node is not carried
\* out again, and nothing older is after it.
AckedIsFinal ==
    \A i, j \in 1 .. Len(carried) :
       i < j /\ carried[i].acked => carried[i].id < carried[j].id

\* AckedIsFinal is not inductive.  What the broker keeps is sorted and newer than all that
\* was acknowledged and carried out; a command in the hands of the node is still with the
\* broker, or older than everything that is.
After(n) == \A i \in 1 .. Len(carried) : carried[i].acked => carried[i].id < n
Below(n) == \A k \in 1 .. Len(backlog) : n < backlog[k].id
Fresh(n) == n <= sent /\ After(n) /\ (Holds(backlog, n) \/ Below(n))

OrderInv ==
    /\ AckedIsFinal
    /\ \A i \in 1 .. Len(carried) : carried[i].id <= sent
    /\ \A i, j \in 1 .. Len(backlog) : i < j => backlog[i].id < backlog[j].id
    /\ \A k \in 1 .. Len(backlog) : backlog[k].id <= sent /\ After(backlog[k].id)
    /\ \A k \in 1 .. Len(down) : Fresh(down[k].id)
    /\ \A k \in 1 .. Len(cmdq) : Fresh(cmdq[k].id)

LEMMA OrderInit == Init => OrderInv
BY DEF Init, BrokerInit, OrderInv, AckedIsFinal

\* Whatever is lost with the RAM or the connection, the rest stays as it was.
LEMMA OrderKept ==
    ASSUME OrderInv, UNCHANGED <<carried, backlog, sent>>,
           \A k \in 1 .. Len(down') :
              \/ \E j \in 1 .. Len(down) : down'[k] = down[j]
              \/ \E j \in 1 .. Len(backlog) : down'[k] = backlog[j],
           \A k \in 1 .. Len(cmdq') :
              \/ \E j \in 1 .. Len(cmdq) : cmdq'[k] = cmdq[j]
              \/ \E j \in 1 .. Len(down) : cmdq'[k] = down[j]
    PROVE  OrderInv'
<1>1. \A k \in 1 .. Len(backlog) : Fresh(backlog[k].id)
  BY DEF OrderInv, Fresh, Holds
<1>2. \A k \in 1 .. Len(down') : Fresh(down'[k].id)
  BY <1>1 DEF OrderInv
<1>3. \A k \in 1 .. Len(cmdq') : Fresh(cmdq'[k].id)
  BY DEF OrderInv
<1>4. QED
  BY <1>2, <1>3 DEF OrderInv, AckedIsFinal, Fresh, After, Below, Holds

LEMMA OrderReset ==
    ASSUME OrderInv, ResetNode, carried' = carried
    PROVE  OrderInv'
<1>1. down' = <<>> /\ cmdq' = <<>> /\ UNCHANGED <<backlog, sent>>
  BY DEF ResetNode, Hangup, sessionVars
<1>2. QED
  BY <1>1, OrderKept

\* The command in hand is newer than all that was acknowledged before it, and a broker
\* that has forgotten it only keeps newer ones.
LEMMA OrderReboot ==
    ASSUME TypeInv, OrderInv, Reboots
    PROVE  OrderInv'
<1> DEFINE n == Current.id
           held == Holds(backlog, n)
<1>1. /\ carried' = Append(carried, ThisReboot)
      /\ down' = <<>> /\ cmdq' = <<>> /\ UNCHANGED <<backlog, sent>>
  BY DEF Reboots, UpdateInstalled, FactoryReset, CarriedOut, ResetNode, Hangup, sessionVars,
         ThisReboot
<1>2. pc \in {"process", "download", "pause"}
  BY DEF Reboots, UpdateInstalled, FactoryReset
<1>3. n \in Nat /\ cmdq # <<>> /\ cmdq \in Seq(Message) /\ n = cmdq[1].id
  BY <1>2, CurrentType DEF TypeInv, Data, Traffic, Current
<1>4. Fresh(n)
  BY <1>3 DEF OrderInv, Fresh, After, Below, Holds
<1>5. n <= sent /\ After(n) /\ (held \/ Below(n))
  BY <1>4 DEF Fresh
<1>6. ThisReboot \in Reboot /\ ThisReboot.id = n /\ ThisReboot.acked = ~held
  BY <1>2, CurrentType DEF ThisReboot, Reboot
<1>7. carried \in Seq(Reboot) /\ sent \in Nat /\ backlog \in Seq(Message)
  BY DEF TypeInv, Data
<1> HIDE DEF n, held
<1>8. /\ Len(carried') = Len(carried) + 1 /\ Len(carried) \in Nat
      /\ \A i \in 1 .. Len(carried) : carried'[i] = carried[i]
      /\ carried'[Len(carried) + 1].id = n /\ carried'[Len(carried) + 1].acked = ~held
  BY <1>1, <1>6, <1>7
<1>9. AckedIsFinal'
  BY <1>5, <1>8 DEF OrderInv, AckedIsFinal, After
<1>10. \A i \in 1 .. Len(carried') : carried'[i].id <= sent'
  BY <1>1, <1>5, <1>8 DEF OrderInv
<1>11. \A k \in 1 .. Len(backlog') : backlog'[k].id <= sent' /\ After(backlog[k].id)'
  <2>1. ASSUME NEW k \in 1 .. Len(backlog)
        PROVE  After(backlog[k].id)'
    <3>1. After(backlog[k].id)
      BY DEF OrderInv
    <3>2. ~held => n < backlog[k].id
      BY <1>5 DEF Below
    <3>3. ASSUME NEW i \in 1 .. Len(carried'), carried'[i].acked
          PROVE  carried'[i].id < backlog[k].id
      <4>1. CASE i \in 1 .. Len(carried)
        BY <1>8, <3>1, <3>3, <4>1 DEF After
      <4>2. CASE i = Len(carried) + 1
        <5>1. ~held
          BY <1>8, <3>3, <4>2
        <5>2. QED
          BY <1>8, <3>2, <4>2, <5>1
      <4>3. QED
        BY <1>8, <4>1, <4>2
    <3>4. QED
      BY <1>1, <3>3 DEF After
  <2>2. QED
    BY <1>1, <2>1 DEF OrderInv, After
<1>12. QED
  BY <1>1, <1>9, <1>10, <1>11 DEF OrderInv

LEMMA OrderPump ==
    ASSUME TypeInv, OrderInv, Pump
    PROVE  OrderInv'
<1>1. /\ down \in Seq(Message) /\ down # <<>> /\ down' = Tail(down)
      /\ cmdq \in Seq(Message)
      /\ UNCHANGED <<carried, backlog, sent>>
      /\ cmdq' = cmdq \/ cmdq' = Append(cmdq, Head(down))
  BY DEF TypeInv, Data, Pump, on_mqtt_message, sessionVars
<1>2. \A k \in 1 .. Len(down') : k + 1 \in 1 .. Len(down) /\ down'[k] = down[k + 1]
  BY <1>1
<1>3. 1 \in 1 .. Len(down) /\ Head(down) = down[1] /\ down[1] \in Message
  BY <1>1
<1>4. \A k \in 1 .. Len(cmdq') :
         (k \in 1 .. Len(cmdq) /\ cmdq'[k] = cmdq[k]) \/ cmdq'[k] = down[1]
  BY <1>1, <1>3
<1>5. QED
  BY <1>1, <1>2, <1>3, <1>4, OrderKept

LEMMA OrderProcess ==
    ASSUME TypeInv, OrderInv, Process
    PROVE  OrderInv'
<1>1. CASE UpdateStarts \/ ResetPauses
  BY <1>1, OrderKept DEF UpdateStarts, ResetPauses, brokerVars
<1>2. CASE Processed /\ pc \in {"process", "download"}
  <2>1. /\ cmdq \in Seq(Message) /\ cmdq # <<>> /\ cmdq' = Tail(cmdq)
        /\ UNCHANGED <<down, carried, backlog, sent>>
    BY <1>2 DEF TypeInv, Data, Traffic, Processed, linkVars, sessionVars
  <2>2. \A k \in 1 .. Len(cmdq') : k + 1 \in 1 .. Len(cmdq) /\ cmdq'[k] = cmdq[k + 1]
    BY <2>1
  <2>3. QED
    BY <2>1, <2>2, OrderKept
<1>3. QED
  BY <1>1, <1>2 DEF Process, HandleQuery, UpdateRefused, UpdateFails, ErrorAck, Pending

LEMMA OrderBroker ==
    ASSUME TypeInv, OrderInv,
           CommandSent \/ MessageSent \/ PacketReceived \/ ConnectionLost
    PROVE  OrderInv'
<1>1. UNCHANGED <<carried, cmdq>>
  BY DEF CommandSent, MessageSent, PacketReceived, ConnectionLost, nodeVars
<1>2. /\ backlog \in Seq(Message) /\ down \in Seq(Message) /\ cmdq \in Seq(Message)
      /\ sent \in Nat /\ carried \in Seq(Reboot)
      /\ \A i \in 1 .. Len(carried) : carried[i].id \in Nat
  <2>1. carried \in Seq(Reboot)
    BY DEF TypeInv, Data
  <2>2. \A i \in 1 .. Len(carried) : carried[i].id \in Nat
    <3>1. \A b \in Reboot : b.id \in Nat
      BY DEF Reboot
    <3>2. QED
      BY <2>1, <3>1
  <2>3. QED
    BY <2>1, <2>2 DEF TypeInv, Data
<1>3. /\ \A k \in 1 .. Len(backlog) : backlog[k].id \in Nat
      /\ \A k \in 1 .. Len(down) : down[k].id \in Nat
      /\ \A k \in 1 .. Len(cmdq) : cmdq[k].id \in Nat
  <2>1. \A m \in Message : m.id \in Nat
    BY DEF Message
  <2>2. /\ \A k \in 1 .. Len(backlog) : backlog[k] \in Message
        /\ \A k \in 1 .. Len(down) : down[k] \in Message
        /\ \A k \in 1 .. Len(cmdq) : cmdq[k] \in Message
    BY <1>2
  <2>3. QED
    BY <2>1, <2>2
<1>4. CASE CommandSent
  <2>1. PICK c \in Commands : backlog' = Append(backlog, CommandMessage(sent + 1, c))
    BY <1>4 DEF CommandSent, ServerSend
  <2>2. /\ sent' = sent + 1 /\ down' = down
        /\ Len(backlog') = Len(backlog) + 1
        /\ \A k \in 1 .. Len(backlog) : backlog'[k] = backlog[k]
        /\ backlog'[Len(backlog) + 1].id = sent + 1
    BY <1>2, <1>4, <2>1 DEF CommandSent, ServerSend, CommandMessage
  <2>3. ASSUME NEW m \in Nat, Fresh(m)
        PROVE  Fresh(m)'
    <3>1. m <= sent' /\ After(m)'
      BY <1>1, <1>2, <2>2, <2>3 DEF Fresh, After
    <3>2. CASE Holds(backlog, m)
      BY <1>2, <2>2, <3>1, <3>2 DEF Fresh, Holds
    <3>3. CASE Below(m)
      <4>1. ASSUME NEW k \in 1 .. Len(backlog')
            PROVE  m < backlog'[k].id
        <5>1. CASE k = Len(backlog) + 1
          BY <1>2, <2>2, <2>3, <5>1 DEF Fresh
        <5>2. CASE k \in 1 .. Len(backlog)
          BY <2>2, <3>3, <5>2 DEF Below
        <5>3. QED
          BY <1>2, <2>2, <5>1, <5>2
      <4>2. QED
        BY <3>1, <4>1 DEF Fresh, Below
    <3>4. QED
      BY <2>3, <3>2, <3>3 DEF Fresh
  <2>4. \A i \in 1 .. Len(carried') : carried'[i].id < sent + 1
    BY <1>1, <1>2 DEF OrderInv
  <2>5. \A k \in 1 .. Len(backlog') : backlog'[k].id <= sent' /\ After(backlog[k].id)'
    <3>1. ASSUME NEW k \in 1 .. Len(backlog')
          PROVE  backlog'[k].id <= sent' /\ After(backlog[k].id)'
      <4>1. CASE k = Len(backlog) + 1
        <5>1. backlog'[k].id = sent + 1 /\ sent' = sent + 1
          BY <2>2, <4>1
        <5>2. backlog'[k].id <= sent'
          BY <1>2, <5>1
        <5>3. \A i \in 1 .. Len(carried') : carried'[i].id < backlog'[k].id
          BY <2>4, <5>1
        <5>4. QED
          BY <5>2, <5>3 DEF After
      <4>2. CASE k \in 1 .. Len(backlog)
        <5>1. backlog[k].id \in Nat /\ backlog[k].id <= sent /\ After(backlog[k].id)
          BY <1>3, <4>2 DEF OrderInv
        <5>2. backlog'[k].id = backlog[k].id /\ sent' = sent + 1
          BY <2>2, <4>2
        <5>3. backlog'[k].id <= sent'
          BY <1>2, <5>1, <5>2
        <5>4. \A i \in 1 .. Len(carried') :
                 carried'[i].acked => carried'[i].id < backlog'[k].id
          BY <1>1, <5>1, <5>2 DEF After
        <5>5. QED
          BY <5>3, <5>4 DEF After
      <4>3. QED
        BY <1>2, <2>2, <4>1, <4>2
    <3>2. QED
      BY <3>1
  <2>6. \A i, j \in 1 .. Len(backlog') : i < j => backlog'[i].id < backlog'[j].id
    <3>1. ASSUME NEW i \in 1 .. Len(backlog'), NEW j \in 1 .. Len(backlog'), i < j
          PROVE  backlog'[i].id < backlog'[j].id
      <4>1. i \in 1 .. Len(backlog) /\ backlog'[i] = backlog[i]
        BY <1>2, <2>2, <3>1
      <4>2. CASE j \in 1 .. Len(backlog)
        BY <2>2, <3>1, <4>1, <4>2 DEF OrderInv
      <4>3. CASE j = Len(backlog) + 1
        <5>1. backlog[i].id <= sent /\ backlog[i].id \in Nat
          BY <1>3, <4>1 DEF OrderInv
        <5>2. QED
          BY <1>2, <2>2, <4>1, <4>3, <5>1
      <4>4. QED
        BY <1>2, <2>2, <4>2, <4>3
    <3>2. QED
      BY <3>1
  <2>7. \A i \in 1 .. Len(carried') : carried'[i].id <= sent'
    BY <1>1, <1>2, <2>2 DEF OrderInv
  <2>8. \A k \in 1 .. Len(down') : Fresh(down[k].id)'
    BY <1>3, <2>2, <2>3 DEF OrderInv, Fresh, After, Below, Holds
  <2>9. \A k \in 1 .. Len(cmdq') : Fresh(cmdq[k].id)'
    BY <1>1, <1>3, <2>3 DEF OrderInv, Fresh, After, Below, Holds
  <2>10. QED
    BY <1>1, <2>5, <2>6, <2>7, <2>8, <2>9 DEF OrderInv, AckedIsFinal
<1>5. CASE MessageSent
  <2>1. /\ pushed + 1 \in 1 .. Len(backlog) /\ down' = Append(down, backlog[pushed + 1])
        /\ UNCHANGED <<backlog, sent>>
    BY <1>5 DEF MessageSent, BrokerPush, TypeInv, Data
  <2>2. \A k \in 1 .. Len(down') :
           (k \in 1 .. Len(down) /\ down'[k] = down[k]) \/ down'[k] = backlog[pushed + 1]
    BY <1>2, <2>1
  <2>3. QED
    BY <1>1, <2>1, <2>2, OrderKept
<1>6. CASE ConnectionLost
  BY <1>1, <1>6, OrderKept DEF ConnectionLost, LinkDrop, Hangup
<1>7. CASE PacketReceived
  <2>0. up # <<>> /\ up \in Seq(Packet) /\ sent' = sent
    BY <1>7 DEF PacketReceived, BrokerReceive, TypeInv, Data
  <2>1. Head(up).type # "sensors" /\ sent' = sent
    BY <2>0 DEF TypeInv, Traffic
  <2>2. down' = down /\ (backlog' = backlog \/ (backlog # <<>> /\ backlog' = Tail(backlog)))
    BY <1>7, <2>1 DEF PacketReceived, BrokerReceive, ReceiveSubscribe, ReceiveSensors,
                      ReceivePuback
  <2>3. CASE backlog' = backlog
    BY <1>1, <2>1, <2>2, <2>3, OrderKept
  <2>4. CASE backlog # <<>> /\ backlog' = Tail(backlog)
    <3>1. /\ Len(backlog') = Len(backlog) - 1 /\ Len(backlog) \in Nat
          /\ \A k \in 1 .. Len(backlog') : k + 1 \in 1 .. Len(backlog)
                                           /\ backlog'[k] = backlog[k + 1]
          /\ \A k \in 1 .. Len(backlog) :
                k = 1 \/ (k - 1 \in 1 .. Len(backlog') /\ backlog'[k - 1] = backlog[k])
      BY <1>2, <2>4
    <3>2. ASSUME NEW m \in Nat, Fresh(m)
          PROVE  Fresh(m)'
      <4>1. CASE Below(m)
        <5>1. \A k \in 1 .. Len(backlog') : m < backlog'[k].id
          BY <3>1, <4>1 DEF Below
        <5>2. QED
          BY <1>1, <2>1, <3>2, <5>1 DEF Fresh, After, Below
      <4>2. CASE Holds(backlog, m)
        <5>1. PICK k \in 1 .. Len(backlog) : backlog[k].id = m
          BY <4>2 DEF Holds
        <5>2. CASE k = 1
          <6>1. \A j \in 1 .. Len(backlog') : m < backlog'[j].id
            BY <3>1, <5>1, <5>2 DEF OrderInv
          <6>2. QED
            BY <1>1, <2>1, <3>2, <6>1 DEF Fresh, After, Below
        <5>3. CASE k # 1
          <6>1. k - 1 \in 1 .. Len(backlog') /\ backlog'[k - 1].id = m
            BY <3>1, <5>1, <5>3
          <6>2. QED
            BY <1>1, <2>1, <3>2, <6>1 DEF Fresh, After, Holds
        <5>4. QED
          BY <5>2, <5>3
      <4>3. QED
        BY <3>2, <4>1, <4>2 DEF Fresh
    <3>3. \A k \in 1 .. Len(backlog') : backlog'[k].id <= sent' /\ After(backlog[k].id)'
      BY <1>1, <2>1, <3>1 DEF OrderInv, After
    <3>4. \A i, j \in 1 .. Len(backlog') : i < j => backlog'[i].id < backlog'[j].id
      BY <3>1 DEF OrderInv
    <3>5. /\ \A k \in 1 .. Len(down') : Fresh(down[k].id)'
          /\ \A k \in 1 .. Len(cmdq') : Fresh(cmdq[k].id)'
      BY <1>1, <1>3, <2>2, <3>2 DEF OrderInv, Fresh, After, Below, Holds
    <3>6. QED
      BY <1>1, <2>1, <3>3, <3>4, <3>5 DEF OrderInv, AckedIsFinal
  <2>5. QED
    BY <2>2, <2>3, <2>4
<1>8. QED
  BY <1>4, <1>5, <1>6, <1>7

LEMMA OrderStep ==
    TypeInv /\ OrderInv /\ [Next]_vars => OrderInv'
<1> SUFFICES ASSUME TypeInv, OrderInv, [Next]_vars
             PROVE  OrderInv'
  OBVIOUS
<1>1. CASE Connects \/ Reconnect
  BY <1>1, OrderKept DEF Connects, Reconnect, Connect, sessionVars, nodeVars
<1>2. CASE WindowClose \/ PowerLoss
  BY <1>2, OrderReset DEF WindowClose, PowerLoss
<1>3. CASE Pump
  BY <1>3, OrderPump
<1>4. CASE Process
  BY <1>4, OrderProcess
<1>5. CASE Reboots
  BY <1>5, OrderReboot
<1>6. CASE CommandSent \/ MessageSent \/ PacketReceived \/ ConnectionLost
  BY <1>6, OrderBroker
<1>7. CASE Provision \/ BatteryMoves \/ UNCHANGED vars
  BY <1>7, OrderKept DEF Provision, BatteryMoves, vars, nodeVars, brokerVars
<1>8. QED
  BY <1>1, <1>2, <1>3, <1>4, <1>5, <1>6, <1>7 DEF Next, Node, Environment

\* However late acknowledgements are, only a command whose PUBACK had not reached the
\* broker by its reboot may reboot the node again, or let an older one do so after it:
\* a factory reset that was acknowledged wipes the node once.
THEOREM AcknowledgedCommandsAreFinal == Spec => []AckedIsFinal
<1>1. OrderInv => AckedIsFinal
  BY DEF OrderInv
<1>2. TypeInv /\ OrderInv /\ [Next]_vars => OrderInv'
  BY OrderStep
<1>3. QED
  BY <1>1, <1>2, Types, OrderInit, PTL DEF Spec

-----------------------------------------------------------------------------
(* What the guard on the version gives *)

\* NoVersionFlashedTwice is not inductive: the version that runs is the one flashed last,
\* and the one that is being downloaded is another.
LastFlashedRuns ==
    \A i \in 1 .. Len(carried) :
       Flashed(i) => \/ Asked(i).ver = running
                     \/ \E k \in i + 1 .. Len(carried) :
                           Flashed(k) /\ Asked(k).ver # Asked(i).ver

VersionInv ==
    /\ NoVersionFlashedTwice
    /\ LastFlashedRuns
    /\ pc = "download" => Refused(Requests[Current.cmd.value]) \in {"none", "low_battery"}

\* That the request in hand passes the guards but for the battery does not depend on it.
LEMMA PassesGuards ==
    ASSUME NEW r
    PROVE  Refused(r) \in {"none", "low_battery"}
              <=> Readable(r) /\ r.ours /\ r.ver # running
BY DEF Refused

LEMMA HistoryKept ==
    ASSUME VersionInv, UNCHANGED <<running, carried>>
    PROVE  NoVersionFlashedTwice' /\ LastFlashedRuns'
BY DEF VersionInv, NoVersionFlashedTwice, LastFlashedRuns, Flashed, Asked

\* A step that neither reboots the node by command nor starts a download.
LEMMA VersionKept ==
    ASSUME VersionInv, UNCHANGED <<running, carried>>,
           pc' = "download" => pc = "download" /\ cmdq' = cmdq
    PROVE  VersionInv'
<1>1. NoVersionFlashedTwice' /\ LastFlashedRuns'
  BY HistoryKept
<1>2. ASSUME pc' = "download"
      PROVE  Refused(Requests[Current.cmd.value])' \in {"none", "low_battery"}
  <2> DEFINE r == Requests[Current.cmd.value]
  <2>1. r' = r /\ Refused(r) \in {"none", "low_battery"}
    BY <1>2 DEF VersionInv, Current
  <2>2. Readable(r) /\ r.ours /\ r.ver # running
    BY <2>1, PassesGuards
  <2>3. Readable(r)' /\ r'.ours /\ r'.ver # running'
    BY <2>1, <2>2 DEF Readable
  <2>4. QED
    BY <2>3 DEF Refused
<1>3. QED
  BY <1>1, <1>2 DEF VersionInv

\* An image that is not the running one enters the history.
LEMMA VersionFlashed ==
    ASSUME TypeInv, VersionInv, UpdateInstalled
    PROVE  VersionInv'
<1>1. PICK n, v : n = Len(carried) /\ v = Requests[Current.cmd.value].ver
  OBVIOUS
<1>2. carried' = Append(carried, ThisReboot) /\ running' = v /\ pc' = "off"
  BY <1>1 DEF UpdateInstalled, CarriedOut, ResetNode, ThisReboot
<1>3. /\ n \in Nat
      /\ Len(carried') = n + 1
      /\ \A k \in 1 .. n : carried'[k] = carried[k]
      /\ carried'[n + 1].cmd = Current.cmd
  BY <1>1, <1>2, CurrentType DEF UpdateInstalled, ThisReboot, Reboot, TypeInv, Data
<1>4. v # running /\ Current.cmd.action = "ota_update"
  BY <1>1, PassesGuards DEF UpdateInstalled, VersionInv, TypeInv, Traffic
<1>5. Flashed(n + 1)' /\ Asked(n + 1)'.ver = v
  BY <1>1, <1>3, <1>4 DEF Flashed, Asked
<1>6. \A k \in 1 .. n : (Flashed(k)' <=> Flashed(k)) /\ Asked(k)' = Asked(k)
  BY <1>3 DEF Flashed, Asked
<1>7. NoVersionFlashedTwice'
  <2> SUFFICES ASSUME NEW i \in 1 .. n + 1, NEW j \in 1 .. n + 1, i < j,
                      Flashed(i)', Flashed(j)', Asked(i)'.ver = Asked(j)'.ver
               PROVE  \E k \in i + 1 .. j - 1 : Flashed(k)' /\ Asked(k)'.ver # Asked(i)'.ver
    BY <1>3 DEF NoVersionFlashedTwice
  <2>1. i \in 1 .. n /\ Flashed(i)
    BY <1>3, <1>6
  <2>2. CASE j \in 1 .. n
    <3>1. Flashed(j) /\ Asked(i).ver = Asked(j).ver
      BY <1>6, <2>1, <2>2
    <3>2. PICK k \in i + 1 .. j - 1 : Flashed(k) /\ Asked(k).ver # Asked(i).ver
      <4>1. i \in 1 .. Len(carried) /\ j \in 1 .. Len(carried)
        BY <1>1, <2>1, <2>2
      <4>2. QED
        BY <2>1, <3>1, <4>1 DEF VersionInv, NoVersionFlashedTwice
    <3>3. k \in 1 .. n
      BY <1>3, <2>1, <2>2
    <3>4. QED
      BY <1>6, <2>1, <3>2, <3>3
  <2>3. CASE j = n + 1
    <3>1. Asked(i).ver = v /\ Asked(i).ver # running
      BY <1>4, <1>5, <1>6, <2>1, <2>3
    <3>2. PICK k \in i + 1 .. n : Flashed(k) /\ Asked(k).ver # Asked(i).ver
      BY <1>1, <2>1, <3>1 DEF VersionInv, LastFlashedRuns
    <3>3. k \in 1 .. n /\ k \in i + 1 .. j - 1
      BY <1>3, <2>1, <2>3
    <3>4. QED
      BY <1>6, <2>1, <3>2, <3>3
  <2>4. QED
    BY <1>3, <2>2, <2>3
<1>8. LastFlashedRuns'
  <2> SUFFICES ASSUME NEW i \in 1 .. n + 1, Flashed(i)', Asked(i)'.ver # running'
               PROVE  \E k \in i + 1 .. n + 1 : Flashed(k)' /\ Asked(k)'.ver # Asked(i)'.ver
    BY <1>3 DEF LastFlashedRuns
  <2>1. n + 1 \in i + 1 .. n + 1
    BY <1>2, <1>3, <1>5
  <2>2. Asked(n + 1)'.ver # Asked(i)'.ver
    BY <1>2, <1>5
  <2>3. QED
    BY <1>5, <2>1, <2>2
<1>9. QED
  BY <1>2, <1>7, <1>8 DEF VersionInv

\* A factory reset flashes nothing.
LEMMA VersionWiped ==
    ASSUME TypeInv, VersionInv, FactoryReset
    PROVE  VersionInv'
<1>1. PICK n : n = Len(carried)
  OBVIOUS
<1>2. carried' = Append(carried, ThisReboot) /\ running' = running /\ pc' = "off"
  BY DEF FactoryReset, CarriedOut, ResetNode, ThisReboot
<1>3. /\ n \in Nat
      /\ Len(carried') = n + 1
      /\ \A k \in 1 .. n : carried'[k] = carried[k]
      /\ carried'[n + 1].cmd = Current.cmd
  BY <1>1, <1>2, CurrentType DEF FactoryReset, ThisReboot, Reboot, TypeInv, Data
<1>4. ~Flashed(n + 1)'
  BY <1>3 DEF Flashed, FactoryReset, TypeInv, Traffic
<1>5. \A k \in 1 .. n : (Flashed(k)' <=> Flashed(k)) /\ Asked(k)' = Asked(k)
  BY <1>3 DEF Flashed, Asked
<1>6. \A k \in 1 .. n + 1 : Flashed(k)' => k \in 1 .. n
  BY <1>3, <1>4
<1>7. NoVersionFlashedTwice'
  <2> SUFFICES ASSUME NEW i \in 1 .. n + 1, NEW j \in 1 .. n + 1, i < j,
                      Flashed(i)', Flashed(j)', Asked(i)'.ver = Asked(j)'.ver
               PROVE  \E k \in i + 1 .. j - 1 : Flashed(k)' /\ Asked(k)'.ver # Asked(i)'.ver
    BY <1>3 DEF NoVersionFlashedTwice
  <2>1. i \in 1 .. n /\ j \in 1 .. n
    BY <1>6
  <2>2. Flashed(i) /\ Flashed(j) /\ Asked(i).ver = Asked(j).ver
    BY <1>5, <2>1
  <2>3. PICK k \in i + 1 .. j - 1 : Flashed(k) /\ Asked(k).ver # Asked(i).ver
    BY <1>1, <2>1, <2>2 DEF VersionInv, NoVersionFlashedTwice
  <2>4. k \in 1 .. n
    BY <1>3, <2>1
  <2>5. QED
    BY <1>5, <2>1, <2>3, <2>4
<1>8. LastFlashedRuns'
  <2> SUFFICES ASSUME NEW i \in 1 .. n + 1, Flashed(i)', Asked(i)'.ver # running'
               PROVE  \E k \in i + 1 .. n + 1 : Flashed(k)' /\ Asked(k)'.ver # Asked(i)'.ver
    BY <1>3 DEF LastFlashedRuns
  <2>1. i \in 1 .. n /\ Flashed(i) /\ Asked(i).ver # running
    BY <1>2, <1>3, <1>5, <1>6
  <2>2. PICK k \in i + 1 .. n : Flashed(k) /\ Asked(k).ver # Asked(i).ver
    BY <1>1, <2>1 DEF VersionInv, LastFlashedRuns
  <2>3. k \in 1 .. n /\ k \in i + 1 .. n + 1
    BY <1>3, <2>1
  <2>4. QED
    BY <1>5, <2>1, <2>2, <2>3
<1>9. QED
  BY <1>2, <1>7, <1>8 DEF VersionInv

LEMMA VersionStep ==
    ASSUME TypeInv, VersionInv, [Next]_vars
    PROVE  VersionInv'
<1>1. CASE UpdateStarts
  <2>1. UNCHANGED <<running, carried, cmdq, low>> /\ pc = "process"
        /\ Refused(Requests[Current.cmd.value]) = "none"
    BY <1>1 DEF UpdateStarts, Pending, flashVars
  <2>2. NoVersionFlashedTwice' /\ LastFlashedRuns'
    BY <2>1, HistoryKept
  <2>3. Refused(Requests[Current.cmd.value])' = "none"
    BY <2>1 DEF Current, Refused, Readable
  <2>4. QED
    BY <2>2, <2>3 DEF VersionInv
<1>2. CASE UpdateInstalled
  BY <1>2, VersionFlashed
<1>3. CASE FactoryReset
  BY <1>3, VersionWiped
<1>4. CASE UNCHANGED <<running, carried>>
           /\ (pc' = "download" => pc = "download" /\ cmdq' = cmdq)
  BY <1>4, VersionKept
<1>5. QED
  BY <1>1, <1>2, <1>3, <1>4
     DEF Next, Node, Environment, Process, Reboots, Connects, WindowClose, Reconnect, Pump,
         HandleQuery, UpdateRefused, UpdateFails, ErrorAck, Processed, ResetPauses,
         ResetNode, CommandSent, MessageSent, PacketReceived, ConnectionLost, Provision,
         PowerLoss, BatteryMoves, vars, nodeVars, flashVars

LEMMA Versions == Spec => []VersionInv
<1>1. Init => VersionInv
  BY DEF Init, VersionInv, NoVersionFlashedTwice, LastFlashedRuns
<1>2. TypeInv /\ VersionInv /\ [Next]_vars => VersionInv'
  BY VersionStep
<1>3. QED
  BY <1>1, <1>2, Types, PTL DEF Spec

\* However often an update is delivered again, and whatever is lost, no version is flashed
\* over itself: a second time, another version was in between.
THEOREM NothingIsFlashedTwice == Spec => []NoVersionFlashedTwice
BY Versions, PTL DEF VersionInv

\* SuccessIsSameVersion is not inductive: every update that was carried out could be read
\* whole and was for this hardware, and so every answer to it by the version it asks for
\* comes from the third guard.
AnswerInv ==
    /\ \A a \in answers :
          LET r == Requests[a.value]
          IN  Readable(r) /\ r.ours /\ a.by = r.ver => a.message = "same_version"
    /\ \A k \in 1 .. Len(carried) : Flashed(k) => Readable(Asked(k)) /\ Asked(k).ours

LEMMA AnswerStep ==
    ASSUME TypeInv, VersionInv, AnswerInv, [Next]_vars
    PROVE  AnswerInv'
<1> DEFINE value == Current.cmd.value
<1>1. CASE UpdateRefused \/ UpdateFails
  <2>1. PICK message \in Reasons :
           /\ answers' = answers \cup {[value |-> value, by |-> running, message |-> message]}
           /\ Readable(Requests[value]) /\ Requests[value].ours /\ running = Requests[value].ver
                 => message = "same_version"
    <3>1. CASE UpdateRefused
      <4>1. Refused(Requests[value]) \in Reasons
        BY <3>1 DEF UpdateRefused, Refused, Reasons
      <4>2. answers' = answers \cup
               {[value |-> value, by |-> running, message |-> Refused(Requests[value])]}
        BY <3>1 DEF UpdateRefused, ErrorAck
      <4>3. Readable(Requests[value]) /\ Requests[value].ours /\ running = Requests[value].ver
               => Refused(Requests[value]) = "same_version"
        BY DEF Refused
      <4>4. QED
        BY <4>1, <4>2, <4>3
    <3>2. CASE UpdateFails
      <4>1. answers' = answers \cup
               {[value |-> value, by |-> running, message |-> "update_failed"]}
        BY <3>2 DEF UpdateFails, ErrorAck
      <4>2. running # Requests[value].ver
        BY <3>2, PassesGuards DEF UpdateFails, VersionInv
      <4>3. "update_failed" \in Reasons
        BY DEF Reasons
      <4>4. QED
        BY <4>1, <4>2, <4>3
    <3>3. QED
      BY <1>1, <3>1, <3>2
  <2>2. carried' = carried
    BY <1>1 DEF UpdateRefused, UpdateFails, ErrorAck, Processed
  <2>3. QED
    BY <2>1, <2>2 DEF AnswerInv, Flashed, Asked, Readable
<1>2. CASE UpdateInstalled \/ FactoryReset
  <2>1. answers' = answers /\ carried' = Append(carried, ThisReboot)
    BY <1>2 DEF UpdateInstalled, FactoryReset, CarriedOut, ThisReboot
  <2>2. carried \in Seq(Reboot) /\ ThisReboot \in Reboot /\ ThisReboot.cmd = Current.cmd
    BY <1>2, CurrentType DEF UpdateInstalled, FactoryReset, ThisReboot, Reboot, TypeInv, Data
  <2>3. Current.cmd.action = "ota_update"
           => Readable(Requests[value]) /\ Requests[value].ours
    BY <1>2, PassesGuards DEF UpdateInstalled, FactoryReset, VersionInv, TypeInv, Traffic
  <2>4. \A k \in 1 .. Len(carried') :
           (k \in 1 .. Len(carried) /\ carried'[k] = carried[k]) \/ carried'[k].cmd = Current.cmd
    BY <2>1, <2>2
  <2>5. QED
    BY <2>1, <2>3, <2>4 DEF AnswerInv, Flashed, Asked, Readable
<1>3. CASE UNCHANGED <<answers, carried>>
  BY <1>3 DEF AnswerInv, Flashed, Asked, Readable
<1>4. QED
  BY <1>1, <1>2, <1>3
     DEF Next, Node, Environment, Process, Reboots, Connects, WindowClose, Reconnect, Pump,
         HandleQuery, UpdateStarts, ResetPauses, Processed, CommandSent, MessageSent,
         PacketReceived, ConnectionLost, Provision, PowerLoss, BatteryMoves, vars, nodeVars

\* An update that succeeded is never answered by an error that says otherwise, as long as
\* its image runs: the guard on the version comes before the battery and the download.
THEOREM SuccessIsRecognized == Spec => []SuccessIsSameVersion
<1>1. Init => AnswerInv
  BY DEF Init, AnswerInv
<1>2. TypeInv /\ VersionInv /\ AnswerInv /\ [Next]_vars => AnswerInv'
  BY AnswerStep
<1>3. AnswerInv => SuccessIsSameVersion
  BY DEF AnswerInv, SuccessIsSameVersion, Asked
<1>4. QED
  BY <1>1, <1>2, <1>3, Types, Versions, PTL DEF Spec

-----------------------------------------------------------------------------
(* One version needs no luck *)

\* The updates ask for one and the same version, and nothing wipes the node.
OneRollout(v) ==
    \A c \in Commands :
       /\ c.action # "factory_reset"
       /\ c.action = "ota_update" => Requests[c.value].ver = v

RolloutInv(v) ==
    /\ Len(carried) <= 1
    /\ Len(carried) = 1 => running = v
    /\ pc = "download" => carried = <<>>

LEMMA RolloutStep ==
    ASSUME NEW v, OneRollout(v), TypeInv, RolloutInv(v), [Next]_vars
    PROVE  RolloutInv(v)'
<1>1. carried \in Seq(Reboot)
  BY DEF TypeInv, Data
<1>2. CASE UpdateStarts
  <2>1. /\ Requests[Current.cmd.value].ver # running
        /\ Current.cmd.action = "ota_update" /\ pc = "process"
        /\ UNCHANGED <<running, carried>>
    BY <1>2 DEF UpdateStarts, Refused, Pending, flashVars
  <2>2. Requests[Current.cmd.value].ver = v
    BY <2>1, CurrentType DEF OneRollout
  <2>3. Len(carried) # 1 /\ Len(carried) <= 1
    BY <2>1, <2>2 DEF RolloutInv
  <2>4. carried = <<>>
    <3>1. Len(carried) \in Nat
      BY <1>1
    <3>2. \A n \in Nat : n <= 1 /\ n # 1 => n = 0
      OBVIOUS
    <3>3. Len(carried) = 0
      BY <2>3, <3>1, <3>2
    <3>4. QED
      BY <1>1, <3>3
  <2>5. QED
    BY <2>1, <2>4 DEF RolloutInv
<1>3. CASE UpdateInstalled
  <2>1. /\ carried = <<>> /\ Len(carried') = 1 /\ pc' = "off"
        /\ running' = Requests[Current.cmd.value].ver
    BY <1>1, <1>3 DEF UpdateInstalled, CarriedOut, ResetNode, RolloutInv
  <2>2. Requests[Current.cmd.value].ver = v
    BY <1>3, CurrentType DEF UpdateInstalled, OneRollout, TypeInv, Traffic
  <2>3. QED
    BY <2>1, <2>2 DEF RolloutInv
<1>4. CASE FactoryReset
  <2>1. Current.cmd.action = "factory_reset" /\ Current.cmd \in Commands
    BY <1>4, CurrentType DEF FactoryReset, TypeInv, Traffic
  <2>2. QED
    BY <2>1 DEF OneRollout
<1>5. CASE UNCHANGED <<running, carried>> /\ (pc' = "download" => pc = "download")
  BY <1>5 DEF RolloutInv
<1>6. QED
  BY <1>2, <1>3, <1>4, <1>5
     DEF Next, Node, Environment, Process, Reboots, Connects, WindowClose, Reconnect, Pump,
         HandleQuery, UpdateRefused, UpdateFails, ErrorAck, Processed, ResetPauses,
         ResetNode, CommandSent, MessageSent, PacketReceived, ConnectionLost, Provision,
         PowerLoss, BatteryMoves, vars, nodeVars, flashVars

\* The guard on the version makes an update idempotent: a rollout of one version flashes
\* a node at most once, even where reboots overtake acknowledgements.
THEOREM RolloutFlashesOnce ==
    ASSUME NEW v, OneRollout(v)
    PROVE  Spec => [](Len(carried) <= 1)
<1>1. Init => RolloutInv(v)
  BY DEF Init, RolloutInv
<1>2. RolloutInv(v) => Len(carried) <= 1
  BY DEF RolloutInv
<1>3. TypeInv /\ RolloutInv(v) /\ [Next]_vars => RolloutInv(v)'
  BY RolloutStep
<1>4. QED
  BY <1>1, <1>2, <1>3, Types, PTL DEF Spec
=============================================================================
