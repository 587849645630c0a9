--------------------------- MODULE LoopNode_proofs ---------------------------
(***************************************************************************)
(* Theorems about LoopNode, for every value of its constants and for both  *)
(* builds.                                                                 *)
(***************************************************************************)
EXTENDS LoopNode, Broker_proofs, Integers, TLAPS

-----------------------------------------------------------------------------
(* Type correctness *)

\* TypeOK is not inductive: Head(cmdq) is a message because the processing never
\* starts on an empty queue.
Flags ==
    /\ link \in BOOLEAN
    /\ heard \in BOOLEAN
    /\ provisioned \in BOOLEAN
    /\ confirmed \in BOOLEAN

Data ==
    /\ up \in Seq(Packet)
    /\ down \in Seq(Message)
    /\ session \in SUBSET Topics
    /\ backlog \in Seq(Message)
    /\ pushed \in Nat
    /\ sent \in 0 .. MaxCommands
    /\ build \in Builds
    /\ pc \in Phases
    /\ dc \in Counters
    /\ cmdq \in Seq(Queued)
    /\ Len(cmdq) <= CMD_QUEUE_SIZE
    /\ topic \in Topics \cup {"none"}
    /\ done \subseteq Nat
    /\ cycles \in Counter
    /\ pc = "process" => cmdq # <<>>

TypeInv == Flags /\ Data

LEMMA TypeInvTypeOK == TypeInv => TypeOK
BY DEF TypeInv, Flags, Data, TypeOK, BrokerTypeOK

LEMMA CounterType == 0 \in Counter /\ \A n \in Counter : Inc(n) \in Counter
BY CounterModulusAssumption DEF Counter, Inc

LEMMA TypeInvInit == Init => TypeInv
<1>1. Init => Flags
  BY DEF Init, Flags, BrokerInit
<1>2. Init => Data
  BY ZeroCountersType, CounterType, LoopNodeAssumption, CommandsAssumption
     DEF Init, Data, BrokerInit, Phases
<1>3. QED
  BY <1>1, <1>2 DEF TypeInv

LEMMA PublishedType ==
    ASSUME NEW d \in Counters, NEW ok \in BOOLEAN
    PROVE  Published(d, ok) \in Counters
BY CountersType DEF Published

\* A reset, and the end of a duty cycle, keep the types.
LEMMA ResetType ==
    ASSUME TypeInv, ResetNode, provisioned' \in BOOLEAN, done' \subseteq Nat
    PROVE  TypeInv'
<1>1. Flags'
  BY DEF TypeInv, Flags, ResetNode, Hangup
<1>2. Data'
  BY ZeroCountersType, CounterType, LoopNodeAssumption
     DEF TypeInv, Data, ResetNode, Hangup, Phases, sessionVars
<1>3. QED
  BY <1>1, <1>2 DEF TypeInv

LEMMA EndCycleType ==
    ASSUME TypeInv, NEW d \in Counters, EndCycle(d)
    PROVE  TypeInv'
<1>1. Flags'
  BY DEF TypeInv, Flags, EndCycle, Hangup, ramVars
<1>2. Data'
  BY CounterType DEF TypeInv, Data, EndCycle, Hangup, Phases, ramVars, sessionVars
<1>3. QED
  BY <1>1, <1>2 DEF TypeInv

LEMMA SetupType ==
    ASSUME TypeInv, Setup
    PROVE  TypeInv'
<1>1. CASE Boot
  <2>1. Flags'
    BY <1>1 DEF TypeInv, Flags, Boot, ramVars, linkVars
  <2>2. dc' \in Counters
    BY <1>1, CountersType DEF TypeInv, Data, Boot
  <2>3. Data'
    BY <1>1, <2>2 DEF TypeInv, Data, Boot, Phases, ramVars, linkVars, sessionVars
  <2>4. QED
    BY <2>1, <2>3 DEF TypeInv
<1>2. CASE SetupFails
  <2>1. Flags'
    BY <1>2 DEF TypeInv, Flags, SetupFails, ramVars, linkVars
  <2>2. dc' \in Counters
    BY <1>2, CountersType DEF TypeInv, Data, SetupFails
  <2>3. Data'
    BY <1>2, <2>2 DEF TypeInv, Data, SetupFails, Phases, ramVars, linkVars, sessionVars
  <2>4. QED
    BY <2>1, <2>3 DEF TypeInv
<1>3. CASE SetupConnects
  <2>1. Flags'
    BY <1>3 DEF TypeInv, Flags, SetupConnects, Connect
  <2>2. <<Subscribe("command")>> \in Seq(Packet)
    BY PacketType DEF Topics
  <2>3. Data'
    BY <1>3, <2>2 DEF TypeInv, Data, SetupConnects, Connect, Phases, Topics, sessionVars
  <2>4. QED
    BY <2>1, <2>3 DEF TypeInv
<1>4. QED
  BY <1>1, <1>2, <1>3 DEF Setup

LEMMA DutyCycleType ==
    ASSUME TypeInv, DutyCycle
    PROVE  TypeInv'
<1> dc \in Counters
  BY DEF TypeInv, Data
<1>1. CASE Wake
  <2>1. Flags'
    BY <1>1 DEF TypeInv, Flags, Wake, ramVars, linkVars
  <2>2. Data'
    BY <1>1 DEF TypeInv, Data, Wake, Phases, ramVars, linkVars, sessionVars
  <2>3. QED
    BY <2>1, <2>2 DEF TypeInv
<1>2. CASE SensorFails
  BY <1>2, EndCycleType, CountersType DEF SensorFails
<1>3. CASE WifiFails
  BY <1>3, EndCycleType, CountersType DEF WifiFails
<1>4. CASE MqttFails
  BY <1>4, EndCycleType, CountersType DEF MqttFails
<1>5. CASE Connects
  <2>1. Flags'
    BY <1>5 DEF TypeInv, Flags, Connects, Connect
  <2>2. /\ <<Subscribe("command")>> \in Seq(Packet)
        /\ <<Subscribe("command"), Subscribe("sensors")>> \in Seq(Packet)
    BY PacketType DEF Topics
  <2>3. Data'
    BY <1>5, <2>2 DEF TypeInv, Data, Connects, Connect, Phases, Topics, sessionVars
  <2>4. QED
    BY <2>1, <2>3 DEF TypeInv
<1>6. CASE CyclePublish
  <2>1. PICK ok \in BOOLEAN :
          /\ publish_sensor_data(ok)
          /\ dc' = clear_missed_wakes(Published(dc, ok))
    BY <1>6 DEF CyclePublish
  <2>2. Flags'
    BY <1>6, <2>1 DEF TypeInv, Flags, CyclePublish, publish_sensor_data
  <2>3. dc' \in Counters
    BY <2>1, PublishedType, CountersType
  <2>4. up' \in Seq(Packet)
    BY <2>1, PacketType DEF TypeInv, Data, publish_sensor_data, Publish
  <2>5. Data'
    BY <1>6, <2>3, <2>4 DEF TypeInv, Data, CyclePublish, Phases, sessionVars
  <2>6. QED
    BY <2>2, <2>5 DEF TypeInv
<1>7. CASE WindowClose
  <2>1. (IF dc.confirm /\ confirmed THEN note_tx_confirmed(dc) ELSE dc) \in Counters
    BY CountersType
  <2>2. QED
    BY <1>7, <2>1, EndCycleType DEF WindowClose
<1>8. QED
  BY <1>1, <1>2, <1>3, <1>4, <1>5, <1>6, <1>7 DEF DutyCycle

LEMMA NetworkType ==
    ASSUME TypeInv, LoopPublish \/ Pump \/ Reconnect
    PROVE  TypeInv'
<1>1. CASE LoopPublish
  <2>1. PICK ok \in BOOLEAN : publish_sensor_data(ok) /\ dc' = Published(dc, ok)
    BY <1>1 DEF LoopPublish
  <2>2. Flags'
    BY <1>1, <2>1 DEF TypeInv, Flags, LoopPublish, publish_sensor_data
  <2>3. dc' \in Counters
    BY <2>1, PublishedType DEF TypeInv, Data
  <2>4. up' \in Seq(Packet)
    BY <2>1, PacketType DEF TypeInv, Data, publish_sensor_data, Publish
  <2>5. Data'
    BY <1>1, <2>3, <2>4 DEF TypeInv, Data, LoopPublish, sessionVars
  <2>6. QED
    BY <2>2, <2>5 DEF TypeInv
<1>2. CASE Pump
  <2>1. Flags'
    BY <1>2 DEF TypeInv, Flags, Pump, on_mqtt_message, sessionVars
  <2>2. down # <<>> /\ Head(down) \in Message /\ down' = Tail(down)
    BY <1>2 DEF TypeInv, Data, Pump
  <2>3. up' \in Seq(Packet)
    BY <1>2, <2>2, PacketType DEF TypeInv, Data, Pump, Message
  <2>4. cmdq' \in Seq(Queued) /\ Len(cmdq') <= CMD_QUEUE_SIZE
    <3>1. Head(down).topic = "command" => Head(down) \in Queued
      BY <2>2 DEF Message, Queued
    <3>2. QED
      BY <1>2, <3>1, LoopNodeAssumption DEF TypeInv, Data, Pump, on_mqtt_message
  <2>5. Data'
    BY <1>2, <2>2, <2>3, <2>4 DEF TypeInv, Data, Pump, Phases, Listening, sessionVars
  <2>6. QED
    BY <2>1, <2>5 DEF TypeInv
<1>3. CASE Reconnect
  <2>1. Flags'
    BY <1>3 DEF TypeInv, Flags, Reconnect, Connect, nodeVars
  <2>2. up' \in Seq(Packet)
    BY <1>3, PacketType DEF TypeInv, Data, Reconnect, Connect
  <2>3. Data'
    BY <1>3, <2>2 DEF TypeInv, Data, Reconnect, Connect, nodeVars, sessionVars
  <2>4. QED
    BY <2>1, <2>3 DEF TypeInv
<1>4. QED
  BY <1>1, <1>2, <1>3

LEMMA CommandType ==
    ASSUME TypeInv, ProcessCommand
    PROVE  TypeInv'
<1>1. pc = "process" /\ cmdq # <<>>
  BY DEF TypeInv, Data, ProcessCommand, handle_set_confirm_uplink, HandleQuery,
         OtaReboots, FactoryReset, Pending
<1>2. /\ Head(cmdq) \in Queued
      /\ Tail(cmdq) \in Seq(Queued)
      /\ Len(Tail(cmdq)) < Len(cmdq)
  BY <1>1 DEF TypeInv, Data
<1>3. Head(cmdq).id \in Nat
  BY <1>2 DEF Queued
<1>4. ASSUME Processed, dc' \in Counters
      PROVE  TypeInv'
  <2>1. Flags'
    BY <1>4 DEF TypeInv, Flags, Processed, linkVars
  <2>2. cmdq' \in Seq(Queued) /\ Len(cmdq') <= CMD_QUEUE_SIZE
    BY <1>2, <1>4, LoopNodeAssumption DEF TypeInv, Data, Processed
  <2>3. done' \subseteq Nat
    BY <1>3, <1>4 DEF TypeInv, Data, Processed
  <2>4. pc' \in Phases /\ (pc' = "process" => cmdq' # <<>>)
    BY <1>4 DEF Processed, Phases, Listening
  <2>5. Data'
    BY <1>4, <2>2, <2>3, <2>4 DEF TypeInv, Data, Processed, linkVars, sessionVars
  <2>6. QED
    BY <2>1, <2>5 DEF TypeInv
<1>5. CASE handle_set_confirm_uplink
  <2>1. (Head(cmdq).cmd.value # 0) \in BOOLEAN
    OBVIOUS
  <2>2. dc' \in Counters
    BY <1>5, <2>1, CountersType DEF TypeInv, Data, handle_set_confirm_uplink
  <2>3. QED
    BY <1>4, <1>5, <2>2 DEF handle_set_confirm_uplink
<1>6. CASE HandleQuery
  BY <1>4, <1>6 DEF HandleQuery, TypeInv, Data
<1>7. CASE OtaReboots
  <2>1. provisioned' \in BOOLEAN
    BY <1>7 DEF OtaReboots, TypeInv, Flags
  <2>2. done' \subseteq Nat
    BY <1>3, <1>7 DEF OtaReboots, TypeInv, Data
  <2>3. QED
    BY <1>7, <2>1, <2>2, ResetType DEF OtaReboots
<1>8. CASE FactoryReset
  <2>1. provisioned' \in BOOLEAN
    BY <1>8 DEF FactoryReset
  <2>2. done' \subseteq Nat
    BY <1>3, <1>8 DEF FactoryReset, TypeInv, Data
  <2>3. QED
    BY <1>8, <2>1, <2>2, ResetType DEF FactoryReset
<1>9. QED
  BY <1>5, <1>6, <1>7, <1>8 DEF ProcessCommand

LEMMA EnvironmentType ==
    ASSUME TypeInv, Environment
    PROVE  TypeInv'
<1>1. ASSUME BrokerSide, UNCHANGED nodeVars
      PROVE  TypeInv'
  <2>1. BrokerTypeOK'
    BY <1>1, BrokerSideTypeOK DEF TypeInv, Flags, Data, BrokerTypeOK
  <2>2. Flags'
    BY <1>1, <2>1 DEF TypeInv, Flags, BrokerTypeOK, nodeVars
  <2>3. Data'
    BY <1>1, <2>1 DEF TypeInv, Data, BrokerTypeOK, nodeVars
  <2>4. QED
    BY <2>2, <2>3 DEF TypeInv
<1>2. CASE Provision
  BY <1>2, ResetType DEF Provision, TypeInv, Data
<1>3. CASE Reset
  BY <1>3, ResetType DEF Reset, TypeInv, Flags, Data
<1>4. QED
  BY <1>1, <1>2, <1>3 DEF Environment, BrokerSide, CommandSent, MessageSent,
     PacketReceived, ConnectionLost

LEMMA TypeInvStep == TypeInv /\ [Next]_vars => TypeInv'
<1> SUFFICES ASSUME TypeInv, [Next]_vars
             PROVE  TypeInv'
  OBVIOUS
<1>1. CASE Next
  BY <1>1, SetupType, DutyCycleType, NetworkType, CommandType, EnvironmentType
     DEF Next, Loop
<1>2. CASE UNCHANGED vars
  <2>1. Flags'
    BY <1>2 DEF TypeInv, Flags, vars, nodeVars, brokerVars
  <2>2. Data'
    BY <1>2 DEF TypeInv, Data, vars, nodeVars, brokerVars
  <2>3. QED
    BY <2>1, <2>2 DEF TypeInv
<1>3. QED
  BY <1>1, <1>2

LEMMA Types == Spec => []TypeInv
BY TypeInvInit, TypeInvStep, PTL DEF Spec

\* The types of a node that does not deep-sleep: no counter leaves its 32 bits and the
\* queue never holds more than CMD_QUEUE_SIZE commands, however long it runs.
THEOREM LoopTypeCorrectness == Spec => []TypeOK
BY Types, TypeInvTypeOK, PTL

-----------------------------------------------------------------------------
(* What is in flight *)

InFlight(type) == \E k \in 1 .. Len(up) : up[k].type = type
Incoming(t)    == \E k \in 1 .. Len(down) : down[k].topic = t

\* Appending adds one packet or message, and taking the first adds none.
LEMMA AppendToUp ==
    ASSUME up \in Seq(Packet), NEW p \in Packet, up' = Append(up, p), NEW t
    PROVE  InFlight(t)' <=> InFlight(t) \/ p.type = t
<1>1. /\ Len(up') = Len(up) + 1 /\ Len(up) \in Nat
      /\ \A k \in 1 .. Len(up) : up'[k] = up[k]
      /\ up'[Len(up) + 1] = p
  OBVIOUS
<1>2. QED
  BY <1>1 DEF InFlight

LEMMA TailOfUp ==
    ASSUME up \in Seq(Packet), up # <<>>, up' = Tail(up), NEW t
    PROVE  /\ InFlight(t)' => InFlight(t)
           /\ InFlight(t) => InFlight(t)' \/ Head(up).type = t
<1>1. /\ Len(up') = Len(up) - 1 /\ Len(up) \in Nat
      /\ \A k \in 1 .. Len(up') : up'[k] = up[k + 1]
      /\ Head(up) = up[1]
  OBVIOUS
<1>2. InFlight(t)' => InFlight(t)
  BY <1>1 DEF InFlight
<1>3. ASSUME NEW k \in 1 .. Len(up), up[k].type = t, k # 1
      PROVE  InFlight(t)'
  <2>1. k - 1 \in 1 .. Len(up') /\ up'[k - 1] = up[k]
    BY <1>1, <1>3
  <2>2. QED
    BY <1>3, <2>1 DEF InFlight
<1>4. QED
  BY <1>1, <1>2, <1>3 DEF InFlight

LEMMA AppendToDown ==
    ASSUME down \in Seq(Message), NEW m \in Message, down' = Append(down, m), NEW t
    PROVE  Incoming(t)' <=> Incoming(t) \/ m.topic = t
<1>1. /\ Len(down') = Len(down) + 1 /\ Len(down) \in Nat
      /\ \A k \in 1 .. Len(down) : down'[k] = down[k]
      /\ down'[Len(down) + 1] = m
  OBVIOUS
<1>2. QED
  BY <1>1 DEF Incoming

LEMMA TailOfDown ==
    ASSUME down \in Seq(Message), down # <<>>, down' = Tail(down), NEW t
    PROVE  /\ Incoming(t)' => Incoming(t)
           /\ Head(down).topic = t => Incoming(t)
<1>1. /\ Len(down') = Len(down) - 1 /\ Len(down) \in Nat \ {0}
      /\ \A k \in 1 .. Len(down') : down'[k] = down[k + 1]
      /\ Head(down) = down[1]
  OBVIOUS
<1>2. QED
  BY <1>1 DEF Incoming

LEMMA NothingInFlight ==
    /\ up' = <<>> => \A t : ~InFlight(t)'
    /\ down' = <<>> => \A t : ~Incoming(t)'
    /\ up = <<>> => \A t : ~InFlight(t)
    /\ down = <<>> => \A t : ~Incoming(t)
BY DEF InFlight, Incoming

LEMMA SameInFlight ==
    /\ up' = up => \A t : InFlight(t)' <=> InFlight(t)
    /\ down' = down => \A t : Incoming(t)' <=> Incoming(t)
BY DEF InFlight, Incoming

-----------------------------------------------------------------------------
(* The proof of delivery *)

\* ConfirmedIsDelivered is not inductive.  It holds because no connection is open
\* between two cycles, because nothing of an earlier publish is in flight when the
\* next one begins, and because a continuous node never subscribes to the loopback.
Idle == {"off", "provision", "setup", "cycle", "standby"}

Continuous ==
    /\ ~confirmed
    /\ topic # "sensors"
    /\ "sensors" \notin session
    /\ ~InFlight("subscribe_sensors")
    /\ ~Incoming("sensors")

DeliveryInv ==
    /\ confirmed => heard
    /\ Incoming("sensors") => heard
    /\ pc \in Idle => ~link /\ up = <<>> /\ down = <<>>
    /\ pc = "publish" => ~InFlight("sensors") /\ ~Incoming("sensors")
    /\ \A k \in 1 .. Len(backlog) : backlog[k].topic = "command"
    /\ build = "standby" => pc \notin {"setup", "loop"}
    /\ build = "continuous" =>
          Continuous /\ pc \in {"off", "provision", "setup", "loop", "process"}

LEMMA DeliveryInit == Init => DeliveryInv
BY DEF Init, BrokerInit, DeliveryInv, Continuous, Idle, InFlight, Incoming, Builds

LEMMA DeliveryReset ==
    ASSUME TypeInv, DeliveryInv, ResetNode
    PROVE  DeliveryInv'
<1>1. (build' = "continuous") => Continuous'
  BY NothingInFlight DEF DeliveryInv, Continuous, ResetNode, Hangup, sessionVars
<1>2. QED
  BY <1>1, NothingInFlight DEF DeliveryInv, Idle, ResetNode, Hangup, sessionVars

LEMMA DeliveryEndCycle ==
    ASSUME TypeInv, DeliveryInv, pc \in {"cycle", "window"}, NEW d, EndCycle(d)
    PROVE  DeliveryInv'
<1>1. build' # "continuous"
  BY DEF DeliveryInv, EndCycle
<1>2. QED
  BY <1>1, NothingInFlight DEF DeliveryInv, Idle, EndCycle, Hangup, ramVars, sessionVars

LEMMA DeliverySetup ==
    ASSUME TypeInv, DeliveryInv, Setup
    PROVE  DeliveryInv'
<1>1. CASE Boot
  <2>1. UNCHANGED <<build, confirmed, heard, topic, session, backlog, link, up, down>>
    BY <1>1 DEF Boot, ramVars, linkVars, sessionVars
  <2>2. Continuous => Continuous'
    BY <2>1, SameInFlight DEF Continuous
  <2>3. pc' \in {"provision", "cycle", "setup"}
    BY <1>1 DEF Boot
  <2>4. pc' = "cycle" => build = "standby"
    BY <1>1 DEF Boot
  <2>5. pc' = "setup" => build # "standby"
    BY <1>1 DEF Boot
  <2>6. pc \in Idle /\ pc' \in Idle
    BY <1>1, <2>3 DEF Boot, Idle
  <2>7. QED
    BY <2>1, <2>2, <2>3, <2>4, <2>5, <2>6, SameInFlight DEF DeliveryInv
<1>2. CASE SetupFails
  <2>1. UNCHANGED <<build, confirmed, heard, topic, session, backlog, link, up, down>>
    BY <1>2 DEF SetupFails, ramVars, linkVars, sessionVars
  <2>2. Continuous => Continuous'
    BY <2>1, SameInFlight DEF Continuous
  <2>3. QED
    BY <1>2, <2>1, <2>2, SameInFlight DEF DeliveryInv, SetupFails, Idle
<1>3. CASE SetupConnects
  <2>1. build' = build /\ build # "standby" /\ pc' = "loop"
    BY <1>3 DEF SetupConnects, DeliveryInv
  <2>2. UNCHANGED <<confirmed, heard, session, backlog>> /\ topic' = "command"
    BY <1>3 DEF SetupConnects, sessionVars
  <2>3. up' = <<Subscribe("command")>> /\ down' = <<>>
    BY <1>3 DEF SetupConnects, Connect
  <2>4. ~InFlight("subscribe_sensors")'
    BY <2>3 DEF InFlight, Subscribe
  <2>5. ~Incoming("sensors")'
    BY <2>3, NothingInFlight
  <2>6. Continuous => Continuous'
    BY <2>2, <2>4, <2>5 DEF Continuous
  <2>7. QED
    BY <2>1, <2>2, <2>5, <2>6 DEF DeliveryInv, Idle
<1>4. QED
  BY <1>1, <1>2, <1>3 DEF Setup

LEMMA DeliveryDutyCycle ==
    ASSUME TypeInv, DeliveryInv, DutyCycle
    PROVE  DeliveryInv'
<1>1. CASE Wake
  <2>1. UNCHANGED <<build, confirmed, heard, topic, session, backlog, link, up, down>>
    BY <1>1 DEF Wake, ramVars, linkVars, sessionVars
  <2>2. QED
    BY <1>1, <2>1, SameInFlight DEF DeliveryInv, Wake, Idle
<1>2. CASE SensorFails
  BY <1>2, DeliveryEndCycle DEF SensorFails
<1>3. CASE WifiFails
  BY <1>3, DeliveryEndCycle DEF WifiFails
<1>4. CASE MqttFails
  BY <1>4, DeliveryEndCycle DEF MqttFails
<1>5. CASE Connects
  <2>1. build' = build /\ build # "continuous" /\ pc' = "publish"
    BY <1>5 DEF Connects, DeliveryInv
  <2>2. UNCHANGED <<confirmed, heard, backlog>> /\ down' = <<>>
    BY <1>5 DEF Connects, Connect, sessionVars
  <2>3. up' \in {<<Subscribe("command")>>, <<Subscribe("command"), Subscribe("sensors")>>}
    BY <1>5 DEF Connects, Connect
  <2>4. ~InFlight("sensors")'
    BY <2>3 DEF InFlight, Subscribe
  <2>5. QED
    BY <2>1, <2>2, <2>4, NothingInFlight DEF DeliveryInv, Idle
<1>6. CASE CyclePublish
  <2>1. /\ build' = build /\ build # "continuous"
        /\ pc' = "window" /\ ~confirmed'
        /\ UNCHANGED <<down, backlog>>
    BY <1>6 DEF CyclePublish, publish_sensor_data, DeliveryInv, sessionVars
  <2>2. ~Incoming("sensors")'
    BY <1>6, <2>1, SameInFlight DEF DeliveryInv, CyclePublish
  <2>3. QED
    BY <2>1, <2>2 DEF DeliveryInv, Idle
<1>7. CASE WindowClose
  BY <1>7, DeliveryEndCycle DEF WindowClose
<1>8. QED
  BY <1>1, <1>2, <1>3, <1>4, <1>5, <1>6, <1>7 DEF DutyCycle

LEMMA DeliveryNetwork ==
    ASSUME TypeInv, DeliveryInv, LoopPublish \/ Pump \/ Reconnect
    PROVE  DeliveryInv'
<1>1. CASE LoopPublish
  <2>1. /\ UNCHANGED <<build, pc, topic, session, backlog, down>>
        /\ ~confirmed'
        /\ pc = "loop"
    BY <1>1 DEF LoopPublish, publish_sensor_data, sessionVars
  <2>2. build = "continuous" /\ Continuous
    BY <2>1 DEF DeliveryInv, TypeInv, Data, Builds
  <2>3. ~InFlight("subscribe_sensors")'
    <3>1. PICK ok \in BOOLEAN : Publish(Sensors(0), ok)
      BY <1>1 DEF LoopPublish, publish_sensor_data
    <3>2. CASE up' = up
      BY <2>2, <3>2, SameInFlight DEF Continuous
    <3>3. CASE up' = Append(up, Sensors(0))
      BY <2>2, <3>3, AppendToUp, PacketType DEF Continuous, Sensors, TypeInv, Data
    <3>4. QED
      BY <3>1, <3>2, <3>3 DEF Publish
  <2>4. Continuous'
    BY <2>1, <2>2, <2>3, SameInFlight DEF Continuous
  <2>5. QED
    BY <2>1, <2>4 DEF DeliveryInv, Continuous, Idle
<1>2. CASE Pump
  <2> DEFINE m == Head(down)
  <2>1. /\ UNCHANGED <<build, topic, session, backlog, heard, link>>
        /\ down # <<>> /\ down' = Tail(down)
        /\ confirmed' = (confirmed \/ m.topic = "sensors")
        /\ pc = Listening /\ pc' \in {pc, "process"}
    BY <1>2 DEF Pump, on_mqtt_message, sessionVars
  <2>2. m \in Message /\ (m.topic = "sensors" => Incoming("sensors"))
    BY <2>1, TailOfDown DEF TypeInv, Data
  <2>3. Incoming("sensors")' => Incoming("sensors")
    BY <2>1, TailOfDown DEF TypeInv, Data
  <2>4. InFlight("subscribe_sensors")' => InFlight("subscribe_sensors")
    <3>1. CASE up' = up
      BY <3>1, SameInFlight
    <3>2. CASE up' = Append(up, Puback(m.id))
      <4>1. Puback(m.id) \in Packet
        BY <2>2, PacketType DEF Message
      <4>2. QED
        BY <3>2, <4>1, AppendToUp DEF Puback, TypeInv, Data
    <3>3. QED
      BY <1>2, <3>1, <3>2 DEF Pump
  <2>5. (confirmed' => heard') /\ (Incoming("sensors")' => heard')
    BY <2>1, <2>2, <2>3 DEF DeliveryInv
  <2>6. ASSUME build = "continuous" PROVE Continuous' /\ pc' \in {"loop", "process"}
    BY <2>1, <2>2, <2>3, <2>4, <2>6 DEF DeliveryInv, Continuous, Listening
  <2>7. pc' \notin Idle \cup {"publish"}
    BY <2>1 DEF Idle, Listening
  <2>8. build = "standby" => pc' \in {"window", "process"}
    BY <2>1 DEF Listening
  <2>9. QED
    BY <2>1, <2>5, <2>6, <2>7, <2>8 DEF DeliveryInv
<1>3. CASE Reconnect
  <2>1. /\ UNCHANGED <<build, pc, topic, session, backlog, confirmed, heard>>
        /\ pc = Listening /\ down' = <<>>
        /\ up' = IF topic = "none" THEN <<>> ELSE <<Subscribe(topic)>>
    BY <1>3 DEF Reconnect, Connect, nodeVars, sessionVars
  <2>2. pc \notin Idle \cup {"publish"}
    BY <2>1 DEF Idle, Listening
  <2>3. topic # "sensors" => ~InFlight("subscribe_sensors")'
    BY <2>1 DEF InFlight, Subscribe
  <2>4. Continuous => Continuous'
    BY <2>1, <2>3, NothingInFlight DEF Continuous
  <2>5. QED
    BY <2>1, <2>2, <2>4, NothingInFlight DEF DeliveryInv
<1>4. QED
  BY <1>1, <1>2, <1>3

LEMMA DeliveryCommand ==
    ASSUME TypeInv, DeliveryInv, ProcessCommand
    PROVE  DeliveryInv'
<1>1. ASSUME Processed
      PROVE  DeliveryInv'
  <2>1. /\ UNCHANGED <<build, confirmed, heard, topic, session, backlog, link, up, down>>
        /\ pc' \in {Listening, "process"}
    BY <1>1 DEF Processed, linkVars, sessionVars
  <2>2. Continuous => Continuous'
    BY <2>1, SameInFlight DEF Continuous
  <2>3. QED
    BY <2>1, <2>2, SameInFlight DEF DeliveryInv, Idle, Listening
<1>2. QED
  BY <1>1, DeliveryReset DEF ProcessCommand, handle_set_confirm_uplink, HandleQuery,
     OtaReboots, FactoryReset

LEMMA DeliveryBroker ==
    ASSUME TypeInv, DeliveryInv, BrokerSide, UNCHANGED nodeVars
    PROVE  DeliveryInv'
<1> UNCHANGED <<build, pc, confirmed, topic>>
  BY DEF nodeVars
<1>1. CASE ServerSend
  <2>1. UNCHANGED <<session, heard, link, up, down>>
    BY <1>1 DEF ServerSend
  <2>2. PICK c \in Commands : backlog' = Append(backlog, CommandMessage(sent + 1, c))
    BY <1>1 DEF ServerSend
  <2>3. \A k \in 1 .. Len(backlog') : backlog'[k].topic = "command"
    BY <2>2 DEF DeliveryInv, TypeInv, Data, CommandMessage
  <2>4. Continuous => Continuous'
    BY <2>1, SameInFlight DEF Continuous
  <2>5. QED
    BY <2>1, <2>3, <2>4, SameInFlight DEF DeliveryInv
<1>2. CASE BrokerPush
  <2>1. UNCHANGED <<session, heard, link, up, backlog>> /\ link
    BY <1>2 DEF BrokerPush
  <2>2. Incoming("sensors")' <=> Incoming("sensors")
    <3>1. pushed + 1 \in 1 .. Len(backlog)
      BY <1>2 DEF BrokerPush, TypeInv, Data
    <3>2. backlog[pushed + 1] \in Message /\ backlog[pushed + 1].topic = "command"
      BY <3>1 DEF DeliveryInv, TypeInv, Data
    <3>3. QED
      BY <1>2, <3>2, AppendToDown DEF BrokerPush, TypeInv, Data
  <2>3. Continuous => Continuous'
    BY <2>1, <2>2, SameInFlight DEF Continuous
  <2>4. QED
    BY <2>1, <2>2, <2>3, SameInFlight DEF DeliveryInv
<1>3. CASE BrokerReceive
  <2>1. /\ link /\ UNCHANGED link
        /\ up # <<>> /\ up' = Tail(up)
        /\ up \in Seq(Packet) /\ down \in Seq(Message) /\ backlog \in Seq(Message)
    BY <1>3 DEF BrokerReceive, TypeInv, Data
  <2>2. pc \notin Idle
    BY <2>1 DEF DeliveryInv
  <2>3. \A t : (InFlight(t)' => InFlight(t)) /\ (Head(up).type = t => InFlight(t))
    <3>1. Head(up) = up[1] /\ 1 \in 1 .. Len(up)
      BY <2>1
    <3>2. \A t : Head(up).type = t => InFlight(t)
      BY <3>1 DEF InFlight
    <3>3. QED
      BY <2>1, <3>2, TailOfUp
  <2>4. CASE ReceiveSubscribe(Head(up))
    <3>1. UNCHANGED <<down, backlog, heard>>
      BY <2>4 DEF ReceiveSubscribe
    <3>2. "sensors" \in session' => "sensors" \in session \/ InFlight("subscribe_sensors")
      BY <2>3, <2>4 DEF ReceiveSubscribe
    <3>3. Continuous => Continuous'
      BY <2>3, <3>1, <3>2, SameInFlight DEF Continuous
    <3>4. QED
      BY <2>1, <2>2, <2>3, <3>1, <3>3, SameInFlight DEF DeliveryInv
  <2>5. CASE ReceiveSensors(Head(up))
    <3>1. UNCHANGED <<session, backlog>> /\ heard'
      BY <2>5 DEF ReceiveSensors
    <3>2. InFlight("sensors")
      BY <2>3, <2>5 DEF ReceiveSensors
    <3>3. pc # "publish"
      BY <3>2 DEF DeliveryInv
    <3>4. "sensors" \notin session => down' = down
      BY <2>5 DEF ReceiveSensors
    <3>5. Continuous => Continuous'
      BY <2>3, <3>1, <3>4, SameInFlight DEF Continuous
    <3>6. QED
      BY <2>1, <2>2, <3>1, <3>3, <3>5 DEF DeliveryInv
  <2>6. CASE ReceivePuback(Head(up))
    <3>1. UNCHANGED <<session, down, heard>> /\ backlog' \in {backlog, Tail(backlog)}
      BY <2>6 DEF ReceivePuback
    <3>2. \A k \in 1 .. Len(backlog') : backlog'[k].topic = "command"
      <4>1. CASE backlog' = backlog
        BY <4>1 DEF DeliveryInv
      <4>2. CASE backlog' = Tail(backlog) /\ backlog # <<>>
        BY <2>1, <4>2 DEF DeliveryInv
      <4>3. QED
        BY <2>6, <4>1, <4>2 DEF ReceivePuback
    <3>3. Continuous => Continuous'
      BY <2>3, <3>1, SameInFlight DEF Continuous
    <3>4. QED
      BY <2>1, <2>2, <2>3, <3>1, <3>2, <3>3, SameInFlight DEF DeliveryInv
  <2>7. QED
    BY <1>3, <2>4, <2>5, <2>6 DEF BrokerReceive
<1>4. CASE LinkDrop
  <2>1. UNCHANGED <<session, backlog, heard>> /\ ~link' /\ up' = <<>> /\ down' = <<>>
    BY <1>4 DEF LinkDrop, Hangup
  <2>2. Continuous => Continuous'
    BY <2>1, NothingInFlight DEF Continuous
  <2>3. QED
    BY <2>1, <2>2, NothingInFlight DEF DeliveryInv
<1>5. QED
  BY <1>1, <1>2, <1>3, <1>4 DEF BrokerSide

LEMMA DeliveryStep == TypeInv /\ DeliveryInv /\ [Next]_vars => DeliveryInv'
<1> SUFFICES ASSUME TypeInv, DeliveryInv, [Next]_vars
             PROVE  DeliveryInv'
  OBVIOUS
<1>1. CASE Environment
  BY <1>1, DeliveryBroker, DeliveryReset
     DEF Environment, BrokerSide, CommandSent, MessageSent, PacketReceived,
         ConnectionLost, Provision, Reset
<1>2. CASE UNCHANGED vars
  <2>1. Continuous => Continuous'
    BY <1>2, SameInFlight DEF Continuous, vars, nodeVars, brokerVars
  <2>2. QED
    BY <1>2, <2>1, SameInFlight DEF DeliveryInv, vars, nodeVars, brokerVars
<1>3. QED
  BY <1>1, <1>2, DeliverySetup, DeliveryDutyCycle, DeliveryNetwork, DeliveryCommand
     DEF Next, Loop

LEMMA Delivery == Spec => []DeliveryInv
BY Types, DeliveryInit, DeliveryStep, PTL DEF Spec

\* A loopback flag that is set proves that the broker received the node's last
\* sensors publish (main.cpp:623-626), over any number of cycles and resets and
\* whatever is lost.
THEOREM LoopConfirmedIsDelivered == Spec => []ConfirmedIsDelivered
<1>1. DeliveryInv => ConfirmedIsDelivered
  BY DEF DeliveryInv, ConfirmedIsDelivered
<1>2. QED
  BY <1>1, Delivery, PTL

-----------------------------------------------------------------------------
(* A connected node is subscribed *)

\* The confirm mode, and with it the choice of the other topic, can only be switched
\* on by a command: the session has the command topic already by then.
Subscribed == "command" \in session

OnItsWay ==
    link /\ topic # "none" => Subscribed \/ InFlight("subscribe_command")

SubscriptionInv ==
    /\ OnItsWay
    /\ dc.confirm => Subscribed
    /\ topic = "sensors" => Subscribed
    /\ backlog # <<>> => Subscribed
    /\ Incoming("command") => Subscribed
    /\ cmdq # <<>> => Subscribed

LEMMA SubscriptionInit == Init => SubscriptionInv
BY DEF Init, BrokerInit, SubscriptionInv, OnItsWay, ZeroCounters, Incoming

\* Only a command changes the confirm mode.
LEMMA ConfirmKept ==
    ASSUME NEW d \in Counters, NEW ok \in BOOLEAN
    PROVE  /\ note_boot_nds(note_boot(d)).confirm = d.confirm
           /\ note_sensor_fail(d).confirm = d.confirm
           /\ note_wifi_fail(d).confirm = d.confirm
           /\ note_mqtt_fail(d).confirm = d.confirm
           /\ note_missed_wake(note_wifi_fail(d)).confirm = d.confirm
           /\ note_missed_wake(note_mqtt_fail(d)).confirm = d.confirm
           /\ note_tx_confirmed(d).confirm = d.confirm
           /\ Published(d, ok).confirm = d.confirm
           /\ clear_missed_wakes(Published(d, ok)).confirm = d.confirm
BY DEF Counters, note_boot, note_boot_nds, note_sensor_fail, note_wifi_fail,
       note_mqtt_fail, note_missed_wake, note_tx_confirmed, Published, note_publish,
       next_publish_seq, note_tx_sent, clear_missed_wakes

LEMMA SubscriptionReset ==
    ASSUME SubscriptionInv, ResetNode
    PROVE  SubscriptionInv'
BY NothingInFlight
   DEF SubscriptionInv, OnItsWay, Subscribed, ResetNode, Hangup, ZeroCounters, sessionVars

LEMMA SubscriptionEndCycle ==
    ASSUME SubscriptionInv, NEW d, d.confirm = dc.confirm, EndCycle(d)
    PROVE  SubscriptionInv'
BY NothingInFlight
   DEF SubscriptionInv, OnItsWay, Subscribed, EndCycle, Hangup, ramVars, sessionVars

\* A step that touches neither the session nor what is queued, and adds nothing but
\* packets.
LEMMA SubscriptionSame ==
    ASSUME SubscriptionInv, UNCHANGED <<session, backlog, cmdq, topic, down, link>>,
           dc'.confirm = dc.confirm,
           InFlight("subscribe_command") => InFlight("subscribe_command")'
    PROVE  SubscriptionInv'
BY SameInFlight DEF SubscriptionInv, OnItsWay, Subscribed

LEMMA SubscriptionSetup ==
    ASSUME TypeInv, SubscriptionInv, Setup
    PROVE  SubscriptionInv'
<1> dc \in Counters
  BY DEF TypeInv, Data
<1>1. CASE Boot
  BY <1>1, ConfirmKept, SubscriptionSame, SameInFlight
     DEF Boot, ramVars, linkVars, sessionVars
<1>2. CASE SetupFails
  BY <1>2, ConfirmKept, SubscriptionSame, SameInFlight
     DEF SetupFails, ramVars, linkVars, sessionVars
<1>3. CASE SetupConnects
  <2>1. up' = <<Subscribe("command")>> /\ down' = <<>> /\ topic' = "command"
    BY <1>3 DEF SetupConnects, Connect
  <2>2. InFlight("subscribe_command")'
    BY <2>1 DEF InFlight, Subscribe
  <2>3. QED
    BY <1>3, <2>1, <2>2, NothingInFlight
       DEF SubscriptionInv, OnItsWay, Subscribed, SetupConnects, sessionVars
<1>4. QED
  BY <1>1, <1>2, <1>3 DEF Setup

\* What publish_sensor_data() writes leaves a SUBSCRIBE in flight where it is.
LEMMA PublishKeepsFlight ==
    ASSUME TypeInv, NEW ok \in BOOLEAN, publish_sensor_data(ok), NEW t, InFlight(t)
    PROVE  InFlight(t)'
<1>1. CASE up' = up
  BY <1>1, SameInFlight
<1>2. CASE up' = Append(up, Sensors(0))
  BY <1>2, AppendToUp, PacketType DEF TypeInv, Data
<1>3. QED
  BY <1>1, <1>2 DEF publish_sensor_data, Publish

LEMMA SubscriptionDutyCycle ==
    ASSUME TypeInv, SubscriptionInv, DutyCycle
    PROVE  SubscriptionInv'
<1> dc \in Counters
  BY DEF TypeInv, Data
<1>1. CASE Wake
  BY <1>1, SubscriptionSame, SameInFlight DEF Wake, ramVars, linkVars, sessionVars
<1>2. CASE SensorFails
  BY <1>2, ConfirmKept, SubscriptionEndCycle DEF SensorFails
<1>3. CASE WifiFails
  BY <1>3, ConfirmKept, SubscriptionEndCycle DEF WifiFails
<1>4. CASE MqttFails
  BY <1>4, ConfirmKept, SubscriptionEndCycle DEF MqttFails
<1>5. CASE Connects
  <2>1. up' = IF dc.confirm THEN <<Subscribe("command"), Subscribe("sensors")>>
                            ELSE <<Subscribe("command")>>
    BY <1>5 DEF Connects, Connect
  <2>2. InFlight("subscribe_command")'
    <3>1. 1 \in 1 .. Len(up') /\ up'[1] = Subscribe("command")
      BY <2>1
    <3>2. Subscribe("command").type = "subscribe_command"
      BY DEF Subscribe
    <3>3. QED
      BY <3>1, <3>2 DEF InFlight
  <2>3. down' = <<>> /\ (topic' = "sensors" => dc.confirm)
    BY <1>5 DEF Connects, Connect
  <2>4. QED
    BY <1>5, <2>2, <2>3, NothingInFlight
       DEF SubscriptionInv, OnItsWay, Subscribed, Connects, sessionVars
<1>6. CASE CyclePublish
  <2>1. PICK ok \in BOOLEAN :
          /\ publish_sensor_data(ok)
          /\ dc' = clear_missed_wakes(Published(dc, ok))
    BY <1>6 DEF CyclePublish
  <2>2. QED
    BY <1>6, <2>1, ConfirmKept, PublishKeepsFlight, SubscriptionSame
       DEF CyclePublish, sessionVars
<1>7. CASE WindowClose
  BY <1>7, ConfirmKept, SubscriptionEndCycle DEF WindowClose
<1>8. QED
  BY <1>1, <1>2, <1>3, <1>4, <1>5, <1>6, <1>7 DEF DutyCycle

LEMMA SubscriptionNetwork ==
    ASSUME TypeInv, SubscriptionInv, LoopPublish \/ Pump \/ Reconnect
    PROVE  SubscriptionInv'
<1>1. CASE LoopPublish
  <2>1. PICK ok \in BOOLEAN : publish_sensor_data(ok) /\ dc' = Published(dc, ok)
    BY <1>1 DEF LoopPublish
  <2>2. dc'.confirm = dc.confirm
    BY <2>1, ConfirmKept DEF TypeInv, Data
  <2>3. QED
    BY <1>1, <2>1, <2>2, PublishKeepsFlight, SubscriptionSame DEF LoopPublish, sessionVars
<1>2. CASE Pump
  <2> DEFINE m == Head(down)
  <2>1. /\ UNCHANGED <<session, backlog, topic, link, dc>>
        /\ down # <<>> /\ down' = Tail(down)
        /\ cmdq' # <<>> => cmdq # <<>> \/ m.topic = "command"
    BY <1>2 DEF Pump, on_mqtt_message, sessionVars
  <2>2. /\ m \in Message
        /\ m.topic = "command" => Incoming("command")
        /\ Incoming("command")' => Incoming("command")
    BY <2>1, TailOfDown DEF TypeInv, Data
  <2>3. InFlight("subscribe_command") => InFlight("subscribe_command")'
    <3>1. CASE up' = up
      BY <3>1, SameInFlight
    <3>2. CASE up' = Append(up, Puback(m.id))
      <4>1. Puback(m.id) \in Packet
        BY <2>2, PacketType DEF Message
      <4>2. QED
        BY <3>2, <4>1, AppendToUp DEF TypeInv, Data
    <3>3. QED
      BY <1>2, <3>1, <3>2 DEF Pump
  <2>4. QED
    BY <2>1, <2>2, <2>3 DEF SubscriptionInv, OnItsWay, Subscribed
<1>3. CASE Reconnect
  <2>1. /\ UNCHANGED <<session, backlog, cmdq, topic, dc>>
        /\ down' = <<>>
        /\ topic # "none" => up' = <<Subscribe(topic)>>
    BY <1>3 DEF Reconnect, Connect, nodeVars, sessionVars
  <2>2. topic \notin {"none", "sensors"} => InFlight("subscribe_command")'
    <3>1. topic # "none" => 1 \in 1 .. Len(up') /\ up'[1] = Subscribe(topic)
      BY <2>1
    <3>2. topic # "sensors" => Subscribe(topic).type = "subscribe_command"
      BY DEF Subscribe
    <3>3. QED
      BY <3>1, <3>2 DEF InFlight
  <2>3. QED
    BY <2>1, <2>2, NothingInFlight DEF SubscriptionInv, OnItsWay, Subscribed
<1>4. QED
  BY <1>1, <1>2, <1>3

LEMMA SubscriptionCommand ==
    ASSUME TypeInv, SubscriptionInv, ProcessCommand
    PROVE  SubscriptionInv'
<1>1. cmdq # <<>> /\ Subscribed
  BY DEF TypeInv, Data, SubscriptionInv, ProcessCommand, handle_set_confirm_uplink,
         HandleQuery, OtaReboots, FactoryReset, Pending
<1>2. ASSUME Processed
      PROVE  SubscriptionInv'
  BY <1>1, <1>2 DEF SubscriptionInv, OnItsWay, Subscribed, Processed, sessionVars
<1>3. QED
  BY <1>2, SubscriptionReset DEF ProcessCommand, handle_set_confirm_uplink, HandleQuery,
     OtaReboots, FactoryReset

LEMMA SubscriptionBroker ==
    ASSUME TypeInv, SubscriptionInv, BrokerSide, UNCHANGED nodeVars
    PROVE  SubscriptionInv'
<1> UNCHANGED <<dc, topic, cmdq>>
  BY DEF nodeVars
<1>1. CASE ServerSend
  BY <1>1 DEF ServerSend, SubscriptionInv, OnItsWay, Subscribed
<1>2. CASE BrokerPush
  BY <1>2 DEF BrokerPush, SubscriptionInv, OnItsWay, Subscribed
<1>3. CASE BrokerReceive
  <2>1. /\ UNCHANGED link
        /\ up # <<>> /\ up' = Tail(up)
        /\ up \in Seq(Packet) /\ down \in Seq(Message) /\ backlog \in Seq(Message)
    BY <1>3 DEF BrokerReceive, TypeInv, Data
  <2>2. InFlight("subscribe_command") =>
           InFlight("subscribe_command")' \/ Head(up).type = "subscribe_command"
    BY <2>1, TailOfUp
  <2>3. CASE ReceiveSubscribe(Head(up))
    <3>1. UNCHANGED <<down, backlog>>
      BY <2>3 DEF ReceiveSubscribe
    <3>2. /\ Subscribed => Subscribed'
          /\ Head(up).type = "subscribe_command" => Subscribed'
      BY <2>3 DEF ReceiveSubscribe, Subscribed
    <3>3. QED
      BY <2>1, <2>2, <3>1, <3>2, SameInFlight DEF SubscriptionInv, OnItsWay
  <2>4. CASE ReceiveSensors(Head(up))
    <3>1. UNCHANGED <<session, backlog>> /\ Head(up).type = "sensors"
      BY <2>4 DEF ReceiveSensors
    <3>2. Incoming("command")' => Incoming("command")
      <4>1. CASE down' = down
        BY <4>1, SameInFlight
      <4>2. CASE down' = Append(down, Loopback)
        BY <2>1, <4>2, AppendToDown, MessageType DEF Loopback
      <4>3. QED
        BY <2>4, <4>1, <4>2 DEF ReceiveSensors
    <3>3. QED
      BY <2>1, <2>2, <3>1, <3>2 DEF SubscriptionInv, OnItsWay, Subscribed
  <2>5. CASE ReceivePuback(Head(up))
    <3>1. /\ UNCHANGED <<session, down>> /\ Head(up).type = "puback"
          /\ backlog' # <<>> => backlog # <<>>
      BY <2>5 DEF ReceivePuback
    <3>2. QED
      BY <2>1, <2>2, <3>1, SameInFlight DEF SubscriptionInv, OnItsWay, Subscribed
  <2>6. QED
    BY <1>3, <2>3, <2>4, <2>5 DEF BrokerReceive
<1>4. CASE LinkDrop
  BY <1>4, NothingInFlight DEF LinkDrop, Hangup, SubscriptionInv, OnItsWay, Subscribed
<1>5. QED
  BY <1>1, <1>2, <1>3, <1>4 DEF BrokerSide

LEMMA SubscriptionStep == TypeInv /\ SubscriptionInv /\ [Next]_vars => SubscriptionInv'
<1> SUFFICES ASSUME TypeInv, SubscriptionInv, [Next]_vars
             PROVE  SubscriptionInv'
  OBVIOUS
<1>1. CASE Environment
  BY <1>1, SubscriptionBroker, SubscriptionReset
     DEF Environment, BrokerSide, CommandSent, MessageSent, PacketReceived,
         ConnectionLost, Provision, Reset
<1>2. CASE UNCHANGED vars
  BY <1>2, SubscriptionSame, SameInFlight DEF vars, nodeVars, brokerVars
<1>3. QED
  BY <1>1, <1>2, SubscriptionSetup, SubscriptionDutyCycle, SubscriptionNetwork,
     SubscriptionCommand DEF Next, Loop

LEMMA Subscription == Spec => []SubscriptionInv
BY Types, SubscriptionInit, SubscriptionStep, PTL DEF Spec

\* A connected node that has nothing more to say is subscribed to its commands,
\* although a reconnection subscribes to one topic only (esp_network.cpp:150-151).
THEOREM ReconnectionKeepsCommands == Spec => []ConnectedIsSubscribed
<1>1. SubscriptionInv => ConnectedIsSubscribed
  BY NothingInFlight DEF SubscriptionInv, OnItsWay, Subscribed, ConnectedIsSubscribed
<1>2. QED
  BY <1>1, Subscription, PTL

-----------------------------------------------------------------------------
(* Every cycle is attributed once *)

\* CycleAttribution looks at the end of a cycle.  Inside one, the cycle is not
\* accounted for until it publishes or fails.
AttributionInv ==
    build = "standby" =>
        /\ pc \notin {"setup", "loop"}
        /\ pc = "off" => dc = ZeroCounters /\ cycles = 0
        /\ pc \in {"provision", "cycle", "publish", "standby"} => Accounts(dc, cycles)
        /\ pc \in {"window", "process"} => Accounts(dc, Inc(cycles))

LEMMA EndingsType ==
    ASSUME NEW d \in Counters
    PROVE  /\ Endings(d) \in Int
           /\ 0 <= Endings(d)
           /\ Endings(d) <= 4 * (CounterModulus - 1)
BY CounterModulusAssumption DEF Endings, Counters, Counter

\* One more ending is one more cycle, wherever the counters wrap.
LEMMA OneMore ==
    ASSUME NEW d \in Counters, NEW e \in Counters, NEW n \in Counter, Accounts(d, n),
           \/ Endings(e) = Endings(d) + 1
           \/ Endings(e) = Endings(d) + 1 - CounterModulus
    PROVE  Accounts(e, Inc(n))
<1> DEFINE M == CounterModulus
<1>1. M \in Nat \ {0} /\ n \in 0 .. M - 1
  BY CounterModulusAssumption DEF Counter
<1>2. /\ Endings(e) \in Int /\ 0 <= Endings(e) /\ Endings(e) <= 4 * (M - 1)
      /\ Endings(d) \in Int
  BY EndingsType
<1>3. \/ Endings(d) = n
      \/ Endings(d) = n + M
      \/ Endings(d) = n + 2 * M
      \/ Endings(d) = n + 3 * M
  BY <1>1 DEF Accounts
<1>4. Inc(n) = n + 1 \/ (Inc(n) = n + 1 - M /\ Inc(n) = 0)
  BY <1>1 DEF Inc
<1>5. \/ Endings(e) = Inc(n)
      \/ Endings(e) = Inc(n) + M
      \/ Endings(e) = Inc(n) + 2 * M
      \/ Endings(e) = Inc(n) + 3 * M
  BY <1>1, <1>2, <1>3, <1>4, SMTT(60) DEF Inc
<1>6. QED
  BY <1>1, <1>5 DEF Accounts

LEMMA IncEnding ==
    ASSUME NEW n \in Counter
    PROVE  Inc(n) \in Int /\ (Inc(n) = n + 1 \/ Inc(n) = n + 1 - CounterModulus)
BY CounterModulusAssumption DEF Inc, Counter

\* Each of the four ways to end a cycle bumps exactly one of the four counters.
LEMMA EachBumpsOne ==
    ASSUME NEW d \in Counters, NEW ok \in BOOLEAN
    PROVE  \A e \in {note_sensor_fail(d), note_missed_wake(note_wifi_fail(d)),
                     note_missed_wake(note_mqtt_fail(d)),
                     clear_missed_wakes(Published(d, ok))} :
              \/ Endings(e) = Endings(d) + 1
              \/ Endings(e) = Endings(d) + 1 - CounterModulus
<1>1. /\ d.wifi_fail \in Counter /\ d.mqtt_fail \in Counter
      /\ d.sensor_fail \in Counter /\ d.seq \in Counter
  BY DEF Counters
<1>2. /\ d.wifi_fail \in Int /\ d.mqtt_fail \in Int
      /\ d.sensor_fail \in Int /\ d.seq \in Int /\ CounterModulus \in Int
  BY <1>1, CounterModulusAssumption DEF Counter
<1>3. Endings(d) = d.wifi_fail + d.mqtt_fail + d.sensor_fail + d.seq
  BY DEF Endings
<1>4. \/ Endings(note_sensor_fail(d)) = Endings(d) + 1
      \/ Endings(note_sensor_fail(d)) = Endings(d) + 1 - CounterModulus
  <2>1. Endings(note_sensor_fail(d)) = d.wifi_fail + d.mqtt_fail + Inc(d.sensor_fail) + d.seq
    BY DEF Endings, note_sensor_fail, Counters
  <2>2. /\ Inc(d.sensor_fail) \in Int
        /\ \/ Inc(d.sensor_fail) = d.sensor_fail + 1
           \/ Inc(d.sensor_fail) = d.sensor_fail + 1 - CounterModulus
    BY <1>1, IncEnding
  <2>3. QED
    BY <1>2, <1>3, <2>1, <2>2, SMTT(60)
<1>5. LET e == note_missed_wake(note_wifi_fail(d))
      IN  \/ Endings(e) = Endings(d) + 1
          \/ Endings(e) = Endings(d) + 1 - CounterModulus
  <2>1. Endings(note_missed_wake(note_wifi_fail(d)))
           = Inc(d.wifi_fail) + d.mqtt_fail + d.sensor_fail + d.seq
    BY DEF Endings, note_missed_wake, note_wifi_fail, Counters
  <2>2. /\ Inc(d.wifi_fail) \in Int
        /\ \/ Inc(d.wifi_fail) = d.wifi_fail + 1
           \/ Inc(d.wifi_fail) = d.wifi_fail + 1 - CounterModulus
    BY <1>1, IncEnding
  <2>3. QED
    BY <1>2, <1>3, <2>1, <2>2, SMTT(60)
<1>6. LET e == note_missed_wake(note_mqtt_fail(d))
      IN  \/ Endings(e) = Endings(d) + 1
          \/ Endings(e) = Endings(d) + 1 - CounterModulus
  <2>1. Endings(note_missed_wake(note_mqtt_fail(d)))
           = d.wifi_fail + Inc(d.mqtt_fail) + d.sensor_fail + d.seq
    BY DEF Endings, note_missed_wake, note_mqtt_fail, Counters
  <2>2. /\ Inc(d.mqtt_fail) \in Int
        /\ \/ Inc(d.mqtt_fail) = d.mqtt_fail + 1
           \/ Inc(d.mqtt_fail) = d.mqtt_fail + 1 - CounterModulus
    BY <1>1, IncEnding
  <2>3. QED
    BY <1>2, <1>3, <2>1, <2>2, SMTT(60)
<1>7. LET e == clear_missed_wakes(Published(d, ok))
      IN  \/ Endings(e) = Endings(d) + 1
          \/ Endings(e) = Endings(d) + 1 - CounterModulus
  <2>1. Endings(clear_missed_wakes(Published(d, ok)))
           = d.wifi_fail + d.mqtt_fail + d.sensor_fail + Inc(d.seq)
    BY DEF Endings, clear_missed_wakes, Published, note_publish, next_publish_seq,
           note_tx_sent, Counters
  <2>2. /\ Inc(d.seq) \in Int
        /\ \/ Inc(d.seq) = d.seq + 1
           \/ Inc(d.seq) = d.seq + 1 - CounterModulus
    BY <1>1, IncEnding
  <2>3. QED
    BY <1>2, <1>3, <2>1, <2>2, SMTT(60)
<1>8. QED
  BY <1>4, <1>5, <1>6, <1>7

\* The other helpers bump none of them.
LEMMA OthersBumpNone ==
    ASSUME NEW d \in Counters
    PROVE  /\ Endings(note_boot_nds(note_boot(d))) = Endings(d)
           /\ Endings(note_tx_confirmed(d)) = Endings(d)
           /\ \A on \in BOOLEAN : Endings(set_confirm_uplink(d, on)) = Endings(d)
BY DEF Endings, note_boot, note_boot_nds, note_tx_confirmed, set_confirm_uplink, Counters

LEMMA NothingToAccountFor == Accounts(ZeroCounters, 0)
BY CounterModulusAssumption DEF Accounts, Endings, ZeroCounters

LEMMA AttributionStep == TypeInv /\ AttributionInv /\ [Next]_vars => AttributionInv'
<1> SUFFICES ASSUME TypeInv, AttributionInv, [Next]_vars
             PROVE  AttributionInv'
  OBVIOUS
<1> dc \in Counters /\ dc' \in Counters /\ cycles \in Counter
  BY TypeInvStep DEF TypeInv, Data
<1> USE DEF AttributionInv
<1>1. CASE build # "standby"
  <2>1. build' = build
    BY DEF Next, Loop, DutyCycle, Setup, Environment, ProcessCommand, Boot, SetupFails,
           SetupConnects, Wake, SensorFails, WifiFails, MqttFails, EndCycle, Connects,
           CyclePublish, WindowClose, LoopPublish, Pump, Reconnect,
           handle_set_confirm_uplink, HandleQuery, Processed, OtaReboots, FactoryReset,
           ResetNode,
           CommandSent, MessageSent, PacketReceived, ConnectionLost, Provision, Reset,
           vars, nodeVars
  <2>2. QED
    BY <1>1, <2>1
<1>2. ASSUME ResetNode PROVE AttributionInv'
  BY <1>2 DEF ResetNode
<1>3. ASSUME build = "standby", pc \in {"cycle", "window"}, NEW d, EndCycle(d),
             Accounts(d, Inc(cycles))
      PROVE  AttributionInv'
  BY <1>3 DEF EndCycle
<1>4. CASE build = "standby" /\ Setup
  <2>1. Accounts(ZeroCounters, 0) /\ ZeroCounters \in Counters
    BY NothingToAccountFor, ZeroCountersType
  <2>2. CASE Boot
    <3>1. Endings(dc') = Endings(ZeroCounters) /\ cycles' = 0
      BY <1>4, <2>1, <2>2, OthersBumpNone DEF Boot
    <3>2. Accounts(dc', cycles')
      BY <2>1, <3>1 DEF Accounts
    <3>3. QED
      BY <1>4, <2>2, <3>2 DEF Boot
  <2>3. QED
    BY <1>4, <2>2 DEF Setup, SetupFails, SetupConnects
<1>5. CASE build = "standby" /\ DutyCycle
  <2>1. ASSUME NEW e \in Counters, Accounts(dc, cycles),
               \/ Endings(e) = Endings(dc) + 1
               \/ Endings(e) = Endings(dc) + 1 - CounterModulus
        PROVE  Accounts(e, Inc(cycles))
    BY <2>1, OneMore
  <2>2. CASE Wake
    BY <1>5, <2>2 DEF Wake
  <2>3. CASE SensorFails
    BY <1>3, <1>5, <2>1, <2>3, EachBumpsOne, CountersType DEF SensorFails
  <2>4. CASE WifiFails
    BY <1>3, <1>5, <2>1, <2>4, EachBumpsOne, CountersType DEF WifiFails
  <2>5. CASE MqttFails
    BY <1>3, <1>5, <2>1, <2>5, EachBumpsOne, CountersType DEF MqttFails
  <2>6. CASE Connects
    BY <1>5, <2>6 DEF Connects
  <2>7. CASE CyclePublish
    <3>1. PICK ok \in BOOLEAN : dc' = clear_missed_wakes(Published(dc, ok))
      BY <2>7 DEF CyclePublish
    <3>2. Accounts(dc', Inc(cycles))
      BY <1>5, <2>1, <2>7, <3>1, EachBumpsOne DEF CyclePublish
    <3>3. QED
      BY <2>7, <3>2 DEF CyclePublish
  <2>8. CASE WindowClose
    <3> DEFINE e == IF dc.confirm /\ confirmed THEN note_tx_confirmed(dc) ELSE dc
    <3>1. Endings(e) = Endings(dc)
      BY OthersBumpNone
    <3>2. Accounts(e, Inc(cycles))
      BY <1>5, <2>8, <3>1 DEF WindowClose, Accounts
    <3>3. QED
      BY <1>3, <1>5, <2>8, <3>2 DEF WindowClose
  <2>9. QED
    BY <1>5, <2>2, <2>3, <2>4, <2>5, <2>6, <2>7, <2>8 DEF DutyCycle
<1>6. CASE build = "standby" /\ ProcessCommand
  <2>1. ASSUME Processed, pc = "process", Endings(dc') = Endings(dc)
        PROVE  AttributionInv'
    <3>1. Accounts(dc', Inc(cycles))
      BY <1>6, <2>1 DEF Accounts
    <3>2. QED
      BY <1>6, <2>1, <3>1 DEF Processed, Listening
  <2>2. CASE handle_set_confirm_uplink
    <3>1. (Head(cmdq).cmd.value # 0) \in BOOLEAN
      OBVIOUS
    <3>2. Endings(dc') = Endings(dc)
      BY <2>2, <3>1, OthersBumpNone DEF handle_set_confirm_uplink
    <3>3. QED
      BY <2>1, <2>2, <3>2 DEF handle_set_confirm_uplink, Pending
  <2>3. CASE HandleQuery
    BY <2>1, <2>3 DEF HandleQuery, Pending
  <2>4. CASE OtaReboots \/ FactoryReset
    BY <1>2, <2>4 DEF OtaReboots, FactoryReset
  <2>5. QED
    BY <1>6, <2>2, <2>3, <2>4 DEF ProcessCommand
<1>7. CASE build = "standby" /\ (LoopPublish \/ Pump \/ Reconnect)
  BY <1>7 DEF LoopPublish, Pump, Reconnect, Listening, nodeVars
<1>8. CASE Environment
  BY <1>2, <1>8 DEF Environment, CommandSent, MessageSent, PacketReceived,
     ConnectionLost, Provision, Reset, nodeVars
<1>9. CASE UNCHANGED vars
  BY <1>9 DEF vars, nodeVars
<1>10. QED
  BY <1>1, <1>4, <1>5, <1>6, <1>7, <1>8, <1>9 DEF Next, Loop

\* Over any number of duty cycles, and any number of wraps of 32-bit counters, every
\* cycle is exactly one of a publish, a WiFi, an MQTT and a sensor failure.
THEOREM CyclesAttributedOnce == Spec => []CycleAttribution
<1>1. Init => AttributionInv
  BY DEF Init, AttributionInv
<1>2. AttributionInv /\ DeliveryInv /\ TypeInv => CycleAttribution
  BY DEF AttributionInv, DeliveryInv, CycleAttribution, TypeInv, Data, Builds
<1>3. QED
  BY <1>1, <1>2, Types, Delivery, AttributionStep, PTL DEF Spec

-----------------------------------------------------------------------------
(* Only a reset takes a command from the node *)

\* OnlyResetLosesCommands needs to know that a command which the broker is about to
\* forget, since its PUBACK is on the way, is queued or done; and for that, that the
\* queue is empty, never full, when the callback appends to it.
Acknowledged(i) == \E k \in 1 .. Len(up) : up[k].type = "puback" /\ up[k].arg = i

CommandInv ==
    /\ pc # "process" => cmdq = <<>>
    /\ \A i : Acknowledged(i) => i \in done \/ Holds(cmdq, i)

\* What a step may not take from the node.
TakesNone == \A i \in 1 .. sent : Kept(i) => i \in done' \/ Kept(i)'

KeepsCommands == pc' # "off" => TakesNone

LEMMA CommandInit == Init => CommandInv
BY DEF Init, BrokerInit, CommandInv, Acknowledged

\* A reset and the end of a duty cycle leave nothing in flight.
LEMMA CommandReset ==
    ASSUME CommandInv, ResetNode
    PROVE  CommandInv' /\ KeepsCommands
BY DEF CommandInv, Acknowledged, ResetNode, Hangup, KeepsCommands

\* A step that touches neither queue nor backlog and sends no acknowledgement.
LEMMA CommandSame ==
    ASSUME CommandInv, UNCHANGED <<cmdq, done, backlog>>,
           pc' = "process" => pc = "process",
           pc' # "process" => pc # "process",
           \A i : Acknowledged(i)' => Acknowledged(i)
    PROVE  CommandInv' /\ KeepsCommands /\ TakesNone
BY DEF CommandInv, KeepsCommands, TakesNone, Kept, Holds

LEMMA CommandEndCycle ==
    ASSUME CommandInv, pc # "process", NEW d, EndCycle(d)
    PROVE  CommandInv' /\ KeepsCommands
<1>1. \A i : ~Acknowledged(i)'
  BY DEF EndCycle, Hangup, Acknowledged
<1>2. QED
  BY <1>1, CommandSame DEF EndCycle, ramVars, sessionVars

\* Subscriptions and publishes are no acknowledgements.
LEMMA NoAcknowledgement ==
    /\ up' = up => \A i : Acknowledged(i)' => Acknowledged(i)
    /\ up' \in {<<>>, <<Subscribe("command")>>, <<Subscribe("sensors")>>,
                <<Subscribe("command"), Subscribe("sensors")>>}
          => \A i : ~Acknowledged(i)'
BY DEF Acknowledged, Subscribe

LEMMA PublishAcknowledgesNothing ==
    ASSUME up \in Seq(Packet), NEW ok \in BOOLEAN, publish_sensor_data(ok)
    PROVE  \A i : Acknowledged(i)' => Acknowledged(i)
BY DEF publish_sensor_data, Publish, Sensors, Acknowledged

LEMMA CommandSetup ==
    ASSUME CommandInv, Setup
    PROVE  CommandInv' /\ KeepsCommands
<1>1. CASE Boot \/ SetupFails
  BY <1>1, CommandSame, NoAcknowledgement
     DEF Boot, SetupFails, ramVars, linkVars, sessionVars
<1>2. CASE SetupConnects
  BY <1>2, CommandSame, NoAcknowledgement DEF SetupConnects, Connect, sessionVars
<1>3. QED
  BY <1>1, <1>2 DEF Setup

LEMMA CommandDutyCycle ==
    ASSUME TypeInv, CommandInv, DutyCycle
    PROVE  CommandInv' /\ KeepsCommands
<1>1. CASE Wake
  BY <1>1, CommandSame, NoAcknowledgement DEF Wake, ramVars, linkVars, sessionVars
<1>2. CASE SensorFails \/ WifiFails \/ MqttFails \/ WindowClose
  BY <1>2, CommandEndCycle DEF SensorFails, WifiFails, MqttFails, WindowClose
<1>3. CASE Connects
  <2>1. up' \in {<<Subscribe("command")>>, <<Subscribe("command"), Subscribe("sensors")>>}
    BY <1>3 DEF Connects, Connect
  <2>2. QED
    BY <1>3, <2>1, CommandSame, NoAcknowledgement DEF Connects, sessionVars
<1>4. CASE CyclePublish
  <2>1. PICK ok \in BOOLEAN : publish_sensor_data(ok)
    BY <1>4 DEF CyclePublish
  <2>2. QED
    BY <1>4, <2>1, PublishAcknowledgesNothing, CommandSame
       DEF CyclePublish, sessionVars, TypeInv, Data
<1>5. QED
  BY <1>1, <1>2, <1>3, <1>4 DEF DutyCycle

\* The callback finds an empty queue, so what the client acknowledges is queued.
LEMMA CommandPump ==
    ASSUME TypeInv, CommandInv, Pump
    PROVE  CommandInv' /\ KeepsCommands
<1> DEFINE m == Head(down)
<1>1. /\ m \in Message /\ up \in Seq(Packet)
      /\ cmdq = <<>>
      /\ UNCHANGED <<done, backlog>>
  BY DEF TypeInv, Data, CommandInv, Pump, Listening, sessionVars
<1>2. cmdq' = IF m.topic = "command" THEN <<m>> ELSE <<>>
  BY <1>1, LoopNodeAssumption DEF Pump, on_mqtt_message
<1>3. up' = IF m.topic = "command" THEN Append(up, Puback(m.id)) ELSE up
  BY DEF Pump
<1>4. m.topic = "command" => Holds(cmdq', m.id)
  BY <1>2 DEF Holds
<1> HIDE DEF m
<1>5. \A i : Acknowledged(i)' => Acknowledged(i) \/ (m.topic = "command" /\ i = m.id)
  BY <1>1, <1>3 DEF Acknowledged, Puback
<1>6. \A i : ~Holds(cmdq, i)
  BY <1>1 DEF Holds
<1>7. \A i : Acknowledged(i)' => i \in done' \/ Holds(cmdq', i)
  BY <1>1, <1>4, <1>5, <1>6 DEF CommandInv
<1>8. pc' # "process" => cmdq' = <<>>
  BY DEF Pump
<1>9. KeepsCommands
  BY <1>1, <1>6 DEF KeepsCommands, TakesNone, Kept, Holds
<1>10. QED
  BY <1>7, <1>8, <1>9 DEF CommandInv

LEMMA CommandNetwork ==
    ASSUME TypeInv, CommandInv, LoopPublish \/ Reconnect
    PROVE  CommandInv' /\ KeepsCommands
<1>1. CASE LoopPublish
  <2>1. PICK ok \in BOOLEAN : publish_sensor_data(ok)
    BY <1>1 DEF LoopPublish
  <2>2. QED
    BY <1>1, <2>1, PublishAcknowledgesNothing, CommandSame
       DEF LoopPublish, sessionVars, TypeInv, Data
<1>2. CASE Reconnect
  <2>1. up' \in {<<>>, <<Subscribe("command")>>, <<Subscribe("sensors")>>}
    BY <1>2 DEF Reconnect, Connect, TypeInv, Data, Topics
  <2>2. QED
    BY <1>2, <2>1, CommandSame, NoAcknowledgement DEF Reconnect, nodeVars, sessionVars
<1>3. QED
  BY <1>1, <1>2

\* The command that leaves the queue is done.
LEMMA CommandProcessed ==
    ASSUME TypeInv, CommandInv, ProcessCommand
    PROVE  CommandInv' /\ KeepsCommands
<1>1. CASE OtaReboots \/ FactoryReset
  BY <1>1, CommandReset DEF OtaReboots, FactoryReset
<1>2. CASE Processed
  <2>1. /\ cmdq' = Tail(cmdq) /\ done' = done \cup {Head(cmdq).id}
        /\ UNCHANGED <<up, backlog>>
        /\ pc' # "process" => cmdq' = <<>>
    BY <1>2 DEF Processed, linkVars, sessionVars
  <2>2. cmdq \in Seq(Queued) /\ cmdq # <<>>
    BY DEF TypeInv, Data, ProcessCommand, handle_set_confirm_uplink, HandleQuery,
           OtaReboots, FactoryReset, Pending
  <2>3. ASSUME NEW i, Holds(cmdq, i)
        PROVE  i \in done' \/ Holds(cmdq', i)
    <3>1. PICK k \in 1 .. Len(cmdq) : cmdq[k].id = i
      BY <2>3 DEF Holds
    <3>2. CASE k = 1
      BY <2>1, <2>2, <3>1, <3>2
    <3>3. CASE k # 1
      <4>1. k - 1 \in 1 .. Len(cmdq') /\ cmdq'[k - 1] = cmdq[k]
        BY <2>1, <2>2, <3>1, <3>3
      <4>2. QED
        BY <3>1, <4>1 DEF Holds
    <3>4. QED
      BY <3>2, <3>3
  <2>4. \A i : i \in done => i \in done'
    BY <2>1
  <2>5. \A i : Acknowledged(i)' => Acknowledged(i)
    BY <2>1, NoAcknowledgement
  <2>6. CommandInv'
    BY <2>1, <2>3, <2>4, <2>5 DEF CommandInv
  <2>7. KeepsCommands
    BY <2>1, <2>3 DEF KeepsCommands, TakesNone, Kept
  <2>8. QED
    BY <2>6, <2>7
<1>3. QED
  BY <1>1, <1>2 DEF ProcessCommand, handle_set_confirm_uplink, HandleQuery

LEMMA CommandBroker ==
    ASSUME TypeInv, CommandInv,
           \/ CommandSent \/ MessageSent \/ PacketReceived \/ ConnectionLost
    PROVE  CommandInv' /\ KeepsCommands /\ TakesNone
<1>1. UNCHANGED <<pc, cmdq, done>>
  BY DEF CommandSent, MessageSent, PacketReceived, ConnectionLost, nodeVars
<1>2. backlog \in Seq(Message) /\ up \in Seq(Packet)
  BY DEF TypeInv, Data
<1>3. CASE CommandSent
  <2>1. PICK c \in Commands : backlog' = Append(backlog, CommandMessage(sent + 1, c))
    BY <1>3 DEF CommandSent, ServerSend
  <2>2. Len(backlog') = Len(backlog) + 1
        /\ \A k \in 1 .. Len(backlog) : backlog'[k] = backlog[k]
    BY <1>2, <2>1
  <2>3. \A i : Holds(backlog, i) => Holds(backlog', i)
    BY <1>2, <2>2 DEF Holds
  <2>4. TakesNone
    BY <1>1, <2>3 DEF TakesNone, Kept
  <2>5. \A i : Acknowledged(i)' => Acknowledged(i)
    BY <1>3, NoAcknowledgement DEF CommandSent, ServerSend
  <2>6. QED
    BY <1>1, <2>4, <2>5 DEF CommandInv, KeepsCommands
<1>4. CASE MessageSent
  BY <1>1, <1>4, CommandSame, NoAcknowledgement DEF MessageSent, BrokerPush
<1>5. CASE ConnectionLost
  BY <1>1, <1>5, CommandSame, NoAcknowledgement DEF ConnectionLost, LinkDrop, Hangup
<1>6. CASE PacketReceived
  <2>1. up # <<>> /\ up' = Tail(up)
    BY <1>6 DEF PacketReceived, BrokerReceive
  <2>2. \A i : Acknowledged(i)' => Acknowledged(i)
    BY <1>2, <2>1 DEF Acknowledged
  <2>3. CASE UNCHANGED backlog
    BY <1>1, <2>2, <2>3, CommandSame
  <2>4. CASE ~UNCHANGED backlog
    <3>1. /\ Head(up).type = "puback"
          /\ backlog # <<>> /\ backlog' = Tail(backlog)
          /\ Head(backlog).id = Head(up).arg
      BY <1>6, <2>4 DEF PacketReceived, BrokerReceive, ReceiveSubscribe, ReceiveSensors,
                        ReceivePuback
    <3>2. Acknowledged(Head(up).arg)
      BY <1>2, <2>1, <3>1 DEF Acknowledged
    <3>3. Head(up).arg \in done' \/ Holds(cmdq', Head(up).arg)
      BY <1>1, <3>2 DEF CommandInv
    <3>4. ASSUME NEW i, Holds(backlog, i), i # Head(up).arg
          PROVE  Holds(backlog', i)
      <4>1. PICK k \in 1 .. Len(backlog) : backlog[k].id = i
        BY <3>4 DEF Holds
      <4>2. k # 1
        BY <1>2, <3>1, <3>4, <4>1
      <4>3. k - 1 \in 1 .. Len(backlog') /\ backlog'[k - 1] = backlog[k]
        BY <1>2, <3>1, <4>2
      <4>4. QED
        BY <4>1, <4>3 DEF Holds
    <3>5. \A i : Kept(i) => i \in done' \/ Kept(i)'
      BY <1>1, <3>3, <3>4 DEF Kept
    <3>6. QED
      BY <1>1, <2>2, <3>5 DEF CommandInv, KeepsCommands, TakesNone
  <2>5. QED
    BY <2>3, <2>4
<1>7. QED
  BY <1>3, <1>4, <1>5, <1>6

LEMMA CommandStep ==
    TypeInv /\ CommandInv /\ [Next]_vars => CommandInv' /\ KeepsCommands
<1> SUFFICES ASSUME TypeInv, CommandInv, [Next]_vars
             PROVE  CommandInv' /\ KeepsCommands
  OBVIOUS
<1>1. CASE Setup
  BY <1>1, CommandSetup
<1>2. CASE DutyCycle
  BY <1>2, CommandDutyCycle
<1>3. CASE LoopPublish \/ Pump \/ Reconnect
  BY <1>3, CommandNetwork, CommandPump
<1>4. CASE ProcessCommand
  BY <1>4, CommandProcessed
<1>5. CASE CommandSent \/ MessageSent \/ PacketReceived \/ ConnectionLost
  BY <1>5, CommandBroker
<1>6. CASE Provision \/ Reset
  BY <1>6, CommandReset DEF Provision, Reset
<1>7. CASE UNCHANGED vars
  BY <1>7, CommandSame, NoAcknowledgement DEF vars, nodeVars, brokerVars
<1>8. QED
  BY <1>1, <1>2, <1>3, <1>4, <1>5, <1>6, <1>7 DEF Next, Loop, Environment

\* "The persistent session (and any still-undelivered commands) survives on the broker"
\* (docs/mqtt-protocol.md:260-261): whatever the network does, no step but a reset takes a
\* command from both the broker and the node before it is processed.
THEOREM CommandsOutliveTheLink == Spec => OnlyResetLosesCommands
<1>1. CommandInv /\ TypeInv /\ [Next]_vars
        => (pc' # "off" => \A i \in 1 .. sent : Kept(i) => i \in done' \/ Kept(i)')
  BY CommandStep DEF KeepsCommands, TakesNone
<1>2. QED
  BY <1>1, CommandInit, CommandStep, Types, PTL DEF Spec, OnlyResetLosesCommands

-----------------------------------------------------------------------------
(* The commands are served in order *)

\* In either build, through any loss and reset.  What was carried out has no gap but
\* among the commands acknowledged and lost; whatever was sent on this connection is
\* carried out, queued or in flight; the queue holds at most one command; and the one
\* being carried out is a repetition or newer than all before it, and every
\* unacknowledged one before it is carried out.
OrderInv ==
    /\ WireOrder
    /\ done \subseteq 1 .. sent
    /\ \A j \in done : \A i \in Acked + 1 .. j - 1 : i \in done
    /\ Len(cmdq) <= 1
    /\ pc # "process" => cmdq = <<>>
    /\ \A i \in Acked + 1 .. Acked + pushed :
          i \in done \/ Holds(cmdq, i) \/ Coming(down, i)
    /\ pc = "process" =>
          /\ Head(cmdq).id \in 1 .. sent
          /\ Head(cmdq).id \in done \/ \A j \in done : j < Head(cmdq).id
          /\ \A i \in Acked + 1 .. Head(cmdq).id - 1 : i \in done

LEMMA OrderInit == Init => OrderInv
BY WireOrderInit DEF Init, BrokerInit, OrderInv, Acked

\* The numbers the arguments below reason with.
LEMMA OrderTypes ==
    ASSUME TypeInv, OrderInv
    PROVE  BrokerTypeOK /\ WireOrder /\ Acked \in Nat /\ sent \in Nat /\ pushed \in Nat
<1>1. BrokerTypeOK /\ WireOrder
  BY TypeInvTypeOK DEF TypeOK, OrderInv
<1> QED BY <1>1, AckedType, CommandsAssumption DEF WireOrder, BrokerTypeOK

\* The connection starts over and the node is not carrying out a command.
LEMMA OrderRestart ==
    ASSUME TypeInv, OrderInv, UNCHANGED <<backlog, sent>>, pushed' = 0, down' = <<>>,
           \A k \in 1 .. Len(up') : up'[k].type # "puback",
           done' \subseteq 1 .. sent,
           \A j \in done' : \A i \in Acked + 1 .. j - 1 : i \in done',
           pc' # "process", cmdq' = <<>>
    PROVE  OrderInv'
<1>1. WireOrder' /\ Acked' = Acked /\ Acked \in Nat
  BY OrderTypes, WireOrderRestart DEF Acked
<1>2. Acked' + 1 .. Acked' + pushed' = {}
  BY <1>1
<1> QED BY <1>1, <1>2 DEF OrderInv

\* A step that leaves the queue and the session alone and sends no acknowledgement.
LEMMA OrderKept ==
    ASSUME TypeInv, OrderInv, UNCHANGED <<backlog, sent, pushed, down, done, cmdq>>,
           \A k \in 1 .. Len(up') :
              up'[k].type = "puback" => \E j \in 1 .. Len(up) : up[j] = up'[k],
           pc' = "process" <=> pc = "process"
    PROVE  OrderInv'
<1>1. WireOrder' /\ Acked' = Acked
  BY WireOrderSame DEF OrderInv, Acked
<1> QED BY <1>1 DEF OrderInv, Holds, Coming

LEMMA OrderReset ==
    ASSUME TypeInv, OrderInv, ResetNode, done' = done
    PROVE  OrderInv'
BY OrderRestart DEF OrderInv, ResetNode, Hangup, sessionVars

LEMMA OrderEndCycle ==
    ASSUME TypeInv, OrderInv, pc # "process", NEW d, EndCycle(d)
    PROVE  OrderInv'
BY OrderRestart DEF OrderInv, EndCycle, Hangup, ramVars, sessionVars

\* The client takes the oldest message in flight into the empty queue.
LEMMA OrderPump ==
    ASSUME TypeInv, OrderInv, Pump
    PROVE  OrderInv'
<1> DEFINE m == Head(down)
<1>1. /\ WireOrder' /\ Acked' = Acked /\ sent' = sent
      /\ down # <<>> /\ down' = Tail(down) /\ pushed' = pushed /\ done' = done
  <2>1. /\ down # <<>> /\ down' = Tail(down) /\ UNCHANGED <<backlog, sent, pushed, done>>
        /\ up' = IF IsCommand(m) THEN Append(up, Puback(m.id)) ELSE up
    BY DEF Pump, IsCommand, sessionVars
  <2>2. WireOrder'
    BY <2>1, OrderTypes, WireOrderTake
  <2>3. Acked' = Acked
    BY <2>1 DEF Acked
  <2> QED BY <2>1, <2>2, <2>3
<1>2. Acked \in Nat /\ sent \in Nat /\ pushed \in Nat /\ done \subseteq Nat
  BY OrderTypes DEF TypeInv, Data
<1>3. cmdq = <<>> /\ cmdq' = IF IsCommand(m) THEN <<m>> ELSE <<>>
  BY LoopNodeAssumption DEF OrderInv, Pump, Listening, on_mqtt_message, IsCommand
<1>4. pc' = IF IsCommand(m) THEN "process" ELSE Listening
  BY <1>3 DEF Pump
<1>5. /\ IsCommand(m) => /\ m.id \in Acked + 1 .. Acked + pushed
                         /\ m.id \in 1 .. sent
                         /\ \A i : Coming(down', i) => m.id < i
      /\ \A i : Coming(down, i) => (IsCommand(m) /\ i = m.id) \/ Coming(down', i)
  BY <1>1, OrderTypes, FirstInFlight
<1>6. \A i \in Acked + 1 .. Acked + pushed : i \in done \/ Coming(down, i)
  BY <1>3 DEF OrderInv, Holds
<1>7. IsCommand(m) => Holds(cmdq', m.id)
  BY <1>3 DEF Holds
<1> HIDE DEF m
<1>8. \A i \in Acked' + 1 .. Acked' + pushed' :
         i \in done' \/ Holds(cmdq', i) \/ Coming(down', i)
  BY <1>1, <1>5, <1>6, <1>7
<1>9. ASSUME IsCommand(m)
      PROVE  /\ m.id \in done \/ \A j \in done : j < m.id
             /\ \A i \in Acked + 1 .. m.id - 1 : i \in done
  <2>1. m.id \in Acked + 1 .. Acked + pushed /\ m.id \in Nat
    BY <1>2, <1>5, <1>9
  <2>2. ASSUME NEW j \in done, ~(j < m.id)
        PROVE  m.id \in done
    <3>1. j \in Nat /\ (j = m.id \/ m.id \in Acked + 1 .. j - 1)
      BY <1>2, <2>1, <2>2
    <3> QED BY <2>2, <3>1 DEF OrderInv
  <2>3. ASSUME NEW i \in Acked + 1 .. m.id - 1
        PROVE  i \in done
    <3>1. i \in Acked + 1 .. Acked + pushed /\ i < m.id
      BY <1>2, <2>1
    <3>2. ~Coming(down', i) /\ i # m.id
      <4>1. Coming(down', i) => m.id < i
        BY <1>5, <1>9
      <4> QED BY <1>2, <2>1, <3>1, <4>1
    <3> QED BY <1>5, <1>6, <3>1, <3>2
  <2> QED BY <2>2, <2>3
<1>10. IsCommand(m) => Head(cmdq') = m
  BY <1>3
<1>11. /\ done' \subseteq 1 .. sent'
       /\ \A j \in done' : \A i \in Acked' + 1 .. j - 1 : i \in done'
  BY <1>1 DEF OrderInv
<1>12. Len(cmdq') <= 1 /\ (pc' # "process" => cmdq' = <<>>)
  BY <1>3, <1>4 DEF Listening
<1>13. pc' = "process" =>
          /\ Head(cmdq').id \in 1 .. sent'
          /\ Head(cmdq').id \in done' \/ \A j \in done' : j < Head(cmdq').id
          /\ \A i \in Acked' + 1 .. Head(cmdq').id - 1 : i \in done'
  BY <1>1, <1>4, <1>5, <1>9, <1>10 DEF Listening
<1> QED BY <1>1, <1>8, <1>11, <1>12, <1>13 DEF OrderInv

\* What a command that is carried out adds to those before it.
LEMMA OrderDone ==
    ASSUME TypeInv, OrderInv, pc = "process"
    PROVE  LET after == done \cup {Head(cmdq).id}
           IN  /\ after \subseteq 1 .. sent
               /\ \A j \in after : \A i \in Acked + 1 .. j - 1 : i \in after
               /\ \A i : Holds(cmdq, i) => i \in after
               /\ Tail(cmdq) = <<>>
<1>1. cmdq \in Seq(Queued) /\ cmdq # <<>> /\ Len(cmdq) <= 1
  BY DEF TypeInv, Data, OrderInv
<1>2. \A i : Holds(cmdq, i) => i = Head(cmdq).id
  BY <1>1 DEF Holds
<1>3. Tail(cmdq) = <<>>
  BY <1>1
<1> DEFINE c == Head(cmdq).id
<1>4. /\ c \in 1 .. sent /\ done \subseteq 1 .. sent
      /\ \A i \in Acked + 1 .. c - 1 : i \in done
      /\ \A j \in done : \A i \in Acked + 1 .. j - 1 : i \in done
  BY DEF OrderInv
<1> HIDE DEF c
<1>5. \A j \in done \cup {c} : \A i \in Acked + 1 .. j - 1 : i \in done \cup {c}
  BY <1>4
<1> QED BY <1>2, <1>3, <1>4, <1>5 DEF c

LEMMA CarriesOut ==
    ASSUME ProcessCommand
    PROVE  /\ pc = "process" /\ done' = done \cup {Head(cmdq).id} /\ UNCHANGED sessionVars
           /\ Processed \/ ResetNode
BY DEF ProcessCommand, handle_set_confirm_uplink, HandleQuery, OtaReboots, FactoryReset,
       Pending, Processed, ResetNode

LEMMA OrderProcess ==
    ASSUME TypeInv, OrderInv, ProcessCommand
    PROVE  OrderInv'
<1>1. /\ pc = "process" /\ done' = done \cup {Head(cmdq).id} /\ UNCHANGED sessionVars
      /\ Processed \/ ResetNode
  BY CarriesOut
<1>2. /\ done' \subseteq 1 .. sent
      /\ \A j \in done' : \A i \in Acked + 1 .. j - 1 : i \in done'
  BY <1>1, OrderDone
<1>3. CASE Processed
  <2>1. /\ UNCHANGED <<backlog, sent, pushed, down, up>> /\ cmdq' = Tail(cmdq)
        /\ pc' = IF Tail(cmdq) = <<>> THEN Listening ELSE "process"
    BY <1>3 DEF Processed, linkVars, sessionVars
  <2>2. WireOrder' /\ Acked' = Acked
    BY <2>1, WireOrderSame DEF OrderInv, Acked
  <2>3. cmdq' = <<>> /\ pc' # "process"
    BY <1>1, <2>1, OrderDone DEF Listening
  <2>4. \A i \in Acked + 1 .. Acked + pushed : i \in done' \/ Coming(down, i)
    BY <1>1, OrderDone DEF OrderInv
  <2>5. \A i \in Acked' + 1 .. Acked' + pushed' : i \in done' \/ Coming(down', i)
    BY <2>1, <2>2, <2>4
  <2>6. /\ done' \subseteq 1 .. sent'
        /\ \A j \in done' : \A i \in Acked' + 1 .. j - 1 : i \in done'
    BY <1>2, <2>1, <2>2
  <2> QED BY <2>2, <2>3, <2>5, <2>6 DEF OrderInv
<1>4. CASE ResetNode
  <2>1. /\ UNCHANGED <<backlog, sent>> /\ pushed' = 0 /\ down' = <<>> /\ up' = <<>>
        /\ cmdq' = <<>> /\ pc' # "process"
    BY <1>4 DEF ResetNode, Hangup, sessionVars
  <2> QED BY <1>2, <2>1, OrderRestart
<1> QED BY <1>1, <1>3, <1>4

\* What the broker does while the node is anywhere in loop().
LEMMA OrderBroker ==
    ASSUME TypeInv, OrderInv, CommandSent \/ MessageSent \/ PacketReceived
    PROVE  OrderInv'
<1>1. ServerSend \/ BrokerPush \/ BrokerReceive
  BY DEF CommandSent, MessageSent, PacketReceived
<1>2. UNCHANGED <<pc, cmdq, done>>
  BY DEF CommandSent, MessageSent, PacketReceived, nodeVars
<1>3. /\ WireOrder'
      /\ sent \in Nat /\ sent' \in Nat /\ sent <= sent'
      /\ Acked \in Nat /\ Acked' \in Nat /\ Acked <= Acked'
      /\ \A i : Coming(down, i) => Coming(down', i)
      /\ \A i \in Acked' + 1 .. Acked' + pushed' :
            i \in Acked + 1 .. Acked + pushed \/ Coming(down', i)
  BY <1>1, OrderTypes, BrokerMoves
<1>4. done' \subseteq 1 .. sent' /\ (Head(cmdq).id \in 1 .. sent => Head(cmdq).id \in 1 .. sent')
  BY <1>2, <1>3 DEF OrderInv
<1>5. \A j \in Nat : \A i \in Acked' + 1 .. j - 1 : i \in Acked + 1 .. j - 1
  BY <1>3, LaterStart
<1>6. \A j \in done' : \A i \in Acked' + 1 .. j - 1 : i \in done'
  BY <1>2, <1>5 DEF OrderInv, TypeInv, Data
<1>7. \A i \in Acked' + 1 .. Acked' + pushed' :
        i \in done' \/ Holds(cmdq', i) \/ Coming(down', i)
  BY <1>2, <1>3 DEF OrderInv
<1>8. pc' = "process" => \A i \in Acked' + 1 .. Head(cmdq').id - 1 : i \in done'
  <2> SUFFICES ASSUME pc = "process"
               PROVE  \A i \in Acked' + 1 .. Head(cmdq).id - 1 : i \in done
    BY <1>2
  <2>1. /\ Head(cmdq).id \in 1 .. sent
        /\ \A i \in Acked + 1 .. Head(cmdq).id - 1 : i \in done
    BY DEF OrderInv
  <2>2. Head(cmdq).id \in Nat
    BY <1>3, <2>1
  <2> QED BY <1>5, <2>1, <2>2
<1> QED BY <1>2, <1>3, <1>4, <1>6, <1>7, <1>8 DEF OrderInv

LEMMA OrderStep == TypeInv /\ OrderInv /\ [Next]_vars => OrderInv'
<1> SUFFICES ASSUME TypeInv, OrderInv, [Next]_vars PROVE OrderInv'
  OBVIOUS
<1>1. CASE Boot \/ SetupFails \/ Wake
  BY <1>1, OrderKept DEF Boot, SetupFails, Wake, ramVars, linkVars, sessionVars
<1>2. CASE SetupConnects \/ Connects \/ Reconnect
  <2>1. \A k \in 1 .. Len(up') : up'[k].type # "puback"
    BY <1>2 DEF SetupConnects, Connects, Reconnect, Connect, Subscribe
  <2>2. pc # "process" /\ pc' # "process" /\ cmdq' = cmdq /\ done' = done
    BY <1>2 DEF SetupConnects, Connects, Reconnect, nodeVars, Listening
  <2> QED
    BY <1>2, <2>1, <2>2, OrderRestart
       DEF OrderInv, SetupConnects, Connects, Reconnect, Connect, sessionVars
<1>3. CASE SensorFails \/ WifiFails \/ MqttFails \/ WindowClose
  BY <1>3, OrderEndCycle DEF SensorFails, WifiFails, MqttFails, WindowClose
<1>4. CASE CyclePublish \/ LoopPublish
  <2>1. \A k \in 1 .. Len(up') :
          up'[k].type = "puback" => \E j \in 1 .. Len(up) : up[j] = up'[k]
    <3>1. PICK ok \in BOOLEAN : publish_sensor_data(ok)
      BY <1>4 DEF CyclePublish, LoopPublish
    <3> QED BY <3>1 DEF TypeInv, Data, publish_sensor_data, Publish, Sensors
  <2> QED BY <1>4, <2>1, OrderKept DEF CyclePublish, LoopPublish, sessionVars
<1>5. CASE Provision \/ Reset
  BY <1>5, OrderReset DEF Provision, Reset
<1>6. CASE ConnectionLost
  <2>1. pc' = pc /\ cmdq' = cmdq /\ done' = done /\ UNCHANGED <<backlog, sent>>
    BY <1>6 DEF ConnectionLost, LinkDrop, nodeVars
  <2>2. up' = <<>> /\ down' = <<>> /\ pushed' = 0
    BY <1>6 DEF ConnectionLost, LinkDrop, Hangup
  <2>3. WireOrder' /\ Acked' = Acked /\ Acked \in Nat
    BY <2>1, <2>2, OrderTypes, WireOrderRestart DEF Acked
  <2>4. Acked' + 1 .. Acked' + pushed' = {}
    BY <2>2, <2>3
  <2> QED BY <2>1, <2>3, <2>4 DEF OrderInv
<1>7. CASE UNCHANGED vars
  BY <1>7, OrderKept DEF vars, nodeVars, brokerVars
<1> QED
  BY <1>1, <1>2, <1>3, <1>4, <1>5, <1>6, <1>7, OrderPump, OrderProcess, OrderBroker
     DEF Next, Setup, Loop, DutyCycle, Environment

LEMMA Order == Spec => []OrderInv
BY OrderInit, Types, OrderStep, PTL DEF Spec

\* Only the server accepts commands and only process_pending_commands() serves them.
LEMMA ServesBySteps ==
    ASSUME [Next]_vars, ~CommandSent, ~ProcessCommand
    PROVE  UNCHANGED Service!serviceVars
<1>1. CASE Setup \/ Loop
  BY <1>1
     DEF Setup, Boot, SetupFails, SetupConnects, Loop, DutyCycle, Wake, SensorFails, WifiFails,
         MqttFails, Connects, CyclePublish, WindowClose, LoopPublish, Pump, Reconnect,
         EndCycle, sessionVars, nodeVars, Service!serviceVars
<1>2. CASE Environment
  BY <1>2
     DEF Environment, MessageSent, BrokerPush, PacketReceived, BrokerReceive, ConnectionLost,
         LinkDrop, Provision, Reset, ResetNode, sessionVars, nodeVars, Service!serviceVars
<1>3. CASE UNCHANGED vars
  BY <1>3 DEF vars, nodeVars, brokerVars, Service!serviceVars
<1> QED BY <1>1, <1>2, <1>3 DEF Next

\* A step of the node or of the server, as a step of the service.
LEMMA ServesOrSkips ==
    ASSUME TypeInv, OrderInv, [Next]_vars
    PROVE  [Service!Accept \/ Service!ServeOrSkip]_(Service!serviceVars)
<1>1. CASE CommandSent
  BY <1>1 DEF CommandSent, ServerSend, nodeVars, Service!Accept
<1>2. CASE ProcessCommand
  <2>1. pc = "process" /\ done' = done \cup {Head(cmdq).id} /\ sent' = sent
    BY <1>2, CarriesOut DEF sessionVars
  <2>2. /\ Head(cmdq).id \in 1 .. sent
        /\ Head(cmdq).id \in done \/ \A j \in done : j < Head(cmdq).id
    BY <2>1 DEF OrderInv
  <2>3. CASE Head(cmdq).id \in done
    BY <2>1, <2>3 DEF Service!serviceVars
  <2>4. CASE \A j \in done : j < Head(cmdq).id
    BY <2>1, <2>2, <2>4 DEF Service!ServeOrSkip
  <2> QED BY <2>2, <2>3, <2>4
<1> QED BY <1>1, <1>2, ServesBySteps

\* "queued and processed in order" (docs/mqtt-protocol.md:536): in either build, through any
\* loss of the connection and any reset, the commands are carried out for the first time
\* in the order they were sent (on_mqtt_message, process_pending_commands, the session).
THEOREM LoopServesInOrder == Spec => ServedInOrder
<1>1. Init => Service!Init
  BY DEF Init, BrokerInit, Service!Init
<1> QED
  BY <1>1, Types, Order, ServesOrSkips, PTL
     DEF Spec, ServedInOrder, Service!LossySpec

-----------------------------------------------------------------------------
(* A node that is not reset serves every command *)

\* Everything but a loss of the RAM: the connection may be lost at any time, and the
\* node may reboot itself (a factory reset, an update, a provisioning).
NextWithoutReset == Next /\ ~Reset

NothingLost == \A i \in 1 .. sent : i \in done \/ Kept(i)

LEMMA NothingLostStep ==
    ASSUME TypeInv, OrderInv, CommandInv, NothingLost, [NextWithoutReset]_vars
    PROVE  NothingLost'
<1>1. done \subseteq done'
  BY CarriesOut, ServesBySteps
     DEF NextWithoutReset, Service!serviceVars, CommandSent, nodeVars
<1>2. CASE CommandSent
  <2>1. PICK c \in Commands : backlog' = Append(backlog, CommandMessage(sent + 1, c))
    BY <1>2 DEF CommandSent, ServerSend
  <2>2. sent \in Nat /\ sent' = sent + 1 /\ backlog \in Seq(Message)
    BY <1>2, OrderTypes DEF CommandSent, ServerSend, BrokerTypeOK
  <2>3. Len(backlog') = Len(backlog) + 1 /\ backlog'[Len(backlog) + 1].id = sent + 1
    BY <2>1, <2>2 DEF CommandMessage
  <2>4. Holds(backlog', sent')
    BY <2>2, <2>3 DEF Holds
  <2>5. \A i \in 1 .. sent' : i \in 1 .. sent \/ i = sent'
    BY <2>2
  <2> QED BY <1>1, <1>2, <2>4, <2>5, CommandBroker DEF NothingLost, Kept, TakesNone
<1>3. CASE ProcessCommand
  <2>1. /\ done' = done \cup {Head(cmdq).id} /\ UNCHANGED <<backlog, sent>>
        /\ \A i : Holds(cmdq, i) => i \in done'
    BY <1>3, CarriesOut, OrderDone DEF sessionVars
  <2> QED BY <2>1 DEF NothingLost, Kept
<1>4. ASSUME ~CommandSent, ~ProcessCommand, TakesNone
      PROVE  NothingLost'
  <2>1. sent' = sent
    BY <1>4, ServesBySteps DEF NextWithoutReset, Service!serviceVars
  <2> QED BY <1>1, <1>4, <2>1 DEF NothingLost, TakesNone
<1>5. CASE MessageSent \/ PacketReceived \/ ConnectionLost
  BY <1>4, <1>5, CommandBroker, <1>2, <1>3
<1>6. CASE Provision
  BY <1>6 DEF Provision, ResetNode, sessionVars, CommandInv, NothingLost, Kept, Holds
<1>7. CASE UNCHANGED vars
  BY <1>7 DEF vars, nodeVars, brokerVars, NothingLost, Kept, Holds
<1>8. CASE (Setup \/ Loop) /\ ~ProcessCommand
  <2>1. pc' # "off"
    BY <1>8
       DEF Setup, Boot, SetupFails, SetupConnects, Loop, DutyCycle, Wake, SensorFails,
           WifiFails, MqttFails, Connects, CyclePublish, WindowClose, LoopPublish, Pump,
           Reconnect, EndCycle, nodeVars, Listening
  <2>2. TakesNone
    BY <1>8, <2>1, CommandStep DEF KeepsCommands, Next
  <2> QED BY <1>2, <1>4, <1>8, <2>2
<1> QED
  BY <1>2, <1>3, <1>5, <1>6, <1>7, <1>8 DEF NextWithoutReset, Next, Environment

\* Where no command is lost, all those before the one carried out are carried out.
LEMMA OldestUnserved ==
    ASSUME TypeInv, OrderInv, NothingLost, pc = "process"
    PROVE  /\ Head(cmdq).id \in 1 .. sent
           /\ \A j \in 1 .. Head(cmdq).id - 1 : j \in done
<1>1. /\ Head(cmdq).id \in 1 .. sent
      /\ \A i \in Acked + 1 .. Head(cmdq).id - 1 : i \in done
  BY DEF OrderInv
<1>2. Acked \in Nat /\ sent \in Nat /\ Head(cmdq).id \in Nat
  BY <1>1, OrderTypes
<1>3. \A i : Holds(cmdq, i) => i = Head(cmdq).id
  BY DEF TypeInv, Data, OrderInv, Holds
<1>4. \A i \in 1 .. Acked : ~Holds(backlog, i)
  BY <1>2 DEF Holds, OrderInv, WireOrder, SessionOrder
<1>5. ASSUME NEW j \in 1 .. Head(cmdq).id - 1
      PROVE  j \in done
  <2>1. j \in 1 .. sent /\ j # Head(cmdq).id
    BY <1>1, <1>2
  <2>2. CASE j \in 1 .. Acked
    BY <1>3, <1>4, <2>1, <2>2 DEF NothingLost, Kept
  <2>3. CASE j \in Acked + 1 .. Head(cmdq).id - 1
    BY <1>1, <2>3
  <2> QED BY <1>2, <2>2, <2>3
<1> QED BY <1>1, <1>5

\* A node whose RAM is never cleared in mid-work, however often its connection is lost or
\* it reboots itself, carries out every command in the order they were sent: each step is
\* a step of the service that loses none.
THEOREM UnresetNodeServesInOrder ==
    Init /\ [][NextWithoutReset]_vars => Service!Spec
<1>1. Init => Service!Init /\ NothingLost
  BY DEF Init, BrokerInit, Service!Init, NothingLost
<1>2. ASSUME TypeInv, OrderInv, NothingLost, [NextWithoutReset]_vars
      PROVE  [Service!Next]_(Service!serviceVars)
  <2>1. [Next]_vars
    BY <1>2 DEF NextWithoutReset
  <2>2. CASE Service!Accept \/ UNCHANGED Service!serviceVars
    BY <2>2 DEF Service!Next
  <2>3. CASE Service!ServeOrSkip /\ ~UNCHANGED Service!serviceVars
    <3>1. ProcessCommand
      <4>1. sent' = sent /\ sent \in Nat
        BY <1>2, <2>3, OrderTypes DEF Service!ServeOrSkip
      <4>2. ~CommandSent
        BY <4>1 DEF CommandSent, ServerSend
      <4> QED BY <2>1, <2>3, <4>2, ServesBySteps
    <3>2. /\ pc = "process" /\ done' = done \cup {Head(cmdq).id} /\ sent' = sent
          /\ Head(cmdq).id \notin done
      BY <2>3, <3>1, CarriesOut DEF Service!serviceVars, sessionVars
    <3>3. Head(cmdq).id \in 1 .. sent /\ \A j \in 1 .. Head(cmdq).id - 1 : j \in done
      BY <1>2, <3>2, OldestUnserved
    <3> QED BY <3>2, <3>3 DEF Service!Next, Service!Serve
  <2> QED BY <1>2, <2>1, <2>2, <2>3, ServesOrSkips
<1>3. [NextWithoutReset]_vars => [Next]_vars
  BY DEF NextWithoutReset
<1> QED
  BY <1>1, <1>2, <1>3, TypeInvInit, TypeInvStep, OrderInit, OrderStep, CommandInit, CommandStep,
     NothingLostStep, PTL
     DEF Service!Spec
=============================================================================
