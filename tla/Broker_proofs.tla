---------------------------- MODULE Broker_proofs ----------------------------
(***************************************************************************)
(* Facts about the counters and the broker that the proofs of every node   *)
(* rest on.                                                                *)
(***************************************************************************)
EXTENDS DiagCounters, Broker, TLAPS

-----------------------------------------------------------------------------
(* The counter operators *)

\* Each helper of main.cpp maps counters to counters.
LEMMA CountersType ==
    ASSUME NEW d \in Counters
    PROVE  /\ note_missed_wake(d) \in Counters
           /\ clear_missed_wakes(d) \in Counters
           /\ next_publish_seq(d) \in Counters
           /\ \A ok \in BOOLEAN : note_publish(d, ok) \in Counters
           /\ note_boot(d) \in Counters
           /\ note_boot_nds(d) \in Counters
           /\ \A on \in BOOLEAN : set_confirm_uplink(d, on) \in Counters
           /\ note_tx_sent(d) \in Counters
           /\ note_tx_confirmed(d) \in Counters
           /\ note_wifi_fail(d) \in Counters
           /\ note_mqtt_fail(d) \in Counters
           /\ note_sensor_fail(d) \in Counters
<1>1. \A n \in Counter : Inc(n) \in Counter
  BY CounterModulusAssumption DEF Counter, Inc
<1>2. 0 \in Counter
  BY CounterModulusAssumption DEF Counter
<1> HIDE DEF Counter
<1>3. QED
  BY <1>1, <1>2 DEF Counters, note_missed_wake, clear_missed_wakes,
     next_publish_seq, note_publish, note_boot, note_boot_nds,
     set_confirm_uplink, note_tx_sent, note_tx_confirmed, note_wifi_fail,
     note_mqtt_fail, note_sensor_fail

LEMMA ZeroCountersType == ZeroCounters \in Counters
BY CounterModulusAssumption DEF Counters, Counter, ZeroCounters

-----------------------------------------------------------------------------
(* The broker *)

\* The messages and packets that the actions build.
LEMMA PacketType ==
    /\ \A t \in Topics : Subscribe(t) \in Packet
    /\ \A n \in Nat : Sensors(n) \in Packet
    /\ \A n \in Nat : Puback(n) \in Packet
BY DEF Topics, Subscribe, Sensors, Puback, Packet

LEMMA MessageType ==
    /\ Loopback \in Message
    /\ \A n \in Nat, c \in Commands : CommandMessage(n, c) \in Message
BY CommandsAssumption
   DEF Loopback, CommandMessage, Message, Command, Actions, Topics

BrokerSide == ServerSend \/ BrokerPush \/ BrokerReceive \/ LinkDrop

\* What the broker, the server and the network do keeps the types.
LEMMA BrokerSideTypeOK ==
    ASSUME BrokerTypeOK, BrokerSide
    PROVE  BrokerTypeOK'
<1>1. CASE ServerSend
  <2>1. \A c \in Commands : Append(backlog, CommandMessage(sent + 1, c)) \in Seq(Message)
    BY MessageType, CommandsAssumption DEF BrokerTypeOK
  <2>2. backlog' \in Seq(Message)
    BY <1>1, <2>1 DEF ServerSend
  <2>3. sent' \in 0 .. MaxCommands
    BY <1>1, CommandsAssumption DEF ServerSend, BrokerTypeOK
  <2>4. QED
    BY <1>1, <2>2, <2>3 DEF ServerSend, BrokerTypeOK
<1>2. CASE BrokerPush
  <2>1. down' \in Seq(Message) /\ pushed' \in Nat
    BY <1>2 DEF BrokerPush, BrokerTypeOK
  <2>2. QED
    BY <1>2, <2>1 DEF BrokerPush, BrokerTypeOK
<1>3. CASE BrokerReceive
  <2>1. up' \in Seq(Packet) /\ UNCHANGED <<link, sent>>
    BY <1>3 DEF BrokerReceive, BrokerTypeOK
  <2>2. CASE ReceiveSubscribe(Head(up))
    <3>1. session' \in SUBSET Topics
      BY <2>2 DEF ReceiveSubscribe, BrokerTypeOK, Topics
    <3>2. QED
      BY <2>1, <2>2, <3>1 DEF ReceiveSubscribe, BrokerTypeOK
  <2>3. CASE ReceiveSensors(Head(up))
    <3>1. down' \in Seq(Message)
      BY <2>3, MessageType DEF ReceiveSensors, BrokerTypeOK
    <3>2. heard' \in BOOLEAN
      BY <2>3 DEF ReceiveSensors
    <3>3. QED
      BY <2>1, <2>3, <3>1, <3>2 DEF ReceiveSensors, BrokerTypeOK
  <2>4. CASE ReceivePuback(Head(up))
    <3>1. backlog \in Seq(Message) /\ pushed \in Nat
      BY DEF BrokerTypeOK
    <3>2. backlog' \in Seq(Message) /\ pushed' \in Nat
      <4>1. CASE pushed > 0 /\ backlog # <<>> /\ Head(backlog).id = Head(up).arg
        BY <2>4, <3>1, <4>1 DEF ReceivePuback
      <4>2. CASE ~(pushed > 0 /\ backlog # <<>> /\ Head(backlog).id = Head(up).arg)
        BY <2>4, <3>1, <4>2 DEF ReceivePuback
      <4>3. QED
        BY <4>1, <4>2
    <3>3. QED
      BY <2>1, <2>4, <3>2 DEF ReceivePuback, BrokerTypeOK
  <2>5. QED
    BY <1>3, <2>2, <2>3, <2>4 DEF BrokerReceive
<1>4. CASE LinkDrop
  <2>1. link' \in BOOLEAN /\ heard' = heard
    BY <1>4 DEF LinkDrop, Hangup
  <2>2. up' \in Seq(Packet) /\ down' \in Seq(Message) /\ pushed' \in Nat
    BY <1>4 DEF LinkDrop, Hangup
  <2>3. QED
    BY <1>4, <2>1, <2>2 DEF LinkDrop, BrokerTypeOK
<1>5. QED
  BY <1>1, <1>2, <1>3, <1>4 DEF BrokerSide

-----------------------------------------------------------------------------
(* The order of the commands *)

\* Commands 1 .. Acked have left the session, acknowledged.
Acked == sent - Len(backlog)

IsCommand(m) == m.topic = "command"

\* The session holds the commands after the acknowledged ones, in order.
SessionOrder ==
    /\ Len(backlog) <= sent
    /\ pushed <= Len(backlog)
    /\ \A k \in 1 .. Len(backlog) : IsCommand(backlog[k]) /\ backlog[k].id = Acked + k

\* The commands in flight were sent on this connection, in order.
DownOrder ==
    /\ \A k \in 1 .. Len(down) :
          IsCommand(down[k]) => down[k].id \in Acked + 1 .. Acked + pushed
    /\ \A k, l \in 1 .. Len(down) :
          k < l /\ IsCommand(down[k]) /\ IsCommand(down[l]) => down[k].id < down[l].id

\* What is acknowledged was sent on this connection, before what is still in flight.
UpOrder ==
    \A k \in 1 .. Len(up) : up[k].type = "puback" =>
        /\ up[k].arg <= Acked + pushed
        /\ \A l \in 1 .. Len(down) : IsCommand(down[l]) => up[k].arg < down[l].id

WireOrder == SessionOrder /\ DownOrder /\ UpOrder

\* Fewer numbers lie after a later start.
LEMMA LaterStart ==
    ASSUME NEW a \in Nat, NEW b \in Nat, a <= b
    PROVE  \A j \in Nat : \A i \in b + 1 .. j - 1 : i \in a + 1 .. j - 1
OBVIOUS

LEMMA AckedType ==
    ASSUME BrokerTypeOK, SessionOrder
    PROVE  Acked \in Nat
BY CommandsAssumption DEF BrokerTypeOK, SessionOrder, Acked

LEMMA WireOrderInit == BrokerInit => WireOrder
BY DEF BrokerInit, WireOrder, SessionOrder, DownOrder, UpOrder, Acked

\* A connection starts over: nothing is in flight, nothing was sent on it.
LEMMA WireOrderRestart ==
    ASSUME WireOrder, BrokerTypeOK, UNCHANGED <<backlog, sent>>, pushed' = 0, down' = <<>>,
           \A k \in 1 .. Len(up') : up'[k].type # "puback"
    PROVE  WireOrder'
BY DEF BrokerTypeOK, WireOrder, SessionOrder, DownOrder, UpOrder, Acked

\* What is sent besides acknowledgements disturbs no order.
LEMMA WireOrderSame ==
    ASSUME WireOrder, UNCHANGED <<backlog, sent, pushed, down>>,
           \A k \in 1 .. Len(up') :
              up'[k].type = "puback" => \E j \in 1 .. Len(up) : up[j] = up'[k]
    PROVE  WireOrder'
BY DEF WireOrder, SessionOrder, DownOrder, UpOrder, Acked

\* The node takes the first message in flight and acknowledges it if it is a command.
LEMMA WireOrderTake ==
    ASSUME WireOrder, BrokerTypeOK, down # <<>>, down' = Tail(down),
           UNCHANGED <<backlog, sent, pushed>>,
           up' = IF IsCommand(Head(down)) THEN Append(up, Puback(Head(down).id)) ELSE up
    PROVE  WireOrder'
<1>1. down \in Seq(Message) /\ up \in Seq(Packet)
  BY DEF BrokerTypeOK
<1>2. /\ Len(down') = Len(down) - 1
      /\ \A k \in 1 .. Len(down') : k + 1 \in 1 .. Len(down) /\ down'[k] = down[k + 1]
  BY <1>1
<1>3. DownOrder'
  BY <1>1, <1>2 DEF WireOrder, DownOrder, Acked
<1>4. \A k \in 1 .. Len(up') :
        \/ k \in 1 .. Len(up) /\ up'[k] = up[k]
        \/ IsCommand(Head(down)) /\ up'[k] = Puback(Head(down).id)
  BY <1>1
<1>5. UpOrder'
  <2> SUFFICES ASSUME NEW k \in 1 .. Len(up'), up'[k].type = "puback"
               PROVE  /\ up'[k].arg <= Acked + pushed
                      /\ \A l \in 1 .. Len(down') : IsCommand(down'[l]) => up'[k].arg < down'[l].id
    BY DEF UpOrder, Acked
  <2>1. CASE k \in 1 .. Len(up) /\ up'[k] = up[k]
    BY <1>2, <2>1 DEF WireOrder, UpOrder
  <2>2. CASE IsCommand(Head(down)) /\ up'[k] = Puback(Head(down).id)
    <3>1. /\ 1 \in 1 .. Len(down) /\ Head(down) = down[1]
          /\ up'[k].arg = down[1].id
      BY <1>1, <2>2 DEF Puback
    <3>2. down[1].id <= Acked + pushed
      BY <2>2, <3>1 DEF WireOrder, DownOrder
    <3>3. \A l \in 2 .. Len(down) : IsCommand(down[l]) => down[1].id < down[l].id
      BY <1>1, <2>2, <3>1 DEF WireOrder, DownOrder
    <3> QED BY <1>1, <1>2, <3>1, <3>2, <3>3
  <2> QED BY <1>4, <2>1, <2>2
<1>6. SessionOrder'
  BY DEF WireOrder, SessionOrder, Acked
<1> QED BY <1>3, <1>5, <1>6 DEF WireOrder

\* The server and the broker add at the end and take at the front.
LEMMA WireOrderSend ==
    ASSUME WireOrder, BrokerTypeOK, ServerSend
    PROVE  WireOrder'
<1>1. PICK c \in Commands : backlog' = Append(backlog, CommandMessage(sent + 1, c))
  BY DEF ServerSend
<1>2. backlog \in Seq(Message) /\ sent \in Nat /\ pushed \in Nat /\ sent' = sent + 1
  BY CommandsAssumption DEF BrokerTypeOK, ServerSend
<1>3. /\ Len(backlog') = Len(backlog) + 1 /\ Acked' = Acked
      /\ \A k \in 1 .. Len(backlog) : backlog'[k] = backlog[k]
      /\ backlog'[Len(backlog) + 1] = CommandMessage(sent + 1, c)
  BY <1>1, <1>2 DEF Acked
<1>4. Acked \in Nat /\ Acked + Len(backlog) + 1 = sent + 1
  BY <1>2, AckedType DEF Acked, WireOrder
<1>5. IsCommand(CommandMessage(sent + 1, c)) /\ CommandMessage(sent + 1, c).id = sent + 1
  BY DEF IsCommand, CommandMessage
<1>6. SessionOrder'
  <2>1. ASSUME NEW k \in 1 .. Len(backlog')
        PROVE  IsCommand(backlog'[k]) /\ backlog'[k].id = Acked' + k
    <3>1. CASE k \in 1 .. Len(backlog)
      BY <1>3, <3>1 DEF WireOrder, SessionOrder
    <3>2. CASE k = Len(backlog) + 1
      BY <1>2, <1>3, <1>4, <1>5, <3>2
    <3> QED BY <1>2, <1>3, <3>1, <3>2
  <2>2. Len(backlog') <= sent' /\ pushed' <= Len(backlog')
    BY <1>2, <1>3 DEF WireOrder, SessionOrder, ServerSend
  <2> QED BY <2>1, <2>2 DEF SessionOrder
<1> QED BY <1>3, <1>6 DEF WireOrder, DownOrder, UpOrder, ServerSend

LEMMA WireOrderPush ==
    ASSUME WireOrder, BrokerTypeOK, BrokerPush
    PROVE  WireOrder'
<1>1. /\ down \in Seq(Message) /\ backlog \in Seq(Message) /\ pushed \in Nat /\ sent \in Nat
      /\ pushed + 1 \in 1 .. Len(backlog)
  BY CommandsAssumption DEF BrokerTypeOK, BrokerPush
<1> DEFINE m == backlog[pushed + 1]
<1>2. /\ m.id = Acked + (pushed + 1) /\ m \in Message
      /\ pushed' = pushed + 1 /\ Acked' = Acked /\ Acked \in Nat
  <2>1. m.id = Acked + (pushed + 1)
    BY <1>1 DEF WireOrder, SessionOrder
  <2>2. pushed' = pushed + 1 /\ Acked' = Acked
    BY DEF BrokerPush, Acked
  <2> QED BY <1>1, <2>1, <2>2, AckedType DEF WireOrder
<1>3. /\ Len(down') = Len(down) + 1
      /\ \A k \in 1 .. Len(down) : down'[k] = down[k]
      /\ down'[Len(down) + 1] = m
  BY <1>1, <1>2 DEF BrokerPush
<1> HIDE DEF m
<1>4. \A k \in 1 .. Len(down) : IsCommand(down[k]) => down[k].id \in Acked + 1 .. Acked + pushed
  BY DEF WireOrder, DownOrder
<1>5. DownOrder'
  <2>1. ASSUME NEW k \in 1 .. Len(down'), IsCommand(down'[k])
        PROVE  down'[k].id \in Acked' + 1 .. Acked' + pushed'
    <3>1. CASE k \in 1 .. Len(down)
      <4>1. down[k].id \in Acked + 1 .. Acked + pushed
        BY <1>3, <1>4, <2>1, <3>1
      <4> QED BY <1>1, <1>2, <1>3, <3>1, <4>1
    <3>2. CASE k = Len(down) + 1
      <4>1. down'[k].id = Acked + (pushed + 1)
        BY <1>2, <1>3, <3>2
      <4> QED BY <1>1, <1>2, <4>1
    <3> QED BY <1>1, <1>3, <3>1, <3>2
  <2>2. ASSUME NEW k \in 1 .. Len(down'), NEW l \in 1 .. Len(down'),
               k < l, IsCommand(down'[k]), IsCommand(down'[l])
        PROVE  down'[k].id < down'[l].id
    <3>1. k \in 1 .. Len(down) /\ down'[k] = down[k]
      BY <1>1, <1>3, <2>2
    <3>2. CASE l \in 1 .. Len(down)
      BY <1>3, <2>2, <3>1, <3>2 DEF WireOrder, DownOrder
    <3>3. CASE l = Len(down) + 1
      BY <1>1, <1>2, <1>3, <1>4, <2>2, <3>1, <3>3
    <3> QED BY <1>1, <1>3, <3>2, <3>3
  <2> QED BY <2>1, <2>2 DEF DownOrder
<1>6. UpOrder'
  <2>1. up' = up /\ up \in Seq(Packet)
    BY DEF BrokerPush, BrokerTypeOK
  <2>2. ASSUME NEW k \in 1 .. Len(up), up[k].type = "puback"
        PROVE  /\ up[k].arg <= Acked' + pushed'
               /\ \A l \in 1 .. Len(down') : IsCommand(down'[l]) => up[k].arg < down'[l].id
    <3>1. up[k].arg \in Nat /\ up[k].arg <= Acked + pushed
      <4>1. up[k] \in Packet
        BY <2>1, <2>2
      <4>2. up[k].arg <= Acked + pushed
        BY <2>2 DEF WireOrder, UpOrder
      <4> QED BY <4>1, <4>2 DEF Packet
    <3>2. \A l \in 1 .. Len(down) : IsCommand(down[l]) => up[k].arg < down[l].id
      BY <2>2 DEF WireOrder, UpOrder
    <3>3. up[k].arg <= Acked' + pushed'
      BY <1>1, <1>2, <3>1
    <3>4. ASSUME NEW l \in 1 .. Len(down'), IsCommand(down'[l])
          PROVE  up[k].arg < down'[l].id
      <4>1. CASE l \in 1 .. Len(down)
        BY <1>3, <3>2, <3>4, <4>1
      <4>2. CASE l = Len(down) + 1
        <5>1. down'[l].id = Acked + (pushed + 1)
          BY <1>2, <1>3, <4>2
        <5> QED BY <1>1, <1>2, <3>1, <5>1
      <4> QED BY <1>1, <1>3, <4>1, <4>2
    <3> QED BY <3>3, <3>4
  <2> QED BY <2>1, <2>2 DEF UpOrder
<1>7. SessionOrder'
  BY <1>1, <1>2 DEF WireOrder, SessionOrder, BrokerPush
<1> QED BY <1>5, <1>6, <1>7 DEF WireOrder

LEMMA WireOrderReceive ==
    ASSUME WireOrder, BrokerTypeOK, BrokerReceive
    PROVE  WireOrder'
<1>1. up \in Seq(Packet) /\ up # <<>> /\ up' = Tail(up) /\ sent' = sent
  BY DEF BrokerTypeOK, BrokerReceive
<1>2. \A k \in 1 .. Len(up') : k + 1 \in 1 .. Len(up) /\ up'[k] = up[k + 1]
  BY <1>1
<1>3. CASE UNCHANGED <<backlog, pushed, down>>
  BY <1>1, <1>2, <1>3, WireOrderSame
<1>4. CASE ReceiveSensors(Head(up)) /\ "sensors" \in session
  <2>1. down' = Append(down, Loopback) /\ down \in Seq(Message) /\ UNCHANGED <<backlog, pushed>>
    BY <1>4 DEF ReceiveSensors, BrokerTypeOK
  <2>2. ~IsCommand(Loopback)
    BY DEF IsCommand, Loopback
  <2>3. \A k \in 1 .. Len(down') :
          IsCommand(down'[k]) => k \in 1 .. Len(down) /\ down'[k] = down[k]
    BY <2>1, <2>2
  <2>4. DownOrder' /\ SessionOrder'
    BY <1>1, <2>1, <2>3 DEF WireOrder, DownOrder, SessionOrder, Acked
  <2>5. UpOrder'
    BY <1>1, <1>2, <2>1, <2>3 DEF WireOrder, UpOrder, Acked
  <2> QED BY <2>4, <2>5 DEF WireOrder
<1>5. CASE /\ ReceivePuback(Head(up))
           /\ pushed > 0 /\ backlog # <<>> /\ Head(backlog).id = Head(up).arg
  <2>1. /\ backlog' = Tail(backlog) /\ pushed' = pushed - 1 /\ down' = down
        /\ backlog \in Seq(Message) /\ pushed \in Nat /\ sent \in Nat /\ down \in Seq(Message)
    BY <1>5, CommandsAssumption DEF ReceivePuback, BrokerTypeOK
  <2>2. /\ Len(backlog') = Len(backlog) - 1
        /\ \A k \in 1 .. Len(backlog') : k + 1 \in 1 .. Len(backlog) /\ backlog'[k] = backlog[k + 1]
    BY <1>5, <2>1
  <2>3. Acked \in Nat /\ Acked' = Acked + 1 /\ Acked' + pushed' = Acked + pushed
    <3>1. Acked' = Acked + 1
      <4>1. Len(backlog) \in Nat /\ sent \in Nat /\ sent' = sent
        BY <1>1, <2>1
      <4>2. Len(backlog') = Len(backlog) - 1
        BY <2>2
      <4> QED BY <4>1, <4>2 DEF Acked
    <3>2. Acked \in Nat
      BY AckedType DEF WireOrder
    <3> QED BY <2>1, <3>1, <3>2
  <2>4. Head(up).type = "puback" /\ Head(up).arg = Acked + 1
    <3>1. Head(backlog) = backlog[1] /\ 1 \in 1 .. Len(backlog)
      BY <1>5, <2>1
    <3> QED BY <1>5, <3>1 DEF WireOrder, SessionOrder, ReceivePuback
  <2>5. SessionOrder'
    <3>1. ASSUME NEW k \in 1 .. Len(backlog')
          PROVE  IsCommand(backlog'[k]) /\ backlog'[k].id = Acked' + k
      <4>1. IsCommand(backlog[k + 1]) /\ backlog[k + 1].id = Acked + (k + 1)
        BY <2>2 DEF WireOrder, SessionOrder
      <4> QED BY <2>2, <2>3, <4>1
    <3>2. Len(backlog') <= sent' /\ pushed' <= Len(backlog')
      BY <1>1, <2>1, <2>2 DEF WireOrder, SessionOrder
    <3> QED BY <3>1, <3>2 DEF SessionOrder
  <2>6. \A l \in 1 .. Len(down) : IsCommand(down[l]) => Acked + 1 < down[l].id
    <3>1. Head(up) = up[1] /\ 1 \in 1 .. Len(up)
      BY <1>1
    <3> QED BY <2>4, <3>1 DEF WireOrder, UpOrder
  <2>7. DownOrder'
    BY <2>1, <2>3, <2>6 DEF WireOrder, DownOrder
  <2>8. UpOrder'
    BY <1>2, <2>1, <2>3 DEF WireOrder, UpOrder
  <2> QED BY <2>5, <2>7, <2>8 DEF WireOrder
<1> QED BY <1>3, <1>4, <1>5
        DEF BrokerReceive, ReceiveSubscribe, ReceiveSensors, ReceivePuback

\* Command i is in flight.
Coming(messages, i) == \E k \in 1 .. Len(messages) : IsCommand(messages[k]) /\ messages[k].id = i

\* What the nodes need to know of a step of the broker: numbers only grow, and what
\* it sends on this connection is in flight.
LEMMA BrokerMoves ==
    ASSUME WireOrder, BrokerTypeOK, ServerSend \/ BrokerPush \/ BrokerReceive
    PROVE  /\ WireOrder'
           /\ sent \in Nat /\ sent' \in Nat /\ sent <= sent'
           /\ Acked \in Nat /\ Acked' \in Nat /\ Acked <= Acked'
           /\ pushed \in Nat /\ pushed' \in Nat
           /\ \A i : Coming(down, i) => Coming(down', i)
           /\ \A i \in Acked' + 1 .. Acked' + pushed' :
                 i \in Acked + 1 .. Acked + pushed \/ Coming(down', i)
<1>1. /\ sent \in Nat /\ pushed \in Nat /\ backlog \in Seq(Message) /\ down \in Seq(Message)
      /\ up \in Seq(Packet) /\ Acked \in Nat
  BY AckedType, CommandsAssumption DEF BrokerTypeOK, WireOrder
<1>2. CASE ServerSend
  <2>1. WireOrder' /\ sent' = sent + 1 /\ UNCHANGED <<down, pushed>>
    BY <1>2, WireOrderSend DEF ServerSend
  <2>2. PICK c \in Commands : backlog' = Append(backlog, CommandMessage(sent + 1, c))
    BY <1>2 DEF ServerSend
  <2>3. Len(backlog') = Len(backlog) + 1
    BY <1>1, <2>2
  <2>4. Acked' = Acked
    BY <1>1, <2>1, <2>3 DEF Acked
  <2> QED BY <1>1, <2>1, <2>4
<1>3. CASE BrokerPush
  <2>1. /\ WireOrder' /\ pushed' = pushed + 1 /\ UNCHANGED <<sent, backlog>> /\ Acked' = Acked
        /\ down' = Append(down, backlog[pushed + 1]) /\ pushed + 1 \in 1 .. Len(backlog)
    BY <1>1, <1>3, WireOrderPush DEF BrokerPush, Acked
  <2>2. IsCommand(backlog[pushed + 1]) /\ backlog[pushed + 1].id = Acked + (pushed + 1)
    BY <2>1 DEF WireOrder, SessionOrder
  <2>3. /\ Len(down') = Len(down) + 1
        /\ \A k \in 1 .. Len(down) : down'[k] = down[k]
        /\ down'[Len(down) + 1] = backlog[pushed + 1]
    BY <1>1, <2>1
  <2>4. \A i : Coming(down, i) => Coming(down', i)
    BY <1>1, <2>3 DEF Coming
  <2>5. Coming(down', Acked + (pushed + 1))
    BY <1>1, <2>2, <2>3 DEF Coming
  <2>6. ASSUME NEW i \in Acked' + 1 .. Acked' + pushed'
        PROVE  i \in Acked + 1 .. Acked + pushed \/ Coming(down', i)
    <3>1. i \in Acked + 1 .. Acked + pushed \/ i = Acked + (pushed + 1)
      BY <1>1, <2>1
    <3> QED BY <2>5, <3>1
  <2>7. pushed' \in Nat /\ sent' = sent /\ sent <= sent' /\ Acked <= Acked'
    BY <1>1, <2>1
  <2> QED BY <1>1, <2>1, <2>4, <2>6, <2>7
<1>4. CASE BrokerReceive
  <2>1. WireOrder' /\ sent' = sent
    BY <1>4, WireOrderReceive DEF BrokerReceive
  <2>2. \A i : Coming(down, i) => Coming(down', i)
    <3>1. \/ down' = down
          \/ down' = Append(down, Loopback)
      BY <1>4 DEF BrokerReceive, ReceiveSubscribe, ReceiveSensors, ReceivePuback
    <3>2. CASE down' = Append(down, Loopback)
      <4>1. Len(down') = Len(down) + 1 /\ \A k \in 1 .. Len(down) : down'[k] = down[k]
        BY <1>1, <3>2
      <4> QED BY <1>1, <4>1 DEF Coming
    <3> QED BY <3>1, <3>2
  <2>3. CASE UNCHANGED <<backlog, pushed>>
    BY <1>1, <2>1, <2>2, <2>3 DEF Acked
  <2>4. CASE backlog # <<>> /\ pushed > 0 /\ backlog' = Tail(backlog) /\ pushed' = pushed - 1
    <3>1. Len(backlog') = Len(backlog) - 1 /\ Len(backlog) \in Nat
      BY <1>1, <2>4
    <3>2. Acked' = Acked + 1
      BY <1>1, <2>1, <3>1 DEF Acked
    <3> QED BY <1>1, <2>1, <2>2, <2>4, <3>2
  <2> QED BY <1>4, <2>3, <2>4
          DEF BrokerReceive, ReceiveSubscribe, ReceiveSensors, ReceivePuback
<1> QED BY <1>2, <1>3, <1>4

\* The first message in flight, if it is a command, is older than all others in flight.
LEMMA FirstInFlight ==
    ASSUME WireOrder, BrokerTypeOK, down # <<>>
    PROVE  LET m == Head(down)
           IN  /\ IsCommand(m) => /\ m.id \in Acked + 1 .. Acked + pushed
                                  /\ m.id \in 1 .. sent
                                  /\ \A i : Coming(Tail(down), i) => m.id < i
               /\ \A i : Coming(down, i) => (IsCommand(m) /\ i = m.id) \/ Coming(Tail(down), i)
<1>1. /\ down \in Seq(Message) /\ sent \in Nat /\ pushed \in Nat /\ Acked \in Nat
  BY AckedType, CommandsAssumption DEF BrokerTypeOK, WireOrder
<1>2. /\ 1 \in 1 .. Len(down) /\ Head(down) = down[1]
      /\ Len(Tail(down)) = Len(down) - 1
      /\ \A k \in 1 .. Len(down) - 1 : k + 1 \in 1 .. Len(down) /\ Tail(down)[k] = down[k + 1]
  BY <1>1
<1>3. IsCommand(down[1]) =>
        /\ down[1].id \in Acked + 1 .. Acked + pushed
        /\ \A i : Coming(Tail(down), i) => down[1].id < i
  <2> SUFFICES ASSUME IsCommand(down[1])
               PROVE  /\ down[1].id \in Acked + 1 .. Acked + pushed
                      /\ \A i : Coming(Tail(down), i) => down[1].id < i
    OBVIOUS
  <2>1. down[1].id \in Acked + 1 .. Acked + pushed
    BY <1>2 DEF WireOrder, DownOrder
  <2>2. ASSUME NEW i, Coming(Tail(down), i) PROVE down[1].id < i
    <3>1. PICK k \in 1 .. Len(Tail(down)) : IsCommand(Tail(down)[k]) /\ Tail(down)[k].id = i
      BY <2>2 DEF Coming
    <3>2. k + 1 \in 1 .. Len(down) /\ Tail(down)[k] = down[k + 1] /\ 1 < k + 1
      BY <1>1, <1>2
    <3> QED BY <1>2, <3>1, <3>2 DEF WireOrder, DownOrder
  <2> QED BY <2>1, <2>2
<1>4. Acked + pushed <= sent
  <2>1. Len(backlog) \in Nat
    BY DEF BrokerTypeOK
  <2> QED BY <1>1, <2>1 DEF WireOrder, SessionOrder, Acked
<1>5. ASSUME NEW i, Coming(down, i)
      PROVE  (IsCommand(down[1]) /\ i = down[1].id) \/ Coming(Tail(down), i)
  <2>1. PICK k \in 1 .. Len(down) : IsCommand(down[k]) /\ down[k].id = i
    BY <1>5 DEF Coming
  <2>2. CASE k = 1
    BY <2>1, <2>2
  <2>3. CASE k # 1
    <3>1. k - 1 \in 1 .. Len(down) - 1 /\ Tail(down)[k - 1] = down[k]
      BY <1>1, <1>2, <2>3
    <3> QED BY <1>2, <2>1, <3>1 DEF Coming
  <2> QED BY <2>2, <2>3
<1> QED BY <1>1, <1>2, <1>3, <1>4, <1>5
=============================================================================
