------------------------------- MODULE Broker -------------------------------
(***************************************************************************)
(* The MQTT broker as the firmware uses it, the TCP connection between the *)
(* node and the broker, and the network calls of the node                  *)
(* (lib/thermo_platform: esp32_network.cpp, esp_network.cpp).              *)
(*                                                                         *)
(*  - The node connects with cleanSession=false, so the broker keeps the   *)
(*    session: the subscriptions and the QoS-1 commands not yet PUBACKed.  *)
(*    On every connection it sends all of those again, in order.           *)
(*  - The sensors payload goes out at QoS 0.  If the session subscribes to *)
(*    the node's own sensors topic the broker sends it back (loopback), at *)
(*    QoS 0 too: it is not kept for a node that is not connected.          *)
(*  - TCP is ordered.  What is in flight when the connection ends is lost; *)
(*    the broker may have taken any prefix of it before.                   *)
(*                                                                         *)
(* Replies and reports (ack, status, diag, capabilities, calibration)      *)
(* change neither the session nor the node and are not represented.        *)
(***************************************************************************)
EXTENDS Naturals, Sequences

CONSTANTS
    Commands,       \* the commands the server sends: a set of [action, value]
    MaxCommands     \* bound: how many it sends

\* Commands by what they do to the wake cycle.  "query" stands for those that
\* only publish a reply; "none" is the action of a message that is no command.
Actions == {"set_interval", "set_confirm_uplink", "ota_update", "factory_reset",
            "query", "none"}

Command == [action : Actions, value : Nat]

ASSUME CommandsAssumption ==
    /\ Commands \subseteq Command
    /\ MaxCommands \in Nat

VARIABLES
    link,       \* the connection between node and broker is up
    up,         \* packets in flight from the node
    down,       \* messages in flight to the node
    session,    \* topics the persistent session subscribes to
    backlog,    \* QoS-1 commands the node has not acknowledged
    pushed,     \* how many of them were sent on this connection
    sent,       \* how many commands the session has accepted so far
    heard       \* the broker received a sensors publish of the current wake

brokerVars == <<link, up, down, session, backlog, pushed, sent, heard>>

Topics == {"command", "sensors"}

Message == [topic : Topics, id : Nat, cmd : Command]

Packet == [type : {"subscribe_command", "subscribe_sensors", "sensors", "puback"},
           arg : Nat]

CommandMessage(n, c) == [topic |-> "command", id |-> n, cmd |-> c]
Loopback == [topic |-> "sensors", id |-> 0, cmd |-> [action |-> "none", value |-> 0]]

Subscribe(t) ==
    [type |-> IF t = "sensors" THEN "subscribe_sensors" ELSE "subscribe_command",
     arg |-> 0]
Sensors(n)   == [type |-> "sensors", arg |-> n]
Puback(n)    == [type |-> "puback", arg |-> n]

BrokerTypeOK ==
    /\ link \in BOOLEAN
    /\ up \in Seq(Packet)
    /\ down \in Seq(Message)
    /\ session \in SUBSET Topics
    /\ backlog \in Seq(Message)
    /\ pushed \in Nat
    /\ sent \in 0 .. MaxCommands
    /\ heard \in BOOLEAN

BrokerInit ==
    /\ link = FALSE
    /\ up = <<>>
    /\ down = <<>>
    /\ session = {}
    /\ backlog = <<>>
    /\ pushed = 0
    /\ sent = 0
    /\ heard = FALSE

-----------------------------------------------------------------------------
(* The node's side of the connection. *)

\* connect_wifi() and connect_mqtt() succeeded; `packets` are the SUBSCRIBEs written
\* right after.
Connect(packets) ==
    /\ link' = TRUE
    /\ up' = packets
    /\ down' = <<>>
    /\ pushed' = 0

\* The connection ends, whoever ends it.
Hangup ==
    /\ link' = FALSE
    /\ up' = <<>>
    /\ down' = <<>>
    /\ pushed' = 0

\* network.publish() returned `ok`: on a connection that is already lost the
\* write may still succeed locally, and then the packet goes nowhere.
Publish(packet, ok) ==
    up' = IF ok /\ link THEN Append(up, packet) ELSE up

-----------------------------------------------------------------------------
(* The broker's side. *)

\* The server publishes a command at QoS 1; the broker keeps it for the
\* session once the node has subscribed.
ServerSend ==
    /\ "command" \in session
    /\ sent < MaxCommands
    /\ sent' = sent + 1
    /\ \E c \in Commands :
          backlog' = Append(backlog, CommandMessage(sent + 1, c))
    /\ UNCHANGED <<link, up, down, session, pushed, heard>>

\* The broker sends the next queued command to the connected node.
BrokerPush ==
    /\ link
    /\ "command" \in session
    /\ pushed < Len(backlog)
    /\ down' = Append(down, backlog[pushed + 1])
    /\ pushed' = pushed + 1
    /\ UNCHANGED <<link, up, session, backlog, sent, heard>>

ReceiveSubscribe(p) ==
    /\ p.type \in {"subscribe_command", "subscribe_sensors"}
    /\ session' = session \cup
          {IF p.type = "subscribe_sensors" THEN "sensors" ELSE "command"}
    /\ UNCHANGED <<down, backlog, pushed, heard>>

ReceiveSensors(p) ==
    /\ p.type = "sensors"
    /\ heard' = TRUE
    /\ down' = IF "sensors" \in session THEN Append(down, Loopback) ELSE down
    /\ UNCHANGED <<session, backlog, pushed>>

\* An acknowledged command leaves the session.  Acknowledgements arrive in the
\* order the commands were sent, so it is always the oldest one.
ReceivePuback(p) ==
    /\ p.type = "puback"
    /\ IF pushed > 0 /\ backlog # <<>> /\ Head(backlog).id = p.arg
       THEN /\ backlog' = Tail(backlog)
            /\ pushed' = pushed - 1
       ELSE UNCHANGED <<backlog, pushed>>
    /\ UNCHANGED <<down, session, heard>>

BrokerReceive ==
    /\ link
    /\ up # <<>>
    /\ up' = Tail(up)
    /\ \/ ReceiveSubscribe(Head(up))
       \/ ReceiveSensors(Head(up))
       \/ ReceivePuback(Head(up))
    /\ UNCHANGED <<link, sent>>

\* The radio link or the broker connection is lost.
LinkDrop ==
    /\ link
    /\ Hangup
    /\ UNCHANGED <<session, backlog, sent, heard>>
=============================================================================
