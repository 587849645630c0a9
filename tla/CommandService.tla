--------------------------- MODULE CommandService ---------------------------
(***************************************************************************)
(* What the protocol promises the server about its commands                *)
(* (docs/mqtt-protocol.md): every command accepted for a sleeping node is  *)
(* carried out, and the commands are carried out in the order they were    *)
(* sent.  Delivery is at least once, so only the first execution of a      *)
(* command counts; a repetition changes nothing here.                      *)
(***************************************************************************)
EXTENDS Naturals

CONSTANT MaxCommands    \* bound: how many commands the server sends

VARIABLES
    accepted,   \* commands 1 .. accepted were accepted for the node
    served      \* those the node has carried out

serviceVars == <<accepted, served>>

Init ==
    /\ accepted = 0
    /\ served = {}

Accept ==
    /\ accepted < MaxCommands
    /\ accepted' = accepted + 1
    /\ UNCHANGED served

\* The next command in the order of sending, never one ahead of another.
Serve ==
    /\ \E i \in 1 .. accepted :
          /\ i \notin served
          /\ \A j \in 1 .. i - 1 : j \in served
          /\ served' = served \cup {i}
    /\ UNCHANGED accepted

Next == Accept \/ Serve

Spec == Init /\ [][Next]_serviceVars

FairSpec == Spec /\ WF_serviceVars(Serve)

(***************************************************************************)
(* What remains of the promise where commands may be lost: a command may   *)
(* be skipped, and then it is never carried out after a later one.         *)
(***************************************************************************)
ServeOrSkip ==
    /\ \E i \in 1 .. accepted :
          /\ \A j \in served : j < i
          /\ served' = served \cup {i}
    /\ UNCHANGED accepted

LossySpec == Init /\ [][Accept \/ ServeOrSkip]_serviceVars
=============================================================================
