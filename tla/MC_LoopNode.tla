---------------------------- MODULE MC_LoopNode ----------------------------
(***************************************************************************)
(* The instance of LoopNode for TLC.                                       *)
(***************************************************************************)
EXTENDS LoopNode

Cmd(a, v) == [action |-> a, value |-> v]

\* Everything a command may do; an update that fails only replies, as a query does.
SomeCommands == {Cmd("set_confirm_uplink", 1), Cmd("factory_reset", 0), Cmd("ota_update", 0)}
=============================================================================
