---------------------------- MODULE MC_WakeCycle ----------------------------
(***************************************************************************)
(* Instances of WakeCycle for TLC.                                         *)
(***************************************************************************)
EXTENDS WakeCycle

Cmd(a, v) == [action |-> a, value |-> v]

\* Only published replies: what the commands do is not the question.
Queries == {Cmd("query", 0)}

\* Every command that changes more than the queue.  With MaxCommandValue = 2, an interval
\* of 1 is accepted and one of 3 is out of range; DefaultInterval is 3.
AllCommands ==
    {Cmd("set_interval", 1), Cmd("set_interval", 3), Cmd("set_confirm_uplink", 1),
     Cmd("ota_update", 0), Cmd("factory_reset", 0)}

\* Commands that neither reboot the node nor touch the confirm mode.
ServiceCommands == {Cmd("set_interval", 1), Cmd("query", 0)}
=============================================================================
