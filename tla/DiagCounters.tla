---------------------------- MODULE DiagCounters ----------------------------
(***************************************************************************)
(* The diagnostics counters of a node: struct DiagCounters of              *)
(* lib/thermo_core/src/diagnostics.h and the inline helpers of             *)
(* src/main.cpp that update the one instance g_dc.  Every helper is an     *)
(* operator from the old counters to the new ones, so that one action can  *)
(* chain them in the order the code calls them.                            *)
(*                                                                         *)
(* The fields are uint32_t and wrap: CounterModulus is 2^32 in the code    *)
(* and small in a model.                                                   *)
(***************************************************************************)
EXTENDS Naturals

CONSTANT CounterModulus

ASSUME CounterModulusAssumption == CounterModulus \in Nat \ {0}

Counter == 0 .. CounterModulus - 1

Counters ==
    [miss : Counter, seq : Counter, pubfail : Counter, boot : Counter,
     tx_sent : Counter, tx_ok : Counter, confirm : BOOLEAN,
     wifi_fail : Counter, mqtt_fail : Counter, sensor_fail : Counter,
     boot_nds : Counter]

ZeroCounters ==
    [miss |-> 0, seq |-> 0, pubfail |-> 0, boot |-> 0,
     tx_sent |-> 0, tx_ok |-> 0, confirm |-> FALSE,
     wifi_fail |-> 0, mqtt_fail |-> 0, sensor_fail |-> 0,
     boot_nds |-> 0]

\* g_dc.field++ on a uint32_t.
Inc(n) == IF n + 1 = CounterModulus THEN 0 ELSE n + 1

note_missed_wake(d)   == [d EXCEPT !.miss = Inc(@)]
clear_missed_wakes(d) == [d EXCEPT !.miss = 0]
next_publish_seq(d)   == [d EXCEPT !.seq = Inc(@)]
note_publish(d, ok)   == [d EXCEPT !.pubfail = IF ok THEN 0 ELSE Inc(@)]
note_boot(d)          == [d EXCEPT !.boot = Inc(@)]
note_boot_nds(d)      == [d EXCEPT !.boot_nds = Inc(@)]
set_confirm_uplink(d, on) == [d EXCEPT !.confirm = on]
note_tx_sent(d)       == [d EXCEPT !.tx_sent = Inc(@)]
note_tx_confirmed(d)  == [d EXCEPT !.tx_ok = Inc(@)]
note_wifi_fail(d)     == [d EXCEPT !.wifi_fail = Inc(@)]
note_mqtt_fail(d)     == [d EXCEPT !.mqtt_fail = Inc(@)]
note_sensor_fail(d)   == [d EXCEPT !.sensor_fail = Inc(@)]
=============================================================================
