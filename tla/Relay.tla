------------------------------- MODULE Relay -------------------------------
(***************************************************************************)
(* The relay module (relay_module.cpp): two relays that a command toggles, *)
(* or switches on for a time ("contact").  The handler only stores the     *)
(* delay; relay_module_tick(), which its header asks to be called from     *)
(* loop() with millis(), turns it into a deadline and later reverts.       *)
(*                                                                         *)
(* The module composes this one and calls it with its clock.  No           *)
(* environment of platformio.ini builds it yet (docs/modules/relay.md).    *)
(***************************************************************************)
EXTENDS Clock

CONSTANTS
    RELAY_COUNT,            \* 2 in the code
    MAX_CONTACT_DELAY,      \* 300000 ms in the code
    MaxGap                  \* longest time between two ticks

ASSUME RelayAssumption ==
    /\ RELAY_COUNT \in Nat \ {0}
    /\ MAX_CONTACT_DELAY \in Nat \ {0}
    /\ MaxGap \in Nat
    /\ MAX_CONTACT_DELAY < ClockModulus

VARIABLES
    relay_state,    \* relay_state[i]
    pending_delay,  \* contact_pending_delay[i], 0 for none
    deadline,       \* contact_deadline[i], 0 for none
    left            \* history: real time until the deadline of a pulse, see Tracked

relayVars == <<relay_state, pending_delay, deadline, left>>

Relays == 1 .. RELAY_COUNT
ContactDelays == 1 .. MAX_CONTACT_DELAY

\* left[r] when no pulse runs, or one whose deadline is too close to the end of
\* the clock for a comparison of instants to find it.
Untracked == ClockModulus

Tracked(t, delay) == t + delay + MaxGap < ClockModulus

RelayTypeOK ==
    /\ relay_state \in [Relays -> BOOLEAN]
    /\ pending_delay \in [Relays -> 0 .. MAX_CONTACT_DELAY]
    /\ deadline \in [Relays -> Instants]
    /\ left \in [Relays -> Int]

RelayInit ==
    /\ relay_state = [r \in Relays |-> FALSE]
    /\ pending_delay = [r \in Relays |-> 0]
    /\ deadline = [r \in Relays |-> 0]
    /\ left = [r \in Relays |-> Untracked]

-----------------------------------------------------------------------------
(* The commands.  One that names no relay, or a delay out of range, changes *)
(* nothing: it is one of the refused commands of the composing module.      *)

\* Mutant: the timer of a pulse survives the toggle.
ToggleKeepsTimer(r) ==
    /\ relay_state' = [relay_state EXCEPT ![r] = ~@]
    /\ left' = [left EXCEPT ![r] = Untracked]
    /\ UNCHANGED <<pending_delay, deadline>>

handle_relay_toggle(r) ==
    /\ relay_state' = [relay_state EXCEPT ![r] = ~@]
    /\ pending_delay' = [pending_delay EXCEPT ![r] = 0]
    /\ deadline' = [deadline EXCEPT ![r] = 0]
    /\ left' = [left EXCEPT ![r] = Untracked]

handle_relay_contact(r, delay) ==
    /\ relay_state' = [relay_state EXCEPT ![r] = TRUE]
    /\ pending_delay' = [pending_delay EXCEPT ![r] = delay]
    /\ deadline' = [deadline EXCEPT ![r] = 0]
    /\ left' = [left EXCEPT ![r] = Untracked]

-----------------------------------------------------------------------------
(* The tick *)

\* Phase 1: the deadline of relay r at time t.  It may come out as 0, which
\* stands for none, or, when the clock is about to wrap, before t.
Resolved(r, t) ==
    IF pending_delay[r] > 0 THEN Later(t, pending_delay[r]) ELSE deadline[r]

\* Mutant: one tick late.
ExpiredLate(r, t) == Resolved(r, t) > 0 /\ Resolved(r, t) < t

\* Phase 2.
Expired(r, t) == Resolved(r, t) > 0 /\ Resolved(r, t) <= t

relay_module_tick(t) ==
    /\ pending_delay' = [r \in Relays |-> 0]
    /\ deadline' = [r \in Relays |-> IF Expired(r, t) THEN 0 ELSE Resolved(r, t)]
    /\ relay_state' = [r \in Relays |-> relay_state[r] /\ ~Expired(r, t)]
    /\ left' = [r \in Relays |->
                   IF pending_delay[r] > 0
                   THEN IF Tracked(t, pending_delay[r]) THEN pending_delay[r]
                                                        ELSE Untracked
                   ELSE IF Expired(r, t) THEN Untracked ELSE left[r]]

\* A millisecond passes.
RelayTime ==
    /\ left' = [r \in Relays |-> IF left[r] = Untracked THEN Untracked ELSE left[r] - 1]
    /\ UNCHANGED <<relay_state, pending_delay, deadline>>
=============================================================================
