------------------------------- MODULE Clock -------------------------------
(***************************************************************************)
(* millis(): an unsigned counter of the time since boot that starts again  *)
(* at 0 when it is full (2^32 milliseconds, 49.7 days).                    *)
(***************************************************************************)
EXTENDS Integers

CONSTANT
    ClockModulus        \* 2^32 in the code

ASSUME ClockAssumption == ClockModulus \in Nat \ {0}

Instants == 0 .. ClockModulus - 1

\* Unsigned addition and subtraction, for d below the modulus.
Later(t, d) == IF t + d < ClockModulus THEN t + d ELSE t + d - ClockModulus

Elapsed(t, since) == IF since <= t THEN t - since ELSE t - since + ClockModulus
=============================================================================
