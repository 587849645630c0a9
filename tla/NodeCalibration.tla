-------------------------- MODULE NodeCalibration --------------------------
(***************************************************************************)
(* What docs/modules/calibration.md promises of a node's calibration: a    *)
(* command changes one value of it, the whole of it survives a restart     *)
(* (power loss, deep sleep, update), and a factory reset returns to the    *)
(* defaults.  A storage that does not work keeps what was saved last, all  *)
(* of it: a node never restarts with a mixture of two calibrations.        *)
(***************************************************************************)
EXTENDS Integers

CONSTANTS
    Offsets,    \* what a command may ask for as an offset ...
    Ratios,     \* ... and as a divider ratio
    Nominal     \* the divider ratio of the build, in hundredths

VARIABLES
    calibration,    \* the offsets and the ratio the node uses
    saved,          \* those it would use after a restart
    healthy         \* the storage works

calibrationVars == <<calibration, saved, healthy>>

Metrics == {"temp", "humi", "press"}

OffsetRange == -50 .. 50

\* main.cpp:274-275, in hundredths.
PlausibleRatios == 50 .. 600

Calibrations == [offset : [Metrics -> OffsetRange], ratio : PlausibleRatios \cup {Nominal}]

Default == [offset |-> [m \in Metrics |-> 0], ratio |-> Nominal]

Init ==
    /\ calibration \in Calibrations
    /\ saved = calibration
    /\ healthy = TRUE

Changed(c) ==
    /\ calibration' = c
    /\ saved' = IF healthy THEN c ELSE saved
    /\ UNCHANGED healthy

SetOffset ==
    \E m \in Metrics, v \in Offsets \cap OffsetRange :
        Changed([offset |-> [calibration.offset EXCEPT ![m] = v], ratio |-> calibration.ratio])

\* A command that measures nothing saves the ratio in use once more.
SetRatio ==
    \E r \in (Ratios \cup {calibration.ratio}) \cap PlausibleRatios :
        Changed([offset |-> calibration.offset, ratio |-> r])

\* A factory reset, or a new identity given to a node whose storage was not readable.
Reset == healthy /\ Changed(Default)

Restart ==
    /\ calibration' = saved
    /\ UNCHANGED <<saved, healthy>>

\* What cannot be read is not used.
Forget ==
    /\ ~healthy
    /\ calibration' = Default
    /\ UNCHANGED <<saved, healthy>>

StorageFails ==
    /\ healthy' = ~healthy
    /\ UNCHANGED <<calibration, saved>>

Next == SetOffset \/ SetRatio \/ Reset \/ Restart \/ Forget \/ StorageFails

Spec == Init /\ [][Next]_calibrationVars
=============================================================================
