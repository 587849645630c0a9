--------------------------- MODULE MC_Calibration ---------------------------
(***************************************************************************)
(* Instances of Calibration.                                               *)
(***************************************************************************)
EXTENDS Calibration

\* One that is refused, one on the bound, and the way back to none.
SomeOffsets == {0, -50, 51}

\* Plausible, on the upper bound, implausible, and outside what the handler takes.
SomeRatios == {277, 600, 700, 20000}

\* Measured with a sound battery input.
SoundMeasures == {271}

\* Measured with an input that is almost open: the reading of the ADC is near zero.
AnyMeasures == {271, 24800}

SomeStale == {310, 9000}
=============================================================================
