--------------------------- MODULE MC_CellTester ---------------------------
(***************************************************************************)
(* Instances of CellTester.                                                *)
(***************************************************************************)
EXTENDS CellTester

\* A dead cell, one below the cutoff, one that may be tested and a full one.
FourLevels == {15, 54, 74, 84}

\* A cell under load: from full to below the cutoff in steps of 400 mV at most, so
\* that no step looks like a removal by itself.
LoadCurve == {54, 62, 70, 77, 84}
=============================================================================
