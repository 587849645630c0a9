-------------------------- MODULE MC_ContinuousNode --------------------------
(***************************************************************************)
(* The instance of ContinuousNode for TLC: a clock short enough to wrap    *)
(* within a few passes of loop().                                          *)
(***************************************************************************)
EXTENDS ContinuousNode

AllBuilds == {"bme280", "sht30", "relay"}
=============================================================================
