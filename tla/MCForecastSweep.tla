--------------------------- MODULE MCForecastSweep ---------------------------
(* Model-checking instance of ForecastSweep.                                *)
EXTENDS ForecastSweep, TLC

RequestSymmetry == Permutations(Requests)
=============================================================================
