------------------------ MODULE MCForecastLifecycle ------------------------
(* Model-checking instance of ForecastLifecycle.                            *)
EXTENDS ForecastLifecycle, TLC

AllSymmetry == Permutations(Requests) \cup Permutations(Forecasts)
=============================================================================
