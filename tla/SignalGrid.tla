------------------------------- MODULE SignalGrid -------------------------------
(***************************************************************************)
(* From raw telemetry to a feature table: Normalizer.normalize             *)
(* (futuris/features/normalize.py), ContextLayer.build_feature_table       *)
(* (features/contextualize.py) and EvidenceSnapshotter.freeze_snapshot     *)
(* (evidence/snapshots.py).  What matters of a number is where it comes    *)
(* from: a value is the cell of the time grid whose observations it is the *)
(* mean of, or Zero for the 0.0 that fills what is left.                   *)
(***************************************************************************)
EXTENDS Integers, FiniteSets, FiniteSetsExt

CONSTANTS
  MaxFill,      (* max_fill_gap_minutes // grid_step_minutes: 3            *)
  LagSteps,     (* lag_steps                                               *)
  Windows       (* rolling_windows                                         *)

ASSUME GridAssumption == MaxFill \in Nat /\ LagSteps \cup Windows \subseteq Nat \ {0}

Zero == 0
Missing == -1

\* A series is the set of cells that received observations.  The grid runs from the floor
\* of the first to the ceiling of the last timestamp: it starts with an observed cell and
\* may end with one empty cell.
SeriesUpTo(n) == {seen \in SUBSET (1 .. n) : 1 \in seen /\ {n - 1, n} \cap seen # {}}

\* resample, reindex and ffill(limit): an empty cell repeats the last observed one.
Forward(seen, n) ==
  [i \in 1 .. n |-> LET recent == {j \in seen : j <= i /\ i - j <= MaxFill} IN
                    IF recent = {} THEN Missing ELSE Max(recent)]

\* bfill(limit=1) and fillna(0.0): the last cell of a long gap repeats the next observed
\* one, the others become zeros.
Cells(seen, n) ==
  LET f == Forward(seen, n) IN
  [i \in 1 .. n |-> CASE f[i] # Missing -> f[i]
                      [] f[i] = Missing /\ i < n /\ f[i + 1] # Missing -> f[i + 1]
                      [] OTHER -> Zero]

MutantGapsAfterBackfill(seen, n) == Cardinality({i \in 1 .. n : Cells(seen, n)[i] = Zero})

\* long_gaps_count and coverage_percentage.
LongGaps(seen, n) == Cardinality({i \in 1 .. n : Forward(seen, n)[i] = Missing})
Coverage(seen, n) == ((n - LongGaps(seen, n)) * 100) \div n

-----------------------------------------------------------------------------
(* The feature table over cells v of the rows 1 .. n.                       *)

Lagged(v, n, lag, i) == IF i > lag THEN v[i - lag] ELSE IF n > lag THEN v[1] ELSE Zero

\* Trailing windows; the regime flag compares the value with a trailing quantile.
Rolling(v, window, i) == {v[j] : j \in Max({1, i - window + 1}) .. i}

\* What row i of the table is computed from.
SourcesOf(v, n, i) ==
  {v[i]} \cup {Lagged(v, n, lag, i) : lag \in LagSteps} \cup UNION {Rolling(v, w, i) : w \in Windows}

\* The rows up to as_of: the same slice is frozen as evidence and fitted.
Slice(v, asOf) == [i \in 1 .. asOf |-> v[i]]
=============================================================================
