---------------------------- MODULE ForecastPipeline ----------------------------
(***************************************************************************)
(* One forecast from telemetry to advice: ForecastingPipeline.run          *)
(* (futuris/core/pipeline.py) and ForecastEngine.orchestrate               *)
(* (core/engine.py), with the routing and backtest selection of models/    *)
(* and the confidence and decision rules.  The series, every fit and its   *)
(* duration, the pressure on the CPU and the cross-service lease are what  *)
(* the environment makes them.                                             *)
(***************************************************************************)
EXTENDS SignalGrid, Sequences, SequencesExt

CONSTANTS
  Grids,        (* lengths of the time grid                                *)
  Day, Week,    (* 288 and 2016 rows                                       *)
  Horizon,      (* horizon_steps                                           *)
  MinVal,       (* the least held-out share of a long series: 12           *)
  FitEstimate,  (* EXPENSIVE_FIT_ESTIMATE_SECONDS                          *)
  Budgets,      (* model_budget_seconds                                    *)
  FitScores,    (* mean absolute errors                                    *)
  Chances,      (* exceedance probabilities in percent                     *)
  Resolved,     (* historical_resolved_count: the callers pass 0           *)
  Coordinated   (* a heavy-task coordinator is configured                  *)

ASSUME PipelineAssumption ==
  /\ Grids \cup Budgets \cup FitScores \cup Chances \cup Resolved \subseteq Nat
  /\ {Day, Week, FitEstimate} \subseteq Nat
  /\ {Horizon, MinVal} \subseteq Nat \ {0} /\ Coordinated \in BOOLEAN

VARIABLES
  stage,        (* what comes next                                         *)
  series,       (* the observations: cells of the grid 1 .. n              *)
  report,       (* the rows up to as_of and the quality of the signal set  *)
  pressure,     (* the CPU was saturated when the request looked           *)
  clock,        (* what is left of the model budget; Unbounded without one *)
  queue,        (* candidates still to try                                 *)
  outcome,      (* per candidate: score, "failed", "skipped" or "untried"  *)
  best,         (* best_adapter and best_score                             *)
  forecast      (* what is delivered                                       *)

pipelineVars == <<stage, series, report, pressure, clock, queue, outcome, best, forecast>>

Cheap == {"naive", "drift", "seasonal_naive"}
Expensive == {"mean_ensemble", "auto_ets"}
Candidates == Cheap \cup Expensive
Unbounded == -1
Incomparable == -2      \* a mean absolute error that is NaN or infinite
Untried == -3
Failed == -4
Skipped == -5
Scored == {c \in Candidates : outcome[c] \in FitScores \cup {Incomparable}}
NoBest == [adapter |-> "none", score |-> Incomparable]
NoForecast == [model |-> "none", fallback |-> FALSE, degraded |-> FALSE, confidence |-> "low",
               urgency |-> "monitor", action |-> "continue_monitoring", approval |-> FALSE]

PipelineInit ==
  /\ stage = "ingest" /\ pressure \in BOOLEAN
  /\ \E n \in Grids : \E seen \in SeriesUpTo(n), asOf \in {n - 1, n} :
       series = [seen |-> seen, n |-> n] /\ report = [rows |-> asOf, coverage |-> 0]
  /\ clock = Unbounded /\ queue = <<>>
  /\ outcome = [c \in Candidates |-> Untried] /\ best = NoBest /\ forecast = NoForecast

Quality == report.coverage
SeriesValues == Cells(series.seen, series.n)
Consumed == [seen |-> {}, n |-> 0]

-----------------------------------------------------------------------------
(* Routing and selection.                                                   *)

\* select_candidates.
Route ==
  CASE report.rows < Day -> <<"drift", "naive">>
    [] report.rows >= Day /\ Quality < 80 -> <<"seasonal_naive", "drift", "naive">>
    [] report.rows >= Week /\ Quality >= 80 ->
         <<"mean_ensemble", "auto_ets", "seasonal_naive", "drift", "naive">>
    [] OTHER -> <<"seasonal_naive", "auto_ets", "drift", "naive">>

IsExpensive(c) == c \in Expensive

\* The cheap candidates of a route before the expensive ones, each kind in its order.
CheapFirst(route) ==
  {q \in [DOMAIN route -> ToSet(route)] :
     /\ ToSet(q) = ToSet(route)
     /\ \A i, k \in DOMAIN q : i < k =>
          \/ ~IsExpensive(q[i]) /\ IsExpensive(q[k])
          \/ /\ IsExpensive(q[i]) <=> IsExpensive(q[k])
             /\ \E l, m \in DOMAIN route : l < m /\ route[l] = q[i] /\ route[m] = q[k]}

\* The held-out rows, and whether any are left to train on.
ValSteps == Min({Horizon, Max({MinVal, report.rows \div 5})})
Trainable == report.rows > ValSteps

\* fetch, normalize, build_feature_table, freeze_snapshot.  A connector or a stage may
\* fail, and then the request does.
Ingest ==
  /\ stage = "ingest"
  /\ stage' \in {"admit", "failed"}
  /\ report' = [report EXCEPT !.coverage = Coverage(series.seen, series.n)]
  /\ series' = Consumed
  /\ UNCHANGED <<pressure, clock, queue, outcome, best, forecast>>

\* Into the worker process, once the coordinator has granted the lease, with the time
\* that is left of the budget.
Admit ==
  /\ stage = "admit" /\ stage' = "select"
  /\ clock' \in Budgets \cup {Unbounded}
  /\ queue' \in IF clock' # Unbounded \/ pressure THEN CheapFirst(Route) ELSE {Route}
  /\ UNCHANGED <<series, report, pressure, outcome, best, forecast>>

Trying == Head(queue)
UnderPressure == IsExpensive(Trying) /\ pressure
OutOfTime ==
  clock # Unbounded /\ Scored # {} /\ clock <= (IF IsExpensive(Trying) THEN FitEstimate ELSE 0)

Skip ==
  /\ stage = "select" /\ queue # <<>>
  /\ UnderPressure \/ OutOfTime
  /\ queue' = Tail(queue) /\ outcome' = [outcome EXCEPT ![Trying] = Skipped]
  /\ UNCHANGED <<stage, series, report, pressure, clock, best, forecast>>

\* Fit, predict the held-out rows and score; or fail, which is recorded.
Fit ==
  /\ stage = "select" /\ queue # <<>> /\ ~UnderPressure /\ ~OutOfTime
  /\ clock' \in IF clock = Unbounded THEN {Unbounded} ELSE 0 .. clock
  /\ \E result \in (IF Trainable THEN FitScores \cup {Incomparable} ELSE {}) \cup {Failed} :
       /\ outcome' = [outcome EXCEPT ![Trying] = result]
       /\ best' = IF result \in FitScores /\ (best = NoBest \/ result < best.score)
                  THEN [adapter |-> Trying, score |-> result] ELSE best
  /\ queue' = Tail(queue)
  /\ UNCHANGED <<stage, series, report, pressure, forecast>>

\* Another service takes the lease over: the work is stopped, or its result dropped.
LoseLease ==
  /\ Coordinated /\ stage \in {"select", "assess"}
  /\ stage' = "failed"
  /\ UNCHANGED <<series, report, pressure, clock, queue, outcome, best, forecast>>

\* The refit on all rows, naive when nothing was chosen, may fail too.
Refit ==
  /\ stage = "select" /\ queue = <<>>
  /\ stage' \in {"assess", "failed"}
  /\ forecast' = [forecast EXCEPT !.model = IF best = NoBest THEN "naive" ELSE best.adapter,
                    !.fallback = (best = NoBest),
                    !.degraded = \E c \in Candidates : outcome[c] = Skipped]
  /\ UNCHANGED <<series, report, pressure, clock, queue, outcome, best>>

-----------------------------------------------------------------------------
(* Confidence and decision.                                                 *)

\* ConfidenceAssessor.evaluate: both errors it compares are the backtest's, so that
\* recent degradation is never seen.
ConfidenceLevels == <<"low", "medium", "high">>
Confidence(resolved) ==
  CASE Quality < 85 \/ resolved < 10 -> "low"
    [] Quality >= 85 /\ resolved \in 10 .. 49 -> "medium"
    [] OTHER -> IF report.rows < 20 THEN "medium" ELSE "high"

\* implications and recommendations.
Urgency(chance, hours) ==
  CASE chance >= 75 /\ hours <= 6 -> "now"
    [] chance >= 50 /\ hours <= 24 /\ ~(chance >= 75 /\ hours <= 6) -> "today"
    [] chance >= 30 /\ (chance < 50 \/ hours > 24) -> "this_week"
    [] OTHER -> "monitor"

Action(chance) ==
  CASE chance >= 60 -> "scale_capacity"
    [] chance >= 30 /\ chance < 60 -> "prepare_warm_standby"
    [] OTHER -> "continue_monitoring"

\* The forecast is assembled with its advice.
Assess ==
  /\ stage = "assess" /\ stage' = "done"
  /\ \E chance \in Chances, hours \in {6, 24, 48}, resolved \in Resolved :
       forecast' = [forecast EXCEPT !.confidence = Confidence(resolved),
                      !.urgency = Urgency(chance, hours), !.action = Action(chance),
                      !.approval = (Action(chance) # "continue_monitoring")]
  /\ UNCHANGED <<series, report, pressure, clock, queue, outcome, best>>

PipelineNext ==
  Ingest \/ Admit \/ Skip \/ Fit \/ LoseLease \/ Refit \/ Assess

PipelineSpec == PipelineInit /\ [][PipelineNext]_pipelineVars

-----------------------------------------------------------------------------
(* Properties.                                                              *)

\* A row of the feature table, and so of the evidence and of the training set, is computed
\* from observations of its own and of earlier cells, but for one: the last cell of a long
\* gap is backfilled from the next one (bfill(limit=1)), which is more than ContextLayer
\* allows with "compute ONLY using <= T", and then the gap is counted in the report.
FeaturesLookOneAhead ==
  stage = "ingest" =>
    \A i \in 1 .. report.rows :
      SourcesOf(Slice(SeriesValues, report.rows), report.rows, i) \ {Zero}
        \subseteq {j \in series.seen :
                     j <= i \/ (j = i + 1 /\ Forward(series.seen, series.n)[i] = Missing)}

\* The coverage that routes and rates a forecast counts every cell whose value was not
\* observed there or at most MaxFill cells before (long_gaps_count).
GapsAreCounted ==
  stage = "ingest" =>
    LongGaps(series.seen, series.n) =
      Cardinality({i \in 1 .. series.n :
        SeriesValues[i] = Zero \/ SeriesValues[i] \notin i - MaxFill .. i})

\* What a forecast says of its selection is so: its model is the earliest of the best
\* among all that were scored, a fallback when nothing could be, "degraded" when and
\* only when something was skipped (SelectionOutcome, metadata); and whatever it calls
\* urgent comes with an action that needs approval (DecisionSupport).
ForecastIsHonest ==
  stage \in {"assess", "done"} =>
    LET comparable == {c \in Candidates : outcome[c] \in FitScores} IN
    /\ forecast.fallback = (comparable = {})
    /\ comparable # {} => /\ forecast.model \in comparable
                          /\ \A c \in comparable : outcome[forecast.model] <= outcome[c]
    /\ {c \in Candidates : outcome[c] = Untried} = Candidates \ ToSet(Route)
    /\ forecast.degraded = (\E c \in Candidates : outcome[c] = Skipped)
    /\ forecast.urgency # "monitor" => forecast.approval

\* What the pipeline says of its data, of its choice and of its forecast is so.
PipelineIsHonest == FeaturesLookOneAhead /\ GapsAreCounted /\ ForecastIsHonest
=============================================================================
