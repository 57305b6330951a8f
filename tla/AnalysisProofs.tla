--------------------------- MODULE AnalysisProofs ---------------------------
(*****************************************************************************)
(* What Futuris computes and what it says of it, for any targets, books,    *)
(* samples, grids, candidates, reports and models: the pipeline of one      *)
(* forecast (ForecastPipeline), the universe of targets (UniverseRefresh), the*)
(* book and its risk (TailRisk), the research a forecast rests on           *)
(* (ResearchEvidence), the watch over models (ModelWatch), the audit of a   *)
(* tail (RiskAudit) and the scenarios on the causal graph (ScenarioRuns).   *)
(* They share no state; each has its own invariant.                         *)
(*****************************************************************************)
EXTENDS ForecastPipeline, UniverseRefresh, TailRisk, RiskAudit, ResearchEvidence, ModelWatch,
        ScenarioRuns, FiniteSetTheorems, SequenceTheorems, NumberLemmas, TLAPS

-----------------------------------------------------------------------------
(* One forecast, from its series to its assessment.                         *)

\* Max returns a member of a set of numbers that is not empty and bounded.
LEMMA GreatestOf ==
  ASSUME NEW n \in Nat, NEW T \in SUBSET (1 .. n), T # {}
  PROVE  Max(T) \in T
<1> DEFINE D == {d \in Nat : n - d \in T}
<1>1. D \in SUBSET Nat /\ D # {}
  <2>1. PICK x \in T : TRUE
    OBVIOUS
  <2>2. n - x \in Nat /\ n - (n - x) = x
    OBVIOUS
  <2>3. n - x \in D
    BY <2>1, <2>2
  <2> QED
    BY <2>3
<1>2. PICK d \in D : \A e \in D : d <= e
  BY <1>1, LeastOf
<1>3. \A y \in T : y <= n - d
  <2> TAKE y \in T
  <2>1. n - y \in Nat /\ n - (n - y) = y
    OBVIOUS
  <2>2. n - y \in D
    BY <2>1
  <2> QED
    BY <1>2, <2>1, <2>2
<1>4. n - d \in T /\ \A y \in T : n - d >= y
  BY <1>2, <1>3
<1> QED
  BY <1>4 DEF Max

-----------------------------------------------------------------------------
\* The instants observed within MaxFill steps before i.
Within(seen, i) == {j \in seen : j <= i /\ i - j <= MaxFill}

\* Forward filling takes a value of the recent past, and leaves a gap where there is none.
LEMMA ForwardIsRecent ==
  ASSUME NEW n \in Nat, NEW seen \in SUBSET (1 .. n), NEW i \in 1 .. n
  PROVE  /\ Within(seen, i) = {} => Forward(seen, n)[i] = Missing
         /\ Within(seen, i) # {} => Forward(seen, n)[i] \in Within(seen, i)
<1> DEFINE recent == Within(seen, i)
<1>1. Forward(seen, n)[i] = IF recent = {} THEN Missing ELSE Max(recent)
  BY DEF Forward, Within
<1>2. recent \in SUBSET (1 .. n)
  BY DEF Within
<1> HIDE DEF recent
<1>3. recent # {} => Max(recent) \in recent
  BY <1>2, GreatestOf
<1> QED
  BY <1>1, <1>3 DEF recent

\* A cell that forward filling left open is zero or comes from outside its recent past.
LEMMA CellsOf ==
  ASSUME NEW n \in Nat, NEW seen \in SUBSET (1 .. n), NEW i \in 1 .. n
  PROVE  LET v == Cells(seen, n)[i] IN
         Forward(seen, n)[i] = Missing <=> v = Zero \/ v \notin i - MaxFill .. i
<1> DEFINE f == Forward(seen, n)
           v == Cells(seen, n)[i]
<1>0. MaxFill \in Nat
  BY GridAssumption
<1>1. v = CASE f[i] # Missing -> f[i]
            [] f[i] = Missing /\ i < n /\ f[i + 1] # Missing -> f[i + 1]
            [] OTHER -> Zero
  BY DEF Cells
<1> HIDE DEF f, v
<1>2. CASE f[i] # Missing
  <2>1. f[i] \in seen /\ f[i] <= i /\ i - f[i] <= MaxFill
    BY <1>2, ForwardIsRecent DEF f, Within
  <2>2. v = f[i]
    BY <1>1, <1>2
  <2>3. f[i] \in 1 .. n
    BY <2>1
  <2> QED
    BY <1>0, <1>2, <2>1, <2>2, <2>3 DEF Zero, f, v
<1>3. CASE f[i] = Missing /\ i < n /\ f[i + 1] # Missing
  <2>1. i + 1 \in 1 .. n
    BY <1>3
  <2>2. PICK x \in 1 .. n : x = f[i + 1] /\ x \in seen /\ x <= i + 1 /\ i + 1 - x <= MaxFill
    <3>1. PICK k \in 1 .. n : k = i + 1
      BY <2>1
    <3>2. f[k] # Missing
      BY <1>3, <3>1
    <3>3. f[k] \in Within(seen, k)
      BY <3>2, ForwardIsRecent DEF f
    <3>4. f[k] \in 1 .. n /\ f[k] \in seen /\ f[k] <= k /\ k - f[k] <= MaxFill
      BY <3>3 DEF Within
    <3> QED
      BY <3>1, <3>4
  <2>3. v = x
    BY <1>1, <1>3, <2>2
  <2>4. Within(seen, i) = {}
    <3>1. Missing \notin Within(seen, i)
      BY DEF Missing, Within
    <3> QED
      BY <1>3, <3>1, ForwardIsRecent DEF f
  <2>5. x > i
    <3>1. ASSUME x <= i PROVE FALSE
      <4>1. i - x <= MaxFill
        BY <1>0, <2>2
      <4>2. x \in Within(seen, i)
        BY <2>2, <3>1, <4>1 DEF Within
      <4> QED
        BY <2>4, <4>2
    <3> QED
      BY <3>1
  <2> QED
    BY <1>0, <1>3, <2>2, <2>3, <2>5 DEF f, v
<1>4. CASE f[i] = Missing /\ ~(i < n /\ f[i + 1] # Missing)
  BY <1>1, <1>4 DEF f, v
<1> QED
  BY <1>2, <1>3, <1>4

\* A cell holds an observation of its past, or of the next cell when nothing recent fills it.
LEMMA CellLooksOneAhead ==
  ASSUME NEW n \in Nat, NEW seen \in SUBSET (1 .. n), NEW i \in 1 .. n, Cells(seen, n)[i] # Zero
  PROVE  /\ Cells(seen, n)[i] \in seen
         /\ \/ Cells(seen, n)[i] <= i
            \/ Cells(seen, n)[i] = i + 1 /\ Forward(seen, n)[i] = Missing
<1> DEFINE f == Forward(seen, n)
           v == Cells(seen, n)[i]
<1>0. MaxFill \in Nat
  BY GridAssumption
<1>1. v = CASE f[i] # Missing -> f[i]
            [] f[i] = Missing /\ i < n /\ f[i + 1] # Missing -> f[i + 1]
            [] OTHER -> Zero
  BY DEF Cells
<1> HIDE DEF f, v
<1>2. CASE f[i] # Missing
  <2>1. f[i] \in seen /\ f[i] <= i
    BY <1>2, ForwardIsRecent DEF f, Within
  <2> QED
    BY <1>1, <1>2, <2>1 DEF f, v
<1>3. CASE f[i] = Missing /\ i < n /\ f[i + 1] # Missing
  <2>1. PICK k \in 1 .. n : k = i + 1
    BY <1>3
  <2>2. f[k] # Missing
    BY <1>3, <2>1
  <2>3. PICK x \in 1 .. n : x = f[k] /\ x \in seen /\ x <= k /\ k - x <= MaxFill
    BY <2>2, ForwardIsRecent DEF f, Within
  <2>4. v = x
    BY <1>1, <1>3, <2>1, <2>3
  <2> QED
    BY <1>3, <2>1, <2>3, <2>4 DEF f, v
<1>4. CASE f[i] = Missing /\ ~(i < n /\ f[i + 1] # Missing)
  <2>1. v = Zero
    BY <1>1, <1>4
  <2> QED
    BY <2>1 DEF v
<1> QED
  BY <1>2, <1>3, <1>4

\* The report counts every cell that is not a recent observation.
LEMMA EveryGapCounted ==
  ASSUME NEW n \in Nat, NEW seen \in SUBSET (1 .. n)
  PROVE  LongGaps(seen, n) = Cardinality({i \in 1 .. n :
           Cells(seen, n)[i] = Zero \/ Cells(seen, n)[i] \notin i - MaxFill .. i})
<1>1. {i \in 1 .. n : Forward(seen, n)[i] = Missing} =
      {i \in 1 .. n : Cells(seen, n)[i] = Zero \/ Cells(seen, n)[i] \notin i - MaxFill .. i}
  BY CellsOf
<1> QED
  BY <1>1 DEF LongGaps

\* Where a trailing window starts.
LEMMA WindowStart ==
  ASSUME NEW k \in Int
  PROVE  Max({1, k}) >= 1 /\ Max({1, k}) \in Int
<1>1. \E x \in {1, k} : \A y \in {1, k} : x >= y
  <2>1. CASE k >= 1
    BY <2>1
  <2>2. CASE ~(k >= 1)
    BY <2>2
  <2> QED
    BY <2>1, <2>2
<1>2. Max({1, k}) \in {1, k} /\ \A y \in {1, k} : Max({1, k}) >= y
  BY <1>1 DEF Max
<1> QED
  BY <1>2

\* The features of a row come from rows up to it, or from padding.
LEMMA SourcesAreTrailing ==
  ASSUME NEW n \in Nat, NEW v, NEW i \in 1 .. n
  PROVE  SourcesOf(Slice(v, n), n, i) \subseteq {v[j] : j \in 1 .. i} \cup {Zero}
<1> DEFINE w == Slice(v, n)
           past == {v[j] : j \in 1 .. i} \cup {Zero}
<1>1. \A j \in 1 .. n : w[j] = v[j]
  BY DEF Slice
<1>2. \A j \in 1 .. i : w[j] \in past
  BY <1>1
<1> HIDE DEF w
<1>3. ASSUME NEW lag \in LagSteps PROVE Lagged(w, n, lag, i) \in past
  <2>1. lag \in Nat \ {0}
    BY GridAssumption
  <2>2. CASE i > lag
    <3>1. i - lag \in 1 .. i
      BY <2>1, <2>2
    <3>2. w[i - lag] \in past
      BY <1>2, <3>1
    <3> QED
      BY <2>2, <3>2 DEF Lagged
  <2>3. CASE ~(i > lag)
    <3>1. 1 \in 1 .. i
      OBVIOUS
    <3>2. w[1] \in past
      BY <1>2, <3>1
    <3> QED
      BY <2>3, <3>2 DEF Lagged
  <2> QED
    BY <2>2, <2>3
<1>4. ASSUME NEW window \in Windows PROVE Rolling(w, window, i) \subseteq past
  <2>1. window \in Nat \ {0}
    BY GridAssumption
  <2>2. i - window + 1 \in Int
    BY <2>1
  <2>3. Max({1, i - window + 1}) >= 1 /\ Max({1, i - window + 1}) \in Int
    BY <2>2, WindowStart
  <2>4. \A j \in Max({1, i - window + 1}) .. i : j \in 1 .. i
    BY <2>3
  <2> QED
    BY <1>2, <2>4 DEF Rolling
<1>5. w[i] \in past
  BY <1>2
<1> HIDE DEF past
<1>6. SourcesOf(w, n, i) \subseteq past
  BY <1>3, <1>4, <1>5 DEF SourcesOf
<1> QED
  BY <1>6 DEF w, past

-----------------------------------------------------------------------------
\* No candidate occurs twice in q.
Distinct(q) == \A i, k \in DOMAIN q : i < k => q[i] # q[k]
\* What may be known of a candidate.
Results == FitScores \cup {Incomparable, Untried, Failed, Skipped}

\* The routes the selector chooses from.
LEMMA RouteIsKnown ==
  Route \in {<<"drift", "naive">>, <<"seasonal_naive", "drift", "naive">>,
             <<"mean_ensemble", "auto_ets", "seasonal_naive", "drift", "naive">>,
             <<"seasonal_naive", "auto_ets", "drift", "naive">>}
BY DEF Route

\* A route repeats no candidate.
LEMMA RouteTypes ==
  /\ Route \in Seq(Candidates) /\ Distinct(Route)
  /\ Len(Route) \in Nat /\ DOMAIN Route = 1 .. Len(Route) /\ ToSet(Route) \subseteq Candidates
<1>1. CASE Route = <<"drift", "naive">>
  BY <1>1 DEF Candidates, Cheap, Expensive, Distinct, ToSet
<1>2. CASE Route = <<"seasonal_naive", "drift", "naive">>
  BY <1>2 DEF Candidates, Cheap, Expensive, Distinct, ToSet
<1>3. CASE Route = <<"mean_ensemble", "auto_ets", "seasonal_naive", "drift", "naive">>
  BY <1>3 DEF Candidates, Cheap, Expensive, Distinct, ToSet
<1>4. CASE Route = <<"seasonal_naive", "auto_ets", "drift", "naive">>
  BY <1>4 DEF Candidates, Cheap, Expensive, Distinct, ToSet
<1> QED
  BY <1>1, <1>2, <1>3, <1>4, RouteIsKnown

\* A queue of a route: no candidate twice, and all of them.
QueueOf(q, route) == q \in Seq(Candidates) /\ Distinct(q) /\ ToSet(q) = ToSet(route)

\* Putting the cheap candidates first loses none and repeats none.
LEMMA CheapFirstIsQueue ==
  ASSUME NEW q \in CheapFirst(Route)
  PROVE  QueueOf(q, Route)
<1>1. PICK n \in Nat : n = Len(Route) /\ DOMAIN Route = 1 .. n
  BY RouteTypes
<1>2. q \in [1 .. n -> Candidates] /\ ToSet(q) = ToSet(Route)
  BY <1>1, RouteTypes DEF CheapFirst
<1>3. q \in Seq(Candidates)
  BY <1>2
<1>4. ASSUME NEW i \in DOMAIN q, NEW k \in DOMAIN q, i < k PROVE q[i] # q[k]
  <2>1. CASE ~IsExpensive(q[i]) /\ IsExpensive(q[k])
    BY <2>1
  <2>2. CASE \E l, m \in DOMAIN Route : l < m /\ Route[l] = q[i] /\ Route[m] = q[k]
    BY <2>2, RouteTypes DEF Distinct
  <2> QED
    BY <1>4, <2>1, <2>2 DEF CheapFirst
<1> QED
  BY <1>2, <1>3, <1>4 DEF QueueOf, Distinct

\* What leaves the head of a queue is no longer in it, and nothing else left.
LEMMA NextInQueue ==
  ASSUME NEW q \in Seq(Candidates), Distinct(q), q # << >>
  PROVE  /\ Head(q) \in Candidates /\ Tail(q) \in Seq(Candidates) /\ Distinct(Tail(q))
         /\ \A c : c \in ToSet(Tail(q)) <=> c \in ToSet(q) /\ c # Head(q)
<1>1. PICK n \in Nat \ {0} : n = Len(q) /\ DOMAIN q = 1 .. n
  OBVIOUS
<1>2. /\ Head(q) = q[1] /\ Head(q) \in Candidates
      /\ Tail(q) \in Seq(Candidates) /\ DOMAIN Tail(q) = 1 .. n - 1
      /\ \A i \in 1 .. n - 1 : Tail(q)[i] = q[i + 1]
  BY <1>1
<1>3. Distinct(Tail(q))
  <2>1. ASSUME NEW i \in 1 .. n - 1, NEW k \in 1 .. n - 1, i < k PROVE Tail(q)[i] # Tail(q)[k]
    <3>1. i + 1 \in 1 .. n /\ k + 1 \in 1 .. n /\ i + 1 < k + 1
      BY <2>1
    <3>2. q[i + 1] # q[k + 1]
      BY <1>1, <3>1 DEF Distinct
    <3> QED
      BY <1>2, <3>2
  <2> QED
    BY <1>2, <2>1 DEF Distinct
<1>4. ASSUME NEW c \in ToSet(Tail(q)) PROVE c \in ToSet(q) /\ c # Head(q)
  <2>1. PICK i \in 1 .. n - 1 : c = q[i + 1]
    BY <1>2 DEF ToSet
  <2>2. i + 1 \in 1 .. n /\ 1 < i + 1 /\ 1 \in 1 .. n
    OBVIOUS
  <2>3. q[1] # q[i + 1]
    BY <1>1, <2>2 DEF Distinct
  <2> QED
    BY <1>1, <1>2, <2>1, <2>2, <2>3 DEF ToSet
<1>5. ASSUME NEW c \in ToSet(q), c # Head(q) PROVE c \in ToSet(Tail(q))
  <2>1. PICK i \in 1 .. n : c = q[i] /\ i # 1
    BY <1>1, <1>2, <1>5 DEF ToSet
  <2>2. i - 1 \in 1 .. n - 1 /\ (i - 1) + 1 = i
    BY <2>1
  <2>3. Tail(q)[i - 1] = c
    BY <1>2, <2>1, <2>2
  <2> QED
    BY <1>2, <2>2, <2>3 DEF ToSet
<1> QED
  BY <1>2, <1>3, <1>4, <1>5

-----------------------------------------------------------------------------
\* The best so far is one of the candidates with the least score.
BestOf(b, results) ==
  \/ b = NoBest /\ \A c \in Candidates : results[c] \notin FitScores
  \/ /\ b.adapter \in Candidates /\ b.score \in FitScores /\ results[b.adapter] = b.score
     /\ \A c \in Candidates : results[c] \in FitScores => b.score <= results[c]

\* What is untried is what is still in the queue, or was never on the route.
TriedOf(left, results) ==
  \A c \in Candidates : results[c] = Untried <=> c \in left \/ c \notin ToSet(Route)

\* The names a forecast may bear.
ModelNames == Candidates \cup {"none"}
\* The types of a forecast.
ForecastType ==
  [model : ModelNames, fallback : BOOLEAN, degraded : BOOLEAN, confidence : {"low", "medium", "high"},
   urgency : {"now", "today", "this_week", "monitor"}, approval : BOOLEAN,
   action : {"scale_capacity", "prepare_warm_standby", "continue_monitoring"}]

\* The inductive invariant of one forecast, from the series to the assessment.
PipelineInv ==
  /\ stage = "ingest" => /\ series.n \in Grids /\ series.seen \in SeriesUpTo(series.n)
                         /\ report.rows \in {series.n - 1, series.n}
  /\ outcome \in [Candidates -> Results] /\ BestOf(best, outcome)
  /\ stage \in {"ingest", "admit"} => \A c \in Candidates : outcome[c] = Untried
  /\ stage \in {"ingest", "admit", "select"} => forecast = NoForecast
  /\ stage = "select" => /\ queue \in Seq(Candidates) /\ Distinct(queue) /\ ToSet(queue) \subseteq ToSet(Route)
                         /\ TriedOf(ToSet(queue), outcome)
  /\ stage = "assess" => forecast \in ForecastType
  /\ ForecastIsHonest

\* The constants of the pipeline.
LEMMA ScoresAreNatural == FitScores \subseteq Nat /\ Grids \subseteq Nat /\ Chances \subseteq Nat
BY PipelineAssumption

\* Before the series is read the invariant holds.
LEMMA PipelineInitial == PipelineInit => PipelineInv
<1> SUFFICES ASSUME PipelineInit PROVE PipelineInv
  OBVIOUS
<1>1. Untried \notin FitScores
  BY ScoresAreNatural DEF Untried
<1>2. outcome \in [Candidates -> Results] /\ \A c \in Candidates : outcome[c] = Untried
  BY DEF PipelineInit, Results
<1>3. BestOf(best, outcome)
  BY <1>1, <1>2 DEF PipelineInit, BestOf
<1>4. PICK n \in Grids : \E seen \in SeriesUpTo(n), asOf \in {n - 1, n} :
        series = [seen |-> seen, n |-> n] /\ report = [rows |-> asOf, coverage |-> 0]
  BY DEF PipelineInit
<1>5. series.n \in Grids /\ series.seen \in SeriesUpTo(series.n) /\ report.rows \in {series.n - 1, series.n}
  BY <1>4
<1> QED
  BY <1>2, <1>3, <1>5 DEF PipelineInit, PipelineInv, ForecastIsHonest

\* The best once c got its result: select_best_adapter keeps the earlier one of equals.
Better(b, c, result) ==
  IF result \in FitScores /\ (b = NoBest \/ result < b.score)
  THEN [adapter |-> c, score |-> result] ELSE b

\* One untried candidate got its result.
OneMore(results, c, result, after) ==
  /\ results \in [Candidates -> Results] /\ c \in Candidates /\ results[c] = Untried
  /\ result \in Results \ {Untried}
  /\ \A d \in Candidates : after[d] = IF d = c THEN result ELSE results[d]

\* Comparing one more candidate with the best keeps the best.
LEMMA BestOfOneMore ==
  ASSUME NEW b, NEW results, NEW c, NEW result, NEW after,
         BestOf(b, results), OneMore(results, c, result, after)
  PROVE  BestOf(Better(b, c, result), after)
<1>0. /\ results \in [Candidates -> Results] /\ c \in Candidates /\ results[c] = Untried
      /\ result \in Results \ {Untried}
      /\ \A d \in Candidates : after[d] = IF d = c THEN result ELSE results[d]
  BY DEF OneMore
<1>1. Untried \notin FitScores
  BY ScoresAreNatural DEF Untried
<1>2. CASE result \notin FitScores
  BY <1>0, <1>1, <1>2 DEF BestOf, Better
<1>3. CASE result \in FitScores /\ b = NoBest
  <2> DEFINE better == [adapter |-> c, score |-> result]
  <2>1. better.adapter = c /\ better.score = result
    OBVIOUS
  <2>2. \A d \in Candidates : results[d] \notin FitScores
    <3>1. b.score \notin FitScores
      BY <1>3, ScoresAreNatural DEF NoBest, Incomparable
    <3> QED
      BY <3>1 DEF BestOf
  <2>3. result <= result
    BY <1>3, ScoresAreNatural
  <2> HIDE DEF better
  <2>4. BestOf(better, after)
    BY <1>0, <1>3, <2>1, <2>2, <2>3 DEF BestOf
  <2> QED
    BY <1>3, <2>4 DEF better, Better
<1>4. CASE result \in FitScores /\ b # NoBest
  <2>1. /\ b.adapter \in Candidates /\ b.score \in FitScores /\ results[b.adapter] = b.score
        /\ \A d \in Candidates : results[d] \in FitScores => b.score <= results[d]
    BY <1>4 DEF BestOf
  <2>2. b.adapter # c
    BY <1>0, <1>1, <2>1
  <2> DEFINE s == b.score
  <2>5. s \in Nat /\ result \in Nat /\ s = b.score
    BY <1>4, <2>1, ScoresAreNatural
  <2>3. CASE result < b.score
    <3> DEFINE better == [adapter |-> c, score |-> result]
    <3>1. better.adapter = c /\ better.score = result
      OBVIOUS
    <3>2. ASSUME NEW d \in Candidates, after[d] \in FitScores PROVE result <= after[d]
      <4>1. CASE d = c
        BY <1>0, <1>4, <4>1, ScoresAreNatural
      <4>2. CASE d # c
        <5>1. b.score <= results[d] /\ after[d] = results[d]
          BY <1>0, <2>1, <3>2, <4>2
        <5> QED
          <6>1. PICK r \in Nat : r = results[d]
            BY <3>2, <5>1, ScoresAreNatural
          <6>2. s <= r /\ result < s
            BY <2>3, <5>1, <6>1
          <6> HIDE DEF s
          <6>3. result <= r
            BY <2>5, <6>1, <6>2
          <6> QED
            BY <5>1, <6>1, <6>3
      <4> QED
        BY <4>1, <4>2
    <3> HIDE DEF better
    <3>3. BestOf(better, after)
      BY <1>0, <1>4, <3>1, <3>2 DEF BestOf
    <3> QED
      BY <1>4, <2>3, <3>3 DEF better, Better
  <2>4. CASE ~(result < b.score)
    <3>1. b.score <= result
      <4>1. ~(result < s)
        BY <2>4
      <4>2. s <= result
        <5> HIDE DEF s
        <5> QED
          BY <2>5, <4>1
      <4> QED
        BY <4>2
    <3>2. BestOf(b, after)
      BY <1>0, <2>1, <2>2, <3>1 DEF BestOf
    <3> QED
      BY <1>4, <2>4, <3>2 DEF Better
  <2> QED
    BY <2>3, <2>4
<1> QED
  BY <1>2, <1>3, <1>4

\* A candidate leaves the queue with a result.
CandidateTried(result, better) ==
  /\ stage = "select" /\ queue # << >>
  /\ queue' = Tail(queue) /\ outcome' = [outcome EXCEPT ![Trying] = result]
  /\ UNCHANGED <<stage, series, report, forecast>> /\ best' = better

\* Trying a candidate keeps the invariant.
LEMMA CandidateStep ==
  ASSUME PipelineInv, NEW result \in Results \ {Untried},
         CandidateTried(result, Better(best, Trying, result))
  PROVE  PipelineInv'
<1>1. /\ stage = "select" /\ stage' = "select" /\ forecast' = NoForecast /\ report' = report
      /\ queue \in Seq(Candidates) /\ Distinct(queue) /\ queue # << >> /\ queue' = Tail(queue)
      /\ ToSet(queue) \subseteq ToSet(Route) /\ TriedOf(ToSet(queue), outcome)
  BY DEF CandidateTried, PipelineInv
<1>2. PICK c \in Candidates : c = Trying /\ c = Head(queue)
  BY <1>1, NextInQueue DEF Trying
<1>3. /\ queue' \in Seq(Candidates) /\ Distinct(queue')
      /\ \A d : d \in ToSet(queue') <=> d \in ToSet(queue) /\ d # c
  BY <1>1, <1>2, NextInQueue
<1>4. c \in ToSet(queue)
  <2>1. 1 \in DOMAIN queue /\ c = queue[1]
    BY <1>1, <1>2
  <2> QED
    BY <2>1 DEF ToSet
<1>5. outcome \in [Candidates -> Results] /\ outcome' = [outcome EXCEPT ![c] = result] /\ outcome[c] = Untried
  BY <1>1, <1>2, <1>4 DEF CandidateTried, PipelineInv, TriedOf
<1>6. outcome' \in [Candidates -> Results] /\ \A d \in Candidates : outcome'[d] = IF d = c THEN result ELSE outcome[d]
  BY <1>5
<1>7. BestOf(best', outcome')
  <2>1. BestOf(best, outcome)
    BY DEF PipelineInv
  <2>2. best' = Better(best, c, result)
    BY <1>2 DEF CandidateTried
  <2>3. OneMore(outcome, c, result, outcome')
    BY <1>5, <1>6 DEF OneMore
  <2>4. BestOf(Better(best, c, result), outcome')
    BY <2>1, <2>3, BestOfOneMore
  <2> QED
    BY <2>2, <2>4
<1>8. Route' = Route
  BY <1>1 DEF Route, Quality
<1>9. ToSet(queue') \subseteq ToSet(Route') /\ TriedOf(ToSet(queue), outcome)
  BY <1>1, <1>3, <1>8
<1>10. \A d \in Candidates : outcome'[d] = Untried <=> d \in ToSet(queue') \/ d \notin ToSet(Route')
  BY <1>1, <1>3, <1>4, <1>6, <1>8, <1>9 DEF TriedOf
<1> HIDE DEF CandidateTried
<1>11. TriedOf(ToSet(queue), outcome)'
  BY <1>10 DEF TriedOf
<1>12. BestOf(best, outcome)' /\ Distinct(queue)' /\ (ToSet(queue) \subseteq ToSet(Route))'
  BY <1>3, <1>7, <1>9 DEF BestOf, Distinct
<1>13. ForecastIsHonest'
  BY <1>1 DEF ForecastIsHonest
<1> QED
  BY <1>1, <1>3, <1>6, <1>11, <1>12, <1>13 DEF PipelineInv

-----------------------------------------------------------------------------
\* Reading the series and admission keep the invariant.
LEMMA EarlyStep ==
  ASSUME PipelineInv, Ingest \/ Admit
  PROVE  PipelineInv'
<1>1. /\ outcome' = outcome /\ best' = best /\ forecast' = forecast
      /\ stage \in {"ingest", "admit"} /\ stage' \in {"admit", "select", "failed"}
  BY DEF Ingest, Admit
<1>2. /\ outcome \in [Candidates -> Results] /\ BestOf(best, outcome) /\ forecast = NoForecast
      /\ \A c \in Candidates : outcome[c] = Untried
  BY <1>1 DEF PipelineInv
<1>3. BestOf(best, outcome)'
  BY <1>1, <1>2 DEF BestOf
<1>4. ForecastIsHonest'
  BY <1>1 DEF ForecastIsHonest
<1>5. CASE stage' # "select"
  BY <1>1, <1>2, <1>3, <1>4, <1>5 DEF PipelineInv
<1>6. CASE stage' = "select"
  <2>1. Admit
    BY <1>6 DEF Ingest
  <2>2. report' = report /\ queue' \in CheapFirst(Route) \cup {Route}
    BY <2>1 DEF Admit
  <2>3. Route' = Route
    BY <2>2 DEF Route, Quality
  <2>4. QueueOf(queue', Route)
    <3>1. PICK q : q = queue' /\ q \in CheapFirst(Route) \cup {Route}
      BY <2>2
    <3>2. QueueOf(q, Route)
      BY <3>1, CheapFirstIsQueue, RouteTypes DEF QueueOf
    <3> QED
      BY <3>1, <3>2
  <2>5. queue' \in Seq(Candidates) /\ Distinct(queue') /\ ToSet(queue') = ToSet(Route)
    BY <2>4 DEF QueueOf
  <2>6. TriedOf(ToSet(queue), outcome)'
    <3>1. \A c \in Candidates : outcome'[c] = Untried /\ (c \in ToSet(queue') \/ c \notin ToSet(Route'))
      BY <1>1, <1>2, <2>3, <2>5
    <3> QED
      BY <3>1 DEF TriedOf
  <2>7. Distinct(queue)' /\ (ToSet(queue) \subseteq ToSet(Route))' /\ (queue \in Seq(Candidates))'
    BY <2>3, <2>5 DEF Distinct
  <2> QED
    BY <1>1, <1>2, <1>3, <1>4, <1>6, <2>6, <2>7 DEF PipelineInv
<1> QED
  BY <1>5, <1>6

\* Skipping a candidate whose budget is gone keeps the invariant.
LEMMA SkipStep ==
  ASSUME PipelineInv, Skip
  PROVE  PipelineInv'
<1>1. Skipped \in Results \ {Untried}
  BY DEF Results, Skipped, Untried
<1>2. Skipped \notin FitScores
  BY ScoresAreNatural DEF Skipped
<1>3. CandidateTried(Skipped, Better(best, Trying, Skipped))
  BY <1>2 DEF Skip, CandidateTried, Better
<1> QED
  BY <1>1, <1>3, CandidateStep

\* Fitting a candidate, with or without success, keeps the invariant.
LEMMA FitStep ==
  ASSUME PipelineInv, Fit
  PROVE  PipelineInv'
<1>1. PICK result \in (IF Trainable THEN FitScores \cup {Incomparable} ELSE {}) \cup {Failed} :
        /\ outcome' = [outcome EXCEPT ![Trying] = result]
        /\ best' = IF result \in FitScores /\ (best = NoBest \/ result < best.score)
                   THEN [adapter |-> Trying, score |-> result] ELSE best
  BY DEF Fit
<1>2. result \in Results \ {Untried}
  BY ScoresAreNatural DEF Results, Failed, Incomparable, Untried
<1>3. best' = Better(best, Trying, result)
  BY <1>1 DEF Better
<1>4. CandidateTried(result, Better(best, Trying, result))
  BY <1>1, <1>3 DEF Fit, CandidateTried
<1> QED
  BY <1>2, <1>4, CandidateStep

\* A lease that is lost keeps the invariant.
LEMMA LoseLeaseStep ==
  ASSUME PipelineInv, LoseLease
  PROVE  PipelineInv'
<1>1. /\ outcome' = outcome /\ best' = best /\ stage' = "failed"
  BY DEF LoseLease
<1>2. BestOf(best, outcome)' /\ (outcome \in [Candidates -> Results])'
  BY <1>1 DEF PipelineInv, BestOf
<1>3. ForecastIsHonest'
  BY <1>1 DEF ForecastIsHonest
<1> QED
  BY <1>1, <1>2, <1>3 DEF PipelineInv

\* What a forecast must say of the selection.
SaysOf(results, f) ==
  LET comparable == {c \in Candidates : results[c] \in FitScores} IN
  /\ f.fallback = (comparable = {})
  /\ comparable # {} => /\ f.model \in comparable
                        /\ \A c \in comparable : results[f.model] <= results[c]
  /\ f.degraded = (\E c \in Candidates : results[c] = Skipped)

\* A candidate was skipped.
SkippedOne(results) == \E c \in Candidates : results[c] = Skipped

\* The forecast names the best, or the fallback.
Names(f, b, results) ==
  /\ f.model = IF b = NoBest THEN "naive" ELSE b.adapter
  /\ f.fallback = (b = NoBest) /\ f.degraded = SkippedOne(results)

\* A forecast that names the best says what it must.
LEMMA BestIsSaid ==
  ASSUME NEW b, NEW results, BestOf(b, results), NEW f, Names(f, b, results)
  PROVE  SaysOf(results, f)
<1> DEFINE comparable == {c \in Candidates : results[c] \in FitScores}
<1>1. CASE b = NoBest
  <2>1. b.score \notin FitScores
    BY <1>1, ScoresAreNatural DEF NoBest, Incomparable
  <2>2. comparable = {}
    BY <2>1 DEF BestOf
  <2> QED
    BY <1>1, <2>2 DEF SaysOf, Names, SkippedOne
<1>2. CASE b # NoBest
  <2>1. /\ b.adapter \in Candidates /\ b.score \in FitScores /\ results[b.adapter] = b.score
        /\ \A c \in Candidates : results[c] \in FitScores => b.score <= results[c]
    BY <1>2 DEF BestOf
  <2>2. f.model = b.adapter /\ f.fallback = FALSE /\ b.adapter \in comparable
    BY <1>2, <2>1 DEF Names
  <2>3. \A c \in comparable : results[b.adapter] <= results[c]
    BY <2>1
  <2> QED
    BY <2>2, <2>3 DEF SaysOf, Names, SkippedOne
<1> QED
  BY <1>1, <1>2

\* The invariant the run checks, in terms of SaysOf.
LEMMA HonestIffSaid ==
  ForecastIsHonest <=> (stage \in {"assess", "done"} =>
    /\ SaysOf(outcome, forecast)
    /\ {c \in Candidates : outcome[c] = Untried} = Candidates \ ToSet(Route)
    /\ forecast.urgency # "monitor" => forecast.approval)
BY DEF ForecastIsHonest, SaysOf

\* The record the selection leaves.
Chosen(f, m, b, d) ==
  /\ m \in ModelNames /\ b \in BOOLEAN /\ d \in BOOLEAN
  /\ f = [NoForecast EXCEPT !.model = m, !.fallback = b, !.degraded = d]
\* Its fields.
SameRecord(f, m, b, d) ==
  /\ f \in ForecastType /\ f.urgency = "monitor"
  /\ f.model = m /\ f.fallback = b /\ f.degraded = d

\* The record of the selection has these fields.
LEMMA SelectionRecorded ==
  ASSUME NEW f, NEW m, NEW b, NEW d, Chosen(f, m, b, d)
  PROVE  SameRecord(f, m, b, d)
<1>0. /\ m \in ModelNames /\ b \in BOOLEAN /\ d \in BOOLEAN
      /\ f = [NoForecast EXCEPT !.model = m, !.fallback = b, !.degraded = d]
  BY DEF Chosen
<1>1. NoForecast \in ForecastType /\ NoForecast.urgency = "monitor"
  <2>1. "none" \in ModelNames
    BY DEF ModelNames
  <2> QED
    BY <2>1 DEF NoForecast, ForecastType
<1>2. DOMAIN NoForecast = {"model", "fallback", "degraded", "confidence", "urgency", "action", "approval"}
  BY DEF NoForecast
<1>3. f.model = m
  BY <1>0, <1>2
<1>4. f.fallback = b
  BY <1>0, <1>2
<1>5. f.degraded = d
  BY <1>0, <1>2
<1>6. f \in ForecastType
  <2>1. [NoForecast EXCEPT !.model = m] \in ForecastType
    BY <1>0, <1>1 DEF ForecastType
  <2>2. [[NoForecast EXCEPT !.model = m] EXCEPT !.fallback = b] \in ForecastType
    BY <1>0, <2>1 DEF ForecastType
  <2>3. f = [[[NoForecast EXCEPT !.model = m] EXCEPT !.fallback = b] EXCEPT !.degraded = d]
    BY <1>0
  <2> QED
    BY <1>0, <2>2, <2>3 DEF ForecastType
<1>7. f.urgency = "monitor"
  BY <1>0, <1>1, <1>2
<1> QED
  BY <1>3, <1>4, <1>5, <1>6, <1>7 DEF SameRecord

\* Fitting the winner again, or falling back, keeps the invariant.
LEMMA RefitStep ==
  ASSUME PipelineInv, Refit
  PROVE  PipelineInv'
<1>1. /\ stage = "select" /\ queue = << >> /\ stage' \in {"assess", "failed"}
      /\ outcome' = outcome /\ best' = best /\ report' = report /\ forecast = NoForecast
      /\ outcome \in [Candidates -> Results] /\ BestOf(best, outcome) /\ TriedOf(ToSet(queue), outcome)
  BY DEF Refit, PipelineInv
<1>2. BestOf(best, outcome)' /\ (outcome \in [Candidates -> Results])'
  BY <1>1 DEF BestOf
<1> DEFINE model == IF best = NoBest THEN "naive" ELSE best.adapter
           none == (best = NoBest)
           degraded == SkippedOne(outcome)
<1>3. forecast' = [NoForecast EXCEPT !.model = model, !.fallback = none, !.degraded = degraded]
  BY <1>1, Zenon DEF Refit, SkippedOne
<1>4. model \in ModelNames /\ none \in BOOLEAN /\ degraded \in BOOLEAN
  <2>1. best # NoBest => best.adapter \in Candidates
    BY <1>1 DEF BestOf
  <2>2. model \in ModelNames
    BY <2>1 DEF ModelNames, Candidates, Cheap
  <2>3. none \in BOOLEAN
    OBVIOUS
  <2>4. degraded \in BOOLEAN
    BY Zenon DEF SkippedOne
  <2> QED
    BY <2>2, <2>3, <2>4
<1> HIDE DEF model, none, degraded
<1>5. /\ forecast' \in ForecastType /\ forecast'.urgency = "monitor"
      /\ forecast'.model = model /\ forecast'.fallback = none /\ forecast'.degraded = degraded
  <2>1. Chosen(forecast', model, none, degraded)
    BY <1>3, <1>4 DEF Chosen
  <2>2. SameRecord(forecast', model, none, degraded)
    BY <2>1, SelectionRecorded
  <2> QED
    BY <2>2 DEF SameRecord
<1>6. SaysOf(outcome, forecast')
  <2>1. Names(forecast', best, outcome)
    BY <1>5, Zenon DEF Names, model, none, degraded
  <2> QED
    BY <1>1, <2>1, BestIsSaid
<1>7. SaysOf(outcome, forecast)'
  BY <1>1, <1>6 DEF SaysOf
<1>8. Route' = Route
  BY <1>1 DEF Route, Quality
<1>9. ({c \in Candidates : outcome[c] = Untried} = Candidates \ ToSet(Route))'
  <2>1. \A c : c \notin ToSet(queue)
    BY <1>1 DEF ToSet
  <2> QED
    BY <1>1, <1>8, <2>1 DEF TriedOf
<1>10. ForecastIsHonest'
  BY <1>5, <1>7, <1>9, HonestIffSaid DEF ForecastIsHonest, SaysOf
<1> QED
  BY <1>1, <1>2, <1>5, <1>10 DEF PipelineInv

\* What is urgent recommends an action.
LEMMA UrgentNeedsApproval ==
  ASSUME NEW chance \in Nat, NEW hours, Urgency(chance, hours) # "monitor"
  PROVE  Action(chance) # "continue_monitoring"
<1>1. chance >= 30
  BY DEF Urgency
<1> QED
  BY <1>1 DEF Action

\* The assessment keeps the invariant.
LEMMA AssessStep ==
  ASSUME PipelineInv, Assess
  PROVE  PipelineInv'
<1>1. /\ stage = "assess" /\ stage' = "done" /\ outcome' = outcome /\ best' = best /\ report' = report
      /\ outcome \in [Candidates -> Results] /\ BestOf(best, outcome)
      /\ forecast \in ForecastType /\ ForecastIsHonest
  BY DEF Assess, PipelineInv
<1>2. BestOf(best, outcome)' /\ (outcome \in [Candidates -> Results])'
  BY <1>1 DEF BestOf
<1>3. PICK chance \in Chances, hours \in {6, 24, 48}, resolved \in Resolved :
        forecast' = [forecast EXCEPT !.confidence = Confidence(resolved),
                       !.urgency = Urgency(chance, hours), !.action = Action(chance),
                       !.approval = (Action(chance) # "continue_monitoring")]
  BY DEF Assess
<1> DEFINE approval == (Action(chance) # "continue_monitoring")
           urgency == Urgency(chance, hours)
           confidence == Confidence(resolved)
           action == Action(chance)
<1>4. forecast' = [forecast EXCEPT !.confidence = confidence, !.urgency = urgency, !.action = action,
                     !.approval = approval]
  BY <1>3
<1>5. urgency # "monitor" => approval
  BY ScoresAreNatural, UrgentNeedsApproval
<1> HIDE DEF approval, urgency, confidence, action
<1>6. /\ forecast'.model = forecast.model /\ forecast'.fallback = forecast.fallback
      /\ forecast'.degraded = forecast.degraded /\ forecast'.urgency = urgency /\ forecast'.approval = approval
  BY <1>1, <1>4 DEF ForecastType
<1>7. SaysOf(outcome, forecast')
  <2>1. SaysOf(outcome, forecast)
    BY <1>1, HonestIffSaid
  <2> QED
    BY <1>6, <2>1 DEF SaysOf
<1>8. Route' = Route
  BY <1>1 DEF Route, Quality
<1>9. ({c \in Candidates : outcome[c] = Untried} = Candidates \ ToSet(Route))'
  BY <1>1, <1>8, HonestIffSaid
<1>10. ForecastIsHonest'
  BY <1>1, <1>5, <1>6, <1>7, <1>9 DEF ForecastIsHonest, SaysOf
<1> QED
  BY <1>1, <1>2, <1>10 DEF PipelineInv

\* Every step of the pipeline keeps the invariant.
LEMMA PipelineKept == PipelineInv /\ [PipelineNext]_pipelineVars => PipelineInv'
<1> SUFFICES ASSUME PipelineInv, [PipelineNext]_pipelineVars PROVE PipelineInv'
  OBVIOUS
<1>1. CASE Ingest \/ Admit
  BY <1>1, EarlyStep
<1>2. CASE Skip
  BY <1>2, SkipStep
<1>3. CASE Fit
  BY <1>3, FitStep
<1>4. CASE LoseLease
  BY <1>4, LoseLeaseStep
<1>5. CASE Refit
  BY <1>5, RefitStep
<1>6. CASE Assess
  BY <1>6, AssessStep
<1>7. CASE UNCHANGED pipelineVars
  <2>1. /\ stage' = stage /\ series' = series /\ report' = report /\ queue' = queue
        /\ outcome' = outcome /\ best' = best /\ forecast' = forecast
    BY <1>7 DEF pipelineVars
  <2>2. Route' = Route
    BY <2>1 DEF Route, Quality
  <2>3. BestOf(best, outcome)' /\ (TriedOf(ToSet(queue), outcome) => TriedOf(ToSet(queue), outcome)')
    BY <2>1, <2>2 DEF PipelineInv, BestOf, TriedOf
  <2>4. ForecastIsHonest'
    BY <2>1, <2>2 DEF PipelineInv, ForecastIsHonest
  <2>5. Distinct(queue) => Distinct(queue)'
    BY <2>1 DEF Distinct
  <2> QED
    BY <2>1, <2>2, <2>3, <2>4, <2>5 DEF PipelineInv
<1> QED
  BY <1>1, <1>2, <1>3, <1>4, <1>5, <1>6, <1>7 DEF PipelineNext

\* The invariant contains what the run checks.
LEMMA PipelineInvSays == PipelineInv => PipelineIsHonest
<1> SUFFICES ASSUME PipelineInv PROVE PipelineIsHonest
  OBVIOUS
<1>1. ASSUME stage = "ingest"
      PROVE  /\ series.n \in Nat /\ series.seen \in SUBSET (1 .. series.n)
             /\ report.rows \in {series.n - 1, series.n}
  BY <1>1, ScoresAreNatural DEF PipelineInv, SeriesUpTo
<1>2. FeaturesLookOneAhead
  <2> SUFFICES ASSUME stage = "ingest", NEW i \in 1 .. report.rows,
                      NEW x \in SourcesOf(Slice(SeriesValues, report.rows), report.rows, i) \ {Zero}
               PROVE  /\ x \in series.seen
                      /\ x <= i \/ (x = i + 1 /\ Forward(series.seen, series.n)[i] = Missing)
    BY DEF FeaturesLookOneAhead
  <2>1. PICK n \in Nat : n = report.rows /\ i \in 1 .. n
    BY <1>1
  <2>2. SourcesOf(Slice(SeriesValues, n), n, i) \subseteq {SeriesValues[j] : j \in 1 .. i} \cup {Zero}
    BY <2>1, SourcesAreTrailing
  <2>3. PICK j \in 1 .. i : x = SeriesValues[j]
    BY <2>1, <2>2
  <2>a. PICK g \in Nat : g = series.n /\ n <= g
    BY <1>1, <2>1
  <2>4. PICK seen \in SUBSET (1 .. g) : g = series.n /\ seen = series.seen /\ n <= g
    BY <1>1, <2>a
  <2>5. j \in 1 .. g
    BY <2>1, <2>3, <2>4
  <2>6. /\ x \in seen
        /\ x <= j \/ (x = j + 1 /\ Forward(seen, g)[j] = Missing)
    BY <2>3, <2>4, <2>5, CellLooksOneAhead DEF SeriesValues
  <2>7. x \in 1 .. g
    BY <2>6
  <2>8. i \in Int /\ j \in Int /\ j <= i
    BY <2>1, <2>3
  <2>9. CASE j = i
    BY <2>4, <2>6, <2>9
  <2>10. CASE j < i
    <3>1. x <= i
      BY <2>6, <2>7, <2>8, <2>10
    <3> QED
      BY <2>4, <2>6, <3>1
  <2> QED
    BY <2>8, <2>9, <2>10
<1>3. GapsAreCounted
  BY <1>1, EveryGapCounted DEF GapsAreCounted, SeriesValues
<1>4. ForecastIsHonest
  BY DEF PipelineInv
<1> QED
  BY <1>2, <1>3, <1>4 DEF PipelineIsHonest

\* For any grid, scores, budget and order of routing: every gap is counted, no feature looks
\* further ahead than the one cell a gap is backfilled from, and a forecast names the best
\* candidate compared, tells its fallbacks and asks for approval.
THEOREM PipelineHolds == PipelineSpec => []PipelineIsHonest
<1>1. PipelineInit => PipelineInv
  BY PipelineInitial
<1>2. PipelineInv /\ [PipelineNext]_pipelineVars => PipelineInv'
  BY PipelineKept
<1>3. PipelineInv => PipelineIsHonest
  BY PipelineInvSays
<1> QED
  BY <1>1, <1>2, <1>3, PTL DEF PipelineSpec

-----------------------------------------------------------------------------
(* Refreshing the universe of targets.                                      *)

-----------------------------------------------------------------------------
\* The phases of a request.
Phases == {"off", "read", "pick", "compute", "write", "audit", "teardown", "done", "failed"}
\* The statuses of a row.
Statuses == {"active", "insufficient", "none"}
\* The types of a row, of an audit entry and of a request.
RowType == [target : Targets, by : Clients \cup {"earlier"}, at : Nat, risk : 0 .. 3, status : Statuses]
EntryType == [by : Clients, pass : {"backfill", "predict", "refresh"}, count : Nat]
RequestType ==
  [phase : Phases, kind : Kinds, pass : {"backfill", "predict", "refresh"}, todo : SUBSET Targets,
   target : Targets \cup {NoTarget}, draft : [risk : 0 .. 3, status : Statuses],
   made : SUBSET Targets, session : {"ok", "broken"}, spent : BOOLEAN, entry : SUBSET EntryType,
   had : SUBSET Targets, shown : SUBSET RowType]

\* The type invariant: rows are numbered in the order of commits.
RefreshTypes ==
  /\ request \in [Clients -> RequestType] /\ rows \in SUBSET RowType /\ trail \in SUBSET EntryType
  /\ IsFiniteSet(rows) /\ \A f \in rows : f.at <= Cardinality(rows)

\* The rows client c committed.
Of(c, R) == {f \in R : f.by = c}
\* The targets that have rows.
TargetsOf(R) == {f.target : f \in R}

\* What a request made, shows and found is in the table.
Kept(c, r, R) ==
  r.made \subseteq TargetsOf(Of(c, R)) /\ r.shown \subseteq R /\ r.had \subseteq TargetsOf(R)

\* A request counts its own rows, all but one that was committed as it was cancelled.
Counted(c, r, R) ==
  /\ Cardinality(Of(c, R)) \in {Cardinality(r.made), Cardinality(r.made) + 1}
  /\ ~r.spent => Cardinality(Of(c, R)) = Cardinality(r.made)

\* A pass takes its targets one after the other; a refresh covers all of them.
Ordered(r) ==
  /\ r.phase \in {"compute", "write"} => ~r.spent /\ r.target \in r.todo
  /\ r.made \cap r.todo = {}
  /\ r.pass = "refresh" => Targets \subseteq r.made \cup r.todo /\ r.kind = "refresh"
  /\ r.phase = "audit" => r.spent \/ r.todo = {}

\* A request whose entry is written, or that needs none any more.
Audited(r) ==
  \/ r.phase \in {"teardown", "done", "failed"}
  \/ r.kind = "refresh" /\ r.phase # "off" /\ (r.phase = "read" \/ r.pass = "backfill")

\* After the audit entry nothing more is computed in the same pass.
Closed(r) ==
  Audited(r) /\ r.phase \in {"read", "pick", "compute", "write", "audit"} =>
    /\ r.phase \notin {"compute", "write"}
    /\ r.spent \/ IF r.phase = "read" THEN Targets \subseteq r.made ELSE r.todo = {}

\* The entries of a request tell how many rows it made.
EntriesOf(c, r, T) ==
  /\ ~Audited(r) => r.entry = {} /\ \A a \in T : a.by # c
  /\ \A a \in r.entry : a.by = c /\ a.count = Cardinality(r.made)
  /\ \A a \in T : a.by = c => a.count = Cardinality(r.made)

\* An idle request made nothing; the matrix only adds targets it found missing.
Unspoilt(c, r, R) ==
  /\ r.phase = "off" => Of(c, R) = {} /\ r.made = {}
  /\ r.kind = "matrix" => (\A f \in Of(c, R) : f.target \notin r.had) /\ r.todo \cap r.had = {}

\* What holds of one client with the record r, a table R and a trail T.
ClientInv(c, r, R, T) ==
  /\ Kept(c, r, R) /\ Counted(c, r, R) /\ Ordered(r) /\ Closed(r)
  /\ EntriesOf(c, r, T) /\ Unspoilt(c, r, R)

\* The inductive invariant of refreshes and readers of the matrix.
RefreshInv ==
  RefreshTypes /\ \A c \in Clients : ClientInv(c, request[c], rows, trail)
-----------------------------------------------------------------------------
\* The invariant, for one client.
LEMMA ClientOf ==
  ASSUME RefreshInv, NEW c \in Clients
  PROVE  request[c] \in RequestType /\ ClientInv(c, request[c], rows, trail)
BY DEF RefreshInv, RefreshTypes

\* One client moved and nothing was committed.
MovedAlone(c) ==
  /\ request' \in [Clients -> RequestType] /\ rows' = rows /\ trail' = trail
  /\ \A d \in Clients : d # c => request'[d] = request[d]

\* A step of one client that commits nothing keeps the invariant.
LEMMA AloneStep ==
  ASSUME RefreshInv, NEW c \in Clients, MovedAlone(c), ClientInv(c, request'[c], rows, trail)
  PROVE  RefreshInv'
<1>1. RefreshTypes'
  BY DEF RefreshInv, RefreshTypes, MovedAlone, RowType, EntryType, RequestType
<1>2. \A d \in Clients : ClientInv(d, request'[d], rows, trail)
  BY ClientOf DEF MovedAlone
<1>3. \A d \in Clients : ClientInv(d, request'[d], rows', trail')
  BY <1>2 DEF MovedAlone
<1> QED
  BY <1>1, <1>3 DEF RefreshInv

\* The constants of the universe.
LEMMA TheTypes ==
  /\ Targets \subseteq Nat /\ IsFiniteSet(Targets) /\ Targets # {} /\ NoTarget \notin Targets
  /\ \A t : NoDataRisk(t) \in 0 .. 3
BY RefreshAssumption DEF NoDataRisk, Risk

\* The targets that are present are the ones with rows.
LEMMA PresentTargets ==
  ASSUME RefreshTypes
  PROVE  Present = TargetsOf(rows) /\ Present \subseteq Targets
BY DEF Present, TargetsOf, RefreshTypes, RowType

\* A request comes in.
LEMMA AskUniverseStep ==
  ASSUME RefreshInv, NEW c \in Clients, Ask(c)
  PROVE  RefreshInv'
<1>1. PICK r \in RequestType : r = request[c] /\ ClientInv(c, r, rows, trail) /\ r.phase = "off"
  BY ClientOf DEF Ask
<1>2. PICK k \in Kinds :
        request' = [request EXCEPT ![c].kind = k, ![c].had = Present,
                 ![c].phase = IF k = "matrix" THEN "read" ELSE "pick",
                 ![c].pass = IF k = "matrix" THEN "backfill" ELSE k,
                 ![c].todo = CASE k = "refresh" -> Targets
                               [] k = "predict" -> {CHOOSE t \in Targets : TRUE}
                               [] OTHER -> {}]
  BY DEF Ask
<1> DEFINE phase == IF k = "matrix" THEN "read" ELSE "pick"
           pass == IF k = "matrix" THEN "backfill" ELSE k
           todo == CASE k = "refresh" -> Targets
                     [] k = "predict" -> {CHOOSE t \in Targets : TRUE}
                     [] OTHER -> {}
<1>3. /\ phase \in Phases /\ pass \in {"backfill", "predict", "refresh"} /\ todo \in SUBSET Targets
      /\ k = "matrix" => todo = {} /\ pass = "backfill" /\ phase = "read"
      /\ k # "matrix" => phase = "pick" /\ pass = k
      /\ k = "refresh" => todo = Targets
  BY TheTypes DEF Phases, Kinds
<1>4. /\ request' = [request EXCEPT ![c].kind = k, ![c].had = Present, ![c].phase = phase,
                       ![c].pass = pass, ![c].todo = todo]
      /\ rows' = rows /\ trail' = trail
  BY <1>2 DEF Ask
<1> HIDE DEF phase, pass, todo
<1>5. Present \in SUBSET Targets /\ Present = TargetsOf(rows) /\ request \in [Clients -> RequestType]
  BY PresentTargets DEF RefreshInv, RefreshTypes
<1>6. MovedAlone(c)
  <2>1. [r EXCEPT !.kind = k, !.had = Present, !.phase = phase, !.pass = pass, !.todo = todo] \in RequestType
    BY <1>3, <1>5 DEF RequestType
  <2> QED
    BY <1>1, <1>4, <1>5, <2>1 DEF MovedAlone
<1>7. PICK q : q = request'[c]
  OBVIOUS
<1>8. /\ q.phase = phase /\ q.kind = k /\ q.pass = pass /\ q.todo = todo /\ q.had = Present
      /\ q.made = r.made /\ q.spent = r.spent /\ q.entry = r.entry /\ q.shown = r.shown
  BY <1>1, <1>4, <1>5, <1>7 DEF RequestType
<1>9. Of(c, rows) = {} /\ r.made = {}
  BY <1>1 DEF ClientInv, Unspoilt
<1>10. ClientInv(c, q, rows, trail)
  <2>1. Kept(c, q, rows)
    BY <1>1, <1>5, <1>8 DEF ClientInv, Kept
  <2>2. Counted(c, q, rows)
    BY <1>1, <1>8 DEF ClientInv, Counted
  <2>3. Ordered(q)
    BY <1>3, <1>8, <1>9 DEF Ordered
  <2>4. Closed(q) /\ ~Audited(q)
    BY <1>3, <1>8 DEF Closed, Audited, Kinds
  <2>5. EntriesOf(c, q, trail)
    BY <1>1, <1>8, <2>4 DEF ClientInv, EntriesOf, Audited
  <2>6. Unspoilt(c, q, rows)
    BY <1>3, <1>8, <1>9 DEF Unspoilt
  <2> QED
    BY <2>1, <2>2, <2>3, <2>4, <2>5, <2>6 DEF ClientInv
<1> QED
  BY <1>6, <1>7, <1>10, AloneStep

\* The latest row of a target is a row of that target.
LEMMA LatestIsThere ==
  ASSUME RefreshTypes, NEW t \in Present
  PROVE  LatestRow(t) \in rows /\ LatestRow(t).target = t
<1> DEFINE n == Cardinality(rows)
           of == {f \in rows : f.target = t}
           gaps == {n - f.at : f \in of}
<1>1. n \in Nat /\ \A f \in rows : f.at \in Nat /\ f.at <= n
  BY FS_CardinalityType DEF RefreshTypes, RowType
<1>2. PICK f \in rows : f.target = t
  BY DEF Present
<1>3. gaps \subseteq Nat /\ gaps # {}
  <2>1. \A g \in of : n - g.at \in Nat
    BY <1>1
  <2>2. f \in of
    BY <1>2
  <2> HIDE DEF n
  <2> QED
    BY <2>1, <2>2
<1>4. PICK least \in gaps : \A m \in gaps : least <= m
  BY <1>3, LeastOf
<1>5. PICK g \in of : least = n - g.at
  BY <1>4
<1>6. ASSUME NEW h \in of PROVE h.at <= g.at
  <2>1. n - g.at <= n - h.at
    BY <1>4, <1>5, <1>6
  <2>2. PICK x \in Nat : x = g.at
    BY <1>1
  <2>3. PICK y \in Nat : y = h.at
    BY <1>1
  <2> HIDE DEF n
  <2> QED
    BY <1>1, <2>1, <2>2, <2>3
<1>7. g \in rows /\ g.target = t /\ \A h \in rows : h.target = t => h.at <= g.at
  BY <1>5, <1>6
<1> QED
  BY <1>7 DEF LatestRow

\* The matrix is read: what is missing is to be made.
LEMMA ReadMatrixStep ==
  ASSUME RefreshInv, NEW c \in Clients, ReadMatrix(c)
  PROVE  RefreshInv'
<1>1. PICK r \in RequestType : r = request[c] /\ ClientInv(c, r, rows, trail) /\ r.phase = "read"
  BY ClientOf DEF ReadMatrix
<1> DEFINE newest == {LatestRow(t) : t \in Present}
<1>2. request \in [Clients -> RequestType] /\ Present \in SUBSET Targets /\ Present = TargetsOf(rows)
      /\ rows \in SUBSET RowType
  BY PresentTargets DEF RefreshInv, RefreshTypes
<1>3. newest \in SUBSET rows
  BY LatestIsThere DEF RefreshInv
<1>4. /\ request' = [request EXCEPT ![c].phase = "pick", ![c].pass = "backfill",
                       ![c].todo = Targets \ Present, ![c].shown = newest]
      /\ rows' = rows /\ trail' = trail
  BY DEF ReadMatrix
<1> HIDE DEF newest
<1>5. MovedAlone(c)
  <2>1. [r EXCEPT !.phase = "pick", !.pass = "backfill", !.todo = Targets \ Present, !.shown = newest]
          \in RequestType
    BY <1>2, <1>3 DEF RequestType, Phases
  <2> QED
    BY <1>1, <1>2, <1>4, <2>1 DEF MovedAlone
<1>6. PICK q : q = request'[c]
  OBVIOUS
<1>7. /\ q.phase = "pick" /\ q.pass = "backfill" /\ q.todo = Targets \ Present /\ q.shown = newest
      /\ q.kind = r.kind /\ q.made = r.made /\ q.spent = r.spent /\ q.entry = r.entry /\ q.had = r.had
  BY <1>1, <1>2, <1>4, <1>6 DEF RequestType
<1>8. r.made \subseteq Present /\ r.had \subseteq Present
  BY <1>1, <1>2 DEF ClientInv, Kept, Of, TargetsOf
<1>9. ClientInv(c, q, rows, trail)
  <2>1. Kept(c, q, rows)
    BY <1>1, <1>3, <1>7 DEF ClientInv, Kept
  <2>2. Counted(c, q, rows)
    BY <1>1, <1>7 DEF ClientInv, Counted
  <2>3. Ordered(q)
    BY <1>7, <1>8 DEF Ordered
  <2>4. Audited(q) <=> Audited(r)
    BY <1>1, <1>7 DEF Audited
  <2>5. Closed(q)
    <3>1. Audited(r) => r.spent \/ Targets \subseteq r.made
      BY <1>1 DEF ClientInv, Closed
    <3> QED
      BY <1>7, <1>8, <2>4, <3>1 DEF Closed
  <2>6. EntriesOf(c, q, trail)
    BY <1>1, <1>7, <2>4 DEF ClientInv, EntriesOf
  <2>7. Unspoilt(c, q, rows)
    BY <1>1, <1>7, <1>8 DEF ClientInv, Unspoilt
  <2> QED
    BY <2>1, <2>2, <2>3, <2>5, <2>6, <2>7 DEF ClientInv
<1> QED
  BY <1>5, <1>6, <1>9, AloneStep

\* A pass is over, or its time is spent.
LEMMA PassEndsStep ==
  ASSUME RefreshInv, NEW c \in Clients, request[c].phase = "pick", UNCHANGED <<rows, trail>>,
         request' = [request EXCEPT ![c].phase = "audit", ![c].spent = @ \/ request[c].todo # {}]
  PROVE  RefreshInv'
<1>1. PICK r \in RequestType : r = request[c] /\ ClientInv(c, r, rows, trail) /\ r.phase = "pick"
  BY ClientOf
<1> DEFINE spent == r.spent \/ r.todo # {}
<1>2. request \in [Clients -> RequestType] /\ r.spent \in BOOLEAN
  BY DEF RefreshInv, RefreshTypes, RequestType
<1>3. spent \in BOOLEAN /\ (spent <=> r.spent \/ r.todo # {})
  BY <1>2
<1>4. request' = [request EXCEPT ![c].phase = "audit", ![c].spent = spent]
  BY <1>1
<1> HIDE DEF spent
<1>5. MovedAlone(c)
  <2>1. [r EXCEPT !.phase = "audit", !.spent = spent] \in RequestType
    BY <1>3 DEF RequestType, Phases
  <2> QED
    BY <1>1, <1>2, <1>4, <2>1 DEF MovedAlone
<1>6. PICK q : q = request'[c]
  OBVIOUS
<1>7. /\ q.phase = "audit" /\ q.spent = spent /\ q.pass = r.pass /\ q.todo = r.todo /\ q.shown = r.shown
      /\ q.kind = r.kind /\ q.made = r.made /\ q.entry = r.entry /\ q.had = r.had
  BY <1>1, <1>2, <1>4, <1>6 DEF RequestType
<1>8. ClientInv(c, q, rows, trail)
  <2>1. Kept(c, q, rows)
    BY <1>1, <1>7 DEF ClientInv, Kept
  <2>2. Counted(c, q, rows)
    BY <1>1, <1>3, <1>7 DEF ClientInv, Counted
  <2>3. Ordered(q)
    BY <1>1, <1>3, <1>7 DEF ClientInv, Ordered
  <2>4. Audited(q) <=> Audited(r)
    BY <1>1, <1>7 DEF Audited
  <2>5. Closed(q)
    BY <1>1, <1>3, <1>7, <2>4 DEF ClientInv, Closed
  <2>6. EntriesOf(c, q, trail)
    BY <1>1, <1>7, <2>4 DEF ClientInv, EntriesOf
  <2>7. Unspoilt(c, q, rows)
    BY <1>1, <1>7 DEF ClientInv, Unspoilt
  <2> QED
    BY <2>1, <2>2, <2>3, <2>5, <2>6, <2>7 DEF ClientInv
<1> QED
  BY <1>5, <1>6, <1>8, AloneStep

\* A pass goes on to its next target.
LEMMA NextTargetStep ==
  ASSUME RefreshInv, NEW c \in Clients, request[c].phase = "pick", UNCHANGED <<rows, trail>>,
         request[c].todo # {}, ~request[c].spent,
         request' = [request EXCEPT ![c].phase = "compute", ![c].target = Min(request[c].todo)]
  PROVE  RefreshInv'
<1>1. PICK r \in RequestType : r = request[c] /\ ClientInv(c, r, rows, trail) /\ r.phase = "pick"
                               /\ r.todo # {} /\ ~r.spent
  BY ClientOf
<1> DEFINE next == Min(r.todo)
<1>2. request \in [Clients -> RequestType] /\ r.todo \in SUBSET Targets
  BY DEF RefreshInv, RefreshTypes, RequestType
<1>3. next \in r.todo /\ next \in Targets
  <2>1. r.todo \in SUBSET Nat
    BY <1>2, TheTypes
  <2>2. \E n \in r.todo : \A m \in r.todo : n <= m
    BY <1>1, <2>1, LeastOf
  <2> QED
    BY <1>2, <2>2 DEF Min
<1>4. request' = [request EXCEPT ![c].phase = "compute", ![c].target = next]
  BY <1>1
<1> HIDE DEF next
<1>5. MovedAlone(c)
  <2>1. [r EXCEPT !.phase = "compute", !.target = next] \in RequestType
    BY <1>3 DEF RequestType, Phases
  <2> QED
    BY <1>1, <1>2, <1>4, <2>1 DEF MovedAlone
<1>6. PICK q : q = request'[c]
  OBVIOUS
<1>7. /\ q.phase = "compute" /\ q.target = next /\ q.pass = r.pass /\ q.todo = r.todo /\ q.shown = r.shown
      /\ q.kind = r.kind /\ q.made = r.made /\ q.entry = r.entry /\ q.had = r.had /\ q.spent = r.spent
  BY <1>1, <1>2, <1>4, <1>6 DEF RequestType
<1>8. ClientInv(c, q, rows, trail)
  <2>1. Kept(c, q, rows)
    BY <1>1, <1>7 DEF ClientInv, Kept
  <2>2. Counted(c, q, rows)
    BY <1>1, <1>7 DEF ClientInv, Counted
  <2>3. Ordered(q)
    BY <1>1, <1>3, <1>7 DEF ClientInv, Ordered
  <2>4. ~Audited(q) /\ ~Audited(r)
    <3>1. ~Audited(r)
      BY <1>1 DEF ClientInv, Closed
    <3> QED
      BY <1>1, <1>7, <3>1 DEF Audited
  <2>5. Closed(q)
    BY <2>4 DEF Closed
  <2>6. EntriesOf(c, q, trail)
    BY <1>1, <1>7, <2>4 DEF ClientInv, EntriesOf
  <2>7. Unspoilt(c, q, rows)
    BY <1>1, <1>7 DEF ClientInv, Unspoilt
  <2> QED
    BY <2>1, <2>2, <2>3, <2>5, <2>6, <2>7 DEF ClientInv
<1> QED
  BY <1>5, <1>6, <1>8, AloneStep

\* A pass ends or goes on.
LEMMA PickTargetStep ==
  ASSUME RefreshInv, NEW c \in Clients, PickTarget(c)
  PROVE  RefreshInv'
<1>1. CASE request' = [request EXCEPT ![c].phase = "audit", ![c].spent = @ \/ request[c].todo # {}]
  BY <1>1, PassEndsStep DEF PickTarget
<1>2. CASE /\ request[c].todo # {} /\ ~request[c].spent
           /\ request' = [request EXCEPT ![c].phase = "compute", ![c].target = Min(request[c].todo)]
  BY <1>2, NextTargetStep DEF PickTarget
<1> QED
  BY <1>1, <1>2 DEF PickTarget

\* A target is computed.
LEMMA ComputeTargetStep ==
  ASSUME RefreshInv, NEW c \in Clients, ComputeTarget(c)
  PROVE  RefreshInv'
<1>1. PICK r \in RequestType : r = request[c] /\ ClientInv(c, r, rows, trail) /\ r.phase = "compute"
  BY ClientOf DEF ComputeTarget
<1>2. PICK d \in [risk : 0 .. 3, status : Statuses] :
        request' = [request EXCEPT ![c].phase = "write", ![c].draft = d]
  <2> DEFINE numbers == {[risk |-> x, status |-> "active"] : x \in Readings}
             none == [risk |-> NoDataRisk(r.target), status |-> "insufficient"]
  <2>1. none \in [risk : 0 .. 3, status : Statuses]
    BY TheTypes DEF Statuses
  <2>2. numbers \subseteq [risk : 0 .. 3, status : Statuses]
    BY RefreshAssumption DEF Statuses
  <2>3. \E d \in {none} \cup numbers : request' = [request EXCEPT ![c].phase = "write", ![c].draft = d]
    BY <1>1 DEF ComputeTarget
  <2> QED
    BY <2>1, <2>2, <2>3
<1>3. request \in [Clients -> RequestType]
  BY DEF RefreshInv, RefreshTypes
<1>4. MovedAlone(c)
  <2>1. [r EXCEPT !.phase = "write", !.draft = d] \in RequestType
    BY DEF RequestType, Phases
  <2> QED
    BY <1>1, <1>2, <1>3, <2>1 DEF MovedAlone, ComputeTarget
<1>5. PICK q : q = request'[c]
  OBVIOUS
<1>6. /\ q.phase = "write" /\ q.target = r.target /\ q.pass = r.pass /\ q.todo = r.todo /\ q.shown = r.shown
      /\ q.kind = r.kind /\ q.made = r.made /\ q.entry = r.entry /\ q.had = r.had /\ q.spent = r.spent
  BY <1>1, <1>2, <1>3, <1>5 DEF RequestType
<1>7. ClientInv(c, q, rows, trail)
  <2>1. Audited(q) <=> Audited(r)
    BY <1>1, <1>6 DEF Audited
  <2>2. Kept(c, q, rows) /\ Counted(c, q, rows) /\ Ordered(q)
    BY <1>1, <1>6 DEF ClientInv, Kept, Counted, Ordered
  <2>3. Closed(q)
    BY <1>1, <1>6, <2>1 DEF ClientInv, Closed
  <2>4. EntriesOf(c, q, trail) /\ Unspoilt(c, q, rows)
    BY <1>1, <1>6, <2>1 DEF ClientInv, EntriesOf, Unspoilt
  <2> QED
    BY <2>2, <2>3, <2>4 DEF ClientInv
<1> QED
  BY <1>4, <1>5, <1>7, AloneStep

\* A request that fails keeps what it has committed.
LEMMA FailedClient ==
  ASSUME NEW c \in Clients, NEW r \in RequestType, ClientInv(c, r, rows, trail)
  PROVE  ClientInv(c, [r EXCEPT !.phase = "failed"], rows, trail)
<1>1. PICK q : q = [r EXCEPT !.phase = "failed"]
  OBVIOUS
<1>2. /\ q.phase = "failed" /\ q.entry = r.entry /\ q.pass = r.pass /\ q.todo = r.todo /\ q.shown = r.shown
      /\ q.kind = r.kind /\ q.made = r.made /\ q.had = r.had /\ q.spent = r.spent
  BY <1>1 DEF RequestType
<1>3. Kept(c, q, rows) /\ Counted(c, q, rows) /\ Ordered(q) /\ Unspoilt(c, q, rows)
  BY <1>2 DEF ClientInv, Kept, Counted, Ordered, Unspoilt
<1>4. Audited(q) /\ Closed(q)
  BY <1>2 DEF Audited, Closed
<1>5. EntriesOf(c, q, trail)
  BY <1>2, <1>4 DEF ClientInv, EntriesOf
<1> QED
  BY <1>1, <1>3, <1>4, <1>5 DEF ClientInv

\* A request fails.
LEMMA RequestFailsStep ==
  ASSUME RefreshInv, NEW c \in Clients, RequestFails(c)
  PROVE  RefreshInv'
<1>1. PICK r \in RequestType : r = request[c] /\ ClientInv(c, r, rows, trail)
                               /\ r.phase \in {"read", "write", "audit"}
  BY ClientOf DEF RequestFails
<1>2. request \in [Clients -> RequestType] /\ request' = [request EXCEPT ![c].phase = "failed"]
  BY DEF RefreshInv, RefreshTypes, RequestFails, Step
<1>3. MovedAlone(c)
  <2>1. [r EXCEPT !.phase = "failed"] \in RequestType
    BY DEF RequestType, Phases
  <2> QED
    BY <1>1, <1>2, <2>1 DEF MovedAlone, RequestFails
<1>4. PICK q : q = request'[c]
  OBVIOUS
<1>5. q = [r EXCEPT !.phase = "failed"]
  BY <1>1, <1>2, <1>4
<1>6. ClientInv(c, q, rows, trail)
  BY <1>1, <1>5, FailedClient
<1> QED
  BY <1>3, <1>4, <1>6, AloneStep

\* The entry of WriteAudit, for a client with the record r.
EntryIn(c, r) == [by |-> c, pass |-> r.pass, count |-> Cardinality(r.made)]
\* Whether WriteAudit writes one.
RecordedIn(r) == r.pass # "backfill" \/ (r.kind = "matrix" /\ r.made # {})

\* The audit entry is written.
LEMMA WriteAuditStep ==
  ASSUME RefreshInv, NEW c \in Clients, WriteAudit(c)
  PROVE  RefreshInv'
<1>1. PICK r \in RequestType : r = request[c] /\ ClientInv(c, r, rows, trail) /\ r.phase = "audit"
  BY ClientOf DEF WriteAudit
<1> DEFINE entry == IF RecordedIn(r) THEN r.entry \cup {EntryIn(c, r)} ELSE r.entry
           phase == IF r.pass = "refresh" THEN "read" ELSE "teardown"
<1>2. request \in [Clients -> RequestType]
  BY DEF RefreshInv, RefreshTypes
<1>3. /\ request' = [request EXCEPT ![c].entry = entry, ![c].phase = phase]
      /\ rows' = rows /\ trail' = trail
  BY <1>1 DEF WriteAudit, Recorded, RecordedIn, Entry, EntryIn
<1>4. entry \in SUBSET EntryType /\ phase \in Phases
  <2>1. IsFiniteSet(r.made)
    BY TheTypes, FS_Subset DEF RequestType
  <2>2. Cardinality(r.made) \in Nat
    BY <2>1, FS_CardinalityType
  <2>3. EntryIn(c, r) \in EntryType
    BY <2>2 DEF EntryIn, EntryType, RequestType
  <2> QED
    BY <2>3 DEF RequestType, Phases
<1> HIDE DEF entry
<1>5. MovedAlone(c)
  <2>1. [r EXCEPT !.entry = entry, !.phase = phase] \in RequestType
    BY <1>4 DEF RequestType
  <2> QED
    BY <1>1, <1>2, <1>3, <2>1 DEF MovedAlone
<1>6. PICK q : q = request'[c]
  OBVIOUS
<1>7. /\ q.phase = phase /\ q.entry = entry /\ q.pass = r.pass /\ q.todo = r.todo /\ q.shown = r.shown
      /\ q.kind = r.kind /\ q.made = r.made /\ q.had = r.had /\ q.spent = r.spent
  BY <1>1, <1>2, <1>3, <1>6 DEF RequestType
<1>8. ClientInv(c, q, rows, trail)
  <2>1. Kept(c, q, rows) /\ Counted(c, q, rows) /\ Ordered(q)
    BY <1>1, <1>7 DEF ClientInv, Kept, Counted, Ordered
  <2>2. Audited(q)
    BY <1>1, <1>7 DEF ClientInv, Ordered, Audited
  <2>3. Closed(q)
    BY <1>1, <1>7 DEF ClientInv, Ordered, Closed
  <2>4. EntriesOf(c, q, trail)
    <3>1. EntryIn(c, r).by = c /\ EntryIn(c, r).count = Cardinality(r.made)
      BY DEF EntryIn
    <3>2. \A a \in entry : a \in r.entry \/ a = EntryIn(c, r)
      BY DEF entry
    <3>3. (\A a \in r.entry : a.by = c /\ a.count = Cardinality(r.made))
          /\ \A a \in trail : a.by = c => a.count = Cardinality(r.made)
      BY <1>1 DEF ClientInv, EntriesOf
    <3> QED
      BY <1>7, <2>2, <3>1, <3>2, <3>3 DEF EntriesOf
  <2>5. Unspoilt(c, q, rows)
    BY <1>1, <1>7 DEF ClientInv, Unspoilt
  <2> QED
    BY <2>1, <2>3, <2>4, <2>5 DEF ClientInv
<1> QED
  BY <1>5, <1>6, <1>8, AloneStep

\* The session is closed: what was staged in it is committed, or lost with a broken one.
LEMMA TeardownStep ==
  ASSUME RefreshInv, NEW c \in Clients, Teardown(c)
  PROVE  RefreshInv'
<1>1. PICK r \in RequestType : r = request[c] /\ ClientInv(c, r, rows, trail) /\ r.phase = "teardown"
  BY ClientOf DEF Teardown
<1>2. request \in [Clients -> RequestType] /\ request' = [request EXCEPT ![c].phase = "done"] /\ rows' = rows
  BY DEF RefreshInv, RefreshTypes, Teardown, Step
<1>3. trail' \in {trail, trail \cup r.entry}
  BY <1>1 DEF Teardown
<1>4. /\ request' \in [Clients -> RequestType]
      /\ \A d \in Clients : d # c => request'[d] = request[d]
  <2>1. [r EXCEPT !.phase = "done"] \in RequestType
    BY DEF RequestType, Phases
  <2> QED
    BY <1>1, <1>2, <2>1
<1>5. RefreshTypes'
  BY <1>2, <1>3, <1>4 DEF RefreshInv, RefreshTypes, RequestType, RowType, EntryType
<1>6. PICK q : q = request'[c]
  OBVIOUS
<1>7. /\ q.phase = "done" /\ q.entry = r.entry /\ q.pass = r.pass /\ q.todo = r.todo /\ q.shown = r.shown
      /\ q.kind = r.kind /\ q.made = r.made /\ q.had = r.had /\ q.spent = r.spent
  BY <1>1, <1>2, <1>6 DEF RequestType
<1>8. /\ \A a \in r.entry : a.by = c /\ a.count = Cardinality(r.made)
      /\ \A a \in trail : a.by = c => a.count = Cardinality(r.made)
  BY <1>1 DEF ClientInv, EntriesOf
<1>9. ClientInv(c, q, rows, trail')
  <2>1. Kept(c, q, rows) /\ Counted(c, q, rows) /\ Ordered(q) /\ Unspoilt(c, q, rows)
    BY <1>1, <1>7 DEF ClientInv, Kept, Counted, Ordered, Unspoilt
  <2>2. Audited(q) /\ Closed(q)
    BY <1>7 DEF Audited, Closed
  <2>3. EntriesOf(c, q, trail')
    BY <1>3, <1>7, <1>8, <2>2 DEF EntriesOf
  <2> QED
    BY <2>1, <2>2, <2>3 DEF ClientInv
<1>10. ASSUME NEW d \in Clients, d # c PROVE ClientInv(d, request'[d], rows', trail')
  <2>1. PICK s : s = request[d] /\ s = request'[d] /\ ClientInv(d, s, rows, trail)
    BY <1>4, <1>10, ClientOf
  <2>2. EntriesOf(d, s, trail')
    BY <1>3, <1>8, <1>10, <2>1 DEF ClientInv, EntriesOf
  <2> QED
    BY <1>2, <2>1, <2>2 DEF ClientInv
<1> QED
  BY <1>2, <1>5, <1>6, <1>9, <1>10 DEF RefreshInv

\* The process restarts.
LEMMA RefreshCrashStep ==
  ASSUME RefreshInv, RefreshCrash
  PROVE  RefreshInv'
<1>1. ASSUME NEW c \in Clients
      PROVE  request'[c] \in RequestType /\ ClientInv(c, request'[c], rows, trail)
  <2>1. PICK r \in RequestType : r = request[c] /\ ClientInv(c, r, rows, trail)
    BY ClientOf
  <2>2. request'[c] \in {r, [r EXCEPT !.phase = "failed"]}
    BY <2>1 DEF RefreshCrash
  <2>3. [r EXCEPT !.phase = "failed"] \in RequestType
    BY DEF RequestType, Phases
  <2>4. ClientInv(c, [r EXCEPT !.phase = "failed"], rows, trail)
    BY <2>1, FailedClient
  <2> QED
    BY <2>1, <2>2, <2>3, <2>4
<1>2. request' \in [Clients -> RequestType] /\ rows' = rows /\ trail' = trail
  <2>1. request' = [c \in Clients |-> request'[c]]
    BY DEF RefreshCrash
  <2> QED
    BY <1>1, <2>1 DEF RefreshCrash
<1>3. RefreshTypes'
  BY <1>2 DEF RefreshInv, RefreshTypes, RequestType, RowType, EntryType
<1> QED
  BY <1>1, <1>2, <1>3 DEF RefreshInv

-----------------------------------------------------------------------------
\* A row was committed for c: R is what the table held.
RowAdded(c, f, R) ==
  /\ IsFiniteSet(R \cup {f}) /\ Cardinality(R \cup {f}) = Cardinality(R) + 1
  /\ f.at <= Cardinality(R \cup {f}) /\ f \in RowType /\ f.by = c
  /\ Cardinality(Of(c, R \cup {f})) = Cardinality(Of(c, R)) + 1
  /\ Of(c, R \cup {f}) = Of(c, R) \cup {f}
  /\ \A d \in Clients : d # c => Of(d, R \cup {f}) = Of(d, R)

\* The draft of a request is a new row of its own.
LEMMA DraftAdded ==
  ASSUME RefreshInv, NEW c \in Clients, request[c].phase = "write"
  PROVE  RowAdded(c, Draft(c), rows) /\ Draft(c).target = request[c].target
<1>1. PICK r \in RequestType : r = request[c] /\ ClientInv(c, r, rows, trail) /\ r.phase = "write"
  BY ClientOf
<1>2. IsFiniteSet(rows) /\ rows \in SUBSET RowType /\ \A f \in rows : f.at <= Cardinality(rows)
  BY DEF RefreshInv, RefreshTypes
<1>3. PICK n \in Nat : n = Cardinality(rows)
  BY <1>2, FS_CardinalityType
<1>4. PICK d : d = Draft(c)
  OBVIOUS
<1>5. d = [target |-> r.target, by |-> c, at |-> n + 1, risk |-> r.draft.risk, status |-> r.draft.status]
  BY <1>1, <1>3, <1>4 DEF Draft, Now
<1>6. r.target \in Targets
  BY <1>1 DEF ClientInv, Ordered, RequestType
<1>7. d \in RowType /\ d.by = c /\ d.at = n + 1 /\ d.target = r.target
  BY <1>5, <1>6 DEF RowType, RequestType
<1>8. d \notin rows
  BY <1>2, <1>3, <1>7
<1>9. IsFiniteSet(rows \cup {d}) /\ Cardinality(rows \cup {d}) = n + 1
  BY <1>2, <1>3, <1>8, FS_AddElement
<1>10. Of(c, rows \cup {d}) = Of(c, rows) \cup {d} /\ d \notin Of(c, rows)
  BY <1>7, <1>8 DEF Of
<1>11. IsFiniteSet(Of(c, rows))
  BY <1>2, FS_Subset DEF Of
<1>12. Cardinality(Of(c, rows) \cup {d}) = Cardinality(Of(c, rows)) + 1
  BY <1>10, <1>11, FS_AddElement
<1>13. \A e \in Clients : e # c => Of(e, rows \cup {d}) = Of(e, rows)
  BY <1>7 DEF Of
<1>14. d.at <= Cardinality(rows \cup {d})
  BY <1>7, <1>9
<1> QED
  BY <1>1, <1>3, <1>4, <1>7, <1>9, <1>10, <1>12, <1>13, <1>14 DEF RowAdded

\* One client moved, and its draft was committed.
MovedCommitting(c, f) ==
  /\ request' \in [Clients -> RequestType] /\ rows' = rows \cup {f} /\ trail' = trail
  /\ \A d \in Clients : d # c => request'[d] = request[d]

\* A step of one client that commits its draft keeps the invariant.
LEMMA CommitStep ==
  ASSUME RefreshInv, NEW c \in Clients, NEW f, RowAdded(c, f, rows), MovedCommitting(c, f),
         ClientInv(c, request'[c], rows \cup {f}, trail)
  PROVE  RefreshInv'
<1>1. RefreshTypes'
  <2>1. IsFiniteSet(rows) /\ rows \in SUBSET RowType /\ \A g \in rows : g.at <= Cardinality(rows)
    BY DEF RefreshInv, RefreshTypes
  <2>2. PICK n \in Nat : n = Cardinality(rows)
    BY <2>1, FS_CardinalityType
  <2>3. PICK R : R = rows \cup {f}
    OBVIOUS
  <2>4. IsFiniteSet(R) /\ R \in SUBSET RowType /\ Cardinality(R) = n + 1 /\ f.at <= n + 1
    BY <2>1, <2>2, <2>3 DEF RowAdded
  <2>5. \A g \in R : g.at <= n + 1
    <3> SUFFICES ASSUME NEW g \in rows PROVE g.at <= n + 1
      BY <2>3, <2>4
    <3>1. g.at \in Nat /\ g.at <= n
      BY <2>1, <2>2 DEF RowType
    <3> QED
      BY <3>1
  <2>6. /\ request' \in [Clients -> RequestType] /\ rows' = R /\ trail' = trail /\ trail \in SUBSET EntryType
    BY <2>3 DEF MovedCommitting, RefreshInv, RefreshTypes
  <2> QED
    BY <2>4, <2>5, <2>6 DEF RefreshTypes, RequestType, RowType, EntryType
<1>2. ASSUME NEW d \in Clients, d # c PROVE ClientInv(d, request'[d], rows', trail')
  <2>1. PICK s : s = request[d] /\ s = request'[d] /\ ClientInv(d, s, rows, trail)
    BY <1>2, ClientOf DEF MovedCommitting
  <2>2. PICK R : R = rows \cup {f} /\ Of(d, R) = Of(d, rows) /\ rows \subseteq R
    BY <1>2 DEF RowAdded
  <2>3. Kept(d, s, R)
    BY <2>1, <2>2 DEF ClientInv, Kept, TargetsOf
  <2>4. Counted(d, s, R) /\ Unspoilt(d, s, R)
    BY <2>1, <2>2 DEF ClientInv, Counted, Unspoilt
  <2>5. ClientInv(d, s, R, trail)
    BY <2>1, <2>3, <2>4 DEF ClientInv
  <2> QED
    BY <2>1, <2>2, <2>5 DEF MovedCommitting
<1>3. \A d \in Clients : ClientInv(d, request'[d], rows', trail')
  BY <1>2 DEF MovedCommitting
<1> QED
  BY <1>1, <1>3 DEF RefreshInv

\* A request that computes or writes has no entry yet, and time left.
LEMMA WorkingIsUnaudited ==
  ASSUME NEW c \in Clients, NEW r \in RequestType, ClientInv(c, r, rows, trail), r.phase \in {"compute", "write"}
  PROVE  /\ ~Audited(r) /\ r.entry = {} /\ (\A a \in trail : a.by # c) /\ ~r.spent
         /\ r.target \in r.todo /\ r.target \in Targets
<1>1. ~Audited(r)
  BY DEF ClientInv, Closed
<1>2. r.entry = {} /\ (\A a \in trail : a.by # c)
  BY <1>1 DEF ClientInv, EntriesOf
<1>3. ~r.spent /\ r.target \in r.todo /\ r.target \in Targets
  BY DEF ClientInv, Ordered, RequestType
<1> QED
  BY <1>1, <1>2, <1>3

\* What a request made and shows grows with its row.
LEMMA KeptGrows ==
  ASSUME NEW c, NEW r, NEW q, NEW R, NEW f, Kept(c, r, R), Of(c, R \cup {f}) = Of(c, R) \cup {f},
         q.made \subseteq r.made \cup {f.target}, q.shown \subseteq r.shown \cup {f}, q.had = r.had
  PROVE  Kept(c, q, R \cup {f})
<1>1. r.made \subseteq TargetsOf(Of(c, R)) /\ r.shown \subseteq R /\ r.had \subseteq TargetsOf(R)
  BY DEF Kept
<1>2. /\ TargetsOf(Of(c, R) \cup {f}) = TargetsOf(Of(c, R)) \cup {f.target}
      /\ TargetsOf(R) \subseteq TargetsOf(R \cup {f})
  BY DEF TargetsOf
<1> QED
  BY <1>1, <1>2 DEF Kept

\* A forecast is committed.
LEMMA CommitForecastStep ==
  ASSUME RefreshInv, NEW c \in Clients, CommitForecast(c)
  PROVE  RefreshInv'
<1>1. PICK r \in RequestType : r = request[c] /\ ClientInv(c, r, rows, trail) /\ r.phase = "write"
  BY ClientOf DEF CommitForecast
<1>2. PICK f : f = Draft(c) /\ RowAdded(c, f, rows) /\ f.target = r.target
  BY <1>1, DraftAdded
<1>3. /\ ~Audited(r) /\ r.entry = {} /\ (\A a \in trail : a.by # c) /\ ~r.spent
      /\ r.target \in r.todo /\ r.target \in Targets
  BY <1>1, WorkingIsUnaudited
<1> DEFINE todo == r.todo \ {r.target}
           made == r.made \cup {r.target}
           shown == {g \in r.shown : g.target # r.target} \cup {f}
<1>4. request \in [Clients -> RequestType] /\ rows \in SUBSET RowType
  BY DEF RefreshInv, RefreshTypes
<1>5. request' = [request EXCEPT ![c].phase = "pick", ![c].todo = todo, ![c].entry = {},
               ![c].target = NoTarget, ![c].draft = NoDraft, ![c].made = made, ![c].shown = shown]
  BY <1>1, <1>2 DEF CommitForecast
<1>6. rows' = rows \cup {f} /\ trail' = trail
  BY <1>1, <1>2, <1>3 DEF CommitForecast
<1>7. todo \in SUBSET Targets /\ made \in SUBSET Targets /\ shown \in SUBSET RowType
  BY <1>2, <1>3 DEF RequestType, RowAdded
<1>8. /\ made \subseteq r.made \cup {f.target} /\ shown \subseteq r.shown \cup {f}
      /\ made \cap todo = {} /\ todo \subseteq r.todo /\ made \cup todo = r.made \cup r.todo
  BY <1>1, <1>2, <1>3 DEF ClientInv, Ordered
<1>9. Cardinality(made) = Cardinality(r.made) + 1
  <2>1. IsFiniteSet(r.made)
    BY TheTypes, FS_Subset DEF RequestType
  <2>2. r.target \notin r.made
    BY <1>1, <1>3 DEF ClientInv, Ordered
  <2> QED
    BY <2>1, <2>2, FS_AddElement
<1> HIDE DEF todo, made, shown
<1>10. MovedCommitting(c, f)
  <2>1. NoDraft \in [risk : 0 .. 3, status : Statuses]
    BY DEF NoDraft, Statuses
  <2>2. [r EXCEPT !.phase = "pick", !.todo = todo, !.entry = {}, !.target = NoTarget, !.draft = NoDraft,
                  !.made = made, !.shown = shown] \in RequestType
    BY <1>7, <2>1 DEF RequestType, Phases
  <2> QED
    BY <1>1, <1>4, <1>5, <1>6, <2>2 DEF MovedCommitting
<1>11. PICK q : q = request'[c]
  OBVIOUS
<1>12. /\ q.phase = "pick" /\ q.todo = todo /\ q.entry = {} /\ q.made = made /\ q.shown = shown
       /\ q.kind = r.kind /\ q.pass = r.pass /\ q.spent = r.spent /\ q.had = r.had
  BY <1>1, <1>4, <1>5, <1>11 DEF RequestType
<1>13. PICK R : R = rows \cup {f} /\ rows \subseteq R /\ Of(c, R) = Of(c, rows) \cup {f}
                /\ Cardinality(Of(c, R)) = Cardinality(Of(c, rows)) + 1
  BY <1>2 DEF RowAdded
<1>14. ClientInv(c, q, R, trail)
  <2>1. Kept(c, q, R)
    BY <1>1, <1>8, <1>12, <1>13, KeptGrows DEF ClientInv
  <2>2. Counted(c, q, R)
    BY <1>1, <1>3, <1>9, <1>12, <1>13 DEF ClientInv, Counted
  <2>3. Ordered(q)
    BY <1>1, <1>8, <1>12 DEF ClientInv, Ordered
  <2>4. ~Audited(q)
    BY <1>1, <1>3, <1>12 DEF Audited
  <2>5. Closed(q) /\ EntriesOf(c, q, trail)
    BY <1>3, <1>12, <2>4 DEF Closed, EntriesOf
  <2>6. Unspoilt(c, q, R)
    BY <1>1, <1>2, <1>3, <1>8, <1>12, <1>13 DEF ClientInv, Unspoilt
  <2> QED
    BY <2>1, <2>2, <2>3, <2>5, <2>6 DEF ClientInv
<1> QED
  BY <1>2, <1>10, <1>11, <1>13, <1>14, CommitStep

\* The timer cancels a request, before or after the commit it was in.
LEMMA TimerCancelsStep ==
  ASSUME RefreshInv, NEW c \in Clients, TimerCancels(c)
  PROVE  RefreshInv'
<1>1. PICK r \in RequestType : r = request[c] /\ ClientInv(c, r, rows, trail) /\ r.phase \in {"compute", "write"}
  BY ClientOf DEF TimerCancels
<1>2. /\ ~Audited(r) /\ r.entry = {} /\ (\A a \in trail : a.by # c) /\ ~r.spent
  BY <1>1, WorkingIsUnaudited
<1>3. PICK left \in {"ok", "broken"} :
        request' = [request EXCEPT ![c].phase = "audit", ![c].spent = TRUE, ![c].session = left,
                      ![c].target = NoTarget, ![c].draft = NoDraft, ![c].entry = {}]
  <2>1. PICK left \in {"ok", "broken"} :
        request' = [request EXCEPT ![c].phase = "audit", ![c].spent = TRUE, ![c].session = left,
                      ![c].target = NoTarget, ![c].draft = NoDraft,
                      ![c].entry = IF request[c].phase = "compute" THEN @ ELSE {}]
    BY DEF TimerCancels
  <2>2. (IF request[c].phase = "compute" THEN request[c].entry ELSE {}) = {}
    BY <1>1, <1>2
  <2> QED
    BY <2>1, <2>2
<1>4. request \in [Clients -> RequestType]
  BY DEF RefreshInv, RefreshTypes
<1>5. /\ request' \in [Clients -> RequestType]
      /\ \A d \in Clients : d # c => request'[d] = request[d]
  <2>1. NoDraft \in [risk : 0 .. 3, status : Statuses]
    BY DEF NoDraft, Statuses
  <2>2. [r EXCEPT !.phase = "audit", !.spent = TRUE, !.session = left, !.target = NoTarget,
                  !.draft = NoDraft, !.entry = {}] \in RequestType
    BY <2>1 DEF RequestType, Phases
  <2> QED
    BY <1>1, <1>3, <1>4, <2>2
<1>6. PICK q : q = request'[c]
  OBVIOUS
<1>7. /\ q.phase = "audit" /\ q.spent = TRUE /\ q.entry = {} /\ q.pass = r.pass /\ q.todo = r.todo
      /\ q.shown = r.shown /\ q.kind = r.kind /\ q.made = r.made /\ q.had = r.had
  BY <1>1, <1>3, <1>4, <1>6 DEF RequestType
<1>8. Ordered(q)
  BY <1>1, <1>7 DEF ClientInv, Ordered
<1>9. Closed(q) /\ EntriesOf(c, q, trail)
  <2>1. ~Audited(q)
    BY <1>1, <1>2, <1>7 DEF Audited
  <2> QED
    BY <1>2, <1>7, <2>1 DEF Closed, EntriesOf
<1>10. CASE UNCHANGED <<rows, trail>>
  <2>1. Kept(c, q, rows) /\ Counted(c, q, rows) /\ Unspoilt(c, q, rows)
    BY <1>1, <1>7 DEF ClientInv, Kept, Counted, Unspoilt
  <2>2. MovedAlone(c) /\ ClientInv(c, q, rows, trail)
    BY <1>5, <1>8, <1>9, <1>10, <2>1 DEF MovedAlone, ClientInv
  <2> QED
    BY <1>6, <2>2, AloneStep
<1>11. CASE request[c].phase = "write" /\ rows' = rows \cup {Draft(c)} /\ trail' = trail \cup request[c].entry
  <2>1. PICK f : f = Draft(c) /\ RowAdded(c, f, rows) /\ f.target = r.target
    BY <1>1, <1>11, DraftAdded
  <2>2. r.target \in r.todo
    BY <1>1, WorkingIsUnaudited
  <2>3. PICK R : R = rows \cup {f} /\ rows \subseteq R /\ Of(c, R) = Of(c, rows) \cup {f}
                /\ Cardinality(Of(c, R)) = Cardinality(Of(c, rows)) + 1
    BY <2>1 DEF RowAdded
  <2>4. Kept(c, q, R)
    BY <1>1, <1>7, <2>3, KeptGrows DEF ClientInv
  <2>5. Counted(c, q, R)
    BY <1>1, <1>2, <1>7, <2>3 DEF ClientInv, Counted
  <2>6. Unspoilt(c, q, R)
    BY <1>1, <1>7, <2>1, <2>2, <2>3 DEF ClientInv, Unspoilt
  <2>7. MovedCommitting(c, f) /\ ClientInv(c, q, R, trail)
    BY <1>1, <1>2, <1>5, <1>8, <1>9, <1>11, <2>1, <2>4, <2>5, <2>6 DEF MovedCommitting, ClientInv
  <2> QED
    BY <1>6, <2>1, <2>3, <2>7, CommitStep
<1> QED
  BY <1>10, <1>11 DEF TimerCancels

-----------------------------------------------------------------------------
\* Before the first request the invariant holds.
LEMMA RefreshInitial == RefreshInit => RefreshInv
<1> SUFFICES ASSUME RefreshInit PROVE RefreshInv
  OBVIOUS
<1> DEFINE start == [phase |-> "off", kind |-> "matrix", pass |-> "backfill", todo |-> {},
                     target |-> NoTarget, draft |-> NoDraft, made |-> {}, session |-> "ok",
                     spent |-> FALSE, entry |-> {}, had |-> {}, shown |-> {}]
<1>1. request = [c \in Clients |-> start] /\ trail = {}
  BY DEF RefreshInit
<1>2. start \in RequestType
  BY DEF RequestType, Phases, Kinds, NoDraft, Statuses
<1>3. /\ start.phase = "off" /\ start.kind = "matrix" /\ start.pass = "backfill" /\ start.todo = {}
      /\ start.made = {} /\ start.spent = FALSE /\ start.entry = {} /\ start.had = {} /\ start.shown = {}
  OBVIOUS
<1> HIDE DEF start
<1> DEFINE old == [t \in Targets |-> [target |-> t, by |-> "earlier", at |-> 0, risk |-> NoDataRisk(t),
                                      status |-> "insufficient"]]
<1>4. PICK known \in SUBSET Targets : rows = {old[t] : t \in known}
  BY DEF RefreshInit
<1>5. IsFiniteSet(rows)
  <2>1. IsFiniteSet(known)
    BY TheTypes, FS_Subset
  <2>2. [t \in known |-> old[t]] \in Surjection(known, rows)
    <3> HIDE DEF old
    <3> QED
      BY <1>4 DEF Surjection
  <2> QED
    BY <2>1, <2>2, FS_Surjection
<1>6. \A f \in rows : f \in RowType /\ f.at = 0 /\ f.by = "earlier"
  <2>1. \A t \in Targets : old[t] \in RowType /\ old[t].at = 0 /\ old[t].by = "earlier"
    BY TheTypes DEF RowType, Statuses
  <2> HIDE DEF old
  <2> QED
    BY <1>4, <2>1
<1>7. \A f \in rows : f.at <= Cardinality(rows)
  <2>1. Cardinality(rows) \in Nat
    BY <1>5, FS_CardinalityType
  <2> QED
    BY <1>6, <2>1
<1>8. RefreshTypes
  BY <1>1, <1>2, <1>5, <1>6, <1>7 DEF RefreshTypes
<1>9. ASSUME NEW c \in Clients PROVE ClientInv(c, start, rows, trail)
  <2>1. Of(c, rows) = {}
    BY <1>6, RefreshAssumption DEF Of
  <2>2. Cardinality(Of(c, rows)) = 0 /\ Cardinality(start.made) = 0
    BY <1>3, <2>1, FS_EmptySet
  <2>3. Kept(c, start, rows) /\ Ordered(start) /\ Unspoilt(c, start, rows)
    BY <1>3, <2>1 DEF Kept, Ordered, Unspoilt
  <2>4. Counted(c, start, rows)
    BY <2>2 DEF Counted
  <2>5. Closed(start) /\ EntriesOf(c, start, trail)
    BY <1>1, <1>3 DEF Closed, EntriesOf
  <2> QED
    BY <2>3, <2>4, <2>5 DEF ClientInv
<1> QED
  BY <1>1, <1>8, <1>9 DEF RefreshInv

\* Every step of requests, timers and restarts keeps the invariant.
LEMMA RefreshKept == RefreshInv /\ [RefreshNext]_refreshVars => RefreshInv'
<1> SUFFICES ASSUME RefreshInv, [RefreshNext]_refreshVars PROVE RefreshInv'
  OBVIOUS
<1>1. ASSUME NEW c \in Clients, Ask(c) \/ Serve(c) \/ TimerCancels(c) \/ RequestFails(c)
      PROVE  RefreshInv'
  BY <1>1, AskUniverseStep, ReadMatrixStep, PickTargetStep, ComputeTargetStep, CommitForecastStep, WriteAuditStep,
     TeardownStep, TimerCancelsStep, RequestFailsStep DEF Serve
<1>2. CASE RefreshCrash
  BY <1>2, RefreshCrashStep
<1>3. CASE UNCHANGED refreshVars
  <2>1. request' = request /\ rows' = rows /\ trail' = trail
    BY <1>3 DEF refreshVars
  <2> QED
    BY <2>1 DEF RefreshInv, RefreshTypes, RequestType, RowType, EntryType
<1> QED
  BY <1>1, <1>2, <1>3 DEF RefreshNext

\* The invariant contains what the run checks.
LEMMA RefreshInvSays == RefreshInv => RefreshIsSound
<1> SUFFICES ASSUME RefreshInv PROVE RefreshIsSound
  OBVIOUS
<1>1. ASSUME NEW c \in Clients
      PROVE  /\ \A t \in request[c].made : \E f \in RowsOf(c) : f.target = t
             /\ request[c].shown \subseteq rows
  BY ClientOf DEF ClientInv, Kept, TargetsOf, Of, RowsOf
<1>2. ASSUME NEW a \in trail PROVE Cardinality(RowsOf(a.by)) - a.count \in {0, 1}
  <2>1. PICK c \in Clients : c = a.by
    BY DEF RefreshInv, RefreshTypes, EntryType
  <2>2. PICK r \in RequestType : r = request[c] /\ ClientInv(c, r, rows, trail)
    BY ClientOf
  <2>3. PICK n \in Nat : n = Cardinality(r.made)
    <3>1. IsFiniteSet(r.made)
      BY TheTypes, FS_Subset DEF RequestType
    <3> QED
      BY <3>1, FS_CardinalityType
  <2>4. a.count = n
    BY <2>1, <2>2, <2>3 DEF ClientInv, EntriesOf
  <2>5. Cardinality(RowsOf(c)) \in {n, n + 1}
    BY <2>2, <2>3 DEF ClientInv, Counted, Of, RowsOf
  <2> QED
    BY <2>1, <2>4, <2>5
<1>3. CompletedAreKept
  BY <1>1, <1>2 DEF CompletedAreKept
<1>4. NoChurn
  <2> SUFFICES ASSUME NEW c \in Clients, request[c].kind = "matrix", NEW f \in RowsOf(c)
               PROVE  f.target \notin request[c].had
    BY DEF NoChurn
  <2>1. ClientInv(c, request[c], rows, trail)
    BY ClientOf
  <2> QED
    BY <2>1 DEF ClientInv, Unspoilt, Of, RowsOf
<1> QED
  BY <1>3, <1>4 DEF RefreshIsSound

\* For any targets and number of clients at once, with cancellations and restarts: what a request
\* made and shows stays in the table, its audit entry counts its rows but one that was under way, and
\* a matrix request makes no forecast for a target that had one.
THEOREM RefreshHolds == RefreshSpec => []RefreshIsSound
<1>1. RefreshInit => RefreshInv
  BY RefreshInitial
<1>2. RefreshInv /\ [RefreshNext]_refreshVars => RefreshInv'
  BY RefreshKept
<1>3. RefreshInv => RefreshIsSound
  BY RefreshInvSays
<1> QED
  BY <1>1, <1>2, <1>3, PTL DEF RefreshSpec

-----------------------------------------------------------------------------
(* The book and its risk.                                                   *)

\* light is the worst of the traffic lights seen.
WorstOf(light, lights) ==
  /\ light \in Colours /\ lights \subseteq Colours
  /\ light = IF "red" \in lights THEN "red" ELSE IF "yellow" \in lights THEN "yellow" ELSE "green"

\* cvar is the highest shortfall seen, and highest the pair it belongs to.
HighestOf(highest, cvar, cvars) ==
  /\ cvar \in LossLevels
  /\ \A c \in cvars : c[2] \in LossLevels /\ c[2] <= cvar
  /\ cvar > 0 => <<highest, cvar>> \in cvars

\* The types of a reader.
RiskRecords ==
  [at : {"idle", "pairs", "book", "assets"}, asked : Int, pairs : SUBSET Symbols, rows : [Symbols -> Int],
   simulated : BOOLEAN, todo : SUBSET Symbols, light : Colours, highest : Symbols \cup {"none"},
   cvar : LossLevels, lights : SUBSET Colours, cvars : SUBSET (Symbols \X LossLevels)]

\* What one computation may rely on: a simulation reads the book to its end, and what it has said
\* so far is the worst of what it has seen.
Honest(k) ==
  /\ k.simulated => k.asked = BookEndpoints /\ k.at = "assets"
  /\ WorstOf(k.light, k.lights) /\ HighestOf(k.highest, k.cvar, k.cvars)

\* The inductive invariant of the readers of the book.
RiskInv ==
  /\ book \in SUBSET Symbols
  /\ reader \in [Readers -> RiskRecords]
  /\ \A r \in Readers : Honest(reader[r])
  /\ latest # NoPayload => /\ WorstOf(latest.light, latest.lights)
                           /\ \E cvar : HighestOf(latest.highest, cvar, latest.cvars)

\* The constants of the book.
LEMMA RiskConstants ==
  /\ Defaults \subseteq Symbols /\ PairEndpoints \in Nat \ {0} /\ BookEndpoints \in Nat \ {0}
BY DefaultsAreSymbols, EndpointsExist

\* A computation that read nothing claims nothing.
LEMMA FreshReader == Fresh \in RiskRecords /\ Honest(Fresh)
BY DEF Fresh, RiskRecords, Honest, WorstOf, HighestOf, NoRows, Colours, LossLevels

\* Before the first computation the invariant holds.
LEMMA RiskInitial == RiskInit => RiskInv
BY FreshReader DEF RiskInit, RiskInv

\* One reader goes on, and stays honest.
ReaderBecomes(r, new) ==
  /\ reader' \in [Readers -> RiskRecords]
  /\ \A q \in Readers : reader'[q] = IF q = r THEN new ELSE reader[q]
  /\ Honest(new) /\ book' = book

\* A step of one reader keeps the invariant.
LEMMA ReaderStep ==
  ASSUME RiskInv, NEW r \in Readers, NEW new, ReaderBecomes(r, new), latest' = latest
  PROVE  RiskInv'
<1>1. \A q \in Readers : Honest(reader'[q])
  BY DEF ReaderBecomes, RiskInv
<1>2. \A q \in Readers : Honest(reader[q])'
  BY <1>1 DEF Honest
<1> QED
  BY <1>2 DEF RiskInv, ReaderBecomes

\* A reader asks for the pairs: a few rows, simulated for the default assets when there are none.
LEMMA PairsStep ==
  ASSUME RiskInv, NEW r \in Readers, AskPairs(r)
  PROVE  RiskInv'
<1>1. PICK named \in SUBSET book :
        reader' = [reader EXCEPT
            ![r].pairs = IF reader[r].asked + 1 = PairEndpoints
                         THEN reader[r].pairs \cup named \cup Defaults ELSE reader[r].pairs \cup named,
            ![r].asked = IF reader[r].asked + 1 = PairEndpoints THEN 0 ELSE @ + 1,
            ![r].at    = IF reader[r].asked + 1 = PairEndpoints THEN "book" ELSE @]
  BY DEF AskPairs
<1>2. PICK k \in RiskRecords : k = reader[r] /\ Honest(k) /\ k.at = "pairs"
  BY DEF RiskInv, AskPairs
<1>3. PICK pairs \in SUBSET Symbols :
        pairs = IF k.asked + 1 = PairEndpoints THEN k.pairs \cup named \cup Defaults ELSE k.pairs \cup named
  BY RiskConstants DEF RiskRecords, RiskInv
<1>4. PICK asked \in Int : asked = IF k.asked + 1 = PairEndpoints THEN 0 ELSE k.asked + 1
  BY DEF RiskRecords
<1>5. PICK at \in {"pairs", "book"} : at = IF k.asked + 1 = PairEndpoints THEN "book" ELSE k.at
  BY <1>2
<1> DEFINE new == [k EXCEPT !.pairs = pairs, !.asked = asked, !.at = at]
<1>6. reader \in [Readers -> RiskRecords] /\ book' = book /\ latest' = latest
  BY DEF RiskInv, AskPairs
<1>7. reader' = [reader EXCEPT ![r] = new]
  BY <1>1, <1>2, <1>3, <1>4, <1>5, <1>6
<1>8. /\ new \in RiskRecords /\ new.simulated = k.simulated /\ new.light = k.light /\ new.lights = k.lights
      /\ new.highest = k.highest /\ new.cvar = k.cvar /\ new.cvars = k.cvars
  BY DEF RiskRecords
<1> HIDE DEF new
<1>9. ~k.simulated
  BY <1>2 DEF Honest
<1>10. Honest(new)
  BY <1>2, <1>8, <1>9 DEF Honest
<1>11. ReaderBecomes(r, new)
  BY <1>6, <1>7, <1>8, <1>10 DEF ReaderBecomes
<1> QED
  BY <1>6, <1>11, ReaderStep

\* A reader asks for the whole book: simulated rows come as many as the book has endpoints.
LEMMA BookStep ==
  ASSUME RiskInv, NEW r \in Readers, AskBook(r)
  PROVE  RiskInv'
<1> DEFINE More(parsed) == [s \in Symbols |-> reader[r].rows[s] + IF s \in parsed THEN 1 ELSE 0]
           Final(answered, parsed) == EnoughRows(answered /\ parsed = book, More(parsed))
                                       \/ reader[r].asked + 1 = BookEndpoints
           Becomes(answered, parsed) ==
             reader' = [reader EXCEPT
                ![r].rows = IF Final(answered, parsed) /\ RowCount(More(parsed)) = 0
                            THEN [s \in Symbols |-> IF s \in Defaults THEN 1 ELSE 0] ELSE More(parsed),
                ![r].simulated = Final(answered, parsed) /\ RowCount(More(parsed)) = 0,
                ![r].asked = @ + 1,
                ![r].todo  = reader[r].pairs,
                ![r].at    = IF Final(answered, parsed) THEN "assets" ELSE @]
<1>1. PICK answered \in BOOLEAN, parsed \in SUBSET book : Becomes(answered, parsed)
  <2>1. \E answered \in BOOLEAN, parsed \in SUBSET book : (~answered => parsed = {}) /\ Becomes(answered, parsed)
    BY Zenon DEF AskBook
  <2> HIDE DEF Becomes
  <2> QED
    BY <2>1
<1>2. PICK k \in RiskRecords : k = reader[r] /\ Honest(k) /\ k.at = "book"
  BY DEF RiskInv, AskBook
<1>3. PICK last \in BOOLEAN : last = Final(answered, parsed)
  OBVIOUS
<1>4. PICK simulated \in BOOLEAN : simulated = (last /\ RowCount(More(parsed)) = 0)
  OBVIOUS
<1>5. simulated => last /\ k.asked + 1 = BookEndpoints
  <2>1. RowCount(More(parsed)) = 0 => ~EnoughRows(answered /\ parsed = book, More(parsed))
    BY DEF EnoughRows
  <2> QED
    BY <1>2, <1>3, <1>4, <2>1
<1>6. PICK counts \in [Symbols -> Int] :
        counts = IF last /\ RowCount(More(parsed)) = 0
               THEN [s \in Symbols |-> IF s \in Defaults THEN 1 ELSE 0] ELSE More(parsed)
  <2>1. More(parsed) \in [Symbols -> Int]
    BY <1>2 DEF RiskRecords
  <2>2. [s \in Symbols |-> IF s \in Defaults THEN 1 ELSE 0] \in [Symbols -> Int]
    OBVIOUS
  <2> HIDE DEF More
  <2> QED
    BY <2>1, <2>2
<1>7. PICK at \in {"book", "assets"} : at = IF last THEN "assets" ELSE k.at
  BY <1>2
<1> HIDE DEF More, Last
<1> DEFINE new == [k EXCEPT !.rows = counts, !.simulated = simulated, !.asked = k.asked + 1, !.todo = k.pairs,
                            !.at = at]
<1>8. reader \in [Readers -> RiskRecords] /\ book' = book /\ latest' = latest
  BY DEF RiskInv, AskBook
<1>9. reader' = [reader EXCEPT ![r] = new]
  BY <1>1, <1>2, <1>3, <1>4, <1>6, <1>7, <1>8
<1>14. new \in RiskRecords
  <2>1. k.asked + 1 \in Int /\ k.pairs \in SUBSET Symbols
    BY DEF RiskRecords
  <2> QED
    BY <2>1 DEF RiskRecords
<1>10. /\ new.simulated = simulated /\ new.light = k.light /\ new.lights = k.lights
       /\ new.highest = k.highest /\ new.cvar = k.cvar /\ new.cvars = k.cvars /\ new.asked = k.asked + 1
       /\ new.at = at
  BY DEF RiskRecords
<1> HIDE DEF new
<1>11. Honest(new)
  BY <1>2, <1>5, <1>7, <1>10 DEF Honest
<1>12. ReaderBecomes(r, new)
  BY <1>8, <1>9, <1>11, <1>14 DEF ReaderBecomes
<1> QED
  BY <1>8, <1>12, ReaderStep

\* Escalating by one more light keeps the worst.
LEMMA WorstOfOneMore ==
  ASSUME NEW worst, NEW lights, WorstOf(worst, lights), NEW light \in Colours
  PROVE  WorstOf(Escalated(worst, light), lights \cup {light})
BY DEF WorstOf, Escalated, Colours

\* One more shortfall replaces the highest only if it is higher.
LEMMA HighestOfOneMore ==
  ASSUME NEW highest, NEW most, NEW cvars, HighestOf(highest, most, cvars), NEW pair, NEW cvar \in LossLevels
  PROVE  HighestOf(IF cvar > most THEN pair ELSE highest, IF cvar > most THEN cvar ELSE most,
                   cvars \cup {<<pair, cvar>>})
BY DEF HighestOf, LossLevels

\* One asset of the book is assessed.
LEMMA AuditStep ==
  ASSUME RiskInv, NEW r \in Readers, AuditPair(r)
  PROVE  RiskInv'
<1>1. PICK pair \in reader[r].todo, light \in Colours, cvar \in LossLevels :
        reader' = [reader EXCEPT
            ![r].todo = @ \ {pair},
            ![r].light = Escalated(@, light),
            ![r].highest = IF cvar > reader[r].cvar THEN pair ELSE @,
            ![r].cvar = IF cvar > @ THEN cvar ELSE @,
            ![r].lights = @ \cup {light},
            ![r].cvars = @ \cup {<<pair, cvar>>}]
  BY DEF AuditPair
<1>2. PICK k \in RiskRecords : k = reader[r] /\ Honest(k) /\ k.at = "assets"
  BY DEF RiskInv, AuditPair
<1>3. PICK worst \in Colours : worst = Escalated(k.light, light)
  BY DEF Escalated, RiskRecords
<1>4. PICK highest \in Symbols \cup {"none"} : highest = IF cvar > k.cvar THEN pair ELSE k.highest
  BY <1>2 DEF RiskRecords
<1>5. PICK most \in LossLevels : most = IF cvar > k.cvar THEN cvar ELSE k.cvar
  BY DEF RiskRecords
<1>6. PICK cvars \in SUBSET (Symbols \X LossLevels) : cvars = k.cvars \cup {<<pair, cvar>>}
  <2>1. pair \in Symbols /\ k.cvars \subseteq Symbols \X LossLevels
    <3>1. pair \in k.todo
      BY <1>1, <1>2
    <3>2. k.todo \subseteq Symbols /\ k.cvars \subseteq Symbols \X LossLevels
      BY DEF RiskRecords
    <3> QED
      BY <3>1, <3>2
  <2>2. <<pair, cvar>> \in Symbols \X LossLevels
    BY <2>1
  <2>3. k.cvars \cup {<<pair, cvar>>} \in SUBSET (Symbols \X LossLevels)
    BY <2>1, <2>2
  <2> QED
    BY <2>3
<1> DEFINE new == [k EXCEPT !.todo = k.todo \ {pair}, !.light = worst, !.highest = highest, !.cvar = most,
                            !.lights = k.lights \cup {light}, !.cvars = cvars]
<1>7. reader \in [Readers -> RiskRecords] /\ book' = book /\ latest' = latest
  BY DEF RiskInv, AuditPair
<1>8. reader' = [reader EXCEPT ![r] = new]
  BY <1>1, <1>2, <1>3, <1>4, <1>5, <1>6, <1>7
<1>9. /\ new \in RiskRecords /\ new.simulated = k.simulated /\ new.light = worst
      /\ new.lights = k.lights \cup {light} /\ new.highest = highest /\ new.cvar = most
      /\ new.cvars = cvars /\ new.asked = k.asked /\ new.at = k.at
  BY DEF RiskRecords
<1> HIDE DEF new
<1>10. WorstOf(worst, k.lights \cup {light})
  BY <1>2, <1>3, WorstOfOneMore DEF Honest
<1>11. HighestOf(highest, most, cvars)
  BY <1>2, <1>4, <1>5, <1>6, HighestOfOneMore DEF Honest
<1>12. Honest(new)
  BY <1>2, <1>9, <1>10, <1>11 DEF Honest
<1>13. ReaderBecomes(r, new)
  BY <1>7, <1>8, <1>9, <1>12 DEF ReaderBecomes
<1> QED
  BY <1>7, <1>13, ReaderStep

\* A finished assessment becomes the latest one.
LEMMA PublishStep ==
  ASSUME RiskInv, NEW r \in Readers, PublishRisk(r)
  PROVE  RiskInv'
<1>1. PICK k \in RiskRecords : k = reader[r] /\ Honest(k)
  BY DEF RiskInv
<1>2. reader' = [reader EXCEPT ![r] = Fresh] /\ reader \in [Readers -> RiskRecords] /\ book' = book
  BY DEF RiskInv, PublishRisk
<1>3. /\ latest'.light = k.light /\ latest'.lights = k.lights /\ latest'.highest = k.highest
      /\ latest'.cvars = k.cvars
  BY <1>1 DEF PublishRisk
<1>4. \A q \in Readers : Honest(reader'[q])
  BY <1>2, FreshReader DEF RiskInv
<1>5. \A q \in Readers : Honest(reader[q])'
  BY <1>4 DEF Honest
<1>6. WorstOf(latest'.light, latest'.lights) /\ HighestOf(latest'.highest, k.cvar, latest'.cvars)
  BY <1>1, <1>3 DEF Honest
<1>7. (latest # NoPayload => /\ WorstOf(latest.light, latest.lights)
                             /\ \E cvar : HighestOf(latest.highest, cvar, latest.cvars))'
  BY <1>6 DEF WorstOf, HighestOf
<1> QED
  BY <1>2, <1>5, <1>7, FreshReader DEF RiskInv

\* Every step of readers and traders keeps the invariant.
LEMMA RiskStep == RiskInv /\ [RiskNext]_riskVars => RiskInv'
<1> SUFFICES ASSUME RiskInv, [RiskNext]_riskVars PROVE RiskInv'
  OBVIOUS
<1>1. ASSUME UNCHANGED <<reader, latest>>, book' \in SUBSET Symbols PROVE RiskInv'
  BY <1>1 DEF RiskInv, Honest, WorstOf, HighestOf
<1>2. CASE BookMoves
  BY <1>1, <1>2 DEF BookMoves
<1>3. CASE UNCHANGED riskVars
  BY <1>1, <1>3 DEF riskVars, RiskInv
<1>4. ASSUME NEW r \in Readers, Compute(r) PROVE RiskInv'
  <2> DEFINE new == [Fresh EXCEPT !.at = "pairs"]
  <2>1. new \in RiskRecords /\ Honest(new)
    <3>1. PICK k \in RiskRecords : k = Fresh /\ Honest(k) /\ ~k.simulated
      BY FreshReader DEF Fresh
    <3>2. /\ new \in RiskRecords /\ new.simulated = k.simulated /\ new.light = k.light
          /\ new.lights = k.lights /\ new.highest = k.highest /\ new.cvar = k.cvar /\ new.cvars = k.cvars
      BY <3>1 DEF RiskRecords
    <3> QED
      BY <3>1, <3>2 DEF Honest
  <2>2. reader' = [reader EXCEPT ![r] = new] /\ book' = book /\ latest' = latest
    BY <1>4 DEF Compute
  <2> HIDE DEF new
  <2>3. ReaderBecomes(r, new)
    BY <2>1, <2>2 DEF ReaderBecomes, RiskInv
  <2> QED
    BY <2>2, <2>3, ReaderStep
<1> QED
  BY <1>2, <1>3, <1>4, PairsStep, BookStep, AuditStep, PublishStep DEF RiskNext

\* The invariant contains what the run checks.
LEMMA RiskInvIsEnough == RiskInv => RiskIsHonest
<1> SUFFICES ASSUME RiskInv PROVE RiskIsHonest
  OBVIOUS
<1>1. SimulatedIsLastResort
  BY DEF RiskInv, Honest, SimulatedIsLastResort
<1>2. ASSUME latest # NoPayload
      PROVE  /\ "red" \in latest.lights => latest.light = "red"
             /\ latest.lights = {"green"} => latest.light = "green"
             /\ {"green", "yellow"} = latest.lights => latest.light = "yellow"
  BY <1>2 DEF RiskInv, WorstOf
<1>3. ASSUME latest # NoPayload, NEW c \in latest.cvars, c[2] > 0
      PROVE  <<latest.highest, c[2]>> \in latest.cvars
  <2>1. PICK cvar : HighestOf(latest.highest, cvar, latest.cvars)
    BY <1>3 DEF RiskInv
  <2>2. cvar = c[2] /\ cvar > 0
    BY <1>3, <2>1 DEF HighestOf, LossLevels
  <2> QED
    BY <2>1, <2>2 DEF HighestOf
<1> QED
  BY <1>1, <1>2, <1>3 DEF RiskIsHonest, WorstPairIsReported

\* For any book and any number of readers at once: a published risk bears the worst light and the
\* highest shortfall among its own assets, and positions are
\* simulated only after every endpoint was asked.
THEOREM RiskReported == RiskSpec => []RiskIsHonest
BY RiskInitial, RiskStep, RiskInvIsEnough, PTL DEF RiskSpec

-----------------------------------------------------------------------------
(* The research a forecast rests on.                                        *)

\* The constants of the research.
LEMMA ResearchConstants ==
  /\ Wild \subseteq Items /\ Baseline \notin Items /\ Engines \cap Markets = {} /\ Lookback \in Nat \ {0}
BY WildAreItems, CallersDiffer, LookbackIsPositive

\* The types of the state.
Heard == {"down", "absent", "refused", "garbage", "context", "list"}
Asking == {"context", "query", "again"}
Reports == [item : Items, dated : Int]

Queries == [at : Asking \cup {"idle", "inbox", "done"}, asOf : Nat, asked : Seq(Heard),
            reports : SUBSET Reports, width : {1, 2}]

\* The type invariant.
ResearchTypeOK ==
  /\ today \in Nat /\ published \in [Items -> Nat] /\ noticed \in [Items -> Nat]
  /\ call \in [Callers -> Queries]

\* A report an engine cites lies in the window.
InWindow(c, r, asOf) == c \in Engines => r.dated <= asOf /\ r.dated >= asOf - Lookback

\* What one caller was told was published, and lies in the window where it bears a date.
GenuineCall(c, q, out) ==
  /\ \A r \in q.reports : r.item \in out /\ InWindow(c, r, q.asOf)
  /\ q.at \in Asking => q.reports = {}
  /\ q.at # "done" => q.width = 1
  /\ q.width = 2 => \E w \in q.reports : w.item \in Wild

\* A peer that was down ends the query.
AskedOnce(q) ==
  /\ \A i \in 1 .. Len(q.asked) - 1 : q.asked[i] # "down"
  /\ q.at \in Asking => \A i \in 1 .. Len(q.asked) : q.asked[i] # "down"

\* The inductive invariant of the queries.
ResearchInv ==
  /\ ResearchTypeOK
  /\ \A i \in Items : noticed[i] # Never => i \in Out
  /\ \A c \in Callers : GenuineCall(c, call[c], Out) /\ AskedOnce(call[c])

\* Before the first query the invariant holds.
LEMMA ResearchInitial == ResearchInit => ResearchInv
<1> SUFFICES ASSUME ResearchInit PROVE ResearchInv
  OBVIOUS
<1>1. << >> \in Seq(Heard) /\ Len(<< >>) = 0
  OBVIOUS
<1>2. NoCall \in Queries /\ NoCall.at = "idle" /\ NoCall.reports = {} /\ NoCall.width = 1 /\ NoCall.asked = << >>
  BY <1>1 DEF NoCall, Queries
<1>3. \A c \in Callers : GenuineCall(c, NoCall, Out) /\ AskedOnce(NoCall)
  BY <1>1, <1>2 DEF GenuineCall, AskedOnce, Asking
<1> QED
  BY <1>2, <1>3 DEF ResearchInit, ResearchInv, ResearchTypeOK, Never

\* One more answer to a query that was not turned away yet.
LEMMA HeardOneMore ==
  ASSUME NEW a \in Seq(Heard), NEW answer \in Heard, \A i \in 1 .. Len(a) : a[i] # "down"
  PROVE  /\ Append(a, answer) \in Seq(Heard)
         /\ \A i \in 1 .. Len(Append(a, answer)) - 1 : Append(a, answer)[i] # "down"
         /\ answer # "down" => \A i \in 1 .. Len(Append(a, answer)) : Append(a, answer)[i] # "down"
<1>1. PICK l \in Nat : l = Len(a)
  BY LenProperties
<1>2. /\ Append(a, answer) \in Seq(Heard) /\ Len(Append(a, answer)) = l + 1
      /\ \A i \in 1 .. l : Append(a, answer)[i] = a[i]
      /\ Append(a, answer)[l + 1] = answer
  BY <1>1, AppendProperties
<1>3. \A i \in 1 .. l + 1 : i \in 1 .. l \/ i = l + 1
  OBVIOUS
<1>4. \A i \in 1 .. l + 1 - 1 : i \in 1 .. l
  OBVIOUS
<1> QED
  BY <1>1, <1>2, <1>3, <1>4

\* One query changes, and stays genuine.
QueryBecomes(c, new) ==
  /\ call' \in [Callers -> Queries] /\ \A d \in Callers : call'[d] = IF d = c THEN new ELSE call[d]
  /\ GenuineCall(c, new, Out) /\ AskedOnce(new)
  /\ UNCHANGED <<today, published, noticed>>

\* A step of one query keeps the invariant.
LEMMA QueryStep ==
  ASSUME ResearchInv, NEW c \in Callers, NEW new, QueryBecomes(c, new)
  PROVE  ResearchInv'
<1>1. Out' = Out /\ \A i \in Items : noticed'[i] # Never => i \in Out'
  BY DEF QueryBecomes, Out, ResearchInv
<1>2. ResearchTypeOK'
  BY DEF QueryBecomes, ResearchInv, ResearchTypeOK
<1>3. \A d \in Callers : GenuineCall(d, call'[d], Out) /\ AskedOnce(call'[d])
  BY DEF QueryBecomes, ResearchInv
<1>4. \A d \in Callers : GenuineCall(d, call'[d], Out') /\ AskedOnce(call'[d])
  BY <1>1, <1>3
<1> QED
  BY <1>1, <1>2, <1>4 DEF ResearchInv, GenuineCall, AskedOnce

\* Time and publication take no evidence away.
LEMMA PublishedStep ==
  ASSUME ResearchInv, call' = call, Out \subseteq Out', ResearchTypeOK', \A i \in Items : noticed'[i] # Never => i \in Out'
  PROVE  ResearchInv'
<1>1. \A d \in Callers : GenuineCall(d, call[d], Out) /\ AskedOnce(call[d])
  BY DEF ResearchInv
<1>2. \A d \in Callers : GenuineCall(d, call[d], Out') /\ AskedOnce(call[d])
  BY <1>1 DEF GenuineCall
<1> QED
  BY <1>2 DEF ResearchInv, GenuineCall, AskedOnce

\* An answer without reports keeps the invariant.
LEMMA HearStep ==
  ASSUME ResearchInv, NEW c \in Callers, call[c].at \in Asking, UNCHANGED <<today, published, noticed>>,
         NEW answer \in Heard, NEW next \in Asking \cup {"inbox"}, answer = "down" => next = "inbox",
         Hear(c, answer, next)
  PROVE  ResearchInv'
<1> DEFINE new == [call[c] EXCEPT !.asked = Append(@, answer), !.at = next]
<1>1. call \in [Callers -> Queries] /\ GenuineCall(c, call[c], Out) /\ AskedOnce(call[c])
  BY DEF ResearchInv, ResearchTypeOK
<1>2. PICK q \in Queries : q = call[c]
  BY <1>1
<1>3. PICK said \in Seq(Heard) : /\ said = Append(q.asked, answer)
                                 /\ \A i \in 1 .. Len(said) - 1 : said[i] # "down"
                                 /\ answer # "down" => \A i \in 1 .. Len(said) : said[i] # "down"
  <2>1. q.asked \in Seq(Heard) /\ \A i \in 1 .. Len(q.asked) : q.asked[i] # "down"
    BY <1>1, <1>2 DEF AskedOnce, Queries
  <2> QED
    BY <2>1, HeardOneMore
<1>4. call' = [call EXCEPT ![c] = new]
  BY <1>1 DEF Hear
<1>5. /\ new \in Queries /\ new.asked = said /\ new.at = next /\ new.reports = q.reports /\ new.width = q.width
      /\ new.asOf = q.asOf
  BY <1>2, <1>3 DEF Queries
<1> HIDE DEF new
<1>6. next # "done"
  BY DEF Asking
<1>7. GenuineCall(c, new, Out)
  BY <1>1, <1>2, <1>5, <1>6 DEF GenuineCall, Asking
<1>8. AskedOnce(new)
  BY <1>3, <1>5 DEF AskedOnce, Asking
<1>9. QueryBecomes(c, new)
  BY <1>1, <1>4, <1>5, <1>7, <1>8 DEF QueryBecomes
<1> QED
  BY <1>9, QueryStep

\* An answer with genuine reports keeps the invariant.
LEMMA HearReportsStep ==
  ASSUME ResearchInv, NEW c \in Callers, call[c].at \in Asking, UNCHANGED <<today, published, noticed>>,
         NEW answer \in {"context", "list"}, NEW found \in SUBSET Reports, HearReports(c, answer, found),
         \A r \in found : /\ r.item \in Out
                          /\ r.dated <= call[c].asOf /\ r.dated >= call[c].asOf - Lookback
  PROVE  ResearchInv'
<1> DEFINE new == [call[c] EXCEPT !.asked = Append(@, answer), !.reports = found, !.at = "inbox"]
<1>1. call \in [Callers -> Queries] /\ GenuineCall(c, call[c], Out) /\ AskedOnce(call[c]) /\ answer \in Heard
  BY DEF ResearchInv, ResearchTypeOK, Heard
<1>2. PICK q \in Queries : q = call[c]
  BY <1>1
<1>3. PICK said \in Seq(Heard) : /\ said = Append(q.asked, answer)
                                 /\ \A i \in 1 .. Len(said) - 1 : said[i] # "down"
  <2>1. q.asked \in Seq(Heard) /\ \A i \in 1 .. Len(q.asked) : q.asked[i] # "down"
    BY <1>1, <1>2 DEF AskedOnce, Queries
  <2> QED
    BY <1>1, <2>1, HeardOneMore
<1>4. call' = [call EXCEPT ![c] = new]
  BY <1>1 DEF HearReports
<1>5. /\ new \in Queries /\ new.asked = said /\ new.at = "inbox" /\ new.reports = found /\ new.width = q.width
      /\ new.asOf = q.asOf
  BY <1>2, <1>3 DEF Queries
<1> HIDE DEF new
<1>7. GenuineCall(c, new, Out)
  <2>1. new.width = 1 /\ "inbox" \notin Asking
    BY <1>1, <1>2, <1>5 DEF GenuineCall, Asking
  <2>2. \A r \in found : r.item \in Out /\ InWindow(c, r, new.asOf)
    BY <1>2, <1>5 DEF InWindow
  <2> QED
    BY <1>2, <1>5, <2>1, <2>2 DEF GenuineCall
<1>8. AskedOnce(new)
  BY <1>3, <1>5 DEF AskedOnce, Asking
<1>9. QueryBecomes(c, new)
  BY <1>1, <1>4, <1>5, <1>7, <1>8 DEF QueryBecomes
<1> QED
  BY <1>9, QueryStep

\* A caller asks.
LEMMA AskStep ==
  ASSUME ResearchInv, NEW c \in Callers, AskResearch(c)
  PROVE  ResearchInv'
<1>1. PICK asOf \in 1 .. today : call' = [call EXCEPT ![c] = [NoCall EXCEPT !.at = "context", !.asOf = asOf]]
  BY DEF AskResearch
<1> DEFINE new == [NoCall EXCEPT !.at = "context", !.asOf = asOf]
<1>2. call \in [Callers -> Queries] /\ UNCHANGED <<today, published, noticed>> /\ asOf \in Nat
  BY DEF ResearchInv, ResearchTypeOK, AskResearch
<1>3. << >> \in Seq(Heard) /\ Len(<< >>) = 0
  OBVIOUS
<1>4. new \in Queries /\ new.at = "context" /\ new.reports = {} /\ new.width = 1 /\ new.asked = << >>
  BY <1>2, <1>3 DEF NoCall, Queries, Asking
<1>5. call' = [call EXCEPT ![c] = new]
  BY <1>1
<1> HIDE DEF new
<1>6. GenuineCall(c, new, Out) /\ AskedOnce(new)
  BY <1>3, <1>4 DEF GenuineCall, AskedOnce
<1>7. QueryBecomes(c, new)
  BY <1>2, <1>4, <1>5, <1>6 DEF QueryBecomes
<1> QED
  BY <1>7, QueryStep

\* The context endpoint answers: its report is dated the day before as_of.
LEMMA ContextStep ==
  ASSUME ResearchInv, NEW c \in Callers, ContextAnswers(c)
  PROVE  ResearchInv'
<1>1. PICK told \in SUBSET Out :
        HearReports(c, "context", {[item |-> i, dated |-> call[c].asOf - 1] : i \in told})
  BY DEF ContextAnswers
<1>2. call[c].asOf \in Nat
  BY DEF ResearchInv, ResearchTypeOK, Queries
<1> DEFINE found == {[item |-> i, dated |-> call[c].asOf - 1] : i \in told}
<1>3. found \in SUBSET Reports
  BY <1>2 DEF Reports, Out
<1>4. \A r \in found : r.item \in Out /\ r.dated = call[c].asOf - 1
  OBVIOUS
<1>5. \A r \in found : /\ r.item \in Out
                       /\ r.dated <= call[c].asOf /\ r.dated >= call[c].asOf - Lookback
  BY <1>2, <1>4, ResearchConstants
<1>6. call[c].at \in Asking /\ UNCHANGED <<today, published, noticed>>
  BY DEF ContextAnswers, Asking
<1>7. HearReports(c, "context", found)
  BY <1>1
<1> HIDE DEF found
<1> QED
  BY <1>3, <1>5, <1>6, <1>7, HearReportsStep

\* An endpoint answers with a list, of which the window is kept.
LEMMA ListStep ==
  ASSUME ResearchInv, NEW c \in Callers, ListAnswers(c)
  PROVE  ResearchInv'
<1>1. PICK listed \in (SUBSET Out) \cup {{Baseline}} :
        HearReports(c, "list", {[item |-> i, dated |-> Dated(i)] :
            i \in {j \in listed : IsEvidence(j, call[c].asOf)}})
  BY DEF ListAnswers
<1> DEFINE kept == {j \in listed : IsEvidence(j, call[c].asOf)}
           found == {[item |-> i, dated |-> Dated(i)] : i \in kept}
<1>2. \A i \in kept : /\ i \in Out /\ Dated(i) = published[i] /\ published[i] \in Nat
                     /\ published[i] >= call[c].asOf - Lookback /\ published[i] <= call[c].asOf
  BY ResearchConstants DEF IsEvidence, Dated, Out, ResearchInv, ResearchTypeOK
<1>3. found \in SUBSET Reports
  BY <1>2 DEF Reports, Out
<1>4. \A r \in found : \E i \in kept : r.item = i /\ r.dated = Dated(i)
  OBVIOUS
<1> HIDE DEF kept
<1>5. \A r \in found : /\ r.item \in Out
                       /\ r.dated <= call[c].asOf /\ r.dated >= call[c].asOf - Lookback
  BY <1>2, <1>4
<1>6. call[c].at \in Asking /\ UNCHANGED <<today, published, noticed>>
  BY DEF ListAnswers, Asking
<1>7. HearReports(c, "list", found)
  BY <1>1 DEF kept
<1> HIDE DEF found
<1> QED
  BY <1>3, <1>5, <1>6, <1>7, HearReportsStep

\* The notices of the inbox are added, for a market forecast.
LEMMA ConcludeStep ==
  ASSUME ResearchInv, NEW c \in Callers, Conclude(c)
  PROVE  ResearchInv'
<1>1. PICK matching \in IF c \in Markets THEN SUBSET Inbox(c) ELSE {{}} :
        call' = [call EXCEPT
           ![c].reports = call[c].reports \cup {[item |-> i, dated |-> published[i]] : i \in matching},
           ![c].width = Widened(call[c].reports \cup {[item |-> i, dated |-> published[i]] : i \in matching}),
           ![c].at = "done"]
  BY DEF Conclude
<1>2. PICK q \in Queries : q = call[c] /\ q.at = "inbox" /\ GenuineCall(c, q, Out) /\ AskedOnce(q)
  BY DEF ResearchInv, ResearchTypeOK, Conclude
<1>3. call \in [Callers -> Queries] /\ UNCHANGED <<today, published, noticed>>
  BY DEF ResearchInv, ResearchTypeOK, Conclude
<1>4. matching \subseteq Out /\ (c \in Engines => matching = {})
  BY <1>1, ResearchConstants DEF Inbox, ResearchInv
<1> DEFINE found == {[item |-> i, dated |-> published[i]] : i \in matching}
<1>5. found \subseteq Reports /\ (\A r \in found : r.item \in Out) /\ (c \in Engines => found = {})
  <2>1. \A i \in matching : i \in Items /\ i \in Out /\ published[i] \in Nat
    BY <1>4 DEF Out, ResearchInv, ResearchTypeOK
  <2> QED
    BY <1>4, <2>1 DEF Reports
<1>6. PICK all \in SUBSET Reports : all = q.reports \cup found
  <2>1. q.reports \subseteq Reports
    BY DEF Queries
  <2> HIDE DEF found
  <2> QED
    BY <1>5, <2>1
<1>7. PICK width \in {1, 2} : width = Widened(all)
  BY DEF Widened
<1> DEFINE new == [call[c] EXCEPT !.reports = all, !.width = width, !.at = "done"]
<1>8. call' = [call EXCEPT ![c] = new]
  BY <1>1, <1>2, <1>3, <1>6, <1>7
<1>9. /\ new \in Queries /\ new.asked = q.asked /\ new.at = "done" /\ new.reports = all /\ new.width = width
      /\ new.asOf = q.asOf
  BY <1>2 DEF Queries
<1> HIDE DEF new, found
<1>10. width = 2 => \E w \in all : w.item \in Wild
  BY <1>7 DEF Widened
<1>11. GenuineCall(c, new, Out)
  <2>1. \A r \in q.reports : r.item \in Out /\ InWindow(c, r, q.asOf)
    BY <1>2 DEF GenuineCall
  <2>2. \A r \in all : r.item \in Out /\ InWindow(c, r, q.asOf)
    BY <1>5, <1>6, <2>1 DEF InWindow
  <2>3. \A r \in new.reports : r.item \in Out /\ InWindow(c, r, new.asOf)
    BY <1>9, <2>2
  <2>4. new.width = 2 => \E w \in new.reports : w.item \in Wild
    BY <1>9, <1>10
  <2> QED
    BY <1>9, <2>3, <2>4 DEF GenuineCall, Asking
<1>12. AskedOnce(new)
  BY <1>2, <1>9 DEF AskedOnce, Asking
<1>13. QueryBecomes(c, new)
  BY <1>3, <1>8, <1>9, <1>11, <1>12 DEF QueryBecomes
<1> QED
  BY <1>13, QueryStep

\* The forecast is made.
LEMMA ForgetStep ==
  ASSUME ResearchInv, NEW c \in Callers, Forget(c)
  PROVE  ResearchInv'
<1>1. call' = [call EXCEPT ![c] = NoCall] /\ call \in [Callers -> Queries] /\ UNCHANGED <<today, published, noticed>>
  BY DEF Forget, ResearchInv, ResearchTypeOK
<1>2. << >> \in Seq(Heard) /\ Len(<< >>) = 0
  OBVIOUS
<1>3. NoCall \in Queries /\ NoCall.at = "idle" /\ NoCall.reports = {} /\ NoCall.width = 1 /\ NoCall.asked = << >>
  BY <1>2 DEF NoCall, Queries
<1>4. GenuineCall(c, NoCall, Out) /\ AskedOnce(NoCall)
  BY <1>2, <1>3 DEF GenuineCall, AskedOnce, Asking
<1>5. QueryBecomes(c, NoCall)
  BY <1>1, <1>3, <1>4 DEF QueryBecomes
<1> QED
  BY <1>5, QueryStep

\* Every step of callers, IntelX and time keeps the invariant.
LEMMA ResearchStep == ResearchInv /\ [ResearchNext]_researchVars => ResearchInv'
<1> SUFFICES ASSUME ResearchInv, [ResearchNext]_researchVars PROVE ResearchInv'
  OBVIOUS
<1>0. /\ today \in Nat /\ published \in [Items -> Nat] /\ noticed \in [Items -> Nat]
      /\ call \in [Callers -> Queries] /\ \A i \in Items : noticed[i] # Never => i \in Out
  BY DEF ResearchInv, ResearchTypeOK
<1>1. CASE DayPasses
  BY <1>0, <1>1, PublishedStep DEF DayPasses, ResearchTypeOK, Out
<1>2. ASSUME NEW i \in Items, IntelXPublishes(i)
      PROVE  ResearchInv'
  <2>1. Out \subseteq Out'
    BY <1>0, <1>2 DEF IntelXPublishes, Out, Never
  <2> QED
    BY <1>0, <1>2, <2>1, PublishedStep DEF IntelXPublishes, ResearchTypeOK
<1>3. ASSUME NEW i \in Items, NoticeArrives(i)
      PROVE  ResearchInv'
  <2>1. Out' = Out /\ \A j \in Items : noticed'[j] # Never => j \in Out'
    BY <1>0, <1>3 DEF NoticeArrives, Out
  <2>2. ResearchTypeOK'
    BY <1>0, <1>3 DEF NoticeArrives, ResearchTypeOK
  <2> QED
    BY <1>3, <2>1, <2>2, PublishedStep DEF NoticeArrives
<1>4. ASSUME NEW c \in Callers, PeerUnreachable(c)
      PROVE  ResearchInv'
  BY <1>4, HearStep DEF PeerUnreachable, Heard, Asking
<1>5. ASSUME NEW c \in Callers, PeerRefuses(c)
      PROVE  ResearchInv'
  <2>1. UNCHANGED <<today, published, noticed>>
    BY <1>5 DEF PeerRefuses
  <2>2. PICK answer \in {"absent", "refused"}, next \in {"query", "again", "inbox"} :
          call[c].at \in Asking /\ Hear(c, answer, next)
    BY <1>5 DEF PeerRefuses, Asking
  <2>3. answer \in Heard /\ next \in Asking \cup {"inbox"} /\ answer # "down"
    BY DEF Heard, Asking
  <2> QED
    BY <2>1, <2>2, <2>3, HearStep
<1>6. ASSUME NEW c \in Callers, PeerBabbles(c)
      PROVE  ResearchInv'
  BY <1>6, HearStep DEF PeerBabbles, Heard, Asking
<1>7. CASE UNCHANGED researchVars
  BY <1>0, <1>7, PublishedStep DEF researchVars, ResearchTypeOK, Out
<1> QED
  BY <1>1, <1>2, <1>3, <1>4, <1>5, <1>6, <1>7, AskStep, ContextStep, ListStep, ConcludeStep, ForgetStep
     DEF ResearchNext

\* The invariant contains what the runs check.
LEMMA ResearchInvIsEnough == ResearchInv => EvidenceIsSound
<1> SUFFICES ASSUME ResearchInv PROVE EvidenceIsSound
  OBVIOUS
<1>1. \A c \in Callers : GenuineCall(c, call[c], Out) /\ AskedOnce(call[c])
  BY DEF ResearchInv
<1>2. EvidenceIsGenuine
  BY <1>1 DEF EvidenceIsGenuine, GenuineCall, InWindow
<1>3. DeadPeerAskedOnce
  BY <1>1 DEF DeadPeerAskedOnce, AskedOnce
<1> QED
  BY <1>2, <1>3 DEF EvidenceIsSound

\* Whatever IntelX publishes, refuses or garbles, and whenever: every report a forecast rests on was
\* published, lies in the window where it bears a date, and a dead peer is asked once.
THEOREM EvidenceHolds == ResearchSpec => []EvidenceIsSound
BY ResearchInitial, ResearchStep, ResearchInvIsEnough, PTL DEF ResearchSpec

-----------------------------------------------------------------------------
(* Drift of models, and their ensembles.                                    *)

\* SumOf is the last of the sums, for every sequence of integers.
LEMMA SumOfSums ==
  ASSUME NEW s \in Seq(Int)
  PROVE  \E f : SumsUp(f, s, Len(s)) /\ SumOf(s) = f[Len(s)]
<1> DEFINE n == Len(s)
           sums[i \in 0 .. n] == IF i = 0 THEN 0 ELSE sums[i - 1] + s[i]
           IsSums(f) == f = [i \in 0 .. n |-> IF i = 0 THEN 0 ELSE f[i - 1] + s[i]]
<1>1. n \in Nat
  OBVIOUS
<1>2. PICK f : SumsUp(f, s, n)
  BY <1>1, SumsExist
<1>3. IsSums(f)
  BY <1>1, <1>2 DEF SumsUp
<1>4. sums = CHOOSE g : IsSums(g)
  OBVIOUS
<1>5. IsSums(sums)
  <2> HIDE DEF IsSums, sums
  <2> QED
    BY <1>3, <1>4
<1>6. SumOf(s) = sums[n]
  BY DEF SumOf
<1> HIDE DEF sums
<1>7. sums[0] = 0 /\ \A i \in 1 .. n : sums[i] = sums[i - 1] + s[i]
  <2>1. \A i \in 0 .. n : sums[i] = IF i = 0 THEN 0 ELSE sums[i - 1] + s[i]
    BY <1>5
  <2> QED
    BY <1>1, <2>1
<1>8. \A i \in 0 .. n : sums[i] = f[i]
  <2>1. Starts(sums, s, n) /\ Starts(f, s, n)
    BY <1>2, <1>7 DEF SumsUp, Starts
  <2> QED
    BY <1>1, <2>1, SumsAgree
<1>9. sums[n] = f[n]
  BY <1>1, <1>8
<1> QED
  BY <1>2, <1>6, <1>9

-----------------------------------------------------------------------------
\* Every entry of s is low at least.
From(s, low) == s \in Seq(Int) /\ low \in Int /\ \A i \in DOMAIN s : low <= s[i]
\* Every entry of s is high at most.
Under(s, high) == s \in Seq(Int) /\ high \in Int /\ \A i \in DOMAIN s : s[i] <= high

\* Entries of low at least sum up to Len(s) times low at least.
LEMMA SumOfAtLeast ==
  ASSUME NEW s, NEW low, From(s, low)
  PROVE  SumOf(s) \in Int /\ Len(s) * low <= SumOf(s)
<1>0. s \in Seq(Int) /\ low \in Int /\ \A i \in DOMAIN s : low <= s[i]
  BY DEF From
<1>1. PICK n \in Nat : n = Len(s) /\ DOMAIN s = 1 .. n
  BY <1>0
<1>2. PICK f : SumsUp(f, s, n) /\ SumOf(s) = f[n]
  BY <1>0, <1>1, SumOfSums
<1>3. f \in [0 .. n -> Int] /\ f[0] = 0 /\ \A i \in 1 .. n : f[i] = f[i - 1] + s[i]
  BY <1>2 DEF SumsUp
<1> DEFINE T == {k \in 0 .. n : k * low <= f[k]}
<1>4. 0 \in T
  BY <1>0, <1>3
<1>5. ASSUME NEW k \in 1 .. n, k - 1 \in T PROVE k \in T
  <2>1. k - 1 \in 0 .. n /\ k \in 0 .. n /\ (k - 1) * low <= f[k - 1]
    BY <1>5
  <2>2. PICK x \in Int : x = f[k - 1]
    BY <1>3, <2>1
  <2>3. PICK y \in Int : y = s[k] /\ low <= y
    BY <1>0, <1>1
  <2>4. f[k] = x + y
    BY <1>3, <2>2, <2>3
  <2>5. (k - 1) * low = k * low - low
    BY <1>0, <2>1
  <2>6. PICK a \in Int : a = k * low
    BY <1>0, <2>1
  <2>7. a <= x + y
    BY <1>0, <2>1, <2>2, <2>3, <2>5, <2>6
  <2> QED
    BY <2>1, <2>4, <2>6, <2>7
<1>6. \A k \in 0 .. n : k \in T
  <2> HIDE DEF T
  <2> QED
    BY <1>4, <1>5, UpTo
<1>7. n \in T /\ n \in 0 .. n
  BY <1>6
<1> QED
  BY <1>1, <1>2, <1>3, <1>7

\* Entries of high at most sum up to Len(s) times high at most.
LEMMA SumOfAtMost ==
  ASSUME NEW s, NEW high, Under(s, high)
  PROVE  SumOf(s) \in Int /\ SumOf(s) <= Len(s) * high
<1>0. s \in Seq(Int) /\ high \in Int /\ \A i \in DOMAIN s : s[i] <= high
  BY DEF Under
<1>1. PICK n \in Nat : n = Len(s) /\ DOMAIN s = 1 .. n
  BY <1>0
<1>2. PICK f : SumsUp(f, s, n) /\ SumOf(s) = f[n]
  BY <1>0, <1>1, SumOfSums
<1>3. f \in [0 .. n -> Int] /\ f[0] = 0 /\ \A i \in 1 .. n : f[i] = f[i - 1] + s[i]
  BY <1>2 DEF SumsUp
<1> DEFINE T == {k \in 0 .. n : f[k] <= k * high}
<1>4. 0 \in T
  BY <1>0, <1>3
<1>5. ASSUME NEW k \in 1 .. n, k - 1 \in T PROVE k \in T
  <2>1. k - 1 \in 0 .. n /\ k \in 0 .. n /\ f[k - 1] <= (k - 1) * high
    BY <1>5
  <2>2. PICK x \in Int : x = f[k - 1]
    BY <1>3, <2>1
  <2>3. PICK y \in Int : y = s[k] /\ y <= high
    BY <1>0, <1>1
  <2>4. f[k] = x + y
    BY <1>3, <2>2, <2>3
  <2>5. (k - 1) * high = k * high - high
    BY <1>0, <2>1
  <2>6. PICK a \in Int : a = k * high
    BY <1>0, <2>1
  <2>7. x + y <= a
    BY <1>0, <2>1, <2>2, <2>3, <2>5, <2>6
  <2> QED
    BY <2>1, <2>4, <2>6, <2>7
<1>6. \A k \in 0 .. n : k \in T
  <2> HIDE DEF T
  <2> QED
    BY <1>4, <1>5, UpTo
<1>7. n \in T /\ n \in 0 .. n
  BY <1>6
<1> QED
  BY <1>1, <1>2, <1>3, <1>7

\* A sequence of naturals that is not empty has a least entry.
LEMMA LeastEntry ==
  ASSUME NEW s \in Seq(Nat), Len(s) > 0
  PROVE  \E low \in Nat : (\E i \in DOMAIN s : s[i] = low) /\ \A i \in DOMAIN s : low <= s[i]
<1> DEFINE T == {s[i] : i \in DOMAIN s}
<1>1. T \in SUBSET Nat /\ s[1] \in T
  OBVIOUS
<1>2. PICK low \in T : \A m \in T : low <= m
  <2> HIDE DEF T
  <2> QED
    BY <1>1, LeastOf
<1> QED
  BY <1>1, <1>2

-----------------------------------------------------------------------------
\* The latest and the older errors are the two parts of a sequence.
LEMMA Parts ==
  ASSUME NEW s \in Seq(Nat), Comparable(s)
  PROVE  \E n \in Nat, k \in Nat :
           /\ n = Len(s) /\ k = n - Recent /\ k > 0 /\ Len(Older(s)) = k /\ Len(Latest(s)) = Recent
           /\ Older(s) \in Seq(Nat) /\ Latest(s) \in Seq(Nat)
           /\ DOMAIN Older(s) = 1 .. k /\ \A i \in 1 .. k : Older(s)[i] = s[i]
           /\ DOMAIN Latest(s) = 1 .. Recent /\ \A i \in 1 .. Recent : Latest(s)[i] = s[k + i]
<1>1. PICK n \in Nat : n = Len(s) /\ n > Recent /\ Recent \in Nat \ {0}
  BY WatchAssumption DEF Comparable
<1>2. PICK k \in Nat : k = n - Recent /\ k > 0
  <2>1. n - Recent \in Nat /\ n - Recent > 0
    BY <1>1
  <2> QED
    BY <2>1
<1>3. /\ Older(s) \in Seq(Nat) /\ Len(Older(s)) = k /\ DOMAIN Older(s) = 1 .. k
      /\ \A i \in 1 .. k : Older(s)[i] = s[i]
  BY <1>1, <1>2 DEF Older
<1>4. /\ Latest(s) \in Seq(Nat) /\ Len(Latest(s)) = Recent /\ DOMAIN Latest(s) = 1 .. Recent
      /\ \A i \in 1 .. Recent : Latest(s)[i] = s[k + i]
  <2>1. Latest(s) = SubSeq(s, k + 1, n)
    BY <1>1, <1>2 DEF Latest
  <2>2. PICK t : t = SubSeq(s, k + 1, n)
    OBVIOUS
  <2>3. t \in Seq(Nat) /\ Len(t) = n - k /\ DOMAIN t = 1 .. n - k /\ \A i \in 1 .. n - k : t[i] = s[k + 1 + i - 1]
    <3>1. s \in Seq(Nat) /\ n \in Nat /\ k \in Nat /\ n = Len(s) /\ k < n
      BY <1>1, <1>2, WatchAssumption
    <3>2. t \in Seq(Nat)
      BY ONLY <2>2, <3>1
    <3>3. Len(t) = n - k
      BY ONLY <2>2, <3>1
    <3>4. DOMAIN t = 1 .. n - k
      BY ONLY <3>2, <3>3
    <3>5. \A i \in 1 .. n - k : t[i] = s[k + 1 + i - 1]
      BY ONLY <2>2, <3>1
    <3> QED
      BY <3>2, <3>3, <3>4, <3>5
  <2>4. n - k = Recent
    BY <1>1, <1>2
  <2>5. \A i \in 1 .. Recent : k + 1 + i - 1 = k + i
    BY <1>1, <1>2
  <2> QED
    BY <2>1, <2>2, <2>3, <2>4, <2>5
<1> QED
  BY <1>1, <1>2, <1>3, <1>4

\* In numbers: errors that did not grow do not exceed the threshold; l and o are the sums of the
\* latest and of the older errors.
LEMMA NotWorse ==
  ASSUME NEW R \in Nat \ {0}, NEW k \in Nat \ {0}, NEW unit \in Nat, NEW low \in Nat, NEW l \in Int, NEW o \in Int,
         l <= R * low, k * low <= o
  PROVE  ~(10 * (l * k - o * R) > 3 * AtLeast(o * R, unit * R * k))
<1>1. PICK p \in Int : p = R * low * k
  OBVIOUS
<1>2. l * k <= p
  BY <1>1
<1>3. p <= o * R
  BY <1>1
<1>4. PICK a \in Int, b \in Int, c \in Int : a = l * k /\ b = o * R /\ c = unit * R * k
  OBVIOUS
<1>5. a <= b /\ c >= 0
  <2>1. c >= 0
    BY <1>4
  <2> QED
    BY <1>1, <1>2, <1>3, <1>4, <2>1
<1>6. AtLeast(b, c) >= 0 /\ AtLeast(b, c) \in Int
  BY <1>4, <1>5 DEF AtLeast
<1> QED
  BY <1>4, <1>5, <1>6

\* In numbers: errors that grew by more than a third exceed it, where the older ones are a unit or
\* more.
LEMMA Worse ==
  ASSUME NEW R \in Nat \ {0}, NEW k \in Nat \ {0}, NEW unit \in Nat, NEW low \in Nat, NEW high \in Nat,
         NEW l \in Int, NEW o \in Int, R * low <= l, o <= k * high, unit <= high, 10 * low > 13 * high
  PROVE  10 * (l * k - o * R) > 3 * AtLeast(o * R, unit * R * k)
<1>1. PICK p \in Nat : p = R * k /\ p > 0
  BY Z3
<1>2. p * low <= l * k
  BY <1>1
<1>3. o * R <= p * high
  BY <1>1
<1>4. unit * R * k <= p * high
  BY <1>1
<1>5. 10 * (p * low) > 13 * (p * high)
  BY <1>1
<1>6. PICK a \in Int, b \in Int, c \in Int : a = l * k /\ b = o * R /\ c = unit * R * k
  OBVIOUS
<1>7. PICK x \in Int, y \in Int : x = p * low /\ y = p * high
  BY <1>1
<1>8. AtLeast(b, c) <= y /\ AtLeast(b, c) \in Int
  BY <1>3, <1>4, <1>6, <1>7 DEF AtLeast
<1> QED
  BY <1>2, <1>3, <1>5, <1>6, <1>7, <1>8

\* What Exceeds tells of the errors themselves.
LEMMA ExceedsMeans ==
  ASSUME NEW s \in Seq(Nat), Comparable(s)
  PROVE  LET recent == Len(s) - Recent + 1 .. Len(s)
             older == 1 .. Len(s) - Recent IN
         /\ Exceeds(s) => \E a \in recent, b \in older : s[a] > s[b]
         /\ (\A a \in recent, b \in older : s[a] * 10 > 13 * s[b]) /\ (\A b \in older : s[b] >= ErrorUnit)
              => Exceeds(s)
<1>1. PICK n \in Nat, k \in Nat :
           /\ n = Len(s) /\ k = n - Recent /\ k > 0 /\ Len(Older(s)) = k /\ Len(Latest(s)) = Recent
           /\ Older(s) \in Seq(Nat) /\ Latest(s) \in Seq(Nat)
           /\ DOMAIN Older(s) = 1 .. k /\ \A i \in 1 .. k : Older(s)[i] = s[i]
           /\ DOMAIN Latest(s) = 1 .. Recent /\ \A i \in 1 .. Recent : Latest(s)[i] = s[k + i]
  BY Parts
<1>2. PICK o : o = Older(s)
  OBVIOUS
<1>3. PICK l : l = Latest(s)
  OBVIOUS
<1>4. Recent \in Nat \ {0} /\ ErrorUnit \in Nat /\ k \in Nat \ {0} /\ n = k + Recent
  BY <1>1, WatchAssumption
<1>5. /\ o \in Seq(Nat) /\ o \in Seq(Int) /\ Len(o) = k /\ DOMAIN o = 1 .. k
      /\ l \in Seq(Nat) /\ l \in Seq(Int) /\ Len(l) = Recent /\ DOMAIN l = 1 .. Recent
  BY <1>1, <1>2, <1>3
<1>6. /\ \A i \in 1 .. k : o[i] = s[i] /\ s[i] \in Nat
      /\ \A i \in 1 .. Recent : l[i] = s[k + i] /\ l[i] \in Nat
  BY <1>1, <1>2, <1>3, <1>5
<1>7. Exceeds(s) <=> 10 * (SumOf(l) * k - SumOf(o) * Recent)
                       > 3 * AtLeast(SumOf(o) * Recent, ErrorUnit * Recent * k)
  BY <1>1, <1>2, <1>3 DEF Exceeds
<1>8. ASSUME \A a \in k + 1 .. n, b \in 1 .. k : ~(s[a] > s[b]) PROVE ~Exceeds(s)
  <2>1. PICK low \in Nat : (\E i \in DOMAIN o : o[i] = low) /\ \A i \in DOMAIN o : low <= o[i]
    <3>1. Len(o) > 0
      BY <1>4, <1>5
    <3> QED
      BY <1>5, <3>1, LeastEntry
  <2>2. PICK b \in 1 .. k : s[b] = low
    BY <1>5, <1>6, <2>1
  <2>3. \A i \in DOMAIN l : l[i] <= low
    <3> TAKE i \in DOMAIN l
    <3>1. k + i \in k + 1 .. n /\ l[i] = s[k + i] /\ l[i] \in Nat
      <4>1. i \in 1 .. Recent
        BY <1>5
      <4>2. k + i \in k + 1 .. n
        BY <1>4, <4>1
      <4> QED
        BY <1>6, <4>1, <4>2
    <3>2. ~(s[k + i] > low)
      BY <1>8, <2>2, <3>1
    <3> QED
      BY <3>1, <3>2
  <2>4. SumOf(l) \in Int /\ SumOf(l) <= Recent * low
    <3>1. SumOf(l) \in Int /\ SumOf(l) <= Len(l) * low
      <4>1. Under(l, low)
        BY <1>5, <2>3 DEF Under
      <4> QED
        BY <4>1, SumOfAtMost
    <3> QED
      BY <1>5, <3>1
  <2>5. SumOf(o) \in Int /\ k * low <= SumOf(o)
    <3>1. SumOf(o) \in Int /\ Len(o) * low <= SumOf(o)
      <4>1. From(o, low)
        BY <1>5, <2>1 DEF From
      <4> QED
        BY <4>1, SumOfAtLeast
    <3> QED
      BY <1>5, <3>1
  <2> QED
    BY <1>4, <1>7, <2>4, <2>5, NotWorse
<1>9. ASSUME \A a \in k + 1 .. n, b \in 1 .. k : s[a] * 10 > 13 * s[b], \A b \in 1 .. k : s[b] >= ErrorUnit
      PROVE  Exceeds(s)
  <2>1. PICK low \in Nat : (\E i \in DOMAIN l : l[i] = low) /\ \A i \in DOMAIN l : low <= l[i]
    <3>1. Len(l) > 0
      BY <1>4, <1>5
    <3> QED
      BY <1>5, <3>1, LeastEntry
  <2>2. PICK i \in 1 .. Recent : l[i] = low
    BY <1>5, <2>1
  <2>3. k + i \in k + 1 .. n /\ s[k + i] = low
    <3>1. k + i \in k + 1 .. n
      BY <1>4
    <3> QED
      BY <1>6, <2>2, <3>1
  <2>4. \A b \in 1 .. k : s[b] \in Nat /\ low * 10 > 13 * s[b] /\ s[b] >= ErrorUnit
    BY <1>6, <1>9, <2>3
  <2> DEFINE high == (10 * low - 1) \div 13
  <2>5. 1 \in 1 .. k /\ low * 10 > 0
    <3>1. 1 \in 1 .. k
      BY <1>4
    <3> QED
      BY <2>4, <3>1
  <2>6. high \in Nat /\ 10 * low > 13 * high
    BY <2>5
  <2>7. \A b \in 1 .. k : o[b] <= high /\ ErrorUnit <= high
    <3> TAKE b \in 1 .. k
    <3>1. PICK x \in Nat : x = s[b] /\ low * 10 > 13 * x /\ x >= ErrorUnit
      BY <2>4
    <3>2. x <= high
      BY <3>1
    <3> HIDE DEF high
    <3>3. ErrorUnit <= high
      BY <1>4, <2>6, <3>1, <3>2
    <3> QED
      BY <1>6, <3>1, <3>2, <3>3
  <2> HIDE DEF high
  <2>8. SumOf(l) \in Int /\ Recent * low <= SumOf(l)
    <3>1. SumOf(l) \in Int /\ Len(l) * low <= SumOf(l)
      <4>1. From(l, low)
        BY <1>5, <2>1 DEF From
      <4> QED
        BY <4>1, SumOfAtLeast
    <3> QED
      BY <1>5, <3>1
  <2>9. SumOf(o) \in Int /\ SumOf(o) <= k * high
    <3>1. SumOf(o) \in Int /\ SumOf(o) <= Len(o) * high
      <4>1. Under(o, high)
        BY <1>5, <2>6, <2>7 DEF Under
      <4> QED
        BY <4>1, SumOfAtMost
    <3> QED
      BY <1>5, <3>1
  <2>10. ErrorUnit <= high
    BY <2>5, <2>7
  <2> QED
    BY <1>4, <1>7, <2>6, <2>8, <2>9, <2>10, Worse
<1>10. (Len(s) - Recent + 1 .. Len(s)) = k + 1 .. n /\ (1 .. Len(s) - Recent) = 1 .. k
  BY <1>1
<1> QED
  BY <1>8, <1>9, <1>10

-----------------------------------------------------------------------------
\* The alerts that the errors s call for.
AlertsOf(s) == {n \in Recent + 1 .. Len(s) : Exceeds(SubSeq(s, 1, n))}

\* The types of the scores.
ScoreType == [Models -> Scores \cup {Unregistered}]

\* What the weights of an ensemble are.
SharesHold(e) ==
  UnknownLast(e) =>
    \A w \in e.weights :
      /\ w.share.top = e.scores[w.model]
      /\ w.share.bottom >= SumOf([i \in DOMAIN e.names |->
           IF e.scores[e.names[i]] = Unregistered THEN 0 ELSE e.scores[e.names[i]]])

\* The inductive invariant of the watch: the alerts are a function of the errors.
WatchInv ==
  /\ samples \in [Watched -> Seq(Errors)] /\ alerted \in [Watched -> SUBSET Nat]
  /\ score \in ScoreType
  /\ \A m \in Watched : alerted[m] = AlertsOf(samples[m])
  /\ SharesHold(ensemble)

\* The alert of the last error.
NewAlerts(t) == {n \in {Len(t)} : Comparable(t) /\ Exceeds(t)}

\* One more error adds its own alert and changes no earlier one.
LEMMA AlertsAppended ==
  ASSUME NEW s \in Seq(Errors), NEW e \in Errors, NEW t, t = Append(s, e)
  PROVE  AlertsOf(t) = AlertsOf(s) \cup NewAlerts(t)
<1>0. SUFFICES AlertsOf(t) = AlertsOf(s) \cup {n \in {Len(t)} : Comparable(t) /\ Exceeds(t)}
  BY Zenon DEF NewAlerts
<1>1. PICK n \in Nat : n = Len(s)
  OBVIOUS
<1>2. t \in Seq(Errors) /\ Len(t) = n + 1 /\ \A i \in 1 .. n : t[i] = s[i]
  BY <1>1
<1>3. \A k \in 1 .. n : SubSeq(t, 1, k) = SubSeq(s, 1, k)
  <2> TAKE k \in 1 .. n
  <2>1. /\ SubSeq(t, 1, k) \in Seq(Errors) /\ Len(SubSeq(t, 1, k)) = k
        /\ \A i \in 1 .. k : SubSeq(t, 1, k)[i] = t[i]
    BY <1>1, <1>2
  <2>2. /\ SubSeq(s, 1, k) \in Seq(Errors) /\ Len(SubSeq(s, 1, k)) = k
        /\ \A i \in 1 .. k : SubSeq(s, 1, k)[i] = s[i]
    BY <1>1
  <2>3. \A i \in 1 .. k : t[i] = s[i]
    BY <1>2
  <2>4. PICK x \in Seq(Errors) : x = SubSeq(t, 1, k) /\ Len(x) = k /\ \A i \in 1 .. k : x[i] = t[i]
    BY <2>1
  <2>5. PICK y \in Seq(Errors) : y = SubSeq(s, 1, k) /\ Len(y) = k /\ \A i \in 1 .. k : y[i] = s[i]
    BY <2>2
  <2>6. x = y
    BY <2>3, <2>4, <2>5, SeqEqual
  <2> QED
    BY <2>4, <2>5, <2>6
<1>4. SubSeq(t, 1, n + 1) = t
  BY <1>1, <1>2
<1>5. Comparable(t) <=> n + 1 \in Recent + 1 .. n + 1
  BY <1>1, <1>2, WatchAssumption DEF Comparable
<1>6. Recent \in Nat
  BY WatchAssumption
<1>7. ASSUME NEW k \in Recent + 1 .. n + 1
      PROVE  k \in AlertsOf(t) <=> k \in AlertsOf(s) \cup {m \in {Len(t)} : Comparable(t) /\ Exceeds(t)}
  <2>1. CASE k = n + 1
    <3>1. k = Len(t) /\ k \in Recent + 1 .. Len(t) /\ k \notin AlertsOf(s)
      BY <1>1, <1>2, <1>7, <2>1 DEF AlertsOf
    <3>2. SubSeq(t, 1, k) = t /\ Comparable(t)
      BY <1>4, <1>5, <1>7, <2>1
    <3>3. k \in AlertsOf(t) <=> Exceeds(t)
      BY <3>1, <3>2 DEF AlertsOf
    <3> QED
      BY <3>1, <3>2, <3>3
  <2>2. CASE k # n + 1
    <3>1. k \in 1 .. n /\ k \in Recent + 1 .. n /\ k # Len(t)
      BY <1>2, <1>6, <1>7, <2>2
    <3>2. k \in AlertsOf(s) <=> Exceeds(SubSeq(s, 1, k))
      BY <1>1, <3>1 DEF AlertsOf
    <3>3. k \in AlertsOf(t) <=> Exceeds(SubSeq(t, 1, k))
      BY <1>2, <1>7 DEF AlertsOf
    <3> QED
      BY <1>3, <3>1, <3>2, <3>3
  <2> QED
    BY <2>1, <2>2
<1>8. AlertsOf(t) \subseteq Recent + 1 .. n + 1
  BY <1>2 DEF AlertsOf
<1>9. AlertsOf(s) \cup {m \in {Len(t)} : Comparable(t) /\ Exceeds(t)} \subseteq Recent + 1 .. n + 1
  <2>1. AlertsOf(s) \subseteq Recent + 1 .. n
    BY <1>1 DEF AlertsOf
  <2>2. (Recent + 1 .. n) \subseteq (Recent + 1 .. n + 1)
    BY <1>1, <1>6
  <2> QED
    BY <1>2, <1>5, <2>1, <2>2
<1> QED
  BY <1>7, <1>8, <1>9

-----------------------------------------------------------------------------
\* A set of numbers without gaps below starts at 1.
LEMMA InitialSegment ==
  ASSUME NEW n \in Nat, NEW G \in SUBSET (1 .. n), \A i, k \in 1 .. n : i < k /\ k \in G => i \in G
  PROVE  \E k \in 0 .. n : G = 1 .. k
<1> DEFINE T == {j \in 0 .. n : \E k \in 0 .. j : \A i \in 1 .. j : i \in G <=> i <= k}
<1>1. 0 \in T
  OBVIOUS
<1>2. ASSUME NEW j \in 1 .. n, j - 1 \in T PROVE j \in T
  <2>1. PICK k \in 0 .. j - 1 : \A i \in 1 .. j - 1 : i \in G <=> i <= k
    BY <1>2
  <2>2. CASE j \in G
    <3>1. \A i \in 1 .. j : i \in G <=> i <= j
      BY <2>2
    <3> QED
      BY <3>1
  <2>3. CASE j \notin G
    <3>1. ASSUME NEW i \in 1 .. j PROVE i \in G <=> i <= k
      <4>1. CASE i = j
        BY <2>3, <4>1
      <4>2. CASE i # j
        <5>1. i \in 1 .. j - 1
          BY <4>2
        <5> QED
          BY <2>1, <5>1
      <4> QED
        BY <4>1, <4>2
    <3> QED
      BY <3>1
  <2> QED
    BY <2>2, <2>3
<1>3. \A j \in 0 .. n : j \in T
  <2> HIDE DEF T
  <2> QED
    BY <1>1, <1>2, UpTo
<1>4. n \in T
  <2>1. n \in 0 .. n
    OBVIOUS
  <2> HIDE DEF T
  <2> QED
    BY <1>3, <2>1
<1>5. PICK k \in 0 .. n : \A i \in 1 .. n : i \in G <=> i <= k
  BY <1>4
<1>6. G = 1 .. k
  <2>1. \A i \in 1 .. n : i \in G <=> i \in 1 .. k
    BY <1>5
  <2>2. 1 .. k \subseteq 1 .. n
    OBVIOUS
  <2> QED
    BY <2>1, <2>2
<1> QED
  BY <1>6

\* s is t, and zero afterwards.
ZeroAfter(s, t, k) ==
  /\ s \in Seq(Int) /\ t \in Seq(Int) /\ Len(t) = k /\ k <= Len(s)
  /\ (\A i \in 1 .. k : t[i] = s[i]) /\ \A i \in k + 1 .. Len(s) : s[i] = 0

\* Zeros at the end add nothing to a sum.
LEMMA ZerosAddNothing ==
  ASSUME NEW s, NEW t, NEW k \in Nat, ZeroAfter(s, t, k)
  PROVE  SumOf(s) = SumOf(t) /\ SumOf(s) \in Int
<1>1. /\ s \in Seq(Int) /\ t \in Seq(Int) /\ Len(t) = k /\ k <= Len(s)
      /\ (\A i \in 1 .. k : t[i] = s[i]) /\ \A i \in k + 1 .. Len(s) : s[i] = 0
  BY DEF ZeroAfter
<1>2. PICK n \in Nat : n = Len(s) /\ k <= n
  BY <1>1
<1>3. PICK f : SumsUp(f, s, n) /\ SumOf(s) = f[n]
  BY <1>1, <1>2, SumOfSums
<1>4. PICK g : SumsUp(g, t, k) /\ SumOf(t) = g[k]
  BY <1>1, SumOfSums
<1>5. f \in [0 .. n -> Int] /\ f[0] = 0 /\ \A i \in 1 .. n : f[i] = f[i - 1] + s[i]
  BY <1>3 DEF SumsUp
<1>6. f[k] = g[k]
  <2>1. Starts(g, t, k)
    BY <1>4 DEF SumsUp, Starts
  <2>2. Starts(f, t, k)
    <3>1. ASSUME NEW i \in 1 .. k PROVE f[i] = f[i - 1] + t[i]
      <4>1. i \in 1 .. n
        BY <1>2
      <4> QED
        BY <1>1, <1>5, <4>1
    <3> QED
      BY <1>5, <3>1 DEF Starts
  <2>3. \A i \in 0 .. k : f[i] = g[i]
    BY <2>1, <2>2, SumsAgree
  <2> QED
    BY <2>3
<1> DEFINE T == {j \in 0 .. n : j >= k => f[j] = f[k]}
<1>7. 0 \in T
  OBVIOUS
<1>8. ASSUME NEW j \in 1 .. n, j - 1 \in T PROVE j \in T
  <2>1. CASE j > k
    <3>1. j - 1 >= k /\ j \in k + 1 .. Len(s)
      BY <1>2, <2>1
    <3>2. f[j - 1] = f[k] /\ s[j] = 0
      BY <1>1, <1>8, <3>1
    <3>3. f[j] = f[j - 1] + s[j]
      BY <1>5
    <3>4. f[k] \in Int
      BY <1>2, <1>5
    <3> QED
      BY <3>2, <3>3, <3>4
  <2>2. CASE ~(j > k)
    BY <2>2
  <2> QED
    BY <2>1, <2>2
<1>9. \A j \in 0 .. n : j \in T
  <2> HIDE DEF T
  <2> QED
    BY <1>7, <1>8, UpTo
<1>10. f[n] = f[k] /\ f[n] \in Int
  <2>1. n \in 0 .. n
    OBVIOUS
  <2> QED
    BY <1>2, <1>5, <1>9, <2>1
<1> QED
  BY <1>3, <1>4, <1>6, <1>10

\* The first k names are the registered ones.
KnownFirst(names, k) ==
  /\ names \in Seq(Models) /\ k \in 0 .. Len(names)
  /\ \A i \in 1 .. Len(names) : Registered(names[i]) <=> i <= k

\* When the registered names come first, filtering returns them.
LEMMA KnownIsPrefix ==
  ASSUME NEW names, NEW k, KnownFirst(names, k)
  PROVE  Known(names) = SubSeq(names, 1, k)
<1>1. PICK n \in Nat : n = Len(names) /\ k \in 0 .. n /\ names \in Seq(Models)
  BY DEF KnownFirst
<1> DEFINE known[i \in 0 .. n] ==
             IF i = 0 THEN << >>
             ELSE IF Registered(names[i]) THEN Append(known[i - 1], names[i]) ELSE known[i - 1]
           IsKnown(f) == f = [i \in 0 .. n |->
             IF i = 0 THEN << >>
             ELSE IF Registered(names[i]) THEN Append(f[i - 1], names[i]) ELSE f[i - 1]]
           upto(i) == IF i <= k THEN i ELSE k
           prefix == [i \in 0 .. n |-> SubSeq(names, 1, upto(i))]
<1>2. prefix[0] = << >>
  BY <1>1
<1>3. ASSUME NEW i \in 1 .. n
      PROVE  prefix[i] = IF Registered(names[i]) THEN Append(prefix[i - 1], names[i]) ELSE prefix[i - 1]
  <2>1. i - 1 \in 0 .. n /\ i \in 0 .. n
    BY <1>3
  <2>2. CASE i <= k
    <3>1. Registered(names[i]) /\ i - 1 <= k
      BY <1>1, <2>2 DEF KnownFirst
    <3>2. prefix[i] = SubSeq(names, 1, i) /\ prefix[i - 1] = SubSeq(names, 1, i - 1)
      BY <2>1, <2>2, <3>1
    <3>3. SubSeq(names, 1, i) = Append(SubSeq(names, 1, i - 1), names[i])
      BY <1>1
    <3> QED
      BY <3>1, <3>2, <3>3
  <2>3. CASE ~(i <= k)
    <3>1. ~Registered(names[i]) /\ (i - 1 <= k => i - 1 = k)
      BY <1>1, <2>3 DEF KnownFirst
    <3>2. prefix[i] = SubSeq(names, 1, k) /\ prefix[i - 1] = SubSeq(names, 1, k)
      BY <2>1, <2>3, <3>1
    <3> QED
      BY <3>1, <3>2
  <2> QED
    BY <2>2, <2>3
<1>4. IsKnown(prefix)
  <2>1. prefix = [i \in 0 .. n |-> prefix[i]]
    OBVIOUS
  <2>2. \A i \in 0 .. n : prefix[i] =
          IF i = 0 THEN << >>
          ELSE IF Registered(names[i]) THEN Append(prefix[i - 1], names[i]) ELSE prefix[i - 1]
    <3> HIDE DEF prefix
    <3> QED
      BY <1>2, <1>3
  <2> HIDE DEF prefix
  <2> QED
    BY <2>1, <2>2
<1>5. known = CHOOSE f : IsKnown(f)
  OBVIOUS
<1>6. IsKnown(known)
  <2> HIDE DEF IsKnown, known, prefix
  <2> QED
    BY <1>4, <1>5
<1>7. Known(names) = known[n]
  BY <1>1 DEF Known
<1> HIDE DEF known
<1>8. \A i \in 0 .. n : known[i] =
          IF i = 0 THEN << >>
          ELSE IF Registered(names[i]) THEN Append(known[i - 1], names[i]) ELSE known[i - 1]
  BY <1>6
<1> DEFINE T == {i \in 0 .. n : known[i] = prefix[i]}
<1>9. 0 \in T
  <2>1. known[0] = << >> /\ 0 \in 0 .. n
    BY <1>1, <1>8
  <2> HIDE DEF prefix
  <2> QED
    BY <1>2, <2>1
<1>10. ASSUME NEW i \in 1 .. n, i - 1 \in T PROVE i \in T
  <2>1. i \in 0 .. n /\ i # 0 /\ known[i - 1] = prefix[i - 1]
    BY <1>10
  <2> HIDE DEF prefix
  <2> QED
    BY <1>3, <1>8, <2>1
<1>11. \A i \in 0 .. n : i \in T
  <2> HIDE DEF T
  <2> QED
    BY <1>9, <1>10, UpTo
<1>12. known[n] = prefix[n] /\ prefix[n] = SubSeq(names, 1, k)
  <2>1. n \in 0 .. n /\ upto(n) = k
    BY <1>1
  <2> QED
    BY <1>11, <2>1
<1> QED
  BY <1>7, <1>12

\* A model that is not registered counts nothing.
ScoreOrNone(value) == IF value = Unregistered THEN 0 ELSE value

\* The weights of a composed ensemble are shares.
LEMMA WeightsOf ==
  ASSUME score \in ScoreType, NEW names \in Seq(Models)
  PROVE  SharesHold([names |-> names, scores |-> score, weights |-> Paired(names)])
<1> DEFINE e == [names |-> names, scores |-> score, weights |-> Paired(names)]
           full == [i \in DOMAIN names |-> ScoreOrNone(score[names[i]])]
<1>1. e.names = names /\ e.scores = score /\ e.weights = Paired(names)
  OBVIOUS
<1> HIDE DEF e
<1>2. PICK n \in Nat : n = Len(names) /\ DOMAIN names = 1 .. n
  OBVIOUS
<1>3. \A i \in 1 .. n : names[i] \in Models /\ (Registered(names[i]) => score[names[i]] \in Int)
  <2> TAKE i \in 1 .. n
  <2>1. names[i] \in Models
    BY <1>2
  <2>2. score[names[i]] \in Scores \cup {Unregistered}
    BY <2>1 DEF ScoreType
  <2>3. Registered(names[i]) => score[names[i]] \in Scores
    BY <2>2 DEF Registered
  <2> QED
    BY <2>1, <2>3, WatchAssumption
<1>4. SUFFICES ASSUME UnknownLast(e), NEW w \in Paired(names)
               PROVE  w.share.top = score[w.model] /\ w.share.bottom >= SumOf(full)
  BY <1>1 DEF SharesHold, e, ScoreOrNone
<1>5. PICK k \in 0 .. n : \A i \in 1 .. n : Registered(names[i]) <=> i <= k
  <2> DEFINE G == {i \in 1 .. n : Registered(names[i])}
  <2>1. \A i, j \in 1 .. n : i < j /\ j \in G => i \in G
    BY <1>1, <1>2, <1>4 DEF UnknownLast, Registered
  <2>2. G \in SUBSET (1 .. n)
    OBVIOUS
  <2>3. PICK k \in 0 .. n : G = 1 .. k
    <3> HIDE DEF G
    <3> QED
      BY <2>1, <2>2, InitialSegment
  <2>4. \A i \in 1 .. n : Registered(names[i]) <=> i <= k
    BY <2>3
  <2> QED
    BY <2>4
<1>6. PICK known : known = Known(names) /\ known = SubSeq(names, 1, k)
  <2>1. KnownFirst(names, k)
    BY <1>2, <1>5 DEF KnownFirst
  <2> QED
    BY <2>1, KnownIsPrefix
<1>7. known \in Seq(Models) /\ Len(known) = k /\ DOMAIN known = 1 .. k /\ \A i \in 1 .. k : known[i] = names[i]
  BY <1>2, <1>6
<1>8. PICK i \in 1 .. k : w = [model |-> names[i], share |-> Share(score[known[i]], ScoreSum(known))]
  <2>1. Paired(names) = {[model |-> names[i], share |-> Share(score[known[i]], ScoreSum(known))] : i \in DOMAIN known}
    BY <1>6 DEF Paired
  <2> QED
    BY <1>4, <1>7, <2>1
<1>9. /\ w.model = names[i] /\ w.share.top = score[names[i]]
      /\ w.share.bottom = AtLeast(ScoreSum(known), ErrorUnit)
  BY <1>7, <1>8 DEF Share
<1> DEFINE part == [j \in DOMAIN known |-> score[known[j]]]
<1>10. ScoreSum(known) = SumOf(part)
  BY DEF ScoreSum
<1>11. ZeroAfter(full, part, k)
  <2>1. \A j \in 1 .. k : j \in 1 .. n /\ Registered(names[j]) /\ part[j] = score[names[j]] /\ part[j] \in Int
    BY <1>3, <1>5, <1>7
  <2>2. part \in Seq(Int) /\ Len(part) = k
    <3>1. part = [j \in 1 .. k |-> part[j]]
      BY <1>7
    <3> HIDE DEF part
    <3> QED
      BY <2>1, <3>1
  <2>3. \A j \in 1 .. n : full[j] = (IF j <= k THEN score[names[j]] ELSE 0) /\ full[j] \in Int
    <3> TAKE j \in 1 .. n
    <3>1. full[j] = ScoreOrNone(score[names[j]])
      BY <1>2
    <3>2. CASE j <= k
      BY <1>3, <1>5, <3>1, <3>2 DEF ScoreOrNone, Registered
    <3>3. CASE ~(j <= k)
      BY <1>3, <1>5, <3>1, <3>3 DEF ScoreOrNone, Registered
    <3> QED
      BY <3>2, <3>3
  <2>4. full \in Seq(Int) /\ Len(full) = n
    <3>1. full = [j \in 1 .. n |-> full[j]]
      BY <1>2
    <3> HIDE DEF full
    <3> QED
      BY <2>3, <3>1
  <2> HIDE DEF full, part
  <2>5. (\A j \in 1 .. k : part[j] = full[j]) /\ \A j \in k + 1 .. n : full[j] = 0
    <3>1. \A j \in 1 .. k : part[j] = full[j]
      BY <2>1, <2>3
    <3>2. \A j \in k + 1 .. n : full[j] = 0
      BY <2>3
    <3> QED
      BY <3>1, <3>2
  <2> QED
    BY <2>2, <2>4, <2>5 DEF ZeroAfter
<1>12. SumOf(full) = SumOf(part) /\ SumOf(full) \in Int
  <2> HIDE DEF full, part
  <2> QED
    BY <1>11, ZerosAddNothing
<1> HIDE DEF full, part
<1>13. PICK total \in Int : total = SumOf(full) /\ total = ScoreSum(known)
  BY <1>10, <1>12
<1>14. AtLeast(total, ErrorUnit) >= total
  BY WatchAssumption DEF AtLeast
<1> QED
  BY <1>9, <1>13, <1>14

\* Before the first sample the invariant holds.
LEMMA WatchInitial == WatchInit => WatchInv
<1> SUFFICES ASSUME WatchInit PROVE WatchInv
  OBVIOUS
<1>1. \A m \in Watched : samples[m] = << >> /\ alerted[m] = {}
  BY DEF WatchInit
<1>2. AlertsOf(<< >>) = {}
  BY WatchAssumption DEF AlertsOf
<1>3. SharesHold(ensemble)
  BY DEF WatchInit, NoEnsemble, SharesHold
<1>4. /\ samples \in [Watched -> Seq(Errors)] /\ alerted \in [Watched -> SUBSET Nat]
      /\ score \in ScoreType
  BY DEF WatchInit, ScoreType
<1> QED
  BY <1>1, <1>2, <1>3, <1>4 DEF WatchInv

\* A recorded error keeps the invariant.
LEMMA RecordStep ==
  ASSUME WatchInv, NEW m \in Watched, NEW error \in Errors, RecordPrediction(m, error)
  PROVE  WatchInv'
<1>1. PICK s \in Seq(Errors) : s = samples[m] /\ alerted[m] = AlertsOf(s)
  BY DEF WatchInv
<1>2. PICK t : t = Append(s, error)
  OBVIOUS
<1>3. samples' = [samples EXCEPT ![m] = t] /\ t \in Seq(Errors)
  BY <1>1, <1>2 DEF RecordPrediction
<1>4. samples \in [Watched -> Seq(Errors)] /\ alerted \in [Watched -> SUBSET Nat]
  BY DEF WatchInv
<1>5. samples'[m] = t
  BY <1>3, <1>4
<1>6. alerted' = [alerted EXCEPT ![m] = AlertsOf(s) \cup NewAlerts(t)]
  BY <1>1, <1>5 DEF RecordPrediction, NewAlerts
<1>7. AlertsOf(t) = AlertsOf(s) \cup NewAlerts(t)
  BY <1>2, AlertsAppended
<1>8. AlertsOf(t) \in SUBSET Nat
  BY <1>3, WatchAssumption DEF AlertsOf
<1>9. \A k \in Watched : alerted'[k] = AlertsOf(samples'[k])
  <2> TAKE k \in Watched
  <2>1. CASE k = m
    BY <1>4, <1>5, <1>6, <1>7, <2>1
  <2>2. CASE k # m
    BY <1>3, <1>4, <1>6, <2>2 DEF WatchInv
  <2> QED
    BY <2>1, <2>2
<1>10. samples' \in [Watched -> Seq(Errors)] /\ alerted' \in [Watched -> SUBSET Nat]
  BY <1>3, <1>4, <1>6, <1>7, <1>8
<1>11. score' = score /\ ensemble' = ensemble
  BY DEF RecordPrediction
<1>12. score' \in ScoreType /\ SharesHold(ensemble)'
  BY <1>11 DEF WatchInv, SharesHold, UnknownLast
<1> QED
  BY <1>9, <1>10, <1>12 DEF WatchInv

\* An ensemble composed of any names keeps the invariant.
LEMMA ComposeStep ==
  ASSUME WatchInv, NEW names \in Seq(Models), UNCHANGED <<samples, alerted, score>>,
         ensemble' = [names |-> names, scores |-> score, weights |-> Paired(names)]
  PROVE  WatchInv'
<1>1. SharesHold(ensemble')
  BY WeightsOf DEF WatchInv
<1>2. SharesHold(ensemble)'
  BY <1>1 DEF SharesHold, UnknownLast
<1>3. \A m \in Watched : alerted'[m] = AlertsOf(samples'[m])
  BY DEF WatchInv
<1> QED
  BY <1>2, <1>3 DEF WatchInv

\* So does one composed of the best models.
LEMMA SelectStep ==
  ASSUME WatchInv, NEW n \in {1, 2}, SelectModels(n)
  PROVE  WatchInv'
<1>0. PICK T \in Best(n) : \E names \in [1 .. Cardinality(T) -> T] :
        ensemble' = [names |-> names, scores |-> score, weights |-> Paired(names)]
  BY DEF SelectModels
<1>1. PICK names \in [1 .. Cardinality(T) -> T] :
        ensemble' = [names |-> names, scores |-> score, weights |-> Paired(names)]
  BY <1>0
<1>2. T \in SUBSET Models
  BY DEF Best
<1>3. IsFiniteSet(T)
  BY <1>2, FS_Subset, WatchAssumption
<1>4. PICK k \in Nat : k = Cardinality(T)
  BY <1>3, FS_CardinalityType
<1>5. names \in Seq(Models)
  BY <1>1, <1>2, <1>4
<1>6. UNCHANGED <<samples, alerted, score>>
  BY DEF SelectModels
<1> QED
  BY <1>1, <1>5, <1>6, ComposeStep

\* Every step of detector and selector keeps the invariant.
LEMMA WatchKept == WatchInv /\ [WatchNext]_watchVars => WatchInv'
<1> SUFFICES ASSUME WatchInv, [WatchNext]_watchVars PROVE WatchInv'
  OBVIOUS
<1>1. ASSUME NEW m \in Watched, NEW error \in Errors, RecordPrediction(m, error) PROVE WatchInv'
  BY <1>1, RecordStep
<1>2. ASSUME NEW m \in Models, NEW s \in Scores, RegisterModel(m, s) PROVE WatchInv'
  <2>1. samples' = samples /\ alerted' = alerted /\ ensemble' = ensemble
    BY <1>2 DEF RegisterModel
  <2>2. score' \in ScoreType
    BY <1>2 DEF RegisterModel, WatchInv, ScoreType
  <2>3. SharesHold(ensemble)'
    BY <2>1 DEF WatchInv, SharesHold, UnknownLast
  <2> QED
    BY <2>1, <2>2, <2>3 DEF WatchInv
<1>3. ASSUME NEW names \in Lists, CreateEnsemble(names) PROVE WatchInv'
  <2>1. names \in Seq(Models)
    BY WatchAssumption
  <2> QED
    BY <1>3, <2>1, ComposeStep DEF CreateEnsemble
<1>4. ASSUME NEW n \in {1, 2}, SelectModels(n) PROVE WatchInv'
  BY <1>4, SelectStep
<1>5. CASE UNCHANGED watchVars
  BY <1>5 DEF watchVars, WatchInv, SharesHold, UnknownLast
<1> QED
  BY <1>1, <1>2, <1>3, <1>4, <1>5 DEF WatchNext

\* The invariant contains what the run checks.
LEMMA WatchInvSays == WatchInv => WatchIsSound
<1> SUFFICES ASSUME WatchInv PROVE WatchIsSound
  OBVIOUS
<1>1. WeightsAreShares
  BY DEF WatchInv, SharesHold, WeightsAreShares
<1>2. ASSUME NEW m \in Watched, NEW n \in Recent + 1 .. Len(samples[m])
      PROVE  LET recent == n - Recent + 1 .. n
                 older == 1 .. n - Recent
                 worse(a, b) == samples[m][a] * 10 > 13 * samples[m][b]
             IN /\ n \in alerted[m] => \E a \in recent, b \in older : samples[m][a] > samples[m][b]
                /\ (\A a \in recent, b \in older : worse(a, b)) /\ (\A b \in older : samples[m][b] >= ErrorUnit)
                     => n \in alerted[m]
  <2>1. PICK s \in Seq(Errors) : s = samples[m] /\ alerted[m] = AlertsOf(s)
    BY DEF WatchInv
  <2>2. Recent \in Nat /\ n \in Nat /\ n > Recent /\ n <= Len(s) /\ s \in Seq(Nat)
    <3>1. s \in Seq(Nat)
      <4>1. Errors \subseteq Nat
        BY WatchAssumption
      <4>2. PICK k \in Nat : k = Len(s)
        OBVIOUS
      <4>3. s = [i \in 1 .. k |-> s[i]] /\ \A i \in 1 .. k : s[i] \in Errors
        BY <4>2
      <4>4. \A i \in 1 .. k : s[i] \in Nat
        BY <4>1, <4>3
      <4>5. [i \in 1 .. k |-> s[i]] \in Seq(Nat)
        BY <4>4
      <4> QED
        BY Zenon, <4>3, <4>5
    <3>2. PICK k \in Nat : k = Len(s)
      OBVIOUS
    <3>3. PICK r \in Nat : r = Recent
      BY WatchAssumption
    <3>4. n \in r + 1 .. k
      BY <1>2, <2>1, <3>2, <3>3
    <3> QED
      BY <3>1, <3>2, <3>3, <3>4
  <2>3. PICK t : t = SubSeq(s, 1, n)
    OBVIOUS
  <2>4. t \in Seq(Nat) /\ Len(t) = n /\ \A i \in 1 .. n : t[i] = s[i]
    BY <2>2, <2>3
  <2>5. Comparable(t)
    BY <2>2, <2>4 DEF Comparable
  <2>6. n \in alerted[m] <=> Exceeds(t)
    BY <1>2, <2>1, <2>3 DEF AlertsOf
  <2>7. /\ Exceeds(t) => \E a \in n - Recent + 1 .. n, b \in 1 .. n - Recent : t[a] > t[b]
        /\ (\A a \in n - Recent + 1 .. n, b \in 1 .. n - Recent : t[a] * 10 > 13 * t[b])
             /\ (\A b \in 1 .. n - Recent : t[b] >= ErrorUnit) => Exceeds(t)
    BY <2>4, <2>5, ExceedsMeans
  <2>8. (\A a \in n - Recent + 1 .. n : a \in 1 .. n) /\ \A b \in 1 .. n - Recent : b \in 1 .. n
    BY <2>2
  <2>9. (\A a \in n - Recent + 1 .. n : t[a] = samples[m][a]) /\ \A b \in 1 .. n - Recent : t[b] = samples[m][b]
    BY <2>1, <2>4, <2>8
  <2> QED
    BY <2>6, <2>7, <2>9
<1>3. DegradationIsSeen
  BY <1>2 DEF DegradationIsSeen
<1> QED
  BY <1>1, <1>3 DEF WatchIsSound

\* For any models, errors and scores: an alert means that an error grew, recent errors above all the
\* older ones by a third are alerted if those were a unit or more, and the weights of an ensemble are
\* shares of the scores of its own names when the unregistered ones come last.
THEOREM WatchHolds == WatchSpec => []WatchIsSound
<1>1. WatchInit => WatchInv
  BY WatchInitial
<1>2. WatchInv /\ [WatchNext]_watchVars => WatchInv'
  BY WatchKept
<1>3. WatchInv => WatchIsSound
  BY WatchInvSays
<1> QED
  BY <1>1, <1>2, <1>3, PTL DEF WatchSpec

-----------------------------------------------------------------------------
(* The audit of a tail.                                                     *)

\* What is assumed of the constants of the audit.
LEMMA AuditConstants ==
  /\ \A v \in Confidences : v \in Nat /\ 1 <= v /\ v <= 99
  /\ Prices \subseteq Int /\ MinSample \in Nat \ {0} /\ MaxSample \in Nat /\ Grain \in Nat \ {0}
BY LevelsArePercentages, SamplesAreNumbers

\* Observation j is ranked before i, or is i: equal losses are ranked as they come.
Before(l, j, i) == l[j] < l[i] \/ (l[j] = l[i] /\ j <= i)
\* The observations ranked up to i.
UpToRank(l, i) == {j \in 1 .. Len(l) : Before(l, j, i)}

\* A rank counts them.
LEMMA RankCounts ==
  ASSUME NEW l, NEW i
  PROVE  Rank(l, i) = Cardinality(UpToRank(l, i))
BY Zenon DEF Rank, UpToRank, Before

\* Ranks are places of the sample.
LEMMA RankRange ==
  ASSUME NEW l \in Seq(Int), NEW i \in 1 .. Len(l)
  PROVE  Rank(l, i) \in 1 .. Len(l) /\ IsFiniteSet(UpToRank(l, i))
<1>1. PICK n \in Nat : n = Len(l)
  OBVIOUS
<1>2. IsFiniteSet(1 .. n) /\ Cardinality(1 .. n) = n
  BY FS_Interval
<1> DEFINE B == UpToRank(l, i)
<1>3. B \in SUBSET (1 .. n) /\ i \in B
  BY <1>1 DEF UpToRank, Before
<1> HIDE DEF B
<1>4. IsFiniteSet(B) /\ Cardinality(B) <= Cardinality(1 .. n)
  BY <1>2, <1>3, FS_Subset
<1>5. Cardinality(B) \in Nat /\ (Cardinality(B) = 0 <=> B = {})
  BY <1>4, FS_CardinalityType, FS_EmptySet
<1>6. Cardinality(B) \in 1 .. n
  BY <1>2, <1>3, <1>4, <1>5
<1>7. Rank(l, i) = Cardinality(B)
  BY RankCounts DEF B
<1> QED
  BY <1>1, <1>4, <1>6, <1>7 DEF B

\* Of two observations the one ranked before has the smaller rank.
LEMMA RankGrows ==
  ASSUME NEW l \in Seq(Int), NEW i \in 1 .. Len(l), NEW k \in 1 .. Len(l), i # k, Before(l, i, k)
  PROVE  Rank(l, i) < Rank(l, k)
<1> DEFINE B == UpToRank(l, i)
           C == UpToRank(l, k)
<1>1. \A j \in 1 .. Len(l) : l[j] \in Int /\ j \in Int
  OBVIOUS
<1>2. \A j \in 1 .. Len(l) : Before(l, j, i) => Before(l, j, k)
  BY <1>1 DEF Before
<1>3. ~Before(l, k, i) /\ Before(l, k, k)
  BY <1>1 DEF Before
<1>4. B \in SUBSET C /\ k \in C /\ k \notin B
  BY <1>2, <1>3 DEF UpToRank
<1>5. IsFiniteSet(C) /\ Rank(l, k) = Cardinality(C) /\ Rank(l, i) = Cardinality(B)
  BY RankRange, RankCounts
<1>6. Rank(l, i) \in 1 .. Len(l) /\ Rank(l, k) \in 1 .. Len(l)
  BY RankRange
<1> HIDE DEF B, C
<1>7. Cardinality(B) <= Cardinality(C) /\ (Cardinality(C) = Cardinality(B) => C = B)
  BY <1>4, <1>5, FS_Subset
<1>8. Cardinality(C) # Cardinality(B)
  BY <1>4, <1>7
<1> QED
  BY <1>5, <1>6, <1>7, <1>8

\* Every place is taken: distinct observations have distinct ranks, and there are as many
\* ranks as observations.
LEMMA EveryRank ==
  ASSUME NEW l \in Seq(Int), NEW k \in 1 .. Len(l)
  PROVE  \E i \in 1 .. Len(l) : Rank(l, i) = k
<1> DEFINE N == 1 .. Len(l)
           f == [i \in N |-> Rank(l, i)]
<1>1. IsFiniteSet(N)
  <2>1. PICK n \in Nat : n = Len(l)
    OBVIOUS
  <2> QED
    BY <2>1, FS_Interval
<1>2. f \in [N -> N]
  BY RankRange
<1>3. \A i, j \in N : i # j => Rank(l, i) # Rank(l, j)
  <2> TAKE i, j \in N
  <2> HAVE i # j
  <2>1. Rank(l, i) \in N /\ Rank(l, j) \in N
    BY RankRange
  <2>2. l[i] \in Int /\ l[j] \in Int /\ i \in Int /\ j \in Int
    OBVIOUS
  <2>3. Before(l, i, j) \/ Before(l, j, i)
    BY <2>2 DEF Before
  <2>4. Rank(l, i) < Rank(l, j) \/ Rank(l, j) < Rank(l, i)
    BY <2>3, RankGrows
  <2> QED
    BY <2>1, <2>4
<1>4. \A i, j \in N : f[i] = f[j] => i = j
  BY <1>3
<1> HIDE DEF f, N
<1>5. f \in Injection(N, N)
  BY <1>2, <1>4 DEF Injection, IsInjective
<1>6. f \in Surjection(N, N)
  BY <1>1, <1>5, FS_Injection
<1>7. \E i \in N : f[i] = k
  BY <1>6 DEF Surjection, N
<1> QED
  BY <1>7 DEF f, N

\* So the choice in Sorted finds the observation of each rank.
LEMMA SortedOf ==
  ASSUME NEW l \in Seq(Int), NEW k \in 1 .. Len(l)
  PROVE  \E i \in 1 .. Len(l) : Rank(l, i) = k /\ Sorted(l)[k] = l[i]
<1> DEFINE i == CHOOSE i \in 1 .. Len(l) : Rank(l, i) = k
<1>1. i \in 1 .. Len(l) /\ Rank(l, i) = k
  BY EveryRank
<1>2. Sorted(l)[k] = l[i]
  BY DEF Sorted
<1> QED
  BY <1>1, <1>2

\* Sorted ascends.
LEMMA SortedAscends ==
  ASSUME NEW l \in Seq(Int), NEW k \in 1 .. Len(l), NEW m \in 1 .. Len(l), k <= m
  PROVE  Sorted(l)[k] \in Int /\ Sorted(l)[m] \in Int /\ Sorted(l)[k] <= Sorted(l)[m]
<1>1. PICK i \in 1 .. Len(l) : Rank(l, i) = k /\ Sorted(l)[k] = l[i]
  BY SortedOf
<1>2. PICK j \in 1 .. Len(l) : Rank(l, j) = m /\ Sorted(l)[m] = l[j]
  BY SortedOf
<1>3. l[i] \in Int /\ l[j] \in Int
  OBVIOUS
<1>4. ASSUME l[j] < l[i] PROVE FALSE
  <2>1. Before(l, j, i) /\ i # j
    BY <1>3, <1>4 DEF Before
  <2>2. Rank(l, j) < Rank(l, i)
    BY <2>1, RankGrows
  <2> QED
    BY <1>1, <1>2, <2>2
<1> QED
  BY <1>1, <1>2, <1>3, <1>4

\* Above the k-th of the sorted sample lie no more observations than places behind k.
LEMMA FewLieAbove ==
  ASSUME NEW l \in Seq(Int), NEW k \in 1 .. Len(l),
         NEW A \in SUBSET (1 .. Len(l)), \A i \in A : l[i] > Sorted(l)[k]
  PROVE  IsFiniteSet(A) /\ Cardinality(A) \in Nat /\ Cardinality(A) <= Len(l) - k
<1>1. PICK i \in 1 .. Len(l) : Rank(l, i) = k /\ Sorted(l)[k] = l[i]
  BY SortedOf
<1>2. PICK n \in Nat : n = Len(l)
  OBVIOUS
<1> DEFINE B == UpToRank(l, i)
<1>3. IsFiniteSet(B) /\ Cardinality(B) = k
  BY <1>1, RankRange, RankCounts
<1>4. B \in SUBSET (1 .. n) /\ A \in SUBSET (1 .. n)
  BY <1>2 DEF UpToRank
<1>5. A \cap B = {}
  <2>1. \A j \in B : ~(l[j] > l[i])
    BY DEF UpToRank, Before
  <2> QED
    BY <1>1, <2>1
<1> HIDE DEF B
<1>6. IsFiniteSet(1 .. n) /\ Cardinality(1 .. n) = n
  BY FS_Interval
<1>7. IsFiniteSet(A) /\ Cardinality(A) \in Nat
  BY <1>4, <1>6, FS_Subset, FS_CardinalityType
<1>8. IsFiniteSet(A \cup B) /\ Cardinality(A \cup B) = Cardinality(A) + Cardinality(B) - Cardinality(A \cap B)
  BY <1>3, <1>7, FS_Union
<1>9. Cardinality(A \cup B) <= Cardinality(1 .. n)
  BY <1>4, <1>6, FS_Subset
<1>10. Cardinality(A \cap B) = 0
  BY <1>5, FS_EmptySet
<1> QED
  BY <1>2, <1>3, <1>6, <1>7, <1>8, <1>9, <1>10

\* The audit and the ensembles sum up alike.
LEMMA SameSum == \A s : SumUp(s) = SumOf(s)
BY Zenon DEF SumUp, SumOf

\* Division by a hundred, with its rest.
LEMMA Hundreds ==
  ASSUME NEW r \in Nat
  PROVE  r \div 100 \in Nat /\ r % 100 \in 0 .. 99 /\ r = 100 * (r \div 100) + (r % 100)
OBVIOUS

\* Of numbers: the place of the percentile, and the place it is interpolated with.
LEMMA PlaceOf ==
  ASSUME NEW n \in Nat \ {0}, NEW v \in Nat, 1 <= v, v <= 99
  PROVE  LET rank == v * (n - 1)
             low == rank \div 100
             part == rank % 100
             up == IF low + 2 > n THEN low + 1 ELSE low + 2
         IN  /\ low \in Nat /\ part \in 0 .. 99 /\ rank = 100 * low + part
             /\ low + 1 \in 1 .. n /\ up \in low + 1 .. n
<1> DEFINE rank == v * (n - 1)
<1>1. rank \in Nat /\ rank <= 99 * (n - 1)
  OBVIOUS
<1> HIDE DEF rank
<1>2. /\ rank \div 100 \in Nat /\ rank % 100 \in 0 .. 99
      /\ rank = 100 * (rank \div 100) + (rank % 100)
  BY <1>1, Hundreds
<1>3. PICK low \in Nat, part \in 0 .. 99 : low = rank \div 100 /\ part = rank % 100
  BY <1>2
<1>4. low + 1 <= n
  BY <1>1, <1>2, <1>3
<1> QED
  BY <1>2, <1>3, <1>4 DEF rank

\* Of numbers: a value interpolated between two lies between them.
LEMMA Between ==
  ASSUME NEW p \in 0 .. 99, NEW s \in Int, NEW t \in Int, s <= t
  PROVE  LET x == (100 - p) * s + p * t IN x \in Int /\ 100 * s <= x /\ x <= 100 * t
<1>1. PICK q \in 1 .. 100 : q = 100 - p
  OBVIOUS
<1>2. PICK d \in Nat : t = s + d
  <2>1. t - s \in Nat /\ t = s + (t - s)
    OBVIOUS
  <2> QED
    BY <2>1
<1>3. (100 - p) * s + p * t = 100 * s + p * d
  BY <1>2
<1>4. p * d >= 0 /\ p * d <= 100 * d
  OBVIOUS
<1> QED
  BY <1>2, <1>3, <1>4

\* Value at Risk lies between an observation whose place is beyond the level and the greatest.
LEMMA ValueAtRisk ==
  ASSUME NEW l \in Seq(Int), Len(l) > 0, NEW v \in Confidences
  PROVE  \E k \in 1 .. Len(l) :
           /\ VarHundredths(l, v) \in Int
           /\ 100 * Sorted(l)[k] <= VarHundredths(l, v)
           /\ VarHundredths(l, v) <= 100 * Sorted(l)[Len(l)]
           /\ v * (Len(l) - 1) < 100 * k
<1>1. PICK n \in Nat \ {0} : n = Len(l)
  OBVIOUS
<1>2. v \in Nat /\ 1 <= v /\ v <= 99
  BY AuditConstants
<1> DEFINE rank == v * (n - 1)
           low == rank \div 100
           part == rank % 100
           up == IF low + 2 > n THEN low + 1 ELSE low + 2
<1>3. /\ low \in Nat /\ part \in 0 .. 99 /\ rank = 100 * low + part
      /\ low + 1 \in 1 .. n /\ up \in low + 1 .. n
  BY <1>2, PlaceOf
<1>4. VarHundredths(l, v) = (100 - part) * Sorted(l)[low + 1] + part * Sorted(l)[up]
  BY <1>1 DEF VarHundredths
<1> HIDE DEF low, part, up
<1>5. PICK s \in Int, t \in Int, top \in Int :
         /\ s = Sorted(l)[low + 1] /\ t = Sorted(l)[up] /\ top = Sorted(l)[n] /\ s <= t /\ t <= top
  <2>1. Sorted(l)[low + 1] \in Int /\ Sorted(l)[up] \in Int /\ Sorted(l)[low + 1] <= Sorted(l)[up]
    BY <1>1, <1>3, SortedAscends
  <2>2. Sorted(l)[n] \in Int /\ Sorted(l)[up] <= Sorted(l)[n]
    BY <1>1, <1>3, SortedAscends
  <2> QED
    BY <2>1, <2>2
<1>6. LET x == (100 - part) * s + part * t IN x \in Int /\ 100 * s <= x /\ x <= 100 * t
  BY <1>3, <1>5, Between
<1>7. 100 * t <= 100 * top
  BY <1>5
<1>8. rank < 100 * (low + 1) /\ rank = v * (n - 1)
  BY <1>3
<1>9. PICK x \in Int : x = VarHundredths(l, v) /\ 100 * s <= x /\ x <= 100 * t
  BY <1>4, <1>5, <1>6
<1>10. PICK k \in 1 .. n : k = low + 1
  BY <1>3
<1>11. /\ 100 * Sorted(l)[k] <= x /\ x <= 100 * Sorted(l)[n] /\ v * (n - 1) < 100 * k
  <2>1. s = Sorted(l)[k]
    BY Zenon, <1>5, <1>10
  <2>2. x <= 100 * top
    BY <1>5, <1>7, <1>9
  <2>3. v * (n - 1) < 100 * k
    BY <1>8, <1>10
  <2> QED
    BY <1>5, <1>9, <2>1, <2>2, <2>3
<1> QED
  BY <1>1, <1>9, <1>10, <1>11

\* The sample with 0 for what is outside E: what the shortfall sums up.
Shares(l, E) == [i \in 1 .. Len(l) |-> IF i \in E THEN l[i] ELSE 0]

\* The members of E among the first k observations.
FirstIn(E, k) == {i \in E : i <= k}

\* None is among the first 0.
LEMMA NoneFirst ==
  ASSUME NEW E, \A i \in E : i \in Nat /\ 1 <= i
  PROVE  FirstIn(E, 0) = {}
<1>1. \A i \in E : ~(i <= 0)
  OBVIOUS
<1> QED
  BY Zenon, <1>1 DEF FirstIn

\* One more observation adds itself, or nothing.
LEMMA OneMoreFirst ==
  ASSUME NEW E, \A i \in E : i \in Nat /\ 1 <= i, NEW k \in Nat, k > 0
  PROVE  /\ k \in E => FirstIn(E, k) = FirstIn(E, k - 1) \cup {k}
         /\ k \notin E => FirstIn(E, k) = FirstIn(E, k - 1)
         /\ k \notin FirstIn(E, k - 1)
<1>1. \A i \in E : i <= k <=> i <= k - 1 \/ i = k
  OBVIOUS
<1>2. ~(k <= k - 1)
  OBVIOUS
<1>3. k <= k
  OBVIOUS
<1>4. k \in E => FirstIn(E, k) = FirstIn(E, k - 1) \cup {k}
  BY Zenon, <1>1, <1>3 DEF FirstIn
<1>5. k \notin E => FirstIn(E, k) = FirstIn(E, k - 1)
  BY Zenon, <1>1 DEF FirstIn
<1> QED
  BY <1>2, <1>4, <1>5 DEF FirstIn

\* A sum of losses that each reach x is at least x for each of them: by induction over the
\* observations.
LEMMA SharesSumUp ==
  ASSUME NEW l \in Seq(Int), NEW E \in SUBSET (1 .. Len(l)), NEW x \in Int,
         \A i \in E : 100 * l[i] >= x
  PROVE  /\ IsFiniteSet(E) /\ Cardinality(E) \in Nat /\ SumUp(Shares(l, E)) \in Int
         /\ 100 * SumUp(Shares(l, E)) >= x * Cardinality(E)
<1>1. PICK n \in Nat : n = Len(l)
  OBVIOUS
<1>2. PICK s \in Seq(Int) : s = Shares(l, E) /\ Len(s) = n
  <2>1. \A i \in 1 .. n : (IF i \in E THEN l[i] ELSE 0) \in Int
    BY <1>1
  <2>2. PICK t : t = [i \in 1 .. n |-> IF i \in E THEN l[i] ELSE 0]
    OBVIOUS
  <2>3. t \in Seq(Int) /\ Len(t) = n
    BY <2>1, <2>2
  <2> QED
    BY <1>1, <2>2, <2>3 DEF Shares
<1>3. PICK f : SumsUp(f, s, Len(s)) /\ SumOf(s) = f[Len(s)]
  BY SumOfSums
<1>4. f \in [0 .. n -> Int] /\ f[0] = 0 /\ \A i \in 1 .. n : f[i] = f[i - 1] + s[i]
  BY <1>2, <1>3 DEF SumsUp
<1>5. \A i \in 1 .. n : s[i] = IF i \in E THEN l[i] ELSE 0
  BY <1>1, <1>2 DEF Shares
<1>14. \A i \in E : i \in Nat /\ 1 <= i /\ i <= n
  BY <1>1
<1>6. IsFiniteSet(1 .. n)
  BY FS_Interval
<1>7. \A k \in 0 .. n : IsFiniteSet(FirstIn(E, k)) /\ Cardinality(FirstIn(E, k)) \in Nat
  <2> TAKE k \in 0 .. n
  <2>1. FirstIn(E, k) \in SUBSET (1 .. n)
    BY <1>1 DEF FirstIn
  <2> QED
    BY <1>6, <2>1, FS_Subset, FS_CardinalityType
<1> DEFINE T == {k \in 0 .. n : 100 * f[k] >= x * Cardinality(FirstIn(E, k))}
<1>8. 0 \in T
  <2>1. FirstIn(E, 0) = {}
    BY <1>14, NoneFirst
  <2>2. Cardinality(FirstIn(E, 0)) = 0
    BY <2>1, FS_EmptySet
  <2> QED
    BY <1>4, <2>2
<1>9. \A k \in 1 .. n : k - 1 \in T => k \in T
  <2> SUFFICES ASSUME NEW k \in 1 .. n, k - 1 \in T PROVE k \in T
    OBVIOUS
  <2>1. k - 1 \in 0 .. n /\ k \in 0 .. n /\ 100 * f[k - 1] >= x * Cardinality(FirstIn(E, k - 1))
    OBVIOUS
  <2>0. k \in Nat /\ k > 0
    OBVIOUS
  <2>5. /\ k \in E => FirstIn(E, k) = FirstIn(E, k - 1) \cup {k}
        /\ k \notin E => FirstIn(E, k) = FirstIn(E, k - 1)
        /\ k \notin FirstIn(E, k - 1)
    BY ONLY <1>14, <2>0, OneMoreFirst
  <2>2. PICK a \in Int, c \in Nat : a = f[k - 1] /\ c = Cardinality(FirstIn(E, k - 1))
    BY <1>4, <1>7, <2>1
  <2>3. CASE k \in E
    <3>1. FirstIn(E, k) = FirstIn(E, k - 1) \cup {k} /\ k \notin FirstIn(E, k - 1)
      BY <2>3, <2>5
    <3>2. IsFiniteSet(FirstIn(E, k - 1))
      BY <1>7, <2>1
    <3>3. Cardinality(FirstIn(E, k)) = c + 1
      BY <2>2, <3>1, <3>2, FS_AddElement
    <3>4. PICK b \in Int : b = l[k] /\ f[k] = a + b /\ 100 * b >= x
      BY <1>1, <1>4, <1>5, <2>2, <2>3
    <3>5. 100 * (a + b) >= x * (c + 1)
      <4>1. 100 * a >= x * c /\ x * (c + 1) = x * c + x
        BY <2>1, <2>2
      <4>2. PICK y \in Int : y = x * c
        OBVIOUS
      <4> QED
        BY <3>4, <4>1, <4>2
    <3> QED
      BY <2>1, <3>3, <3>4, <3>5
  <2>4. CASE k \notin E
    <3>1. FirstIn(E, k) = FirstIn(E, k - 1)
      BY <2>4, <2>5
    <3>2. f[k] = a
      BY <1>4, <1>5, <2>2, <2>4
    <3> QED
      BY <2>1, <2>2, <3>1, <3>2
  <2> QED
    BY <2>3, <2>4
<1> HIDE DEF T
<1>10. n \in T
  <2>1. \A k \in 0 .. n : k \in T
    BY <1>8, <1>9, UpTo
  <2> QED
    BY <2>1
<1>11. FirstIn(E, n) = E
  BY Zenon, <1>14 DEF FirstIn
<1>12. 100 * f[n] >= x * Cardinality(E)
  BY <1>10, <1>11 DEF T
<1>15. IsFiniteSet(E) /\ Cardinality(E) \in Nat
  BY <1>7, <1>11
<1>13. SumUp(s) = f[n]
  BY <1>2, <1>3, SameSum
<1> QED
  BY <1>2, <1>4, <1>12, <1>13, <1>15

\* Rounding moves Value at Risk up by half a Grain at most.
LEMMA RoundedIsNear ==
  ASSUME NEW x \in Int
  PROVE  Rounded(x) \in Int /\ 2 * Rounded(x) - Grain <= 2 * x
<1>1. PICK g \in Nat \ {0} : g = Grain
  BY AuditConstants
<1>2. PICK down \in Int, rest \in Int : /\ down = x \div g /\ rest = x % g
                                        /\ 0 <= rest /\ rest < g /\ x = g * down + rest
  OBVIOUS
<1>3. \/ Rounded(x) = g * down
      \/ Rounded(x) = g * (down + 1) /\ 2 * rest >= g
  BY <1>1, <1>2 DEF Rounded
<1>4. g * (down + 1) = g * down + g
  OBVIOUS
<1>5. PICK y \in Int : y = g * down
  OBVIOUS
<1> QED
  BY <1>1, <1>2, <1>3, <1>4, <1>5

\* What the report promises of the tail of a sample of n observations at level v.
TailOf(of, n, v) ==
  /\ of.exceedances > 0 /\ of.breaches <= of.exceedances
  /\ 2 * 100 * of.shortfall >= (2 * of.var - Grain) * of.exceedances
  /\ 100 * (of.breaches - 1) < (100 - v) * (n - 1)

\* The metrics keep the promise for every sample that is not empty.
LEMMA MetricsHold ==
  ASSUME NEW l \in Seq(Int), Len(l) > 0, NEW v \in Confidences
  PROVE  TailOf(Metrics(l, v), Len(l), v)
<1>1. PICK n \in Nat \ {0} : n = Len(l)
  OBVIOUS
<1>2. PICK k \in 1 .. n : /\ VarHundredths(l, v) \in Int
                          /\ 100 * Sorted(l)[k] <= VarHundredths(l, v)
                          /\ VarHundredths(l, v) <= 100 * Sorted(l)[n]
                          /\ v * (n - 1) < 100 * k
  BY <1>1, ValueAtRisk
<1>3. PICK x \in Int : x = VarHundredths(l, v)
  BY <1>2
<1> DEFINE E == Exceedances(l, v)
           B == Breaches(l, v)
<1>4. /\ E \in SUBSET (1 .. n) /\ B \in SUBSET (1 .. n) /\ B \subseteq E
      /\ (\A i \in E : 100 * l[i] >= x) /\ \A i \in B : 100 * l[i] > x
  <2>1. \A i \in 1 .. n : l[i] \in Int
    BY <1>1
  <2> QED
    BY <1>1, <1>3, <2>1 DEF Exceedances, Breaches
<1>5. E # {}
  <2>1. PICK i \in 1 .. n : Sorted(l)[n] = l[i]
    <3>1. n \in 1 .. Len(l)
      BY <1>1
    <3>2. \E i \in 1 .. Len(l) : Rank(l, i) = n /\ Sorted(l)[n] = l[i]
      BY <3>1, SortedOf
    <3> QED
      BY <1>1, <3>2
  <2>2. PICK s \in Int : s = l[i] /\ s = Sorted(l)[n]
    BY <1>1, <2>1
  <2>3. x <= 100 * s
    BY <1>2, <1>3, <2>2
  <2>4. 100 * l[i] >= x
    BY <1>3, <2>2, <2>3
  <2> QED
    BY <1>1, <1>3, <2>1, <2>4 DEF Exceedances
<1>6. \A i \in B : l[i] > Sorted(l)[k]
  <2> TAKE i \in B
  <2>1. l[i] \in Int /\ Sorted(l)[k] \in Int
    BY <1>1, <1>4, SortedAscends
  <2> QED
    BY <1>2, <1>3, <1>4, <2>1
<1> HIDE DEF E, B
<1>7. Cardinality(B) \in Nat /\ Cardinality(B) <= n - k
  BY <1>1, <1>4, <1>6, FewLieAbove
<1>8. /\ IsFiniteSet(E) /\ Cardinality(E) \in Nat /\ SumUp(Shares(l, E)) \in Int
      /\ 100 * SumUp(Shares(l, E)) >= x * Cardinality(E)
  BY <1>1, <1>4, SharesSumUp
<1>9. Cardinality(E) > 0
  BY <1>5, <1>8, FS_EmptySet
<1>10. Cardinality(B) <= Cardinality(E)
  BY <1>4, <1>8, FS_Subset
<1>11. Rounded(x) \in Int /\ 2 * Rounded(x) - Grain <= 2 * x
  BY RoundedIsNear
<1>12. PICK e \in Nat, b \in Nat, sum \in Int, r \in Int :
         /\ e = Cardinality(E) /\ b = Cardinality(B) /\ sum = SumUp(Shares(l, E)) /\ r = Rounded(x)
  BY <1>7, <1>8, <1>11
<1> DEFINE of == Metrics(l, v)
<1>13. of.var = r /\ of.breaches = b /\ of.exceedances = e /\ of.shortfall = sum
  BY <1>3, <1>12 DEF Metrics, E, B, ShortfallSum, Shares
<1> HIDE DEF of
<1>14. 2 * 100 * sum >= (2 * r - Grain) * e
  <2>1. PICK g \in Nat : g = Grain
    BY AuditConstants
  <2>2. PICK y \in Int, z \in Nat : y = 2 * r - g /\ 2 * x = y + z
    <3>0. 2 * r - g <= 2 * x
      BY <1>11, <1>12, <2>1
    <3>1. 2 * x - (2 * r - g) \in Nat /\ 2 * x = (2 * r - g) + (2 * x - (2 * r - g))
      BY <3>0
    <3>2. 2 * r - g \in Int
      OBVIOUS
    <3> QED
      BY <3>1, <3>2
  <2>3. (2 * x) * e = y * e + z * e /\ z * e >= 0 /\ (2 * x) * e = 2 * (x * e)
    BY <2>2
  <2>4. 100 * sum >= x * e
    BY <1>8, <1>12
  <2>5. PICK ye \in Int, xe \in Int, ze \in Nat : ye = y * e /\ xe = x * e /\ ze = z * e
    BY <2>3
  <2>6. 2 * xe = ye + ze /\ 100 * sum >= xe
    BY <2>3, <2>4, <2>5
  <2>7. 2 * 100 * sum >= ye
    BY <2>6
  <2> QED
    BY <2>1, <2>2, <2>5, <2>7
<1>15. 100 * (b - 1) < (100 - v) * (n - 1)
  <2>1. v \in Nat
    BY AuditConstants
  <2>2. (100 - v) * (n - 1) = 100 * n - 100 - v * (n - 1)
    BY <2>1
  <2>3. PICK y \in Int : y = v * (n - 1)
    BY <2>1
  <2>4. y < 100 * k
    BY <1>2, <2>3
  <2>5. b <= n - k
    BY <1>7, <1>12
  <2> QED
    BY <2>2, <2>3, <2>4, <2>5
<1> QED
  BY <1>1, <1>9, <1>10, <1>12, <1>13, <1>14, <1>15 DEF TailOf, of

-----------------------------------------------------------------------------
\* The inductive invariant of the audit.
AuditInv ==
  /\ prices \in Seq(Int)
  /\ audit # NoAudit => \A v \in Confidences : TailOf(audit.metrics[v], Len(audit.losses), v)

\* The losses are as many as the returns.
LEMMA LossesOf ==
  ASSUME NEW s \in Seq(Int)
  PROVE  Losses(s) \in Seq(Int) /\ Len(Losses(s)) = Len(s)
<1>1. PICK n \in Nat : n = Len(s) /\ \A i \in 1 .. n : -s[i] \in Int
  OBVIOUS
<1>2. PICK t : t = [i \in 1 .. n |-> -s[i]]
  OBVIOUS
<1>3. t \in Seq(Int) /\ Len(t) = n
  BY <1>1, <1>2
<1> QED
  BY <1>1, <1>2, <1>3 DEF Losses

\* There is one return less than prices.
LEMMA ReturnsOf ==
  ASSUME NEW s \in Seq(Int), Len(s) > 0
  PROVE  Returns(s) \in Seq(Int) /\ Len(Returns(s)) = Len(s) - 1
<1>1. PICK n \in Nat : n = Len(s) - 1
  OBVIOUS
<1>2. \A i \in 1 .. n : s[i + 1] - s[i] \in Int
  BY <1>1
<1>3. PICK t : t = [i \in 1 .. n |-> s[i + 1] - s[i]]
  OBVIOUS
<1>4. t \in Seq(Int) /\ Len(t) = n
  BY <1>2, <1>3
<1> QED
  BY <1>1, <1>3, <1>4 DEF Returns

\* The prices served are prices, whatever their order.
LEMMA ServedPrices ==
  ASSUME prices \in Seq(Int)
  PROVE  Served \in Seq(Int) /\ Len(Served) = Len(prices)
<1>1. PICK n \in Nat : n = Len(prices)
  OBVIOUS
<1>2. \A i \in 1 .. n : prices[n + 1 - i] \in Int
  BY <1>1
<1>3. PICK t : t = [i \in 1 .. n |-> prices[n + 1 - i]]
  OBVIOUS
<1>4. t \in Seq(Int) /\ Len(t) = n
  BY <1>2, <1>3
<1> QED
  BY <1>1, <1>3, <1>4 DEF Served, Reversed

\* A report about a sample that is not empty keeps the invariant.
LEMMA ReportHolds ==
  ASSUME NEW l \in Seq(Int), Len(l) > 0, UNCHANGED prices, AuditInv,
         audit' = [losses |-> l, metrics |-> [v \in Confidences |-> Metrics(l, v)]]
  PROVE  AuditInv'
<1>1. audit'.losses = l /\ \A v \in Confidences : audit'.metrics[v] = Metrics(l, v)
  OBVIOUS
<1>2. \A v \in Confidences : TailOf(Metrics(l, v), Len(l), v)
  BY MetricsHold
<1>3. \A v \in Confidences : TailOf(audit.metrics[v], Len(audit.losses), v)'
  BY <1>1, <1>2 DEF TailOf
<1> QED
  BY <1>3 DEF AuditInv

\* Every step keeps the invariant: a source passed over, an audit, an audit of generated returns.
LEMMA AuditKept == AuditInv /\ [AuditNext]_auditVars => AuditInv'
<1> SUFFICES ASSUME AuditInv, [AuditNext]_auditVars PROVE AuditInv'
  OBVIOUS
<1>1. CASE NextSource
  BY <1>1 DEF NextSource, AuditInv, TailOf
<1>2. CASE AuditSeries
  <2>1. /\ Usable /\ UNCHANGED prices
        /\ audit' = [losses |-> Losses(Returns(Served)),
                     metrics |-> [v \in Confidences |-> Metrics(Losses(Returns(Served)), v)]]
    BY <1>2 DEF AuditSeries
  <2>2. Len(prices) >= MinSample /\ Len(Returns(Served)) >= MinSample
    BY <2>1 DEF Usable
  <2>3. prices \in Seq(Int)
    BY DEF AuditInv
  <2>4. Served \in Seq(Int) /\ Len(Served) > 0
    BY <2>2, <2>3, ServedPrices, AuditConstants
  <2>5. Returns(Served) \in Seq(Int)
    BY <2>4, ReturnsOf
  <2>6. Losses(Returns(Served)) \in Seq(Int) /\ Len(Losses(Returns(Served))) > 0
    BY <2>2, <2>5, LossesOf, AuditConstants
  <2> QED
    BY <2>1, <2>6, ReportHolds
<1>3. CASE AuditGenerated
  <2>1. PICK returns \in [1 .. MinSample -> {-1, 1}] :
          audit' = [losses |-> Losses(returns), metrics |-> [v \in Confidences |-> Metrics(Losses(returns), v)]]
    BY <1>3 DEF AuditGenerated
  <2>2. UNCHANGED prices
    BY <1>3 DEF AuditGenerated
  <2>3. returns \in Seq(Int) /\ Len(returns) > 0
    <3>1. PICK n \in Nat \ {0} : n = MinSample
      BY AuditConstants
    <3>2. returns \in [1 .. n -> Int]
      BY <3>1
    <3> QED
      BY <3>1, <3>2
  <2>4. Losses(returns) \in Seq(Int) /\ Len(Losses(returns)) > 0
    BY <2>3, LossesOf
  <2> QED
    BY <2>1, <2>2, <2>4, ReportHolds
<1>4. CASE UNCHANGED auditVars
  BY <1>4 DEF auditVars, AuditInv, TailOf
<1> QED
  BY <1>1, <1>2, <1>3, <1>4 DEF AuditNext

\* Before the audit there is no report.
LEMMA AuditInitial == AuditInit => AuditInv
<1> SUFFICES ASSUME AuditInit PROVE AuditInv
  OBVIOUS
<1>1. PICK n \in 0 .. MaxSample : prices \in [1 .. n -> Prices]
  BY DEF AuditInit
<1>2. n \in Nat
  BY AuditConstants
<1>3. prices \in [1 .. n -> Int]
  BY <1>1, AuditConstants
<1>4. prices \in Seq(Int)
  BY <1>2, <1>3
<1> QED
  BY <1>4 DEF AuditInit, AuditInv

\* The invariant implies what the run checks.
LEMMA AuditInvSays == AuditInv => TailIsConsistent
BY DEF AuditInv, TailOf, TailIsConsistent

\* For every price series, source, set of levels and rounding: the report's tail is consistent.
\* Some observation reaches Value at Risk, the breaches are among those that do, the shortfall is
\* not below the rounded Value at Risk by more than half a Grain, and no larger share of the
\* sample than the level leaves over lies beyond it (calculate_var_cvar).
THEOREM TailHolds == AuditSpec => []TailIsConsistent
BY AuditInitial, AuditKept, AuditInvSays, PTL DEF AuditSpec

-----------------------------------------------------------------------------
(* Scenarios on the causal graph: listings.                                 *)

\* How many nodes are listed.
NodeCount == Len(NodeOrder)

\* What is assumed of the listing.
LEMMA GraphConstants ==
  /\ NodeOrder \in Seq(Nodes) /\ NodeCount \in Nat
  /\ \A i \in 1 .. NodeCount : NodeOrder[i] \in Nodes
  /\ \A n \in Nodes : \E i \in 1 .. NodeCount : n = NodeOrder[i]
  /\ \A i, k \in 1 .. NodeCount : NodeOrder[i] = NodeOrder[k] => i = k
<1>1. /\ NodeOrder \in Seq(Nodes)
      /\ \A i, k \in DOMAIN NodeOrder : NodeOrder[i] = NodeOrder[k] => i = k
  BY NodesAreListedOnce
<1>2. PICK n \in Nat : n = Len(NodeOrder) /\ DOMAIN NodeOrder = 1 .. n
  BY <1>1
<1>3. \A m \in Nodes : \E i \in DOMAIN NodeOrder : m = NodeOrder[i]
  BY Zenon DEF Nodes
<1>4. \A i \in 1 .. n : NodeOrder[i] \in Nodes
  BY <1>1, <1>2
<1> QED
  BY <1>1, <1>2, <1>3, <1>4 DEF NodeCount

\* No node is listed twice.
Once(q) == \A i, k \in 1 .. Len(q) : q[i] = q[k] => i = k

\* q lists S.
Listed(q, S) ==
  /\ q \in Seq(Nodes) /\ Once(q)
  /\ \A n \in Nodes : n \in S <=> \E i \in 1 .. Len(q) : n = q[i]

\* The nodes of S among the first k.
FirstOf(S, k) == {n \in S : \E j \in 1 .. k : n = NodeOrder[j]}

\* f is what AsListed computes by, up to place n.
IsListing(f, S, n) ==
  f = [i \in 0 .. n |-> IF i = 0 THEN << >>
                        ELSE IF NodeOrder[i] \in S THEN Append(f[i - 1], NodeOrder[i]) ELSE f[i - 1]]

\* There is such a function.
LEMMA ListingExists ==
  ASSUME NEW S, NEW n \in Nat
  PROVE  \E f : IsListing(f, S, n)
<1> DEFINE T == {k \in 0 .. n : \E f : IsListing(f, S, k)}
<1>1. 0 \in T
  <2> DEFINE f == [i \in 0 .. 0 |-> << >>]
  <2>1. \A i \in 0 .. 0 : i = 0
    OBVIOUS
  <2>2. f = [i \in 0 .. 0 |-> IF i = 0 THEN << >>
                        ELSE IF NodeOrder[i] \in S THEN Append(f[i - 1], NodeOrder[i]) ELSE f[i - 1]]
    BY <2>1
  <2>3. IsListing(f, S, 0)
    BY <2>2 DEF IsListing
  <2>4. \E g : IsListing(g, S, 0)
    BY <2>3
  <2> QED
    BY <2>4
<1>2. ASSUME NEW k \in 1 .. n, k - 1 \in T PROVE k \in T
  <2>1. k \in 0 .. n /\ k \in Nat /\ \A i \in 0 .. k : i = k \/ i \in 0 .. k - 1
    OBVIOUS
  <2>2. PICK f : IsListing(f, S, k - 1)
    BY <1>2
  <2>3. \A i \in 0 .. k - 1 : f[i] = IF i = 0 THEN << >>
                        ELSE IF NodeOrder[i] \in S THEN Append(f[i - 1], NodeOrder[i]) ELSE f[i - 1]
    BY <2>2 DEF IsListing
  <2>4. PICK new : new = IF NodeOrder[k] \in S THEN Append(f[k - 1], NodeOrder[k]) ELSE f[k - 1]
    OBVIOUS
  <2> DEFINE g == [i \in 0 .. k |-> IF i = k THEN new ELSE f[i]]
  <2>5. \A i \in 0 .. k : i # 0 => g[i - 1] = f[i - 1]
    OBVIOUS
  <2>6. \A i \in 0 .. k : g[i] = IF i = 0 THEN << >>
                        ELSE IF NodeOrder[i] \in S THEN Append(g[i - 1], NodeOrder[i]) ELSE g[i - 1]
    <3> TAKE i \in 0 .. k
    <3>1. CASE i = k
      <4>1. i # 0 /\ g[i] = new
        BY <3>1
      <4> HIDE DEF g
      <4> QED
        BY <2>4, <2>5, <3>1, <4>1
    <3>2. CASE i # k
      <4>1. i \in 0 .. k - 1 /\ g[i] = f[i]
        BY <2>1, <3>2
      <4> HIDE DEF g
      <4> QED
        BY <2>3, <2>5, <4>1
    <3> QED
      BY <3>1, <3>2
  <2>7. g = [i \in 0 .. k |-> g[i]]
    OBVIOUS
  <2> HIDE DEF g
  <2>8. IsListing(g, S, k)
    BY <2>6, <2>7 DEF IsListing
  <2> QED
    BY <2>1, <2>8
<1> HIDE DEF T
<1>3. \A k \in 0 .. n : k \in T
  BY <1>1, <1>2, UpTo
<1>4. n \in 0 .. n
  OBVIOUS
<1> QED
  BY <1>3, <1>4 DEF T

\* What Append gives.
LEMMA Appended ==
  ASSUME NEW q \in Seq(Nodes), NEW m \in Nodes
  PROVE  /\ Append(q, m) \in Seq(Nodes) /\ Len(Append(q, m)) = Len(q) + 1 /\ Len(q) \in Nat
         /\ Append(q, m)[Len(q) + 1] = m /\ \A i \in 1 .. Len(q) : Append(q, m)[i] = q[i]
OBVIOUS

\* A node more on the list is a node more of the set.
LEMMA AppendList ==
  ASSUME NEW q, NEW S, NEW m \in Nodes, Listed(q, S), m \notin S
  PROVE  Listed(Append(q, m), S \cup {m})
<1>1. q \in Seq(Nodes) /\ Once(q) /\ \A n \in Nodes : n \in S <=> \E i \in 1 .. Len(q) : n = q[i]
  BY DEF Listed
<1>2. PICK l \in Nat : l = Len(q)
  BY <1>1
<1>3. PICK p \in Seq(Nodes) : /\ p = Append(q, m) /\ Len(p) = l + 1
                              /\ p[l + 1] = m /\ \A i \in 1 .. l : p[i] = q[i]
  BY <1>1, <1>2, Appended
<1>4. \A i \in 1 .. l + 1 : i = l + 1 \/ i \in 1 .. l
  OBVIOUS
<1>5. \A i \in 1 .. l : q[i] # m
  BY <1>1, <1>2
<1>6. Once(p)
  BY <1>1, <1>2, <1>3, <1>4, <1>5 DEF Once
<1>7. \A n \in Nodes : n \in S \cup {m} <=> \E i \in 1 .. l + 1 : n = p[i]
  BY <1>1, <1>2, <1>3, <1>4
<1> QED
  BY <1>3, <1>6, <1>7 DEF Listed

\* It lists the nodes of S.
LEMMA ListingLists ==
  ASSUME NEW S \in SUBSET Nodes, NEW f, IsListing(f, S, NodeCount)
  PROVE  Listed(f[NodeCount], S)
<1> DEFINE T == {k \in 0 .. NodeCount : Listed(f[k], FirstOf(S, k))}
<1>1. \A i \in 0 .. NodeCount : f[i] = IF i = 0 THEN << >>
                        ELSE IF NodeOrder[i] \in S THEN Append(f[i - 1], NodeOrder[i]) ELSE f[i - 1]
  BY DEF IsListing
<1>2. 0 \in T
  <2>1. f[0] = << >> /\ 0 \in 0 .. NodeCount
    BY <1>1, GraphConstants
  <2>2. FirstOf(S, 0) = {}
    BY DEF FirstOf
  <2>3. Listed(<< >>, {})
    BY DEF Listed, Once
  <2> QED
    BY <2>1, <2>2, <2>3
<1>3. ASSUME NEW k \in 1 .. NodeCount, k - 1 \in T PROVE k \in T
  <2>1. /\ k \in 0 .. NodeCount /\ k # 0 /\ \A j \in 1 .. k : j = k \/ j \in 1 .. k - 1
        /\ k \in 1 .. k /\ \A j \in 1 .. k - 1 : j \in 1 .. k /\ j # k /\ j \in 1 .. NodeCount
    BY GraphConstants
  <2>2. f[k] = IF NodeOrder[k] \in S THEN Append(f[k - 1], NodeOrder[k]) ELSE f[k - 1]
    BY <1>1, <2>1
  <2>3. Listed(f[k - 1], FirstOf(S, k - 1))
    BY <1>3
  <2>4. NodeOrder[k] \in Nodes /\ NodeOrder[k] \notin FirstOf(S, k - 1)
    BY <2>1, GraphConstants DEF FirstOf
  <2>5. CASE NodeOrder[k] \in S
    <3>1. FirstOf(S, k) = FirstOf(S, k - 1) \cup {NodeOrder[k]}
      BY <2>1, <2>5, Zenon DEF FirstOf
    <3>2. Listed(Append(f[k - 1], NodeOrder[k]), FirstOf(S, k - 1) \cup {NodeOrder[k]})
      BY <2>3, <2>4, AppendList
    <3> QED
      BY <2>1, <2>2, <2>5, <3>1, <3>2
  <2>6. CASE NodeOrder[k] \notin S
    <3>1. FirstOf(S, k) = FirstOf(S, k - 1)
      BY <2>1, <2>6, Zenon DEF FirstOf
    <3> QED
      BY <2>1, <2>2, <2>3, <2>6, <3>1
  <2> QED
    BY <2>5, <2>6
<1> HIDE DEF T
<1>4. \A k \in 0 .. NodeCount : k \in T
  BY <1>2, <1>3, UpTo, GraphConstants
<1>5. NodeCount \in 0 .. NodeCount
  BY GraphConstants
<1>6. FirstOf(S, NodeCount) = S
  BY GraphConstants, Zenon DEF FirstOf
<1> QED
  BY <1>4, <1>5, <1>6 DEF T

\* AsListed lists the set it is given.
LEMMA AsListedLists ==
  ASSUME NEW S \in SUBSET Nodes
  PROVE  Listed(AsListed(S), S)
<1> DEFINE listed[i \in 0 .. Len(NodeOrder)] ==
             IF i = 0 THEN << >>
             ELSE IF NodeOrder[i] \in S THEN Append(listed[i - 1], NodeOrder[i]) ELSE listed[i - 1]
           Is(f) == f = [i \in 0 .. Len(NodeOrder) |-> IF i = 0 THEN << >>
             ELSE IF NodeOrder[i] \in S THEN Append(f[i - 1], NodeOrder[i]) ELSE f[i - 1]]
<1>1. PICK f : IsListing(f, S, NodeCount)
  BY ListingExists, GraphConstants
<1>2. Is(f)
  BY <1>1 DEF IsListing, NodeCount
<1>3. listed = CHOOSE g : Is(g)
  OBVIOUS
<1>4. Is(listed)
  <2> HIDE DEF Is, listed
  <2> QED
    BY <1>2, <1>3
<1>5. AsListed(S) = listed[Len(NodeOrder)]
  BY DEF AsListed
<1> HIDE DEF listed
<1>6. IsListing(listed, S, NodeCount)
  BY <1>4 DEF IsListing, NodeCount
<1>7. Listed(listed[NodeCount], S)
  BY <1>6, ListingLists
<1> QED
  BY <1>5, <1>7 DEF NodeCount

\* What Head and Tail give.
LEMMA Behead ==
  ASSUME NEW q \in Seq(Nodes), q # << >>
  PROVE  /\ Head(q) = q[1] /\ Tail(q) \in Seq(Nodes) /\ Len(Tail(q)) = Len(q) - 1
         /\ \A i \in 1 .. Len(q) - 1 : Tail(q)[i] = q[i + 1]
OBVIOUS

\* What the concatenation of two lists gives.
LEMMA Join ==
  ASSUME NEW p \in Seq(Nodes), NEW q \in Seq(Nodes), NEW l \in Nat, NEW m \in Nat, l = Len(p), m = Len(q)
  PROVE  /\ p \o q \in Seq(Nodes) /\ Len(p \o q) = l + m /\ \A i \in 1 .. l : (p \o q)[i] = p[i]
         /\ \A i \in l + 1 .. l + m : (p \o q)[i] = q[i - l]
<1>1. /\ p \o q \in Seq(Nodes) /\ Len(p \o q) = Len(p) + Len(q)
      /\ \A i \in 1 .. Len(p) + Len(q) : (p \o q)[i] = IF i <= Len(p) THEN p[i] ELSE q[i - Len(p)]
  BY ConcatProperties
<1>2. /\ \A i \in 1 .. l : i \in 1 .. l + m /\ i <= l
      /\ \A i \in l + 1 .. l + m : i \in 1 .. l + m /\ ~(i <= l)
  OBVIOUS
<1> QED
  BY <1>1, <1>2

\* A node less on the list is a node less of the set.
LEMMA TailList ==
  ASSUME NEW q, NEW S, Listed(q, S), q # << >>
  PROVE  Head(q) \in Nodes /\ Head(q) \in S /\ Listed(Tail(q), S \ {Head(q)})
<1>1. q \in Seq(Nodes) /\ Once(q) /\ \A n \in Nodes : n \in S <=> \E i \in 1 .. Len(q) : n = q[i]
  BY DEF Listed
<1>2. PICK l \in Nat : l = Len(q) /\ l > 0
  BY <1>1
<1>3. 1 \in 1 .. l /\ Head(q) = q[1] /\ q[1] \in Nodes
  BY <1>1, <1>2
<1>4. PICK p \in Seq(Nodes) : p = Tail(q) /\ Len(p) = l - 1 /\ \A i \in 1 .. l - 1 : p[i] = q[i + 1]
  BY <1>1, <1>2, Behead
<1>5. /\ \A i \in 1 .. l - 1 : i + 1 \in 1 .. l /\ i + 1 # 1
      /\ \A i \in 1 .. l : i = 1 \/ (i - 1 \in 1 .. l - 1 /\ i = (i - 1) + 1)
      /\ \A i, k \in 1 .. l - 1 : i + 1 = k + 1 => i = k
  BY <1>2
<1>6. Once(p)
  BY <1>1, <1>2, <1>4, <1>5 DEF Once
<1>7. \A n \in Nodes : n \in S \ {q[1]} <=> \E i \in 1 .. l - 1 : n = p[i]
  <2> TAKE n \in Nodes
  <2>1. n \in S /\ n # q[1] => \E i \in 1 .. l - 1 : n = p[i]
    BY <1>1, <1>2, <1>4, <1>5
  <2>2. ASSUME NEW i \in 1 .. l - 1, n = p[i] PROVE n \in S /\ n # q[1]
    BY <1>1, <1>2, <1>3, <1>4, <1>5, <2>2 DEF Once
  <2> QED
    BY <2>1, <2>2
<1>8. Listed(p, S \ {q[1]})
  BY <1>4, <1>6, <1>7 DEF Listed
<1> QED
  BY <1>1, <1>2, <1>3, <1>4, <1>8

\* The list of two disjoint sets.
LEMMA ConcatList ==
  ASSUME NEW p, NEW q, NEW A, NEW B, Listed(p, A), Listed(q, B), \A n \in Nodes : ~(n \in A /\ n \in B)
  PROVE  Listed(p \o q, A \cup B)
<1>1. p \in Seq(Nodes) /\ Once(p) /\ \A n \in Nodes : n \in A <=> \E i \in 1 .. Len(p) : n = p[i]
  BY DEF Listed
<1>2. q \in Seq(Nodes) /\ Once(q) /\ \A n \in Nodes : n \in B <=> \E i \in 1 .. Len(q) : n = q[i]
  BY DEF Listed
<1>3. PICK l \in Nat, m \in Nat : l = Len(p) /\ m = Len(q)
  BY <1>1, <1>2
<1>4. PICK r \in Seq(Nodes) : /\ r = p \o q /\ Len(r) = l + m /\ \A i \in 1 .. l : r[i] = p[i]
                              /\ \A i \in l + 1 .. l + m : r[i] = q[i - l]
  <2>1. p \in Seq(Nodes) /\ q \in Seq(Nodes)
    BY <1>1, <1>2
  <2>2. /\ p \o q \in Seq(Nodes) /\ Len(p \o q) = l + m /\ \A i \in 1 .. l : (p \o q)[i] = p[i]
        /\ \A i \in l + 1 .. l + m : (p \o q)[i] = q[i - l]
    BY <1>3, <2>1, Join
  <2> QED
    BY <2>2
<1>5. /\ \A i \in 1 .. l + m : i \in 1 .. l \/ (i \in l + 1 .. l + m /\ i - l \in 1 .. m)
      /\ \A i \in 1 .. l : i \in 1 .. l + m
      /\ \A i \in 1 .. m : i + l \in l + 1 .. l + m /\ i + l \in 1 .. l + m /\ (i + l) - l = i
      /\ \A i, k \in l + 1 .. l + m : i - l = k - l => i = k
      /\ \A i \in l + 1 .. l + m : i - l \in 1 .. m
  BY <1>3
<1>6. /\ \A i \in 1 .. l : p[i] \in Nodes /\ p[i] \in A
      /\ \A i \in 1 .. m : q[i] \in Nodes /\ q[i] \in B
  BY <1>1, <1>2, <1>3
<1>7. Once(r)
  <2> SUFFICES ASSUME NEW i \in 1 .. l + m, NEW k \in 1 .. l + m, r[i] = r[k] PROVE i = k
    BY <1>4 DEF Once
  <2>1. CASE i \in 1 .. l /\ k \in 1 .. l
    BY <1>1, <1>3, <1>4, <2>1 DEF Once
  <2>2. CASE i \in 1 .. l /\ k \in l + 1 .. l + m
    <3>1. k - l \in 1 .. m /\ r[i] = p[i] /\ r[k] = q[k - l]
      BY <1>4, <1>5, <2>2
    <3>2. r[i] \in A /\ r[k] \in B /\ r[i] \in Nodes
      BY <1>6, <2>2, <3>1
    <3> QED
      BY <3>2
  <2>3. CASE k \in 1 .. l /\ i \in l + 1 .. l + m
    <3>1. i - l \in 1 .. m /\ r[k] = p[k] /\ r[i] = q[i - l]
      BY <1>4, <1>5, <2>3
    <3>2. r[k] \in A /\ r[i] \in B /\ r[k] \in Nodes
      BY <1>6, <2>3, <3>1
    <3> QED
      BY <3>2
  <2>4. CASE i \in l + 1 .. l + m /\ k \in l + 1 .. l + m
    <3>1. i - l \in 1 .. m /\ k - l \in 1 .. m /\ q[i - l] = q[k - l]
      BY <1>4, <1>5, <2>4
    <3>2. i - l = k - l
      BY <1>2, <1>3, <3>1 DEF Once
    <3> QED
      BY <1>5, <2>4, <3>2
  <2> QED
    BY <1>5, <2>1, <2>2, <2>3, <2>4
<1>8. \A n \in Nodes : n \in A \cup B <=> \E i \in 1 .. l + m : n = r[i]
  <2> TAKE n \in Nodes
  <2>1. n \in A => \E i \in 1 .. l + m : n = r[i]
    BY <1>1, <1>3, <1>4, <1>5
  <2>2. ASSUME n \in B PROVE \E i \in 1 .. l + m : n = r[i]
    <3>1. PICK i \in 1 .. m : n = q[i]
      BY <1>2, <1>3, <2>2
    <3>2. i + l \in 1 .. l + m /\ r[i + l] = q[i]
      BY <1>4, <1>5
    <3> QED
      BY <3>1, <3>2
  <2>3. ASSUME NEW i \in 1 .. l + m, n = r[i] PROVE n \in A \cup B
    BY <1>4, <1>5, <1>6, <2>3
  <2> QED
    BY <2>1, <2>2, <2>3
<1>9. Listed(r, A \cup B)
  BY <1>4, <1>7, <1>8 DEF Listed
<1> QED
  BY <1>4, <1>9

\* A list depends on the members of its set.
LEMMA SameList ==
  ASSUME NEW q, NEW A, NEW B, Listed(q, A), \A n \in Nodes : n \in A <=> n \in B
  PROVE  Listed(q, B)
BY DEF Listed

-----------------------------------------------------------------------------
(* Kahn's algorithm.                                                        *)

\* The edges into n whose source has not been visited.
Incoming(edges, n, done) == {e \in edges : e.target = n /\ e.source \notin done}

\* The nodes without such an edge.
Free(edges, done) == {n \in Nodes : Incoming(edges, n, done) = {}}

\* Every edge leads to its target from an earlier place of the order.
LeadsForward(edges, order) ==
  \A e \in edges : \A j \in 1 .. Len(order) :
    e.target = order[j] => \E i \in 1 .. Len(order) : i < j /\ order[i] = e.source

\* The state of the algorithm when it has visited done: the queue holds the free nodes it has not
\* visited, and left counts for each node its edges from the others.
Kahn(edges, s, done) ==
  /\ done \subseteq Free(edges, done)
  /\ Listed(s.sorted, done) /\ Listed(s.queue, Free(edges, done) \ done)
  /\ s.left = [n \in Nodes |-> Cardinality(Incoming(edges, n, done))]
  /\ LeadsForward(edges, s.sorted)

\* The edges from m to n.
Outgoing(edges, m, n) == {e \in edges : e.source = m /\ e.target = n}

\* A visit takes the edges out of its node off what is incoming elsewhere.
LEMMA OneSourceLess ==
  ASSUME NEW edges, IsFiniteSet(edges), NEW done, NEW m, m \notin done, NEW n
  PROVE  /\ Cardinality(Incoming(edges, n, done \cup {m})) =
              Cardinality(Incoming(edges, n, done)) - Cardinality(Outgoing(edges, m, n))
         /\ Cardinality(Incoming(edges, n, done)) \in Nat
         /\ Cardinality(Incoming(edges, n, done \cup {m})) \in Nat
         /\ Cardinality(Incoming(edges, n, done)) = 0 <=> Incoming(edges, n, done) = {}
         /\ Cardinality(Incoming(edges, n, done \cup {m})) = 0 <=> Incoming(edges, n, done \cup {m}) = {}
<1> DEFINE A == Incoming(edges, n, done)
           B == Incoming(edges, n, done \cup {m})
           C == Outgoing(edges, m, n)
<1>1. A \subseteq edges /\ B \subseteq edges /\ C \subseteq edges
  BY DEF Incoming, Outgoing
<1>2. B = A \ C /\ A \cap C = C
  BY DEF Incoming, Outgoing
<1> HIDE DEF A, B, C
<1>3. IsFiniteSet(A) /\ IsFiniteSet(B) /\ IsFiniteSet(C)
  BY <1>1, FS_Subset
<1>4. Cardinality(A) \in Nat /\ Cardinality(B) \in Nat /\ Cardinality(C) \in Nat
  BY <1>3, FS_CardinalityType
<1>5. Cardinality(A \ C) = Cardinality(A) - Cardinality(A \cap C)
  BY <1>3, FS_Difference
<1>6. (Cardinality(A) = 0 <=> A = {}) /\ (Cardinality(B) = 0 <=> B = {})
  BY <1>3, FS_EmptySet
<1> QED
  BY <1>2, <1>4, <1>5, <1>6 DEF A, B, C

\* What is free stays free.
LEMMA FreeStays ==
  ASSUME NEW edges, NEW done, NEW m, NEW n, Incoming(edges, n, done) = {}
  PROVE  Incoming(edges, n, done \cup {m}) = {}
BY DEF Incoming

\* A visit keeps the state the algorithm's, with its node visited.
LEMMA VisitKeeps ==
  ASSUME NEW edges \in SUBSET Edges, IsFiniteSet(edges), NEW done \in SUBSET Nodes, NEW s,
         Kahn(edges, s, done), s.queue # << >>
  PROVE  /\ Head(s.queue) \in Nodes \ done /\ Kahn(edges, Visit(edges, s), done \cup {Head(s.queue)})
         /\ Len(Visit(edges, s).sorted) = Len(s.sorted) + 1
<1>1. /\ done \subseteq Free(edges, done)
      /\ Listed(s.sorted, done) /\ Listed(s.queue, Free(edges, done) \ done)
      /\ s.left = [n \in Nodes |-> Cardinality(Incoming(edges, n, done))]
      /\ LeadsForward(edges, s.sorted)
  BY DEF Kahn
<1>2. PICK m \in Nodes : m = Head(s.queue) /\ m \in Free(edges, done) \ done
  BY <1>1, TailList
<1> DEFINE now == done \cup {m}
           left == [n \in Nodes |-> Cardinality(Incoming(edges, n, now))]
           freed == Free(edges, now) \ Free(edges, done)
<1>3. Visit(edges, s) = [queue |-> Tail(s.queue) \o AsListed(freed), sorted |-> Append(s.sorted, m), left |-> left]
  <2>1. \A n \in Nodes : s.left[n] = Cardinality(Incoming(edges, n, done))
    BY <1>1
  <2>2. \A n \in Nodes : left[n] = s.left[n] - Cardinality({e \in edges : e.source = m /\ e.target = n})
    <3> TAKE n \in Nodes
    <3>1. Cardinality(Incoming(edges, n, done \cup {m})) =
              Cardinality(Incoming(edges, n, done)) - Cardinality(Outgoing(edges, m, n))
      BY <1>2, OneSourceLess
    <3>2. left[n] = Cardinality(Incoming(edges, n, done \cup {m}))
      OBVIOUS
    <3>3. s.left[n] = Cardinality(Incoming(edges, n, done))
      BY <2>1
    <3> QED
      BY <3>1, <3>2, <3>3 DEF Outgoing
  <2>3. left = [n \in Nodes |-> s.left[n] - Cardinality({e \in edges : e.source = m /\ e.target = n})]
    <3> HIDE DEF now
    <3> QED
      BY <2>2
  <2>4. ASSUME NEW n \in Nodes PROVE s.left[n] > 0 /\ left[n] = 0 <=> n \in freed
    <3>1. s.left[n] = Cardinality(Incoming(edges, n, done)) /\ left[n] = Cardinality(Incoming(edges, n, now))
      BY <2>1
    <3>2. PICK a \in Nat : a = Cardinality(Incoming(edges, n, done)) /\ (a = 0 <=> Incoming(edges, n, done) = {})
      <4>1. m \notin done
        BY <1>2
      <4>2. Cardinality(Incoming(edges, n, done)) \in Nat /\ (Cardinality(Incoming(edges, n, done)) = 0 <=> Incoming(edges, n, done) = {})
        BY <4>1, OneSourceLess, Zenon
      <4> QED
        BY <4>2
    <3>3. PICK b \in Nat : b = Cardinality(Incoming(edges, n, now)) /\ (b = 0 <=> Incoming(edges, n, now) = {})
      <4>1. m \notin done
        BY <1>2
      <4>2. Cardinality(Incoming(edges, n, now)) \in Nat /\ (Cardinality(Incoming(edges, n, now)) = 0 <=> Incoming(edges, n, now) = {})
        BY <4>1, OneSourceLess, Zenon
      <4> QED
        BY <4>2
    <3>4. s.left[n] = a /\ left[n] = b /\ (a > 0 <=> a # 0)
      BY <3>1, <3>2, <3>3
    <3>5. n \in freed <=> Incoming(edges, n, now) = {} /\ Incoming(edges, n, done) # {}
      BY DEF Free
    <3> QED
      BY <3>2, <3>3, <3>4, <3>5
  <2> HIDE DEF left
  <2>5. Ready(s.left, left) = freed
    <3>1. freed \subseteq Nodes
      BY DEF Free
    <3> HIDE DEF freed
    <3> QED
      BY <2>4, <3>1, Zenon DEF Ready
  <2> QED
    BY <1>2, <2>3, <2>5, Zenon DEF Visit
<1> HIDE DEF left
<1>4. freed \in SUBSET Nodes
  BY DEF Free
<1>5. Listed(Tail(s.queue), (Free(edges, done) \ done) \ {m})
  BY <1>1, <1>2, TailList
<1>6. Listed(AsListed(freed), freed)
  BY <1>4, AsListedLists
<1>7. Listed(Tail(s.queue) \o AsListed(freed), ((Free(edges, done) \ done) \ {m}) \cup freed)
  BY <1>5, <1>6, ConcatList
<1>8. \A n \in Nodes : n \in Free(edges, done) => n \in Free(edges, now)
  BY FreeStays DEF Free
<1>9. Listed(Tail(s.queue) \o AsListed(freed), Free(edges, now) \ now)
  <2>1. \A n \in Nodes : n \in ((Free(edges, done) \ done) \ {m}) \cup freed <=> n \in Free(edges, now) \ now
    BY <1>1, <1>2, <1>8
  <2> HIDE DEF now, freed
  <2> QED
    BY <1>7, <2>1, SameList
<1>10. Listed(Append(s.sorted, m), now)
  BY <1>1, <1>2, AppendList
<1>11. now \subseteq Free(edges, now)
  BY <1>1, <1>2, <1>8 DEF Free
<1>12. PICK q \in Seq(Nodes) : q = s.sorted /\ \A n \in Nodes : n \in done <=> \E i \in 1 .. Len(q) : n = q[i]
  BY <1>1 DEF Listed
<1>13. PICK l \in Nat : l = Len(q)
  BY <1>12
<1>14. PICK p \in Seq(Nodes) : /\ p = Append(q, m) /\ Len(p) = l + 1
                               /\ p[l + 1] = m /\ \A i \in 1 .. l : p[i] = q[i]
  BY <1>13, Appended
<1>15. LeadsForward(edges, p)
  <2> SUFFICES ASSUME NEW e \in edges, NEW j \in 1 .. l + 1, e.target = p[j]
               PROVE  \E i \in 1 .. l + 1 : i < j /\ p[i] = e.source
    BY <1>14 DEF LeadsForward
  <2>0. \A i \in 1 .. l : i \in 1 .. l + 1 /\ i < l + 1
    OBVIOUS
  <2>1. CASE j = l + 1
    <3>1. e.source \in Nodes /\ e.target = m
      BY <1>14, <2>1 DEF Edges
    <3>2. e.source \in done
      BY <1>2, <3>1 DEF Free, Incoming
    <3>3. PICK i \in 1 .. l : e.source = q[i]
      BY <1>12, <1>13, <3>1, <3>2
    <3> QED
      BY <1>14, <2>0, <2>1, <3>3
  <2>2. CASE j # l + 1
    <3>1. j \in 1 .. l
      BY <2>2
    <3>2. PICK i \in 1 .. l : i < j /\ q[i] = e.source
      BY <1>1, <1>12, <1>13, <1>14, <3>1 DEF LeadsForward
    <3> QED
      BY <1>14, <2>0, <3>2
  <2> QED
    BY <2>1, <2>2
<1>16. PICK v : v = Visit(edges, s)
  OBVIOUS
<1>17. v.queue = Tail(s.queue) \o AsListed(freed) /\ v.sorted = p /\ v.left = left
  BY <1>3, <1>12, <1>14, <1>16
<1>18. Kahn(edges, v, now)
  <2> HIDE DEF now, freed
  <2>1. v.left = [n \in Nodes |-> Cardinality(Incoming(edges, n, now))]
    BY <1>17 DEF left
  <2>2. Listed(v.sorted, now) /\ Listed(v.queue, Free(edges, now) \ now) /\ LeadsForward(edges, v.sorted)
    BY <1>9, <1>10, <1>12, <1>14, <1>15, <1>17
  <2> QED
    BY <1>11, <2>1, <2>2 DEF Kahn
<1> QED
  BY <1>2, <1>12, <1>13, <1>14, <1>16, <1>17, <1>18

\* Where TopologicalSort starts.
Start(edges) == [queue |-> AsListed({n \in Nodes : InDegree(edges)[n] = 0}), sorted |-> << >>, left |-> InDegree(edges)]

\* f is what TopologicalSort computes by, up to visit n.
IsSorting(f, edges, n) ==
  f = [k \in 0 .. n |-> IF k = 0 THEN Start(edges)
                        ELSE IF f[k - 1].queue = << >> THEN f[k - 1] ELSE Visit(edges, f[k - 1])]

\* There is such a function.
LEMMA SortingExists ==
  ASSUME NEW edges, NEW n \in Nat
  PROVE  \E f : IsSorting(f, edges, n)
<1> DEFINE T == {k \in 0 .. n : \E f : IsSorting(f, edges, k)}
<1>1. 0 \in T
  <2> DEFINE f == [i \in 0 .. 0 |-> Start(edges)]
  <2>1. \A i \in 0 .. 0 : i = 0
    OBVIOUS
  <2>2. f = [k \in 0 .. 0 |-> IF k = 0 THEN Start(edges)
                        ELSE IF f[k - 1].queue = << >> THEN f[k - 1] ELSE Visit(edges, f[k - 1])]
    BY <2>1
  <2>3. IsSorting(f, edges, 0)
    BY <2>2 DEF IsSorting
  <2>4. \E g : IsSorting(g, edges, 0)
    BY <2>3
  <2> QED
    BY <2>4
<1>2. ASSUME NEW k \in 1 .. n, k - 1 \in T PROVE k \in T
  <2>1. k \in 0 .. n /\ k \in Nat /\ \A i \in 0 .. k : i = k \/ i \in 0 .. k - 1
    OBVIOUS
  <2>2. PICK f : IsSorting(f, edges, k - 1)
    BY <1>2
  <2>3. \A i \in 0 .. k - 1 : f[i] = IF i = 0 THEN Start(edges)
                        ELSE IF f[i - 1].queue = << >> THEN f[i - 1] ELSE Visit(edges, f[i - 1])
    BY <2>2 DEF IsSorting
  <2>4. PICK new : new = IF f[k - 1].queue = << >> THEN f[k - 1] ELSE Visit(edges, f[k - 1])
    OBVIOUS
  <2> DEFINE g == [i \in 0 .. k |-> IF i = k THEN new ELSE f[i]]
  <2>5. \A i \in 0 .. k : i # 0 => g[i - 1] = f[i - 1]
    OBVIOUS
  <2>6. \A i \in 0 .. k : g[i] = IF i = 0 THEN Start(edges)
                        ELSE IF g[i - 1].queue = << >> THEN g[i - 1] ELSE Visit(edges, g[i - 1])
    <3> TAKE i \in 0 .. k
    <3>1. CASE i = k
      <4>1. i # 0 /\ g[i] = new
        BY <3>1
      <4> HIDE DEF g
      <4> QED
        BY <2>4, <2>5, <3>1, <4>1
    <3>2. CASE i # k
      <4>1. i \in 0 .. k - 1 /\ g[i] = f[i]
        BY <2>1, <3>2
      <4> HIDE DEF g
      <4> QED
        BY <2>3, <2>5, <4>1
    <3> QED
      BY <3>1, <3>2
  <2>7. g = [i \in 0 .. k |-> g[i]]
    OBVIOUS
  <2> HIDE DEF g
  <2>8. IsSorting(g, edges, k)
    BY <2>6, <2>7 DEF IsSorting
  <2> QED
    BY <2>1, <2>8
<1> HIDE DEF T
<1>3. \A k \in 0 .. n : k \in T
  BY <1>1, <1>2, UpTo
<1>4. n \in 0 .. n
  OBVIOUS
<1> QED
  BY <1>3, <1>4 DEF T

\* It starts with no node visited.
LEMMA StartHolds ==
  ASSUME NEW edges \in SUBSET Edges, IsFiniteSet(edges)
  PROVE  Kahn(edges, Start(edges), {}) /\ Len(Start(edges).sorted) = 0
<1>1. \A n \in Nodes : Incoming(edges, n, {}) = {e \in edges : e.target = n}
  BY DEF Incoming
<1>2. InDegree(edges) = [n \in Nodes |-> Cardinality(Incoming(edges, n, {}))]
  BY <1>1, Zenon DEF InDegree
<1>3. \A n \in Nodes : Cardinality(Incoming(edges, n, {})) = 0 <=> Incoming(edges, n, {}) = {}
  <2> TAKE n \in Nodes
  <2>1. IsFiniteSet(Incoming(edges, n, {}))
    <3>1. Incoming(edges, n, {}) \in SUBSET edges
      BY DEF Incoming
    <3> QED
      BY <3>1, FS_Subset
  <2> QED
    BY <2>1, FS_EmptySet
<1>4. {n \in Nodes : InDegree(edges)[n] = 0} = Free(edges, {}) \ {}
  <2>1. \A n \in Nodes : InDegree(edges)[n] = 0 <=> Incoming(edges, n, {}) = {}
    BY <1>2, <1>3
  <2> QED
    BY <2>1, Zenon DEF Free
<1>5. Listed(AsListed(Free(edges, {}) \ {}), Free(edges, {}) \ {})
  <2>1. Free(edges, {}) \ {} \in SUBSET Nodes
    BY DEF Free
  <2> QED
    BY <2>1, AsListedLists
<1>6. PICK s : s = Start(edges)
  OBVIOUS
<1>7. s.queue = AsListed(Free(edges, {}) \ {}) /\ s.sorted = << >> /\ s.left = InDegree(edges)
  BY <1>4, <1>6 DEF Start
<1>8. Listed(<< >>, {}) /\ LeadsForward(edges, << >>) /\ Len(<< >>) = 0
  BY DEF Listed, Once, LeadsForward
<1> QED
  BY <1>2, <1>5, <1>6, <1>7, <1>8 DEF Kahn

\* The nodes are finitely many.
LEMMA NodesCounted ==
  IsFiniteSet(Nodes) /\ Cardinality(Nodes) \in Nat /\ Cardinality(Nodes) <= NodeCount
<1>1. PICK N \in Nat : N = NodeCount
  BY GraphConstants
<1> DEFINE g == [i \in 1 .. N |-> NodeOrder[i]]
<1>2. g \in [1 .. N -> Nodes] /\ \A n \in Nodes : \E i \in 1 .. N : g[i] = n
  BY <1>1, GraphConstants
<1> HIDE DEF g
<1>3. g \in Surjection(1 .. N, Nodes)
  BY <1>2 DEF Surjection
<1>4. IsFiniteSet(1 .. N) /\ Cardinality(1 .. N) = N
  BY FS_Interval
<1>5. IsFiniteSet(Nodes) /\ Cardinality(Nodes) <= N
  BY <1>3, <1>4, FS_Surjection
<1> QED
  BY <1>1, <1>5, FS_CardinalityType

\* A list is no longer than the nodes, and one as long holds all of them.
LEMMA ListIsShort ==
  ASSUME NEW q, NEW S, Listed(q, S)
  PROVE  /\ Len(q) \in Nat /\ Len(q) <= NodeCount
         /\ Len(q) = NodeCount => \A n \in Nodes : n \in S
<1>1. q \in Seq(Nodes) /\ Once(q) /\ \A n \in Nodes : n \in S <=> \E i \in 1 .. Len(q) : n = q[i]
  BY DEF Listed
<1>2. PICK l \in Nat : l = Len(q)
  BY <1>1
<1> DEFINE f == [i \in 1 .. l |-> q[i]]
<1>3. f \in [1 .. l -> Nodes] /\ \A i, k \in 1 .. l : f[i] = f[k] => i = k
  BY <1>1, <1>2 DEF Once
<1>4. \A n \in Nodes : (\E i \in 1 .. l : f[i] = n) => n \in S
  BY <1>1, <1>2
<1> HIDE DEF f
<1>5. f \in Injection(1 .. l, Nodes)
  BY <1>3 DEF Injection, IsInjective
<1>6. IsFiniteSet(1 .. l) /\ Cardinality(1 .. l) = l
  BY FS_Interval
<1>7. l <= Cardinality(Nodes) /\ (l = Cardinality(Nodes) <=> f \in Surjection(1 .. l, Nodes))
  BY <1>5, <1>6, NodesCounted, FS_Injection
<1>8. PICK N \in Nat, c \in Nat : N = NodeCount /\ c = Cardinality(Nodes) /\ c <= N
  BY NodesCounted, GraphConstants
<1>9. l <= N
  BY <1>7, <1>8
<1>10. ASSUME l = N PROVE \A n \in Nodes : n \in S
  <2>1. l = c
    BY <1>7, <1>8, <1>10
  <2>2. f \in Surjection(1 .. l, Nodes)
    BY <1>7, <1>8, <2>1
  <2>3. \A n \in Nodes : \E i \in 1 .. l : f[i] = n
    BY <2>2 DEF Surjection
  <2> QED
    BY <1>4, <2>3
<1> QED
  BY <1>2, <1>8, <1>9, <1>10

\* Without a cycle, an empty queue means that every node has been visited.
LEMMA NothingLeft ==
  ASSUME NEW edges \in SUBSET Edges, Acyclic(edges), NEW done \in SUBSET Nodes,
         \A n \in Nodes : n \notin Free(edges, done) \ done
  PROVE  \A n \in Nodes : n \in done
<1> DEFINE S == Nodes \ done
<1>1. ASSUME S # {} PROVE FALSE
  <2>1. S \in (SUBSET Nodes) \ {{}}
    BY <1>1
  <2>2. PICK n \in S : ~\E e \in edges : e.target = n /\ e.source \in S
    <3> HIDE DEF S
    <3> QED
      BY <2>1, Zenon DEF Acyclic
  <2>3. PICK e \in Incoming(edges, n, done) : TRUE
    BY <2>2 DEF Free
  <2>4. e \in edges /\ e.target = n /\ e.source \notin done /\ e.source \in Nodes
    BY <2>3 DEF Incoming, Edges
  <2> QED
    BY <2>2, <2>4
<1> QED
  BY <1>1

\* After as many visits as there are nodes the queue is empty, or every place is taken.
LEMMA SortingEnds ==
  ASSUME NEW edges \in SUBSET Edges, IsFiniteSet(edges), NEW f, IsSorting(f, edges, NodeCount)
  PROVE  \E done \in SUBSET Nodes : /\ Kahn(edges, f[NodeCount], done)
                                    /\ f[NodeCount].queue = << >> \/ Len(f[NodeCount].sorted) = NodeCount
<1> DEFINE T == {k \in 0 .. NodeCount : \E done \in SUBSET Nodes :
                   Kahn(edges, f[k], done) /\ (f[k].queue = << >> \/ Len(f[k].sorted) = k)}
<1>0. NodeCount \in Nat
  BY GraphConstants
<1>1. \A k \in 0 .. NodeCount : f[k] = IF k = 0 THEN Start(edges)
                        ELSE IF f[k - 1].queue = << >> THEN f[k - 1] ELSE Visit(edges, f[k - 1])
  BY DEF IsSorting
<1>2. 0 \in T
  <2>1. f[0] = Start(edges) /\ 0 \in 0 .. NodeCount
    BY <1>0, <1>1
  <2>2. Kahn(edges, f[0], {}) /\ Len(f[0].sorted) = 0
    BY <2>1, StartHolds
  <2>3. {} \in SUBSET Nodes
    OBVIOUS
  <2> QED
    BY <2>1, <2>2, <2>3
<1>3. ASSUME NEW k \in 1 .. NodeCount, k - 1 \in T PROVE k \in T
  <2>1. k \in 0 .. NodeCount /\ k # 0 /\ (k - 1) + 1 = k
    BY <1>0
  <2>2. f[k] = IF f[k - 1].queue = << >> THEN f[k - 1] ELSE Visit(edges, f[k - 1])
    BY <1>1, <2>1
  <2>3. PICK done \in SUBSET Nodes : Kahn(edges, f[k - 1], done) /\ (f[k - 1].queue = << >> \/ Len(f[k - 1].sorted) = k - 1)
    BY <1>3
  <2>4. CASE f[k - 1].queue = << >>
    BY <2>1, <2>2, <2>3, <2>4
  <2>5. CASE f[k - 1].queue # << >>
    <3>0. PICK s : s = f[k - 1]
      OBVIOUS
    <3>9. Kahn(edges, s, done) /\ s.queue # << >>
      BY <2>3, <2>5, <3>0
    <3> DEFINE m == Head(s.queue)
    <3>1. /\ m \in Nodes \ done /\ Kahn(edges, Visit(edges, s), done \cup {m})
          /\ Len(Visit(edges, s).sorted) = Len(s.sorted) + 1
      BY <3>9, VisitKeeps
    <3>2. done \cup {m} \in SUBSET Nodes
      BY <3>1
    <3>3. f[k] = Visit(edges, s) /\ Len(s.sorted) = k - 1
      BY <2>2, <2>3, <2>5, <3>0
    <3>4. Len(f[k].sorted) = k
      BY <2>1, <3>1, <3>3
    <3>5. Kahn(edges, f[k], done \cup {m})
      BY <3>1, <3>3
    <3> HIDE DEF m
    <3> QED
      BY <2>1, <3>2, <3>4, <3>5
  <2> QED
    BY <2>4, <2>5
<1> HIDE DEF T
<1>4. \A k \in 0 .. NodeCount : k \in T
  BY <1>0, <1>2, <1>3, UpTo
<1>5. NodeCount \in 0 .. NodeCount
  BY <1>0
<1> QED
  BY <1>4, <1>5 DEF T

\* The list of no node is empty.
LEMMA NoneListed ==
  ASSUME NEW q, Listed(q, {})
  PROVE  q = << >>
<1>1. q \in Seq(Nodes) /\ \A n \in Nodes : ~\E i \in 1 .. Len(q) : n = q[i]
  BY DEF Listed
<1>2. PICK l \in Nat : l = Len(q)
  BY <1>1
<1>3. ASSUME l # 0 PROVE FALSE
  <2>1. 1 \in 1 .. l
    BY <1>2, <1>3
  <2>2. q[1] \in Nodes
    BY <1>1, <1>2, <2>1
  <2> QED
    BY <1>1, <1>2, <2>1, <2>2
<1> QED
  BY <1>1, <1>2, <1>3

\* Without a cycle the order holds every node once, and every edge leads forward
\* (_topological_sort).
LEMMA SortIsTopological ==
  ASSUME NEW edges \in SUBSET Edges, IsFiniteSet(edges), Acyclic(edges)
  PROVE  Listed(TopologicalSort(edges), Nodes) /\ LeadsForward(edges, TopologicalSort(edges))
<1> DEFINE after[k \in 0 .. Len(NodeOrder)] ==
             IF k = 0 THEN Start(edges)
             ELSE IF after[k - 1].queue = << >> THEN after[k - 1] ELSE Visit(edges, after[k - 1])
           Is(f) == f = [k \in 0 .. Len(NodeOrder) |-> IF k = 0 THEN Start(edges)
             ELSE IF f[k - 1].queue = << >> THEN f[k - 1] ELSE Visit(edges, f[k - 1])]
           sorted == after[Len(NodeOrder)].sorted
<1>1. PICK f : IsSorting(f, edges, NodeCount)
  BY SortingExists, GraphConstants
<1>2. Is(f)
  BY <1>1 DEF IsSorting, NodeCount
<1>3. after = CHOOSE g : Is(g)
  OBVIOUS
<1>4. Is(after)
  <2> HIDE DEF Is, after
  <2> QED
    BY <1>2, <1>3
<1>5. TopologicalSort(edges) = sorted \o AsListed(Nodes \ ToSet(sorted))
  BY DEF TopologicalSort, Start
<1> HIDE DEF after
<1>6. IsSorting(after, edges, NodeCount)
  BY <1>4 DEF IsSorting, NodeCount
<1>7. PICK done \in SUBSET Nodes : /\ Kahn(edges, after[NodeCount], done)
                                   /\ after[NodeCount].queue = << >> \/ Len(after[NodeCount].sorted) = NodeCount
  BY <1>6, SortingEnds
<1>8. PICK q : q = after[NodeCount].sorted
  OBVIOUS
<1>9. Listed(q, done) /\ LeadsForward(edges, q)
  BY <1>7, <1>8 DEF Kahn
<1>10. \A n \in Nodes : n \in done
  <2>1. CASE after[NodeCount].queue = << >>
    <3>1. Listed(<< >>, Free(edges, done) \ done)
      BY <1>7, <2>1 DEF Kahn
    <3>2. \A n \in Nodes : n \notin Free(edges, done) \ done
      BY <3>1 DEF Listed
    <3> QED
      BY <3>2, NothingLeft
  <2>2. CASE Len(q) = NodeCount
    BY <1>9, <2>2, ListIsShort
  <2> QED
    BY <1>7, <1>8, <2>1, <2>2
<1>11. Listed(q, Nodes)
  BY <1>9, <1>10, SameList
<1>12. q \in Seq(Nodes) /\ \A n \in Nodes : \E i \in 1 .. Len(q) : n = q[i]
  BY <1>11 DEF Listed
<1>13. Nodes \ ToSet(q) = {}
  BY <1>12 DEF ToSet
<1>14. Listed(AsListed({}), {})
  <2>1. {} \in SUBSET Nodes
    OBVIOUS
  <2> QED
    BY <2>1, AsListedLists
<1>15. AsListed({}) = << >>
  BY <1>14, NoneListed
<1>16. TopologicalSort(edges) = q \o << >>
  BY <1>5, <1>8, <1>13, <1>15 DEF NodeCount
<1>17. q \o << >> = q
  BY <1>12
<1> QED
  BY <1>9, <1>11, <1>16, <1>17

-----------------------------------------------------------------------------
(* Linear propagation.                                                      *)

\* f is what Deltas computes by, up to place n.
IsDeltas(f, edges, own, order, n) ==
  f = [k \in 0 .. n |-> IF k = 0 THEN own
                        ELSE [f[k - 1] EXCEPT ![order[k]] = @ + Inflow(edges, f[k - 1], order[k])]]

\* There is such a function.
LEMMA DeltasExist ==
  ASSUME NEW edges, NEW own, NEW order, NEW n \in Nat
  PROVE  \E f : IsDeltas(f, edges, own, order, n)
<1> DEFINE T == {k \in 0 .. n : \E f : IsDeltas(f, edges, own, order, k)}
<1>1. 0 \in T
  <2> DEFINE f == [i \in 0 .. 0 |-> own]
  <2>1. \A i \in 0 .. 0 : i = 0
    OBVIOUS
  <2>2. f = [k \in 0 .. 0 |-> IF k = 0 THEN own
                        ELSE [f[k - 1] EXCEPT ![order[k]] = @ + Inflow(edges, f[k - 1], order[k])]]
    BY <2>1
  <2>3. IsDeltas(f, edges, own, order, 0)
    BY <2>2 DEF IsDeltas
  <2>4. \E g : IsDeltas(g, edges, own, order, 0)
    BY <2>3
  <2> QED
    BY <2>4
<1>2. ASSUME NEW k \in 1 .. n, k - 1 \in T PROVE k \in T
  <2>1. k \in 0 .. n /\ k \in Nat /\ \A i \in 0 .. k : i = k \/ i \in 0 .. k - 1
    OBVIOUS
  <2>2. PICK f : IsDeltas(f, edges, own, order, k - 1)
    BY <1>2
  <2>3. \A i \in 0 .. k - 1 : f[i] = IF i = 0 THEN own
                        ELSE [f[i - 1] EXCEPT ![order[i]] = @ + Inflow(edges, f[i - 1], order[i])]
    BY <2>2 DEF IsDeltas
  <2>4. PICK new : new = [f[k - 1] EXCEPT ![order[k]] = @ + Inflow(edges, f[k - 1], order[k])]
    OBVIOUS
  <2> DEFINE g == [i \in 0 .. k |-> IF i = k THEN new ELSE f[i]]
  <2>5. \A i \in 0 .. k : i # 0 => g[i - 1] = f[i - 1]
    OBVIOUS
  <2>6. \A i \in 0 .. k : g[i] = IF i = 0 THEN own
                        ELSE [g[i - 1] EXCEPT ![order[i]] = @ + Inflow(edges, g[i - 1], order[i])]
    <3> TAKE i \in 0 .. k
    <3>1. CASE i = k
      <4>1. i # 0 /\ g[i] = new
        BY <3>1
      <4> HIDE DEF g
      <4> QED
        BY <2>4, <2>5, <3>1, <4>1
    <3>2. CASE i # k
      <4>1. i \in 0 .. k - 1 /\ g[i] = f[i]
        BY <2>1, <3>2
      <4> HIDE DEF g
      <4> QED
        BY <2>3, <2>5, <4>1
    <3> QED
      BY <3>1, <3>2
  <2>7. g = [i \in 0 .. k |-> g[i]]
    OBVIOUS
  <2> HIDE DEF g
  <2>8. IsDeltas(g, edges, own, order, k)
    BY <2>6, <2>7 DEF IsDeltas
  <2> QED
    BY <2>1, <2>8
<1> HIDE DEF T
<1>3. \A k \in 0 .. n : k \in T
  BY <1>1, <1>2, UpTo
<1>4. n \in 0 .. n
  OBVIOUS
<1> QED
  BY <1>3, <1>4 DEF T

\* f is what Walked computes by, up to step n.
IsWalk(f, edges, own, n) ==
  f = [k \in 0 .. n |-> IF k = 0 THEN own ELSE [m \in Nodes |-> own[m] + Inflow(edges, f[k - 1], m)]]

\* There is such a function.
LEMMA WalkExists ==
  ASSUME NEW edges, NEW own, NEW n \in Nat
  PROVE  \E f : IsWalk(f, edges, own, n)
<1> DEFINE T == {k \in 0 .. n : \E f : IsWalk(f, edges, own, k)}
<1>1. 0 \in T
  <2> DEFINE f == [i \in 0 .. 0 |-> own]
  <2>1. \A i \in 0 .. 0 : i = 0
    OBVIOUS
  <2>2. f = [k \in 0 .. 0 |-> IF k = 0 THEN own ELSE [m \in Nodes |-> own[m] + Inflow(edges, f[k - 1], m)]]
    BY <2>1
  <2>3. IsWalk(f, edges, own, 0)
    BY <2>2 DEF IsWalk
  <2>4. \E g : IsWalk(g, edges, own, 0)
    BY <2>3
  <2> QED
    BY <2>4
<1>2. ASSUME NEW k \in 1 .. n, k - 1 \in T PROVE k \in T
  <2>1. k \in 0 .. n /\ k \in Nat /\ \A i \in 0 .. k : i = k \/ i \in 0 .. k - 1
    OBVIOUS
  <2>2. PICK f : IsWalk(f, edges, own, k - 1)
    BY <1>2
  <2>3. \A i \in 0 .. k - 1 : f[i] = IF i = 0 THEN own ELSE [m \in Nodes |-> own[m] + Inflow(edges, f[i - 1], m)]
    BY <2>2 DEF IsWalk
  <2>4. PICK new : new = [m \in Nodes |-> own[m] + Inflow(edges, f[k - 1], m)]
    OBVIOUS
  <2> DEFINE g == [i \in 0 .. k |-> IF i = k THEN new ELSE f[i]]
  <2>5. \A i \in 0 .. k : i # 0 => g[i - 1] = f[i - 1]
    OBVIOUS
  <2>6. \A i \in 0 .. k : g[i] = IF i = 0 THEN own ELSE [m \in Nodes |-> own[m] + Inflow(edges, g[i - 1], m)]
    <3> TAKE i \in 0 .. k
    <3>1. CASE i = k
      <4>1. i # 0 /\ g[i] = new
        BY <3>1
      <4> HIDE DEF g
      <4> QED
        BY <2>4, <2>5, <3>1, <4>1
    <3>2. CASE i # k
      <4>1. i \in 0 .. k - 1 /\ g[i] = f[i]
        BY <2>1, <3>2
      <4> HIDE DEF g
      <4> QED
        BY <2>3, <2>5, <4>1
    <3> QED
      BY <3>1, <3>2
  <2>7. g = [i \in 0 .. k |-> g[i]]
    OBVIOUS
  <2> HIDE DEF g
  <2>8. IsWalk(g, edges, own, k)
    BY <2>6, <2>7 DEF IsWalk
  <2> QED
    BY <2>1, <2>8
<1> HIDE DEF T
<1>3. \A k \in 0 .. n : k \in T
  BY <1>1, <1>2, UpTo
<1>4. n \in 0 .. n
  OBVIOUS
<1> QED
  BY <1>3, <1>4 DEF T

\* An inflow depends on the changes of its sources.
LEMMA SameInflow ==
  ASSUME NEW edges, NEW c, NEW d, NEW n, \A e \in edges : e.target = n => c[e.source] = d[e.source]
  PROVE  Inflow(edges, c, n) = Inflow(edges, d, n)
<1> DEFINE E == {e \in edges : e.target = n}
<1>1. \A e \in E : c[e.source] * e.sensitivity = d[e.source] * e.sensitivity
  OBVIOUS
<1> HIDE DEF E
<1>2. [e \in E |-> c[e.source] * e.sensitivity] = [e \in E |-> d[e.source] * e.sensitivity]
  BY <1>1, Zenon
<1> QED
  BY <1>2, Zenon DEF Inflow, E

\* In d the nodes of the first k places have changed by their own adjustment and their inflow,
\* the others by their own adjustment.
Solves(d, edges, own, order, k) ==
  /\ d = [n \in Nodes |-> d[n]]
  /\ \A i \in 1 .. Len(order) :
       d[order[i]] = IF i <= k THEN own[order[i]] + Inflow(edges, d, order[i]) ELSE own[order[i]]

\* One pass in topological order solves every node: by induction over the places.
LEMMA DeltasSolve ==
  ASSUME NEW edges, NEW own, own = [n \in Nodes |-> own[n]], NEW order,
         Listed(order, Nodes), LeadsForward(edges, order), NEW f, IsDeltas(f, edges, own, order, Len(order))
  PROVE  Solves(f[Len(order)], edges, own, order, Len(order))
<1>1. PICK l \in Nat : l = Len(order)
  BY DEF Listed
<1> DEFINE T == {k \in 0 .. l : Solves(f[k], edges, own, order, k)}
<1>2. \A k \in 0 .. l : f[k] = IF k = 0 THEN own
                        ELSE [f[k - 1] EXCEPT ![order[k]] = @ + Inflow(edges, f[k - 1], order[k])]
  BY <1>1 DEF IsDeltas
<1>3. /\ \A i \in 1 .. l : order[i] \in Nodes
      /\ \A i, k \in 1 .. l : order[i] = order[k] => i = k
  BY <1>1 DEF Listed, Once
<1>4. 0 \in T
  <2>1. 0 \in 0 .. l /\ \A i \in 1 .. l : ~(i <= 0)
    OBVIOUS
  <2>2. f[0] = own
    BY <1>2, <2>1
  <2> QED
    BY <1>1, <2>1, <2>2 DEF Solves
<1>5. ASSUME NEW k \in 1 .. l, k - 1 \in T PROVE k \in T
  <2>1. k \in 0 .. l /\ k # 0
    OBVIOUS
  <2>2. PICK c : c = f[k - 1]
    OBVIOUS
  <2>3. /\ c = [n \in Nodes |-> c[n]]
        /\ \A i \in 1 .. l : c[order[i]] = IF i <= k - 1 THEN own[order[i]] + Inflow(edges, c, order[i])
                                           ELSE own[order[i]]
    BY <1>1, <1>5, <2>2 DEF Solves
  <2>4. PICK d : d = f[k]
    OBVIOUS
  <2>5. d = [c EXCEPT ![order[k]] = @ + Inflow(edges, c, order[k])]
    BY <1>2, <2>1, <2>2, <2>4
  <2>6. /\ d = [n \in Nodes |-> d[n]]
        /\ \A n \in Nodes : d[n] = IF n = order[k] THEN c[n] + Inflow(edges, c, n) ELSE c[n]
    BY <1>3, <2>3, <2>5
  <2>7. ASSUME NEW i \in 1 .. l, i <= k
        PROVE  Inflow(edges, c, order[i]) = Inflow(edges, d, order[i])
    <3>1. ASSUME NEW e \in edges, e.target = order[i] PROVE c[e.source] = d[e.source]
      <4>1. PICK j \in 1 .. l : j < i /\ order[j] = e.source
        BY <1>1, <3>1 DEF LeadsForward
      <4>2. j # k
        BY <2>7, <4>1
      <4>3. order[j] # order[k] /\ order[j] \in Nodes
        BY <1>3, <4>2
      <4> QED
        BY <2>6, <4>1, <4>3
    <3> QED
      BY <3>1, SameInflow
  <2>8. ASSUME NEW i \in 1 .. l
        PROVE  d[order[i]] = IF i <= k THEN own[order[i]] + Inflow(edges, d, order[i]) ELSE own[order[i]]
    <3>1. CASE i = k
      <4>1. i <= k /\ ~(i <= k - 1)
        BY <3>1
      <4>2. c[order[i]] = own[order[i]]
        BY <2>3, <4>1
      <4>3. d[order[i]] = c[order[i]] + Inflow(edges, c, order[i])
        BY <1>3, <2>6, <3>1
      <4> QED
        BY <2>7, <4>1, <4>2, <4>3
    <3>2. CASE i # k
      <4>1. order[i] # order[k] /\ order[i] \in Nodes /\ (i <= k <=> i <= k - 1)
        BY <1>3, <3>2
      <4>2. d[order[i]] = c[order[i]]
        BY <2>6, <4>1
      <4>3. CASE i <= k
        <5>1. c[order[i]] = own[order[i]] + Inflow(edges, c, order[i])
          BY <2>3, <4>1, <4>3
        <5> QED
          BY <2>7, <4>2, <4>3, <5>1
      <4>4. CASE ~(i <= k)
        BY <2>3, <4>1, <4>2, <4>4
      <4> QED
        BY <4>3, <4>4
    <3> QED
      BY <3>1, <3>2
  <2>9. Solves(d, edges, own, order, k)
    BY <1>1, <2>6, <2>8 DEF Solves
  <2> QED
    BY <2>1, <2>4, <2>9
<1> HIDE DEF T
<1>6. \A k \in 0 .. l : k \in T
  BY <1>4, <1>5, UpTo
<1>7. l \in 0 .. l
  OBVIOUS
<1> QED
  BY <1>1, <1>6, <1>7 DEF T

\* Walking all edges at once reaches the same: after k steps the first k places are final.
LEMMA WalkReaches ==
  ASSUME NEW edges, NEW own, NEW order, Listed(order, Nodes), LeadsForward(edges, order),
         NEW d, Solves(d, edges, own, order, Len(order)),
         own = [n \in Nodes |-> own[n]], NEW w, IsWalk(w, edges, own, NodeCount)
  PROVE  w[NodeCount] = d
<1>1. PICK l \in Nat, N \in Nat : l = Len(order) /\ N = NodeCount /\ l <= N
  BY ListIsShort, GraphConstants
<1> DEFINE T == {k \in 0 .. N : \A i \in 1 .. l : i <= k => w[k][order[i]] = d[order[i]]}
<1>2. \A k \in 0 .. N : w[k] = IF k = 0 THEN own ELSE [m \in Nodes |-> own[m] + Inflow(edges, w[k - 1], m)]
  BY <1>1 DEF IsWalk
<1>3. /\ \A i \in 1 .. l : order[i] \in Nodes
      /\ \A n \in Nodes : \E i \in 1 .. l : n = order[i]
  BY <1>1 DEF Listed
<1>4. /\ d = [n \in Nodes |-> d[n]]
      /\ \A i \in 1 .. l : d[order[i]] = own[order[i]] + Inflow(edges, d, order[i])
  BY <1>1 DEF Solves
<1>5. 0 \in T
  BY <1>1
<1>6. ASSUME NEW k \in 1 .. N, k - 1 \in T PROVE k \in T
  <2>1. k \in 0 .. N /\ k # 0
    OBVIOUS
  <2>2. PICK v : v = w[k - 1]
    OBVIOUS
  <2>3. \A i \in 1 .. l : i <= k - 1 => v[order[i]] = d[order[i]]
    BY <1>6, <2>2
  <2>4. w[k] = [m \in Nodes |-> own[m] + Inflow(edges, v, m)]
    BY <1>2, <2>1, <2>2
  <2>5. ASSUME NEW i \in 1 .. l, i <= k PROVE w[k][order[i]] = d[order[i]]
    <3>1. ASSUME NEW e \in edges, e.target = order[i] PROVE v[e.source] = d[e.source]
      <4>1. PICK j \in 1 .. l : j < i /\ order[j] = e.source
        BY <1>1, <3>1 DEF LeadsForward
      <4>2. j <= k - 1
        BY <2>5, <4>1
      <4> QED
        BY <2>3, <4>1, <4>2
    <3>2. Inflow(edges, v, order[i]) = Inflow(edges, d, order[i])
      BY <3>1, SameInflow
    <3>3. w[k][order[i]] = own[order[i]] + Inflow(edges, v, order[i])
      BY <1>3, <2>4
    <3> QED
      BY <1>4, <3>2, <3>3
  <2> QED
    BY <2>1, <2>5
<1> HIDE DEF T
<1>7. \A k \in 0 .. N : k \in T
  BY <1>5, <1>6, UpTo
<1>8. N \in 0 .. N
  OBVIOUS
<1>9. \A i \in 1 .. l : i <= N
  BY <1>1
<1>10. \A i \in 1 .. l : w[N][order[i]] = d[order[i]]
  BY <1>7, <1>8, <1>9 DEF T
<1>11. \A n \in Nodes : w[N][n] = d[n]
  BY <1>3, <1>10
<1>12. w[N] = [n \in Nodes |-> w[N][n]]
  <2>1. CASE N = 0
    BY <1>2, <1>8, <2>1
  <2>2. CASE N # 0
    BY <1>2, <1>8, <2>2
  <2> QED
    BY <2>1, <2>2
<1>13. [n \in Nodes |-> w[N][n]] = [n \in Nodes |-> d[n]]
  BY <1>11, Zenon
<1> QED
  BY <1>1, <1>4, <1>12, <1>13

\* For every graph without a cycle one pass gives what walking every edge gives (propagate_linear).
LEMMA DeltasAreWalked ==
  ASSUME NEW edges \in SUBSET Edges, IsFiniteSet(edges), Acyclic(edges), NEW overrides
  PROVE  Deltas(edges, overrides) = Walked(edges, overrides)
<1>1. PICK order : order = TopologicalSort(edges)
  OBVIOUS
<1>2. Listed(order, Nodes) /\ LeadsForward(edges, order)
  BY <1>1, SortIsTopological
<1>3. PICK own : own = [n \in Nodes |-> Adjustment(overrides, n)]
  OBVIOUS
<1>4. own = [n \in Nodes |-> own[n]]
  BY <1>3
<1>5. Len(order) \in Nat /\ NodeCount \in Nat
  BY <1>2, ListIsShort, GraphConstants
<1>6. PICK d : d = Deltas(edges, overrides)
  OBVIOUS
<1>7. Solves(d, edges, own, order, Len(order))
  <2> DEFINE deltas[k \in 0 .. Len(order)] ==
               IF k = 0 THEN own
               ELSE [deltas[k - 1] EXCEPT ![order[k]] = @ + Inflow(edges, deltas[k - 1], order[k])]
             Is(f) == f = [k \in 0 .. Len(order) |-> IF k = 0 THEN own
               ELSE [f[k - 1] EXCEPT ![order[k]] = @ + Inflow(edges, f[k - 1], order[k])]]
  <2>1. PICK f : IsDeltas(f, edges, own, order, Len(order))
    BY <1>5, DeltasExist
  <2>2. Is(f)
    BY <2>1 DEF IsDeltas
  <2>3. deltas = CHOOSE g : Is(g)
    OBVIOUS
  <2>4. Is(deltas)
    <3> HIDE DEF Is, deltas
    <3> QED
      BY <2>2, <2>3
  <2>5. Deltas(edges, overrides) = deltas[Len(order)]
    BY <1>1, <1>3 DEF Deltas
  <2> HIDE DEF deltas
  <2>6. IsDeltas(deltas, edges, own, order, Len(order))
    BY <2>4 DEF IsDeltas
  <2>7. Solves(deltas[Len(order)], edges, own, order, Len(order))
    BY <1>2, <1>4, <2>6, DeltasSolve
  <2> QED
    BY <1>6, <2>5, <2>7
<1>8. Walked(edges, overrides) = d
  <2> DEFINE walk[k \in 0 .. Len(NodeOrder)] ==
               IF k = 0 THEN own ELSE [n \in Nodes |-> own[n] + Inflow(edges, walk[k - 1], n)]
             Is(f) == f = [k \in 0 .. Len(NodeOrder) |->
               IF k = 0 THEN own ELSE [n \in Nodes |-> own[n] + Inflow(edges, f[k - 1], n)]]
  <2>1. PICK f : IsWalk(f, edges, own, NodeCount)
    BY <1>5, WalkExists
  <2>2. Is(f)
    BY <2>1 DEF IsWalk, NodeCount
  <2>3. walk = CHOOSE g : Is(g)
    OBVIOUS
  <2>4. Is(walk)
    <3> HIDE DEF Is, walk
    <3> QED
      BY <2>2, <2>3
  <2>5. Walked(edges, overrides) = walk[Len(NodeOrder)]
    BY <1>3 DEF Walked
  <2> HIDE DEF walk
  <2>6. IsWalk(walk, edges, own, NodeCount)
    BY <2>4 DEF IsWalk, NodeCount
  <2>7. walk[NodeCount] = d
    BY <1>2, <1>4, <1>7, <2>6, WalkReaches
  <2> QED
    BY <2>5, <2>7 DEF NodeCount
<1> QED
  BY <1>6, <1>8

-----------------------------------------------------------------------------
(* Antithetic paths.                                                        *)

\* The shocks of mirrored paths sum up to zero, for any number of them.
LEMMA MirroredSums ==
  ASSUME NEW half \in Seq(Int)
  PROVE  ShockSum(Mirrored(half)) = 0
<1>1. PICK m \in Nat : m = Len(half) /\ DOMAIN half = 1 .. m
  OBVIOUS
<1>2. \A i \in 1 .. m : half[i] \in Int /\ -half[i] \in Int
  BY <1>1
<1>3. PICK other : other = [i \in 1 .. m |-> -half[i]]
  OBVIOUS
<1>4. other \in Seq(Int) /\ Len(other) = m /\ \A i \in 1 .. m : other[i] = -half[i]
  BY <1>2, <1>3
<1>5. Mirrored(half) = half \o other
  BY <1>1, <1>3 DEF Mirrored
<1>6. /\ half \o other \in Seq(Int) /\ Len(half \o other) = Len(half) + Len(other)
      /\ \A i \in 1 .. Len(half) + Len(other) :
           (half \o other)[i] = IF i <= Len(half) THEN half[i] ELSE other[i - Len(half)]
  BY <1>4, ConcatProperties
<1>7. PICK p \in Seq(Int) : /\ p = half \o other /\ Len(p) = m + m
                            /\ \A i \in 1 .. m + m : p[i] = IF i <= m THEN half[i] ELSE other[i - m]
  BY <1>1, <1>4, <1>6
<1>8. PICK f : SumsUp(f, p, m + m)
  <2>1. PICK n \in Nat : n = m + m
    OBVIOUS
  <2>2. n <= Len(p)
    BY <1>7, <2>1
  <2> QED
    BY <2>1, <2>2, SumsExist
<1>9. /\ f \in [0 .. m + m -> Int] /\ f[0] = 0 /\ \A i \in 1 .. m + m : f[i] = f[i - 1] + p[i]
  BY <1>8 DEF SumsUp
<1>10. ShockSum(p) = f[m + m]
  <2> DEFINE sum[i \in 0 .. Len(p)] == IF i = 0 THEN 0 ELSE sum[i - 1] + p[i]
             Is(g) == g = [i \in 0 .. Len(p) |-> IF i = 0 THEN 0 ELSE g[i - 1] + p[i]]
  <2>1. Is(f)
    <3>1. 0 .. Len(p) = 0 .. m + m
      BY <1>7
    <3>2. \A i \in 0 .. m + m : i = 0 \/ i \in 1 .. m + m
      OBVIOUS
    <3>3. \A i \in 0 .. m + m : f[i] = IF i = 0 THEN 0 ELSE f[i - 1] + p[i]
      BY <1>9, <3>2
    <3>4. f = [i \in 0 .. m + m |-> f[i]]
      BY <1>9
    <3>5. f = [i \in 0 .. m + m |-> IF i = 0 THEN 0 ELSE f[i - 1] + p[i]]
      BY <3>3, <3>4
    <3> QED
      BY <3>1, <3>5
  <2>2. sum = CHOOSE g : Is(g)
    OBVIOUS
  <2>3. Is(sum)
    <3> HIDE DEF Is, sum
    <3> QED
      BY <2>1, <2>2
  <2>4. ShockSum(p) = sum[Len(p)]
    BY DEF ShockSum
  <2> HIDE DEF sum
  <2>5. \A i \in 0 .. m + m : sum[i] = IF i = 0 THEN 0 ELSE sum[i - 1] + p[i]
    BY <1>7, <2>3
  <2>6. sum[0] = 0 /\ \A i \in 1 .. m + m : sum[i] = sum[i - 1] + p[i]
    BY <2>5
  <2>7. Starts(sum, p, m + m) /\ Starts(f, p, m + m)
    BY <1>9, <2>6 DEF Starts
  <2>8. \A i \in 0 .. m + m : sum[i] = f[i]
    BY <2>7, SumsAgree
  <2>9. m + m \in 0 .. m + m
    OBVIOUS
  <2> QED
    BY <1>7, <2>4, <2>8, <2>9
<1> DEFINE T == {k \in 0 .. m : f[m + k] = f[m] - f[k]}
<1>11. 0 \in T
  <2>1. m \in 0 .. m + m /\ m + 0 = m /\ 0 \in 0 .. m
    OBVIOUS
  <2>2. f[m] \in Int
    BY <1>9, <2>1
  <2> QED
    BY <1>9, <2>1, <2>2
<1>12. ASSUME NEW k \in 1 .. m, k - 1 \in T PROVE k \in T
  <2>1. /\ k \in 0 .. m /\ k - 1 \in 0 .. m + m /\ k \in 1 .. m + m /\ m \in 0 .. m + m
        /\ m + k \in 1 .. m + m /\ (m + k) - 1 = m + (k - 1) /\ ~(m + k <= m) /\ (m + k) - m = k /\ k <= m
    OBVIOUS
  <2>2. PICK x \in Int, y \in Int : x = f[m] /\ y = f[k - 1]
    BY <1>9, <2>1
  <2>3. PICK h \in Int : h = half[k]
    BY <1>2
  <2>4. f[m + (k - 1)] = x - y
    BY <1>12, <2>2
  <2>5. f[m + k] = (x - y) + (-h)
    <3>1. p[m + k] = other[k] /\ other[k] = -h
      BY <1>4, <1>7, <2>1, <2>3
    <3>2. f[m + k] = f[m + (k - 1)] + p[m + k]
      BY <1>9, <2>1
    <3> QED
      BY <2>4, <3>1, <3>2
  <2>6. f[k] = y + h
    BY <1>7, <1>9, <2>1, <2>2, <2>3
  <2>7. (x - y) + (-h) = x - (y + h)
    OBVIOUS
  <2> QED
    BY <2>1, <2>2, <2>5, <2>6, <2>7
<1> HIDE DEF T
<1>13. \A k \in 0 .. m : k \in T
  BY <1>11, <1>12, UpTo
<1>14. m \in 0 .. m /\ m \in 0 .. m + m
  OBVIOUS
<1>15. f[m + m] = f[m] - f[m] /\ f[m] \in Int
  BY <1>9, <1>13, <1>14 DEF T
<1> QED
  BY <1>5, <1>7, <1>10, <1>15

-----------------------------------------------------------------------------
(* Requests.                                                                *)

\* q has the fields of a request.
IsRequest(q) ==
  q = [at |-> q.at, kind |-> q.kind, specs |-> q.specs, session |-> q.session,
       results |-> q.results, listed |-> q.listed, answer |-> q.answer]

\* The rows of a request.
StoredFor(stored, r) == {s \in stored : s[1] = r}

\* Its first n rows.
Session(r, n) == {<<r, i>> : i \in 1 .. n}

\* The results are a sequence.
IsSequence(results) == (\E S : results \in Seq(S)) /\ Len(results) \in Nat /\ DOMAIN results = 1 .. Len(results)

\* Every result is what propagation gives for its draw.
Follows(g, results) ==
  \A i \in DOMAIN results : results[i].values = PropagateLinear(g, results[i].drawn)

\* The kinds of requests that run specifications.
RunKinds == {"run", "compare", "simulate", "friday"}

\* What a request has done so far: its session holds a row for every result.
Progress(r, q, g) ==
  /\ IsRequest(q) /\ q.at \in {"idle", "running", "done"}
  /\ q.at = "idle" => q = NoRequest
  /\ q.at = "running" => /\ q.kind \in RunKinds /\ IsSequence(q.results)
                         /\ q.session = Session(r, Len(q.results))
  /\ q.kind \in RunKinds \cup {"none", "plain", "antithetic"}
  /\ q.kind \in RunKinds => Follows(g, q.results)
  /\ q.kind = "antithetic" => \E half \in Seq(Int) : q.results = Mirrored(half)

\* What is stored for it: every row of a request that is audited, none of another.
Storage(r, q, stored, audits) ==
  IF r \in audits
  THEN /\ q.at = "done" /\ Len(q.specs) \in Nat
       /\ StoredFor(stored, r) = Session(r, Len(q.specs))
  ELSE StoredFor(stored, r) = {}

\* The inductive invariant of the scenarios.
ScenarioInv ==
  /\ graph \in Graphs /\ req = [r \in Requests |-> req[r]]
  /\ \A r \in Requests : Progress(r, req[r], graph) /\ Storage(r, req[r], scenarios, audited)

\* It holds of a request that has not begun.
LEMMA NoneRequested == IsRequest(NoRequest) /\ \A r, g : Progress(r, NoRequest, g)
<1>1. IsRequest(NoRequest) /\ NoRequest.at = "idle" /\ NoRequest.kind = "none"
  BY DEF NoRequest, IsRequest
<1> QED
  BY <1>1 DEF Progress, RunKinds

\* It holds initially.
LEMMA ScenariosInitial == ScenarioInit => ScenarioInv
<1> SUFFICES ASSUME ScenarioInit PROVE ScenarioInv
  OBVIOUS
<1>1. graph \in Graphs /\ scenarios = {} /\ audited = {} /\ req = [r \in Requests |-> NoRequest]
  BY DEF ScenarioInit
<1>2. \A r \in Requests : req[r] = NoRequest
  BY <1>1
<1>3. req = [r \in Requests |-> req[r]]
  BY <1>1
<1>4. \A r \in Requests : Progress(r, req[r], graph)
  BY <1>2, NoneRequested
<1>5. \A r \in Requests : Storage(r, req[r], scenarios, audited)
  BY <1>1 DEF Storage, StoredFor
<1> QED
  BY <1>1, <1>3, <1>4, <1>5 DEF ScenarioInv

\* A step of one request that stores nothing keeps it.
LEMMA RequestMoves ==
  ASSUME ScenarioInv, NEW r \in Requests, NEW q, req' = [req EXCEPT ![r] = q],
         UNCHANGED <<graph, scenarios, audited>>, Progress(r, q, graph), req[r].at # "done"
  PROVE  ScenarioInv'
<1>1. /\ graph \in Graphs /\ req = [s \in Requests |-> req[s]]
      /\ \A s \in Requests : Progress(s, req[s], graph) /\ Storage(s, req[s], scenarios, audited)
  BY DEF ScenarioInv
<1>2. /\ req' = [s \in Requests |-> req'[s]]
      /\ \A s \in Requests : req'[s] = IF s = r THEN q ELSE req[s]
  BY <1>1
<1>3. Storage(r, q, scenarios, audited)
  BY <1>1 DEF Storage
<1>4. \A s \in Requests : Progress(s, req'[s], graph) /\ Storage(s, req'[s], scenarios, audited)
  BY <1>1, <1>2, <1>3
<1>5. \A s \in Requests : Progress(s, req[s], graph)' /\ Storage(s, req[s], scenarios, audited)'
  BY <1>4 DEF Progress, Storage, IsRequest, IsSequence, Follows, NoRequest, Session, StoredFor, RunKinds
<1> QED
  BY <1>1, <1>2, <1>5 DEF ScenarioInv
\* A request that is not done moves without storing anything.
Stays(r) == UNCHANGED <<graph, scenarios, audited>> /\ req[r].at # "done"

\* Beginning to run keeps it.
LEMMA RequestBegins ==
  ASSUME ScenarioInv, NEW r \in Requests, NEW kind \in RunKinds, NEW specs, Stays(r),
         req' = [req EXCEPT ![r] = [NoRequest EXCEPT !.at = "running", !.kind = kind, !.specs = specs]]
  PROVE  ScenarioInv'
<1>9. PICK q : q = [NoRequest EXCEPT !.at = "running", !.kind = kind, !.specs = specs]
  OBVIOUS
<1>1. IsRequest(q)
  BY <1>9 DEF NoRequest, IsRequest
<1>8. q.at = "running" /\ q.kind = kind /\ q.session = {} /\ q.results = << >>
  BY <1>9 DEF NoRequest
<1>7. req' = [req EXCEPT ![r] = q]
  BY <1>9
<1>2. IsRequest(q) /\ q.at = "running" /\ q.kind = kind /\ q.session = {} /\ q.results = << >>
  BY <1>1, <1>8
<1>3. IsSequence(<< >>)
  <2>1. << >> \in Seq({}) /\ Len(<< >>) = 0 /\ DOMAIN << >> = 1 .. 0
    OBVIOUS
  <2> QED
    BY <2>1 DEF IsSequence
<1>4. Session(r, Len(<< >>)) = {}
  BY DEF Session
<1>5. Follows(graph, << >>)
  BY DEF Follows
<1>6. Progress(r, q, graph)
  BY <1>2, <1>3, <1>4, <1>5 DEF Progress, RunKinds
<1> QED
  BY <1>6, <1>7, RequestMoves DEF Stays

\* An answer that stores nothing keeps it, whatever the answer is.
LEMMA RequestAnswered ==
  ASSUME ScenarioInv, NEW r \in Requests, NEW answer, Stays(r), Answered(r, answer)
  PROVE  ScenarioInv'
<1>1. PICK p : p = req[r]
  OBVIOUS
<1>2. Progress(r, p, graph) /\ req = [s \in Requests |-> req[s]]
  BY <1>1 DEF ScenarioInv
<1>9. PICK q : q = [p EXCEPT !.at = "done", !.session = {}, !.answer = answer]
  OBVIOUS
<1>3. IsRequest(p)
  BY <1>2 DEF Progress
<1>4. IsRequest(q)
  BY <1>3, <1>9 DEF IsRequest
<1>8. q.at = "done" /\ q.kind = p.kind /\ q.results = p.results
  BY <1>3, <1>9 DEF IsRequest
<1>5. req' = [req EXCEPT ![r] = q]
  BY <1>1, <1>2, <1>9 DEF Answered
<1>6. IsRequest(q) /\ q.at = "done" /\ q.kind = p.kind /\ q.results = p.results
  BY <1>4, <1>8
<1>7. Progress(r, q, graph)
  BY <1>2, <1>6 DEF Progress
<1> QED
  BY <1>5, <1>7, RequestMoves DEF Stays

\* POST .../scenarios and .../compare.
LEMMA PostScenariosStep ==
  ASSUME ScenarioInv, NEW r \in Requests, PostScenarios(r)
  PROVE  ScenarioInv'
<1>1. Stays(r)
  BY DEF PostScenarios, Stays
<1>2. CASE Answered(r, "404")
  BY <1>1, <1>2, RequestAnswered
<1>3. CASE ~Answered(r, "404")
  <2>1. PICK kind \in {"run", "compare"} : \E n \in 1 .. MaxSpecs : \E specs \in [1 .. n -> Overrides] :
          req' = [req EXCEPT ![r] = [NoRequest EXCEPT !.at = "running", !.kind = kind, !.specs = specs]]
    BY <1>3 DEF PostScenarios
  <2>2. PICK specs :
          req' = [req EXCEPT ![r] = [NoRequest EXCEPT !.at = "running", !.kind = kind, !.specs = specs]]
    BY <2>1
  <2>3. kind \in RunKinds
    BY DEF RunKinds
  <2> QED
    BY <1>1, <2>2, <2>3, RequestBegins
<1> QED
  BY <1>2, <1>3

\* POST /simulate.
LEMMA PostSimulateStep ==
  ASSUME ScenarioInv, NEW r \in Requests, PostSimulate(r)
  PROVE  ScenarioInv'
<1>1. Stays(r)
  BY DEF PostSimulate, Stays
<1>2. PICK specs :
        req' = [req EXCEPT ![r] = [NoRequest EXCEPT !.at = "running", !.kind = "simulate", !.specs = specs]]
  BY DEF PostSimulate
<1>3. "simulate" \in RunKinds
  BY DEF RunKinds
<1> QED
  BY <1>1, <1>2, <1>3, RequestBegins

\* A scenario FRIDAY asks for.
LEMMA EvaluateScenarioStep ==
  ASSUME ScenarioInv, NEW r \in Requests, EvaluateScenario(r)
  PROVE  ScenarioInv'
<1>1. Stays(r)
  BY DEF EvaluateScenario, Stays
<1>2. CASE Answered(r, "404")
  BY <1>1, <1>2, RequestAnswered
<1>3. CASE ~Answered(r, "404")
  <2>1. PICK specs :
          req' = [req EXCEPT ![r] = [NoRequest EXCEPT !.at = "running", !.kind = "friday", !.specs = specs]]
    BY <1>3 DEF EvaluateScenario
  <2>2. "friday" \in RunKinds
    BY DEF RunKinds
  <2> QED
    BY <1>1, <2>1, <2>2, RequestBegins
<1> QED
  BY <1>2, <1>3

\* A flush that fails, and the answer of a simulation, which always fails.
LEMMA FailureStep ==
  ASSUME ScenarioInv, NEW r \in Requests, StorageFails(r) \/ AnswerSimulate(r)
  PROVE  ScenarioInv'
<1>1. Stays(r)
  BY DEF StorageFails, AnswerSimulate, AllRun, Stays
<1>2. PICK answer : Answered(r, answer)
  BY DEF StorageFails, AnswerSimulate
<1> QED
  BY <1>1, <1>2, RequestAnswered

\* A comparison.
LEMMA CompareStep ==
  ASSUME ScenarioInv, NEW r \in Requests, Compare(r)
  PROVE  ScenarioInv'
<1>1. Stays(r)
  BY DEF Compare, AllRun, Stays
<1>2. PICK p : p = req[r]
  OBVIOUS
<1>3. Progress(r, p, graph) /\ req = [s \in Requests |-> req[s]] /\ p.at = "running"
  BY <1>2 DEF ScenarioInv, Compare, AllRun
<1>4. PICK listed : req' = [req EXCEPT ![r].listed = listed]
  BY DEF Compare
<1> DEFINE q == [p EXCEPT !.listed = listed]
<1>5. IsRequest(p)
  BY <1>3 DEF Progress
<1>6. q = [at |-> p.at, kind |-> p.kind, specs |-> p.specs, session |-> p.session,
           results |-> p.results, listed |-> listed, answer |-> p.answer]
  BY <1>5 DEF IsRequest
<1>7. req' = [req EXCEPT ![r] = q]
  BY <1>2, <1>3, <1>4
<1> HIDE DEF q
<1>8. IsRequest(q) /\ q.at = "running" /\ q.kind = p.kind /\ q.results = p.results /\ q.session = p.session
  BY <1>3, <1>6 DEF IsRequest
<1>9. Progress(r, q, graph)
  BY <1>3, <1>8 DEF Progress
<1> QED
  BY <1>1, <1>7, <1>9, RequestMoves DEF Stays

\* A row more.
LEMMA SessionGrows ==
  ASSUME NEW r, NEW n \in Nat
  PROVE  Session(r, n + 1) = Session(r, n) \cup {<<r, n + 1>>}
<1>1. \A i : i \in 1 .. n + 1 <=> i \in 1 .. n \/ i = n + 1
  OBVIOUS
<1> QED
  BY <1>1, Zenon DEF Session

\* A result more.
LEMMA OneMoreResult ==
  ASSUME NEW results, IsSequence(results), NEW x
  PROVE  /\ IsSequence(Append(results, x)) /\ Len(results) \in Nat
         /\ Len(Append(results, x)) = Len(results) + 1
         /\ \A i \in DOMAIN Append(results, x) :
              (i \in DOMAIN results /\ Append(results, x)[i] = results[i]) \/ Append(results, x)[i] = x
<1>1. PICK S : results \in Seq(S)
  BY DEF IsSequence
<1>2. PICK T : T = S \cup {x}
  OBVIOUS
<1>3. \A i \in 1 .. Len(results) : results[i] \in T
  BY <1>1, <1>2
<1>4. Len(results) \in Nat /\ results = [i \in 1 .. Len(results) |-> results[i]]
  BY <1>1
<1>5. results \in Seq(T) /\ x \in T
  BY <1>2, <1>3, <1>4
<1>6. PICK more : more = Append(results, x)
  OBVIOUS
<1>7. /\ more \in Seq(T) /\ Len(more) = Len(results) + 1
      /\ more[Len(results) + 1] = x /\ \A i \in 1 .. Len(results) : more[i] = results[i]
  BY <1>5, <1>6
<1>8. Len(more) \in Nat /\ DOMAIN more = 1 .. Len(more) /\ DOMAIN results = 1 .. Len(results)
  BY <1>1, <1>7
<1>9. IsSequence(more)
  BY <1>7, <1>8 DEF IsSequence
<1>10. \A i \in 1 .. Len(results) + 1 : i = Len(results) + 1 \/ i \in 1 .. Len(results)
  BY <1>4
<1> QED
  BY <1>4, <1>6, <1>7, <1>8, <1>9, <1>10

\* One specification run.
LEMMA RunScenarioStep ==
  ASSUME ScenarioInv, NEW r \in Requests, RunScenario(r)
  PROVE  ScenarioInv'
<1>1. Stays(r)
  BY DEF RunScenario, Stays
<1>2. PICK p : p = req[r]
  OBVIOUS
<1>3. Progress(r, p, graph) /\ req = [s \in Requests |-> req[s]] /\ p.at = "running"
  BY <1>2 DEF ScenarioInv, RunScenario
<1>4. PICK drawn :
        req' = [req EXCEPT
          ![r].results = Append(@, [drawn |-> drawn, values |-> PropagateLinear(graph, drawn)]),
          ![r].session = @ \cup {<<r, Len(req[r].results) + 1>>}]
  BY DEF RunScenario
<1>5. PICK x : x = [drawn |-> drawn, values |-> PropagateLinear(graph, drawn)]
  OBVIOUS
<1>6. x.values = PropagateLinear(graph, x.drawn)
  BY <1>5
<1>7. PICK results : results = Append(p.results, x)
  OBVIOUS
<1>8. PICK session : session = p.session \cup {<<r, Len(p.results) + 1>>}
  OBVIOUS
<1>9. PICK q : q = [p EXCEPT !.results = results, !.session = session]
  OBVIOUS
<1>10. IsRequest(p)
  BY <1>3 DEF Progress
<1>11. IsRequest(q)
  BY <1>9, <1>10 DEF IsRequest
<1>12. q.at = p.at /\ q.kind = p.kind /\ q.results = results /\ q.session = session
  BY <1>9, <1>10 DEF IsRequest
<1>13. req' = [req EXCEPT ![r] = q]
  <2>1. p.results = req[r].results /\ p.session = req[r].session
    BY <1>2
  <2>2. req' = [req EXCEPT ![r].results = results, ![r].session = session]
    BY <1>2, <1>4, <1>5, <1>7, <1>8
  <2> QED
    BY <1>2, <1>3, <1>9, <2>2
<1>14. IsSequence(p.results) /\ p.session = Session(r, Len(p.results)) /\ p.kind \in RunKinds
  BY <1>3 DEF Progress
<1>15. /\ IsSequence(results) /\ Len(p.results) \in Nat /\ Len(results) = Len(p.results) + 1
       /\ \A i \in DOMAIN results : (i \in DOMAIN p.results /\ results[i] = p.results[i]) \/ results[i] = x
  BY <1>7, <1>14, OneMoreResult
<1>16. session = Session(r, Len(results))
  BY <1>8, <1>14, <1>15, SessionGrows
<1>17. Follows(graph, results)
  <2>1. Follows(graph, p.results)
    BY <1>3, <1>14 DEF Progress
  <2> QED
    BY <1>6, <1>15, <2>1 DEF Follows
<1>18. p.kind # "antithetic"
  BY <1>14 DEF RunKinds
<1>19. Progress(r, q, graph)
  BY <1>3, <1>11, <1>12, <1>14, <1>15, <1>16, <1>17, <1>18 DEF Progress
<1> QED
  BY <1>1, <1>13, <1>19, RequestMoves DEF Stays

\* The commit of the session with its audit row.
LEMMA CommitScenariosStep ==
  ASSUME ScenarioInv, NEW r \in Requests, CommitScenarios(r)
  PROVE  ScenarioInv'
<1>1. PICK p : p = req[r]
  OBVIOUS
<1>2. /\ graph \in Graphs /\ req = [s \in Requests |-> req[s]]
      /\ \A s \in Requests : Progress(s, req[s], graph) /\ Storage(s, req[s], scenarios, audited)
  BY DEF ScenarioInv
<1>3. Progress(r, p, graph) /\ Storage(r, p, scenarios, audited)
  BY <1>1, <1>2
<1>4. p.at = "running" /\ Len(p.results) = Len(p.specs)
  BY <1>1 DEF CommitScenarios, AllRun
<1>5. p.session = Session(r, Len(p.specs)) /\ Len(p.specs) \in Nat
  BY <1>3, <1>4 DEF Progress, IsSequence
<1>6. r \notin audited /\ StoredFor(scenarios, r) = {}
  BY <1>3, <1>4 DEF Storage
<1>7. PICK q : q = [p EXCEPT !.at = "done", !.session = {}, !.answer = "200"]
  OBVIOUS
<1>8. IsRequest(p)
  BY <1>3 DEF Progress
<1>9. IsRequest(q)
  BY <1>7, <1>8 DEF IsRequest
<1>10. q.at = "done" /\ q.kind = p.kind /\ q.results = p.results /\ q.specs = p.specs
  BY <1>7, <1>8 DEF IsRequest
<1>11. Progress(r, q, graph)
  BY <1>3, <1>9, <1>10 DEF Progress
<1>12. /\ req' = [req EXCEPT ![r] = q] /\ graph' = graph
       /\ scenarios' = scenarios \cup p.session /\ audited' = audited \cup {r}
  BY <1>1, <1>7 DEF CommitScenarios, Answered
<1>13. /\ req' = [s \in Requests |-> req'[s]]
       /\ \A s \in Requests : req'[s] = IF s = r THEN q ELSE req[s]
  BY <1>2, <1>12
<1>14. \A s : s \in p.session => s[1] = r
  BY <1>5 DEF Session
<1>15. StoredFor(scenarios', r) = Session(r, Len(p.specs))
  <2>1. StoredFor(scenarios', r) = p.session
    BY <1>6, <1>12, <1>14 DEF StoredFor
  <2> QED
    BY <1>5, <2>1
<1>16. \A s \in Requests : s # r => StoredFor(scenarios', s) = StoredFor(scenarios, s)
  BY <1>12, <1>14 DEF StoredFor
<1>17. Storage(r, q, scenarios', audited')
  BY <1>5, <1>10, <1>12, <1>15 DEF Storage
<1>18. \A s \in Requests : s # r => Storage(s, req[s], scenarios', audited')
  BY <1>2, <1>12, <1>16 DEF Storage
<1>19. \A s \in Requests : Progress(s, req'[s], graph) /\ Storage(s, req'[s], scenarios', audited')
  BY <1>2, <1>11, <1>13, <1>17, <1>18
<1>20. \A s \in Requests : Progress(s, req[s], graph)' /\ Storage(s, req[s], scenarios, audited)'
  BY <1>12, <1>19 DEF Progress, Storage, IsRequest, IsSequence, Follows, NoRequest, Session, StoredFor, RunKinds
<1> QED
  BY <1>2, <1>12, <1>13, <1>20 DEF ScenarioInv

\* A fan chart.
LEMMA PostFanChartStep ==
  ASSUME ScenarioInv, NEW r \in Requests, PostFanChart(r)
  PROVE  ScenarioInv'
<1>1. Stays(r)
  BY DEF PostFanChart, Stays
<1>2. PICK n \in Paths, antithetic \in BOOLEAN : \E paths \in Trajectories(n, antithetic) :
        req' = [req EXCEPT ![r] = [NoRequest EXCEPT
          !.at = "done", !.answer = "200", !.results = paths,
          !.kind = IF antithetic THEN "antithetic" ELSE "plain"]]
  BY DEF PostFanChart
<1>3. PICK paths \in Trajectories(n, antithetic) :
        req' = [req EXCEPT ![r] = [NoRequest EXCEPT
          !.at = "done", !.answer = "200", !.results = paths,
          !.kind = IF antithetic THEN "antithetic" ELSE "plain"]]
  BY <1>2
<1>4. PICK kind : kind = IF antithetic THEN "antithetic" ELSE "plain"
  OBVIOUS
<1>5. PICK q : q = [NoRequest EXCEPT !.at = "done", !.answer = "200", !.results = paths, !.kind = kind]
  OBVIOUS
<1>6. req' = [req EXCEPT ![r] = q]
  BY <1>3, <1>4, <1>5
<1>7. IsRequest(q)
  BY <1>5 DEF NoRequest, IsRequest
<1>8. q.at = "done" /\ q.kind = kind /\ q.results = paths
  BY <1>5 DEF NoRequest
<1>9. kind = "antithetic" => \E half \in Seq(Int) : paths = Mirrored(half)
  <2> SUFFICES ASSUME kind = "antithetic" PROVE \E half \in Seq(Int) : paths = Mirrored(half)
    OBVIOUS
  <2>1. antithetic
    BY <1>4
  <2>2. PICK half \in [1 .. n \div 2 -> Shocks] : paths = Mirrored(half)
    BY <1>3, <2>1 DEF Trajectories
  <2>3. n \in Nat /\ Shocks \subseteq Int
    BY ScenarioAssumption
  <2>4. PICK m \in Nat : m = n \div 2
    BY <2>3
  <2>5. half = [i \in 1 .. m |-> half[i]] /\ \A i \in 1 .. m : half[i] \in Int
    BY <2>2, <2>3, <2>4
  <2>6. half \in Seq(Int)
    BY <2>5
  <2> QED
    BY <2>2, <2>6
<1>10. kind \in {"plain", "antithetic"} /\ kind \notin RunKinds
  BY <1>4 DEF RunKinds
<1>11. Progress(r, q, graph)
  BY <1>7, <1>8, <1>9, <1>10 DEF Progress
<1> QED
  BY <1>1, <1>6, <1>11, RequestMoves DEF Stays

\* Every step keeps the invariant.
LEMMA ScenarioStep == ScenarioInv /\ [ScenarioNext]_scenarioVars => ScenarioInv'
<1> SUFFICES ASSUME ScenarioInv, [ScenarioNext]_scenarioVars PROVE ScenarioInv'
  OBVIOUS
<1>1. CASE UNCHANGED scenarioVars
  <2>1. UNCHANGED <<graph, scenarios, audited, req>>
    BY <1>1 DEF scenarioVars
  <2> QED
    BY <2>1 DEF ScenarioInv, Progress, Storage, IsRequest, IsSequence, Follows, NoRequest, Session, StoredFor, RunKinds
<1>2. CASE ScenarioNext
  <2>1. PICK r \in Requests :
          \/ PostScenarios(r) \/ PostSimulate(r) \/ EvaluateScenario(r)
          \/ RunScenario(r) \/ StorageFails(r) \/ Compare(r)
          \/ CommitScenarios(r) \/ AnswerSimulate(r) \/ PostFanChart(r)
    BY <1>2 DEF ScenarioNext
  <2> QED
    BY <2>1, PostScenariosStep, PostSimulateStep, EvaluateScenarioStep, RunScenarioStep, FailureStep,
       CompareStep, CommitScenariosStep, PostFanChartStep
<1> QED
  BY <1>1, <1>2

\* The invariant holds.
LEMMA ScenarioInvHolds == ScenarioSpec => []ScenarioInv
BY ScenariosInitial, ScenarioStep, PTL DEF ScenarioSpec

\* A session has as many rows as results.
LEMMA SessionSize ==
  ASSUME NEW r, NEW n \in Nat
  PROVE  Cardinality(Session(r, n)) = n
<1>1. \A i, k \in 1 .. n : <<r, i>> = <<r, k>> => i = k
  OBVIOUS
<1> DEFINE f == [i \in 1 .. n |-> <<r, i>>]
<1>2. f \in Bijection(1 .. n, Session(r, n))
  <2>1. f \in [1 .. n -> Session(r, n)] /\ \A i \in 1 .. n : f[i] = <<r, i>>
    BY DEF Session
  <2>2. \A s \in Session(r, n) : \E i \in 1 .. n : f[i] = s
    BY DEF Session
  <2> HIDE DEF f
  <2>3. f \in Injection(1 .. n, Session(r, n))
    BY <1>1, <2>1 DEF Injection, IsInjective
  <2>4. f \in Surjection(1 .. n, Session(r, n))
    BY <2>1, <2>2 DEF Surjection
  <2> QED
    BY <2>3, <2>4 DEF Bijection
<1>3. IsFiniteSet(1 .. n) /\ Cardinality(1 .. n) = n
  <2>1. 1 \in Int /\ n \in Int /\ (IF 1 > n THEN 0 ELSE n - 1 + 1) = n
    OBVIOUS
  <2> QED
    BY <2>1, FS_Interval
<1>4. ExistsBijection(1 .. n, Session(r, n))
  BY <1>2 DEF ExistsBijection
<1> QED
  BY <1>3, <1>4, FS_Bijection

\* What each request has and what is stored for it gives the properties.
LEMMA ScenariosSound == ScenarioInv => ScenariosAreSound
<1> SUFFICES ASSUME ScenarioInv PROVE ScenariosAreSound
  OBVIOUS
<1>1. /\ graph \in Graphs
      /\ \A r \in Requests : Progress(r, req[r], graph) /\ Storage(r, req[r], scenarios, audited)
  BY DEF ScenarioInv
<1>2. PropagationFollowsEveryEdge
  <2> SUFFICES ASSUME NEW r \in Requests, req[r].kind \notin {"none", "plain", "antithetic"}, Acyclic(graph),
                      NEW i \in DOMAIN req[r].results
               PROVE  req[r].results[i].values = Clipped(Walked(graph, req[r].results[i].drawn))
    BY DEF PropagationFollowsEveryEdge
  <2>1. req[r].kind \in RunKinds /\ Follows(graph, req[r].results)
    BY <1>1 DEF Progress
  <2>2. PICK drawn : drawn = req[r].results[i].drawn
    OBVIOUS
  <2>3. req[r].results[i].values = Clipped(Deltas(graph, drawn))
    BY <2>1, <2>2 DEF Follows, PropagateLinear
  <2>4. graph \in SUBSET Edges /\ IsFiniteSet(graph)
    BY <1>1, ScenarioAssumption
  <2>5. Deltas(graph, drawn) = Walked(graph, drawn)
    BY <2>4, DeltasAreWalked
  <2> QED
    BY <2>2, <2>3, <2>5
<1>3. ScenariosAreAudited
  <2> SUFFICES ASSUME NEW r \in Requests
               PROVE  IF r \in audited THEN Cardinality(StoredFor(scenarios, r)) = Len(req[r].specs)
                      ELSE StoredFor(scenarios, r) = {}
    BY DEF ScenariosAreAudited, StoredFor
  <2>1. Storage(r, req[r], scenarios, audited)
    BY <1>1
  <2>2. CASE r \in audited
    <3>1. StoredFor(scenarios, r) = Session(r, Len(req[r].specs)) /\ Len(req[r].specs) \in Nat
      BY <2>1, <2>2 DEF Storage
    <3>2. Cardinality(Session(r, Len(req[r].specs))) = Len(req[r].specs)
      BY <3>1, SessionSize
    <3> QED
      BY <2>2, <3>1, <3>2
  <2>3. CASE r \notin audited
    BY <2>1, <2>3 DEF Storage
  <2> QED
    BY <2>2, <2>3
<1>4. AntitheticIsUnbiased
  <2> SUFFICES ASSUME NEW r \in Requests, req[r].kind = "antithetic"
               PROVE  ShockSum(req[r].results) = 0
    BY DEF AntitheticIsUnbiased
  <2>1. PICK half \in Seq(Int) : req[r].results = Mirrored(half)
    BY <1>1 DEF Progress
  <2> QED
    BY <2>1, MirroredSums
<1> QED
  BY <1>2, <1>3, <1>4 DEF ScenariosAreSound

\* For any nodes, graphs, specifications, noise and shocks, whatever fails: a result is what walking
\* every edge of a graph without cycles gives, the scenarios of a request are stored with their audit
\* or not at all, and antithetic paths cancel (propagate_linear, run_scenarios,
\* sample_correlated_drivers).
THEOREM ScenariosHold == ScenarioSpec => []ScenariosAreSound
BY ScenarioInvHolds, ScenariosSound, PTL
=============================================================================
