----------------------------- MODULE MCAnalysis ------------------------------
(***************************************************************************)
(* Model-checking instance of the components that turn data into forecasts *)
(* and assessments.  They share no state, so a behaviour picks one of them *)
(* and runs it while the others rest (see MCServing).                      *)
(***************************************************************************)
EXTENDS UniverseRefresh, TailRisk, RiskAudit, ResearchEvidence, ForecastPipeline,
        ScenarioRuns, ModelWatch, TLC

CONSTANTS Focused, a, b

VARIABLE focus

TheNodes == <<"utilization", "demand", "capacity">>
TheBase == [utilization |-> 1, demand |-> 2, capacity |-> 2]
TheShocks == {-1, 0, 1}

\* An effect has one sign: demand raises what it drives, capacity lowers it.
TheSign == [utilization |-> 1, demand |-> 1, capacity |-> -1]
TheGraphs ==
  {g \in SUBSET [source : ToSet(TheNodes), target : ToSet(TheNodes), sensitivity : {1, -1}] :
     Cardinality(g) <= 3
     /\ \A e \in g : e.source # e.target /\ e.sensitivity = TheSign[e.target]}

\* The last one names no node of the graph.
TheOverrides == {[demand |-> 3], [capacity |-> 5], [demand |-> 0, capacity |-> 1], [nothing |-> 3]}

TheLists == {<<a, b>>, <<b, a>>, <<a>>}

analysisVars == <<focus, refreshVars, riskVars, auditVars, researchVars, pipelineVars,
                  scenarioVars, watchVars>>

PipelineRests ==
  /\ stage = "idle" /\ pressure = FALSE /\ series = Consumed /\ report = [rows |-> 0, coverage |-> 0]
  /\ clock = Unbounded /\ queue = <<>>
  /\ outcome = [k \in Candidates |-> Untried] /\ best = NoBest /\ forecast = NoForecast

\* Where a component starts in several ways, it does so when it is the one that runs.
AnalysisInit ==
  /\ focus \in Focused
  /\ (focus # "universe" => rows = {}) /\ RefreshInit
  /\ (focus # "risk" => book = {}) /\ RiskInit
  /\ (focus # "audit" => prices = <<>> /\ source = "stored") /\ AuditInit
  /\ ResearchInit
  /\ IF focus = "pipeline" THEN PipelineInit ELSE PipelineRests
  /\ (focus # "scenarios" => graph = {} /\ forecasts = 0) /\ ScenarioInit
  /\ WatchInit

Rest(n) ==
  /\ focus = n /\ UNCHANGED focus
  /\ n # "universe" => UNCHANGED refreshVars
  /\ n # "risk" => UNCHANGED riskVars
  /\ n # "audit" => UNCHANGED auditVars
  /\ n # "research" => UNCHANGED researchVars
  /\ n # "pipeline" => UNCHANGED pipelineVars
  /\ n # "scenarios" => UNCHANGED scenarioVars
  /\ n # "models" => UNCHANGED watchVars

AnalysisNext ==
  \/ Rest("universe") /\ RefreshNext
  \/ Rest("risk") /\ RiskNext
  \/ Rest("audit") /\ AuditNext
  \/ Rest("research") /\ ResearchNext
  \/ Rest("pipeline") /\ PipelineNext
  \/ Rest("scenarios") /\ ScenarioNext
  \/ Rest("models") /\ WatchNext

\* Clients are told apart by nothing but their requests.
ClientSymmetry == Permutations(Clients)

AnalysisSpec == AnalysisInit /\ [][AnalysisNext]_analysisVars
=============================================================================
