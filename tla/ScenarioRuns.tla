----------------------------- MODULE ScenarioRuns ---------------------------
(***************************************************************************)
(* Scenario requests (api/routers/scenarios.py, quick_simulate of          *)
(* api/app.py, evaluate_scenario of api/routers/friday.py) and the         *)
(* engines behind them.  POST .../scenarios and .../compare run one        *)
(* specification after the other, each adding a row to the request's       *)
(* session, write one audit row and commit when the request is torn down.  *)
(* POST /simulate brings its own session.  A fan chart simulates paths     *)
(* from a forecast's prediction and stores nothing.                        *)
(***************************************************************************)
EXTENDS ScenarioGraph

CONSTANTS
    Requests,
    Graphs,         \* sets of edges a scenario may be run on
    Overrides,      \* override functions a specification may carry
    Demand,         \* the node whose base value is the forecast's prediction
    Changes,        \* relative changes FRIDAY asks for, in Unit-ths
    MaxSpecs,       \* bound: specifications of a request
    Shocks,         \* driver shocks of one step, in Unit-ths
    Paths           \* numbers of paths asked for

ASSUME ScenarioAssumption ==
    /\ \A g \in Graphs : g \subseteq Edges /\ IsFiniteSet(g)
    /\ MaxSpecs \in Nat /\ Paths \subseteq Nat /\ Shocks \subseteq Int

VARIABLES
    graph,
    forecasts,      \* forecasts stored and committed
    scenarios,      \* committed scenario rows: <<request, position>>
    audited,        \* requests whose audit row is committed
    req             \* request -> its progress

scenarioVars == <<graph, forecasts, scenarios, audited, req>>

NoRequest == [at |-> "idle", kind |-> "none", specs |-> <<>>, session |-> {},
              results |-> <<>>, listed |-> <<>>, answer |-> "none"]

ScenarioInit ==
    /\ graph \in Graphs /\ forecasts \in {0, 1}
    /\ scenarios = {} /\ audited = {}
    /\ req = [r \in Requests |-> NoRequest]

Answered(r, answer) ==
    req' = [req EXCEPT ![r] = [@ EXCEPT !.at = "done", !.session = {}, !.answer = answer]]

PostScenarios(r) ==
    /\ req[r].at = "idle"
    /\ \E kind \in {"run", "compare"} :
        IF forecasts = 0
        THEN Answered(r, "404")
        ELSE \E n \in 1 .. MaxSpecs : \E specs \in [1 .. n -> Overrides] :
            req' = [req EXCEPT ![r] =
                [NoRequest EXCEPT !.at = "running", !.kind = kind, !.specs = specs]]
    /\ UNCHANGED <<graph, forecasts, scenarios, audited>>

(* Without a forecast to start from one is made, and committed at once.    *)
PostSimulate(r) ==
    /\ req[r].at = "idle"
    /\ forecasts' = (IF forecasts = 0 THEN 1 ELSE forecasts)
    /\ \E spec \in Overrides :
        req' = [req EXCEPT ![r] =
            [NoRequest EXCEPT !.at = "running", !.kind = "simulate", !.specs = <<spec>>]]
    /\ UNCHANGED <<graph, scenarios, audited>>

(***************************************************************************)
(* FRIDAY asks for relative changes of metrics; each becomes an override   *)
(* by the prediction times one plus the change, whatever the metric is.    *)
(***************************************************************************)
EvaluateScenario(r) ==
    /\ req[r].at = "idle"
    /\ IF forecasts = 0
       THEN Answered(r, "404")
       ELSE \E n \in Nodes, change \in Changes :
            req' = [req EXCEPT ![r] = [NoRequest EXCEPT !.at = "running", !.kind = "friday",
                !.specs = << [m \in {n} |-> Base[Demand] * (Unit + change)] >>]]
    /\ UNCHANGED <<graph, forecasts, scenarios, audited>>

(* One of the samples of the Monte Carlo stands for all of them; without   *)
(* noise it is the linear run.                                             *)
RunScenario(r) ==
    /\ req[r].at = "running" /\ Len(req[r].results) < Len(req[r].specs)
    /\ LET spec == req[r].specs[Len(req[r].results) + 1] IN
       \E noise \in [DOMAIN spec -> -1 .. 1] :
        LET drawn == Disturbed(spec, noise) IN
        req' = [req EXCEPT
            ![r].results = Append(@, [drawn |-> drawn, values |-> PropagateLinear(graph, drawn)]),
            ![r].session = @ \cup {<<r, Len(req[r].results) + 1>>}]
    /\ UNCHANGED <<graph, forecasts, scenarios, audited>>

(* A flush that fails rolls the request's session back.                    *)
StorageFails(r) ==
    /\ req[r].at = "running"
    /\ Answered(r, "503")
    /\ UNCHANGED <<graph, forecasts, scenarios, audited>>

AllRun(r) == req[r].at = "running" /\ Len(req[r].results) = Len(req[r].specs)

Values(r) == [i \in DOMAIN req[r].results |-> req[r].results[i].values]

(* compare() lists the nodes by how far the results diverge.               *)
Compare(r) ==
    /\ AllRun(r) /\ req[r].kind \in {"compare", "friday"} /\ req[r].listed = <<>>
    /\ req' = [req EXCEPT ![r].listed =
                SortSeq(NodeOrder, LAMBDA n, m : Diverges(Values(r), n, m))]
    /\ UNCHANGED <<graph, forecasts, scenarios, audited>>

(* The audit row joins the session, which is committed as a whole.         *)
CommitScenarios(r) ==
    /\ AllRun(r) /\ req[r].kind \in {"run", "compare", "friday"}
    /\ req[r].kind # "run" => req[r].listed # <<>>
    /\ scenarios' = scenarios \cup req[r].session
    /\ audited' = audited \cup {r}
    /\ Answered(r, "200")
    /\ UNCHANGED <<graph, forecasts>>

(***************************************************************************)
(* quick_simulate answers with perturbed_prediction, perturbed_probability *)
(* and divergence of a ScenarioResult, which has none of them: the request *)
(* ends in an AttributeError, and its session is closed without a commit.  *)
(***************************************************************************)
AnswerSimulate(r) ==
    /\ AllRun(r) /\ req[r].kind = "simulate"
    /\ Answered(r, "500")
    /\ UNCHANGED <<graph, forecasts, scenarios, audited>>

Mirrored(half) == half \o [i \in DOMAIN half |-> -half[i]]

Trajectories(n, antithetic) ==
    IF antithetic THEN {Mirrored(half) : half \in [1 .. n \div 2 -> Shocks]} ELSE [1 .. n -> Shocks]

PostFanChart(r) ==
    /\ req[r].at = "idle"
    /\ \E n \in Paths, antithetic \in BOOLEAN : \E paths \in Trajectories(n, antithetic) :
        req' = [req EXCEPT ![r] = [NoRequest EXCEPT
            !.at = "done", !.answer = "200", !.results = paths,
            !.kind = IF antithetic THEN "antithetic" ELSE "plain"]]
    /\ UNCHANGED <<graph, forecasts, scenarios, audited>>

ScenarioNext ==
    \E r \in Requests :
        \/ PostScenarios(r) \/ PostSimulate(r) \/ EvaluateScenario(r)
        \/ RunScenario(r) \/ StorageFails(r) \/ Compare(r)
        \/ CommitScenarios(r) \/ AnswerSimulate(r) \/ PostFanChart(r)

ScenarioSpec == ScenarioInit /\ [][ScenarioNext]_scenarioVars

-----------------------------------------------------------------------------
(* Whatever order the nodes and the edges are listed in, a result is what  *)
(* walking every edge of the graph gives (propagate_linear).               *)
PropagationFollowsEveryEdge ==
    \A r \in Requests : req[r].kind \notin {"none", "plain", "antithetic"} /\ Acyclic(graph) =>
        \A i \in DOMAIN req[r].results :
            req[r].results[i].values = Clipped(Walked(graph, req[r].results[i].drawn))

(* The scenarios of a request and their audit row are stored together or   *)
(* not at all, whichever of them failed (run_scenarios, compare_scenarios). *)
ScenariosAreAudited ==
    \A r \in Requests :
        LET rows == {s \in scenarios : s[1] = r} IN
        IF r \in audited THEN Cardinality(rows) = Len(req[r].specs) ELSE rows = {}

ShockSum(paths) ==
    LET sum[i \in 0 .. Len(paths)] == IF i = 0 THEN 0 ELSE sum[i - 1] + paths[i] IN sum[Len(paths)]

(* Antithetic paths cancel: the mean of the first step is the drift's      *)
(* alone, for every draw (sample_correlated_drivers).                      *)
AntitheticIsUnbiased ==
    \A r \in Requests : req[r].kind = "antithetic" =>
        ShockSum(req[r].results) = 0

(* Results follow from the graph and the draws, and are stored with their  *)
(* audit.                                                                  *)
ScenariosAreSound == PropagationFollowsEveryEdge /\ ScenariosAreAudited /\ AntitheticIsUnbiased
=============================================================================
