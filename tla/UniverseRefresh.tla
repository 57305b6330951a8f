---------------------------- MODULE UniverseRefresh ----------------------------
(***************************************************************************)
(* The FRIDAY Universe matrix (futuris/core/universe_forecasting.py and    *)
(* api/routers/predictions.py): requests generate forecasts one target at  *)
(* a time under one budget, each committed on its own, and assemble the    *)
(* latest ones into a risk posture.  A timer cancels a target that runs    *)
(* late, wherever it is.                                                   *)
(***************************************************************************)
EXTENDS Integers, FiniteSets, FiniteSetsExt

CONSTANTS
  Clients,      (* requests                                                *)
  Targets,      (* UNIVERSE_TARGETS, numbered in their order               *)
  Inverted,     (* the targets whose low values are bad                    *)
  Pipeline,     (* the targets with telemetry                              *)
  Readings,     (* the risk levels that numbers may have                   *)
  NoTarget

ASSUME RefreshAssumption ==
  Targets \subseteq Nat /\ Inverted \cup Pipeline \subseteq Targets /\ Readings \subseteq 0 .. 3
  /\ IsFiniteSet(Targets) /\ Targets # {} /\ NoTarget \notin Targets
  /\ "earlier" \notin Clients

VARIABLES
  request,      (* per client: the request                                 *)
  rows,         (* committed forecasts                                     *)
  trail         (* committed audit entries                                 *)

refreshVars == <<request, rows, trail>>

Kinds == {"predict", "matrix", "refresh"}
Risk == [nominal |-> 0, elevated |-> 1, high |-> 2, critical |-> 3]

\* evaluate_risk_level of a forecast without numbers: its prediction is 0.0.
NoDataRisk(t) == IF t \in Inverted THEN Risk.critical ELSE Risk.nominal

NoDraft == [risk |-> 0, status |-> "none"]
LatestRow(t) == CHOOSE f \in rows : f.target = t /\ \A g \in rows : g.target = t => g.at <= f.at
Present == {f.target : f \in rows}
Now == Cardinality(rows)

RefreshInit ==
  /\ request = [c \in Clients |-> [phase |-> "off", kind |-> "matrix", pass |-> "backfill", todo |-> {},
                               target |-> NoTarget, draft |-> NoDraft,
                               made |-> {}, session |-> "ok", spent |-> FALSE, entry |-> {},
                               had |-> {}, shown |-> {}]]
  /\ trail = {}
  /\ \E known \in SUBSET Targets :
       rows = {[target |-> t, by |-> "earlier", at |-> 0, risk |-> NoDataRisk(t),
                status |-> "insufficient"] : t \in known}

Step(c, p) == request' = [request EXCEPT ![c].phase = p]

\* POST /predict, GET /matrix and POST /refresh-all.
Ask(c) ==
  /\ request[c].phase = "off"
  /\ \E k \in Kinds :
       request' = [request EXCEPT ![c].kind = k, ![c].had = Present,
                 ![c].phase = IF k = "matrix" THEN "read" ELSE "pick",
                 ![c].pass = IF k = "matrix" THEN "backfill" ELSE k,
                 ![c].todo = CASE k = "refresh" -> Targets
                               [] k = "predict" -> {CHOOSE t \in Targets : TRUE}
                               [] OTHER -> {}]
  /\ UNCHANGED <<rows, trail>>

\* build_universe_matrix reads the latest active, insufficient and blocked forecasts;
\* the targets without one are to be backfilled.
ReadMatrix(c) ==
  /\ request[c].phase = "read"
  /\ request' = [request EXCEPT ![c].phase = "pick", ![c].pass = "backfill", ![c].todo = Targets \ Present,
                        ![c].shown = {LatestRow(t) : t \in Present}]
  /\ UNCHANGED <<rows, trail>>

\* The head of _paced_pass: the next target, or the end of the pass.
PickTarget(c) ==
  /\ request[c].phase = "pick"
  /\ \/ /\ request[c].pass = "predict" => request[c].todo = {}
        /\ request' = [request EXCEPT ![c].phase = "audit", ![c].spent = @ \/ request[c].todo # {}]
     \/ /\ request[c].todo # {} /\ ~request[c].spent
        /\ request' = [request EXCEPT ![c].phase = "compute", ![c].target = Min(request[c].todo)]
  /\ UNCHANGED <<rows, trail>>

\* generate_universe_forecast: the caller's numbers, the pipeline's, or a forecast that
\* says that there are none.
ComputeTarget(c) ==
  /\ request[c].phase = "compute"
  /\ LET t == request[c].target
         numbers == {[risk |-> r, status |-> "active"] : r \in Readings}
         none == {[risk |-> NoDataRisk(t), status |-> "insufficient"]} IN
     \E d \in none \cup (IF t \in Pipeline \/ request[c].kind = "predict" THEN numbers ELSE {}) :
       request' = [request EXCEPT ![c].phase = "write", ![c].draft = d]
  /\ UNCHANGED <<rows, trail>>

Draft(c) ==
  [target |-> request[c].target, by |-> c, at |-> Now + 1, risk |-> request[c].draft.risk,
   status |-> request[c].draft.status]

MutantCommitAtTeardown(c) ==
  /\ request[c].phase = "write"
  /\ request' = [request EXCEPT ![c].phase = "pick", ![c].todo = @ \ {request[c].target},
                        ![c].made = @ \cup {request[c].target}, ![c].shown = @ \cup {Draft(c)}]
  /\ UNCHANGED <<rows, trail>>

\* INSERT and COMMIT; session.commit takes the session's earlier audit entry along.
CommitForecast(c) ==
  /\ request[c].phase = "write"
  /\ rows' = rows \cup {Draft(c)}
  /\ trail' = trail \cup request[c].entry
  /\ request' = [request EXCEPT ![c].phase = "pick", ![c].todo = @ \ {request[c].target}, ![c].entry = {},
               ![c].target = NoTarget, ![c].draft = NoDraft,
               ![c].made = @ \cup {request[c].target},
               ![c].shown = {f \in @ : f.target # request[c].target} \cup {Draft(c)}]

\* wait_for cancels the target; _recover_session rolls the session back, or cannot.  A
\* COMMIT that was on its way may have taken effect.  The pass ends.
TimerCancels(c) ==
  /\ request[c].phase \in {"compute", "write"} /\ request[c].pass # "predict"
  /\ \E left \in IF request[c].phase = "compute" THEN {"ok"} ELSE {"ok", "broken"} :
       request' = [request EXCEPT ![c].phase = "audit", ![c].spent = TRUE, ![c].session = left,
                          ![c].target = NoTarget, ![c].draft = NoDraft,
                          ![c].entry = IF request[c].phase = "compute" THEN @ ELSE {}]
  /\ \/ UNCHANGED <<rows, trail>>
     \/ request[c].phase = "write" /\ rows' = rows \cup {Draft(c)} /\ trail' = trail \cup request[c].entry

\* log_mutation: the refresh and the prediction are always recorded, a backfill when its
\* caller is known and something was made.  It fails on a session that is not usable.
Entry(c) == [by |-> c, pass |-> request[c].pass, count |-> Cardinality(request[c].made)]
Recorded(c) == request[c].pass # "backfill" \/ (request[c].kind = "matrix" /\ request[c].made # {})

WriteAudit(c) ==
  /\ request[c].phase = "audit" /\ (request[c].session = "ok" \/ ~Recorded(c))
  /\ request' = [request EXCEPT ![c].entry = IF Recorded(c) THEN @ \cup {Entry(c)} ELSE @,
                        ![c].phase = IF request[c].pass = "refresh" THEN "read" ELSE "teardown"]
  /\ UNCHANGED <<rows, trail>>

\* The answer has left; get_db_session commits what is pending, or fails.
Teardown(c) ==
  /\ request[c].phase = "teardown"
  /\ Step(c, "done")
  /\ trail' \in {trail, trail \cup request[c].entry}
  /\ UNCHANGED rows

\* The database fails: the session is rolled back and the client is told an error.
RequestFails(c) ==
  /\ request[c].phase \in {"read", "write", "audit"}
  /\ Step(c, "failed")
  /\ UNCHANGED <<rows, trail>>

RefreshCrash ==
  /\ request' = [c \in Clients |-> IF request[c].phase \in {"off", "done"} THEN request[c]
                               ELSE [request[c] EXCEPT !.phase = "failed"]]
  /\ UNCHANGED <<rows, trail>>

Serve(c) ==
  \/ ReadMatrix(c) \/ PickTarget(c) \/ ComputeTarget(c) \/ CommitForecast(c)
  \/ WriteAudit(c) \/ Teardown(c)

RefreshNext ==
  \/ \E c \in Clients : Ask(c) \/ Serve(c) \/ TimerCancels(c) \/ RequestFails(c)
  \/ RefreshCrash

RefreshSpec == RefreshInit /\ [][RefreshNext]_refreshVars

-----------------------------------------------------------------------------
(* What the matrix says.                                                    *)

\* overall_posture and ecosystem_health_score of a set of forecasts.
Posture(shown) == Max({0} \cup {f.risk : f \in shown})
Count(shown, level) == Cardinality({f \in shown : f.risk = level})
HealthScore(shown) ==
  Max({0, 100 - (25 * Count(shown, Risk.critical) + 10 * Count(shown, Risk.high)
                 + 3 * Count(shown, Risk.elevated))})

-----------------------------------------------------------------------------
(* Properties.                                                              *)

RowsOf(c) == {f \in rows : f.by = c}

\* "Only the cancelled target's write is lost: every completed target was committed"
\* (_recover_session): what a request made and shows is in the database whatever
\* happens to it afterwards, and an audit entry counts the request's rows but for one
\* whose commit was under way when the timer struck.
CompletedAreKept ==
  /\ \A c \in Clients : /\ \A t \in request[c].made : \E f \in RowsOf(c) : f.target = t
                        /\ request[c].shown \subseteq rows
  /\ \A a \in trail : Cardinality(RowsOf(a.by)) - a.count \in {0, 1}

\* "A target that cannot be forecast must not be re-generated on every matrix request"
\* (build_universe_matrix): a matrix request makes no forecast for a target that had
\* one, of any status, when the request came.
NoChurn ==
  \A c \in Clients : request[c].kind = "matrix" => \A f \in RowsOf(c) : f.target \notin request[c].had

\* "Never a placeholder value standing in for a forecast" (generate_universe_forecast):
\* forecasts without data do not raise the posture that the matrix answers.
NoDataNoAlarm ==
  \A c \in Clients : request[c].phase = "teardown" /\ request[c].kind # "predict" =>
    LET real == {f \in request[c].shown : f.status = "active"} IN
    /\ Posture(request[c].shown) = Posture(real)
    /\ HealthScore(request[c].shown) = HealthScore(real)

\* What a refresh pays for is kept, and nothing is paid for twice.
RefreshIsSound == CompletedAreKept /\ NoChurn
=============================================================================
