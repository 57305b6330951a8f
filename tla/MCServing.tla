------------------------------ MODULE MCServing ------------------------------
(***************************************************************************)
(* Model-checking instance of the components that admit, answer and feed   *)
(* requests.  They share no state, so a behaviour picks one of them and    *)
(* runs it while the others rest: the states to visit are the sum of       *)
(* theirs and not the product.                                             *)
(***************************************************************************)
EXTENDS StreamHub, AccessGate, QuickForecasts, ForecastHistory, TelemetryIngest,
        AsyncBreaker, ModelPromotion, WebhookDelivery, GuardedCalls, SelfStatus, TLC

CONSTANTS Focused, f1, f2, f3, t1, t2, a, b, c, missing

VARIABLE focus

TheTarget == f1 :> t1 @@ f2 :> t1 @@ f3 :> t2
TheAsOf == f1 :> 2 @@ f2 :> 3 @@ f3 :> 3
TheSecondOf == 0 :> 0 @@ 1 :> 1 @@ 2 :> 1 @@ 3 :> 2 @@ 4 :> 2
TheFilters == {[target |-> t1, status |-> "active"]}
TheFirstPairs == <<1>>
TheScores == a :> [mae |-> 1, ece |-> 2] @@ b :> [mae |-> 2, ece |-> missing] @@ c :> NoScores

servingVars == <<focus, hubVars, accessVars, cacheVars, historyVars, ingestVars,
                 breakerVars, promotionVars, deliveryVars, guardVars, statusVars>>

\* Where a component starts in several ways, it does so when it is the one that runs.
ServingInit ==
  /\ focus \in Focused
  /\ HubInit /\ CacheInit /\ HistoryInit /\ BreakerInit /\ PromotionInit /\ DeliveryInit
  /\ AccessInit /\ (focus # "access" => enforced /\ ~short /\ issued = {}
                                         /\ roles = [k \in StoredKeys |-> "viewer"])
  /\ (focus # "ingest" => source = "synthetic") /\ IngestInit
  /\ GuardInit
  /\ focus # "calls" => \A q \in AgentClients : guard[q].payload = CHOOSE p \in Payloads : TRUE
  /\ database = "up" /\ storageCircuit = "half_open" /\ (focus # "status" => tables = TRUE) /\ StatusInit

Rest(n) ==
  /\ focus = n /\ UNCHANGED focus
  /\ n # "streams" => UNCHANGED hubVars
  /\ n # "access" => UNCHANGED accessVars
  /\ n # "quick" => UNCHANGED cacheVars
  /\ n # "history" => UNCHANGED historyVars
  /\ n # "ingest" => UNCHANGED ingestVars
  /\ n # "breaker" => UNCHANGED breakerVars
  /\ n # "promotion" => UNCHANGED promotionVars
  /\ n # "webhooks" => UNCHANGED deliveryVars
  /\ n # "calls" => UNCHANGED guardVars
  /\ n # "status" => UNCHANGED statusVars

ServingNext ==
  \/ Rest("streams") /\ HubNext
  \/ Rest("access") /\ AccessNext
  \/ Rest("quick") /\ CacheNext
  \/ Rest("history") /\ HistoryNext
  \/ Rest("ingest") /\ IngestNext
  \/ Rest("breaker") /\ BreakerNext
  \/ Rest("promotion") /\ PromotionNext
  \/ Rest("webhooks") /\ DeliveryNext
  \/ Rest("calls") /\ GuardNext
  \/ Rest("status") /\ StatusNext

ServingSpec == ServingInit /\ [][ServingNext]_servingVars
=============================================================================
