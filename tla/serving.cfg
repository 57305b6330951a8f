SPECIFICATION ServingSpec
CONSTANTS
  Focused = {"streams", "access", "quick", "history", "ingest", "breaker", "promotion", "webhooks", "calls", "status"}
  f1 = f1
  f2 = f2
  f3 = f3
  t1 = t1
  t2 = t2
  a = a
  b = b
  c = c
  missing = missing
  \* StreamHub
  Subscribers = {s1}
  StreamTargets = {t1}
  NoTarget = NoTarget
  QueueMax = 2
  MaxLog = 4
  \* AccessGate
  Arrivals = {r1}
  Clients = {c1}
  StoredKeys = {k1}
  Master = master
  Delegate = delegate
  Deployments = {{}, {master}, {delegate}}
  Unknown = unknown
  Keyless = keyless
  Limit = 2
  Window = 3
  Second = 2
  Printed = 2
  Routes = {"read", "analyst", "friday"}
  LastSecond = 4
  \* QuickForecasts
  Requests = {1, 2, 3}
  CacheKeys = {k1, k2, k3}
  TrendKeys = {k3}
  MaxSize = 2
  Ttl = 3
  MaxTicks = 6
  NoKey = NoKey
  \* ForecastHistory
  Forecasts = {f1, f2, f3}
  Sessions = {s1, s2}
  TargetOf <- TheTarget
  AsOf <- TheAsOf
  CreatedLimit = 2
  PageLimit = 1
  Births = {"active"}
  Filters <- TheFilters
  Unset = unset
  NoForecast = none
  SecondOf <- TheSecondOf
  MaxStamp = 4
  \* TelemetryIngest
  Pairs = {1, 2, 3}
  Defaults = {1}
  FirstPairs <- TheFirstPairs
  IngestJob = ingest
  RefreshJob = refresh
  BacktestJob = backtest
  Day = 2
  \* AsyncBreaker
  Callers = {c1, c2, c3}
  FailureThreshold = 2
  HalfOpenSuccessThreshold = 2
  MaxRetries = 1
  NoCaller = nobody
  MaxRequests = 6
  \* ModelPromotion
  Versions = {a, b, c}
  Scores <- TheScores
  Promoters = {p1, p2, p3}
  NoVersion = NoVersion
  NoScores = NoScores
  Missing = missing
  \* WebhookDelivery
  Hooks = {h1, h2}
  MaxAttempts = 2
  MaxEvents = 2
  \* GuardedCalls
  AgentClients = {c1, c2}
  CallKeys = {k1}
  Payloads = {p1, p2}
  Providers = {1, 2}
  MaxIterations = 2
  Threshold = 2
  Estimate = 2
  BudgetLimit = 3
  NoPayload = NoPayload
  \* SelfStatus
  Pollers = {p1}
  Operators = {}
  TheLoop = loop
  NoReport = NoReport
  Budget = 1
  CacheTime = 1
  EvidenceFinds = {"ok"}
  OutboundFinds = {"ok"}
  SchedulerRuns = TRUE
  MaxFaults = 1
  MaxPolls = 1
INVARIANTS
  StreamsInOrder
  LimiterIsExact
  CacheIsSound
  
  PassesServeEachOnce
  OneActiveModel
  DeliveryStatsExact
  BudgetHolds
  RepairsAreReal
PROPERTIES
  PastIsStable
  ClosesOnlyWhenProven
CHECK_DEADLOCK FALSE
