SPECIFICATION AnalysisSpec
CONSTANTS
  Focused = {"universe"}
  a = a
  b = b
  \* UniverseRefresh
  Clients = {c1, c2}
  Targets = {1, 2}
  Inverted = {1}
  Pipeline = {2}
  NoTarget = 0
  Readings = {1}
  \* TailRisk
  Readers = {r1}
  Symbols = {btc, doge}
  Defaults = {btc}
  PairEndpoints = 2
  BookEndpoints = 2
  NoPayload = NoPayload
  MaxChanges = 1
  \* RiskAudit
  Prices = {1, 2, 4}
  Confidences = {50, 95}
  MinSample = 2
  MaxSample = 5
  Grain = 100
  NoAudit = NoAudit
  \* ResearchEvidence
  Engines = {e1}
  Markets = {m1}
  Items = {i2}
  Wild = {i2}
  Baseline = baseline
  Lookback = 1
  MaxTime = 3
  \* ForecastPipeline
  MaxFill = 1
  LagSteps = {1, 3}
  Windows = {2, 3}
  Grids = {4, 6}
  Coordinated = TRUE
  Resolved = {0}
  Day = 4
  Week = 6
  Horizon = 2
  MinVal = 1
  FitEstimate = 1
  Budgets = {0, 2}
  FitScores = {1, 2}
  Chances = {10, 30, 50, 60, 75}
  \* ScenarioRuns
  NodeOrder <- TheNodes
  Base <- TheBase
  Unit = 2
  Capacity = "capacity"
  AbsoluteFrom = 4
  Requests = {r1}
  Graphs <- TheGraphs
  Overrides <- TheOverrides
  MaxSpecs = 2
  Demand = "demand"
  Changes = {0, 1}
  Shocks <- TheShocks
  Paths = {3, 4}
  \* ModelWatch
  Models = {a, b}
  Watched = {a}
  Errors = {1, 10, 20}
  ErrorUnit = 10
  Recent = 2
  Scores = {4, 12}
  Lists <- TheLists
  Unregistered = unregistered
  MaxSamples = 4
INVARIANT NoDataNoAlarm
CHECK_DEADLOCK FALSE
