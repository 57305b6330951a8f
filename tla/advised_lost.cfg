SPECIFICATION BackgroundSpec
CONSTANTS
  Focused = {"advisory"}
  a = a
  c1 = c1
  c2 = c2
  r1 = r1
  k1 = k1
  p1 = p1
  \* MemoraFeed
  Feed <- TheFeed
  BatchMax = 2
  \* MarketAdvisory
  Deliveries = {d1, d2}
  Runs = {r1, r2}
  Supported = {r1}
  Findings = {f1, f2}
  Queries = {q1}
  Nothing = Nothing
  \* DurableJobs
  JobCalls = {c1, c2}
  Owner <- TheOwner
  DrainLimit = 2
  MaxCrashes = 1
  Nobody = Nobody
  \* ServiceProcess
  RecurringJobs = {j1, j2}
  SeedSize = 2
  MaxStarts = 2
  MaxRuns = 3
  \* SelfStatus
  Pollers = {p1}
  Operators = {}
  TheLoop = loop
  NoReport = NoReport
  Budget = 1
  CacheTime = 2
  EvidenceFinds = {"ok"}
  OutboundFinds = {"ok"}
  SchedulerRuns = TRUE
  MaxFaults = 1
  MaxPolls = 0
  \* PeerCircuit
  Calls = {c1, c2, c3}
  Threshold = 3
  Resets = TRUE
  Slow = FALSE
  \* FridayDelegation
  Requests = {r1, r2, r3}
  Keys = {k1, k2}
  Payloads = {p1, p2}
  None = None
INVARIANT AdvisedArePersisted
CHECK_DEADLOCK FALSE
