SPECIFICATION FairSweepSpec
CONSTANTS
  Forecasts = {f1, f2}
  Requests = {r1, r2}
  Scheduler = scheduler
  Sweeper = sweeper
  Sessions = {r1, r2, scheduler, sweeper, earlier}
  NoSession = NoSession
  NoForecast = NoForecast
  SchedulerEnabled = FALSE
  SweepCommits = TRUE
  AssumptionBroken = {f2}
  Seeded = {f1, f2}
  Earlier = earlier
PROPERTIES
  SweepIsHarmless
  NobodyBlocks
CHECK_DEADLOCK FALSE
