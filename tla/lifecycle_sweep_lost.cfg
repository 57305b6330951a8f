SPECIFICATION FairSpec
CONSTANTS
  Forecasts = {f1}
  Requests = {r1, r2}
  Scheduler = scheduler
  Sessions = {r1, r2, scheduler}
  NoSession = NoSession
  NoForecast = NoForecast
  SchedulerEnabled = TRUE
PROPERTY SweepResolutionLasts
CHECK_DEADLOCK FALSE
