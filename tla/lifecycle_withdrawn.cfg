SPECIFICATION Spec
CONSTANTS
  Forecasts = {f1}
  Requests = {r1, r2, r3}
  Scheduler = scheduler
  Sessions = {r1, r2, r3, scheduler}
  NoSession = NoSession
  NoForecast = NoForecast
  SchedulerEnabled = FALSE
PROPERTY WithdrawnStaysWithdrawn
CHECK_DEADLOCK FALSE
