SPECIFICATION Spec
CONSTANTS
  Forecasts = {f1, f2}
  Requests = {r1, r2, r3}
  Scheduler = scheduler
  Sessions = {r1, r2, r3, scheduler}
  NoSession = NoSession
  NoForecast = NoForecast
  SchedulerEnabled = TRUE
SYMMETRY AllSymmetry
INVARIANTS
  Consistency
  ResolvedIffOutcome
  SuccessIsDurable
  RequestsAreAtomic
  ConflictIsFinal
PROPERTIES
  KeepsPromise
CHECK_DEADLOCK FALSE
