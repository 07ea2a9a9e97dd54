SPECIFICATION FairSpec
CONSTANTS
  minutely = minutely
  daily = daily
  Cron = {minutely, daily}
  raw <- Series_raw
  anchored = {daily}
  replayed = {2}
  Scheduler = {s1, s2}
  None = None
  Horizon = 3
  Budget = 2
  backfill_limit = 1
  max_concurrent_jobs = 2
  circuit_breaker_threshold = 1
INVARIANTS TickFiredOnce ConcurrencyRespected EveryTickAnswered FailuresBounded
PROPERTIES NeverSpins
CHECK_DEADLOCK FALSE
