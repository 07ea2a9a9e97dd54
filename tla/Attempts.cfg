SPECIFICATION RecoverySpec
CONSTANTS
  Job = {j1}
  Worker = {w1, w2}
  None = None
  MaxRetries = 2
  JobThreads = 1
  Deadlined = {j1}
  FailOnTimeout = {}
  Sleepers = {j1}
  HeartbeatFaults = TRUE
  MaxEpoch = 3
INVARIANTS TypeOK EpochIdentifiesAttempt
PROPERTIES RetryWithinBudget LatestClaimDecides CancelledOnRequest ImplementsLifecycle InFlightEnds EveryJobSettles
CHECK_DEADLOCK FALSE
