SPECIFICATION Spec
CONSTANTS
  Job = {j1}
  Worker = {w1, w2}
  None = None
  MaxRetries = 2
  JobThreads = 1
  Deadlined = {}
  FailOnTimeout = {}
  Sleepers = {}
  HeartbeatFaults = FALSE
  MaxEpoch = 3
SYMMETRY Symmetry
PROPERTIES DrainKeepsJob
CHECK_DEADLOCK FALSE
