SPECIFICATION FairSpec
CONSTANTS
  j1 = j1
  j2 = j2
  j3 = j3
  Job = {j1, j2, j3}
  Worker = {w1, w2}
  None = None
  partition_key <- Lanes
  Serves <- Everything
  Controls <- ControlRows
  Period = 1
  MaxTime = 1
  MaxAborts = 1
  MaxChanges = 1
  MaxRuns = 1
INVARIANTS TypeOK
PROPERTIES CapRespected RateRespected LaneServed
CHECK_DEADLOCK FALSE
