SPECIFICATION HistorySpec
CONSTANTS
  j1 = j1
  j2 = j2
  j3 = j3
  Job = {j1, j2}
  Worker = {w1, w2}
  None = None
  partition_key <- Lanes
  Serves <- Everything
  Controls <- RateOnly
  Period = 1
  MaxTime = 1
  MaxAborts = 0
  MaxChanges = 0
  MaxRuns = 3
INVARIANT AdmissionsWithinRate
CHECK_DEADLOCK FALSE
