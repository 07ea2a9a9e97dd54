SPECIFICATION FairSpec
CONSTANTS
  u = u
  m = m
  g = g
  None = None
  Job = {u, m, g}
  Dag = {u, m}
  waitfor_job <- UpstreamJob
  waitfor_group <- UpstreamGroup
  use_result_from <- Reads
  run_group <- Group
  Batches <- Inserts
INVARIANTS TypeOK DagCompletedTruthful
PROPERTIES DependencyHonoured SweepActsOnTruth InputAvailable NoStrandedWaiter
CHECK_DEADLOCK FALSE
