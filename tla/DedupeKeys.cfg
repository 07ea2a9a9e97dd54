SPECIFICATION FairSpec
CONSTANTS
  Job = {j1, j2}
  Caller = {c1, c2}
  Class = {k1, k2}
  None = None
  MaxTries = 2
INVARIANTS RequeueNeverRaises ArgumentsOfItsClass
PROPERTIES ArgumentsFixedAtClaim GivesUpOnlyToTraffic CappedBurstRuns
CHECK_DEADLOCK FALSE
