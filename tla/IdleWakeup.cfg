SPECIFICATION FairSpec
CONSTANTS
  Job = {j1}
  Worker = {w1, w2}
  Faults = TRUE
INVARIANTS UnannouncedOnlyIfUnseen FlagMatchesRow
PROPERTIES DemandExpires EveryJobIsClaimed
CHECK_DEADLOCK FALSE
