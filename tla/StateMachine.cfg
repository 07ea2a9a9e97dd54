SPECIFICATION FairSpec
CONSTANTS
  draft = draft
  review = review
  approved = approved
  go = go
  no = no
  State = {draft, review, approved}
  Event = {go, no}
  initial = draft
  final = {approved}
  edges <- ReviewEdges
  Worker = {w1, w2}
  None = None
  Budget = 4
INVARIANTS NeverPoisoned
PROPERTIES ImplementsEventMachine EveryEventHandled
CHECK_DEADLOCK FALSE
