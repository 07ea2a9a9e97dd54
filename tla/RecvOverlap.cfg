SPECIFICATION OverlapSpec
CONSTANTS
  draft = draft
  review = review
  approved = approved
  go = go
  no = no
  State = {draft, review, approved}
  Event = {go, no}
  initial = draft
  final = {approved}
  edges <- ReviewEdges
  Worker = {w1, w2}
  None = None
  Budget = 4
INVARIANT NeverNeither
CHECK_DEADLOCK FALSE
