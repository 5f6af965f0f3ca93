\* Concurrent upserts and removals of one tag.
SPECIFICATION TagsSpec
CONSTANTS
  e1 = e1
  e2 = e2
  e3 = e3
  e4 = e4
  k1 = k1
  l1 = l1
  l2 = l2
  None = None
  Editor = {e1, e2, e3, e4}
  TagKey = {k1}
  Label = {l1, l2}
SYMMETRY MCSymmetry
CHECK_DEADLOCK FALSE
INVARIANTS
  HistoryIsLife
