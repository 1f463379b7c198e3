CONSTANTS
  Stacks = {s1, s2}
  Listeners = {l1, l2}
  MaxRetry = 2
  FreshAfter = 1
  RacingReads = FALSE
  Broken = {1}
  MaxExecs = 1
  MaxFails = 1
SPECIFICATION Spec
INVARIANTS TypeOK StatusSettles NoStatusTakenBack DeletedOnlyWhenGone
SYMMETRY Symmetry
CHECK_DEADLOCK FALSE
