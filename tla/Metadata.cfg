CONSTANTS
  Executions = {e1, e2}
  e1 = e1
  e2 = e2
  FirstDays = {2, 3}
  MaxDay = 4
  MaxFails = 2
  FailsAgain = FALSE
  MaxByHand = 1
  Careless = FALSE
  Throttled = FALSE
  Paged = FALSE
  EarlyEvents = FALSE
SPECIFICATION Spec
SYMMETRY Symmetry
INVARIANTS TypeOK StoredDaysKept LatestIsNewest DaysCovered
CHECK_DEADLOCK FALSE
