CONSTANTS
  Executions = {e1, e2}
  e1 = e1
  e2 = e2
  Reports = 2
  Day = 2
  LastDay = 4
  DayStart <- TwelveHours
  First = 4
  Lengths = {1, 2}
  ReportDays = 1
  Freshness = 2
  MaxTime = 8
  MaxFails = 1
  MaxByHand = 1
  MaxGap = 2
  LateLoads = FALSE
  CaughtErrors = FALSE
  ShortRanges = FALSE
SPECIFICATION Spec
SYMMETRY Symmetry
INVARIANTS TypeOK ReportsComplete NoEventPassed
CHECK_DEADLOCK FALSE
