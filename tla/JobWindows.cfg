CONSTANTS
  Files = {f1, f2}
  Sec = 2
  Day = 4
  Buffer = 2
  PutTime = 1
  LateKeys = FALSE
  CallsFail = FALSE
  MaxJobs = 3
  MaxTime = 7
SPECIFICATION Spec
INVARIANTS TypeOK NoFileSkipped NoFileTwice FailuresReported
CHECK_DEADLOCK FALSE
