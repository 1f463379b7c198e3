CONSTANTS
  f1 = f1  f2 = f2  f3 = f3  t1 = t1  t2 = t2  a1 = a1  a2 = a2
  Files = {f1, f2, f3}
  Tables = {t1, t2}
  Apps = {a1}
  TableOf <- TwoAndOne
  AppOf <- SameAppOf3
  Executions = {e1, e2}
  Statements = {s1}
  None = None
  Limit = 1
  MaxRetry = 1
  MaxNotices = 1
  StaleListing = FALSE
  PromptStop = TRUE
  CaughtErrors = FALSE
  SpacedJobs = FALSE
SPECIFICATION Spec
SYMMETRY TwinSymmetry
INVARIANTS TypeOK OneActiveExecution NoUnlistedRow RefreshAfterMerges
