CONSTANTS
  f1 = f1  f2 = f2  t1 = t1  t2 = t2  a1 = a1  a2 = a2  f3 = f3
  Files = {f1, f2}
  Tables = {t1}
  Apps = {a1, a2}
  TableOf <- OneTable
  AppOf <- TwoApps
  Executions = {e1}
  Statements = {s1}
  None = None
  Limit = 2
  MaxRetry = 1
  MaxNotices = 1
  StaleListing = FALSE
  PromptStop = TRUE
  CaughtErrors = TRUE
  SpacedJobs = FALSE
SPECIFICATION Spec
SYMMETRY Symmetry
INVARIANT FailureLosesNothing
