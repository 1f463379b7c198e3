CONSTANTS
  f1 = f1  f2 = f2  t1 = t1  t2 = t2  a1 = a1  a2 = a2  f3 = f3
  Files = {f1, f2}
  Tables = {t1, t2}
  Apps = {a1, a2}
  TableOf <- TwoTables
  AppOf <- SameApp
  Executions = {e1, e2}
  Statements = {s1}
  None = None
  Limit = 1
  MaxRetry = 0
  MaxNotices = 2
  StaleListing = FALSE
  PromptStop = FALSE
  CaughtErrors = FALSE
  SpacedJobs = TRUE
SPECIFICATION Spec
SYMMETRY MirrorSymmetry
PROPERTY LifecycleSpec
