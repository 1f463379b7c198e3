CONSTANTS
  f1 = f1  f2 = f2  f3 = f3  t1 = t1  t2 = t2  a1 = a1
  Files = {f1, f2, f3}
  Tables = {t1, t2}
  Apps = {a1}
  TableOf <- TwoTables
  AppOf <- SameApp
  Executions = {e1}
  Statements = {s1}
  None = None
  Limit = 1
  MaxRetry = 0
  MaxNotices = 1
  StaleListing = FALSE
  PromptStop = FALSE
  CaughtErrors = FALSE
  SpacedJobs = TRUE
SPECIFICATION RSpec
PROPERTY RowsDrain
