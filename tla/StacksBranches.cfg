CONSTANTS
  Stacks <- TwoBranches
  Requests = {"App", "Retry"}
  MaxEdits = 1
  Patient = TRUE
  Orderly = TRUE
  FailingCalls = {}
  Swallowed = {}
SPECIFICATION Spec
INVARIANT ActiveMeansDeployed
CHECK_DEADLOCK FALSE
