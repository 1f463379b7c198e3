CONSTANTS
  Stacks <- Modeling
  Requests = {"Update", "App", "Upgrade", "Retry", "Delete"}
  MaxEdits = 1
  Patient = TRUE
  Orderly = TRUE
  FailingCalls = {"Create", "Delete"}
  Swallowed = {}
SPECIFICATION Spec
INVARIANTS TypeOK ActiveMeansDeployed DeletedInOrder NothingLeftBehind
CHECK_DEADLOCK FALSE
