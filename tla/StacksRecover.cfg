CONSTANTS
  Stacks = {"DataProcessing", "DataModelingRedshift", "Ingestion"}
  Requests = {"App", "Retry"}
  MaxEdits = 1
  Patient = TRUE
  Orderly = TRUE
  FailingCalls = {"Pass", "Create", "Update", "Upgrade", "Delete"}
  Swallowed = {}
SPECIFICATION RSpec
INVARIANT NeverBlind
PROPERTY RetryRecovers
CHECK_DEADLOCK FALSE
