SPECIFICATION ExecutorSpec
CONSTANTS
  Ids <- MCIds
  MaxBatch = 2
  MaxContext = 3
  PageSize = 2
  Pages <- MCPages
  ArenaRows = 3
  None = None
CHECK_DEADLOCK FALSE
INVARIANTS
  RowsOwn
  LaunchesAccepted
  KeysCovered
