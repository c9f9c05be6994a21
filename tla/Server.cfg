SPECIFICATION FairSpec
CONSTANTS
  a = a
  b = b
  Clients = {a, b}
  Stream = {a}
  Scored = {a}
  MaxNew <- OneLong
  Chunks = 2
  Depth = 2
  MaxSeqs = 2
  MayBlock = FALSE
  MayFail = TRUE
CHECK_DEADLOCK FALSE
INVARIANTS
  RequestsKnown
  ToldOnce
  AccountsInStep
PROPERTIES
  Answered
  Released
  WorkerEnds
