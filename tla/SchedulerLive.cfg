CONSTANTS
  Pages = {1, 2, 3, 4, 5}
  Slots = {s1, s2}
  Snapshots = {}
  Ids = {1, 2, 3}
  BlockSize = 2
  MaxSeqs = 2
  MaxTokens = 2
  Depth = 1
  MayAbort = FALSE
  Tables <- LowestPages
  Request <- RequestOf
SPECIFICATION LiveSpec
PROPERTIES
  ActiveEnds
  WaitingEndsUncached
