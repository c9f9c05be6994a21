CONSTANTS
  Pages = {1, 2, 3}
  Slots = {s1}
  Snapshots = {n1}
  Ids = {1}
  BlockSize = 2
  MaxSeqs = 1
  MaxTokens = 3
  Depth = 0
  MayAbort = FALSE
  Tables <- LowestPages
  Request <- RequestOf
SPECIFICATION FairSpec
PROPERTIES
  WaitingEnds
