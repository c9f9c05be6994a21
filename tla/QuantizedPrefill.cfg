CONSTANTS
  Pages = {1, 2, 3, 4, 5, 6, 7, 8}
  Slots = {s1, s2}
  Snapshots = {n1}
  Ids = {1, 3}
  BlockSize = 2
  MaxSeqs = 2
  MaxTokens = 4
  Depth = 1
  MayAbort = FALSE
  Sampled = "g"
  Rejected = "x"
  Unknown = "?"
  Draft = draft
  Nobody = nobody
  Tables <- LowestPages
  Request <- RequestOf
SPECIFICATION BothSpec
INVARIANTS
  PromptsUnquantized
