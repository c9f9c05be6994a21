CONSTANTS
  Pages = {1, 2, 3, 4, 5}
  Slots = {s1, s2}
  Snapshots = {n1, n2}
  Ids = {1, 2, 3}
  BlockSize = 2
  MaxSeqs = 2
  MaxTokens = 3
  Depth = 1
  MayAbort = TRUE
  Tables <- LowestPages
  Request <- RequestOf
SYMMETRY Symmetry
SPECIFICATION Spec
INVARIANTS
  AccountsExact
  InOnePlace
  ReservationKept
  NoneMeansNoneActive
PROPERTIES
  ImplementsCacheManager
  ProgressKept
