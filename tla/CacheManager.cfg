CONSTANTS
  Pages = {1, 2, 3, 4}
  Slots = {s1, s2}
  Snapshots = {n1, n2, n3}
  Ids = {r1, r2}
  BlockSize = 2
  MaxNew = 1
  a = a
  b = b
  Tables <- LowestPages
  Prompts <- ChatPrompts
SYMMETRY Symmetry
SPECIFICATION Spec
INVARIANTS
  OwnershipExact
  TablesCover
  EntriesRanked
  SharedPagesAgree
  Reclaimable
  LoopEvictsVictims
