SPECIFICATION StartSpec
CONSTANTS
  Ids = {1, 2, 3}
  MaxTokens = 5
  Budgets <- MCBudgets
  CacheConfigs <- MCCacheConfigs
  Targets = {0, 1, 3, 4}
  KvElemsPerToken = 7
  StateElemsPerSeq = 9
  ConvElemsPerSeq = 1
  Nvfp4Block = 4
  RowElems = 4
  QuantizedParams = 24
  VocabParams = 8
  MtpParams = 3
  VisionParams = 5
  NumLayers = 2
  FullInterval = 2
  Hidden = 32
  Intermediate = 112
  QProj = 48
  KvProj = 16
  ConvChannels = 64
  VProj = 48
  VHeads = 3
  HeadDim = 4
  VHeadDim = 2
  ConvKernel = 4
  Vocab = 250
  Block = 16
  ScaleTile <- MCScaleTile
  ChunkRows = 80
  Configs <- MCConfigs
  Threads = {1, 2, 3}
  Sizes = {1, 2, 5}
  Word = 6
  AddressSpace = 16
  PageSize = 2
  MaxBatch = 2
  PrefillRows = 3
  SpecRows = 3
  HeadRows = 3
  VocabRows = 4
  BlockIds = 4
  Free = 40
  LoadBytes = 5
  StateBytes = 2
  BlockBytes = 2
  ArenaBytes = 3
  HeadBytes = 2
  MixerBytes = 2
CHECK_DEADLOCK FALSE
INVARIANTS
  SplitRight
  TargetHeld
  LoadedWhole
  OddRefused
  AccountExact
  WithinLimit
  ServedAsLetIn
PROPERTIES
  ComesUp
