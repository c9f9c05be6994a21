SPECIFICATION AnswersSpec
CONSTANTS
  turn1 = turn1
  turn2 = turn2
  other = other
  Ids <- MCIds
  Prompt <- MCPrompt
  MaxNew = 4
  Eos = {1}
  Model <- MCModel
  Vocab = {0, 1, 2, 3}
  Frequent <- MCFrequent
  MaxContext = 8
  PageSize = 2
  Depth = 2
  Window = 4
  Guess = Guess
  Texts <- MCTexts
  Schemas <- MCSchemas
  Functions = {"f", "g", ""}
  KnownTool = "f"
  Pieces <- MCPieces
  MaxPieces = 3
  Blank = Blank
  Picture = Picture
  MaxTurns = 4
  MaxTokens = 4
CHECK_DEADLOCK FALSE
INVARIANTS
  HeadIntact
  ListRight
  CallsFaithful
  PromptsContinue
  StreamFaithful
PROPERTIES
  ImplementsGreedy
