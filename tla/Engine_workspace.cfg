SPECIFICATION Spec
CONSTANTS
  Parts = {"indexer"}
  NumReqs = 2
  Prompts = {2, 5}
  MaxLen = 5
  Reuses = 2
  Kpool = 2
  TopK = 2
  NumSpec = 2
  BlockN = 2
  MaxBatched = 10
  Flattens = {TRUE, FALSE}
  SplitChunks = TRUE
  Slots = {1, 2}
  Vocab = {1, 2, 3}
  Steps = 2
  Modes = {"edge", "unary"}
  Edge <- Successors
  Proposals <- TwoProposals
  MaxGen = 2
  MaxRounds = 2
  NumLayers = 4
  Denses = {0, 2}
  KvModels <- SmallModels
  Kernel = 2
  Memories = {70, 95}
INVARIANTS ScoredWithKeys
CHECK_DEADLOCK FALSE
