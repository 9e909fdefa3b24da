SPECIFICATION Spec
CONSTANTS
  Parts = {"mcp"}
  NChecks = 3
  Retries = 3
  Waits = 4
  Keep = 2
  Chunks = 2
  PromptLen = 5
  Gains = {1, 3}
  Ticks <- Minutes
  Les = {1, 2, 3}
  MaxScrapes = 4
  MaxSteps = 3
  Nodes = {"h1", "h2"}
  Peers = {"a1", "a2"}
  HostAt <- Addresses
  MaxCalls = 2
  MaxBoots = 2
  MaxFails = 1
  MaxReruns = 1
  Holds <- ThreeLayers
  Mtp = {3}
  LocalExperts = {1}
  Stores = {{}, {"q_a_proj", "kv_a_proj", "o_proj", "wk"}}
  Keeps = {{}, {"o_proj"}}
  Specs <- FiveSpecs
  Splits <- TileSplits
  MaxSeqs = 2
  MaxTokens = 140
  Captures = {1, 24, 100}
  NumTables = 2
  MaxLate = 1
  Threads = {1, 2}
  Kernels = {"k1", "k2"}
  MaxCompiles = 3
  Images <- FourImages
  MaxTries = 2
  MaxMoves = 1
  NReaders = 2
  MaxMsgs = 3
INVARIANTS CallAnswered
CHECK_DEADLOCK FALSE
