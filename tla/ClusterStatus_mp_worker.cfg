SPECIFICATION FairSpec
CONSTANTS
  Setups <- Golden
  Peers <- OnePeer
  Resolves <- Resolved
  WorkerWait = FALSE
  Tries = 2
  MaxBoots = 2
PROPERTIES WorkerBecomesHealthy
CHECK_DEADLOCK FALSE
