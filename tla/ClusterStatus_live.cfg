SPECIFICATION FairSpec
CONSTANTS
  Setups <- Both
  Peers <- TwoPeers
  Resolves <- Resolved
  WorkerWait = TRUE
  Tries = 1
  MaxBoots = 2
PROPERTIES DeadPeerNoticed ClusterSeenHealthy VerdictReached
CHECK_DEADLOCK FALSE
