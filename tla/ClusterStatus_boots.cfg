SPECIFICATION Spec
CONSTANTS
  Setups <- Both
  Peers <- TwoPeers
  Resolves <- Resolved
  WorkerWait = TRUE
  Tries = 1
  MaxBoots = 3
INVARIANTS HealthyServes RowsTrue
PROPERTIES HealthyStays
CHECK_DEADLOCK FALSE
