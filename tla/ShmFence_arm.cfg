SPECIFICATION Spec
CONSTANTS
  NReaders = 1
  MaxMsgs = 3
  WeakStores = TRUE
  WeakLoads = FALSE
INVARIANTS AcceptedWhole
