SPECIFICATION FairSpec
CONSTANTS
  NLocal = 1
  NRemote = 1
  MaxChunks = 1
  MaxMsgs = 2
  EnqTimeout = TRUE
  Impatient <- Second
  Stoppable <- First
INVARIANTS ReadyFirst ExactlyOnce RemoteInStep
PROPERTIES EveryObjectReturned ShutdownReturns
CHECK_DEADLOCK FALSE
