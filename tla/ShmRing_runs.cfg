SPECIFICATION FairSpec
CONSTANTS
  m1 = m1
  m2 = m2
  NReaders = 2
  MaxChunks = 2
  Msgs = {m1, m2}
  MaxMsgs = 3
  EnqTimeout = TRUE
  DeqTimeout = TRUE
INVARIANTS TypeOK UnreadIntact NoTornRead
PROPERTIES FlagDiscipline ImplementsQueue EveryReaderCatchesUp EnqueueReturns
