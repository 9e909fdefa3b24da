SPECIFICATION Spec
CONSTANTS
  NLocal = 1
  NRemote = 1
  MaxChunks = 2
  MaxMsgs = 3
  EnqTimeout = FALSE
  Impatient <- First
  Stoppable <- None
INVARIANTS DeliveredInOrder
