SPECIFICATION Spec
CONSTANTS
  Size = 5
  NumSeqs = 1
  NumChunkIDs = 5
  Policies = {"kOverwrite", "kDiscard"}
  MaxFragments = 2
  Labels = {"x"}
  MaxHoles = 0
  Inputs <- RingInputs
INVARIANTS TypeOK BufferIntact
PROPERTIES DiscardKeepsUnread
CHECK_DEADLOCK FALSE
