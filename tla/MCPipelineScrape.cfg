SPECIFICATION FairSpec
CONSTANTS
  NumSeqs = 1
  NumSlots = 2
  NumChunkIDs = 8
  MaxFragments = 2
  MaxPackets = 2
  MaxChunks = 3
  MaxHoles = 1
  ExhaustedPolicies = {"kDrop", "kStall"}
  Size = 3
  Policies = {"kOverwrite"}
  RecordSize <- OneUnit
  PageSlots = 1
  MaxInFlight = 1
  MaxScrapes = 2
  Concurrent = FALSE
INVARIANTS WholePackets NoABIViolation
PROPERTIES InOrder FlushedPacketsArrive
CHECK_DEADLOCK FALSE
