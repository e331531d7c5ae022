SPECIFICATION Spec
CONSTANTS
  NumSeqs = 1
  NumSlots = 2
  NumChunkIDs = 5
  MaxFragments = 2
  MaxPackets = 3
  MaxChunks = 6
  MaxHoles = 1
  ExhaustedPolicies = {"kDrop"}
  Size = 2
  Policies = {"kOverwrite"}
  RecordSize <- OneUnit
  PageSlots = 1
  MaxInFlight = 1
  MaxScrapes = 0
  Concurrent = TRUE
INVARIANTS TypeOK WholePackets
PROPERTIES InOrder
CHECK_DEADLOCK FALSE
