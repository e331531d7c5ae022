SPECIFICATION Spec
CONSTANTS
  NumSeqs = 1
  NumSlots = 2
  NumChunkIDs = 8
  MaxFragments = 2
  MaxPackets = 3
  MaxChunks = 4
  MaxHoles = 1
  ExhaustedPolicies = {"kDrop"}
  Size = 4
  Policies = {"kOverwrite"}
  RecordSize <- OneUnit
  PageSlots = 1
  MaxInFlight = 1
  MaxScrapes = 1
  Concurrent = TRUE
INVARIANTS WholePackets
CHECK_DEADLOCK FALSE
