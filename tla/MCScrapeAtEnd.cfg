SPECIFICATION Spec
CONSTANTS
  NumSeqs = 1
  NumSlots = 2
  NumChunkIDs = 8
  MaxFragments = 2
  MaxPackets = 3
  MaxChunks = 4
  MaxHoles = 1
  ExhaustedPolicies = {"kDrop"}
  Size = 3
  Policies = {"kOverwrite"}
  RecordSize <- TwoUnits
  PageSlots = 1
  MaxInFlight = 1
  MaxScrapes = 1
  Concurrent = FALSE
INVARIANTS NoCrash
CHECK_DEADLOCK FALSE
