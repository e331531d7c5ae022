SPECIFICATION FairSpec
CONSTANTS
  Size = 3
  NumSeqs = 1
  NumChunkIDs = 3
  Policies = {"kOverwrite"}
  MaxFragments = 2
  Labels = {"x"}
  MaxHoles = 0
  Inputs <- ReaderInputs
PROPERTIES ReadsReturn
CHECK_DEADLOCK FALSE
