SPECIFICATION FairSpec
CONSTANTS
  NumWriters = 2
  NumPages = 1
  NumChunks = 2
  kRetryAttempts = 2
  kMaxCount = 2
  NumChunkIDs = 1
INVARIANTS ChunkOwnership NoCheckFailure CopiesAreAttributed
PROPERTIES ImplementsLifecycle CallsReturn
