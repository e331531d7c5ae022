SPECIFICATION FairSpec
CONSTANTS
  Threads = {"main", "t1", "t2"}
  IPC = "main"
  Reservations = {101, 102}
  Buffers = {1}
  kMaxWriterID = 2
  NumSlots = 3
  MaxWriters = 3
  MaxChunks = 4
  Scenarios <- ArbiterScenarios
INVARIANTS TypeOK ChunksAreConserved ChunksReachTheirBuffer PatchesAreNotLost AnswersFollowData
           NoLostWakeUp RegistrationsFollowWriters
PROPERTIES ChunksArrive FlushesAreAnswered StallsEnd
CHECK_DEADLOCK FALSE
