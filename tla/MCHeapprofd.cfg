SPECIFICATION FairSpec
CONSTANTS
  Threads = {t1, t2}
  Size = 8
  MaxRecords = 4
  RecordSizes <- Sizes
  Scenarios <- AllScenarios
  kUnwindBatchSize = 2
  kRecordBatchSize = 2
  kInfiniteTries = 99
INVARIANTS TypeOK RingIntact ReaderCanBeWoken DrainsEverything
PROPERTIES ImplementsQueue DisconnectsEnd CallsReturn
CHECK_DEADLOCK FALSE
