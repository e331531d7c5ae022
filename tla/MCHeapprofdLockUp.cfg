SPECIFICATION FairSpec
CONSTANTS
  Threads = {t1, t2}
  Size = 8
  MaxRecords = 4
  RecordSizes <- Sizes
  Scenarios <- LockUp
  kUnwindBatchSize = 2
  kRecordBatchSize = 2
  kInfiniteTries = 99
PROPERTY BlockedClientsGoOn
CHECK_DEADLOCK FALSE
