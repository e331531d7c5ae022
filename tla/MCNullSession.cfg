SPECIFICATION Spec
CONSTANTS
  Producers = {1, 2}
  WillNotifyOnStart = {1}
  WillNotifyOnStop = {1}
  Consumers = {"c1", "c2"}
  Keys = {"k1"}
  MaxConcurrentTracingSessions = 5
  MaxPendingFlushes = 1
  MaxSessions = 2
  Scenarios <- OneTimed
INVARIANT NoNullSession
CHECK_DEADLOCK FALSE
