SPECIFICATION Spec
CONSTANTS
  Producers = {1, 2}
  WillNotifyOnStart = {1}
  WillNotifyOnStop = {1}
  Consumers = {"c1", "c2"}
  Keys = {"k1"}
  MaxConcurrentTracingSessions = 5
  MaxPendingFlushes = 1
  MaxSessions = 2
  Scenarios <- SessionScenarios
INVARIANTS TypeOK InstancesMatchSession ConsumerLinks SuccessIsEarned
PROPERTIES Lifecycle SessionsEnd FlushesAreAnswered
CHECK_DEADLOCK FALSE
