SPECIFICATION FairSpec
CONSTANTS
  Clients = {c1, c2}
  MaxCalls = 1
  CleanupCalls = 0
  MaxConcurrency = 2
  MaxOpenFiles = 4
  HostParallelism = 1
  Answers = {"Completed"}
PROPERTIES RequestsAreAnswered ShutdownEnds
CHECK_DEADLOCK FALSE
