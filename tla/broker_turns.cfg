SPECIFICATION Spec
CONSTANTS
  Clients = {c1, c2}
  MaxCalls = 3
  CleanupCalls = 1
  MaxConcurrency = 3
  MaxOpenFiles = 5
  HostParallelism = 2
  Answers = {"Completed", "Rejected"}
SYMMETRY ClientSymmetry
INVARIANTS TypeOK GrantsAreHeld CallsAreGranted OrderlyClientsAreServed
PROPERTY RecordedAsReported
CHECK_DEADLOCK FALSE
