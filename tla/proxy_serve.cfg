\* Three kinds of small instances: see MCEnforcingProxy.
SPECIFICATION PartSpec
CONSTANTS
  MaxClients = 3
  MaxRequests = 2
  Servers = 2
  MaxCalls = 2
  CleanupCalls = 0
  MaxConcurrency = 2
  MaxOpenFiles = 8
  None = None
INVARIANTS
  TypeOK
  ToldIsRecorded
  CancelledCallsStopTheRun
  OnePeer
PROPERTIES
  ShutdownEnds
  CancelledRunsDrain
  ClientsAreServed
CHECK_DEADLOCK FALSE
