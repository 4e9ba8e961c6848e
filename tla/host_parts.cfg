SPECIFICATION HostSpec
CONSTANTS
  MaxExecutions = 2
  MaxInterrupts = 1
  None = None
  MaxOutput = 1
  MaxWritten = 2
  BufferSize = 2
  Nodes = {1, 2, 3}
  Outside = 0
  Links <- MCLinks
  Contexts <- MCContexts
  AllRequests <- MCRequests
  MaxChanges = 1
INVARIANTS
  TypeOK
  InterruptsAreHeard
  CaptureIsBounded
  UnflaggedOutputIsWhole
  PagesMakeOneGraph
PROPERTY CommandEnds
CHECK_DEADLOCK FALSE
