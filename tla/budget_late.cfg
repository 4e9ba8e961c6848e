\* Timers may be noticed late; either of the two tasks may be aborted.
SPECIFICATION Spec
CONSTANTS
  Tasks = {t1, t2}
  MaxCalls = 2
  CleanupCalls = 1
  MaxConcurrency = 2
  Interval = 1
  NormalDeadline = 1
  RunDeadline = 3
  Horizon = 3
  Abortable = {t1, t2}
  Answers = {"Completed"}
  Prompt = FALSE
SYMMETRY TaskSymmetry
INVARIANTS
  TypeOK
  PermitsAccounted
  AllowancesKept
PROPERTIES
  ImplementsLedger
