\* Timers are noticed before time passes: pacing and deadlines.  Three tasks
\* compete for two permits, two of the four calls are reserved for cleanup.
SPECIFICATION Spec
CONSTANTS
  Tasks = {t1, t2, t3}
  MaxCalls = 4
  CleanupCalls = 2
  MaxConcurrency = 2
  Interval = 2
  NormalDeadline = 2
  RunDeadline = 7
  Horizon = 7
  Abortable = {}
  Answers = {"Completed"}
  Prompt = TRUE
SYMMETRY TaskSymmetry
INVARIANTS
  SlotsSpaced
PROPERTIES
  NormalCallsPaced
  AdmittedInTime
  CleanupSlotsFit
