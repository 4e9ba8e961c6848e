\* The design's single admission clock, against the code's two clocks.
SPECIFICATION Spec
CONSTANTS
  Tasks = {t1, t2}
  MaxCalls = 2
  CleanupCalls = 1
  MaxConcurrency = 2
  Interval = 1
  NormalDeadline = 3
  RunDeadline = 5
  Horizon = 5
  Abortable = {}
  Answers = {"Completed"}
  Prompt = TRUE
PROPERTIES
  OneAdmissionClock
