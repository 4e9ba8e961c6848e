\* Every reservation ends, and a budget that ends or closes drains its normal calls.
SPECIFICATION FairSpec
CONSTANTS
  Tasks = {t1, t2}
  MaxCalls = 2
  CleanupCalls = 1
  MaxConcurrency = 1
  Interval = 1
  NormalDeadline = 1
  RunDeadline = 3
  Horizon = 3
  Abortable = {}
  Answers = {"Completed"}
  Prompt = FALSE
PROPERTIES
  EveryReservationEnds
  TerminationDrains
