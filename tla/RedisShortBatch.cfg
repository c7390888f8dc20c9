\* A restore reaches a task that was discarded meanwhile; another task waits behind it.
SPECIFICATION Spec
CONSTANTS
  Task = {1, 2}
  Worker = {w1}
  Slot = {s1, s2}
  Sweeper = {p1}
  Services = {"restore"}
  MaxRetry = 0
  MaxTime = 0
  BackendFails = FALSE
  Missing = Missing
  Nobody = Nobody
  Free = Free
PROPERTIES ShortBatchMeansDrained
