\* A shutdown drain outlives the worker's heartbeat.
SPECIFICATION Spec
CONSTANTS
  Task = {t1}
  Worker = {w1, w2}
  Slot = {s1}
  Sweeper = {p1}
  Services = {"refresh", "restore", "purge"}
  MaxRetry = 1
  ScanMin = 1
  StageLimit = 2
  TrashLimit = 2
  BackendFails = FALSE
  Timely = TRUE
  Stable = {}
  NoRow = NoRow
  Nobody = Nobody
  Free = Free
PROPERTIES DrainingWorkersKeepTasks
