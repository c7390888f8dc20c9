\* One worker never stops, the other may stop or crash; handlers return; all services but the
\* discard run.
SPECIFICATION FairSpec
CONSTANTS
  Task = {t1}
  Worker = {w1, w2}
  Slot = {s1}
  Sweeper = {p1}
  Services = {"refresh", "restore", "purge"}
  MaxRetry = 0
  ScanMin = 2
  StageLimit = 2
  TrashLimit = 2
  BackendFails = FALSE
  Timely = TRUE
  Stable = {w1}
  NoRow = NoRow
  Nobody = Nobody
  Free = Free
INVARIANTS ExclusiveExecution
PROPERTIES EveryTaskSettles DrainEnds
