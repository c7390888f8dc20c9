\* Two workers, one task, restores and discards; the locks are held.
SPECIFICATION Spec
CONSTANTS
  Task = {1}
  Worker = {w1, w2}
  Slot = {s1}
  Sweeper = {p1}
  Services = {"restore", "discard"}
  MaxRetry = 1
  MaxTime = 1
  BackendFails = TRUE
  Missing = Missing
  Nobody = Nobody
  Free = Free
SYMMETRY Symmetric
INVARIANTS KeysAgree NoOrphan ExclusiveExecution
PROPERTIES KeepsContract OutcomesAndAttemptsStand
