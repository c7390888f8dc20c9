\* Two workers of two slots contend for two tasks; calls may fail; one
\* process discards what expired, so that the lock of that service is held.
SPECIFICATION Spec
CONSTANTS
  Task = {t1, t2}
  Worker = {w1, w2}
  Slot = {s1, s2}
  Sweeper = {p1}
  Services = {"discard"}
  MaxRetry = 1
  ScanMin = 1
  StageLimit = 2
  TrashLimit = 1
  BackendFails = TRUE
  Timely = TRUE
  Stable = {}
  NoRow = NoRow
  Nobody = Nobody
  Free = Free
SYMMETRY Symmetric
INVARIANTS TypeOK NoOrphan PermitsCoverClaims
PROPERTIES KeepsContract OutcomesAndAttemptsStand DiscardIsSafe
