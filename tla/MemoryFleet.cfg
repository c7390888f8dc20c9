\* A group with two permits; a handler that waits; due times 0 and 1.
SPECIFICATION FairSpec
CONSTANTS
  t1 = t1
  t2 = t2
  w1 = w1
  c1 = c1
  Task = {t1, t2}
  Worker = {w1}
  GroupOf <- Groups
  MaxRetry = 1
  MaxTime = 1
  Permits = 2
  Safe <- Waits
  Client = {c1}
  HandleOf <- Handles
  NoEntry = NoEntry
  Nobody = Nobody
  Free = Free
  NoTask = NoTask
INVARIANTS TypeOK
PROPERTIES ClaimsInOrder DoneTasksStayDone AnswersStand KeepsContract EverythingSettles
CHECK_DEADLOCK FALSE
