\* Two groups with one permit and at most two waiting tasks each, and up to two
\* control events.  The process ends: a state without a step is its last one.
SPECIFICATION FairSpec
CONSTANTS
  Group = {g1, g2}
  Concurrency = 1
  MaxTasks = 2
  MaxEvents = 2
  BridgeFails = TRUE
INVARIANTS TypeOK ReturnsIdle PauseTakesHold
PROPERTIES ShutdownCompletes ResumedGroupsWork
CHECK_DEADLOCK FALSE
