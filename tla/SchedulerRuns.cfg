\* Two processes, one of them stable; locks are lost, calls fail, clocks differ.
SPECIFICATION FairSpec
CONSTANTS
  e1 = e1
  e2 = e2
  Process = {p1, p2}
  Nobody = Nobody
  Entry = {e1, e2}
  Field <- Fields
  Grid <- Grids
  WallClock <- Digits
  Accepted <- Values
  Zone <- Zones
  OwnZone = 2
  NoZone = NoZone
  Policy <- Policies
  Interval = 2
  MaxTime = 5
  Skew = 1
  CallsFail = TRUE
  Stable = {p1}
INVARIANTS TypeOK RunsKeepPolicy StateMatchesTasks NothingIsSkipped
PROPERTIES NoDuplicates UsesLockContract CatchesUp
