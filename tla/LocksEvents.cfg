\* Two services in one process and one of them in another, pools of two connections;
\* three control events, one of which cannot be decoded, and one listener.
\* When every event was sent and yielded there is no step left.
SPECIFICATION FairSpec
CONSTANTS
  p1 = p1
  p2 = p2
  t1 = t1
  t2 = t2
  Process = {p1, p2}
  Target = {t1, t2}
  Section <- Sections
  PoolSize = 2
  MaxHolds = 2
  Nobody = Nobody
  InPool = InPool
  Closed = Closed
  Event = {e1, e2, x}
  Unknown = {x}
  Listener = {l1}
  MaxTime = 3
  Skew = 1
  Capacity = 1
CHECK_DEADLOCK FALSE
INVARIANTS TypeOK PoolIsClean YieldsInOrder SkipsOnlyTwins
PROPERTIES KeepsLockContract LocksComeBack HolderIsLeftAlone EachStampIsHeard
