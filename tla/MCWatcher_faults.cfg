SPECIFICATION FairSpec
CONSTANTS
  Paths = {p1}
  Contents = {c1}
  NoPath = NoPath
  Gone = Gone
  QueueSize = 1
  Ops <- WritesAndDeletes
  Ticks <- Second
  CanLose = TRUE
  CanPause = TRUE
  CanSuspend = TRUE
  CanReadd = FALSE
  CanSearch = TRUE
  SlowSweep = TRUE
  MaxEdits = 2
INVARIANT WakeInv
PROPERTY EventuallyTracked
