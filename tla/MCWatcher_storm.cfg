SPECIFICATION StormSpec
CONSTANTS
  Paths = {p1, p2}
  Contents = {c1}
  NoPath = NoPath
  Gone = Gone
  QueueSize = 2
  Ops <- AllOps
  Ticks <- Second
  CanLose = FALSE
  CanPause = FALSE
  CanSuspend = FALSE
  CanReadd = TRUE
  CanSearch = FALSE
  SlowSweep = TRUE
  MaxEdits = 2
PROPERTY EventuallyTracked
