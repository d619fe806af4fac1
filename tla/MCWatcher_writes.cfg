SPECIFICATION FairSpec
CONSTANTS
  Paths = {p1}
  Contents = {c1, c2}
  NoPath = NoPath
  Gone = Gone
  QueueSize = 8
  Ops <- Writes
  Ticks <- SubSecond
  CanLose = FALSE
  CanPause = FALSE
  CanSuspend = FALSE
  CanReadd = FALSE
  CanSearch = TRUE
  SlowSweep = TRUE
  MaxEdits = 3
PROPERTY EventuallyCurrent
PROPERTY QuiescentMeansCurrent
