SPECIFICATION Spec
CONSTANTS
  Parts = {"daemon", "worker", "cleanup", "sidecar"}
  p1 = p1
  p2 = p2
  Procs <- MCProcs
  Nobody = Nobody
  NoInode = NoInode
  MaxInode = 3
  MaxTries = 2
  Busy <- MCBusy
  CanKill = TRUE
  w1 = w1
  w2 = w2
  Watched <- MCWatched
  Burst = 2
  Baseline = 2
  MaxQueued <- MCMaxQueued
  Grace = 2
  IdlePause = 1
  Engines = {e1, e2}
  Ports = {1, 2}
  Taken = {2}
  OsPort = 9
INVARIANT OneDaemonFindable
INVARIANT NoChildLeft
INVARIANT LimitsHold
PROPERTY ReloadNotLost
PROPERTY StopStops
PROPERTY GraceRespected
PROPERTY WatcherGoesOn
CHECK_DEADLOCK FALSE
