SPECIFICATION MCSpec
CONSTANTS
  r1 = r1
  r2 = r2
  name = name
  Conns = {c1, c2}
  Roots <- MCRoots
  NameOf <- MCNameOf
  Forbidden = {}
  NoSession = NoSession
  MaxScans = 2
  CanClean = TRUE
  Movable = {r1}
  NoProject = NoProject
  NoCwd = NoCwd
  CommonNames = {}
  RrfK = 60
  TopN = 3
  a = a
  c = c
  f = f
  g = g
  Writers = {w1}
  Indexer = w1
  Hashes = {a, c}
  NoHash = NoHash
  None = None
  MaxId = 3
  MaxRow = 1
  Persist = FALSE
  Files = {f, g}
  FileOf <- MCFileOf
  Subdirs = {d1, d2, d3}
  Excluded = {d2, d3}
  Matched = {d3}
  MaxBytes = 2
  MaxRecords = 5
  MaxFaults = 2
INVARIANT ProjectsAsAsked
INVARIANT LexicalIsCurrent
 
INVARIANT NoRecordLost
PROPERTY SearchIsFaithful
PROPERTY AddedGetsScanned
PROPERTY SearchEnds
CHECK_DEADLOCK FALSE
