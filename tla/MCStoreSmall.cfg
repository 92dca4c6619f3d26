SPECIFICATION FairSpec
CONSTANTS
  c1 = c1
  c2 = c2
  p1 = p1
  p2 = p2
  v1 = v1
  v2 = v2
  Conn = {c1, c2}
  Process = {p1, p2}
  ProcOf <- TwoProcesses
  Key = {k1}
  Val = {v1}
  NoVal = NoVal
  Garbage = Garbage
  NoProc = NoProc
  LeaderSize = 1
  TrailerSize = 1
  HeaderBlockSize = 1
  LeafSize = 1
  WordAlign = 1
  AllocSizes = {}
  MinRegion = 3
  SmallFiles = TRUE
  Allow = {}
  MaxSize = 7
  MaxGeneration = 2
INVARIANT StoreInvariant
CHECK_DEADLOCK FALSE
PROPERTY SyncTerminates
