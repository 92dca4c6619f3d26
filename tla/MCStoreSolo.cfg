SPECIFICATION Spec
CONSTANTS
  c1 = c1
  c2 = c2
  p1 = p1
  p2 = p2
  v1 = v1
  v2 = v2
  Conn = {c1}
  Process = {p1}
  ProcOf <- Alone
  Key = {k1}
  Val = {v1}
  NoVal = NoVal
  Garbage = Garbage
  NoProc = NoProc
  LeaderSize = 2
  TrailerSize = 2
  HeaderBlockSize = 1
  LeafSize = 1
  WordAlign = 2
  AllocSizes = {1}
  MinRegion = 4
  SmallFiles = FALSE
  Allow = {}
  MaxSize = 12
  MaxGeneration = 2
INVARIANTS TrailerChain MappedCovers
CHECK_DEADLOCK FALSE
