SPECIFICATION Spec
CONSTANTS
  p1 = p1
  p2 = p2
  p3 = p3
  Process = {p1, p2, p3}
  NoProcess = NoProcess
  Self = p1
  Reader = {p3}
  Renames = {"renameat2", "linkat"}
  SegmentSize = 4
  FullRegion = 8
  PageSize = 2
  HeaderSize = 1
  LeaderSize = 2
  TrailerSize = 2
  AllocSizes = {3, 9}
  MaxSize = 16
  MaxPointers = 1
INVARIANTS AccessExact CommittedStored ProtectionExact 
PROPERTY CreatorOpens
CHECK_DEADLOCK FALSE
