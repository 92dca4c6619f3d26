CONSTANTS
  s1 = s1
  s2 = s2
  Paths = {s1, s2}
  NoPath = NoPath
  Pids = {1, 2}
  NoPid = 0
  max_gc_processes = 2
  PipeSize = 9
  MaxRequests = 3
  MaxStops = 1
SPECIFICATION FairSpec
INVARIANTS
  TrackedAreChildren
  OneVacuumPerStore
  NoLostWakeup
  EveryChildAsked
PROPERTIES
  ChildReaped
  WatcherEnds
CHECK_DEADLOCK FALSE
