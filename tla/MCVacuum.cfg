SPECIFICATION FairSpec
CONSTANTS
  Client = {c1}
  Key = {k1, k2}
  NoFile = NoFile
  MaxCommits = 2
  MaxOpens = 2
  MaxClock = 1
INVARIANTS GcIsARevision ChangeNoticedByRetry
CHECK_DEADLOCK FALSE
PROPERTIES SignalEnds VacuumEnds
