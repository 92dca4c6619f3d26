SPECIFICATION FairSpec
CONSTANTS
  Pid = {p1, p2}
  payload_chars = 2
  Verb <- Verbs
  Path <- Paths
  MaxMessages = 2
  MaxProcesses = 2
  delete_threshold = 0
  sleep_time = 1
  MaxTime = 2
INVARIANTS CommandsAsSent ResidueBounded
 
CHECK_DEADLOCK FALSE
