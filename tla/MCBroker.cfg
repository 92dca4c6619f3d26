SPECIFICATION FairSpec
CONSTANTS
  Reader = {r1, r2}
  FifoCap = 2
  MaxMessages = 3
  Allow = {"read_error"}
INVARIANTS Conserved
CHECK_DEADLOCK FALSE
 
