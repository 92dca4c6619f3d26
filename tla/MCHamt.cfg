CONSTANTS
  ka = ka
  kb = kb
  kc = kc
  kd = kd
  ke = ke
  va = va
  vb = vb
  Keys = {ka, kb, kc, kd, ke}
  Values = {va, vb}
  Fan = 3
  max_internal_depth = 2
  Hash <- MCHash
  MaxWrites = 4
  MaxRevision = 2
SYMMETRY Symmetry
SPECIFICATION Spec
INVARIANTS
  IndexIsMap
  InsertedIterator
  RevisionsReadable
  HeapOwned
  DiffExact
CHECK_DEADLOCK FALSE
