CONSTANTS
  Lens = {3, 4, 5, 6, 7}
  POOL = 14
  PAGE = 14
  HEADER = 2
  MallocAt = {15}
  Data = {0}
  MaxMem = 28
  Thread = {m, a, b}
  Main = m
  Chan = {c1, c2}
  c1 = c1
  c2 = c2
  Group = {g}
  Kthd = {k}
  NULL = NULL
  Cap <- Caps
  LwtLen = 7
  ChanHead = 4
  SlotLen = 1
  NodeLen = 4
  GroupLen = 3
  ParmLen = 4
  MaxSnd = 2
SPECIFICATION HeapSpec
SYMMETRY Symmetry
CHECK_DEADLOCK FALSE
INVARIANTS KInv RefsCounted BlocksMatch ChansCounted
PROPERTIES AllocatorPromise
