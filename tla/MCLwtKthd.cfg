CONSTANTS
  Thread = {b1, b2, b3, b4, b5}
  Main = b1
  Value = {x}
  NULL = NULL
  UINT_MAX = 7
  c1 = c1
  c2 = c2
  d1 = d1
  Chan = {c1, c2}
  Group = {}
  Cap <- OneAndNone
  Data <- LwtData
  JUNK = JUNK
  Kthd = {k1, k2}
  Sched = S
  ThdChan = {c1}
  Home <- EachWay
  Rank <- BlockRank
  b1 = b1
  b2 = b2
  b3 = b3
  b4 = b4
  b5 = b5
  k1 = k1
  k2 = k2
SPECIFICATION KthdFairSpec
CHECK_DEADLOCK FALSE
INVARIANTS HeadIsMine RingsApart NoSleepingWork
PROPERTIES TransitFrozen MessagesTaken
