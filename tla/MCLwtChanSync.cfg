CONSTANTS
  Thread = {m, a, b}
  Main = m
  Value = {x, y}
  NULL = NULL
  UINT_MAX = 7
  c1 = c1
  c2 = c2
  Chan = {c1}
  Group = {}
  Cap <- CapSync
  Data = {d1}
  JUNK = JUNK
SPECIFICATION ChanFairSpec
CHECK_DEADLOCK FALSE
INVARIANT ChanCountersAccurate
PROPERTIES Synchronous ForkJoinPromise ReceiverReturns
