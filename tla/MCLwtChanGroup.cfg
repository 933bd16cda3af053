CONSTANTS
  Thread = {m, a}
  Main = m
  Value = {x}
  NULL = NULL
  UINT_MAX = 7
  c1 = c1
  c2 = c2
  Chan = {c1, c2}
  Group = {g}
  Cap <- CapMixed
  Data = {d1, d2}
  JUNK = JUNK
SPECIFICATION ChanSpec
SYMMETRY Symmetry
CHECK_DEADLOCK FALSE
INVARIANTS ChanTypeOK NoLostWakeup EventsComplete
PROPERTY ChannelPromise
