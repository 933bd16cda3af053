CONSTANTS
  Thread = {m, a, b}
  Main = m
  Value = {v}
  NULL = NULL
  UINT_MAX = 4
  Chan = {c1}
  c1 = c1
  Group = {g}
  Cap <- Caps
  Data = {d}
  JUNK = JUNK
SPECIFICATION V1Spec
SYMMETRY Symmetry
CHECK_DEADLOCK FALSE
INVARIANT NoLostWakeup
PROPERTY ForkJoinPromise
