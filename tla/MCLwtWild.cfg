CONSTANTS
  Thread = {m, a, b}
  Main = m
  Value = {v1}
  NULL = NULL
  UINT_MAX = 7
SPECIFICATION WildSpec
SYMMETRY Symmetry
INVARIANT CountersAccurate
