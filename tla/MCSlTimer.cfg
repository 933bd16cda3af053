CONSTANTS
  s = s
  a = a
  b = b
  Thread = {s, a, b}
  Sched = s
  NULL = NULL
  Prio <- PrioTwo
  LOWEST = 31
  Prios = {}
  Young = {}
  PERIOD = 2
  MaxLate = 1
SPECIFICATION TimedFairSpec
INVARIANTS TimerTypeOK TimerIsSet PeriodsKept
PROPERTY OwnerLeaves
CHECK_DEADLOCK FALSE
