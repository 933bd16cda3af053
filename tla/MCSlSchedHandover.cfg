CONSTANTS
  s = s
  a = a
  b = b
  Thread = {s, a, b}
  Sched = s
  NULL = NULL
  Prio <- PrioTwo
  LOWEST = 31
  Prios = {}
  Young = {}
SPECIFICATION SchedSpec
PROPERTY ContentionHandedOver
CHECK_DEADLOCK FALSE
