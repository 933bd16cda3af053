CONSTANTS
  s = s
  a = a
  b = b
  Thread = {s, a, b}
  Sched = s
  NULL = NULL
  Prio <- PrioTwo
  LOWEST = 31
  Prios = {0, 1}
  Young = {b}
SPECIFICATION SchedSpec
INVARIANTS MutualExclusion NotRecursive AssertsFailOnly QueuesMatch
PROPERTIES MarkSeen NoStaleSwitch SchedulerPromise
CHECK_DEADLOCK FALSE
