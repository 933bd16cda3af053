CONSTANTS
  Lens = {3, 4, 15}
  POOL = 20
  PAGE = 20
  HEADER = 2
  MallocAt = {24}
  Data = {0, 16}
  MaxMem = 40
SPECIFICATION KallocSpec
CHECK_DEADLOCK FALSE
INVARIANTS BlocksApart
