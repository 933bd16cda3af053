CONSTANTS
  Thread = {m, a, b, c}
  Main = m
  Value = {v}
  NULL = NULL
  UINT_MAX = 7
SPECIFICATION FairSpec
INVARIANTS CountersAccurate RingIsLive NoLostJoiner NeverStuck IInv
PROPERTIES ReclaimOnlyEnded ForkJoinPromise NoStarvation JoinsReturn
