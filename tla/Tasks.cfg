SPECIFICATION FairSpec
CONSTANTS
  Workers = {w1, w2, w3}
  Callers = {c1, c2, c3}
  MaxTasks = 4
INVARIANTS
  NoLostWakeUp
  NobodySleepsThroughStop
PROPERTIES
  PoolSafety
  EveryCallReturns
  StopReturns
