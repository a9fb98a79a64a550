SPECIFICATION FairSpec
CONSTANTS
  t1 = t1
  t2 = t2
  t3 = t3
  none = none
  Threads <- ThreeThreads
  NoPool = none
  MaxShutdowns = 2
  Faults = {"death"}
INVARIANTS
  NoExecutorIsForgotten
  ClosedMeansIdle
PROPERTIES
  DeadPoolOnlyBesideShutdown
  EveryCallReturns
