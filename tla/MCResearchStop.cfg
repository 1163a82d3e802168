SPECIFICATION FairSpec
CONSTANTS
  Threads = {t1, t2}
  AgentSize = 1
  IterationCounts = {0, 2}
  CfrThreshold = 2
  DiscountInterval = 1
  StrategyInterval = 2
  MayTimeOut = TRUE
  MayKill = TRUE
  KillWhileSearching = TRUE
  ConstructedCounts = {0}
  Word = 8
  MaxBatches = 2
INVARIANTS Accounting QueueHomogeneous StoppedMeansExited
PROPERTIES SearchReturns KillStops
CHECK_DEADLOCK FALSE
