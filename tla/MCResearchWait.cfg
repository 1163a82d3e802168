SPECIFICATION FairSpec
CONSTANTS
  Threads = {t1, t2}
  AgentSize = 1
  IterationCounts = {0, 2}
  CfrThreshold = 2
  DiscountInterval = 1
  StrategyInterval = 2
  MayTimeOut = FALSE
  MayKill = TRUE
  KillWhileSearching = FALSE
  ConstructedCounts = {0, 1}
  Word = 8
  MaxBatches = 1
PROPERTY Test3Ends
CHECK_DEADLOCK FALSE
