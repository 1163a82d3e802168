SPECIFICATION FairSpec
CONSTANTS
  Threads = {t1, t2}
  AgentSize = 0
  IterationCounts = {1}
  CfrThreshold = 2
  DiscountInterval = 1
  StrategyInterval = 1
  MayTimeOut = TRUE
  MayKill = FALSE
  KillWhileSearching = FALSE
  ConstructedCounts = {0}
  Word = 8
  MaxBatches = 2
INVARIANT MissionCompleted
