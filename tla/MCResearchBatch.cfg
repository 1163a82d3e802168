SPECIFICATION FairSpec
CONSTANTS
  Threads = {t1, t2}
  AgentSize = 1
  IterationCounts = {1, 3}
  CfrThreshold = 2
  DiscountInterval = 1
  StrategyInterval = 2
  MayTimeOut = FALSE
  MayKill = TRUE
  KillWhileSearching = FALSE
  ConstructedCounts = {0}
  Word = 8
  MaxBatches = 2
INVARIANTS TypeOK CompletedMeansDone NoUseAfterDelete
PROPERTIES BatchSpec OneDiscountPerCount
CHECK_DEADLOCK FALSE
