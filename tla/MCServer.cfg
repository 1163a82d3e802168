SPECIFICATION FairSpec
CONSTANTS
  Engines = {r0, r1}
  Connections = {c1, c2}
  ThreadCounts = {0, 1}
  Situations = {s}
  OwnHand = "AsKh"
  ShowList <- TwoShown
  Learned <- SomeLearned
  Iterations = 2
  MaxRequests = 2
INVARIANT TypeOK
INVARIANT OneAtWork
INVARIANT DecidedOnLastShown
PROPERTY RequestsServed
PROPERTY InterruptEnds
CHECK_DEADLOCK FALSE
