SPECIFICATION Spec
CONSTANTS
  TestCards <- FourCards
  DefaultOdds = 8
  Grain = 2
  PreflopNodes <- SomePreflopNodes
  BoardNodes <- SomeBoardNodes
  NumPlayers = 4
  numSeats = 3
  InitChips <- Stacks
  RaiseBets = {4}
  Boards <- SomeBoards
  RealRaises = {0, 1}
  SetupSize = 3
  RangeFrom = 2
  OddLine = 4
  OddBet = 3
  MaxHistory = 5
  MaxRequests = 2
INVARIANT TypeOK
INVARIANT TableAgrees
INVARIANT FiguresReplayed
INVARIANT OwnRaiseRecovered
INVARIANT OnlyDroppedLeak
INVARIANT AnsweredNeverCrashes
INVARIANT RangesAreDistributions
INVARIANT SuitsAlike
CHECK_DEADLOCK FALSE
