SPECIFICATION Spec
CONSTANTS
  c1 = c1
  c2 = c2
  c3 = c3
  c4 = c4
  c5 = c5
  c6 = c6
  k1 = k1
  Cards = {c1, c2, c3, c4, c5, c6, k1}
  TestCards = {c1, c2, c3, c4, c5, c6}
  NumPlayers = 3
  NumPairs = 2
  Boards <- SomeBoards
  Ranges <- WithNone
  PairLists <- SomePairLists
INVARIANTS TypeOK CardsApart EveryoneDealt EnoughCards
CHECK_DEADLOCK FALSE
