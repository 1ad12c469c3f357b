SPECIFICATION Spec
CONSTANTS
  a = a
  b = b
  c = c
  t1 = t1
  t2 = t2
  t3 = t3
  Threads <- MCOneThread
  Turns <- MCTurns
  TTL = 1
  CharBudget = 3
  MaxThreads = 2
  Sizes <- MCSizes
  RaisingTurns <- MCNoTurn
  MaxExchanges = 2
  MaxTime = 5
CHECK_DEADLOCK FALSE
PROPERTIES
  ReplayedIsFresh
