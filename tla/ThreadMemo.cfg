SPECIFICATION Spec
CONSTANTS
  a = a
  b = b
  c = c
  t1 = t1
  t2 = t2
  t3 = t3
  Threads <- MCThreads
  Turns <- MCTurns
  TTL = 2
  CharBudget = 3
  MaxThreads = 2
  Sizes <- MCSizes
  RaisingTurns <- MCTurns
  MaxExchanges = 2
  MaxTime = 5
SYMMETRY MCSymmetry
CHECK_DEADLOCK FALSE
INVARIANTS
  OwnThreadOnly
  KeepsTailOfLastTurn
  LeastRecentlyAnsweredGoes
PROPERTIES
  CarriesOnlyWithinLifetime
