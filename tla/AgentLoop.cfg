SPECIFICATION Spec
CONSTANTS
  k1 = k1
  k2 = k2
  bad = bad
  deep = deep
  MaxIterations = 4
  MaxToolCalls = 2
  MaxTruncationRetries = 1
  Deadline = 7
  Reserve = 3
  Floor = 1
  ToolTimeout = 2
  MaxProgress = 1
  OutputBudget = 5
  Placeholder = 1
  NoteSize = 1
  Keys <- MCKeys
  DeepKeys <- MCDeepKeys
  RaisingKeys <- MCBadKeys
  Outcomes <- MCOutcomes
  MaxCallsPerReply = 2
  Carried <- MCCarried
INVARIANTS
  NeverFallsOffLoop
  EveryCallAnswered
  BudgetMatchesRuns
  RepeatPointsAtRun
  OutputFitsOldestFirst
  RunAgainOnlyIfGone
  NoSilentTimeout
  EndsNearDeadline
PROPERTIES
  AnswerGetsReserve
  KeepsContract
  TurnEnds
