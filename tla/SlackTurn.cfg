SPECIFICATION Spec
CONSTANTS
  m1 = m1
  m2 = m2
  Mentions <- MCMentions
  Heartbeat = TRUE
  MaxCharts = 2
CHECK_DEADLOCK FALSE
INVARIANTS
  BeatOnlyWhileWorking
  AnswerStands
  ReplySentMeansReplied
PROPERTIES
  Concluded
