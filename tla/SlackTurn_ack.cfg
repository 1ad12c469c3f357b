SPECIFICATION Spec
CONSTANTS
  m1 = m1
  m2 = m2
  Mentions <- MCMentions
  Heartbeat = TRUE
  MaxCharts = 1
CHECK_DEADLOCK FALSE
INVARIANTS
  HistoryHasNoPlaceholder
