SPECIFICATION Spec
CONSTANTS
  ann = ann
  ops = ops
  lab = lab
  team = team
  th = th
  t1 = t1
  t2 = t2
  t3 = t3
  Users = {ann}
  Channels = {ops}
  Namespaces = {lab}
  Team = team
  AllowDMs = FALSE
  Capacity = 3
  Hour = 1
  Policies <- MCPolicies
  Requests <- MCRequests
  Threads = {th}
  Turns = {t1, t2, t3}
  TTL = 1
  CharBudget = 2
  MaxThreads = 1
  Sizes = {1}
  RaisingTurns = {}
  MaxExchanges = 1
  MaxEdits = 1
  MaxTime = 3
  Mention <- MCMention
  NoTurn = NoTurn
SYMMETRY MCSymmetry
CHECK_DEADLOCK FALSE
INVARIANTS
  NeverOutlivesSilence
PROPERTIES
  PolicyNeverGoesBack
  GateKept
