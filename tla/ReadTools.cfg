SPECIFICATION Spec
CONSTANTS
  old = old
  new = new
  Uids = {old, new}
  Requests <- MCRequests
  Parts <- MCParts
  MaxLogBytes = 3
  OverFetch = 2
  NodeLimit = 2
  MaxPoints = 3
  MaxSeries = 2
  MaxSamples = 4
  MaxRows = 2
INVARIANTS
  TypeOK
  LastWordsTold
  JobsOfThisCronJob
  CutsAreSaid
  NewestEventsTold
