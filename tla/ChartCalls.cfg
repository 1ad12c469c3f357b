SPECIFICATION Spec
CONSTANTS
  Keys = {"w", "x", "y", "z"}
  LatestDay = 3
  TrendDays = 2
  MaxRows = 2
  RowsPerDay = 2
  BreakdownMaxRows = 6
  TrendRows = 2
  MaxSeries = 2
  MaxBars = 3
  Other = "Other"
  Calls = {"a", "b", "c", "d"}
  Turns = {"t1", "t2"}
  Mcp = "mcp"
  Owner <- MCOwner
  MayAsk <- MCMayAsk
  ChartsPerTurn = 1
  Faults = {"accounting_error", "unknown_tool"}
  Tables <- MCTables
INVARIANTS
  PromiseKept
  ChartBudget
  WholeWindowPlotted
  MissingDaysSaid
