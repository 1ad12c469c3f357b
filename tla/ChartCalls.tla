----------------------------- MODULE ChartCalls -----------------------------
(***************************************************************************)
(* Calls of accounting_chart through dispatch (tools/__init__.py), side by *)
(* side: several in one turn of the agent, turns of different operators,   *)
(* and MCP clients, who have no turn.  A turn has a collector (charts.py)  *)
(* that takes a few charts; what was collected when the turn ends is what  *)
(* is posted with the answer.  A call runs without interruption except at  *)
(* its queries to the accounting server: the latest date, if the window is *)
(* left open, and the rows.                                                *)
(***************************************************************************)
EXTENDS ChartData

CONSTANTS
  Calls,          \* tool calls
  Turns,          \* turns of the agent
  Mcp,            \* the owner of a call made by an MCP client
  Owner,          \* call -> its turn, or Mcp
  MayAsk,         \* call -> the requests it may turn out to be
  ChartsPerTurn,  \* charts_max_per_turn
  Faults,         \* codes dispatch and the queries may fail with
  Tables          \* the usage the accounting server may hold

Request == [kind : {"trend", "ranking", "breakdown"},
            dimension : {"none", "usage_table", "token_table"},
            llm : BOOLEAN,        \* resource='llm'
            value : Keys \cup {"none"},
            filtered : BOOLEAN,   \* by institution, node or GPU model
            dates : Seq(Int),     \* none, one, or both ends of the window
            top : Nat \ {0}]

McpErrors == {"timeout", "accounting_unreachable", "accounting_error", "accounting_rejected"}
Refusals == {"charts_disabled", "chart_budget", "invalid_arguments", "accounting_not_configured"}
DispatchErrors == {"unknown_tool", "malformed_arguments", "invalid_arguments"}
Errors == McpErrors \cup Refusals \cup DispatchErrors \cup {"tool_failed"}

ASSUME CallsAssumption ==
  /\ Mcp \notin Turns /\ Owner \in [Calls -> Turns \cup {Mcp}]
  /\ MayAsk \in [Calls -> SUBSET Request]
  /\ \A c \in Calls : \A r \in MayAsk[c] : Len(r.dates) <= 2
  /\ ChartsPerTurn \in Nat \ {0}
  /\ Faults \subseteq McpErrors \cup DispatchErrors
  /\ \A table \in Tables : table \in SUBSET Row /\ IsFiniteSet(table)

VARIABLES
  table,     \* the rows of the accounting server
  settings,  \* [enabled, configured]: charts_enabled, and a URL is set
  pc,        \* call -> idle | date | rows | done | raised
  request,   \* call -> its arguments, once it has begun
  dates,     \* call -> the dates it asks for rows with
  report,    \* call -> what its result tells the model
  charts,    \* turn -> the charts of its collector, as the calls that drew them
  turn,      \* turn -> open | closed | raised
  delivered  \* turn -> AgentResult.charts

vars == <<table, settings, pc, request, dates, report, charts, turn, delivered>>
world == <<table, settings>>

NoRequest == [kind |-> "none"]
NoReport == [code |-> "none"]
Nothing == [label \in {} |-> 0]
Running(c) == pc[c] \in {"date", "rows"}

Told(code, attached, plotted, caption, requested) ==
  [code |-> code, attached |-> attached, plotted |-> plotted,
   caption |-> caption, requested |-> requested]

Init ==
  /\ table \in Tables
  /\ settings \in [enabled : BOOLEAN, configured : BOOLEAN]
  /\ pc = [c \in Calls |-> "idle"]
  /\ request = [c \in Calls |-> NoRequest]
  /\ dates = [c \in Calls |-> <<>>]
  /\ report = [c \in Calls |-> NoReport]
  /\ charts = [t \in Turns |-> <<>>]
  /\ turn = [t \in Turns |-> "open"]
  /\ delivered = [t \in Turns |-> <<>>]

----------------------------------------------------------------------------
(* The collector.  An MCP client has none: there is no room for a chart.   *)

HasRoomInclusive(owner) == owner \in Turns /\ Len(charts[owner]) <= ChartsPerTurn  \* fault
HasRoom(owner) == owner \in Turns /\ Len(charts[owner]) < ChartsPerTurn

\* What the model is told: whether emit took the chart. Fault: that the budget
\* was checked before the query is taken for the answer.
AttachedSinceChecked(c) == TRUE
Attached(c) == HasRoom(Owner[c])

Attach(c) ==
  charts' = IF HasRoom(Owner[c])
            THEN [charts EXCEPT ![Owner[c]] = Append(@, c)]
            ELSE charts

----------------------------------------------------------------------------
(* A call, up to its first query.                                          *)

MayBegin(c) == pc[c] = "idle" /\ \A t \in Turns : Owner[c] = t => turn[t] # "closed"

Answer(c, told) ==
  /\ pc' = [pc EXCEPT ![c] = "done"]
  /\ report' = [report EXCEPT ![c] = told]

Fail(c, code) == Answer(c, Told(code, FALSE, Nothing, <<>>, <<>>))

TimeoutCode == "timeout"

\* A name that is not registered, or arguments the input model refuses.
DispatchRefuses(c) ==
  /\ MayBegin(c)
  /\ \E code \in Faults \cap DispatchErrors : Fail(c, code)
  /\ UNCHANGED <<world, request, dates, charts, turn, delivered>>

\* Arguments json.loads gives up on in its own way: gather raises, and with it
\* the turn, while its other calls run on.
DispatchRaises(c) ==
  /\ MayBegin(c)
  /\ pc' = [pc EXCEPT ![c] = "raised"]
  /\ turn' = IF Owner[c] = Mcp THEN turn ELSE [turn EXCEPT ![Owner[c]] = "raised"]
  /\ UNCHANGED <<world, request, dates, report, charts, delivered>>

\* The token table has no other columns and no single line to plot.
TokenTableRefuses(r) ==
  r.dimension = "token_table" /\ (~r.llm \/ r.kind = "trend" \/ r.filtered)

NeedsDimension(r) == r.kind # "trend" \/ r.value # "none"

\* Why the handler refuses, in the order of its checks; "none" if it goes on.
Refusal(c, r) ==
  CASE ~settings.enabled -> "charts_disabled"
    [] settings.enabled /\ ~HasRoom(Owner[c]) -> "chart_budget"
    [] OTHER ->
         IF TokenTableRefuses(r) \/ (NeedsDimension(r) /\ r.dimension = "none")
         THEN "invalid_arguments"
         ELSE IF ~settings.configured THEN "accounting_not_configured" ELSE "none"

\* _trend_window: asked of the server when neither date is given.
LeavesWindowOpen(r) ==
  r.dates = <<>> /\ (r.kind = "breakdown" \/ (r.kind = "trend" /\ r.value = "none"))

Begin(c) ==
  /\ MayBegin(c)
  /\ \E r \in MayAsk[c] :
       /\ request' = [request EXCEPT ![c] = r]
       /\ \/ Refusal(c, r) # "none" /\ Fail(c, Refusal(c, r)) /\ UNCHANGED dates
          \/ /\ Refusal(c, r) = "none"
             /\ pc' = [pc EXCEPT ![c] = IF LeavesWindowOpen(r) THEN "date" ELSE "rows"]
             /\ dates' = [dates EXCEPT ![c] = r.dates]
             /\ UNCHANGED report
  /\ UNCHANGED <<world, charts, turn, delivered>>

----------------------------------------------------------------------------
(* The queries.                                                            *)

GetDate(c) ==
  /\ pc[c] = "date"
  /\ dates' = [dates EXCEPT ![c] = TrendWindow]
  /\ pc' = [pc EXCEPT ![c] = "rows"]
  /\ UNCHANGED <<world, request, report, charts, turn, delivered>>

QueryFails(c) ==
  /\ Running(c)
  /\ \E code \in Faults \cap McpErrors : Fail(c, code)
  /\ UNCHANGED <<world, request, dates, charts, turn, delivered>>

\* wait_for of dispatch: the handler is cancelled at its query.
TimesOut(c) ==
  /\ Running(c)
  /\ Fail(c, TimeoutCode)
  /\ UNCHANGED <<world, request, dates, charts, turn, delivered>>

Window(c) ==
  Resolved(dates[c], request[c].kind = "trend" /\ request[c].value # "none")

\* The row sets the server may answer with, of each kind of chart.
Asked(c) == Within(table, Window(c))

TrendAnswers(c) ==
  IF request[c].value = "none" THEN MostRecent(PerDay(Asked(c)), TrendRows)
  ELSE {PerDay({row \in Asked(c) : row.key = request[c].value})}

RankingAnswers(c) ==
  LET bars == AtMost(request[c].top, MaxBars)
      ranked == PerKey(Asked(c), LatestDay)
  IN  IF request[c].dimension = "token_table" THEN Cut(ranked, bars) ELSE Largest(ranked, bars)

BreakdownAnswers(c) == MostRecent(Asked(c), BreakdownLimit(dates[c]))

Rows(c) ==
  CASE request[c].kind = "trend"     -> TrendAnswers(c)
    [] request[c].kind = "ranking"   -> RankingAnswers(c)
    [] request[c].kind = "breakdown" -> BreakdownAnswers(c)

\* No accounting rows matched: said, and nothing is drawn.
FindNothing(c) ==
  /\ pc[c] = "rows"
  /\ {} \in Rows(c)
  /\ Answer(c, Told("no_rows", FALSE, Nothing, Window(c), <<>>))
  /\ UNCHANGED <<world, request, dates, charts, turn, delivered>>

\* matplotlib raises: dispatch reports it as any other exception.
DrawFails(c) ==
  /\ pc[c] = "rows"
  /\ Rows(c) # {{}}
  /\ Fail(c, "tool_failed")
  /\ UNCHANGED <<world, request, dates, charts, turn, delivered>>

Draw(c, plotted, caption, requested) ==
  /\ Answer(c, Told("chart", Attached(c), plotted, caption, requested))
  /\ Attach(c)
  /\ UNCHANGED <<world, request, dates, turn, delivered>>

\* A trend is one line, whose total is quoted, a ranking a bar per row.
\* Their caption is the window the server reports.
DrawTrend(c) ==
  /\ pc[c] = "rows" /\ request[c].kind = "trend"
  /\ \E rows \in Rows(c) \ {{}} :
       Draw(c, [label \in {Other} |-> Total(rows, {Other})], Window(c), <<>>)

DrawRanking(c) ==
  /\ pc[c] = "rows" /\ request[c].kind = "ranking"
  /\ \E rows \in Rows(c) \ {{}} :
       Draw(c, [label \in {row.key : row \in rows} |-> Total(rows, {label})], Window(c), <<>>)

DrawBreakdown(c) ==
  /\ pc[c] = "rows" /\ request[c].kind = "breakdown"
  /\ \E rows \in Rows(c) \ {{}} : \E bands \in Bands(rows, request[c].top) :
       Draw(c, bands, Caption(rows), NotShown(Caption(rows), Window(c)))

----------------------------------------------------------------------------
(* The end of a turn: its tools have returned, the charts go out with it.  *)

CloseTurn(t) ==
  /\ turn[t] = "open"
  /\ \A c \in Calls : Owner[c] = t => ~Running(c)
  /\ turn' = [turn EXCEPT ![t] = "closed"]
  /\ delivered' = [delivered EXCEPT ![t] = charts[t]]
  /\ UNCHANGED <<world, pc, request, dates, report, charts>>

CallStep(c) ==
  \/ DispatchRefuses(c) \/ DispatchRaises(c) \/ Begin(c)
  \/ GetDate(c) \/ QueryFails(c) \/ TimesOut(c)
  \/ FindNothing(c) \/ DrawFails(c) \/ DrawTrend(c) \/ DrawRanking(c) \/ DrawBreakdown(c)

AllOver ==
  /\ \A t \in Turns : turn[t] # "open"
  /\ \A c \in Calls : ~Running(c)
  /\ UNCHANGED vars

Next ==
  \/ \E c \in Calls : CallStep(c)
  \/ \E t \in Turns : CloseTurn(t)
  \/ AllOver

Spec == Init /\ [][Next]_vars

----------------------------------------------------------------------------
(* Properties.                                                             *)

TypeOK ==
  /\ table \in Tables
  /\ settings \in [enabled : BOOLEAN, configured : BOOLEAN]
  /\ pc \in [Calls -> {"idle", "date", "rows", "done", "raised"}]
  /\ \A c \in Calls : request[c] \in MayAsk[c] \cup {NoRequest}
  /\ dates \in [Calls -> Seq(Int)]
  /\ \A c \in Calls :
       \/ report[c] = NoReport
       \/ /\ report[c].code \in Errors \cup {"chart", "no_rows"}
          /\ report[c].attached \in BOOLEAN
  /\ charts \in [Turns -> Seq(Calls)] /\ delivered \in [Turns -> Seq(Calls)]
  /\ turn \in [Turns -> {"open", "closed", "raised"}]

Has(c, code) == report[c].code = code
Carries(sequence) == {sequence[i] : i \in DOMAIN sequence}

\* The pictures under a finished answer are exactly those the model was told
\* it carries: none of another turn's, none lost between its calls' queries,
\* none from a call that reported a failure or a timeout.
PromiseKept ==
  \A t \in Turns : turn[t] = "closed" =>
    Carries(delivered[t]) =
      {c \in Calls : Owner[c] = t /\ Has(c, "chart") /\ report[c].attached}

\* A turn never collects more charts than its budget, however many calls were
\* past the check together, and none is turned away while there is room.
ChartBudget ==
  \A t \in Turns :
    /\ Len(charts[t]) <= ChartsPerTurn
    /\ (\E c \in Calls : Owner[c] = t
          /\ (Has(c, "chart_budget") \/ (Has(c, "chart") /\ ~report[c].attached)))
       => Len(charts[t]) = ChartsPerTurn

\* The rows of the window a call was about, and whether the breakdown's row
\* limit is sized for them.
Subject(c) == Within(table, Window(c))
IsBreakdown(c) == Has(c, "chart") /\ request[c].kind = "breakdown"

FitsLimit(c) ==
  /\ Len(dates[c]) = 2
  /\ (dates[c][2] - dates[c][1] + 1) * RowsPerDay <= BreakdownMaxRows
  /\ \A row \in Subject(c) :
       Cardinality({other \in Subject(c) : other.date = row.date}) <= RowsPerDay

\* A window the limit is sized for is drawn whole: the bands add up to what the
\* server holds for it, each kept band to its own share, and no more is claimed.
WholeWindowPlotted ==
  \A c \in Calls : IsBreakdown(c) /\ FitsLimit(c) =>
    /\ Sum(report[c].plotted) = Total(Subject(c), Keys)
    /\ \A k \in Keys \cap DOMAIN report[c].plotted :
         report[c].plotted[k] = Total(Subject(c), {k})
    /\ \A k \in Keys \cap DOMAIN report[c].plotted, f \in Keys \ DOMAIN report[c].plotted :
         Total(Subject(c), {f}) <= report[c].plotted[k]

\* Whatever the limit cuts off, the caption names no day of it: a day of the
\* window that has usage is either under the caption or the reply is told that
\* the window asked for is not all there.
MissingDaysSaid ==
  \A c \in Calls : IsBreakdown(c) =>
    \A row \in Subject(c) :
      \/ report[c].caption[1] <= row.date /\ row.date <= report[c].caption[2]
      \/ report[c].requested = Window(c)
=============================================================================
