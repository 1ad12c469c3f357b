----------------------------- MODULE ChartData -----------------------------
(***************************************************************************)
(* What accounting_chart (tools/accounting.py) makes of accounting rows:   *)
(* the window it asks for, how many rows it asks for, the bands it draws   *)
(* and the caption it puts over them.  A row is one day's usage of one     *)
(* value of the dimension that is charted.  Days are integers.             *)
(***************************************************************************)
EXTENDS Integers, Sequences, FiniteSetsExt

CONSTANTS
  Keys,              \* values of the charted dimension
  LatestDay,         \* the latest ingested date
  TrendDays,         \* DEFAULT_TREND_DAYS
  MaxRows,           \* accounting_max_rows
  RowsPerDay,        \* _BREAKDOWN_ROWS_PER_DAY
  BreakdownMaxRows,  \* _BREAKDOWN_MAX_ROWS
  TrendRows,         \* the 400 rows a cluster-wide trend asks for
  MaxSeries,         \* charts.MAX_SERIES, the length of the palette
  MaxBars,           \* charts.MAX_BARS
  Other              \* charts.OTHER_LABEL

ASSUME DataAssumption ==
  /\ LatestDay \in Int /\ TrendDays \in Nat \ {0}
  /\ MaxRows \in Nat \ {0} /\ RowsPerDay \in Nat \ {0} /\ BreakdownMaxRows \in Nat
  /\ TrendRows \in Nat \ {0}
  /\ MaxSeries \in Nat \ {0} /\ MaxBars \in Nat \ {0}
  /\ Other \notin Keys

Row == [date : Int, key : Keys, usage : Nat]

AtLeast(a, b) == IF a >= b THEN a ELSE b
AtMost(a, b) == IF a <= b THEN a ELSE b

\* The usage of the rows of some values: a row of usage n stands for n units,
\* and a total is the number of them.
Units(rows, keys) == UNION {{row} \X (1..row.usage) : row \in {r \in rows : r.key \in keys}}
Total(rows, keys) == Cardinality(Units(rows, keys))

----------------------------------------------------------------------------
(* The window.  Dates are those the request gives: none, one, or both ends. *)

TrendWindow == <<LatestDay - TrendDays + 1, LatestDay>>

\* What the accounting server makes of the dates it is sent (its defaults are
\* quoted in the field descriptions of the tools): none is the latest day, or
\* for its own time series the last TrendDays; one is that day.
Resolved(dates, series) ==
  CASE Len(dates) = 2 -> dates
    [] Len(dates) = 1 -> <<dates[1], dates[1]>>
    [] OTHER -> IF series THEN TrendWindow ELSE <<LatestDay, LatestDay>>

Within(rows, window) == {row \in rows : window[1] <= row.date /\ row.date <= window[2]}

\* Fault: the row cap alone, which is what a quarter-long question ran into.
BreakdownLimitFlat(dates) == MaxRows
BreakdownLimit(dates) ==
  IF Len(dates) = 2
  THEN AtLeast(MaxRows, AtMost(BreakdownMaxRows, (dates[2] - dates[1] + 1) * RowsPerDay))
  ELSE MaxRows

\* The server's answers to a query with a row limit.  A daily breakdown that
\* hits the limit loses its oldest rows; a ranking is ranked by the server
\* except over the token table, which has an order of its own.
Cut(rows, limit) == kSubset(AtMost(limit, Cardinality(rows)), rows)

MostRecent(rows, limit) ==
  {kept \in Cut(rows, limit) : \A row \in kept, lost \in rows \ kept : lost.date <= row.date}

Largest(rows, limit) ==
  {kept \in Cut(rows, limit) : \A row \in kept, lost \in rows \ kept : lost.usage <= row.usage}

\* Rows grouped by the dimension alone, and by the day alone.
PerKey(rows, day) ==
  {[date |-> day, key |-> k, usage |-> Total(rows, {k})] : k \in {row.key : row \in rows}}

PerDay(rows) ==
  {[date |-> d, key |-> Other, usage |-> Total({row \in rows : row.date = d}, Keys)] :
     d \in {row.date : row \in rows}}

----------------------------------------------------------------------------
(* What is drawn.                                                          *)

\* Fault: the tail beyond the kept bands is left out.
BandsKeptOnly(rows, top) ==
  LET keys == {row.key : row \in rows}
      count == AtMost(AtMost(top, MaxSeries), Cardinality(keys))
  IN  {[k \in kept |-> Total(rows, {k})] : kept \in kSubset(count, keys)}

\* The largest few values are bands of their own and the rest fold into Other.
\* Equal totals are ranked by which row came first, which is up to the server.
Bands(rows, top) ==
  LET keys == {row.key : row \in rows}
      count == AtMost(AtMost(top, MaxSeries), Cardinality(keys))
      isTop(kept) == \A k \in kept, f \in keys \ kept : Total(rows, {f}) <= Total(rows, {k})
      drawn(kept) ==
        [label \in kept \cup (IF kept = keys THEN {} ELSE {Other}) |->
           Total(rows, IF label = Other THEN keys \ kept ELSE {label})]
  IN  {drawn(kept) : kept \in {K \in kSubset(count, keys) : isTop(K)}}

\* A breakdown is captioned with the days it has, not the ones asked for.
Caption(rows) ==
  LET days == {row.date : row \in rows} IN <<Min(days), Max(days)>>

\* window_requested: what was asked for, when that is not what is shown. Fault:
\* only the caption was put right.
NotShownNever(caption, window) == <<>>
NotShown(caption, window) == IF caption = window THEN <<>> ELSE window

Plotted(bands) == UNION {{label} \X (1..bands[label]) : label \in DOMAIN bands}
Sum(bands) == Cardinality(Plotted(bands))
=============================================================================
