---------------------------- MODULE MCChartCalls ----------------------------
EXTENDS ChartCalls

\* Two calls of one turn race for its one chart; the others are on their own.
MCOwner == [c \in {"a", "b", "c", "d"} |->
              CASE c \in {"a", "b"} -> "t1" [] c = "c" -> "t2" [] c = "d" -> Mcp]

Ask(kind, dimension, llm, value, filtered, when) ==
  [kind |-> kind, dimension |-> dimension, llm |-> llm, value |-> value,
   filtered |-> filtered, dates |-> when, top |-> 2]

Breakdown == Ask("breakdown", "usage_table", FALSE, "none", FALSE, <<>>)
TokenBreakdown == Ask("breakdown", "token_table", TRUE, "none", FALSE, <<1, 3>>)

MCMayAsk == [c \in {"a", "b", "c", "d"} |->
  CASE c = "a" -> {Breakdown, TokenBreakdown,
                   Ask("breakdown", "usage_table", FALSE, "none", FALSE, <<2>>),
                   Ask("breakdown", "token_table", TRUE, "none", TRUE, <<>>)}
    [] c = "b" -> {Ask("trend", "none", FALSE, "none", FALSE, <<>>),
                   Ask("trend", "usage_table", FALSE, "x", FALSE, <<>>),
                   Ask("trend", "none", FALSE, "x", FALSE, <<>>)}
    [] c = "c" -> {Ask("ranking", "usage_table", FALSE, "none", FALSE, <<2, 3>>),
                   Ask("ranking", "token_table", TRUE, "none", FALSE, <<2, 3>>)}
    [] c = "d" -> {Breakdown}]

\* Four values on three days; u and v decide which of them lead.
MCTables ==
  LET row(d, k, u) == [date |-> d, key |-> k, usage |-> u]
  IN  {{row(1, "x", 1), row(1, "y", u), row(2, "z", 1), row(3, "w", v), row(3, "x", u)} :
         u \in 1..2, v \in {1, 3}}
      \cup {{row(1, "x", 2), row(2, "x", 1), row(2, "y", 1), row(2, "z", 2),
             row(3, "x", 1), row(3, "y", 1), row(3, "z", 1), row(3, "w", 1)},
            {row(2, "x", 1), row(2, "y", 2)}, {}}
=============================================================================
