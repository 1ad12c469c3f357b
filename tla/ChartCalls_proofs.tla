------------------------- MODULE ChartCalls_proofs -------------------------
(***************************************************************************)
(* What the collector keeps for any number of calls, turns and charts, and *)
(* whatever the accounting server answers; and what a breakdown shows of   *)
(* the rows it was answered with, for any usage.                           *)
(***************************************************************************)
EXTENDS ChartCalls, SequenceTheorems, FiniteSetTheorems, TLAPS

USE DEF Has, Running, NoReport

Charted(t) == {c \in Calls : Owner[c] = t /\ Has(c, "chart") /\ report[c].attached}
TurnedAway(c) == Has(c, "chart_budget") \/ (Has(c, "chart") /\ ~report[c].attached)

\* A collector holds what was reported as attached while the turn is running
\* too, nothing is reported before a call is over, and a closed turn has handed
\* out what it collected and has no call left that could add to it.
Ledger == \A t \in Turns : Carries(charts[t]) = Charted(t)
Unreported == \A c \in Calls : pc[c] # "done" => report[c] = NoReport
Settled ==
  \A t \in Turns : turn[t] = "closed" =>
    delivered[t] = charts[t] /\ \A c \in Calls : Owner[c] = t => ~Running(c)
Maps == report = [c \in Calls |-> report[c]] /\ request = [c \in Calls |-> request[c]]

IInv == TypeOK /\ Maps /\ Ledger /\ Unreported /\ Settled /\ ChartBudget

\* The constants, less the typing of requests and rows, which few steps need.
LEMMA Constants == Owner \in [Calls -> Turns \cup {Mcp}] /\ Mcp \notin Turns /\ ChartsPerTurn \in Nat \ {0}
BY CallsAssumption

\* The invariant holds at first.
LEMMA InitInv == Init => IInv
<1> SUFFICES ASSUME Init PROVE IInv
  OBVIOUS
<1> USE CallsAssumption DEF Init
<1>1. TypeOK /\ Maps
  BY DEF TypeOK, Maps, NoRequest
<1>2. Ledger /\ Unreported /\ Settled /\ ChartBudget
  BY DEF Carries, Ledger, Charted, Unreported, Settled, ChartBudget
<1> QED
  BY <1>1, <1>2 DEF IInv

(* A call that ends without a chart leaves every collector as it was; only *)
(* a refusal for the budget has to be accounted for.                       *)
LEMMA EndsWithoutChart ==
  ASSUME IInv, NEW c \in Calls, pc[c] # "done",
         NEW code \in Errors \cup {"no_rows"}, NEW caption,
         Answer(c, Told(code, FALSE, Nothing, caption, <<>>)),
         \A t \in Turns : code = "chart_budget" /\ Owner[c] = t
                            => Len(charts[t]) >= ChartsPerTurn,
         UNCHANGED <<world, dates, charts, turn, delivered>>,
         request' = request \/ \E r \in MayAsk[c] : request' = [request EXCEPT ![c] = r]
  PROVE  IInv'
<1> USE Constants DEF IInv, Answer, world
<1>1. code # "chart"
  BY DEF Errors, McpErrors, Refusals, DispatchErrors
<1>2. /\ \A other \in Calls \ {c} : report'[other] = report[other]
      /\ report'[c].code = code /\ report'[c].attached = FALSE /\ report[c].code = "none"
  BY DEF Maps, Unreported, Told
<1>3. TypeOK'
  <2>1. \A other \in Calls :
          \/ report'[other] = NoReport
          \/ /\ report'[other].code \in Errors \cup {"chart", "no_rows"}
             /\ report'[other].attached \in BOOLEAN
    BY <1>2 DEF TypeOK
  <2>2. \A q \in Calls : request'[q] \in MayAsk[q] \cup {NoRequest}
    BY DEF TypeOK, Maps
  <2> QED
    BY <2>1, <2>2 DEF TypeOK
<1>4. Maps'
  BY DEF Maps
<1>5. Ledger'
  <2>1. ~Has(c, "chart") /\ ~Has(c, "chart")'
    BY <1>1, <1>2
  <2>2. \A t \in Turns : Charted(t)' = Charted(t)
    BY <1>2, <2>1 DEF Charted
  <2> QED
    BY <2>2 DEF Ledger, Carries
<1>6. Unreported' /\ Settled'
  BY <1>2 DEF TypeOK, Unreported, Settled
<1>7. ChartBudget'
  <2> SUFFICES ASSUME NEW t \in Turns
               PROVE  /\ Len(charts[t]) <= ChartsPerTurn
                      /\ (\E other \in Calls : Owner[other] = t /\ TurnedAway(other)')
                         => Len(charts[t]) = ChartsPerTurn
    BY DEF ChartBudget, TurnedAway
  <2>1. /\ Len(charts[t]) \in Nat /\ Len(charts[t]) <= ChartsPerTurn
        /\ (\E other \in Calls : Owner[other] = t /\ TurnedAway(other))
           => Len(charts[t]) = ChartsPerTurn
    BY DEF TypeOK, ChartBudget, TurnedAway
  <2>2. \A other \in Calls \ {c} : TurnedAway(other)' <=> TurnedAway(other)
    BY <1>2 DEF TurnedAway
  <2>3. TurnedAway(c)' => code = "chart_budget"
    BY <1>1, <1>2 DEF TurnedAway
  <2> QED
    BY <2>1, <2>2, <2>3
<1> QED
  BY <1>3, <1>4, <1>5, <1>6, <1>7

\* A sequence carries what it carried and what is appended to it.
LEMMA AppendCarries ==
  ASSUME NEW S, NEW s \in Seq(S), NEW e \in S
  PROVE  Carries(Append(s, e)) = Carries(s) \cup {e} /\ Len(Append(s, e)) = Len(s) + 1
<1>1. /\ Len(s) \in Nat /\ DOMAIN s = 1..Len(s)
      /\ DOMAIN Append(s, e) = 1..(Len(s) + 1)
      /\ \A i \in 1..Len(s) : Append(s, e)[i] = s[i]
      /\ Append(s, e)[Len(s) + 1] = e
      /\ Len(Append(s, e)) = Len(s) + 1
  OBVIOUS
<1>2. 1..(Len(s) + 1) = (1..Len(s)) \cup {Len(s) + 1}
  BY <1>1
<1> QED
  BY <1>1, <1>2 DEF Carries

\* A call that draws adds itself to its own collector, or is told it did not.
LEMMA DrawInv ==
  ASSUME IInv, NEW c \in Calls, pc[c] = "rows",
         NEW plotted, NEW caption, NEW requested, Draw(c, plotted, caption, requested)
  PROVE  IInv'
<1> DEFINE room(t) == Len(charts[t]) < ChartsPerTurn
<1> USE Constants DEF IInv
<1>1. /\ \A t \in Turns : Owner[c] = t /\ room(t) => charts'[t] = Append(charts[t], c)
      /\ \A t \in Turns : ~(Owner[c] = t /\ room(t)) => charts'[t] = charts[t]
      /\ charts' \in [Turns -> Seq(Calls)]
  BY DEF TypeOK, Draw, Attach, HasRoom
<1>2. /\ \A other \in Calls \ {c} : report'[other] = report[other]
      /\ report'[c].code = "chart" /\ report'[c].attached \in BOOLEAN
      /\ \A t \in Turns : Owner[c] = t => (report'[c].attached <=> room(t))
  BY DEF Maps, Draw, Answer, Attached, HasRoom, Told
<1>3. report[c].code = "none"
  BY DEF Unreported
<1>4. /\ pc' = [pc EXCEPT ![c] = "done"]
      /\ report' = [q \in Calls |-> report'[q]]
      /\ UNCHANGED <<table, settings, request, dates, turn, delivered>>
  BY DEF Maps, Draw, Answer, world
<1>5. TypeOK' /\ Maps'
  <2>1. \A other \in Calls :
          \/ report'[other] = NoReport
          \/ /\ report'[other].code \in Errors \cup {"chart", "no_rows"}
             /\ report'[other].attached \in BOOLEAN
    BY <1>2 DEF TypeOK
  <2> QED
    BY <1>1, <1>4, <2>1 DEF TypeOK, Maps
<1>6. Ledger'
  <2> SUFFICES ASSUME NEW t \in Turns PROVE Carries(charts'[t]) = Charted(t)'
    BY DEF Ledger
  <2>0. charts[t] \in Seq(Calls) /\ Carries(charts[t]) = Charted(t)
    BY DEF TypeOK, Ledger
  <2>1. CASE Owner[c] = t /\ room(t)
    <3>0. Carries(Append(charts[t], c)) = Carries(charts[t]) \cup {c}
      BY <2>0, AppendCarries
    <3>1. Carries(charts'[t]) = Carries(charts[t]) \cup {c}
      BY <1>1, <2>1, <3>0
    <3>2. Charted(t)' = Charted(t) \cup {c}
      BY <1>2, <2>1 DEF Charted
    <3> QED
      BY <2>0, <3>1, <3>2
  <2>2. CASE ~(Owner[c] = t /\ room(t))
    <3>1. Charted(t)' = Charted(t)
      BY <1>2, <1>3, <2>2 DEF Charted
    <3> QED
      BY <1>1, <2>0, <2>2, <3>1
  <2> QED
    BY <2>1, <2>2
<1>7. Unreported' /\ Settled'
  <2>1. Unreported'
    BY <1>2, <1>4 DEF TypeOK, Unreported
  <2>2. \A t \in Turns : turn[t] = "closed" => charts'[t] = charts[t]
    BY <1>1 DEF Settled, Running
  <2>3. \A q \in Calls : Running(q)' => Running(q)
    BY <1>4 DEF TypeOK, Running
  <2>4. Settled'
    BY <1>4, <2>2, <2>3 DEF Settled
  <2> QED
    BY <2>1, <2>4
<1>8. ChartBudget'
  <2> SUFFICES ASSUME NEW t \in Turns
               PROVE  /\ Len(charts'[t]) <= ChartsPerTurn
                      /\ (\E other \in Calls : Owner[other] = t /\ TurnedAway(other)')
                         => Len(charts'[t]) = ChartsPerTurn
    BY DEF ChartBudget, TurnedAway
  <2>0. /\ charts[t] \in Seq(Calls) /\ Len(charts[t]) \in Nat /\ Len(charts[t]) <= ChartsPerTurn
        /\ (\E other \in Calls : Owner[other] = t /\ TurnedAway(other))
           => Len(charts[t]) = ChartsPerTurn
    BY DEF TypeOK, ChartBudget, TurnedAway
  <2>1. CASE Owner[c] = t /\ room(t)
    <3>1. Len(charts'[t]) = Len(charts[t]) + 1
      BY <1>1, <2>0, <2>1, AppendCarries
    <3>2. \A other \in Calls : Owner[other] = t => ~TurnedAway(other)'
      BY <1>2, <2>0, <2>1 DEF TurnedAway
    <3> QED
      BY <2>0, <2>1, <3>1, <3>2
  <2>2. CASE Owner[c] = t /\ ~room(t)
    BY <1>1, <2>0, <2>2
  <2>3. CASE Owner[c] # t
    <3>1. \A other \in Calls : Owner[other] = t => (TurnedAway(other)' <=> TurnedAway(other))
      BY <1>2, <2>3 DEF TurnedAway
    <3> QED
      BY <1>1, <2>0, <2>3, <3>1
  <2> QED
    BY <2>1, <2>2, <2>3
<1> QED
  BY <1>5, <1>6, <1>7, <1>8

\* Steps that report nothing and draw nothing: a call moves on, or a turn falls.
LEMMA MovesOn ==
  ASSUME IInv, NEW c \in Calls, pc[c] # "done",
         NEW place \in {"date", "rows", "raised"}, pc' = [pc EXCEPT ![c] = place],
         \A t \in Turns : Owner[c] = t => turn[t] # "closed",
         turn' \in [Turns -> {"open", "closed", "raised"}],
         \A t \in Turns : turn'[t] = "closed" => turn[t] = "closed",
         dates' \in [Calls -> Seq(Int)],
         request' = request \/ \E r \in MayAsk[c] : request' = [request EXCEPT ![c] = r],
         UNCHANGED <<world, report, charts, delivered>>
  PROVE  IInv'
<1> USE DEF IInv, world
<1>1. TypeOK' /\ Maps'
  BY DEF TypeOK, Maps
<1>2. Ledger' /\ Unreported' /\ Settled'
  BY DEF TypeOK, Ledger, Charted, Unreported, Settled
<1>3. ChartBudget'
  BY DEF ChartBudget
<1> QED
  BY <1>1, <1>2, <1>3

\* Begin either refuses with the code of the check that failed, or moves on.
LEMMA BeginInv == ASSUME IInv, NEW c \in Calls, Begin(c) PROVE IInv'
<1> USE Constants
<1>1. PICK r \in MayAsk[c] :
        /\ request' = [request EXCEPT ![c] = r]
        /\ \/ Refusal(c, r) # "none" /\ Fail(c, Refusal(c, r)) /\ UNCHANGED dates
           \/ /\ Refusal(c, r) = "none"
              /\ pc' = [pc EXCEPT ![c] = IF LeavesWindowOpen(r) THEN "date" ELSE "rows"]
              /\ dates' = [dates EXCEPT ![c] = r.dates]
              /\ UNCHANGED report
  BY DEF Begin
<1>2. \E q \in MayAsk[c] : request' = [request EXCEPT ![c] = q]
  BY <1>1
<1>3. r.dates \in Seq(Int)
  BY CallsAssumption DEF Request
<1>4. /\ pc[c] = "idle" /\ \A t \in Turns : Owner[c] = t => turn[t] # "closed"
      /\ UNCHANGED <<world, charts, turn, delivered>>
  BY DEF Begin, MayBegin
<1>5. CASE Refusal(c, r) # "none" /\ Fail(c, Refusal(c, r)) /\ UNCHANGED dates
  <2>1. Refusal(c, r) \in Errors
    BY <1>5 DEF Refusal, Errors, Refusals
  <2>2. \A t \in Turns : Refusal(c, r) = "chart_budget" /\ Owner[c] = t
                           => Len(charts[t]) >= ChartsPerTurn
    BY DEF Refusal, HasRoom, IInv, TypeOK
  <2>3. Answer(c, Told(Refusal(c, r), FALSE, Nothing, <<>>, <<>>))
    BY <1>5 DEF Fail
  <2> QED
    BY <1>2, <1>4, <1>5, <2>1, <2>2, <2>3, EndsWithoutChart
<1>6. CASE /\ Refusal(c, r) = "none"
           /\ pc' = [pc EXCEPT ![c] = IF LeavesWindowOpen(r) THEN "date" ELSE "rows"]
           /\ dates' = [dates EXCEPT ![c] = r.dates]
           /\ UNCHANGED report
  <2>1. dates' \in [Calls -> Seq(Int)] /\ turn \in [Turns -> {"open", "closed", "raised"}]
    BY <1>3, <1>6 DEF IInv, TypeOK
  <2>2. CASE LeavesWindowOpen(r)
    BY <1>2, <1>4, <1>6, <2>1, <2>2, MovesOn
  <2>3. CASE ~LeavesWindowOpen(r)
    BY <1>2, <1>4, <1>6, <2>1, <2>3, MovesOn
  <2> QED
    BY <2>2, <2>3
<1> QED
  BY <1>1, <1>5, <1>6

\* Every step of a call keeps the invariant.
LEMMA CallInv == ASSUME IInv, NEW c \in Calls, CallStep(c) PROVE IInv'
<1>t. turn \in [Turns -> {"open", "closed", "raised"}]
  BY DEF IInv, TypeOK
<1>1. CASE DispatchRefuses(c)
  <2>1. PICK code \in DispatchErrors : Fail(c, code)
    BY <1>1 DEF DispatchRefuses
  <2>2. pc[c] = "idle" /\ UNCHANGED <<world, request, dates, charts, turn, delivered>>
    BY <1>1 DEF DispatchRefuses, MayBegin
  <2>3. code \in Errors /\ code # "chart_budget"
    BY DEF Errors, DispatchErrors
  <2> QED
    BY <1>t, <2>1, <2>2, <2>3, EndsWithoutChart DEF Fail
<1>2. CASE DispatchRaises(c)
  <2>1. /\ pc[c] = "idle" /\ \A t \in Turns : Owner[c] = t => turn[t] # "closed"
        /\ pc' = [pc EXCEPT ![c] = "raised"]
        /\ UNCHANGED <<world, request, dates, report, charts, delivered>>
    BY <1>2 DEF DispatchRaises, MayBegin
  <2>2. /\ turn' \in [Turns -> {"open", "closed", "raised"}]
        /\ \A t \in Turns : turn'[t] = "closed" => turn[t] = "closed"
    BY <1>t, <1>2 DEF DispatchRaises
  <2>3. dates' \in [Calls -> Seq(Int)]
    BY <2>1 DEF IInv, TypeOK
  <2> QED
    BY <1>t, <2>1, <2>2, <2>3, MovesOn
<1>3. CASE Begin(c)
  BY <1>3, BeginInv
<1>4. CASE GetDate(c)
  <2>1. TrendWindow \in Seq(Int)
    BY DataAssumption DEF TrendWindow
  <2>2. dates' \in [Calls -> Seq(Int)]
    BY <1>4, <2>1 DEF GetDate, IInv, TypeOK
  <2>3. \A t \in Turns : Owner[c] = t => turn[t] # "closed"
    BY <1>4 DEF GetDate, IInv, Settled
  <2> QED
    BY <1>t, <1>4, <2>2, <2>3, MovesOn DEF GetDate
<1>5. CASE QueryFails(c)
  <2>1. PICK code \in McpErrors : Fail(c, code)
    BY <1>5 DEF QueryFails
  <2>2. pc[c] # "done" /\ UNCHANGED <<world, request, dates, charts, turn, delivered>>
    BY <1>5 DEF QueryFails
  <2>3. code \in Errors /\ code # "chart_budget"
    BY DEF Errors, McpErrors
  <2> QED
    BY <1>t, <2>1, <2>2, <2>3, EndsWithoutChart DEF Fail
<1>6. CASE TimesOut(c)
  <2>1. Answer(c, Told("timeout", FALSE, Nothing, <<>>, <<>>)) /\ "timeout" \in Errors \cup {"no_rows"}
    BY <1>6 DEF TimesOut, Fail, TimeoutCode, Errors, McpErrors
  <2>2. pc[c] # "done" /\ UNCHANGED <<world, request, dates, charts, turn, delivered>>
    BY <1>6 DEF TimesOut
  <2> QED
    BY <2>1, <2>2, EndsWithoutChart
<1>7. CASE FindNothing(c)
  <2>1. /\ Answer(c, Told("no_rows", FALSE, Nothing, Window(c), <<>>))
        /\ "no_rows" \in Errors \cup {"no_rows"}
    BY <1>7 DEF FindNothing
  <2>2. pc[c] # "done" /\ UNCHANGED <<world, request, dates, charts, turn, delivered>>
    BY <1>7 DEF FindNothing
  <2> QED
    BY <2>1, <2>2, EndsWithoutChart
<1>8. CASE DrawFails(c)
  <2>1. Answer(c, Told("tool_failed", FALSE, Nothing, <<>>, <<>>)) /\ "tool_failed" \in Errors \cup {"no_rows"}
    BY <1>8 DEF DrawFails, Fail, Errors
  <2>2. pc[c] # "done" /\ UNCHANGED <<world, request, dates, charts, turn, delivered>>
    BY <1>8 DEF DrawFails
  <2> QED
    BY <2>1, <2>2, EndsWithoutChart
<1>9. CASE DrawTrend(c)
  BY <1>9, DrawInv DEF DrawTrend
<1>10. CASE DrawRanking(c)
  BY <1>10, DrawInv DEF DrawRanking
<1>11. CASE DrawBreakdown(c)
  BY <1>11, DrawInv DEF DrawBreakdown
<1> QED
  BY <1>1, <1>2, <1>3, <1>4, <1>5, <1>6, <1>7, <1>8, <1>9, <1>10, <1>11 DEF CallStep

\* A turn closes with what its collector holds, when no call can add to it.
LEMMA CloseInv == ASSUME IInv, NEW t \in Turns, CloseTurn(t) PROVE IInv'
<1> USE DEF IInv, CloseTurn, world
<1>1. TypeOK' /\ Maps'
  BY DEF TypeOK, Maps
<1>2. Ledger' /\ Unreported' /\ ChartBudget'
  BY DEF Ledger, Charted, Unreported, ChartBudget
<1>3. Settled'
  BY DEF TypeOK, Settled
<1> QED
  BY <1>1, <1>2, <1>3

LEMMA StepInv == IInv /\ [Next]_vars => IInv'
<1> SUFFICES ASSUME IInv, [Next]_vars PROVE IInv'
  OBVIOUS
<1>1. CASE \E c \in Calls : CallStep(c)
  BY <1>1, CallInv
<1>2. CASE \E t \in Turns : CloseTurn(t)
  BY <1>2, CloseInv
<1>3. CASE UNCHANGED vars
  <2> USE <1>3 DEF IInv, vars
  <2>1. TypeOK' /\ Maps'
    BY DEF TypeOK, Maps
  <2>2. Ledger' /\ Unreported'
    BY DEF Ledger, Charted, Carries, Unreported
  <2>3. Settled' /\ ChartBudget'
    BY DEF Settled, ChartBudget
  <2> QED
    BY <2>1, <2>2, <2>3
<1> QED
  BY <1>1, <1>2, <1>3 DEF Next, AllOver

LEMMA Invariance == Spec => []IInv
BY InitInv, StepInv, PTL DEF Spec

\* Requests, reports and collectors keep their types.
THEOREM TypeCorrect == Spec => []TypeOK
<1>1. IInv => TypeOK
  BY DEF IInv
<1> QED
  BY <1>1, Invariance, PTL

\* Whatever runs side by side, the charts under an answer are exactly those
\* the model was told it carries.
THEOREM PromisesAreKept == Spec => []PromiseKept
<1>1. IInv => PromiseKept
  BY DEF IInv, Ledger, Settled, PromiseKept, Charted
<1> QED
  BY <1>1, Invariance, PTL

\* The charts of a turn stay within its budget, and none is refused before the
\* budget is spent.
THEOREM BudgetIsExact == Spec => []ChartBudget
<1>1. IInv => ChartBudget
  BY DEF IInv
<1> QED
  BY <1>1, Invariance, PTL

----------------------------------------------------------------------------
(* Counting by parts.  The members of a finite set, each with a label, are *)
(* numbered within their label; label and number tell them apart.          *)

Part(U, label, l) == {u \in U : label[u] = l}

Numbered(U, L, label, number) ==
  \A l \in L : number[l] \in Bijection(Part(U, label, l), 1..Cardinality(Part(U, label, l)))

LEMMA Numbering ==
  ASSUME NEW U, IsFiniteSet(U), NEW L, NEW label
  PROVE  \E number : Numbered(U, L, label, number)
<1> DEFINE number == [l \in L |-> CHOOSE f : f \in Bijection(Part(U, label, l),
                                                1..Cardinality(Part(U, label, l)))]
<1>1. ASSUME NEW l \in L
      PROVE  \E f : f \in Bijection(Part(U, label, l), 1..Cardinality(Part(U, label, l)))
  <2> DEFINE P == Part(U, label, l)
             n == Cardinality(P)
  <2>1. P \in SUBSET U
    BY DEF Part
  <2> HIDE DEF P
  <2>2. IsFiniteSet(P) /\ n \in Nat
    BY <2>1, FS_Subset, FS_CardinalityType
  <2> HIDE DEF n
  <2>3. IsFiniteSet(1..n) /\ Cardinality(1..n) = n
    BY <2>2, FS_Interval
  <2>4. ExistsBijection(P, 1..n)
    BY <2>2, <2>3, FS_SameCardinalityBij DEF n
  <2> QED
    BY <2>4 DEF ExistsBijection, P, n
<1>2. Numbered(U, L, label, number)
  BY <1>1 DEF Numbered
<1> QED
  BY <1>2

\* A set is as large as its parts are together.
LEMMA CountByParts ==
  ASSUME NEW U, IsFiniteSet(U), NEW size, NEW label \in [U -> DOMAIN size],
         \A l \in DOMAIN size : size[l] = Cardinality(Part(U, label, l))
  PROVE  Sum(size) = Cardinality(U)
<1> DEFINE L == DOMAIN size
           T == UNION {{l} \X (1..size[l]) : l \in L}
<1>1. PICK number : Numbered(U, L, label, number)
  BY Numbering
<1>2. \A l \in L : number[l] \in Bijection(Part(U, label, l), 1..size[l])
  BY <1>1 DEF Numbered
<1> DEFINE place == [u \in U |-> <<label[u], number[label[u]][u]>>]
<1>3. ASSUME NEW u \in U
      PROVE  number[label[u]][u] \in 1..size[label[u]] /\ place[u] \in T
  <2>1. label[u] \in L /\ u \in Part(U, label, label[u])
    BY DEF Part
  <2>2. number[label[u]][u] \in 1..size[label[u]]
    BY <1>2, <2>1 DEF Bijection, Injection
  <2> QED
    BY <2>1, <2>2
<1>4. ASSUME NEW u \in U, NEW v \in U, place[u] = place[v] PROVE u = v
  <2>1. label[u] = label[v] /\ number[label[u]][u] = number[label[u]][v]
    BY <1>4
  <2>2. u \in Part(U, label, label[u]) /\ v \in Part(U, label, label[u]) /\ label[u] \in L
    BY <2>1 DEF Part
  <2> QED
    BY <1>2, <2>1, <2>2 DEF Bijection, Injection, IsInjective
<1>5. ASSUME NEW x \in T PROVE \E u \in U : place[u] = x
  <2>1. PICK l \in L : \E i \in 1..size[l] : x = <<l, i>>
    OBVIOUS
  <2>2. PICK i \in 1..size[l] : x = <<l, i>>
    BY <2>1
  <2>3. PICK u \in Part(U, label, l) : number[l][u] = i
    BY <1>2 DEF Bijection, Surjection
  <2>4. u \in U /\ label[u] = l
    BY DEF Part
  <2> QED
    BY <2>2, <2>3, <2>4
<1> HIDE DEF T
<1>6. place \in Bijection(U, T)
  BY <1>3, <1>4, <1>5 DEF Bijection, Injection, Surjection, IsInjective
<1>7. Cardinality(T) = Cardinality(U)
  BY <1>6, FS_Bijection DEF ExistsBijection
<1> QED
  BY <1>7 DEF T, Sum, Plotted

\* Parts of limited size make a set of limited size.
LEMMA LimitByParts ==
  ASSUME NEW U, IsFiniteSet(U), NEW L, IsFiniteSet(L), NEW label \in [U -> L], NEW limit \in Nat,
         \A l \in L : Cardinality(Part(U, label, l)) <= limit
  PROVE  Cardinality(U) <= Cardinality(L) * limit
<1>1. PICK number : Numbered(U, L, label, number)
  BY Numbering
<1> DEFINE place == [u \in U |-> <<label[u], number[label[u]][u]>>]
<1>2. ASSUME NEW u \in U PROVE place[u] \in L \X (1..limit)
  <2> DEFINE n == Cardinality(Part(U, label, label[u]))
  <2>1. label[u] \in L /\ u \in Part(U, label, label[u])
    BY DEF Part
  <2>2. number[label[u]][u] \in 1..n
    BY <1>1, <2>1 DEF Numbered, Bijection, Injection
  <2>3. Part(U, label, label[u]) \in SUBSET U
    BY DEF Part
  <2>4. n \in Nat /\ n <= limit
    BY <2>1, <2>3, FS_Subset, FS_CardinalityType
  <2> HIDE DEF n
  <2>5. number[label[u]][u] \in 1..limit
    BY <2>2, <2>4
  <2> QED
    BY <2>1, <2>5
<1>3. ASSUME NEW u \in U, NEW v \in U, place[u] = place[v] PROVE u = v
  <2>1. label[u] = label[v] /\ number[label[u]][u] = number[label[u]][v]
    BY <1>3
  <2>2. u \in Part(U, label, label[u]) /\ v \in Part(U, label, label[u]) /\ label[u] \in L
    BY <2>1 DEF Part
  <2> QED
    BY <1>1, <2>1, <2>2 DEF Numbered, Bijection, Injection, IsInjective
<1>4. place \in Injection(U, L \X (1..limit))
  BY <1>2, <1>3 DEF Injection, IsInjective
<1>5. IsFiniteSet(1..limit) /\ Cardinality(1..limit) = limit
  BY FS_Interval
<1>6. /\ IsFiniteSet(L \X (1..limit))
      /\ Cardinality(L \X (1..limit)) = Cardinality(L) * Cardinality(1..limit)
  BY <1>5, FS_Product
<1> HIDE DEF place
<1>7. Cardinality(U) <= Cardinality(L \X (1..limit))
  BY <1>4, <1>6, FS_Injection
<1> QED
  BY <1>5, <1>6, <1>7

----------------------------------------------------------------------------
(* What a breakdown shows.  Nothing about a call changes once its chart is *)
(* drawn, so a breakdown goes on showing the rows it was drawn from.       *)

ShowsRows(c, rows) ==
  /\ rows # {} /\ rows \in MostRecent(Subject(c), BreakdownLimit(dates[c]))
  /\ report[c].plotted \in Bands(rows, request[c].top)
  /\ report[c].caption = Caption(rows)
  /\ report[c].requested = NotShown(Caption(rows), Window(c))

Shown(c) == IsBreakdown(c) => \E rows : ShowsRows(c, rows)

\* A step of one call leaves the others as they are.
LEMMA OthersStay ==
  ASSUME IInv, NEW d \in Calls, CallStep(d), NEW c \in Calls, c # d
  PROVE  UNCHANGED <<table, request[c], dates[c], report[c]>>
<1> USE DEF IInv, TypeOK, Maps, world
<1>1. CASE DispatchRefuses(d) \/ DispatchRaises(d) \/ Begin(d) \/ GetDate(d)
  BY <1>1 DEF DispatchRefuses, DispatchRaises, Begin, GetDate, Fail, Answer
<1>2. CASE QueryFails(d) \/ TimesOut(d) \/ FindNothing(d) \/ DrawFails(d)
  BY <1>2 DEF QueryFails, TimesOut, FindNothing, DrawFails, Fail, Answer
<1>3. CASE DrawTrend(d) \/ DrawRanking(d) \/ DrawBreakdown(d)
  BY <1>3 DEF DrawTrend, DrawRanking, DrawBreakdown, Draw, Answer
<1> QED
  BY <1>1, <1>2, <1>3 DEF CallStep

\* A call that draws a breakdown shows rows it was answered with.
LEMMA OwnStep ==
  ASSUME IInv, NEW c \in Calls, CallStep(c)
  PROVE  Shown(c)'
<1> USE DEF IInv, TypeOK, Maps, world
<1>1. CASE DispatchRefuses(c) \/ QueryFails(c)
  <2>1. PICK code \in McpErrors \cup DispatchErrors : Fail(c, code)
    BY <1>1 DEF DispatchRefuses, QueryFails
  <2>2. report'[c].code = code /\ code # "chart"
    BY <2>1 DEF Fail, Answer, Told, McpErrors, DispatchErrors
  <2> QED
    BY <2>2 DEF Shown, IsBreakdown
<1>2. CASE TimesOut(c) \/ FindNothing(c) \/ DrawFails(c)
  <2>1. report'[c].code # "chart"
    BY <1>2 DEF TimesOut, FindNothing, DrawFails, Fail, Answer, Told, TimeoutCode
  <2> QED
    BY <2>1 DEF Shown, IsBreakdown
<1>3. CASE DispatchRaises(c) \/ GetDate(c)
  <2>1. report'[c] = NoReport
    BY <1>3 DEF DispatchRaises, MayBegin, GetDate, Unreported
  <2> QED
    BY <2>1 DEF Shown, IsBreakdown
<1>4. CASE Begin(c)
  <2>1. PICK r \in MayAsk[c] :
          (Refusal(c, r) # "none" /\ Fail(c, Refusal(c, r))) \/ UNCHANGED report
    BY <1>4 DEF Begin
  <2>2. report[c] = NoReport
    BY <1>4 DEF Begin, MayBegin, Unreported
  <2>3. Refusal(c, r) # "chart"
    BY DEF Refusal
  <2>4. report'[c].code # "chart"
    BY <2>1, <2>2, <2>3 DEF Fail, Answer, Told
  <2> QED
    BY <2>4 DEF Shown, IsBreakdown
<1>5. CASE DrawTrend(c) \/ DrawRanking(c)
  <2>1. request'[c].kind # "breakdown"
    BY <1>5 DEF DrawTrend, DrawRanking, Draw
  <2> QED
    BY <2>1 DEF Shown, IsBreakdown
<1>6. CASE DrawBreakdown(c)
  <2>0. PICK rows \in Rows(c) \ {{}} : \E bands \in Bands(rows, request[c].top) :
          Draw(c, bands, Caption(rows), NotShown(Caption(rows), Window(c)))
    BY <1>6 DEF DrawBreakdown
  <2>1. PICK bands \in Bands(rows, request[c].top) :
          Draw(c, bands, Caption(rows), NotShown(Caption(rows), Window(c)))
    BY <2>0
  <2>2. UNCHANGED <<table, request, dates>>
    BY <2>1 DEF Draw
  <2>3. /\ report'[c].plotted = bands /\ report'[c].caption = Caption(rows)
        /\ report'[c].requested = NotShown(Caption(rows), Window(c))
    BY <2>1 DEF Draw, Answer, Told
  <2>4. rows \in MostRecent(Subject(c), BreakdownLimit(dates[c]))
    BY <1>6 DEF DrawBreakdown, Rows, BreakdownAnswers, Asked, Subject
  <2>5. Window(c)' = Window(c) /\ Subject(c)' = Subject(c)
    BY <2>2 DEF Window, Subject
  <2>6. ShowsRows(c, rows)'
    BY <2>1, <2>2, <2>3, <2>4, <2>5 DEF ShowsRows
  <2> QED
    BY <2>6 DEF Shown
<1> QED
  BY <1>1, <1>2, <1>3, <1>4, <1>5, <1>6 DEF CallStep

LEMMA ShownInv == Spec => [](\A c \in Calls : Shown(c))
<1> DEFINE AllShown == \A c \in Calls : Shown(c)
<1>1. Init => AllShown
  BY DEF Init, Shown, IsBreakdown
<1>2. ASSUME IInv, AllShown, [Next]_vars PROVE AllShown'
  <2> SUFFICES ASSUME NEW c \in Calls PROVE Shown(c)'
    OBVIOUS
  <2>1. ASSUME UNCHANGED <<table, request[c], dates[c], report[c]>> PROVE Shown(c)'
    <3>1. Window(c)' = Window(c) /\ Subject(c)' = Subject(c) /\ IsBreakdown(c)' = IsBreakdown(c)
      BY <2>1 DEF Window, Subject, IsBreakdown
    <3>2. \A rows : ShowsRows(c, rows)' = ShowsRows(c, rows)
      BY <2>1, <3>1 DEF ShowsRows
    <3> QED
      BY <1>2, <3>1, <3>2 DEF Shown
  <2>2. CASE UNCHANGED vars \/ AllOver \/ \E t \in Turns : CloseTurn(t)
    <3>1. UNCHANGED <<table, request, dates, report>>
      BY <2>2 DEF vars, AllOver, CloseTurn, world
    <3> QED
      BY <2>1, <3>1
  <2>3. ASSUME NEW d \in Calls, CallStep(d) PROVE Shown(c)'
    <3>1. CASE c = d
      BY <1>2, <2>3, <3>1, OwnStep
    <3>2. CASE c # d
      BY <1>2, <2>1, <2>3, <3>2, OthersStay
    <3> QED
      BY <3>1, <3>2
  <2> QED
    BY <1>2, <2>2, <2>3 DEF Next
<1> QED
  BY <1>1, <1>2, Invariance, PTL DEF Spec

\* However many rows the limit cut off, a day that has usage is under the
\* caption or the reply says which window was asked for.
THEOREM NoDayIsPassedOver == Spec => []MissingDaysSaid
<1>1. (\A c \in Calls : Shown(c)) => MissingDaysSaid
  BY DEF Shown, ShowsRows, MissingDaysSaid, NotShown, Subject, Within
<1> QED
  BY <1>1, ShownInv, PTL

\* Units come in finite numbers, and are members of rows.
LEMMA UnitsOf ==
  ASSUME NEW rows \in SUBSET Row, IsFiniteSet(rows), NEW keys
  PROVE  /\ IsFiniteSet(Units(rows, keys)) /\ Total(rows, keys) \in Nat
         /\ \A u : u \in Units(rows, keys) <=>
              \E row \in rows : \E i \in 1..row.usage : row.key \in keys /\ u = <<row, i>>
<1> DEFINE chosen == {r \in rows : r.key \in keys}
           texts == {{row} \X (1..row.usage) : row \in chosen}
           text == [row \in chosen |-> {row} \X (1..row.usage)]
<1>1. IsFiniteSet(chosen)
  BY FS_Subset
<1>2. ASSUME NEW row \in chosen PROVE IsFiniteSet({row} \X (1..row.usage))
  <2>1. row.usage \in Nat
    BY DEF Row
  <2>2. \A m \in Nat : IsFiniteSet(1..m)
    BY FS_Interval
  <2>3. IsFiniteSet({row})
    BY FS_Singleton
  <2> QED
    BY <2>1, <2>2, <2>3, FS_Product
<1>3. text \in Surjection(chosen, texts)
  BY DEF Surjection
<1>4. Units(rows, keys) = UNION texts
  BY DEF Units
<1>5. \A T \in texts : IsFiniteSet(T)
  BY <1>2
<1>6. \A u : u \in Units(rows, keys) <=>
        \E row \in rows : \E i \in 1..row.usage : row.key \in keys /\ u = <<row, i>>
  BY DEF Units
<1> HIDE DEF chosen, texts, text
<1>7. IsFiniteSet(texts)
  BY <1>1, <1>3, FS_Surjection
<1>8. IsFiniteSet(Units(rows, keys))
  BY <1>4, <1>5, <1>7, FS_UNION
<1> QED
  BY <1>6, <1>8, FS_CardinalityType DEF Total

\* The bands of a chart add up to the usage it was drawn from, each kept band
\* to its own value's, and no value in Other has more than one of them.
LEMMA BandsAddUp ==
  ASSUME NEW rows \in SUBSET Row, IsFiniteSet(rows), NEW top, NEW bands \in Bands(rows, top)
  PROVE  /\ Sum(bands) = Total(rows, Keys)
         /\ \A k \in Keys \cap DOMAIN bands : bands[k] = Total(rows, {k})
         /\ \A k \in Keys \cap DOMAIN bands, f \in Keys \ DOMAIN bands :
              Total(rows, {f}) <= bands[k]
<1> DEFINE keys == {row.key : row \in rows}
           labels(kept) == kept \cup (IF kept = keys THEN {} ELSE {Other})
<1>1. PICK kept \in SUBSET keys :
        /\ \A k \in kept, f \in keys \ kept : Total(rows, {f}) <= Total(rows, {k})
        /\ bands = [label \in labels(kept) |->
                      Total(rows, IF label = Other THEN keys \ kept ELSE {label})]
  BY DEF Bands, kSubset
<1>2. keys \subseteq Keys /\ Other \notin Keys
  BY DataAssumption DEF Row
<1>3. /\ DOMAIN bands = labels(kept) /\ kept \subseteq Keys
      /\ \A k \in kept : bands[k] = Total(rows, {k})
      /\ Other \in DOMAIN bands => bands[Other] = Total(rows, keys \ kept)
  BY <1>1, <1>2
<1>4. \A k \in Keys \cap DOMAIN bands : k \in kept
  BY <1>2, <1>3
<1>5. ASSUME NEW k \in kept, NEW f \in Keys \ DOMAIN bands
      PROVE  Total(rows, {f}) <= bands[k]
  <2>1. CASE f \in keys
    BY <1>1, <1>3, <2>1
  <2>2. CASE f \notin keys
    <3>1. Units(rows, {f}) = {}
      BY <2>2, UnitsOf
    <3>2. Total(rows, {f}) = 0
      BY <3>1, FS_EmptySet DEF Total
    <3>3. Total(rows, {k}) \in Nat
      BY UnitsOf
    <3> QED
      BY <1>3, <3>2, <3>3
  <2> QED
    BY <2>1, <2>2
<1> DEFINE U == Units(rows, Keys)
           L == DOMAIN bands
           place == [u \in U |-> IF u[1].key \in kept THEN u[1].key ELSE Other]
<1>6. \A u : u \in U <=> \E row \in rows : \E i \in 1..row.usage : u = <<row, i>>
  <2>1. \A row \in rows : row.key \in Keys
    BY DEF Row
  <2> QED
    BY <2>1, UnitsOf
<1>7. place \in [U -> L]
  <2> SUFFICES ASSUME NEW u \in U PROVE place[u] \in L
    OBVIOUS
  <2>1. u[1].key \in keys
    BY <1>6
  <2> QED
    BY <1>3, <2>1
<1>8. ASSUME NEW l \in L PROVE bands[l] = Cardinality(Part(U, place, l))
  <2>1. CASE l = Other
    <3>1. Units(rows, keys \ kept) = Part(U, place, l)
      <4>1. ASSUME NEW u PROVE u \in Units(rows, keys \ kept) <=> u \in Part(U, place, l)
        <5>1. u \in Units(rows, keys \ kept) <=>
                \E row \in rows : \E i \in 1..row.usage : row.key \in keys \ kept /\ u = <<row, i>>
          BY UnitsOf
        <5>2. u \in Part(U, place, l) <=> u \in U /\ u[1].key \notin kept
          BY <1>2, <1>3, <2>1 DEF Part
        <5> HIDE DEF U
        <5> QED
          BY <1>6, <5>1, <5>2
      <4> QED
        BY <4>1
    <3> QED
      BY <1>3, <2>1, <3>1 DEF Total
  <2>2. CASE l \in kept
    <3>1. Units(rows, {l}) = Part(U, place, l)
      <4>1. ASSUME NEW u PROVE u \in Units(rows, {l}) <=> u \in Part(U, place, l)
        <5>1. u \in Units(rows, {l}) <=>
                \E row \in rows : \E i \in 1..row.usage : row.key \in {l} /\ u = <<row, i>>
          BY UnitsOf
        <5>2. u \in Part(U, place, l) <=> u \in U /\ u[1].key = l
          BY <1>2, <1>3, <2>2 DEF Part
        <5> HIDE DEF U
        <5> QED
          BY <1>6, <5>1, <5>2
      <4> QED
        BY <4>1
    <3> QED
      BY <1>3, <2>2, <3>1 DEF Total
  <2> QED
    BY <1>3, <2>1, <2>2
<1>9. IsFiniteSet(U)
  BY UnitsOf
<1> HIDE DEF U, L, place
<1>10. Sum(bands) = Cardinality(U)
  BY <1>7, <1>8, <1>9, CountByParts DEF L
<1> QED
  BY <1>3, <1>4, <1>5, <1>10 DEF Total, U

\* A row limit the window fits leaves nothing out.
LEMMA FitIsWhole ==
  ASSUME IInv, NEW c \in Calls, FitsLimit(c),
         NEW rows \in MostRecent(Subject(c), BreakdownLimit(dates[c])), rows # {}
  PROVE  /\ rows = Subject(c) /\ rows \in SUBSET Row /\ IsFiniteSet(rows)
<1> DEFINE S == Subject(c)
           a == dates[c][1]
           b == dates[c][2]
           limit == BreakdownLimit(dates[c])
           room == (b - a + 1) * RowsPerDay
<1>1. a \in Int /\ b \in Int /\ Len(dates[c]) = 2
  <2>1. dates[c] \in Seq(Int) /\ Len(dates[c]) = 2
    BY DEF FitsLimit, IInv, TypeOK
  <2> QED
    BY <2>1
<1>2. \A row \in S : row.date \in Int /\ a <= row.date /\ row.date <= b
  <2>1. Window(c) = dates[c]
    BY <1>1 DEF Window, Resolved
  <2>2. S \subseteq table /\ table \in SUBSET Row
    BY CallsAssumption DEF Subject, Within, IInv, TypeOK
  <2> QED
    BY <2>1, <2>2 DEF Subject, Within, Row
<1>3. S \in SUBSET Row /\ IsFiniteSet(S) /\ Cardinality(S) \in Nat
  <2>1. table \in SUBSET Row /\ IsFiniteSet(table) /\ S \in SUBSET table
    BY CallsAssumption DEF Subject, Within, IInv, TypeOK
  <2> HIDE DEF S
  <2> QED
    BY <2>1, FS_Subset, FS_CardinalityType
<1>4. rows \in SUBSET S /\ Cardinality(rows) = AtMost(limit, Cardinality(S))
  BY DEF MostRecent, Cut, kSubset
<1>5. a <= b
  BY <1>1, <1>2, <1>4
<1>6. room \in Int /\ room <= BreakdownMaxRows /\ RowsPerDay \in Nat /\ MaxRows \in Nat
      /\ BreakdownMaxRows \in Nat
  BY <1>1, DataAssumption DEF FitsLimit
<1>7. Cardinality(S) <= room
  <2> DEFINE L == a..b
             label == [row \in S |-> row.date]
  <2>1. label \in [S -> L]
    BY <1>1, <1>2
  <2>2. ASSUME NEW l \in L PROVE Cardinality(Part(S, label, l)) <= RowsPerDay
    <3>1. CASE \E row \in S : row.date = l
      <4>1. PICK row \in S : row.date = l
        BY <3>1
      <4>2. Part(S, label, l) = {other \in S : other.date = row.date}
        BY <4>1 DEF Part
      <4> QED
        BY <4>2 DEF FitsLimit
    <3>2. CASE ~\E row \in S : row.date = l
      <4>1. Part(S, label, l) = {}
        BY <3>2 DEF Part
      <4> QED
        <5>1. Cardinality(Part(S, label, l)) = 0
          BY <4>1, FS_EmptySet
        <5>2. RowsPerDay \in Nat
          BY <1>6
        <5> QED
          BY <5>1, <5>2
    <3> QED
      BY <3>1, <3>2
  <2>3. IsFiniteSet(L) /\ Cardinality(L) = b - a + 1
    <3> HIDE DEF a, b
    <3> QED
      BY ONLY <1>1, <1>5, FS_Interval
  <2> HIDE DEF S, L, label
  <2>4. Cardinality(S) <= Cardinality(L) * RowsPerDay
    BY <1>3, <1>6, <2>1, <2>2, <2>3, LimitByParts
  <2> QED
    BY <2>3, <2>4
<1>8. limit \in Int /\ room <= limit
  <2> HIDE DEF room
  <2>1. limit = AtLeast(MaxRows, AtMost(BreakdownMaxRows, room))
    BY <1>1 DEF BreakdownLimit, room
  <2> HIDE DEF limit
  <2> QED
    BY <1>6, <2>1 DEF AtLeast, AtMost
<1> HIDE DEF S, limit, room
<1>9. Cardinality(rows) = Cardinality(S)
  BY <1>3, <1>4, <1>6, <1>7, <1>8 DEF AtMost
<1>10. rows = S
  BY <1>3, <1>4, <1>9, FS_Subset
<1> QED
  BY <1>3, <1>10 DEF S

\* A breakdown whose window the row limit is sized for shows all its usage,
\* each kept value's under its own name.
THEOREM WholeWindowsAreWhole == Spec => []WholeWindowPlotted
<1>1. ASSUME IInv, NEW c \in Calls, Shown(c), IsBreakdown(c), FitsLimit(c)
      PROVE  /\ Sum(report[c].plotted) = Total(Subject(c), Keys)
             /\ \A k \in Keys \cap DOMAIN report[c].plotted :
                  report[c].plotted[k] = Total(Subject(c), {k})
             /\ \A k \in Keys \cap DOMAIN report[c].plotted,
                   f \in Keys \ DOMAIN report[c].plotted :
                  Total(Subject(c), {f}) <= report[c].plotted[k]
  <2>1. PICK rows : ShowsRows(c, rows)
    BY <1>1 DEF Shown
  <2>2. rows = Subject(c) /\ rows \in SUBSET Row /\ IsFiniteSet(rows)
    BY <1>1, <2>1, FitIsWhole DEF ShowsRows
  <2>3. report[c].plotted \in Bands(rows, request[c].top)
    BY <2>1 DEF ShowsRows
  <2> QED
    BY <2>2, <2>3, BandsAddUp
<1>2. IInv /\ (\A c \in Calls : Shown(c)) => WholeWindowPlotted
  BY <1>1 DEF WholeWindowPlotted
<1> QED
  BY <1>2, Invariance, ShownInv, PTL
=============================================================================
