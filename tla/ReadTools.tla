------------------------------ MODULE ReadTools ------------------------------
(***************************************************************************)
(* One call of a tool that reads the cluster (tools/k8s.py), its metrics   *)
(* (tools/prometheus.py) or its accounting (tools/accounting.py, all but   *)
(* the charts), through dispatch: the namespace gate, the reads, and what  *)
(* the caps let through to the model.  A tool may read twice, and whatever *)
(* it reads may be another thing by the second time.                       *)
(*                                                                         *)
(* Of what there is to read there is only the part the tool asks for: a    *)
(* log, the events in the order of the API, pods, nodes, a CronJob with    *)
(* the Jobs of its namespace, an object, the series that answer a query,   *)
(* or the rows of a table and the date they go up to.                      *)
(***************************************************************************)
EXTENDS Integers, Sequences, FiniteSets

CONSTANTS
  Requests,     \* the calls that may be made
  Parts,        \* tool -> what there may be for it to read
  Uids,         \* of the CronJobs that had or have the name asked for
  MaxLogBytes,  \* MAX_LOG_BYTES
  OverFetch,    \* how many times its limit get_events asks for
  NodeLimit,    \* the limit of list_nodes
  MaxPoints,    \* points of a series a range query may ask for
  MaxSeries,    \* prometheus_max_series
  MaxSamples,   \* MAX_SAMPLES_PER_SERIES
  MaxRows       \* accounting_max_rows

MaxSince == 86400
AfterAll == 1073741824  \* 1 << 30, the sort key of an event without a time
Unknown == -1073741824  \* no age, no generation
NoUid == "no cronjob"
NoStep == -1
NoLimit == 0

Line == [age : Nat, bytes : Nat \ {0}]
Event == [name : Nat, age : Int]  \* negative where the clocks differ
Node == [ready : {"True", "False", "Unknown", "none"}, unschedulable : BOOLEAN, pressure : BOOLEAN]
Job == [owner : Uids \cup {NoUid}, born : Nat, prefix : BOOLEAN]
Pod == [terminated_before : BOOLEAN]
Workload == [generation : Nat \cup {Unknown}, observed : Nat \cup {Unknown}]
Table == [latest : Nat, rows : Seq(Nat)]
Data ==
  [get_logs            |-> Seq(Line),
   get_events          |-> Seq(Event),
   list_pods           |-> Seq(Nat),
   list_nodes          |-> Seq(Node),
   get_cronjob         |-> [uid : Uids \cup {NoUid}, jobs : Seq(Job)],
   get_pod_status      |-> Pod,
   get_workload        |-> Workload,
   get_node            |-> Node,
   promql              |-> Seq(Nat),   \* series, as the number of their samples
   accounting_rows     |-> Table,
   accounting_discover |-> Table]

LogsArgs == [tool : {"get_logs"}, tail_lines : Nat \ {0}, since_seconds : 1..MaxSince]
EventsArgs == [tool : {"get_events"}, limit : Nat \ {0}, since_seconds : 1..MaxSince]
PodsArgs == [tool : {"list_pods"}, limit : Nat \ {0}]
CronJobArgs == [tool : {"get_cronjob"}, job_limit : Nat \ {0}]
NodesArgs == [tool : {"list_nodes"}, only_unhealthy : BOOLEAN]
ObjectArgs == [tool : {"get_pod_status", "get_workload", "get_node"}]
PromqlArgs == [tool : {"promql"}, step : Nat \cup {NoStep}, lookback : Nat]
RowsArgs == [tool : {"accounting_rows"}, limit : Nat]  \* top, trend, usage, llm_usage
DiscoverArgs == [tool : {"accounting_discover"}, listed : BOOLEAN, limit : Nat \ {0}]

Request == LogsArgs \cup EventsArgs \cup PodsArgs \cup CronJobArgs \cup NodesArgs
           \cup ObjectArgs \cup PromqlArgs \cup RowsArgs \cup DiscoverArgs

\* A container's log is written in the order of time.
OldestFirst(log) == \A m, n \in DOMAIN log : m <= n => log[n].age <= log[m].age

ASSUME ReadAssumption ==
  /\ NoUid \notin Uids
  /\ Requests \subseteq Request
  /\ DOMAIN Parts = DOMAIN Data
  /\ \A tool \in DOMAIN Data : Parts[tool] \subseteq Data[tool]
  /\ \A log \in Parts["get_logs"] : OldestFirst(log)
  /\ MaxLogBytes \in Nat \ {0} /\ OverFetch \in Nat \ {0} /\ NodeLimit \in Nat \ {0}
  /\ MaxPoints \in Nat \ {0} /\ MaxSeries \in Nat \ {0} /\ MaxSamples \in Nat \ {0}
  /\ MaxRows \in Nat \ {0}

VARIABLES
  open,      \* the policy allows the namespace (Gate)
  data,      \* what there is for the call to read
  request,   \* the call
  pc,        \* idle | read | again | done
  in_hand,   \* what the first of two reads left to go on with, or nothing
  seen,      \* what there was at each read that was answered (history)
  report     \* what the model is told

vars == <<open, data, request, pc, in_hand, seen, report>>

NoReport == [code |-> "none"]
Told(items, truncated, note) ==
  [code |-> "ok", items |-> items, truncated |-> truncated, note |-> note]

Init ==
  /\ open \in BOOLEAN
  /\ request \in Requests
  /\ data \in Parts[request.tool]
  /\ pc = "idle" /\ in_hand = <<>> /\ seen = <<>> /\ report = NoReport

----------------------------------------------------------------------------
(* The world goes on: pods log, Jobs run, a CronJob is made anew, another  *)
(* day is accounted.                                                       *)

Change ==
  /\ pc = "again"
  /\ data' \in Parts[request.tool]
  /\ UNCHANGED <<open, request, pc, in_hand, seen, report>>

----------------------------------------------------------------------------
(* The call, up to its first read.                                         *)

Is(tool) == request.tool = tool
OfAccounting == request.tool \in {"accounting_rows", "accounting_discover"}

Namespaced ==
  request.tool \in {"get_logs", "get_events", "list_pods", "get_cronjob", "get_pod_status",
                   "get_workload"}

\* What there was at this read, and the answer made of it.
See == seen' = Append(seen, data)
Answer(told) == pc' = "done" /\ report' = told /\ UNCHANGED <<open, data, request, in_hand>>
Fail(code) == Answer([code |-> code]) /\ UNCHANGED seen

Denied ==
  /\ pc = "idle" /\ Namespaced /\ ~open
  /\ Fail("namespace_denied")

\* The refusal of a step of zero divides by it to say how many points there
\* would be, which dispatch reports as any other exception.
TooLarge == request.step # NoStep /\ request.lookback > MaxPoints * request.step

RefuseRange ==
  /\ pc = "idle" /\ Is("promql") /\ request.step # NoStep
  /\ \/ request.step = 0 /\ Fail("tool_failed")
     \/ request.step # 0 /\ TooLarge /\ Fail("range_too_large")

Begin ==
  /\ pc = "idle"
  /\ Namespaced => open
  /\ Is("promql") => request.step # 0 /\ ~TooLarge
  /\ pc' = "read"
  /\ UNCHANGED <<open, data, request, in_hand, seen, report>>

----------------------------------------------------------------------------
(* Reads that fail.                                                        *)

ReadErrors ==
  CASE Is("promql") -> {"timeout", "prometheus_unreachable", "prometheus_error", "promql_error"}
    [] OfAccounting -> {"accounting_not_configured", "timeout", "accounting_unreachable",
                        "accounting_error", "accounting_rejected"}
    [] OTHER -> {"not_found", "forbidden", "api_error"}

\* The second read of a log is the one whose failure is not reported.
ReadFails ==
  /\ pc = "read" \/ (pc = "again" /\ ~Is("get_logs"))
  /\ \E code \in ReadErrors : Fail(code)

\* No client can be built, or what came is nothing the handler can read: an
\* exception of whatever kind, which dispatch reports as its own.
Breaks ==
  /\ pc = "read" \/ (pc = "again" /\ ~Is("get_logs"))
  /\ Fail("tool_failed")

\* wait_for of dispatch cancels the handler, and no except clause stops that.
TimesOut == pc \in {"read", "again"} /\ Fail("timeout")

----------------------------------------------------------------------------
(* What the caps let through.                                              *)

AtMost(a, b) == IF a <= b THEN a ELSE b
FirstOf(sequence, limit) == SubSeq(sequence, 1, AtMost(limit, Len(sequence)))
LastOf(sequence, limit) ==
  SubSeq(sequence, Len(sequence) - AtMost(limit, Len(sequence)) + 1, Len(sequence))

\* The items at the given places, least key first; equal keys stay in the
\* order they came in.
InOrder(sequence, places, key) ==
  LET before(i, j) == \/ key[i] < key[j]
                      \/ key[i] = key[j] /\ i < j
      rank(j) == Cardinality({i \in places : before(i, j)}) + 1
  IN  [n \in 1..Cardinality(places) |-> sequence[CHOOSE j \in places : rank(j) = n]]

SortedBy(sequence, key) == InOrder(sequence, DOMAIN sequence, key)
Kept(sequence, places) == InOrder(sequence, places, [n \in places |-> n])

\* The API's answer to a log request: the end of what is in the window.
InWindow(log) == Kept(log, {n \in DOMAIN log : log[n].age <= request.since_seconds})
TailOf(log) == LastOf(log, request.tail_lines)

\* The log is one string: what it has from its n-th line on, counted.
BytesFrom(lines, n) ==
  Cardinality(UNION {{i} \X (1..lines[i].bytes) : i \in {i \in DOMAIN lines : i >= n}})

\* Fault: the beginning is kept.
CappedHead(lines) ==
  Kept(lines, {n \in DOMAIN lines : BytesFrom(lines, 1) - BytesFrom(lines, n + 1) <= MaxLogBytes})

\* The last MaxLogBytes bytes, the first line of them cut where it falls.
Capped(lines) ==
  LET room(n) == MaxLogBytes - BytesFrom(lines, n + 1)
      cut == [n \in DOMAIN lines |-> [lines[n] EXCEPT !.bytes = AtMost(@, room(n))]]
  IN  Kept(cut, {n \in DOMAIN lines : room(n) > 0})

Log(lines, note) ==
  Told(Capped(lines), BytesFrom(lines, 1) > MaxLogBytes, note)

----------------------------------------------------------------------------
(* Logs.  A window with nothing in it is widened once, to the log without  *)
(* a window.                                                               *)

ReadLog ==
  /\ pc = "read" /\ Is("get_logs") /\ See
  /\ LET lines == TailOf(InWindow(data))
     IN  \/ lines # <<>> /\ Answer(Log(lines, "none"))
         \/ lines = <<>> /\ pc' = "again" /\ UNCHANGED <<open, data, request, in_hand, report>>

WidenLogUntil ==  \* fault: widened again for as long as there is nothing
  /\ pc = "again" /\ Is("get_logs") /\ See
  /\ IF data = <<>> THEN UNCHANGED <<open, data, request, pc, in_hand, report>>
     ELSE Answer(Log(TailOf(data), "widened"))

WidenLog ==
  /\ pc = "again" /\ Is("get_logs") /\ See
  /\ Answer(Log(TailOf(data), IF data = <<>> THEN "silent" ELSE "widened"))

\* A second read that fails counts as an empty one.
WidenFails ==
  /\ pc = "again" /\ Is("get_logs")
  /\ Answer(Log(<<>>, "silent"))
  /\ UNCHANGED seen

----------------------------------------------------------------------------
(* Lists.                                                                  *)

\* The API's page of a list, and whether it says there is more of it.
Page(limit) == FirstOf(data, limit)
MoreUnasked(limit) == FALSE  \* fault: only what came is counted
More(limit) == Len(data) > limit

ListPods ==
  /\ pc = "read" /\ Is("list_pods") /\ See
  /\ Answer(Told(Page(request.limit), More(request.limit), "none"))

\* Of an age within the window, or of none; newest first, those of none last.
Recent(event) == event.age = Unknown \/ event.age <= request.since_seconds
RecentOf(events) == Kept(events, {n \in DOMAIN events : Recent(events[n])})
AgeKey(event) == IF event.age = Unknown THEN AfterAll ELSE event.age
NewestFirst(events) == SortedBy(events, [n \in DOMAIN events |-> AgeKey(events[n])])

EventsOfCut(recent, limit) == NewestFirst(FirstOf(recent, limit))  \* fault: cut before it is sorted
EventsOf(recent, limit) == FirstOf(NewestFirst(recent), limit)

\* More is asked for than is shown, as some will be too old; whether the API
\* has still more is not looked at.
GetEvents ==
  /\ pc = "read" /\ Is("get_events") /\ See
  /\ LET recent == RecentOf(Page(OverFetch * request.limit))
     IN  Answer(Told(EventsOf(recent, request.limit), Len(recent) > request.limit, "none"))

Unhealthy(node) == node.ready # "True" \/ node.unschedulable \/ node.pressure
Selected(nodes) ==
  IF request.only_unhealthy THEN Kept(nodes, {n \in DOMAIN nodes : Unhealthy(nodes[n])}) ELSE nodes

ListNodes ==
  /\ pc = "read" /\ Is("list_nodes") /\ See
  /\ LET selected == Selected(data)
     IN  Answer(Told(FirstOf(selected, NodeLimit), Len(selected) > NodeLimit, "none"))

----------------------------------------------------------------------------
(* A CronJob and, by a second read, the Jobs that are its own.             *)

ReadCronJob ==
  /\ pc = "read" /\ Is("get_cronjob")
  /\ \/ data.uid = NoUid /\ Fail("not_found")
     \/ /\ data.uid # NoUid /\ See
        /\ in_hand' = <<data.uid>> /\ pc' = "again"
        /\ UNCHANGED <<open, data, request, report>>

OwnedByName(job) == job.prefix  \* fault: told by its name
Owned(job) == <<job.owner>> = in_hand
OwnedOf(jobs) == Kept(jobs, {n \in DOMAIN jobs : Owned(jobs[n])})
LastMadeFirst(jobs) == SortedBy(jobs, [n \in DOMAIN jobs |-> -jobs[n].born])

ListJobs ==
  /\ pc = "again" /\ Is("get_cronjob") /\ See
  /\ LET owned == LastMadeFirst(OwnedOf(data.jobs))
     IN  Answer(Told(FirstOf(owned, request.job_limit), FALSE, "none"))

----------------------------------------------------------------------------
(* Single objects.                                                         *)

\* Of a container that ran before it is also told how it ended.
GetPodStatus ==
  /\ pc = "read" /\ Is("get_pod_status") /\ See
  /\ Answer(Told(<<data>>, FALSE, IF data.terminated_before THEN "previous" ELSE "none"))

\* Of a workload, whether its controller has seen its latest specification.
GetWorkload ==
  /\ pc = "read" /\ Is("get_workload") /\ See
  /\ LET rolling == /\ Unknown \notin {data.generation, data.observed}
                    /\ data.generation # data.observed
     IN  Answer(Told(<<data>>, FALSE, IF rolling THEN "rollout_in_progress" ELSE "none"))

GetNode ==
  /\ pc = "read" /\ Is("get_node") /\ See
  /\ Answer(Told(<<data>>, FALSE, "none"))

----------------------------------------------------------------------------
(* Metrics: of a long series its two ends are kept.                        *)

Query ==
  /\ pc = "read" /\ Is("promql") /\ See
  /\ LET series == FirstOf(data, MaxSeries)
         ends == 2 * (MaxSamples \div 2)
         kept == [n \in DOMAIN series |-> IF series[n] > MaxSamples THEN ends ELSE series[n]]
     IN  Answer(Told(kept, Len(data) > MaxSeries \/ kept # series, "none"))

----------------------------------------------------------------------------
(* Accounting: the rows the server sends, which may have a limit of its    *)
(* own, and the date its data goes up to, read before the values.          *)

RowsSent(table) ==
  IF request.limit = NoLimit THEN table.rows ELSE FirstOf(table.rows, request.limit)
CappedRows(rows, note) == Told(FirstOf(rows, MaxRows), Len(rows) > MaxRows, note)

QueryRows ==
  /\ pc = "read" /\ Is("accounting_rows") /\ See
  /\ Answer(CappedRows(RowsSent(data), "none"))

ReadLatest ==
  /\ pc = "read" /\ Is("accounting_discover") /\ See
  /\ \/ ~request.listed /\ Answer(Told(<<>>, FALSE, data.latest))
     \/ /\ request.listed
        /\ in_hand' = <<data.latest>> /\ pc' = "again"
        /\ UNCHANGED <<open, data, request, report>>

ListValues ==
  /\ pc = "again" /\ Is("accounting_discover") /\ See
  /\ Answer(CappedRows(RowsSent(data), in_hand[1]))

Done == pc = "done" /\ UNCHANGED vars

Next ==
  \/ Change
  \/ Denied \/ RefuseRange \/ Begin
  \/ ReadFails \/ Breaks \/ TimesOut
  \/ ReadLog \/ WidenLog \/ WidenFails
  \/ ListPods \/ GetEvents \/ ListNodes
  \/ ReadCronJob \/ ListJobs
  \/ GetPodStatus \/ GetWorkload \/ GetNode
  \/ Query \/ QueryRows \/ ReadLatest \/ ListValues
  \/ Done

Spec == Init /\ [][Next]_vars

----------------------------------------------------------------------------
(* Properties.                                                             *)

TypeOK ==
  /\ open \in BOOLEAN /\ request \in Requests
  /\ data \in Parts[request.tool]
  /\ pc \in {"idle", "read", "again", "done"}
  /\ Len(in_hand) <= 1
  /\ Len(seen) <= 2 /\ \A n \in DOMAIN seen : seen[n] \in Parts[request.tool]
  /\ pc # "done" <=> report = NoReport

Reported(tool) == report.code = "ok" /\ Is(tool)
Final == seen[Len(seen)]
InReport(item) == \E n \in DOMAIN report.items : report.items[n] = item

\* The last thing a container wrote is always told, which is where a crashed
\* job's traceback is: nothing is said to be older than the window while it was
\* in it, and no output at all is only reported of a log that was empty at both
\* reads, or once the second one failed.
LastWordsTold ==
  Reported("get_logs") =>
    /\ Final # <<>> /\ (Len(seen) = 2 \/ InWindow(Final) # <<>>) =>
         /\ report.items # <<>> /\ report.note # "silent"
         /\ report.items[Len(report.items)].age = Final[Len(Final)].age
    /\ report.note # "none" => InWindow(seen[1]) = <<>>
    /\ report.note = "silent" => Len(seen) = 1 \/ Final = <<>>

\* The Jobs reported are the newest of those the CronJob that was read had when
\* they were read, even if another of its name had taken its place by then.
JobsOfThisCronJob ==
  Reported("get_cronjob") =>
    LET own == {n \in DOMAIN Final.jobs : Final.jobs[n].owner = seen[1].uid}
    IN  /\ Len(report.items) = AtMost(request.job_limit, Cardinality(own))
        /\ \A n \in DOMAIN report.items : \E m \in own : report.items[n] = Final.jobs[m]
        /\ \A m \in own : ~InReport(Final.jobs[m]) =>
             \A n \in DOMAIN report.items : Final.jobs[m].born <= report.items[n].born

\* Whether something was left out is said, and never of a whole answer: the
\* bytes of a log, pods, nodes that match, series and samples, and rows of what
\* the accounting server sent.  (The lines of a log and the rows it was to send
\* are the request's own limits.)
LogRead == IF Len(seen) = 1 THEN InWindow(Final) ELSE Final
Matching ==
  CASE Is("get_logs") -> TailOf(LogRead)
    [] Is("list_nodes") -> Selected(Final)
    [] Is("accounting_rows") -> RowsSent(Final)
    [] Is("accounting_discover") /\ request.listed -> RowsSent(Final)
    [] Is("accounting_discover") /\ ~request.listed -> <<>>
    [] OTHER -> Final
Capping == {"get_logs", "list_pods", "list_nodes", "promql", "accounting_rows", "accounting_discover"}
CutsAreSaid ==
  report.code = "ok" /\ request.tool \in Capping =>
    (report.truncated <=> report.items # Matching)

\* Of the events the API was asked for, those of the window are told, newest
\* first; one that is left out is no newer than any that is told, and it is
\* said.  (Of a namespace with more events than were asked for the newest may
\* not be among them, and that is not said.)
NewestEventsTold ==
  Reported("get_events") =>
    LET page == FirstOf(Final, OverFetch * request.limit)
        older(a, b) == \/ a.age = Unknown
                       \/ b.age # Unknown /\ b.age <= a.age
    IN  /\ \A m, n \in DOMAIN report.items :
             m < n => older(report.items[n], report.items[m])
        /\ \A n \in DOMAIN page : Recent(page[n]) /\ ~InReport(page[n]) =>
             /\ report.truncated
             /\ \A m \in DOMAIN report.items : older(page[n], report.items[m])
=============================================================================
