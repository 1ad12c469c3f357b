# nrp-ops-agent in TLA+

A verification development for `nrp-ops-agent`, the Slack bot that answers
operators' questions about a Kubernetes cluster by letting a language model call
read-only tools. The modules are translated from the Python code under
`src/src/nrp_ops_agent`; `PROJECT.json` maps every definition to the lines it
stands for.

## The system

| component | state it keeps | operations | talks to |
|---|---|---|---|
| agent loop (`agent.py`, `_loop`) | the conversation, the budgets spent, the results fetched this turn | ask the model, plan and run tool calls, retry, stop | the model (HTTP), tool dispatch, the progress callback |
| thread memo (`agent.py`, `_recall`, `_remember`) | thread -> stored tool exchange and its time | recall at the start of a turn, remember at its end, evict | the loop |
| Slack handler (`slack_app.py`) | per mention: the ack, the heartbeat task | authorize, read history, ack, investigate, reply, upload | Slack, the gate, the agent |
| gate (`authz.py`) | token buckets | decide | the allowlist loader |
| allowlist loader (`config.py`) | last good policy and its mtime | re-read when the mtime moves | a mounted file others edit |
| docs sync (`docs_index/sync.py`) | the index, the file being built, checkouts in `/tmp` | clone, chunk, build, publish, sleep | git, a volume shared with the agent |
| docs search (`tools/docs.py`) | one connection | connect, query, query again | the index |
| tool dispatch (`tools/__init__.py`) | the registry | validate, run under a timeout, redact, audit | every tool |
| charts (`charts.py`) | the charts of a turn | draw, collect, upload | dispatch, the Slack handler |
| accounting tools (`tools/accounting.py`) | a client session | queries with caps, `accounting_chart` | the accounting MCP server, charts |
| Kubernetes tools (`tools/k8s.py`) | one API client | reads with caps, each behind the namespace gate | the Kubernetes API, the loader |
| Prometheus tool (`tools/prometheus.py`) | one HTTP client | one query with caps | Prometheus |
| MCP server (`mcp_server.py`) | none | the tools for other clients | dispatch |

The rest is text (prompts, playbooks, redaction, Slack formatting), process
start-up (CLI, settings) and manifests; the component list of
`PROJECT.json` names each with its reason.

Everything runs in one asyncio process except docs sync, a sidecar of its own.
Handlers of different mentions interleave at their awaits, each with a heartbeat
task; the tools of one step run side by side; the allowlist and the docs index
are files somebody else changes. What is hard here, therefore: clocks with two
cut-offs and a floor, budgets that must not be charged twice, a conversation whose
calls and replies must stay paired, a cache shared by overlapping turns, edits of
one Slack message from two tasks, policy read while it is edited, and an index
swapped under its readers by a process that may be killed.

What makes each component correct:

* agent loop: every request it sends is well-formed (each call answered, repeats
  pointing at earlier runs of the same call, output within its budget); no call is run
  again while its result is there; no budget is overrun or charged for what did not
  run; it ends near its deadline, and with an answer asked for in the time reserved
  for it.
* thread memo: results stay in their thread, within lifetime and bounds; the
  thread answered longest ago gives way.
* Slack handler: once the answer is written, the bot edits it no more; only an edit
  that left before and that nobody waits for any longer may still reach it; a failed
  upload costs the picture only; whoever is let in gets to an end.
* gate and loader: the decision is that of the policy on disk; no corrupt file
  opens or closes the gate; admissions stay within the bucket's bound and nobody is
  refused who did not use it up.
* charts: the pictures under an answer are those its model was told of, within the
  budget; a chart of a window shows the whole of it or says what is missing.
* reading tools: what a model is told is what was read, cut at the right end, and
  whatever was left out is said; absence is reported of what was found absent.
* the bot as a whole: every decision is on a policy no older than the decisions
  before it; what was read under a policy since replaced is shown no longer than
  the thread goes without a lifetime of silence.
* docs index: readers see whole, non-empty builds that only get newer, and after
  any fault the index catches up; a run that ends by itself takes its checkout with
  it, and what a killed one left makes at most one later run fail.

## Modules

| module | models | checked by | proved in |
|---|---|---|---|
| `AgentLoop` | one turn of the loop | `agent_loop` | `AgentLoop_proofs` |
| `TurnContract` | what a turn promises its caller (abstract) | `agent_loop` (refinement) | `AgentLoop_proofs` |
| `ThreadMemo` | the memo under overlapping turns | `thread_memo`, `memo_age` | `ThreadMemo_proofs` |
| `SlackTurn` | the Slack side of mentions of one thread | `slack_turn`, `late_edit`, `ack_replayed` | `SlackTurn_proofs` |
| `Gate` | authorizer, buckets, allowlist loader, namespace gate | `gate` | `Gate_proofs` |
| `DocsIndex` | the index: sync, kills, searches | `docs_index`, `docs_leftover` | `DocsIndex_proofs` |
| `ChartData` | windows, row limits, bands and captions (operators) | through `ChartCalls` | `ChartCalls_proofs` |
| `ChartCalls` | chart calls of turns and MCP clients, through dispatch | `chart_calls` | `ChartCalls_proofs` |
| `ReadTools` | one call of a tool that reads the cluster, its metrics or its accounting | `read_tools` | `ReadTools_proofs` |
| `OpsBot` | `Gate` and `ThreadMemo` composed: deliveries let in, their turns, their reads | `ops_bot` | `OpsBot_proofs` |

`MC<module>` gives a module's constants their small values; `<module>*.cfg` are
the runs. Definitions marked "fault" beside the one they resemble are the
mutations each property is tested with: substituted for that definition, they
make TLC find the property violated.

### How they correspond to the code

*AgentLoop.* `pc` is the place in the loop body: `top` (deadline and budgets),
`model` (the awaited request), `plan` (the calls of a reply, one step each),
`progress` (the callback), `tools` (the gather and everything up to the next
iteration, which has no await in it). One action stands for each way a phase ends.
`now` is the monotonic clock from the start of the turn and only moves across
awaits. Text is its length; arguments are the key `_call_key` gives them, so that
"identical call" is equality of keys. A length is the number of the characters of the
texts, as pairs of a place and a position, which is a sum the provers can count with
(`Characters`; so are the totals of `ThreadMemo` and, with units of usage, of `ChartData`). `Carried` are conversations `_recall` may
put in front, made of calls of an earlier turn (id `<<0, n>>`; `CarriedAssumption`). Three things
leave the loop by an exception (`LoopRaises`): a reply of the endpoint that is JSON but
of an odd shape (`OddReply`), arguments nested too deep for `_call_key` (`DeepKeys`, while
the calls are planned and before any is charged), and arguments that make dispatch raise
(`RaisingKeys`: integers longer than Python converts). A progress callback that raises
would be a fourth; the one Slack passes swallows its exceptions.

*ThreadMemo.* A block is an assistant message with its tool messages. `Ask` is
`_recall` with the deletion of an expired memo, `End` is the `finally` of `_run`
with `_remember`, its eviction included. Every end takes a tick of the clock, as two
calls of `time.monotonic` in one process are ordered; this is what makes "oldest"
unambiguous. `ended` and `last` are history variables.

*SlackTurn.* `pc` is where a handler is; `beat` its heartbeat task; `shown` what
its message in the thread shows. An edit is two steps, as others run while it is
out. `late` is an edit nobody waits for any more, as its task was cancelled or its
request timed out after it had left: Slack may apply it afterwards (`ApplyLate`), during
the turn or, then "landed", over what the turn wrote last. Every call of Slack may fail,
applied or not.

*Gate.* `load` is up to three steps (`Stat`, then `ReadPolicy` or `ReadFails`)
with edits of the file between them; `_decide` is `Screened` before it and
`Decide` after. A token is `Hour` units, which makes the continuous refill exact
in integers. `file.version` plays the mtime: an edit that keeps the mtime is not
modelled, nor is a version coming back. Two refusals are left out, of a mention when no
team is configured (`authz.py:144`; it reads as a mention of another team) and of a malformed
namespace (`config.py:363`), which patterns of the arguments rule out before.

*DocsIndex.* `pc` is the place in `sync`; the steps of `build_index` are the
points where a kill leaves something different behind. The container runs the
sync as process 1 (`args` in `deploy/deployment.yaml`, no entrypoint in the
image), so the name of the file it builds is the same in each of its lives. A file
is its stage and version. The state is that of one pod: a new pod starts from `Init`.
A search holds the file it opened, whatever is renamed over it. `kills`, `losses` and
`tripped` are history variables: how often the container was killed, how often the
directory became unwritable, how many runs failed on a file they found. sqlite's journal
beside the file, and the probe file of `require_writable_index_dir`, which a kill may
leave too, are not modelled: sqlite rolls the one back, the other is written over.

*ChartCalls.* One action for each way from one await of a call to the next: up to the
first query (`DispatchRefuses`, `DispatchRaises`, `Begin` with the refusals in the
order of the handler), the date query, and the rows with everything after them:
drawing and charging the collector happen without an await. `report` is what the
result tells the model. What the accounting server answers is external: a table, and
`Cut`, `MostRecent` and `Largest` for what a row limit leaves of an answer, as the
comments of the code describe that server. Equal totals are ranked by the order of
the rows, which is the server's, so `Bands` is a set. Usage is a natural number
where the code has floats: rounding is not modelled. Keys are the labels: two values
that `clean_label` makes equal, a value that is itself named `Other`, and a value with
rows in several units are not in the model, nor is a request with a date that is not
one, for which the row limit is its floor (`accounting.py:927`).

*ReadTools.* `data` is the part of the world the tool asks for, `Parts` what it may
be; it changes between two reads (`Change`) and each read is kept in the history
variable `seen`, against which the report is judged. A log is a sequence of lines with an
age and a size, an event a name and an age (`Unknown` when it has no stamp, negative when
its clock is ahead), a series the number of its samples, and `truncated_series` and
`truncated_samples` of a query are one flag. Of single objects (`GetPodStatus`,
`GetWorkload`, `GetNode`) the model has what the handlers derive rather than copy; no
property is about it. An action is one read with everything up to the next
one: the handlers have no other await. `open` is the gate's verdict, taken before
the first read and once. The page an API returns for a limit, and the row limit of
the accounting server, are external (`Page`, `RowsSent`). The four accounting tools
that send one query and cap its rows are one tool, `accounting_rows`. Filters, sorts and
sums are said by counting (`InOrder`, `Kept`, `BytesFrom`): an item stands after those it
comes after, and the size of a log is the number of its bytes. Ages of at most a
day (`MaxSince`, what the arguments allow) stay below the key the code sorts events
without a time by (`AfterAll`).

*OpsBot.* `G` and `M` are instances of `Gate` and `ThreadMemo` on its own variables,
which share the clock. A delivery is a turn: Slack may deliver a mention again, and
nothing tells the second from the first. The gate serves one request at a time, as
`authorize` and `load` have no await in them; the file is edited at any point.
`Look` is a tool at the namespace gate; what it answers, be it a refusal, is a block of
`ThreadMemo`. Decision and answer are one step (`LookDecided`), where the code awaits the
read between them: a block comes no later in the model than in the code, and the decision
is the one it was read under in both. Tools without a namespace are left out; their results
are kept and shown in the same way. `used` and `began` are history variables.

## Runs

| run | instance | shows |
|---|---|---|
| `agent_loop` | 2 tools that answer and 2 calls that raise, 4 iterations, 2 tool calls, up to 2 calls a reply, 1 retry; deadline 7, reserve 3, floor 1, tools up to 2, progress up to 1; with and without carried results | the conversation is well-formed, the budgets are exact, where the clock cuts, that turns end, and that they implement `TurnContract` |
| `thread_memo` | 3 threads, 3 turns, cache of 2, lifetime 2, budget 3 with blocks of 1 and 3 | isolation, eviction, what is kept |
| `slack_turn` | 2 mentions with heartbeats, up to 2 charts | one message under two tasks, failures, a restart at any point |
| `gate` | 2 users, 2 policies, 2 edits, 2 tokens per 3 ticks | decisions under edits, and the rate |
| `chart_calls` | 4 calls: 2 of a turn with room for 1 chart, 1 of another turn, 1 of an MCP client; 7 tables over 3 days | what is drawn, said and posted |
| `read_tools` | every tool; logs, events and nodes up to 3, 5 and 3, caps of 2 and 3, 2 CronJobs of one name | what is told, and what is told to be missing |
| `ops_bot` | 3 deliveries of a mention in one thread, 1 namespace, 1 edit, lifetime 1, 3 ticks | what lies between gate and memo, and that the gate does nothing there that it does not do alone |
| `docs_index` | 2 searches, 3 versions, 3 faults of any kind | readers, failures and kills, what they leave behind, and recovery |

Four runs find a statement of the repository violated by the code; `PROJECT.json`
quotes each statement: a beat that lands on the finished reply (`late_edit`), results
replayed past their lifetime (`memo_age`), the ack read as context (`ack_replayed`), and
a rebuild failing on what a killed one left (`docs_leftover`).

Some disagreements are in the models without a run of their own. A repeat is pointed at
a result that is there when it is planned (`HaveResult`), but the output budget is
enforced after the pointer was written, over the results of every step
(`EnforceOutputBudget` in `FinishTools`, `agent.py:541`): a step that repeats a call and
runs another may blank the result it has just named, so that the next request carries a
pointer to a placeholder, where `agent.py:530-531` calls the result unchanged and
`src/README.md:267-269` says a dropped one is not reused. The placeholder tells the model
so, and the call is run again when it asks again: `RunAgainOnlyIfGone` says this is the
only way it is run, and paid for, again after it succeeded. Tools are given a
second even when the reserve has begun, and the progress edit before them is under no
timeout, so they may run inside it, where `src/README.md:262-264` has only the answer call
there; `AnswerGetsReserve` and `EndsNearDeadline` bound the overrun. `src/README.md:446`
has ten investigations an hour for each user; the bucket (`config.py:106`) starts full
and refills, so that close to twice as many fit in the first hour, which is the bound of
`RateBound`. An MCP client, whose
calls have no collector, is refused by `accounting_chart` as if its budget were spent
(`Refusal`, `HasRoom` of `ChartCalls`), where `src/README.md:934-936` has it answered
with `attached: false`. Rows cut off by the limit within a day that is shown are missing
from a chart's bands and nothing says so, where `src/README.md:171-172` says a short
row set is reported; `MissingDaysSaid` is the part that holds. A log whose second,
widened read fails is reported as a container that "produced no log output at all"
(`WidenFails`), and one whose second read is cut at `tail_lines` as "the whole retained
log" (`k8s.py:546-549`). A range query with a step of zero fails on the division in its own
refusal (`RefuseRange`). Of a namespace with more events than `get_events` asks for
the newest may be missing, though the tool says newest first (`k8s.py:574`).

### Why the bounds are enough

*agent_loop.* A result is carried, asked for in the turn, dropped and run again
within 3 iterations; a fourth leaves room for the forced step after them. Two calls
a reply is what it takes for a repeat inside a step, a repeat across steps beside a
run, and, with a budget of two, one that is spent in the middle of a reply. Two
large results exceed the output budget and one does not. The reserve (3) exceeds the
overrun (progress 1 + floor 1), so that both sides of every comparison with the
deadline and the reserve occur.

*thread_memo.* Three threads over a cache of two force an eviction; three turns
let two overlap in one thread while a third runs elsewhere. Blocks of 1 and 3 with a
budget of 3 give a tail that fits, one that is cut, and one oversized block.

*slack_turn.* Two mentions are the least for one to read the other's messages.
More add no interaction of a new kind: mentions share the thread's messages only.

*gate.* With 2 tokens per 3 ticks a bucket drains, refuses, refills by a fraction
and lets in again within the time bound. Two edits give a file that becomes
malformed or missing and comes back.

*chart_calls.* Two calls that are past the budget check together and one chart of
room are the least for a race; the other turn and the MCP client are there to be kept
apart from it. With 2 rows a day, 2 rows as the floor of the limit, 2 bands and 4
values, the tables make a window fit the sized limit, exceed the flat one, lose whole
days, lose part of a day, and fold bands into `Other`. The code's numbers (25, 1000
and so on) enter only through these comparisons.

*read_tools.* Every cap has data below it, at it and above it: logs of 3 lines and 6
bytes against 2 lines and 3 bytes, with lines inside and outside of the window; 5
events against an over-fetch of 4 and a limit of 2, of every age including none; 3
nodes, pods and series against 2, 4 rows against a limit of 3 and a cap of 2. Two
CronJobs of one name and 2 Jobs are the least for a Job that is of one and named like the
other. No tool reads more than twice.

*ops_bot.* One edit closes the namespace, or opens it. A turn that reads while it is
open, one that carries the result on, and one after a silence are what the two
properties need: three deliveries, a lifetime of 1 and 3 ticks. The bucket holds
three tokens, so that the rate, which `gate` is about, refuses none of them.

*docs_index.* Three faults are a whole set of clone attempts, or a kill, a leftover
and a second fault during the recovery from it. A leftover and two more runs are what it
takes to see that the file fails one of them and not the next.

`MaxCallsPerReply`, `MaxProgress`, `MaxExchanges`, `MaxTime`, `MaxEdits`,
`MaxVersion` and `MaxFaults` are bounds of the model, not of the code. Where a
bound stops the clock (`thread_memo`) or handlers simply end
(`slack_turn`, `ops_bot`) TLC's deadlock check is off.

### Fairness

`AgentLoop`: weak fairness of its steps. The model call and every tool call are
under `asyncio.wait_for`, which is why the clock cannot stand still in them; the
progress callback is not, and `MaxProgress` is the assumption that Slack answers.
`SlackTurn`: weak fairness of each handler (Slack's client has timeouts), strong
fairness of the end of the investigation, which `TurnEnds` of `AgentLoop`
justifies: any number of edits may come before it, but it comes.
`DocsIndex`: weak fairness of the sidecar (a loop in a container the kubelet
restarts; git under a 600 s timeout). None for pushes, faults or readers;
`CatchesUp` needs the faults to be finitely many (`MaxFaults`).
`ThreadMemo`, `Gate`, `ChartCalls`, `ReadTools` and `OpsBot` claim no liveness.

## Proofs

`tlapm` checks these for all values of the constants that satisfy the named
assumptions of the modules (`ConfigAssumption`, `CarriedAssumption`, `MemoAssumption`,
`SlackAssumption`, `GateAssumption`, `DocsAssumption`, `DataAssumption`,
`CallsAssumption`, `ReadAssumption`, `BotAssumption`), which are the bounds the settings have in
`config.py` or typing of the data. The bounds of the models (clocks, edits, faults) are
constants too: the theorems hold whatever they are. `PROJECT.json` lists the
theorems, each with the property it states.

*AgentLoop_proofs, the clock.* The properties of the clock and the budgets are not
inductive: that the last iteration is the answer step, say, holds because a step that
may still call tools knows an iteration is left. `BudgetInv` says so, per phase: where
tools may still run, what is unspent (`StillInvestigating`), and how late the clock
may be (`OnTime`). From it follow that the loop never runs out of iterations, that a
turn ends within `TimeLimit` of its start, that the answer step starts with its
reserve less the overrun, that `timeout` is never reported without asking, that
no tool runs once a budget is spent, and that every step maps to a step or a
stutter of `TurnContract`. `TypeOK` is proved with the sequences of messages.

*AgentLoop_proofs, the transcript.* `TranscriptInv` relates four things that the
code keeps apart: the plan of a step matches the calls of its reply (`PlanMatches`),
what counts as fetched is a run of this turn that did not fail (`FetchedAreRuns`),
the runs are what was charged (`RunsAreCharged`), and a repeat, planned or answered,
points at such a run (`RepeatsAreOfRuns`, `RepeatsPointAtRuns`). `OnceInv` adds that a
successful run still in the conversation is what `fetched` has for its call, and that a
call planned to run has none: hence nothing is paid for twice (`NoCallPaidTwice`). The output budget
rewrites messages under all of them; `Reworded` is what it may do (text becomes the
placeholder, nothing else changes), and each part is shown to survive it.
`CallsAnswered` is `EveryCallAnswered` with the step under way. `WithinBudget` is
proved of `ToDrop` by counting characters. Two theorems have a hypothesis about what
`_recall` put in front: `NoCallUnanswered` that its calls are answered
(`CarriedWhole`), `ResultsFit` that its results fit (`CarriedFits`).
`HandsOnWholeConversation` closes that circle: a turn that ends by itself leaves a
conversation with both properties, so the next is given one. A turn whose dispatch
raised leaves a block without replies; the hypothesis fails after it, as the code does.

*ThreadMemo_proofs.* `IInv` adds to the isolation of conversations that of the
cache, that a waiting turn has no conversation yet, and that a stored memo carries
the time of the turn that ended last in its thread. What is kept is an end of
the conversation (`KeptIsTail`, `KeptIsKeptOf`, from a least element of a set of
naturals); `TailInv` follows it through later steps, since a turn that is over
changes its conversation no more. For the eviction, `CacheInv`: threads in the cache
were answered at different times and their number is within the limit, and a thread
that is missing was silent too long or has as many threads answered after it as the
cache holds. A turn's end adds one thread, so at most one is evicted; that it
has enough newer ones is counting older, newer and itself (`OlderAndNewer`); that
the number never falls again is that answers only get newer.

*SlackTurn_proofs.* The invariant relates the place of each handler to its heartbeat,
to the edit that may still be under way, to what its message shows and to what was
audited, through failures, late edits and a restart at any point.

*Gate_proofs.* `PolicyInv` orders the versions: the cached one is no newer than the
file, and every version between it and the file was put there after the stat of the
load under way or failed to be read. `RateInv` relates a bucket to the history of
admissions: what is in it and what was taken from it since any moment is at most
the capacity and the refill since, and at least that for a user who is refused.

*DocsIndex_proofs.* `IInv` says what a run has in hand at each place: a checkout
no older than the published index, with text once it was looked at, and at the
rename a committed build of exactly that checkout. Hence no search has anything
but a whole index open, and the index only gets newer. `CheckoutsInv` counts the temporary
directories against the kills and the one of the run under way. `LeftoverInv` counts
debts: a file under the name of the next build is owed (`Owed`) unless the run that
made it is at work on it in a directory it can write to; a kill or the loss of the
directory makes the debt, and the run that trips over the file pays it by removing it.

*ChartCalls_proofs.* `IInv` has three parts beside the types and `ChartBudget`. `Ledger`:
the charts of a collector are exactly the calls of its turn whose report says attached.
`Unreported`: a call not answered yet has no report and is in no collector, which is
what keeps the ledger when it answers. `Settled`: what a closed turn delivered is what
its collector holds, and none of its calls is still running. `PromiseKept` is the
ledger of a closed turn; that a refusal for want of room means a full collector needs
that collectors only grow. `Shown` adds that a breakdown goes on showing the rows it was
drawn from. That the bands add up to the table is then counting by parts: the units
of usage, labelled with the band they are in, are numbered within each
(`CountByParts`); and that a window that fits loses no row is the same count with the days
as labels (`LimitByParts`, `FitIsWhole`).

*ReadTools_proofs.* The order of a list first: the rank of a place, the number of
places before it, rises with the order and so is a bijection (`RankRises`,
`EachPlaceOnce`), which makes `InOrder` a stable sort (`SortIsStable`), `Kept` a filter that
keeps the end of what it filters (`KeptHas`, `KeptLast`, `KeptWhole`), and the first of a
sorted list a choice of the least (`FirstOfSorted`). The bytes from a line on are those of
the line and those after it (`BytesOfOneMore`), so the byte cap leaves the last line
and cuts exactly when the whole is too large (`CappedIs`). `ReadInv` adds to the
types what a call has in hand between its reads (`InHand`): of a log that its window was
empty at the first read, of a CronJob the uid that was read, of an accounting table that its
rows are asked for. Only an answer can break one of the four properties (`HowItEnds`),
and each tool's answer is one of these lemmas: `LogIs`, `JobsAre`, `EventsAre`, `CutIs`,
`SeriesAre`. That logs are written in the order of time (`OldestFirst`) is assumed of
what there is to read. The sort key of events needs `MaxSince` below `AfterAll`: with an
unbounded window an event without a time could be sorted before one that has one.

*OpsBot_proofs.* The composition is not proved from its own steps again. Every step of
the bot is a step of `Gate` or leaves it alone (`GateKept`, which the run checks as well),
and its memo is written as steps of `ThreadMemo` (a lemma), so the theorems of both hold of
the bot (`GuaranteesHold`). On them rest the two properties that are the bot's own: `BotInv`
has the versions of the policy that decisions were taken on, which with `PolicyInv` only
grow; `SilenceInv` relates each carried block to an unbroken chain of turns present
in its thread, for conversations and for stored memos.

The type invariants of every module but `ReadTools`, that no tool is called once the
loop is forced to answer (`NoToolsOnceForced`), `HandsOnWholeConversation` and
`SortIsStable` are proved and not checked by a run again.

Only model-checked: liveness (`TurnEnds`, `Concluded`, `CatchesUp`, and with `KeepsContract`
the liveness half of the refinement), which is out of the prover's reach. Every other
property of a passing run is a theorem. The five properties of the runs that expect a
violation are false.

## Plan

Done: `AgentLoop` and its contract first, since every question goes through it;
then the memo, the Slack handler, the gate, the docs index, the charts with
dispatch as they use it, the reading tools, and gate and memo composed; and the proofs
of every safety property checked of them. Left: the history of a thread as a text of
limited length (`_fit_char_budget`) in `SlackTurn`, and the policy it consults a
second time in `OpsBot`.

## Not modelled

What text says: prompts, playbooks, redaction, Slack formatting, MDX chunking, query
building and ranking, the drawing of charts. Servers and their protocols beyond
"answers, fails, is late". Manifests, except the facts `DocsIndex` takes from them. The
registry of the tools, which import order fills once, and schema generation from
it. Making clients, and the fields that are scrubbed from what the Kubernetes API returns.
The evals and the command line. The lengths of the sync's waits. Files changed without a
new mtime.
