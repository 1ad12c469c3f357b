----------------------------- MODULE AgentLoop -----------------------------
(***************************************************************************)
(* One turn of the agent loop (Agent._loop in agent.py): a model call, the *)
(* tool calls it asks for, and again, until an answer or a budget ends it. *)
(*                                                                         *)
(* Time is an integer clock that starts at 0 when the turn does; awaits    *)
(* are the only places it advances.  Message text is abstracted to its     *)
(* length; the arguments of a call to the key _call_key computes for them. *)
(***************************************************************************)
EXTENDS Integers, Sequences, FiniteSets

CONSTANTS
  MaxIterations,         \* agent_max_iterations
  MaxToolCalls,          \* agent_max_tool_calls
  MaxTruncationRetries,  \* agent_max_truncation_retries
  Deadline,              \* agent_wall_clock_timeout_s
  Reserve,               \* agent_answer_reserve_s
  Floor,                 \* the 1.0 s the code never goes below for an await
  ToolTimeout,           \* the 30 s cap on one tool call
  MaxProgress,           \* BOUND: longest the progress callback takes
  OutputBudget,          \* agent_tool_output_token_budget, in length units
  Placeholder,           \* length of the text a dropped result is replaced by
  NoteSize,              \* length of the reply to a call that was not run
  Keys,                  \* call keys the model may ask for
  DeepKeys,              \* arguments nested too deep: _call_key raises on them
  RaisingKeys,           \* arguments with too long an integer: dispatch raises
  Outcomes,              \* what a tool may return: [ok, size]
  MaxCallsPerReply,      \* BOUND: tool calls in one model reply
  Carried                \* exchanges _recall may put before the question

Budgets == {"tool_budget", "time_budget", "iteration_budget"}
Forced == Budgets \cup {"none"}
Kinds == {"run", "repeat", "over_budget"}

\* A call is identified by its iteration and its place in the reply; the calls
\* an earlier turn made are those of iteration 0.
Call == [key : Keys, id : Nat \X Nat]
Assistant == [role : {"assistant"}, calls : Seq(Call)]
ToolReply == [role : {"tool"}, key : Keys, id : Nat \X Nat, kind : Kinds,
              same_as : Nat \X Nat, ok : BOOLEAN, size : Nat, dropped : BOOLEAN]
SystemNote == [role : {"system"}, about : Budgets \cup {"truncated", "dropped"}]
Message == Assistant \cup ToolReply \cup SystemNote
Planned == [key : Keys, id : Nat \X Nat, kind : Kinds, same_as : Nat \X Nat]

(* The bounds config.py puts on the settings (Field constraints and        *)
(* _reserve_fits_the_turn), and the sorts of the modelled data.            *)
ASSUME ConfigAssumption ==
  /\ MaxIterations \in Nat \ {0} /\ MaxToolCalls \in Nat \ {0}
  /\ MaxTruncationRetries \in Nat /\ MaxCallsPerReply \in Nat \ {0}
  /\ Deadline \in Nat \ {0} /\ Reserve \in Nat /\ Reserve < Deadline
  /\ Floor \in Nat \ {0} /\ ToolTimeout \in Nat \ {0} /\ MaxProgress \in Nat
  /\ OutputBudget \in Nat /\ Placeholder \in Nat /\ NoteSize \in Nat
  /\ DeepKeys \subseteq Keys /\ RaisingKeys \subseteq Keys
  /\ Outcomes \subseteq [ok : BOOLEAN, size : Nat]
  /\ Carried \subseteq Seq(Message)

\* What is carried was called by an earlier turn.
ASSUME CarriedAssumption ==
  \A conversation \in Carried : \A i \in DOMAIN conversation :
    conversation[i].role = "tool" => conversation[i].id[1] = 0

VARIABLES
  pc,          \* top | model | plan | progress | tools | done | raised
  now, iteration, calls_made, retries,
  forced,      \* the budget that ran out, from then on an answer is all we ask
  messages,    \* the conversation after the system prompt and the question
  fetched,     \* call key -> position in messages of its successful result
  tool_calls,  \* the calls of the reply being handled
  plan,        \* what was decided for the first Len(plan) of them
  stop_reason, \* "none" while the turn runs
  text         \* what the turn posts: none | whole | cut | partial | error

vars == <<pc, now, iteration, calls_made, retries, forced, messages, fetched,
          tool_calls, plan, stop_reason, text>>
control == <<calls_made, retries, fetched, tool_calls, plan>>

NoId == <<0, 0>>
IsTool(message) == message.role = "tool"
IsDropped(message) == message.dropped
AtLeast(a, b) == IF a >= b THEN a ELSE b
AtMost(a, b) == IF a <= b THEN a ELSE b
Note(about) == [role |-> "system", about |-> about]

\* The calls of the current step that are executed.
ToRun == {i \in DOMAIN plan : plan[i].kind = "run"}

Init ==
  /\ pc = "top" /\ now = 0 /\ iteration = 1
  /\ calls_made = 0 /\ retries = 0 /\ forced = "none"
  /\ messages \in Carried
  /\ fetched = [key \in {} |-> 0]
  /\ tool_calls = <<>> /\ plan = <<>>
  /\ stop_reason = "none" /\ text = "none"

----------------------------------------------------------------------------
(* How a step of the loop ends.                                            *)

Stop(reason, wrote) ==
  /\ pc' = "done" /\ stop_reason' = reason /\ text' = wrote
  /\ UNCHANGED iteration

Continue ==
  /\ pc' = "top" /\ iteration' = iteration + 1
  /\ UNCHANGED <<stop_reason, text>>

----------------------------------------------------------------------------
(* The top of an iteration: the deadline, then the budgets, in that order. *)

OutOfTime ==
  /\ pc = "top" /\ iteration <= MaxIterations
  /\ now >= Deadline
  /\ Stop("timeout", "partial")
  /\ UNCHANGED <<now, forced, messages, control>>

\* The budget that turns this iteration into the answer step, if any.
SpentBudget ==
  IF calls_made >= MaxToolCalls THEN "tool_budget"
  ELSE IF Deadline - now <= Reserve THEN "time_budget"
  ELSE IF iteration = MaxIterations THEN "iteration_budget"
  ELSE "none"

StartModelCall ==
  /\ pc = "top" /\ iteration <= MaxIterations
  /\ now < Deadline
  /\ forced' = IF forced = "none" THEN SpentBudget ELSE forced
  /\ messages' = IF forced' = forced THEN messages ELSE Append(messages, Note(forced'))
  /\ pc' = "model"
  /\ UNCHANGED <<now, iteration, stop_reason, text, control>>

----------------------------------------------------------------------------
(* The model call, under wait_for: until the reserve while tools are still *)
(* offered, until the deadline (but never less than the floor) after that. *)

\* Faults: tools offered until the deadline; the answer given a whole reserve.
ModelTimeToDeadline == AtLeast(Floor, Deadline - now)
ModelTimeOfReserve ==
  IF forced = "none" THEN Deadline - Reserve - now ELSE AtLeast(Floor, Reserve)

ModelTimeLeft ==
  IF forced = "none" THEN Deadline - Reserve - now ELSE AtLeast(Floor, Deadline - now)

Await(limit) == now' \in now..(now + limit)

CutOffAtReserve ==
  /\ pc = "model"
  /\ forced = "none" /\ Reserve > 0
  /\ now' = now + ModelTimeLeft
  /\ forced' = "time_budget"
  /\ messages' = Append(messages, Note("time_budget"))
  /\ Continue
  /\ UNCHANGED control

ModelTimesOut ==
  /\ pc = "model"
  /\ ~(forced = "none" /\ Reserve > 0)
  /\ now' = now + ModelTimeLeft
  /\ Stop("timeout", "partial")
  /\ UNCHANGED <<forced, messages, control>>

ModelFails ==
  /\ pc = "model"
  /\ Await(ModelTimeLeft)
  /\ Stop("model_error", "error")
  /\ UNCHANGED <<forced, messages, control>>

\* A reply cut off at max_tokens is discarded and asked for again while a
\* retry and an iteration to run it in are left.
RetryLeftAlways == retries < MaxTruncationRetries  \* fault: last iteration too
RetryLeft == retries < MaxTruncationRetries /\ iteration < MaxIterations

RetryTruncated ==
  /\ pc = "model"
  /\ Await(ModelTimeLeft)
  /\ RetryLeft
  /\ retries' = retries + 1
  /\ messages' = Append(messages, Note("truncated"))
  /\ Continue
  /\ UNCHANGED <<forced, calls_made, fetched, tool_calls, plan>>

\* The reason of a turn that ran its course: the budget it was cut short by.
\* Fault: the budget is not reported.
ReasonUnforced(otherwise) == otherwise
Reason(otherwise) == IF forced = "none" THEN otherwise ELSE forced

\* A reply with no tool call to run ends the turn; on a forced step that is
\* every reply, the calls of one that makes some anyway being discarded.
PostAnswer ==
  /\ pc = "model"
  /\ Await(ModelTimeLeft)
  /\ \/ ~RetryLeft /\ Stop("truncated", "cut")
     \/ ~RetryLeft /\ Stop("truncated", "partial")
     \/ Stop(Reason("empty_answer"), "partial")
     \/ Stop(Reason("answered"), "whole")
  /\ UNCHANGED <<forced, messages, control>>

\* tool_choice "none" is advisory: calls made on a forced step are not run.
MayCallTools == forced = "none"

AskForTools ==
  /\ pc = "model"
  /\ MayCallTools
  /\ Await(ModelTimeLeft)
  /\ \E n \in 1..MaxCallsPerReply : \E keys \in [1..n -> Keys] :
       tool_calls' = [i \in 1..n |-> [key |-> keys[i], id |-> <<iteration, i>>]]
  /\ messages' = Append(messages, [role |-> "assistant", calls |-> tool_calls'])
  /\ plan' = <<>>
  /\ pc' = "plan"
  /\ UNCHANGED <<iteration, calls_made, retries, forced, fetched, stop_reason, text>>

----------------------------------------------------------------------------
(* Each call in order: pointed at an earlier identical one, run, or refused. *)

NextCall == tool_calls[Len(plan) + 1]

Plan(kind, same_as) ==
  /\ plan' = Append(plan, [key |-> NextCall.key, id |-> NextCall.id,
                           kind |-> kind, same_as |-> same_as])
  /\ pc' = IF Len(plan) + 1 = Len(tool_calls) THEN "progress" ELSE "plan"
  /\ UNCHANGED <<now, iteration, retries, forced, messages, fetched, tool_calls,
                 stop_reason, text>>

\* A result is reused only while its text is still in the conversation.
HaveResult(key) == key \in DOMAIN fetched /\ ~IsDropped(messages[fetched[key]])

FirstInStep(key) == {i \in DOMAIN plan : plan[i].kind = "run" /\ plan[i].key = key}

PlanRepeat ==
  /\ pc = "plan"
  /\ \/ /\ HaveResult(NextCall.key)
        /\ Plan("repeat", messages[fetched[NextCall.key]].id)
     \/ /\ ~HaveResult(NextCall.key)
        /\ \E i \in FirstInStep(NextCall.key) : Plan("repeat", plan[i].id)
  /\ UNCHANGED calls_made

IsNewCall ==
  /\ NextCall.key \notin DeepKeys
  /\ ~HaveResult(NextCall.key) /\ FirstInStep(NextCall.key) = {}

BudgetLeftInclusive == calls_made <= MaxToolCalls  \* fault: off by one
BudgetLeft == calls_made < MaxToolCalls

PlanRun ==
  /\ pc = "plan"
  /\ IsNewCall
  /\ BudgetLeft
  /\ calls_made' = calls_made + 1
  /\ Plan("run", NoId)

PlanOverBudget ==
  /\ pc = "plan"
  /\ IsNewCall
  /\ ~BudgetLeft
  /\ Plan("over_budget", NoId)
  /\ UNCHANGED calls_made

----------------------------------------------------------------------------
(* The tools run side by side; their replies are appended in call order.   *)

\* The progress callback edits the ack in Slack before the tools start.
ShowProgress ==
  /\ pc = "progress"
  /\ IF ToRun = {} THEN now' = now ELSE Await(MaxProgress)
  /\ pc' = "tools"
  /\ UNCHANGED <<iteration, forced, messages, stop_reason, text, control>>

ToolTimeToDeadline == AtMost(ToolTimeout, AtLeast(Floor, Deadline - now))  \* fault
ToolTimeLeft == AtMost(ToolTimeout, AtLeast(Floor, Deadline - Reserve - now))

Reply(i, outcome) ==
  [role |-> "tool", key |-> plan[i].key, id |-> plan[i].id, kind |-> plan[i].kind,
   same_as |-> plan[i].same_as,
   ok |-> i \in ToRun /\ outcome[i].ok,
   size |-> IF i \in ToRun THEN outcome[i].size ELSE NoteSize,
   dropped |-> FALSE]

\* Fault: a refused call gets no reply.
RepliesButRefusals(outcome) ==
  LET answered(reply) == reply.kind # "over_budget"
  IN  SelectSeq([i \in DOMAIN plan |-> Reply(i, outcome)], answered)

Replies(outcome) == [i \in DOMAIN plan |-> Reply(i, outcome)]

Tools(conversation) == {i \in DOMAIN conversation : IsTool(conversation[i])}

\* The length of the text of some results together: the number of its characters.
Characters(conversation, S) == UNION {{i} \X (1..conversation[i].size) : i \in S}
Size(conversation, S) == Cardinality(Characters(conversation, S))

\* Fault: the newest results go first.
ToDropNewest(conversation) ==
  LET live == {i \in Tools(conversation) : ~IsDropped(conversation[i])}
      total == Size(conversation, Tools(conversation))
  IN  {i \in live : total - Size(conversation, {j \in live : j > i}) > OutputBudget}

\* _enforce_output_budget walks the tool messages oldest first and blanks
\* each one it meets while what is left is over the budget.
ToDrop(conversation) ==
  LET live == {i \in Tools(conversation) : ~IsDropped(conversation[i])}
      total == Size(conversation, Tools(conversation))
  IN  {i \in live : total - Size(conversation, {j \in live : j < i}) > OutputBudget}

Blanked(reply) ==
  [role |-> "tool", key |-> reply.key, id |-> reply.id, kind |-> reply.kind,
   same_as |-> reply.same_as, ok |-> reply.ok, size |-> Placeholder, dropped |-> TRUE]

Blank(conversation, S) ==
  [i \in DOMAIN conversation |->
     IF i \in S THEN Blanked(conversation[i]) ELSE conversation[i]]

EnforceOutputBudget(conversation) ==
  LET S == ToDrop(conversation)
  IN  IF S = {} THEN conversation ELSE Append(Blank(conversation, S), Note("dropped"))

\* Only a success is reused: the failure of a call may be transient.
ReusableAny(outcome) == ToRun  \* fault: failures are reused too
Reusable(outcome) == {i \in ToRun : outcome[i].ok}

\* Fault: what the steps before this one fetched is forgotten.
FetchedThisStep(outcome) ==
  LET at == [key \in {plan[i].key : i \in Reusable(outcome)} |->
               CHOOSE i \in Reusable(outcome) : plan[i].key = key]
  IN  [key \in DOMAIN at |-> Len(messages) + at[key]]

Fetched(outcome) ==
  LET at == [key \in {plan[i].key : i \in Reusable(outcome)} |->
               CHOOSE i \in Reusable(outcome) : plan[i].key = key]
  IN  [key \in DOMAIN at \cup DOMAIN fetched |->
         IF key \in DOMAIN at THEN Len(messages) + at[key] ELSE fetched[key]]

FinishTools ==
  /\ pc = "tools"
  /\ \A i \in ToRun : plan[i].key \notin RaisingKeys
  /\ IF ToRun = {} THEN now' = now ELSE Await(ToolTimeLeft)
  /\ \E outcome \in [ToRun -> Outcomes] :
       /\ messages' = EnforceOutputBudget(messages \o Replies(outcome))
       /\ fetched' = Fetched(outcome)
  /\ tool_calls' = <<>> /\ plan' = <<>>
  /\ Continue
  /\ UNCHANGED <<calls_made, retries, forced>>

\* What nothing in the loop catches: a reply of an odd shape, a call that cannot
\* be keyed, a dispatch that raises out of gather.  No result is kept.
OddReply == pc = "model" /\ Await(ModelTimeLeft)
CannotKey == pc = "plan" /\ NextCall.key \in DeepKeys /\ now' = now
DispatchRaises == pc = "tools" /\ now' = now /\ \E i \in ToRun : plan[i].key \in RaisingKeys

LoopRaises ==
  /\ OddReply \/ CannotKey \/ DispatchRaises
  /\ pc' = "raised"
  /\ UNCHANGED <<iteration, forced, messages, stop_reason, text, control>>

TurnOver == pc \in {"done", "raised"} /\ UNCHANGED vars

Step ==
  \/ OutOfTime \/ StartModelCall
  \/ CutOffAtReserve \/ ModelTimesOut \/ ModelFails \/ RetryTruncated \/ PostAnswer
  \/ AskForTools \/ PlanRepeat \/ PlanRun \/ PlanOverBudget
  \/ ShowProgress \/ FinishTools \/ LoopRaises

Next == Step \/ TurnOver

\* The model call and the tool calls are under wait_for, so the turn keeps
\* moving; progress is assumed to return (MaxProgress).
FairnessUnbounded == WF_vars(pc # "model" /\ Step)  \* fault: no wait_for
Fairness == WF_vars(Step)

Spec == Init /\ [][Next]_vars /\ Fairness

----------------------------------------------------------------------------
(* Properties.                                                             *)

TypeOK ==
  /\ pc \in {"top", "model", "plan", "progress", "tools", "done", "raised"}
  /\ now \in Nat /\ iteration \in Nat /\ calls_made \in Nat /\ retries \in Nat
  /\ forced \in Forced
  /\ messages \in Seq(Message)
  /\ \E K \in SUBSET Keys : fetched \in [K -> Nat]
  /\ tool_calls \in Seq(Call)
  /\ plan \in Seq(Planned)
  /\ stop_reason \in Forced \cup {"timeout", "model_error", "truncated", "empty_answer", "answered"}
  /\ text \in {"none", "whole", "cut", "partial", "error"}

\* The statements after the for loop (agent.py:552-557, "Not reached") are not
\* reached: whatever spends the iterations, the last one is the answer step.
NeverFallsOffLoop == iteration <= MaxIterations

\* The replies to the calls this turn made.
OwnTools == {i \in Tools(messages) : messages[i].id[1] > 0}

\* Every tool call of every assistant message a request carries is followed by
\* its own reply, in order: run, repeated, refused or dropped, none is missing.
EveryCallAnswered ==
  pc = "model" =>
    \A i \in DOMAIN messages : messages[i].role = "assistant" =>
      \A j \in DOMAIN messages[i].calls :
        /\ i + j \in DOMAIN messages
        /\ IsTool(messages[i + j])
        /\ messages[i + j].id = messages[i].calls[j].id

\* The tool call budget counts exactly the calls that were run: repeats and
\* refusals are free, and no run goes uncounted, across all steps of the turn.
BudgetMatchesRuns ==
  /\ calls_made <= MaxToolCalls
  /\ pc \in {"top", "model"} =>
       calls_made = Cardinality({i \in OwnTools : messages[i].kind = "run"})

\* A repeat note points back at a call of this turn that was really run with
\* the same arguments, and at a success unless both were made in one step.
RepeatPointsAtRun ==
  \A i \in OwnTools : messages[i].kind = "repeat" =>
    \E j \in OwnTools :
      /\ j < i
      /\ messages[j].kind = "run" /\ messages[j].id = messages[i].same_as
      /\ messages[j].key = messages[i].key
      /\ messages[j].ok \/ messages[j].id[1] = messages[i].id[1]

\* No call is run, and paid for, twice in a turn while its result is there: of two
\* runs with the same arguments, the first failed or its result was dropped.
RunAgainOnlyIfGone ==
  \A i, j \in OwnTools :
    /\ i < j /\ messages[i].key = messages[j].key
    /\ messages[i].kind = "run" /\ messages[j].kind = "run"
    => ~messages[i].ok \/ IsDropped(messages[i])

\* What a request carries of tool output fits the output budget, and it is
\* always the oldest results that were given up.
OutputFitsOldestFirst ==
  pc = "model" =>
    /\ Size(messages, {i \in Tools(messages) : ~IsDropped(messages[i])}) <= OutputBudget
    /\ \A i, j \in Tools(messages) :
         i < j /\ IsDropped(messages[j]) => IsDropped(messages[i])

\* Once a budget has run out no tool is run, whatever the model asks for.
NoToolsOnceForced ==
  [][forced # "none" => pc' \notin {"plan", "progress", "tools"} /\ calls_made' = calls_made]_vars

\* The answer step starts with the reserve still in hand, less what one
\* progress edit and the one-second floor of the tools may take from it.
AnswerGetsReserve ==
  [][forced = "none" /\ forced' # "none"
       => Deadline - now' >= Reserve - MaxProgress - Floor]_vars

\* With a reserve longer than that overrun a turn never ends as "timeout"
\* without the model having been asked to answer from what it has.
NoSilentTimeout ==
  Reserve > MaxProgress + Floor /\ stop_reason = "timeout" => forced # "none"

\* A turn outlives its wall clock by less than the floor, or by the overrun of
\* the last tool step when the reserve is shorter than that.
TimeLimit == AtLeast(Deadline + Floor - 1, Deadline - Reserve + MaxProgress + Floor)

EndsNearDeadline == now <= TimeLimit

\* Every turn ends.
TurnEnds == <>(pc \in {"done", "raised"})

\* The loop implements what a turn promises: TurnContract, under this mapping.
Phase ==
  IF pc \in {"done", "raised"} THEN "closed"
  ELSE IF forced = "none" THEN "gathering" ELSE "answering"

Contract == INSTANCE TurnContract WITH
  ToolBudget <- MaxToolCalls, TimeLimit <- TimeLimit,
  phase <- Phase, limit <- forced, spent <- calls_made, clock <- now,
  reason <- IF pc = "raised" THEN "raised" ELSE stop_reason

KeepsContract == Contract!Spec
=============================================================================
