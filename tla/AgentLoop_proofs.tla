-------------------------- MODULE AgentLoop_proofs --------------------------
(***************************************************************************)
(* The budgets of AgentLoop, proved for every value of its constants: the  *)
(* loop is never left by running out of iterations, no tool runs once a    *)
(* budget is spent, and the time a turn may take and leaves for its answer *)
(* is bounded.  Transcript is about the sequences; Budget about the rest.  *)
(***************************************************************************)
EXTENDS AgentLoop, FiniteSetTheorems, TLAPS

ToolsCutoff == Deadline - Reserve
Phases == {"top", "model", "plan", "progress", "tools", "done", "raised"}
Reasons == Forced \cup {"timeout", "model_error", "truncated", "empty_answer", "answered"}

ControlTypeOK ==
  /\ pc \in Phases
  /\ now \in Nat
  /\ iteration \in 1..MaxIterations
  /\ calls_made \in 0..MaxToolCalls
  /\ retries \in Nat
  /\ forced \in Forced
  /\ stop_reason \in Reasons

\* Where tools may still run: budgets unspent, an iteration for the answer left.
StillInvestigating ==
  /\ pc \in {"plan", "progress", "tools"} => forced = "none" /\ iteration < MaxIterations
  /\ pc = "model" => now < Deadline
  /\ pc = "model" /\ forced = "none" =>
       /\ iteration < MaxIterations
       /\ calls_made < MaxToolCalls
       /\ now < ToolsCutoff

\* How far past the cutoff each phase may find the clock.
OnTime ==
  /\ pc \in {"plan", "progress"} => now <= ToolsCutoff
  /\ pc = "tools" => now <= ToolsCutoff + MaxProgress
  /\ pc = "top" /\ forced = "none" => now <= ToolsCutoff + MaxProgress + Floor
  /\ now <= TimeLimit

StoppedFor ==
  /\ pc # "done" => stop_reason = "none"
  /\ stop_reason = "timeout" /\ forced = "none" => Reserve <= MaxProgress + Floor

BudgetInv == ControlTypeOK /\ StillInvestigating /\ OnTime /\ StoppedFor

USE DEF Forced, Budgets, Phases, Reasons, ToolsCutoff, AtLeast, AtMost

LEMMA InitBudgetInv == Init => BudgetInv
BY ConfigAssumption
DEF Init, BudgetInv, ControlTypeOK, StillInvestigating, OnTime, StoppedFor, TimeLimit

LEMMA StepBudgetInv == BudgetInv /\ [Next]_vars => BudgetInv'
<1> SUFFICES ASSUME BudgetInv, [Next]_vars PROVE BudgetInv'
  OBVIOUS
<1> USE ConfigAssumption DEF BudgetInv, ControlTypeOK, StillInvestigating, OnTime,
        StoppedFor, TimeLimit, control
<1>1. CASE OutOfTime
  BY <1>1 DEF OutOfTime, Stop
<1>2. CASE StartModelCall
  BY <1>2 DEF StartModelCall, SpentBudget
<1>3. CASE CutOffAtReserve
  BY <1>3 DEF CutOffAtReserve, Continue, ModelTimeLeft
<1>4. CASE ModelTimesOut
  BY <1>4 DEF ModelTimesOut, Stop, ModelTimeLeft
<1>5. CASE ModelFails
  BY <1>5 DEF ModelFails, Stop, Await, ModelTimeLeft
<1>6. CASE RetryTruncated
  BY <1>6 DEF RetryTruncated, RetryLeft, Continue, Await, ModelTimeLeft
<1>7. CASE PostAnswer
  BY <1>7 DEF PostAnswer, Reason, Stop, Await, ModelTimeLeft
<1>8. CASE AskForTools
  BY <1>8 DEF AskForTools, MayCallTools, Await, ModelTimeLeft
<1>9. CASE PlanRepeat
  BY <1>9 DEF PlanRepeat, Plan
<1>10. CASE PlanRun
  BY <1>10 DEF PlanRun, BudgetLeft, Plan
<1>11. CASE PlanOverBudget
  BY <1>11 DEF PlanOverBudget, Plan
<1>12. CASE ShowProgress
  BY <1>12 DEF ShowProgress, Await
<1>13. CASE FinishTools
  BY <1>13 DEF FinishTools, Continue, Await, ToolTimeLeft
<1>14. CASE LoopRaises
  BY <1>14 DEF LoopRaises, OddReply, CannotKey, DispatchRaises, Await, ModelTimeLeft
<1>15. CASE UNCHANGED vars
  BY <1>15 DEF vars
<1> QED
  BY <1>1, <1>2, <1>3, <1>4, <1>5, <1>6, <1>7, <1>8, <1>9, <1>10, <1>11, <1>12,
     <1>13, <1>14, <1>15 DEF Next, Step, TurnOver

LEMMA BudgetInvariant == Spec => []BudgetInv
BY InitBudgetInv, StepBudgetInv, PTL DEF Spec

\* The code after the for loop is dead: every turn ends inside it.
THEOREM LoopIsNeverFallenOff == Spec => []NeverFallsOffLoop
<1>1. BudgetInv => NeverFallsOffLoop
  BY DEF BudgetInv, ControlTypeOK, NeverFallsOffLoop
<1> QED
  BY <1>1, BudgetInvariant, PTL

\* A turn overruns its wall clock by no more than EndsNearDeadline says.
THEOREM TurnTimeBounded == Spec => []EndsNearDeadline
<1>1. BudgetInv => EndsNearDeadline
  BY DEF BudgetInv, OnTime, EndsNearDeadline
<1> QED
  BY <1>1, BudgetInvariant, PTL

\* With a reserve longer than the overrun, "timeout" means the model was asked
\* for its answer and missed the deadline, never that it was not asked.
THEOREM TimeoutOnlyAfterAsking == Spec => []NoSilentTimeout
<1>1. BudgetInv => NoSilentTimeout
  BY ConfigAssumption DEF BudgetInv, StoppedFor, ControlTypeOK, NoSilentTimeout
<1> QED
  BY <1>1, BudgetInvariant, PTL

\* The answer step starts with the reserve in hand, less the bounded overrun.
THEOREM AnswerHasItsReserve == Spec => AnswerGetsReserve
<1> DEFINE Kept == forced = "none" /\ forced' # "none"
                     => Deadline - now' >= Reserve - MaxProgress - Floor
<1>1. BudgetInv /\ [Next]_vars => [Kept]_vars
  <2> SUFFICES ASSUME BudgetInv, Next, forced = "none", forced' # "none"
               PROVE  Deadline - now' >= Reserve - MaxProgress - Floor
    OBVIOUS
  <2> USE ConfigAssumption DEF BudgetInv, ControlTypeOK, StillInvestigating, OnTime
  <2>1. StartModelCall \/ CutOffAtReserve
    BY DEF Next, Step, TurnOver, vars, control, OutOfTime, ModelTimesOut, ModelFails,
           RetryTruncated, PostAnswer, AskForTools, PlanRepeat, PlanRun, PlanOverBudget,
           Plan, ShowProgress, FinishTools, LoopRaises, OddReply, CannotKey, DispatchRaises
  <2>2. CASE StartModelCall
    BY <2>2 DEF StartModelCall
  <2>3. CASE CutOffAtReserve
    BY <2>3 DEF CutOffAtReserve, ModelTimeLeft
  <2> QED
    BY <2>1, <2>2, <2>3
<1> QED
  BY <1>1, BudgetInvariant, PTL DEF Spec, AnswerGetsReserve

\* Once a budget is spent no call is planned, run or charged any more.
THEOREM NoToolAfterBudget == Spec => NoToolsOnceForced
<1> DEFINE Held == forced # "none" =>
                     pc' \notin {"plan", "progress", "tools"} /\ calls_made' = calls_made
<1>1. BudgetInv /\ [Next]_vars => [Held]_vars
  <2> SUFFICES ASSUME BudgetInv, Next, forced # "none"
               PROVE  pc' \notin {"plan", "progress", "tools"} /\ calls_made' = calls_made
    OBVIOUS
  <2>1. pc \notin {"plan", "progress", "tools"}
    BY DEF BudgetInv, StillInvestigating
  <2> QED
    BY <2>1 DEF Next, Step, TurnOver, vars, control, OutOfTime, StartModelCall,
           CutOffAtReserve, ModelTimesOut, ModelFails, RetryTruncated, PostAnswer,
           AskForTools, MayCallTools, PlanRepeat, PlanRun, PlanOverBudget, ShowProgress,
           FinishTools, LoopRaises, OddReply, CannotKey, DispatchRaises, Stop, Continue
<1> QED
  BY <1>1, BudgetInvariant, PTL DEF Spec, NoToolsOnceForced

----------------------------------------------------------------------------
(* The loop implements what TurnContract promises (its safety part).       *)

LEMMA ContractInit == Init => Contract!Init
BY DEF Init, Contract!Init, Phase

LEMMA ContractStep == BudgetInv /\ BudgetInv' /\ [Next]_vars => [Contract!Next]_(Contract!vars)
<1> SUFFICES ASSUME BudgetInv, BudgetInv', [Next]_vars
             PROVE  Contract!Next \/ UNCHANGED Contract!vars
  OBVIOUS
<1> USE ConfigAssumption DEF BudgetInv, ControlTypeOK, StillInvestigating, OnTime, StoppedFor,
        control, Phase, Contract!vars, Contract!Pass
<1>1. CASE OutOfTime
  BY <1>1 DEF OutOfTime, Stop, Contract!Next, Contract!Close, Contract!Faults
<1>2. CASE StartModelCall
  BY <1>2 DEF StartModelCall, SpentBudget, Contract!Next, Contract!BeginAnswer, Contract!Limits
<1>3. CASE CutOffAtReserve
  BY <1>3 DEF CutOffAtReserve, Continue, ModelTimeLeft, Contract!Next, Contract!BeginAnswer,
          Contract!Limits
<1>4. CASE ModelTimesOut
  BY <1>4 DEF ModelTimesOut, Stop, ModelTimeLeft, Contract!Next, Contract!Close, Contract!Faults
<1>5. CASE ModelFails
  BY <1>5 DEF ModelFails, Stop, Await, ModelTimeLeft, Contract!Next, Contract!Close, Contract!Faults
<1>6. CASE RetryTruncated
  BY <1>6 DEF RetryTruncated, Continue, Await, ModelTimeLeft, Contract!Next, Contract!Gather,
          Contract!AnswerAgain
<1>7. CASE PostAnswer
  BY <1>7 DEF PostAnswer, Reason, Stop, Await, ModelTimeLeft, Contract!Next, Contract!Close,
          Contract!Faults, Contract!Conclusions
<1>8. CASE AskForTools
  BY <1>8 DEF AskForTools, MayCallTools, Await, ModelTimeLeft, Contract!Next, Contract!Gather
<1>9. CASE PlanRepeat
  BY <1>9 DEF PlanRepeat, Plan, Contract!Next, Contract!Gather
<1>10. CASE PlanRun
  BY <1>10 DEF PlanRun, Plan, Contract!Next, Contract!Gather
<1>11. CASE PlanOverBudget
  BY <1>11 DEF PlanOverBudget, Plan, Contract!Next, Contract!Gather
<1>12. CASE ShowProgress
  BY <1>12 DEF ShowProgress, Await, Contract!Next, Contract!Gather
<1>13. CASE FinishTools
  BY <1>13 DEF FinishTools, Continue, Await, ToolTimeLeft, Contract!Next, Contract!Gather
<1>14. CASE LoopRaises
  BY <1>14 DEF
     LoopRaises, OddReply, CannotKey, DispatchRaises, Await, ModelTimeLeft, Contract!Next, Contract!Close, Contract!Faults
<1>15. CASE UNCHANGED vars
  BY <1>15 DEF vars
<1> QED
  BY <1>1, <1>2, <1>3, <1>4, <1>5, <1>6, <1>7, <1>8, <1>9, <1>10, <1>11, <1>12,
     <1>13, <1>14, <1>15 DEF Next, Step, TurnOver

\* Every behaviour of the loop is one TurnContract allows: tools within their
\* budget, one last request once it is spent, and the reason that says which.
THEOREM LoopImplementsContract == Spec => Contract!Safety
<1>1. BudgetInv /\ BudgetInv' /\ [Next]_vars => [Contract!Next]_(Contract!vars)
  BY ContractStep
<1> QED
  BY <1>1, ContractInit, BudgetInvariant, PTL DEF Spec, Contract!Safety

----------------------------------------------------------------------------
(* Type correctness.  A result is fetched by its position, so the positions *)
(* must stay those of tool messages while the conversation grows.           *)

DataTypeOK ==
  /\ messages \in Seq(Message)
  /\ \E K \in SUBSET Keys : fetched \in [K -> Nat]
  /\ tool_calls \in Seq(Call)
  /\ plan \in Seq(Planned)
  /\ text \in {"none", "whole", "cut", "partial", "error"}

FetchedAreTools ==
  \A key \in DOMAIN fetched : fetched[key] \in Tools(messages)

PlanIsPartial == pc = "plan" => Len(plan) < Len(tool_calls)

TypeInv == ControlTypeOK /\ DataTypeOK /\ FetchedAreTools /\ PlanIsPartial

LEMMA ToolMessage ==
  ASSUME NEW m \in Message, IsTool(m)
  PROVE  m \in ToolReply
BY DEF Message, Assistant, SystemNote, ToolReply, IsTool

LEMMA NoteIsMessage ==
  ASSUME NEW about \in Budgets \cup {"truncated", "dropped"}
  PROVE  Note(about) \in Message /\ ~IsTool(Note(about))
BY DEF Note, Message, SystemNote, IsTool

\* Appending to a conversation leaves the tool messages where they are.
LEMMA AppendKeepsTools ==
  ASSUME NEW s \in Seq(Message), NEW m \in Message
  PROVE  Append(s, m) \in Seq(Message) /\ Tools(s) \subseteq Tools(Append(s, m))
BY DEF Tools

\* So does appending a sequence of replies, and blanking some of them.
LEMMA ConcatKeepsTools ==
  ASSUME NEW s \in Seq(Message), NEW t \in Seq(Message)
  PROVE  s \o t \in Seq(Message) /\ Tools(s) \subseteq Tools(s \o t)
BY DEF Tools

LEMMA BlankKeepsTools ==
  ASSUME NEW s \in Seq(Message), NEW S \in SUBSET Tools(s)
  PROVE  Blank(s, S) \in Seq(Message) /\ Tools(s) \subseteq Tools(Blank(s, S))
<1> DEFINE b == Blank(s, S)
<1>1. DOMAIN s = 1..Len(s) /\ DOMAIN b = 1..Len(s)
  BY DEF Blank
<1>2. ASSUME NEW i \in 1..Len(s)
      PROVE  b[i] \in Message /\ (IsTool(s[i]) => IsTool(b[i]))
  <2>1. CASE i \in S
    <3>1. s[i] \in ToolReply
      BY <2>1, ToolMessage DEF Tools
    <3>2. Blanked(s[i]) \in ToolReply
      BY <3>1, ConfigAssumption DEF ToolReply, Blanked
    <3>3. b[i] = Blanked(s[i])
      BY <1>1, <2>1 DEF Blank
    <3> QED
      BY <3>2, <3>3 DEF Message, IsTool, ToolReply
  <2>2. CASE i \notin S
    <3>1. b[i] = s[i]
      BY <1>1, <2>2 DEF Blank
    <3> QED
      BY <3>1
  <2> QED
    BY <2>1, <2>2
<1>3. b \in Seq(Message)
  <2>1. b = [i \in 1..Len(s) |-> b[i]]
    BY <1>1 DEF Blank
  <2> HIDE DEF b
  <2> QED
    BY <1>2, <2>1
<1> QED
  BY <1>1, <1>2, <1>3 DEF Tools

\* What _enforce_output_budget does to a conversation is still one.
LEMMA EnforceKeepsTools ==
  ASSUME NEW s \in Seq(Message)
  PROVE  /\ EnforceOutputBudget(s) \in Seq(Message)
         /\ Tools(s) \subseteq Tools(EnforceOutputBudget(s))
<1>1. ToDrop(s) \in SUBSET Tools(s)
  BY DEF ToDrop
<1>2. Blank(s, ToDrop(s)) \in Seq(Message) /\ Tools(s) \subseteq Tools(Blank(s, ToDrop(s)))
  BY <1>1, BlankKeepsTools
<1>3. Note("dropped") \in Message
  BY NoteIsMessage
<1> QED
  BY <1>2, <1>3, AppendKeepsTools DEF EnforceOutputBudget

LEMMA RepliesAreTools ==
  ASSUME plan \in Seq(Planned), NEW outcome \in [ToRun -> Outcomes]
  PROVE  /\ Replies(outcome) \in Seq(Message)
         /\ Len(Replies(outcome)) = Len(plan)
         /\ \A i \in DOMAIN plan : IsTool(Replies(outcome)[i])
<1>1. ASSUME NEW i \in DOMAIN plan PROVE Reply(i, outcome) \in ToolReply
  <2>1. plan[i] \in Planned
    OBVIOUS
  <2>2. i \in ToRun => outcome[i] \in [ok : BOOLEAN, size : Nat]
    BY ConfigAssumption
  <2>3. (i \in ToRun /\ outcome[i].ok) \in BOOLEAN
    OBVIOUS
  <2>4. (IF i \in ToRun THEN outcome[i].size ELSE NoteSize) \in Nat
    BY <2>2, ConfigAssumption
  <2> QED
    BY <2>1, <2>3, <2>4 DEF Reply, ToolReply, Planned
<1> QED
  BY <1>1 DEF Replies, Message, ToolReply, IsTool

LEMMA InitTypeInv == Init => TypeInv
<1> SUFFICES ASSUME Init PROVE TypeInv
  OBVIOUS
<1>1. ControlTypeOK
  BY InitBudgetInv DEF BudgetInv
<1>2. messages \in Seq(Message)
  BY ConfigAssumption DEF Init
<1>3. fetched \in [{} -> Nat] /\ {} \in SUBSET Keys
  BY DEF Init
<1>4. \E K \in SUBSET Keys : fetched \in [K -> Nat]
  BY <1>3
<1>5. tool_calls \in Seq(Call) /\ plan \in Seq(Planned) /\ text = "none"
  BY DEF Init
<1>6. DataTypeOK
  BY <1>2, <1>4, <1>5 DEF DataTypeOK
<1> QED
  BY <1>1, <1>6 DEF Init, TypeInv, FetchedAreTools, PlanIsPartial

\* One more entry of the plan is well formed, whatever was decided for it.
LEMMA PlanType ==
  ASSUME DataTypeOK, PlanIsPartial, pc = "plan",
         NEW kind \in Kinds, NEW same_as \in Nat \X Nat, Plan(kind, same_as)
  PROVE  plan' \in Seq(Planned) /\ PlanIsPartial'
<1>1. NextCall \in Call
  BY DEF DataTypeOK, PlanIsPartial, NextCall
<1>2. [key |-> NextCall.key, id |-> NextCall.id, kind |-> kind, same_as |-> same_as] \in Planned
  BY <1>1 DEF Call, Planned
<1>3. plan' \in Seq(Planned) /\ Len(plan') = Len(plan) + 1
  BY <1>2 DEF Plan, DataTypeOK
<1>4. Len(plan) + 1 = Len(tool_calls) => pc' # "plan"
  BY DEF Plan
<1>5. tool_calls' = tool_calls /\ Len(plan) < Len(tool_calls)
  BY DEF Plan, PlanIsPartial
<1>6. Len(plan) \in Nat /\ Len(tool_calls) \in Nat
  BY DEF DataTypeOK
<1> QED
  BY <1>3, <1>4, <1>5, <1>6 DEF PlanIsPartial

\* Where the results of this step are remembered: at their tool messages.
LEMMA FetchedType ==
  ASSUME DataTypeOK, FetchedAreTools, NEW outcome \in [ToRun -> Outcomes],
         messages' = EnforceOutputBudget(messages \o Replies(outcome)),
         fetched' = Fetched(outcome)
  PROVE  /\ messages' \in Seq(Message)
         /\ \E K \in SUBSET Keys : fetched' \in [K -> Nat]
         /\ FetchedAreTools'
<1> USE DEF DataTypeOK
<1> DEFINE s == messages \o Replies(outcome)
           ReusedKeys == {plan[i].key : i \in Reusable(outcome)}
           At(key) == CHOOSE i \in Reusable(outcome) : plan[i].key = key
<1>1. /\ Replies(outcome) \in Seq(Message)
      /\ Len(Replies(outcome)) = Len(plan)
      /\ \A i \in DOMAIN plan : IsTool(Replies(outcome)[i])
  BY RepliesAreTools
<1>2. s \in Seq(Message) /\ Tools(messages) \subseteq Tools(s)
  BY <1>1, ConcatKeepsTools
<1>3. messages' \in Seq(Message) /\ Tools(s) \subseteq Tools(messages')
  BY <1>2, EnforceKeepsTools
<1>4. ASSUME NEW i \in DOMAIN plan PROVE Len(messages) + i \in Tools(s)
  <2>1. i \in 1..Len(plan) /\ Len(messages) \in Nat
    OBVIOUS
  <2>2. Len(messages) + i \in DOMAIN s /\ s[Len(messages) + i] = Replies(outcome)[i]
    BY <1>1, <2>1
  <2> QED
    BY <1>1, <2>2 DEF Tools
<1>5. \A key \in ReusedKeys : At(key) \in Reusable(outcome)
  OBVIOUS
<1>6. Reusable(outcome) \subseteq DOMAIN plan
  BY DEF Reusable, ToRun
<1>7. DOMAIN fetched' = ReusedKeys \cup DOMAIN fetched
  BY DEF Fetched
<1>8. \A key \in ReusedKeys : fetched'[key] = Len(messages) + At(key)
  BY DEF Fetched
<1>9. \A key \in DOMAIN fetched \ ReusedKeys : fetched'[key] = fetched[key]
  BY DEF Fetched
<1>10. FetchedAreTools'
  <2> SUFFICES ASSUME NEW key \in DOMAIN fetched' PROVE fetched'[key] \in Tools(messages')
    BY DEF FetchedAreTools
  <2>1. CASE key \in ReusedKeys
    <3> HIDE DEF At, ReusedKeys, s
    <3> QED
      BY <2>1, <1>3, <1>4, <1>5, <1>6, <1>8
  <2>2. CASE key \notin ReusedKeys
    BY <2>2, <1>2, <1>3, <1>7, <1>9 DEF FetchedAreTools
  <2> QED
    BY <2>1, <2>2
<1>11. DOMAIN fetched' \subseteq Keys
  <2>1. ASSUME NEW i \in DOMAIN plan PROVE plan[i].key \in Keys
    <3>1. plan[i] \in Planned
      OBVIOUS
    <3> QED
      BY <3>1 DEF Planned
  <2>2. ReusedKeys \subseteq Keys
    BY <1>6, <2>1
  <2> QED
    BY <1>7, <2>2
<1>12. \A key \in DOMAIN fetched' : fetched'[key] \in Nat
  BY <1>3, <1>10 DEF FetchedAreTools, Tools
<1>13. fetched' = [key \in DOMAIN fetched' |-> fetched'[key]]
  BY DEF Fetched
<1>14. fetched' \in [DOMAIN fetched' -> Nat]
  BY <1>12, <1>13
<1> QED
  BY <1>3, <1>10, <1>11, <1>14

LEMMA StepTypeInv == BudgetInv /\ BudgetInv' /\ TypeInv /\ [Next]_vars => TypeInv'
<1> SUFFICES ASSUME BudgetInv, BudgetInv', TypeInv, [Next]_vars PROVE TypeInv'
  OBVIOUS
<1>0. ControlTypeOK /\ ControlTypeOK'
  BY DEF BudgetInv
<1> USE DEF TypeInv, control
<1>1. CASE OutOfTime
  BY <1>0, <1>1 DEF OutOfTime, Stop, DataTypeOK, FetchedAreTools, PlanIsPartial
<1>2. CASE StartModelCall
  <2>1. messages' = messages \/ \E about \in Budgets : messages' = Append(messages, Note(about))
    BY <1>0, <1>2 DEF StartModelCall, ControlTypeOK, SpentBudget
  <2>2. messages' \in Seq(Message) /\ Tools(messages) \subseteq Tools(messages')
    BY <2>1, NoteIsMessage, AppendKeepsTools DEF DataTypeOK
  <2> QED
    BY <1>0, <1>2, <2>2 DEF StartModelCall, DataTypeOK, FetchedAreTools, PlanIsPartial
<1>3. CASE CutOffAtReserve
  <2>1. messages' \in Seq(Message) /\ Tools(messages) \subseteq Tools(messages')
    BY <1>3, NoteIsMessage, AppendKeepsTools DEF CutOffAtReserve, DataTypeOK
  <2> QED
    BY <1>0, <1>3, <2>1 DEF CutOffAtReserve, Continue, DataTypeOK, FetchedAreTools, PlanIsPartial
<1>4. CASE ModelTimesOut
  BY <1>0, <1>4 DEF ModelTimesOut, Stop, DataTypeOK, FetchedAreTools, PlanIsPartial
<1>5. CASE ModelFails
  BY <1>0, <1>5 DEF ModelFails, Stop, DataTypeOK, FetchedAreTools, PlanIsPartial
<1>6. CASE RetryTruncated
  <2>1. messages' \in Seq(Message) /\ Tools(messages) \subseteq Tools(messages')
    BY <1>6, NoteIsMessage, AppendKeepsTools DEF RetryTruncated, DataTypeOK
  <2> QED
    BY <1>0, <1>6, <2>1 DEF RetryTruncated, Continue, DataTypeOK, FetchedAreTools, PlanIsPartial
<1>7. CASE PostAnswer
  BY <1>0, <1>7 DEF PostAnswer, Stop, DataTypeOK, FetchedAreTools, PlanIsPartial
<1>8. CASE AskForTools
  <2>a. PICK n \in 1..MaxCallsPerReply : \E keys \in [1..n -> Keys] :
          tool_calls' = [i \in 1..n |-> [key |-> keys[i], id |-> <<iteration, i>>]]
    BY <1>8 DEF AskForTools
  <2>1. PICK keys \in [1..n -> Keys] :
          tool_calls' = [i \in 1..n |-> [key |-> keys[i], id |-> <<iteration, i>>]]
    BY <2>a
  <2>2. tool_calls' \in Seq(Call) /\ Len(tool_calls') = n
    BY <1>0, <2>1, ConfigAssumption DEF ControlTypeOK, Call
  <2>3. [role |-> "assistant", calls |-> tool_calls'] \in Message
    BY <2>2 DEF Message, Assistant
  <2>4. messages' \in Seq(Message) /\ Tools(messages) \subseteq Tools(messages')
    BY <1>8, <2>3, AppendKeepsTools DEF AskForTools, DataTypeOK
  <2> QED
    BY <1>0, <1>8, <2>2, <2>4, ConfigAssumption
    DEF AskForTools, DataTypeOK, FetchedAreTools, PlanIsPartial
<1>9. CASE PlanRepeat
  <2>1. PICK same_as \in Nat \X Nat : Plan("repeat", same_as)
    <3>1. CASE HaveResult(NextCall.key) /\ Plan("repeat", messages[fetched[NextCall.key]].id)
      <4>1. fetched[NextCall.key] \in Tools(messages)
        BY <3>1 DEF HaveResult, FetchedAreTools
      <4>2. messages[fetched[NextCall.key]] \in ToolReply
        BY <4>1, ToolMessage DEF Tools, DataTypeOK
      <4>3. messages[fetched[NextCall.key]].id \in Nat \X Nat
        BY <4>2 DEF ToolReply
      <4> QED
        BY <3>1, <4>3
    <3>2. CASE \E i \in FirstInStep(NextCall.key) : Plan("repeat", plan[i].id)
      <4>1. PICK i \in FirstInStep(NextCall.key) : Plan("repeat", plan[i].id)
        BY <3>2
      <4>2. plan[i] \in Planned
        BY <4>1 DEF FirstInStep, DataTypeOK
      <4>3. plan[i].id \in Nat \X Nat
        BY <4>2 DEF Planned
      <4> QED
        BY <4>1, <4>3
    <3> QED
      BY <1>9, <3>1, <3>2 DEF PlanRepeat
  <2>2. plan' \in Seq(Planned) /\ PlanIsPartial'
    BY <1>9, <2>1, PlanType DEF PlanRepeat, Kinds
  <2> QED
    BY <1>0, <1>9, <2>1, <2>2 DEF PlanRepeat, Plan, DataTypeOK, FetchedAreTools
<1>10. CASE PlanRun
  <2>1. plan' \in Seq(Planned) /\ PlanIsPartial'
    BY <1>10, PlanType DEF PlanRun, Kinds, NoId
  <2> QED
    BY <1>0, <1>10, <2>1 DEF PlanRun, Plan, DataTypeOK, FetchedAreTools
<1>11. CASE PlanOverBudget
  <2>1. plan' \in Seq(Planned) /\ PlanIsPartial'
    BY <1>11, PlanType DEF PlanOverBudget, Kinds, NoId
  <2> QED
    BY <1>0, <1>11, <2>1 DEF PlanOverBudget, Plan, DataTypeOK, FetchedAreTools
<1>12. CASE ShowProgress
  BY <1>0, <1>12 DEF ShowProgress, DataTypeOK, FetchedAreTools, PlanIsPartial
<1>13. CASE FinishTools
  <2>1. PICK outcome \in [ToRun -> Outcomes] :
          /\ messages' = EnforceOutputBudget(messages \o Replies(outcome))
          /\ fetched' = Fetched(outcome)
    BY <1>13 DEF FinishTools
  <2>2. /\ messages' \in Seq(Message)
        /\ \E K \in SUBSET Keys : fetched' \in [K -> Nat]
        /\ FetchedAreTools'
    BY <2>1, FetchedType
  <2> QED
    BY <1>0, <1>13, <2>2 DEF FinishTools, Continue, DataTypeOK, PlanIsPartial
<1>14. CASE LoopRaises
  BY <1>0, <1>14 DEF
     LoopRaises, OddReply, CannotKey, DispatchRaises, DataTypeOK, FetchedAreTools, PlanIsPartial
<1>15. CASE UNCHANGED vars
  BY <1>0, <1>15 DEF vars, DataTypeOK, FetchedAreTools, PlanIsPartial
<1> QED
  BY <1>1, <1>2, <1>3, <1>4, <1>5, <1>6, <1>7, <1>8, <1>9, <1>10, <1>11, <1>12,
     <1>13, <1>14, <1>15 DEF Next, Step, TurnOver

LEMMA TypeInvariant == Spec => []TypeInv
BY InitTypeInv, StepTypeInv, BudgetInvariant, PTL DEF Spec

\* Every variable keeps its type, the conversation included: blanking a result
\* leaves a tool message where the loop remembers one.
THEOREM TypeCorrect == Spec => []TypeOK
<1>1. TypeInv => TypeOK
  BY DEF TypeInv, ControlTypeOK, DataTypeOK, TypeOK
<1> QED
  BY <1>1, TypeInvariant, PTL

----------------------------------------------------------------------------
(* The conversation.  A step adds to it and may blank results, so what the *)
(* loop relies on is carried from one conversation to the next: which      *)
(* messages answer which calls, and which are runs of this turn.           *)

\* t is s with some of its results blanked and with notes after it.
Reworded(s, t) ==
  /\ t \in Seq(Message)
  /\ Len(s) <= Len(t)
  /\ \A i \in 1..Len(s) : t[i] = s[i] \/ (IsTool(s[i]) /\ t[i] = Blanked(s[i]))
  /\ \A i \in DOMAIN t : i > Len(s) => t[i].role = "system"

\* The calls in the first n messages of s are each followed by their replies.
Answered(s, n) ==
  \A i \in 1..n : s[i].role = "assistant" =>
    \A j \in DOMAIN s[i].calls :
      i + j \in DOMAIN s /\ IsTool(s[i + j]) /\ s[i + j].id = s[i].calls[j].id

OwnRuns(s) == {i \in Tools(s) : s[i].id[1] > 0 /\ s[i].kind = "run"}

\* The repeats of this turn in s point at runs of it before them.
RepeatsPointAtRuns(s) ==
  \A i \in Tools(s) : s[i].id[1] > 0 /\ s[i].kind = "repeat" =>
    \E j \in OwnRuns(s) :
      /\ j < i /\ s[j].id = s[i].same_as /\ s[j].key = s[i].key
      /\ s[j].ok \/ s[j].id[1] = s[i].id[1]

LEMMA SameReworded ==
  ASSUME NEW s \in Seq(Message)
  PROVE  Reworded(s, s)
BY DEF Reworded

LEMMA NoteReworded ==
  ASSUME NEW s \in Seq(Message), NEW about \in Budgets \cup {"truncated", "dropped"}
  PROVE  Reworded(s, Append(s, Note(about)))
<1>1. Note(about) \in Message /\ Note(about).role = "system"
  BY NoteIsMessage DEF Note
<1> QED
  BY <1>1 DEF Reworded

\* What _enforce_output_budget does is no more than that.
LEMMA EnforceReworded ==
  ASSUME NEW s \in Seq(Message)
  PROVE  Reworded(s, EnforceOutputBudget(s))
<1> DEFINE b == Blank(s, ToDrop(s))
<1>1. EnforceOutputBudget(s) \in Seq(Message)
  BY EnforceKeepsTools
<1>2. ToDrop(s) \in SUBSET Tools(s)
  BY DEF ToDrop
<1>3. b \in Seq(Message) /\ Len(b) = Len(s)
  BY <1>2, BlankKeepsTools DEF Blank
<1>4. \A i \in 1..Len(s) : b[i] = s[i] \/ (IsTool(s[i]) /\ b[i] = Blanked(s[i]))
  BY <1>2 DEF Blank, Tools
<1>5. CASE ToDrop(s) = {}
  BY <1>5, SameReworded DEF EnforceOutputBudget
<1>6. CASE ToDrop(s) # {}
  <2>1. EnforceOutputBudget(s) = Append(b, Note("dropped"))
    BY <1>6 DEF EnforceOutputBudget
  <2>2. Note("dropped").role = "system"
    BY DEF Note
  <2> HIDE DEF b
  <2> QED
    BY <1>1, <1>3, <1>4, <2>1, <2>2 DEF Reworded
<1> QED
  BY <1>5, <1>6

\* Rewording keeps the role of a message, and all of a result but its text.
LEMMA RewordedMessage ==
  ASSUME NEW s \in Seq(Message), NEW t, Reworded(s, t), NEW i \in 1..Len(s)
  PROVE  /\ i \in DOMAIN t
         /\ t[i].role = s[i].role
         /\ ~IsTool(s[i]) => t[i] = s[i]
         /\ IsTool(s[i]) =>
              /\ t[i].key = s[i].key /\ t[i].id = s[i].id /\ t[i].kind = s[i].kind
              /\ t[i].same_as = s[i].same_as /\ t[i].ok = s[i].ok
<1>1. t[i] = s[i] \/ (IsTool(s[i]) /\ t[i] = Blanked(s[i]))
  BY DEF Reworded
<1>2. i \in DOMAIN t
  <2>1. Len(s) \in Nat /\ Len(t) \in Nat /\ DOMAIN t = 1..Len(t) /\ Len(s) <= Len(t)
    BY DEF Reworded
  <2> QED
    BY <2>1
<1>3. CASE t[i] = s[i]
  BY <1>2, <1>3
<1>4. CASE IsTool(s[i]) /\ t[i] = Blanked(s[i])
  BY <1>2, <1>4 DEF Blanked, IsTool
<1> QED
  BY <1>1, <1>3, <1>4

\* Hence it adds no result and takes none away,
LEMMA RewordedTools ==
  ASSUME NEW s \in Seq(Message), NEW t, Reworded(s, t)
  PROVE  Tools(t) = Tools(s) /\ OwnRuns(t) = OwnRuns(s)
<1>1. DOMAIN s = 1..Len(s) /\ DOMAIN t = 1..Len(t) /\ Len(s) \in Nat /\ Len(t) \in Nat
  BY DEF Reworded
<1>2. \A i \in DOMAIN t : IsTool(t[i]) <=> i \in DOMAIN s /\ IsTool(s[i])
  <2>1. ASSUME NEW i \in DOMAIN t, i \notin DOMAIN s PROVE ~IsTool(t[i])
    BY <1>1, <2>1 DEF Reworded, IsTool
  <2> QED
    BY <1>1, <2>1, RewordedMessage DEF IsTool
<1>3. Tools(t) = Tools(s)
  BY <1>1, <1>2, RewordedMessage DEF Tools
<1> QED
  BY <1>1, <1>3, RewordedMessage DEF OwnRuns, Tools

\* leaves every call answered that was,
LEMMA RewordedAnswered ==
  ASSUME NEW s \in Seq(Message), NEW t, Reworded(s, t), Answered(s, Len(s))
  PROVE  Answered(t, Len(t))
<1>1. DOMAIN s = 1..Len(s) /\ DOMAIN t = 1..Len(t) /\ Len(s) \in Nat /\ Len(t) \in Nat
  BY DEF Reworded
<1> SUFFICES ASSUME NEW i \in 1..Len(t), t[i].role = "assistant", NEW j \in DOMAIN t[i].calls
             PROVE  i + j \in DOMAIN t /\ IsTool(t[i + j]) /\ t[i + j].id = t[i].calls[j].id
  BY DEF Answered
<1>2. i \in 1..Len(s)
  BY <1>1 DEF Reworded
<1>3. t[i] = s[i]
  BY <1>2, RewordedMessage DEF IsTool
<1>4. i + j \in DOMAIN s /\ IsTool(s[i + j]) /\ s[i + j].id = s[i].calls[j].id
  BY <1>2, <1>3 DEF Answered
<1>5. i + j \in DOMAIN t /\ t[i + j].role = s[i + j].role /\ t[i + j].id = s[i + j].id
  BY <1>1, <1>4, RewordedMessage
<1> QED
  BY <1>3, <1>4, <1>5 DEF IsTool

\* and every repeat pointing at its run.
LEMMA RewordedRepeats ==
  ASSUME NEW s \in Seq(Message), NEW t, Reworded(s, t), RepeatsPointAtRuns(s)
  PROVE  RepeatsPointAtRuns(t)
<1>1. Tools(t) = Tools(s) /\ OwnRuns(t) = OwnRuns(s) /\ OwnRuns(s) \subseteq Tools(s)
  BY RewordedTools DEF OwnRuns
<1>2. \A i \in Tools(s) : i \in 1..Len(s) /\ IsTool(s[i])
  BY DEF Tools
<1> SUFFICES ASSUME NEW i \in Tools(s), t[i].id[1] > 0, t[i].kind = "repeat"
             PROVE  \E j \in OwnRuns(s) :
                      /\ j < i /\ t[j].id = t[i].same_as /\ t[j].key = t[i].key
                      /\ t[j].ok \/ t[j].id[1] = t[i].id[1]
  BY <1>1 DEF RepeatsPointAtRuns
<1>3. /\ t[i].key = s[i].key /\ t[i].id = s[i].id /\ t[i].kind = s[i].kind
      /\ t[i].same_as = s[i].same_as
  BY <1>2, RewordedMessage
<1>4. PICK j \in OwnRuns(s) :
        /\ j < i /\ s[j].id = s[i].same_as /\ s[j].key = s[i].key
        /\ s[j].ok \/ s[j].id[1] = s[i].id[1]
  BY <1>3 DEF RepeatsPointAtRuns
<1>5. t[j].key = s[j].key /\ t[j].id = s[j].id /\ t[j].ok = s[j].ok
  BY <1>1, <1>2, RewordedMessage
<1> QED
  BY <1>3, <1>4, <1>5

----------------------------------------------------------------------------
(* The invariant of the conversation: what is planned belongs to the calls *)
(* being handled, repeats are planned only of runs that are known, and     *)
(* each run was charged once, when it was planned.                         *)

PlanMatches ==
  /\ \A i \in DOMAIN plan :
       /\ i \in DOMAIN tool_calls
       /\ plan[i].id = tool_calls[i].id /\ plan[i].key = tool_calls[i].key
  /\ \A i \in DOMAIN tool_calls : tool_calls[i].id = <<iteration, i>>
  /\ pc \in {"progress", "tools"} => Len(plan) = Len(tool_calls)
  /\ pc \in {"top", "model"} => plan = <<>> /\ tool_calls = <<>>

FetchedAreRuns ==
  \A key \in DOMAIN fetched :
    /\ fetched[key] \in OwnRuns(messages)
    /\ messages[fetched[key]].key = key /\ messages[fetched[key]].ok

RepeatsAreOfRuns ==
  \A i \in DOMAIN plan : plan[i].kind = "repeat" =>
    \/ \E j \in ToRun : j < i /\ plan[j].id = plan[i].same_as /\ plan[j].key = plan[i].key
    \/ \E j \in OwnRuns(messages) :
         messages[j].id = plan[i].same_as /\ messages[j].key = plan[i].key /\ messages[j].ok

RunsAreCharged == calls_made = Cardinality(OwnRuns(messages)) + Cardinality(ToRun)

TranscriptInv ==
  /\ PlanMatches /\ FetchedAreRuns /\ RepeatsAreOfRuns /\ RunsAreCharged
  /\ RepeatsPointAtRuns(messages)

\* While calls are handled, the last message is the one that makes them.
CallsAnswered ==
  /\ pc \in {"top", "model", "done"} => Answered(messages, Len(messages))
  /\ pc \in {"plan", "progress", "tools"} =>
       /\ Len(messages) > 0
       /\ messages[Len(messages)] = [role |-> "assistant", calls |-> tool_calls]
       /\ Answered(messages, Len(messages) - 1)

LEMMA RunsFinite ==
  ASSUME NEW s \in Seq(Message)
  PROVE  IsFiniteSet(OwnRuns(s))
<1>1. IsFiniteSet(1..Len(s))
  BY FS_Interval
<1>2. OwnRuns(s) \in SUBSET (1..Len(s))
  BY DEF OwnRuns, Tools
<1> QED
  BY <1>1, <1>2, FS_Subset

LEMMA ToRunFinite ==
  ASSUME plan \in Seq(Planned)
  PROVE  IsFiniteSet(ToRun) /\ ToRun \subseteq 1..Len(plan)
<1>1. IsFiniteSet(1..Len(plan))
  BY FS_Interval
<1>2. ToRun \in SUBSET (1..Len(plan))
  BY DEF ToRun
<1> QED
  BY <1>1, <1>2, FS_Subset

LEMMA InitTranscript == Init => TranscriptInv
<1> SUFFICES ASSUME Init PROVE TranscriptInv
  OBVIOUS
<1> USE DEF Init
<1>1. messages \in Seq(Message)
  BY ConfigAssumption
<1>2. \A i \in Tools(messages) : messages[i].id[1] = 0
  BY CarriedAssumption DEF Tools, IsTool
<1>3. OwnRuns(messages) = {} /\ RepeatsPointAtRuns(messages)
  BY <1>2 DEF OwnRuns, RepeatsPointAtRuns
<1>4. ToRun = {}
  BY DEF ToRun
<1>5. RunsAreCharged
  BY <1>3, <1>4, FS_EmptySet DEF RunsAreCharged
<1> QED
  BY <1>3, <1>5 DEF TranscriptInv, PlanMatches, FetchedAreRuns, RepeatsAreOfRuns

\* A step that plans nothing and runs nothing: the conversation is reworded.
Quiet ==
  /\ Reworded(messages, messages')
  /\ UNCHANGED <<calls_made, fetched, tool_calls, plan>>
  /\ PlanMatches'

LEMMA QuietKeepsTranscript ==
  ASSUME messages \in Seq(Message), TranscriptInv, Quiet
  PROVE  TranscriptInv'
<1> USE DEF Quiet
<1>1. OwnRuns(messages') = OwnRuns(messages) /\ RepeatsPointAtRuns(messages')
  BY RewordedTools, RewordedRepeats DEF TranscriptInv
<1>2. \A j \in OwnRuns(messages) :
        /\ messages'[j].id = messages[j].id /\ messages'[j].key = messages[j].key
        /\ messages'[j].ok = messages[j].ok
  <2>1. \A j \in OwnRuns(messages) : j \in 1..Len(messages) /\ IsTool(messages[j])
    BY DEF OwnRuns, Tools
  <2> QED
    BY <2>1, RewordedMessage
<1>3. ToRun' = ToRun
  BY DEF ToRun
<1>4. RunsAreCharged'
  BY <1>1, <1>3 DEF RunsAreCharged, TranscriptInv
<1>5. FetchedAreRuns'
  BY <1>1, <1>2 DEF FetchedAreRuns, TranscriptInv
<1>6. RepeatsAreOfRuns'
  BY <1>1, <1>2, <1>3 DEF RepeatsAreOfRuns, TranscriptInv
<1> QED
  BY <1>1, <1>4, <1>5, <1>6 DEF TranscriptInv

\* Most steps are of that kind.
LEMMA QuietOrHandlesCalls ==
  ASSUME BudgetInv, TypeInv, TranscriptInv, [Next]_vars
  PROVE  \/ Quiet
         \/ AskForTools \/ PlanRepeat \/ PlanRun \/ PlanOverBudget \/ FinishTools
<1>0. messages \in Seq(Message) /\ Reworded(messages, messages)
  BY SameReworded DEF TypeInv, DataTypeOK
<1>1. PlanMatches
  BY DEF TranscriptInv
<1> USE DEF control
<1>2. ASSUME UNCHANGED <<messages, calls_made, fetched, tool_calls, plan, iteration>>,
             pc' # pc => pc' \in {"done", "raised"} \/ (pc = "progress" /\ pc' = "tools")
                       \/ (pc = "top" /\ pc' = "model")
      PROVE  Quiet
  BY <1>0, <1>1, <1>2 DEF Quiet, PlanMatches
<1>3. CASE OutOfTime \/ ModelTimesOut \/ ModelFails \/ PostAnswer
  BY <1>2, <1>3 DEF OutOfTime, ModelTimesOut, ModelFails, PostAnswer, Stop
<1>4. CASE ShowProgress \/ LoopRaises
  BY <1>2, <1>4 DEF ShowProgress, LoopRaises, OddReply, CannotKey, DispatchRaises
<1>5. CASE UNCHANGED vars
  BY <1>2, <1>5 DEF vars
<1>6. CASE StartModelCall
  <2>1. messages' = messages \/ \E about \in Budgets : messages' = Append(messages, Note(about))
    BY <1>6 DEF StartModelCall, SpentBudget, BudgetInv, ControlTypeOK
  <2>2. Reworded(messages, messages')
    BY <1>0, <2>1, NoteReworded
  <2> QED
    BY <1>1, <1>6, <2>2 DEF StartModelCall, Quiet, PlanMatches
<1>7. CASE CutOffAtReserve
  <2>1. Reworded(messages, messages')
    BY <1>0, <1>7, NoteReworded DEF CutOffAtReserve
  <2> QED
    BY <1>1, <1>7, <2>1 DEF CutOffAtReserve, Continue, Quiet, PlanMatches
<1>8. CASE RetryTruncated
  <2>1. Reworded(messages, messages')
    BY <1>0, <1>8, NoteReworded DEF RetryTruncated
  <2> QED
    BY <1>1, <1>8, <2>1 DEF RetryTruncated, Continue, Quiet, PlanMatches
<1> QED
  BY <1>3, <1>4, <1>5, <1>6, <1>7, <1>8 DEF Next, Step, TurnOver

LEMMA AppendRuns ==
  ASSUME NEW s \in Seq(Message), NEW m \in Message, ~IsTool(m)
  PROVE  /\ OwnRuns(Append(s, m)) = OwnRuns(s)
         /\ RepeatsPointAtRuns(s) => RepeatsPointAtRuns(Append(s, m))
<1>1. Tools(Append(s, m)) = Tools(s)
  BY DEF Tools
<1>2. \A i \in Tools(s) : Append(s, m)[i] = s[i]
  BY DEF Tools
<1>3. OwnRuns(Append(s, m)) = OwnRuns(s) /\ OwnRuns(s) \subseteq Tools(s)
  BY <1>1, <1>2 DEF OwnRuns
<1> DEFINE t == Append(s, m)
<1> HIDE DEF t
<1>4. ASSUME RepeatsPointAtRuns(s), NEW i \in Tools(s), t[i].id[1] > 0, t[i].kind = "repeat"
      PROVE  \E j \in OwnRuns(s) :
               /\ j < i /\ t[j].id = t[i].same_as /\ t[j].key = t[i].key
               /\ t[j].ok \/ t[j].id[1] = t[i].id[1]
  <2>1. t[i] = s[i] /\ \A j \in OwnRuns(s) : t[j] = s[j]
    BY <1>2, <1>3 DEF t
  <2> QED
    BY <1>4, <2>1 DEF RepeatsPointAtRuns
<1>5. Tools(t) = Tools(s) /\ OwnRuns(t) = OwnRuns(s)
  BY <1>1, <1>3 DEF t
<1>6. RepeatsPointAtRuns(s) => RepeatsPointAtRuns(t)
  BY <1>4, <1>5 DEF RepeatsPointAtRuns
<1> QED
  BY <1>3, <1>6 DEF t

LEMMA AskKeepsTranscript ==
  ASSUME ControlTypeOK, TypeInv, TranscriptInv, AskForTools
  PROVE  TranscriptInv'
<1>0. messages \in Seq(Message)
  BY DEF TypeInv, DataTypeOK
<1>1. plan = <<>>
  BY DEF TranscriptInv, PlanMatches, AskForTools
<1>2. PICK n \in 1..MaxCallsPerReply : \E keys \in [1..n -> Keys] :
        tool_calls' = [i \in 1..n |-> [key |-> keys[i], id |-> <<iteration, i>>]]
  BY DEF AskForTools
<1>3. PICK keys \in [1..n -> Keys] :
        tool_calls' = [i \in 1..n |-> [key |-> keys[i], id |-> <<iteration, i>>]]
  BY <1>2
<1>4. tool_calls' \in Seq(Call) /\ \A i \in DOMAIN tool_calls' : tool_calls'[i].id = <<iteration, i>>
  BY <1>3, ConfigAssumption DEF ControlTypeOK, Call
<1> DEFINE m == [role |-> "assistant", calls |-> tool_calls']
<1>5. m \in Message /\ ~IsTool(m)
  BY <1>4 DEF Message, Assistant, IsTool
<1>6. messages' = Append(messages, m) /\ plan' = <<>> /\ pc' = "plan"
      /\ UNCHANGED <<iteration, calls_made, fetched>>
  BY DEF AskForTools
<1> HIDE DEF m
<1>7. OwnRuns(messages') = OwnRuns(messages) /\ RepeatsPointAtRuns(messages')
  BY <1>0, <1>5, <1>6, AppendRuns DEF TranscriptInv
<1>8. \A j \in OwnRuns(messages) : messages'[j] = messages[j]
  BY <1>0, <1>5, <1>6 DEF OwnRuns, Tools
<1>9. ToRun = {} /\ ToRun' = {}
  BY <1>1, <1>6 DEF ToRun
<1>10. RunsAreCharged'
  BY <1>6, <1>7, <1>9 DEF TranscriptInv, RunsAreCharged
<1>11. FetchedAreRuns'
  BY <1>6, <1>7, <1>8 DEF TranscriptInv, FetchedAreRuns
<1>12. PlanMatches' /\ RepeatsAreOfRuns'
  BY <1>4, <1>6 DEF PlanMatches, RepeatsAreOfRuns
<1> QED
  BY <1>7, <1>10, <1>11, <1>12 DEF TranscriptInv

\* One more call decided on.  A repeat needs a run it may be pointed at.
LEMMA PlanKeepsTranscript ==
  ASSUME TypeInv, TranscriptInv, pc = "plan",
         NEW kind \in Kinds, NEW same_as, Plan(kind, same_as),
         calls_made' = calls_made + (IF kind = "run" THEN 1 ELSE 0),
         kind = "repeat" =>
           \/ \E j \in ToRun : plan[j].id = same_as /\ plan[j].key = NextCall.key
           \/ \E j \in OwnRuns(messages) :
                messages[j].id = same_as /\ messages[j].key = NextCall.key /\ messages[j].ok
  PROVE  TranscriptInv'
<1> DEFINE n == Len(plan) + 1
           entry == [key |-> NextCall.key, id |-> NextCall.id, kind |-> kind, same_as |-> same_as]
<1>1. /\ plan \in Seq(Planned) /\ tool_calls \in Seq(Call) /\ messages \in Seq(Message)
      /\ calls_made \in Nat
      /\ Len(plan) < Len(tool_calls)
  BY DEF TypeInv, DataTypeOK, PlanIsPartial, ControlTypeOK
<1>2. plan' = Append(plan, entry) /\ UNCHANGED <<iteration, messages, fetched, tool_calls>>
      /\ pc' \in {"plan", "progress"} /\ (pc' = "progress" => n = Len(tool_calls))
  BY <1>1 DEF Plan
<1>3. entry.key = NextCall.key /\ NextCall.key = tool_calls[n].key /\ entry.id = tool_calls[n].id
      /\ entry.kind = kind /\ entry.same_as = same_as
  BY DEF NextCall
<1>4. DOMAIN plan' = 1..n /\ plan'[n] = entry /\ Len(plan') = n
      /\ \A i \in DOMAIN plan : i \in 1..n /\ i < n /\ plan'[i] = plan[i]
  BY <1>1, <1>2
<1>5. DOMAIN plan = 1..Len(plan) /\ n \in DOMAIN tool_calls /\ Len(plan) \in Nat
  BY <1>1
<1>6. \A i \in 1..n : i = n \/ i \in DOMAIN plan
  BY <1>5
<1> HIDE DEF entry
<1>7. PlanMatches'
  <2>1. PlanMatches
    BY DEF TranscriptInv
  <2>2. \A i \in DOMAIN plan' :
          i \in DOMAIN tool_calls /\ plan'[i].id = tool_calls[i].id /\ plan'[i].key = tool_calls[i].key
    BY <2>1, <1>3, <1>4, <1>5, <1>6 DEF PlanMatches
  <2> QED
    BY <2>1, <2>2, <1>2, <1>4 DEF PlanMatches
<1>8. ToRun' = IF kind = "run" THEN ToRun \cup {n} ELSE ToRun
  BY <1>3, <1>4, <1>5, <1>6 DEF ToRun
<1>9. n \notin ToRun
  BY <1>5 DEF ToRun
<1>10. RunsAreCharged'
  <2>1. IsFiniteSet(ToRun) /\ Cardinality(ToRun) \in Nat
    BY <1>1, ToRunFinite, FS_CardinalityType
  <2>2. Cardinality(OwnRuns(messages)) \in Nat
    BY <1>1, RunsFinite, FS_CardinalityType
  <2>3. Cardinality(ToRun \cup {n}) = Cardinality(ToRun) + 1
    BY <2>1, <1>9, FS_AddElement
  <2> QED
    BY <2>1, <2>2, <2>3, <1>2, <1>8 DEF TranscriptInv, RunsAreCharged
<1>11. FetchedAreRuns' /\ RepeatsPointAtRuns(messages')
  BY <1>2 DEF TranscriptInv, FetchedAreRuns
<1>12. RepeatsAreOfRuns'
  <2> SUFFICES ASSUME NEW i \in 1..n, plan'[i].kind = "repeat"
               PROVE  \/ \E j \in ToRun' : /\ j < i /\ plan'[j].id = plan'[i].same_as
                                          /\ plan'[j].key = plan'[i].key
                      \/ \E j \in OwnRuns(messages) :
                           /\ messages[j].id = plan'[i].same_as
                           /\ messages[j].key = plan'[i].key /\ messages[j].ok
    BY <1>2, <1>4 DEF RepeatsAreOfRuns
  <2>1. ToRun \subseteq ToRun' /\ \A j \in ToRun : plan'[j] = plan[j] /\ j < n
    BY <1>4, <1>8 DEF ToRun
  <2>2. CASE i = n
    BY <2>1, <2>2, <1>3, <1>4
  <2>3. CASE i \in DOMAIN plan
    <3>1. plan'[i] = plan[i]
      BY <2>3, <1>4
    <3> QED
      BY <2>1, <2>3, <3>1 DEF TranscriptInv, RepeatsAreOfRuns
  <2> QED
    BY <2>2, <2>3, <1>6
<1> QED
  BY <1>7, <1>10, <1>11, <1>12 DEF TranscriptInv

LEMMA PlanStepKeepsTranscript ==
  ASSUME TypeInv, TranscriptInv, PlanRepeat \/ PlanRun \/ PlanOverBudget
  PROVE  TranscriptInv'
<1>0. calls_made \in Nat
  BY DEF TypeInv, ControlTypeOK
<1>1. CASE PlanRun
  BY <1>0, <1>1, PlanKeepsTranscript DEF PlanRun, Kinds
<1>2. CASE PlanOverBudget
  BY <1>0, <1>2, PlanKeepsTranscript DEF PlanOverBudget, Kinds
<1>3. CASE PlanRepeat
  <2> DEFINE key == NextCall.key
  <2>1. CASE HaveResult(key) /\ Plan("repeat", messages[fetched[key]].id)
    <3>1. /\ fetched[key] \in OwnRuns(messages)
          /\ messages[fetched[key]].key = key /\ messages[fetched[key]].ok
      BY <2>1 DEF HaveResult, TranscriptInv, FetchedAreRuns
    <3> QED
      BY <1>0, <1>3, <2>1, <3>1, PlanKeepsTranscript DEF PlanRepeat, Kinds
  <2>2. ASSUME NEW i \in FirstInStep(key), Plan("repeat", plan[i].id)
        PROVE  TranscriptInv'
    <3>1. i \in ToRun /\ plan[i].key = key
      BY DEF FirstInStep, ToRun
    <3> QED
      BY <1>0, <1>3, <2>2, <3>1, PlanKeepsTranscript DEF PlanRepeat, Kinds
  <2> QED
    BY <1>3, <2>1, <2>2 DEF PlanRepeat
<1> QED
  BY <1>1, <1>2, <1>3

LEMMA Concatenation ==
  ASSUME NEW S, NEW a \in Seq(S), NEW b \in Seq(S)
  PROVE  /\ a \o b \in Seq(S) /\ DOMAIN (a \o b) = 1..(Len(a) + Len(b))
         /\ \A i \in DOMAIN a : (a \o b)[i] = a[i]
         /\ \A i \in 1..Len(b) : (a \o b)[Len(a) + i] = b[i]
OBVIOUS

\* The conversation with the replies of this step, before any is dropped.
LEMMA RepliesFollow ==
  ASSUME TypeInv, NEW outcome \in [ToRun -> Outcomes], NEW s, s = messages \o Replies(outcome)
  PROVE  /\ messages \in Seq(Message) /\ plan \in Seq(Planned) /\ s \in Seq(Message)
         /\ DOMAIN s = 1..(Len(messages) + Len(plan))
         /\ \A i \in DOMAIN messages : s[i] = messages[i]
         /\ \A i \in DOMAIN plan : s[Len(messages) + i] = Reply(i, outcome)
         /\ \A i \in DOMAIN s : i \in DOMAIN messages \/ i - Len(messages) \in DOMAIN plan
<1>1. messages \in Seq(Message) /\ plan \in Seq(Planned)
  BY DEF TypeInv, DataTypeOK
<1>2. Replies(outcome) \in Seq(Message) /\ Len(Replies(outcome)) = Len(plan)
  BY <1>1, RepliesAreTools
<1>3. \A i \in DOMAIN plan : Replies(outcome)[i] = Reply(i, outcome)
  BY DEF Replies
<1>4. /\ s \in Seq(Message) /\ DOMAIN s = 1..(Len(messages) + Len(plan))
      /\ \A i \in DOMAIN messages : s[i] = messages[i]
      /\ \A i \in DOMAIN plan : s[Len(messages) + i] = Replies(outcome)[i]
  <2> DEFINE r == Replies(outcome)
  <2>1. r \in Seq(Message) /\ Len(r) = Len(plan) /\ DOMAIN plan = 1..Len(r)
    BY <1>1, <1>2
  <2>2. s = messages \o r
    OBVIOUS
  <2> HIDE DEF r
  <2>3. s \in Seq(Message) /\ DOMAIN s = 1..(Len(messages) + Len(r))
    <3>1. /\ messages \o r \in Seq(Message)
          /\ DOMAIN (messages \o r) = 1..(Len(messages) + Len(r))
      BY ONLY <1>1, <2>1, Concatenation
    <3> QED
      BY <2>2, <3>1
  <2>4. \A i \in DOMAIN messages : s[i] = messages[i]
    BY <1>1, <2>1, <2>2, Concatenation
  <2>5. \A i \in 1..Len(r) : s[Len(messages) + i] = r[i]
    BY <1>1, <2>1, <2>2, Concatenation
  <2>6. DOMAIN s = 1..(Len(messages) + Len(plan))
    BY <2>1, <2>3
  <2>7. \A i \in DOMAIN plan : s[Len(messages) + i] = r[i]
    BY <2>1, <2>5
  <2> QED
    BY <2>3, <2>4, <2>6, <2>7 DEF r
<1>5. Len(messages) \in Nat /\ Len(plan) \in Nat
      /\ DOMAIN messages = 1..Len(messages) /\ DOMAIN plan = 1..Len(plan)
  BY <1>1
<1>6. /\ s \in Seq(Message) /\ DOMAIN s = 1..(Len(messages) + Len(plan))
      /\ \A i \in DOMAIN messages : s[i] = messages[i]
      /\ \A i \in DOMAIN plan : s[Len(messages) + i] = Reply(i, outcome)
  BY <1>2, <1>3, <1>4
<1>7. \A i \in DOMAIN s : i \in DOMAIN messages \/ i - Len(messages) \in DOMAIN plan
  BY <1>5, <1>6
<1> QED
  BY <1>1, <1>6, <1>7

LEMMA ShiftedCardinality ==
  ASSUME NEW S \in SUBSET Nat, IsFiniteSet(S), NEW n \in Nat
  PROVE  LET T == {n + i : i \in S} IN IsFiniteSet(T) /\ Cardinality(T) = Cardinality(S)
<1> DEFINE T == {n + i : i \in S}
           f == [i \in S |-> n + i]
<1>1. f \in [S -> T]
  OBVIOUS
<1>2. \A i, j \in S : f[i] = f[j] => i = j
  OBVIOUS
<1>3. \A t \in T : \E i \in S : f[i] = t
  OBVIOUS
<1> HIDE DEF f, T
<1>4. f \in Bijection(S, T)
  BY <1>1, <1>2, <1>3 DEF Bijection, Injection, Surjection, IsInjective
<1>5. ExistsBijection(S, T)
  BY <1>4 DEF ExistsBijection
<1>6. IsFiniteSet(T) /\ Cardinality(T) = Cardinality(S)
  BY <1>5, FS_Bijection
<1> QED
  BY <1>6 DEF T

\* What a step adds to the conversation: one reply a call, before any is dropped.
LEMMA FinishAdds ==
  ASSUME ControlTypeOK, TypeInv, TranscriptInv, NEW outcome \in [ToRun -> Outcomes],
         messages' = EnforceOutputBudget(messages \o Replies(outcome))
  PROVE  LET s == messages \o Replies(outcome)
             n == Len(messages)
         IN  /\ s \in Seq(Message) /\ Reworded(s, messages')
             /\ OwnRuns(s) = OwnRuns(messages) \cup {n + i : i \in ToRun}
             /\ OwnRuns(messages) \cap {n + i : i \in ToRun} = {}
             /\ \A i \in DOMAIN messages : s[i] = messages[i]
             /\ \A i \in DOMAIN plan :
                  /\ n + i \in DOMAIN s /\ n + i \notin DOMAIN messages
                  /\ IsTool(s[n + i]) /\ s[n + i].id = <<iteration, i>>
                  /\ s[n + i].key = plan[i].key /\ s[n + i].kind = plan[i].kind
                  /\ s[n + i].same_as = plan[i].same_as
                  /\ s[n + i].ok = (i \in ToRun /\ outcome[i].ok)
             /\ \A i \in DOMAIN s : i \in DOMAIN messages \/ \E k \in DOMAIN plan : i = n + k
<1> DEFINE s == messages \o Replies(outcome)
           n == Len(messages)
           added == {n + i : i \in ToRun}
<1>2. /\ messages \in Seq(Message) /\ plan \in Seq(Planned) /\ s \in Seq(Message)
      /\ DOMAIN s = 1..(n + Len(plan))
      /\ \A i \in DOMAIN messages : s[i] = messages[i]
      /\ \A i \in DOMAIN plan : s[n + i] = Reply(i, outcome)
      /\ \A i \in DOMAIN s : i \in DOMAIN messages \/ i - n \in DOMAIN plan
  BY RepliesFollow
<1>7. Reworded(s, messages')
  BY <1>2, EnforceReworded
<1> HIDE DEF s
<1>3. n \in Nat /\ DOMAIN messages = 1..n /\ DOMAIN plan = 1..Len(plan) /\ Len(plan) \in Nat
      /\ iteration > 0 /\ iteration \in Nat
  BY <1>2, ConfigAssumption DEF ControlTypeOK
<1>4. \A i \in DOMAIN plan :
        /\ n + i \in DOMAIN s /\ n + i \notin DOMAIN messages
        /\ IsTool(s[n + i]) /\ s[n + i].id = <<iteration, i>> /\ s[n + i].key = plan[i].key
        /\ s[n + i].kind = plan[i].kind /\ s[n + i].same_as = plan[i].same_as
        /\ s[n + i].ok = (i \in ToRun /\ outcome[i].ok)
  <2> SUFFICES ASSUME NEW i \in DOMAIN plan
               PROVE  /\ n + i \in DOMAIN s /\ n + i \notin DOMAIN messages
                      /\ IsTool(s[n + i]) /\ s[n + i].id = <<iteration, i>>
                      /\ s[n + i].key = plan[i].key /\ s[n + i].kind = plan[i].kind
                      /\ s[n + i].same_as = plan[i].same_as
                      /\ s[n + i].ok = (i \in ToRun /\ outcome[i].ok)
    OBVIOUS
  <2>1. plan[i].id = <<iteration, i>>
    BY DEF TranscriptInv, PlanMatches
  <2>2. n + i \in DOMAIN s /\ n + i \notin DOMAIN messages
    BY <1>2, <1>3
  <2>3. s[n + i] = Reply(i, outcome)
    BY <1>2
  <2> QED
    BY <2>1, <2>2, <2>3 DEF Reply, IsTool
<1>5. \A i \in DOMAIN s : i \in DOMAIN messages \/ \E k \in DOMAIN plan : i = n + k
  BY <1>2, <1>3
<1>6. OwnRuns(s) = OwnRuns(messages) \cup added /\ OwnRuns(messages) \cap added = {}
  <2>1. \A i \in DOMAIN messages : i \in DOMAIN s /\ s[i] = messages[i]
    BY <1>2, <1>3
  <2>2. \A k \in DOMAIN plan : s[n + k].id[1] = iteration
    BY <1>4
  <2>3. \A i : i \in OwnRuns(s) <=> i \in DOMAIN s /\ IsTool(s[i]) /\ s[i].id[1] > 0 /\ s[i].kind = "run"
    BY DEF OwnRuns, Tools
  <2>4. \A i : i \in OwnRuns(messages) <=> /\ i \in DOMAIN messages /\ IsTool(messages[i])
                                         /\ messages[i].id[1] > 0 /\ messages[i].kind = "run"
    BY DEF OwnRuns, Tools
  <2>5. \A k \in DOMAIN plan : n + k \in OwnRuns(s) <=> k \in ToRun
    BY <1>3, <1>4, <2>2, <2>3 DEF ToRun
  <2>6. ToRun \subseteq DOMAIN plan
    BY DEF ToRun
  <2>7. ASSUME NEW i \in OwnRuns(s) PROVE i \in OwnRuns(messages) \cup added
    BY <1>5, <2>1, <2>3, <2>4, <2>5
  <2>8. OwnRuns(messages) \subseteq OwnRuns(s)
    BY <2>1, <2>3, <2>4
  <2>9. added \subseteq OwnRuns(s) /\ OwnRuns(messages) \cap added = {}
    BY <1>4, <2>4, <2>5, <2>6
  <2> QED
    BY <2>7, <2>8, <2>9
<1> QED
  BY <1>2, <1>4, <1>5, <1>6, <1>7 DEF s

LEMMA FinishKeepsTranscript ==
  ASSUME ControlTypeOK, TypeInv, TranscriptInv, FinishTools
  PROVE  TranscriptInv'
<1>1. PICK outcome \in [ToRun -> Outcomes] :
        /\ messages' = EnforceOutputBudget(messages \o Replies(outcome))
        /\ fetched' = Fetched(outcome)
  BY DEF FinishTools
<1> DEFINE s == messages \o Replies(outcome)
           n == Len(messages)
           added == {n + i : i \in ToRun}
<1>2. /\ messages \in Seq(Message) /\ plan \in Seq(Planned) /\ s \in Seq(Message)
      /\ DOMAIN s = 1..(n + Len(plan))
      /\ \A i \in DOMAIN messages : s[i] = messages[i]
      /\ \A i \in DOMAIN plan : s[n + i] = Reply(i, outcome)
      /\ \A i \in DOMAIN s : i \in DOMAIN messages \/ i - n \in DOMAIN plan
  BY RepliesFollow
<1> HIDE DEF s
<1>3. n \in Nat /\ DOMAIN messages = 1..n /\ DOMAIN plan = 1..Len(plan) /\ Len(plan) \in Nat
      /\ iteration > 0 /\ iteration \in Nat
  BY <1>2, ConfigAssumption DEF ControlTypeOK
<1>4. /\ Reworded(s, messages')
      /\ OwnRuns(s) = OwnRuns(messages) \cup added /\ OwnRuns(messages) \cap added = {}
      /\ \A i \in DOMAIN plan :
        /\ n + i \in DOMAIN s /\ n + i \notin DOMAIN messages
        /\ IsTool(s[n + i]) /\ s[n + i].id = <<iteration, i>> /\ s[n + i].key = plan[i].key
        /\ s[n + i].kind = plan[i].kind /\ s[n + i].same_as = plan[i].same_as
        /\ s[n + i].ok = (i \in ToRun /\ outcome[i].ok)
      /\ \A i \in DOMAIN s : i \in DOMAIN messages \/ \E k \in DOMAIN plan : i = n + k
  BY <1>1, FinishAdds DEF s
<1>5. \A i \in DOMAIN s : i \in DOMAIN messages \/ \E k \in DOMAIN plan : i = n + k
  BY <1>4
<1>6. OwnRuns(s) = OwnRuns(messages) \cup added /\ OwnRuns(messages) \cap added = {}
  BY <1>4
<1>7. Reworded(s, messages')
  BY <1>4
<1>8. OwnRuns(messages') = OwnRuns(s)
  BY <1>2, <1>7, RewordedTools
<1>9. \A i \in OwnRuns(s) :
        /\ messages'[i].id = s[i].id /\ messages'[i].key = s[i].key /\ messages'[i].ok = s[i].ok
  <2>1. \A i \in OwnRuns(s) : i \in 1..Len(s) /\ IsTool(s[i])
    BY <1>2 DEF OwnRuns, Tools
  <2> QED
    BY <1>2, <1>7, <2>1, RewordedMessage
<1>10. RunsAreCharged'
  <2>1. IsFiniteSet(OwnRuns(messages)) /\ IsFiniteSet(ToRun) /\ ToRun \in SUBSET Nat
    BY <1>2, <1>3, RunsFinite, ToRunFinite
  <2>2. IsFiniteSet(added) /\ Cardinality(added) = Cardinality(ToRun)
    BY <1>3, <2>1, ShiftedCardinality
  <2> HIDE DEF added
  <2>3. Cardinality(OwnRuns(messages) \cup added) =
          Cardinality(OwnRuns(messages)) + Cardinality(added) - Cardinality({})
    BY <1>6, <2>1, <2>2, FS_Union
  <2>4. /\ Cardinality({}) = 0 /\ Cardinality(OwnRuns(messages)) \in Nat
        /\ Cardinality(ToRun) \in Nat
    BY <2>1, FS_EmptySet, FS_CardinalityType
  <2>5. plan' = <<>> /\ calls_made' = calls_made
    BY DEF FinishTools
  <2>6. ToRun' = {}
    BY <2>5 DEF ToRun
  <2> QED
    BY <1>6, <1>8, <2>2, <2>3, <2>4, <2>5, <2>6 DEF TranscriptInv, RunsAreCharged
<1>11. FetchedAreRuns'
  <2> DEFINE At(key) == CHOOSE i \in Reusable(outcome) : plan[i].key = key
             ReusedKeys == {plan[i].key : i \in Reusable(outcome)}
  <2>1. \A key \in ReusedKeys : At(key) \in Reusable(outcome) /\ plan[At(key)].key = key
    OBVIOUS
  <2>2. \A i \in Reusable(outcome) : i \in DOMAIN plan /\ i \in ToRun /\ outcome[i].ok
    BY DEF Reusable, ToRun
  <2>3. DOMAIN fetched' = ReusedKeys \cup DOMAIN fetched
    BY <1>1 DEF Fetched
  <2>4. \A key \in ReusedKeys : fetched'[key] = n + At(key)
    BY <1>1 DEF Fetched
  <2>5. \A key \in DOMAIN fetched \ ReusedKeys : fetched'[key] = fetched[key]
    BY <1>1 DEF Fetched
  <2> HIDE DEF At, ReusedKeys
  <2> SUFFICES ASSUME NEW key \in DOMAIN fetched'
               PROVE  /\ fetched'[key] \in OwnRuns(s)
                      /\ s[fetched'[key]].key = key /\ s[fetched'[key]].ok
    BY <1>8, <1>9 DEF FetchedAreRuns
  <2>6. CASE key \in ReusedKeys
    <3>1. n + At(key) \in added
      BY <2>1, <2>2, <2>6
    <3>2. At(key) \in DOMAIN plan /\ At(key) \in ToRun /\ outcome[At(key)].ok
          /\ plan[At(key)].key = key /\ fetched'[key] = n + At(key)
      BY <2>1, <2>2, <2>4, <2>6
    <3>3. n + At(key) \in OwnRuns(s)
      BY <1>6, <3>1
    <3>4. s[n + At(key)].key = key /\ s[n + At(key)].ok
      BY <1>4, <3>2
    <3> QED
      BY <3>2, <3>3, <3>4
  <2>7. CASE key \notin ReusedKeys
    <3>1. /\ fetched[key] \in OwnRuns(messages)
          /\ messages[fetched[key]].key = key /\ messages[fetched[key]].ok
      BY <2>3, <2>7 DEF TranscriptInv, FetchedAreRuns
    <3>2. fetched[key] \in DOMAIN messages
      BY <3>1 DEF OwnRuns, Tools
    <3> QED
      BY <1>2, <1>6, <2>3, <2>5, <2>7, <3>1, <3>2
  <2> QED
    BY <2>6, <2>7
<1>12. RepeatsPointAtRuns(s)
  <2> SUFFICES ASSUME NEW i \in Tools(s), s[i].id[1] > 0, s[i].kind = "repeat"
               PROVE  \E j \in OwnRuns(s) :
                        /\ j < i /\ s[j].id = s[i].same_as /\ s[j].key = s[i].key
                        /\ s[j].ok \/ s[j].id[1] = s[i].id[1]
    BY DEF RepeatsPointAtRuns
  <2>0. i \in DOMAIN s /\ IsTool(s[i])
        /\ \A j \in OwnRuns(messages) : j \in DOMAIN messages /\ s[j] = messages[j] /\ j \in OwnRuns(s)
    BY <1>2, <1>6 DEF Tools, OwnRuns
  <2>1. CASE i \in DOMAIN messages
    <3>1. s[i] = messages[i] /\ i \in Tools(messages)
      BY <1>2, <2>0, <2>1 DEF Tools
    <3>2. PICK j \in OwnRuns(messages) :
            /\ j < i /\ messages[j].id = messages[i].same_as /\ messages[j].key = messages[i].key
            /\ messages[j].ok \/ messages[j].id[1] = messages[i].id[1]
      BY <3>1 DEF TranscriptInv, RepeatsPointAtRuns
    <3> QED
      BY <2>0, <3>1, <3>2
  <2>2. ASSUME NEW k \in DOMAIN plan, i = n + k
        PROVE  \E j \in OwnRuns(s) :
                 /\ j < i /\ s[j].id = s[i].same_as /\ s[j].key = s[i].key
                 /\ s[j].ok \/ s[j].id[1] = s[i].id[1]
    <3>1. /\ plan[k].kind = "repeat" /\ s[i].same_as = plan[k].same_as
          /\ s[i].key = plan[k].key /\ s[i].id[1] = iteration
      BY <1>4, <2>2
    <3>2. CASE \E j \in ToRun : j < k /\ plan[j].id = plan[k].same_as /\ plan[j].key = plan[k].key
      <4>1. PICK j \in ToRun : j < k /\ plan[j].id = plan[k].same_as /\ plan[j].key = plan[k].key
        BY <3>2
      <4>2. j \in DOMAIN plan /\ plan[j].id = <<iteration, j>>
        BY DEF ToRun, TranscriptInv, PlanMatches
      <4>3. n + j \in OwnRuns(s)
        BY <1>6
      <4>4. s[n + j].id = plan[j].id /\ s[n + j].key = plan[j].key /\ s[n + j].id[1] = iteration
        BY <1>4, <4>2
      <4>5. n + j < i
        BY <1>3, <2>2, <4>1, <4>2
      <4> QED
        BY <3>1, <4>1, <4>3, <4>4, <4>5
    <3>3. CASE \E j \in OwnRuns(messages) : messages[j].id = plan[k].same_as
                 /\ messages[j].key = plan[k].key /\ messages[j].ok
      <4>1. PICK j \in OwnRuns(messages) : messages[j].id = plan[k].same_as
                 /\ messages[j].key = plan[k].key /\ messages[j].ok
        BY <3>3
      <4>2. j < i
        BY <1>3, <2>0, <2>2
      <4> QED
        BY <2>0, <3>1, <4>1, <4>2
    <3> QED
      BY <3>1, <3>2, <3>3 DEF TranscriptInv, RepeatsAreOfRuns
  <2> QED
    BY <1>5, <2>0, <2>1, <2>2
<1>13. RepeatsPointAtRuns(messages')
  BY <1>2, <1>7, <1>12, RewordedRepeats
<1>14. PlanMatches' /\ RepeatsAreOfRuns'
  BY DEF FinishTools, Continue, PlanMatches, RepeatsAreOfRuns
<1> QED
  BY <1>10, <1>11, <1>13, <1>14 DEF TranscriptInv

LEMMA StepTranscript == BudgetInv /\ TypeInv /\ TranscriptInv /\ [Next]_vars => TranscriptInv'
<1> SUFFICES ASSUME BudgetInv, TypeInv, TranscriptInv, [Next]_vars PROVE TranscriptInv'
  OBVIOUS
<1>1. messages \in Seq(Message) /\ ControlTypeOK
  BY DEF TypeInv, DataTypeOK, BudgetInv
<1>2. CASE Quiet
  BY <1>1, <1>2, QuietKeepsTranscript
<1>3. CASE AskForTools
  BY <1>1, <1>3, AskKeepsTranscript
<1>4. CASE PlanRepeat \/ PlanRun \/ PlanOverBudget
  BY <1>4, PlanStepKeepsTranscript
<1>5. CASE FinishTools
  BY <1>1, <1>5, FinishKeepsTranscript
<1> QED
  BY <1>2, <1>3, <1>4, <1>5, QuietOrHandlesCalls

LEMMA TranscriptInvariant == Spec => []TranscriptInv
BY InitTranscript, StepTranscript, BudgetInvariant, TypeInvariant, PTL DEF Spec

\* The tool call budget is charged for each call that runs, and for no other.
THEOREM BudgetIsExact == Spec => []BudgetMatchesRuns
<1>1. BudgetInv /\ TypeInv /\ TranscriptInv => BudgetMatchesRuns
  <2> SUFFICES ASSUME BudgetInv, TypeInv, TranscriptInv PROVE BudgetMatchesRuns
    OBVIOUS
  <2>1. calls_made \in 0..MaxToolCalls
    BY DEF BudgetInv, ControlTypeOK
  <2>2. {i \in OwnTools : messages[i].kind = "run"} = OwnRuns(messages)
    BY DEF OwnTools, OwnRuns
  <2>3. pc \in {"top", "model"} => ToRun = {}
    BY DEF TranscriptInv, PlanMatches, ToRun
  <2>4. Cardinality({}) = 0
    BY FS_EmptySet
  <2>5. calls_made <= MaxToolCalls
    BY <2>1, ConfigAssumption
  <2>6. pc \in {"top", "model"} => calls_made = Cardinality(OwnRuns(messages)) + 0
    BY <2>3, <2>4 DEF TranscriptInv, RunsAreCharged
  <2>7. messages \in Seq(Message)
    BY DEF TypeInv, DataTypeOK
  <2>8. Cardinality(OwnRuns(messages)) \in Nat
    BY <2>7, RunsFinite, FS_CardinalityType
  <2>9. pc \in {"top", "model"} => calls_made = Cardinality(OwnRuns(messages))
    BY <2>6, <2>8
  <2> QED
    BY <2>2, <2>5, <2>9, Zenon DEF BudgetMatchesRuns
<1> QED
  BY <1>1, BudgetInvariant, TypeInvariant, TranscriptInvariant, PTL

\* A call answered with a pointer is pointed at a run of the same call.
THEOREM RepeatsAreSound == Spec => []RepeatPointsAtRun
<1>1. TranscriptInv => RepeatPointsAtRun
  BY DEF TranscriptInv, RepeatsPointAtRuns, RepeatPointsAtRun, OwnTools, OwnRuns
<1> QED
  BY <1>1, TranscriptInvariant, PTL

----------------------------------------------------------------------------
(* No call is run twice while its result is there.  What makes it so is    *)
(* that every result that is there is the one remembered for its key.      *)

Gone(message) == ~message.ok \/ IsDropped(message)

LiveAreFetched(s, f) ==
  \A i \in OwnRuns(s) : ~Gone(s[i]) => s[i].key \in DOMAIN f /\ f[s[i].key] = i

NotTwice(s) ==
  \A i, j \in OwnRuns(s) : i < j /\ s[i].key = s[j].key => Gone(s[i])

RunsAreNew ==
  /\ \A i \in ToRun : ~HaveResult(plan[i].key)
  /\ \A i, j \in ToRun : plan[i].key = plan[j].key => i = j

OnceInv == LiveAreFetched(messages, fetched) /\ NotTwice(messages) /\ RunsAreNew

\* Rewording brings no result back.
LEMMA RewordedGone ==
  ASSUME NEW s \in Seq(Message), NEW t, Reworded(s, t), NEW i \in OwnRuns(s)
  PROVE  /\ t[i].key = s[i].key
         /\ Gone(s[i]) => Gone(t[i])
<1>1. i \in 1..Len(s) /\ IsTool(s[i])
  BY DEF OwnRuns, Tools
<1>2. t[i].key = s[i].key /\ t[i].ok = s[i].ok
  BY <1>1, RewordedMessage
<1>3. t[i] = s[i] \/ t[i] = Blanked(s[i])
  BY <1>1 DEF Reworded
<1>4. Blanked(s[i]).dropped = TRUE
  BY DEF Blanked
<1> QED
  BY <1>2, <1>3, <1>4 DEF Gone, IsDropped

LEMMA RewordedOnce ==
  ASSUME NEW s \in Seq(Message), NEW t, Reworded(s, t), NEW f,
         LiveAreFetched(s, f), NotTwice(s)
  PROVE  LiveAreFetched(t, f) /\ NotTwice(t)
<1>1. OwnRuns(t) = OwnRuns(s)
  BY RewordedTools
<1>2. \A i \in OwnRuns(s) : t[i].key = s[i].key /\ (Gone(s[i]) => Gone(t[i]))
  BY RewordedGone
<1>3. LiveAreFetched(t, f)
  BY <1>1, <1>2 DEF LiveAreFetched
<1>4. NotTwice(t)
  BY <1>1, <1>2 DEF NotTwice
<1> QED
  BY <1>3, <1>4

LEMMA QuietKeepsOnce ==
  ASSUME messages \in Seq(Message), FetchedAreRuns, OnceInv, Quiet
  PROVE  OnceInv'
<1>1. Reworded(messages, messages') /\ fetched' = fetched /\ plan' = plan
  BY DEF Quiet
<1>2. LiveAreFetched(messages', fetched) /\ NotTwice(messages')
  BY <1>1, RewordedOnce DEF OnceInv
<1>3. ASSUME NEW key \in DOMAIN fetched, IsDropped(messages[fetched[key]])
      PROVE  IsDropped(messages'[fetched[key]])
  <2>1. fetched[key] \in OwnRuns(messages) /\ messages[fetched[key]].ok
    BY DEF FetchedAreRuns
  <2>2. fetched[key] \in 1..Len(messages) /\ IsTool(messages[fetched[key]])
    BY <2>1 DEF OwnRuns, Tools
  <2>3. \/ messages'[fetched[key]] = messages[fetched[key]]
        \/ messages'[fetched[key]] = Blanked(messages[fetched[key]])
    BY <1>1, <2>2 DEF Reworded
  <2>4. Blanked(messages[fetched[key]]).dropped = TRUE
    BY DEF Blanked
  <2> QED
    BY <1>3, <2>3, <2>4 DEF IsDropped
<1>4. ToRun' = ToRun
  BY <1>1 DEF ToRun
<1>5. RunsAreNew'
  BY <1>1, <1>3, <1>4 DEF OnceInv, RunsAreNew, HaveResult
<1> QED
  BY <1>1, <1>2, <1>5 DEF OnceInv

LEMMA PlanKeepsOnce ==
  ASSUME TypeInv, OnceInv, PlanRepeat \/ PlanRun \/ PlanOverBudget
  PROVE  OnceInv'
<1> DEFINE n == Len(plan) + 1
<1>1. plan \in Seq(Planned) /\ n \notin DOMAIN plan
  BY DEF TypeInv, DataTypeOK
<1>2. PICK kind, same_as : Plan(kind, same_as) /\ (kind = "run" => IsNewCall)
  BY DEF PlanRepeat, PlanRun, PlanOverBudget
<1>3. UNCHANGED <<messages, fetched>>
  BY <1>2 DEF Plan
<1>4. /\ DOMAIN plan' = DOMAIN plan \cup {n}
      /\ \A i \in DOMAIN plan : plan'[i] = plan[i]
      /\ plan'[n].key = NextCall.key /\ plan'[n].kind = kind
  BY <1>1, <1>2 DEF Plan
<1>5. \A i \in ToRun' : (i \in ToRun /\ plan'[i] = plan[i]) \/ (i = n /\ IsNewCall)
  BY <1>2, <1>4 DEF ToRun
<1>6. \A key : HaveResult(key)' <=> HaveResult(key)
  BY <1>3 DEF HaveResult
<1>7. IsNewCall => ~HaveResult(NextCall.key) /\ \A i \in ToRun : plan[i].key # NextCall.key
  BY DEF IsNewCall, FirstInStep, ToRun
<1> HIDE DEF n
<1>8. \A i \in ToRun' : ~HaveResult(plan'[i].key)
  BY <1>4, <1>5, <1>7 DEF OnceInv, RunsAreNew
<1>9. \A i, j \in ToRun' : plan'[i].key = plan'[j].key => i = j
  BY <1>4, <1>5, <1>7 DEF OnceInv, RunsAreNew
<1>10. RunsAreNew'
  BY <1>6, <1>8, <1>9 DEF RunsAreNew
<1> QED
  BY <1>3, <1>10 DEF OnceInv

LEMMA FinishKeepsOnce ==
  ASSUME ControlTypeOK, TypeInv, TranscriptInv, OnceInv, FinishTools
  PROVE  OnceInv'
<1>1. PICK outcome \in [ToRun -> Outcomes] :
        /\ messages' = EnforceOutputBudget(messages \o Replies(outcome))
        /\ fetched' = Fetched(outcome)
  BY DEF FinishTools
<1> DEFINE s == messages \o Replies(outcome)
           n == Len(messages)
           ReusedKeys == {plan[i].key : i \in Reusable(outcome)}
           At(key) == CHOOSE i \in Reusable(outcome) : plan[i].key = key
<1>2. /\ s \in Seq(Message) /\ Reworded(s, messages')
      /\ OwnRuns(s) = OwnRuns(messages) \cup {n + i : i \in ToRun}
      /\ \A i \in DOMAIN messages : s[i] = messages[i]
      /\ \A i \in DOMAIN plan :
           /\ n + i \notin DOMAIN messages /\ s[n + i].key = plan[i].key
           /\ s[n + i].ok = (i \in ToRun /\ outcome[i].ok)
  BY <1>1, FinishAdds
<1>3. /\ DOMAIN fetched' = ReusedKeys \cup DOMAIN fetched
      /\ \A key \in ReusedKeys : fetched'[key] = n + At(key)
      /\ \A key \in DOMAIN fetched \ ReusedKeys : fetched'[key] = fetched[key]
  BY <1>1 DEF Fetched
<1>4. ToRun \subseteq DOMAIN plan /\ Reusable(outcome) = {i \in ToRun : outcome[i].ok}
  BY DEF ToRun, Reusable
<1>5. \A key \in ReusedKeys : At(key) \in Reusable(outcome) /\ plan[At(key)].key = key
  OBVIOUS
<1>6. \A i \in Reusable(outcome) : plan[i].key \in ReusedKeys
  OBVIOUS
<1>7. /\ n \in Nat /\ DOMAIN messages = 1..n /\ DOMAIN plan \subseteq Nat
      /\ OwnRuns(messages) \subseteq DOMAIN messages
  BY DEF TypeInv, DataTypeOK, OwnRuns, Tools
<1> HIDE DEF s, n, ReusedKeys, At
<1>8. \A i \in ToRun : \A j : j = n + i =>
        /\ j \notin DOMAIN messages /\ s[j].key = plan[i].key
        /\ s[j].ok <=> outcome[i].ok
  BY <1>2, <1>4
<1>9. ASSUME NEW i \in OwnRuns(messages), ~Gone(messages[i])
      PROVE  /\ messages[i].key \in DOMAIN fetched /\ fetched[messages[i].key] = i
             /\ \A k \in ToRun : plan[k].key # messages[i].key
  <2>1. messages[i].key \in DOMAIN fetched /\ fetched[messages[i].key] = i
    BY <1>9 DEF OnceInv, LiveAreFetched
  <2>2. HaveResult(messages[i].key)
    BY <1>9, <2>1 DEF HaveResult, Gone
  <2> QED
    BY <2>1, <2>2 DEF OnceInv, RunsAreNew
<1>10. \A i \in OwnRuns(messages) : s[i] = messages[i]
  BY <1>2, <1>7
<1>11. LiveAreFetched(s, fetched')
  <2> SUFFICES ASSUME NEW i \in OwnRuns(s), ~Gone(s[i])
               PROVE  s[i].key \in DOMAIN fetched' /\ fetched'[s[i].key] = i
    BY DEF LiveAreFetched
  <2>1. CASE i \in OwnRuns(messages)
    <3>1. /\ s[i] = messages[i] /\ messages[i].key \in DOMAIN fetched
          /\ fetched[messages[i].key] = i
          /\ \A k \in ToRun : plan[k].key # messages[i].key
      BY <1>9, <1>10, <2>1
    <3>2. messages[i].key \notin ReusedKeys
      BY <1>4, <1>5, <3>1
    <3> QED
      BY <1>3, <3>1, <3>2
  <2>2. CASE \E k \in ToRun : i = n + k
    <3>1. PICK k \in ToRun : i = n + k
      BY <2>2
    <3>2. s[i].key = plan[k].key /\ outcome[k].ok
      BY <1>8, <3>1 DEF Gone
    <3>3. k \in Reusable(outcome)
      BY <1>4, <3>2
    <3>4. plan[k].key \in ReusedKeys
      BY <1>6, <3>3
    <3>5. At(plan[k].key) \in ToRun /\ plan[At(plan[k].key)].key = plan[k].key
      BY <1>4, <1>5, <3>4
    <3>6. At(plan[k].key) = k
      BY <3>5 DEF OnceInv, RunsAreNew
    <3> QED
      BY <1>3, <3>1, <3>2, <3>4, <3>6
  <2> QED
    BY <1>2, <2>1, <2>2
<1>12. NotTwice(s)
  <2> SUFFICES ASSUME NEW i \in OwnRuns(s), NEW j \in OwnRuns(s), i < j,
                      s[i].key = s[j].key, ~Gone(s[i])
               PROVE  FALSE
    BY DEF NotTwice
  <2>1. CASE i \in OwnRuns(messages) /\ j \in OwnRuns(messages)
    BY <1>10, <2>1 DEF OnceInv, NotTwice
  <2>2. ASSUME i \in OwnRuns(messages), NEW k \in ToRun, j = n + k PROVE FALSE
    <3>1. s[i] = messages[i] /\ s[j].key = plan[k].key
      BY <1>8, <1>10, <2>2
    <3>2. ~Gone(messages[i])
      BY <3>1
    <3>3. plan[k].key # messages[i].key
      BY <1>9, <2>2, <3>2
    <3> QED
      BY <3>1, <3>3
  <2>3. ASSUME NEW k \in ToRun, i = n + k, j \in OwnRuns(messages) PROVE FALSE
    <3>1. k \in Nat /\ j \in 1..n /\ n + k \notin 1..n
      BY <1>4, <1>7, <1>8, <2>3
    <3> QED
      BY <1>7, <2>3, <3>1
  <2>4. ASSUME NEW k \in ToRun, NEW l \in ToRun, i = n + k, j = n + l PROVE FALSE
    <3>1. plan[k].key = plan[l].key
      BY <1>8, <2>4
    <3>2. k = l
      BY <3>1 DEF OnceInv, RunsAreNew
    <3>3. i \in Nat
      BY <1>4, <1>7, <2>4
    <3> QED
      BY <2>4, <3>2, <3>3
  <2> QED
    BY <1>2, <2>1, <2>2, <2>3, <2>4
<1>13. LiveAreFetched(messages', fetched') /\ NotTwice(messages')
  BY <1>2, <1>11, <1>12, RewordedOnce
<1>14. RunsAreNew'
  BY DEF FinishTools, RunsAreNew, ToRun
<1> QED
  BY <1>13, <1>14 DEF OnceInv

LEMMA StepOnce == BudgetInv /\ TypeInv /\ TranscriptInv /\ OnceInv /\ [Next]_vars => OnceInv'
<1> SUFFICES ASSUME BudgetInv, TypeInv, TranscriptInv, OnceInv, [Next]_vars PROVE OnceInv'
  OBVIOUS
<1>0. messages \in Seq(Message) /\ FetchedAreRuns
  BY DEF TypeInv, DataTypeOK, TranscriptInv
<1>1. CASE Quiet
  BY <1>0, <1>1, QuietKeepsOnce
<1>2. CASE AskForTools
  <2> DEFINE m == [role |-> "assistant", calls |-> tool_calls']
  <2>1. messages' = Append(messages, m) /\ fetched' = fetched /\ plan' = <<>>
    BY <1>2 DEF AskForTools
  <2>2. m.role = "assistant" /\ ~IsTool(m)
    BY DEF IsTool
  <2> HIDE DEF m
  <2>3. OwnRuns(messages') = OwnRuns(messages)
        /\ \A i \in OwnRuns(messages) : messages'[i] = messages[i]
    BY <1>0, <2>1, <2>2 DEF OwnRuns, Tools
  <2>4. RunsAreNew'
    BY <2>1 DEF RunsAreNew, ToRun
  <2> QED
    BY <2>1, <2>3, <2>4 DEF OnceInv, LiveAreFetched, NotTwice
<1>3. CASE PlanRepeat \/ PlanRun \/ PlanOverBudget
  BY <1>3, PlanKeepsOnce
<1>4. CASE FinishTools
  BY <1>4, FinishKeepsOnce DEF BudgetInv
<1> QED
  BY <1>1, <1>2, <1>3, <1>4, QuietOrHandlesCalls

LEMMA InitOnce == Init => OnceInv
<1> SUFFICES ASSUME Init PROVE OnceInv
  OBVIOUS
<1>1. \A i \in Tools(messages) : messages[i].id[1] = 0
  BY CarriedAssumption DEF Init, Tools, IsTool
<1>2. OwnRuns(messages) = {} /\ ToRun = {}
  BY <1>1 DEF Init, OwnRuns, ToRun
<1> QED
  BY <1>2 DEF OnceInv, LiveAreFetched, NotTwice, RunsAreNew

\* A call is run again within a turn only when the result it had is gone.
THEOREM NoCallPaidTwice == Spec => []RunAgainOnlyIfGone
<1>1. Spec => []OnceInv
  BY InitOnce, StepOnce, BudgetInvariant, TypeInvariant, TranscriptInvariant, PTL DEF Spec
<1>2. OnceInv => RunAgainOnlyIfGone
  BY DEF OnceInv, NotTwice, Gone, RunAgainOnlyIfGone, OwnTools, OwnRuns
<1> QED
  BY <1>1, <1>2, PTL

----------------------------------------------------------------------------
(* Every call is answered, provided that what _recall puts in front has    *)
(* its calls answered: the block of a turn that a tool raised out of has   *)
(* not (Raise of ThreadMemo).                                              *)

CarriedWhole == \A conversation \in Carried : Answered(conversation, Len(conversation))

\* The replies of a step answer the calls the last message makes.
LEMMA FinishAnswers ==
  ASSUME TypeInv, TranscriptInv, CallsAnswered, FinishTools
  PROVE  Answered(messages', Len(messages'))
<1>1. PICK outcome \in [ToRun -> Outcomes] :
        messages' = EnforceOutputBudget(messages \o Replies(outcome))
  BY DEF FinishTools
<1> DEFINE s == messages \o Replies(outcome)
           n == Len(messages)
<1>2. /\ messages \in Seq(Message) /\ plan \in Seq(Planned) /\ s \in Seq(Message)
      /\ DOMAIN s = 1..(n + Len(plan))
      /\ \A i \in DOMAIN messages : s[i] = messages[i]
      /\ \A i \in DOMAIN plan : s[n + i] = Reply(i, outcome)
      /\ \A i \in DOMAIN s : i \in DOMAIN messages \/ i - n \in DOMAIN plan
  BY RepliesFollow
<1>3. Reworded(s, messages')
  BY <1>1, <1>2, EnforceReworded
<1> HIDE DEF s
<1>4. n \in Nat \ {0} /\ DOMAIN messages = 1..n /\ DOMAIN plan = 1..Len(plan) /\ Len(plan) \in Nat
  BY <1>2 DEF CallsAnswered, FinishTools
<1>5. /\ messages[n] = [role |-> "assistant", calls |-> tool_calls]
      /\ Answered(messages, n - 1)
      /\ Len(plan) = Len(tool_calls) /\ tool_calls \in Seq(Call)
      /\ \A i \in DOMAIN plan : plan[i].id = tool_calls[i].id
  BY DEF CallsAnswered, FinishTools, TranscriptInv, PlanMatches, TypeInv, DataTypeOK
<1>6. \A i \in DOMAIN plan : IsTool(s[n + i]) /\ s[n + i].id = plan[i].id /\ n + i \in DOMAIN s
  <2> SUFFICES ASSUME NEW i \in DOMAIN plan
               PROVE  IsTool(s[n + i]) /\ s[n + i].id = plan[i].id /\ n + i \in DOMAIN s
    OBVIOUS
  <2>1. n + i \in DOMAIN s
    BY <1>2, <1>4
  <2>2. s[n + i] = Reply(i, outcome)
    BY <1>2
  <2> QED
    BY <2>1, <2>2 DEF Reply, IsTool
<1>7. Answered(s, Len(s))
  <2> SUFFICES ASSUME NEW i \in DOMAIN s, s[i].role = "assistant", NEW j \in DOMAIN s[i].calls
               PROVE  i + j \in DOMAIN s /\ IsTool(s[i + j]) /\ s[i + j].id = s[i].calls[j].id
    BY <1>2 DEF Answered
  <2>1. i \in DOMAIN messages
    <3>1. ASSUME i - n \in DOMAIN plan PROVE FALSE
      <4>1. n + (i - n) = i
        BY <1>2, <1>4
      <4> QED
        BY <1>6, <3>1, <4>1 DEF IsTool
    <3> QED
      BY <1>2, <3>1
  <2>2. CASE i = n
    <3>1. s[i].calls = tool_calls
      BY <1>2, <1>5, <2>1, <2>2
    <3>2. j \in DOMAIN plan
      BY <1>4, <1>5, <3>1
    <3> QED
      BY <1>5, <1>6, <2>2, <3>1, <3>2
  <2>3. CASE i # n
    <3>1. i \in 1..(n - 1) /\ s[i] = messages[i]
      BY <1>2, <1>4, <2>1, <2>3
    <3>2. i + j \in DOMAIN messages /\ IsTool(messages[i + j])
          /\ messages[i + j].id = messages[i].calls[j].id
      BY <1>5, <3>1 DEF Answered
    <3>3. i + j \in DOMAIN s /\ s[i + j] = messages[i + j]
      BY <1>2, <1>4, <3>2
    <3> QED
      BY <3>1, <3>2, <3>3
  <2> QED
    BY <2>2, <2>3
<1> QED
  BY <1>2, <1>3, <1>7, RewordedAnswered

LEMMA StepCallsAnswered ==
  BudgetInv /\ TypeInv /\ TranscriptInv /\ CallsAnswered /\ [Next]_vars => CallsAnswered'
<1> SUFFICES ASSUME BudgetInv, TypeInv, TranscriptInv, CallsAnswered, [Next]_vars
             PROVE  CallsAnswered'
  OBVIOUS
<1> DEFINE Between(p) == p \in {"top", "model", "done"}
           Handling(p) == p \in {"plan", "progress", "tools"}
<1>0. messages \in Seq(Message)
  BY DEF TypeInv, DataTypeOK
<1> USE DEF control
<1>1. CASE Between(pc) /\ Between(pc')
  <2>1. Quiet
    BY <1>1, QuietOrHandlesCalls DEF Plan, AskForTools, PlanRepeat, PlanRun, PlanOverBudget, FinishTools
  <2>2. Answered(messages', Len(messages'))
    BY <1>0, <1>1, <2>1, RewordedAnswered DEF Quiet, CallsAnswered
  <2> QED
    BY <1>1, <2>2 DEF CallsAnswered
<1>2. CASE Between(pc) /\ Handling(pc')
  <2>1. AskForTools
    BY <1>2 DEF Next, Step, TurnOver, vars, OutOfTime, StartModelCall, CutOffAtReserve,
           ModelTimesOut, ModelFails, RetryTruncated, PostAnswer, PlanRepeat, PlanRun,
           PlanOverBudget, ShowProgress, FinishTools,
           LoopRaises, OddReply, CannotKey, DispatchRaises, Stop, Continue
  <2> DEFINE m == [role |-> "assistant", calls |-> tool_calls']
  <2>2. messages' = Append(messages, m) /\ Answered(messages, Len(messages))
    BY <1>2, <2>1 DEF AskForTools, CallsAnswered
  <2> HIDE DEF m
  <2>3. /\ Len(messages') = Len(messages) + 1 /\ messages'[Len(messages')] = m
        /\ \A i \in DOMAIN messages : i \in DOMAIN messages' /\ messages'[i] = messages[i]
    BY <1>0, <2>2
  <2>4. Answered(messages', Len(messages') - 1)
    <3>1. \A i \in 1..(Len(messages') - 1) : i \in 1..Len(messages) /\ i \in DOMAIN messages
      BY <1>0, <2>3
    <3> QED
      BY <2>2, <2>3, <3>1 DEF Answered
  <2>5. Len(messages') > 0
    BY <1>0, <2>3
  <2> QED
    BY <1>2, <2>3, <2>4, <2>5 DEF CallsAnswered, m
<1>3. CASE Handling(pc) /\ Handling(pc')
  <2>1. UNCHANGED <<messages, tool_calls>>
    BY <1>3 DEF Next, Step, TurnOver, vars, OutOfTime, StartModelCall, CutOffAtReserve,
           ModelTimesOut, ModelFails, RetryTruncated, PostAnswer, AskForTools, PlanRepeat,
           PlanRun, PlanOverBudget, Plan, ShowProgress, FinishTools,
           LoopRaises, OddReply, CannotKey, DispatchRaises, Stop, Continue
  <2> QED
    BY <1>3, <2>1 DEF CallsAnswered
<1>4. CASE Handling(pc) /\ Between(pc')
  <2>1. FinishTools
    BY <1>4 DEF Next, Step, TurnOver, vars, OutOfTime, StartModelCall, CutOffAtReserve,
           ModelTimesOut, ModelFails, RetryTruncated, PostAnswer, AskForTools, PlanRepeat,
           PlanRun, PlanOverBudget, Plan, ShowProgress,
           LoopRaises, OddReply, CannotKey, DispatchRaises
  <2> QED
    BY <1>4, <2>1, FinishAnswers DEF CallsAnswered
<1>5. CASE pc = "raised" \/ pc' = "raised"
  <2>1. pc' = "raised"
    BY <1>5 DEF Next, Step, TurnOver, vars, OutOfTime, StartModelCall, CutOffAtReserve,
           ModelTimesOut, ModelFails, RetryTruncated, PostAnswer, AskForTools, PlanRepeat,
           PlanRun, PlanOverBudget, ShowProgress, FinishTools,
           LoopRaises, OddReply, CannotKey, DispatchRaises
  <2> QED
    BY <2>1 DEF CallsAnswered
<1>6. pc \in Phases /\ pc' \in Phases
  BY StepBudgetInv DEF BudgetInv, ControlTypeOK
<1> QED
  BY <1>1, <1>2, <1>3, <1>4, <1>5, <1>6

LEMMA CallsAnsweredInvariant == CarriedWhole => (Spec => []CallsAnswered)
<1> SUFFICES ASSUME CarriedWhole PROVE Spec => []CallsAnswered
  OBVIOUS
<1>1. Init => CallsAnswered
  BY DEF Init, CarriedWhole, CallsAnswered
<1> QED
  BY <1>1, StepCallsAnswered, BudgetInvariant, TypeInvariant, TranscriptInvariant, PTL
  DEF Spec

\* Every call a request carries is followed by its reply, if those it carries
\* from an earlier turn are.
THEOREM NoCallUnanswered == CarriedWhole => (Spec => []EveryCallAnswered)
<1> SUFFICES ASSUME CarriedWhole PROVE Spec => []EveryCallAnswered
  OBVIOUS
<1>1. CallsAnswered /\ TypeInv => EveryCallAnswered
  BY DEF CallsAnswered, EveryCallAnswered, Answered, TypeInv, DataTypeOK
<1> QED
  BY <1>1, CallsAnsweredInvariant, TypeInvariant, PTL

----------------------------------------------------------------------------
(* The output budget.  What is dropped is a beginning of the live results, *)
(* and what is left of them begins where the walk stopped: the first one   *)
(* it kept is where what is left was within the budget.                    *)

Live(s) == {i \in Tools(s) : ~IsDropped(s[i])}
OldestDropped(s) ==
  \A i, j \in Tools(s) : i < j /\ IsDropped(s[j]) => IsDropped(s[i])
WithinBudget(s) == Size(s, Live(s)) <= OutputBudget /\ OldestDropped(s)

LEMMA LeastElement ==
  ASSUME NEW S \in SUBSET Nat, S # {}
  PROVE  \E x \in S : \A y \in S : x <= y
<1> DEFINE Less == {p \in Nat \X Nat : p[1] < p[2]}
<1>1. IsWellFoundedOn(Less, Nat)
  BY NatLessThanWellFounded DEF OpToRel
<1>2. \A x, y \in Nat : y < x => <<y, x>> \in Less
  OBVIOUS
<1> HIDE DEF Less
<1>3. PICK x \in S : \A y \in S : ~(<<y, x>> \in Less)
  BY <1>1, WFMin
<1>4. \A y \in S : ~(y < x)
  BY <1>2, <1>3
<1> QED
  BY <1>4

LEMMA ResultSize ==
  ASSUME NEW s \in Seq(Message), NEW i \in Tools(s)
  PROVE  i \in 1..Len(s) /\ s[i].size \in Nat
<1>1. i \in 1..Len(s) /\ s[i] \in ToolReply
  BY ToolMessage DEF Tools
<1> QED
  BY <1>1 DEF ToolReply

LEMMA CharactersFinite ==
  ASSUME NEW s \in Seq(Message), NEW S \in SUBSET Tools(s)
  PROVE  IsFiniteSet(Characters(s, S)) /\ Size(s, S) \in Nat
<1> DEFINE marks == [i \in S |-> {i} \X (1..s[i].size)]
           texts == {{i} \X (1..s[i].size) : i \in S}
<1>1. IsFiniteSet(S)
  <2>1. S \in SUBSET (1..Len(s))
    BY ResultSize
  <2>2. IsFiniteSet(1..Len(s))
    BY FS_Interval
  <2> QED
    BY <2>1, <2>2, FS_Subset
<1>2. marks \in Surjection(S, texts)
  BY DEF Surjection
<1>3. IsFiniteSet(texts)
  <2> HIDE DEF marks, texts
  <2> QED
    BY <1>1, <1>2, FS_Surjection
<1>4. ASSUME NEW i \in S PROVE IsFiniteSet({i} \X (1..s[i].size))
  <2>1. s[i].size \in Nat
    BY ResultSize
  <2>2. \A n \in Nat : IsFiniteSet(1..n)
    BY FS_Interval
  <2>3. IsFiniteSet({i})
    BY FS_Singleton
  <2> QED
    BY <2>1, <2>2, <2>3, FS_Product
<1>5. \A T \in texts : IsFiniteSet(T)
  BY <1>4
<1>6. IsFiniteSet(UNION texts)
  <2> HIDE DEF texts
  <2> QED
    BY <1>3, <1>5, FS_UNION
<1> QED
  BY <1>6, FS_CardinalityType DEF Characters, Size

\* The texts of different results have no character in common.
LEMMA SizeAdds ==
  ASSUME NEW s \in Seq(Message), NEW S \in SUBSET Tools(s), NEW T \in SUBSET Tools(s),
         S \cap T = {}
  PROVE  Size(s, S \cup T) = Size(s, S) + Size(s, T)
<1>1. Characters(s, S \cup T) = Characters(s, S) \cup Characters(s, T)
  BY DEF Characters
<1>2. Characters(s, S) \cap Characters(s, T) = {}
  BY DEF Characters
<1>3. /\ IsFiniteSet(Characters(s, S)) /\ Size(s, S) \in Nat
      /\ IsFiniteSet(Characters(s, T)) /\ Size(s, T) \in Nat
  BY CharactersFinite
<1>4. Cardinality({}) = 0
  BY FS_EmptySet
<1>5. Cardinality(Characters(s, S) \cup Characters(s, T)) =
        Cardinality(Characters(s, S)) + Cardinality(Characters(s, T)) - Cardinality({})
  BY <1>2, <1>3, FS_Union
<1>6. Size(s, S \cup T) = Size(s, S) + Size(s, T) - 0
  BY <1>1, <1>4, <1>5 DEF Size
<1> QED
  BY <1>3, <1>6

LEMMA SizeGrows ==
  ASSUME NEW s \in Seq(Message), NEW T \in SUBSET Tools(s), NEW S \in SUBSET T
  PROVE  Size(s, S) <= Size(s, T)
<1>1. S \in SUBSET Tools(s) /\ T \ S \in SUBSET Tools(s) /\ S \cap (T \ S) = {}
      /\ T = S \cup (T \ S)
  OBVIOUS
<1>2. Size(s, T) = Size(s, S) + Size(s, T \ S)
  BY <1>1, SizeAdds
<1>3. Size(s, S) \in Nat /\ Size(s, T \ S) \in Nat
  BY <1>1, CharactersFinite
<1> QED
  BY <1>2, <1>3

\* The walk from the oldest: whatever is older than a result that goes has gone.
LEMMA OlderGoFirst ==
  ASSUME NEW s \in Seq(Message), NEW i \in ToDrop(s), NEW j \in Live(s), j < i
  PROVE  j \in ToDrop(s)
<1> DEFINE total == Size(s, Tools(s))
           Before(k) == {l \in Live(s) : l < k}
<1>1. i \in Live(s) /\ total - Size(s, Before(i)) > OutputBudget
  BY DEF ToDrop, Live
<1>2. i \in Nat /\ j \in Nat /\ Live(s) \subseteq Nat /\ Live(s) \subseteq Tools(s)
  BY <1>1, ResultSize DEF Live
<1>3. Before(j) \subseteq Before(i) /\ Before(i) \subseteq Tools(s)
  BY <1>2
<1>4. total \in Nat /\ Size(s, Before(i)) \in Nat /\ Size(s, Before(j)) \in Nat
  BY <1>3, CharactersFinite
<1>5. Size(s, Before(j)) <= Size(s, Before(i))
  BY <1>3, SizeGrows
<1>6. total - Size(s, Before(j)) > OutputBudget
  <2> HIDE DEF total, Before
  <2> QED
    BY <1>1, <1>4, <1>5, ConfigAssumption
<1> QED
  BY <1>6 DEF ToDrop, Live

\* What is left of the live results is within the budget.
LEMMA RestFits ==
  ASSUME NEW s \in Seq(Message)
  PROVE  Size(s, Live(s) \ ToDrop(s)) <= OutputBudget
<1> DEFINE K == Live(s) \ ToDrop(s)
           total == Size(s, Tools(s))
           Before(k) == {l \in Live(s) : l < k}
<1>1. Live(s) \subseteq Nat /\ Live(s) \subseteq Tools(s)
  BY ResultSize DEF Live
<1>2. CASE K = {}
  <2>1. Characters(s, {}) = {}
    BY DEF Characters
  <2>2. Size(s, {}) = 0
    BY <2>1, FS_EmptySet DEF Size
  <2> HIDE DEF K
  <2>3. Size(s, K) = 0
    BY <1>2, <2>2
  <2> QED
    BY <2>3, ConfigAssumption DEF K
<1>3. CASE K # {}
  <2>1. PICK m \in K : \A k \in K : m <= k
    <3>1. K \subseteq Nat
      BY <1>1
    <3> HIDE DEF K
    <3> QED
      BY <1>3, <3>1, LeastElement
  <2>2. ~(total - Size(s, Before(m)) > OutputBudget)
    BY <2>1 DEF ToDrop, Live
  <2>3. K \cup Before(m) = Live(s)
    <3>1. ASSUME NEW l \in Live(s), ~(l < m) PROVE l \in K
      <4>1. CASE l = m
        BY <4>1
      <4>2. CASE m < l
        BY <2>1, <4>2, OlderGoFirst
      <4> QED
        BY <1>1, <3>1, <4>1, <4>2
    <3> QED
      BY <3>1
  <2>4. K \cap Before(m) = {}
    BY <1>1, <2>1
  <2>5. K \in SUBSET Tools(s) /\ Before(m) \in SUBSET Tools(s) /\ Live(s) \in SUBSET Tools(s)
    BY <1>1
  <2> HIDE DEF K, Before, total
  <2>6. Size(s, Live(s)) = Size(s, K) + Size(s, Before(m))
    BY <2>3, <2>4, <2>5, SizeAdds
  <2>7. Size(s, Live(s)) <= total
    BY <2>5, SizeGrows DEF total
  <2>8. Size(s, K) \in Nat /\ Size(s, Before(m)) \in Nat /\ total \in Nat
    BY <2>5, CharactersFinite DEF total
  <2>9. Size(s, K) <= OutputBudget
    BY <2>2, <2>6, <2>7, <2>8, ConfigAssumption
  <2> QED
    BY <2>9 DEF K
<1> QED
  BY <1>2, <1>3

\* So what _enforce_output_budget leaves is, if no newer result than one still
\* there was dropped before.
LEMMA EnforceFits ==
  ASSUME NEW s \in Seq(Message), OldestDropped(s)
  PROVE  WithinBudget(EnforceOutputBudget(s))
<1> DEFINE t == EnforceOutputBudget(s)
           K == Live(s) \ ToDrop(s)
<1>1. Reworded(s, t)
  BY EnforceReworded
<1>2. Tools(t) = Tools(s) /\ \A i \in Tools(s) : i \in 1..Len(s) /\ i \in Nat
  BY <1>1, RewordedTools, ResultSize
<1>3. ASSUME NEW i \in Tools(s)
      PROVE  /\ IsDropped(t[i]) <=> IsDropped(s[i]) \/ i \in ToDrop(s)
             /\ i \notin ToDrop(s) => t[i] = s[i]
  <2>1. ToDrop(s) = {} => t = s
    BY DEF EnforceOutputBudget
  <2>2. ASSUME ToDrop(s) # {} PROVE t[i] = Blank(s, ToDrop(s))[i]
    <3>1. ToDrop(s) \in SUBSET Tools(s)
      BY DEF ToDrop
    <3>2. Blank(s, ToDrop(s)) \in Seq(Message) /\ i \in 1..Len(Blank(s, ToDrop(s)))
      <4>1. Blank(s, ToDrop(s)) \in Seq(Message)
        BY <3>1, BlankKeepsTools
      <4>2. DOMAIN Blank(s, ToDrop(s)) = DOMAIN s
        BY DEF Blank
      <4> QED
        BY <1>2, <4>1, <4>2
    <3>3. t = Append(Blank(s, ToDrop(s)), Note("dropped"))
      BY <2>2 DEF EnforceOutputBudget
    <3> QED
      BY <3>2, <3>3
  <2>3. Blank(s, ToDrop(s))[i] = IF i \in ToDrop(s) THEN Blanked(s[i]) ELSE s[i]
    BY <1>2 DEF Blank
  <2>4. IsDropped(Blanked(s[i]))
    BY DEF IsDropped, Blanked
  <2> HIDE DEF t
  <2> QED
    BY <2>1, <2>2, <2>3, <2>4
<1> HIDE DEF t
<1>4. Live(t) = K
  BY <1>2, <1>3 DEF Live
<1>5. Characters(t, K) = Characters(s, K)
  <2>1. \A i \in K : t[i] = s[i]
    BY <1>3 DEF Live
  <2> QED
    BY <2>1 DEF Characters
<1>6. Size(t, Live(t)) <= OutputBudget
  <2>1. Size(t, Live(t)) = Size(s, K)
    BY <1>4, <1>5 DEF Size
  <2> QED
    BY <2>1, RestFits
<1>7. OldestDropped(t)
  <2> SUFFICES ASSUME NEW i \in Tools(s), NEW j \in Tools(s), i < j, IsDropped(t[j])
               PROVE  IsDropped(t[i])
    BY <1>2 DEF OldestDropped
  <2>1. CASE IsDropped(s[i])
    BY <1>3, <2>1
  <2>2. CASE ~IsDropped(s[i])
    <3>1. i \in Live(s) /\ j \in ToDrop(s)
      BY <1>3, <2>2 DEF Live, OldestDropped
    <3> QED
      BY <1>3, <3>1, OlderGoFirst
  <2> QED
    BY <2>1, <2>2
<1> QED
  BY <1>6, <1>7 DEF WithinBudget, t

LEMMA AppendFits ==
  ASSUME NEW s \in Seq(Message), NEW m \in Message, ~IsTool(m), WithinBudget(s)
  PROVE  WithinBudget(Append(s, m))
<1> DEFINE t == Append(s, m)
<1>1. Tools(t) = Tools(s) /\ \A i \in Tools(s) : t[i] = s[i]
  BY DEF Tools
<1> HIDE DEF t
<1>2. Live(t) = Live(s)
  BY <1>1 DEF Live
<1>3. Characters(t, Live(t)) = Characters(s, Live(s))
  BY <1>1, <1>2 DEF Characters, Live
<1>4. OldestDropped(t)
  BY <1>1 DEF OldestDropped, WithinBudget
<1> QED
  BY <1>3, <1>4 DEF WithinBudget, Size, t

\* New results are not dropped, so they are as well in order before the walk.
LEMMA FinishFits ==
  ASSUME TypeInv, OldestDropped(messages), FinishTools
  PROVE  WithinBudget(messages')
<1>1. PICK outcome \in [ToRun -> Outcomes] :
        messages' = EnforceOutputBudget(messages \o Replies(outcome))
  BY DEF FinishTools
<1> DEFINE s == messages \o Replies(outcome)
           n == Len(messages)
<1>2. /\ messages \in Seq(Message) /\ plan \in Seq(Planned) /\ s \in Seq(Message)
      /\ DOMAIN s = 1..(n + Len(plan))
      /\ \A i \in DOMAIN messages : s[i] = messages[i]
      /\ \A i \in DOMAIN plan : s[n + i] = Reply(i, outcome)
      /\ \A i \in DOMAIN s : i \in DOMAIN messages \/ i - n \in DOMAIN plan
  BY RepliesFollow
<1> HIDE DEF s
<1>3. n \in Nat /\ DOMAIN messages = 1..n /\ Len(plan) \in Nat
  BY <1>2
<1>4. ASSUME NEW j \in Tools(s), IsDropped(s[j]) PROVE j \in DOMAIN messages
  <2>1. j \in DOMAIN s
    BY DEF Tools
  <2>2. ASSUME j - n \in DOMAIN plan PROVE FALSE
    <3>1. n + (j - n) = j
      BY <1>2, <1>3, <2>1
    <3>2. s[j] = Reply(j - n, outcome)
      BY <1>2, <2>2, <3>1
    <3> QED
      BY <1>4, <3>2 DEF IsDropped, Reply
  <2> QED
    BY <1>2, <2>1, <2>2
<1>5. OldestDropped(s)
  <2> SUFFICES ASSUME NEW i \in Tools(s), NEW j \in Tools(s), i < j, IsDropped(s[j])
               PROVE  IsDropped(s[i])
    BY DEF OldestDropped
  <2>1. i \in DOMAIN s /\ j \in DOMAIN messages
    BY <1>4 DEF Tools
  <2>2. i \in DOMAIN messages
    BY <1>2, <1>3, <2>1
  <2>3. s[i] = messages[i] /\ s[j] = messages[j]
    BY <1>2, <2>1, <2>2
  <2>4. i \in Tools(messages) /\ j \in Tools(messages)
    BY <2>1, <2>2, <2>3 DEF Tools
  <2> QED
    BY <2>3, <2>4 DEF OldestDropped
<1>6. messages' = EnforceOutputBudget(s)
  BY <1>1 DEF s
<1> QED
  BY <1>2, <1>5, <1>6, EnforceFits

LEMMA StepFits ==
  BudgetInv /\ TypeInv /\ WithinBudget(messages) /\ [Next]_vars => WithinBudget(messages')
<1> SUFFICES ASSUME BudgetInv, TypeInv, WithinBudget(messages), [Next]_vars
             PROVE  WithinBudget(messages')
  OBVIOUS
<1>1. messages \in Seq(Message)
  BY DEF TypeInv, DataTypeOK
<1> USE DEF control
<1>2. CASE messages' = messages
  BY <1>2
<1>3. ASSUME NEW m \in Message, ~IsTool(m), messages' = Append(messages, m)
      PROVE  WithinBudget(messages')
  BY <1>1, <1>3, AppendFits
<1>4. CASE StartModelCall
  <2>1. messages' = messages \/ \E about \in Budgets : messages' = Append(messages, Note(about))
    BY <1>4 DEF StartModelCall, SpentBudget, BudgetInv, ControlTypeOK
  <2> QED
    BY <1>2, <1>3, <2>1, NoteIsMessage
<1>5. CASE CutOffAtReserve \/ RetryTruncated
  BY <1>3, <1>5, NoteIsMessage DEF CutOffAtReserve, RetryTruncated
<1>6. CASE AskForTools
  <2>1. TypeInv'
    BY <1>6, StepTypeInv, StepBudgetInv DEF Next, Step
  <2>2. tool_calls' \in Seq(Call)
    BY <2>1 DEF TypeInv, DataTypeOK
  <2>3. [role |-> "assistant", calls |-> tool_calls'] \in Message
    BY <2>2 DEF Message, Assistant
  <2> QED
    BY <1>3, <1>6, <2>3 DEF AskForTools, IsTool
<1>7. CASE FinishTools
  BY <1>7, FinishFits DEF WithinBudget
<1>8. CASE \/ OutOfTime \/ ModelTimesOut \/ ModelFails \/ PostAnswer \/ PlanRepeat \/ PlanRun
           \/ PlanOverBudget \/ ShowProgress \/ LoopRaises \/ UNCHANGED vars
  BY <1>2, <1>8 DEF OutOfTime, ModelTimesOut, ModelFails, PostAnswer, PlanRepeat, PlanRun,
         PlanOverBudget, Plan, ShowProgress, LoopRaises, OddReply, CannotKey, DispatchRaises, vars
<1> QED
  BY <1>4, <1>5, <1>6, <1>7, <1>8 DEF Next, Step, TurnOver

\* What is carried over was within the budget when the turn it is the end of
\* asked for the last time.
CarriedFits == \A conversation \in Carried : WithinBudget(conversation)

LEMMA FitsInvariant == CarriedFits => (Spec => []WithinBudget(messages))
<1> SUFFICES ASSUME CarriedFits PROVE Spec => []WithinBudget(messages)
  OBVIOUS
<1>1. Init => WithinBudget(messages)
  BY DEF Init, CarriedFits
<1>2. BudgetInv /\ TypeInv /\ WithinBudget(messages) /\ [Next]_vars => WithinBudget(messages)'
  BY StepFits DEF WithinBudget, OldestDropped, Size, Characters, Live, Tools
<1> QED
  BY <1>1, <1>2, BudgetInvariant, TypeInvariant, PTL DEF Spec

\* The results in a request fit the output budget, the oldest given up first.
THEOREM ResultsFit == CarriedFits => (Spec => []OutputFitsOldestFirst)
<1>1. WithinBudget(messages) => OutputFitsOldestFirst
  BY DEF WithinBudget, OldestDropped, Live, OutputFitsOldestFirst
<1> QED
  BY <1>1, FitsInvariant, PTL

\* A turn that ends without an exception leaves to the next one of its thread
\* what it could itself rely on: a whole conversation that fits.
THEOREM HandsOnWholeConversation ==
  CarriedWhole /\ CarriedFits =>
    (Spec => [](pc = "done" => Answered(messages, Len(messages)) /\ WithinBudget(messages)))
<1>1. CallsAnswered => (pc = "done" => Answered(messages, Len(messages)))
  BY DEF CallsAnswered
<1> QED
  BY <1>1, CallsAnsweredInvariant, FitsInvariant, PTL
=============================================================================
