---------------------------- MODULE TurnContract ----------------------------
(***************************************************************************)
(* What one turn of the agent promises whoever started it, in the terms of *)
(* the README ("When a budget runs out") and of AgentResult.stop_reason:   *)
(* tools run within a budget, a spent budget ends in one last request for  *)
(* an answer, and the reason the turn stopped says which of these it was.  *)
(* AgentLoop implements it.                                                *)
(***************************************************************************)
EXTENDS Integers

CONSTANTS
  ToolBudget,   \* tool calls a turn may run
  TimeLimit     \* the clock never passes this

VARIABLES
  phase,    \* gathering | answering | closed
  limit,    \* the budget that ran out, "none" while gathering
  spent,    \* tool calls run
  clock,
  reason    \* why the turn closed; "raised" when it ended in an exception

vars == <<phase, limit, spent, clock, reason>>

Limits == {"tool_budget", "time_budget", "iteration_budget"}

\* The reasons a turn may close with that are no budget's.
Faults == {"timeout", "model_error", "truncated", "raised"}
Conclusions == {"answered", "empty_answer"}

Init ==
  /\ phase = "gathering" /\ limit = "none"
  /\ spent = 0 /\ clock = 0 /\ reason = "none"

Pass == clock' \in clock..TimeLimit

\* Time passes, and at most one more call is charged to the budget.
Gather ==
  /\ phase = "gathering"
  /\ Pass
  /\ spent' \in {spent, spent + 1} /\ spent' <= ToolBudget
  /\ UNCHANGED <<phase, limit, reason>>

BeginAnswer ==
  /\ phase = "gathering"
  /\ Pass
  /\ limit' \in Limits
  /\ limit' = "tool_budget" => spent = ToolBudget
  /\ phase' = "answering"
  /\ UNCHANGED <<spent, reason>>

\* Asked again after a cut-off answer: only the clock moves.
AnswerAgain ==
  /\ phase = "answering"
  /\ Pass
  /\ UNCHANGED <<phase, limit, spent, reason>>

\* A conclusion is only claimed by a turn no budget cut short, and a budget is
\* only named by the turn it did cut short.
Close ==
  /\ phase \in {"gathering", "answering"}
  /\ Pass
  /\ reason' \in Faults \cup (IF phase = "gathering" THEN Conclusions ELSE {limit})
  /\ phase' = "closed"
  /\ UNCHANGED <<limit, spent>>

Next == Gather \/ BeginAnswer \/ AnswerAgain \/ Close

Safety == Init /\ [][Next]_vars

\* A turn does not linger: it closes.
Spec == Safety /\ <>(phase = "closed")
=============================================================================
