------------------------------- MODULE OpsBot -------------------------------
(***************************************************************************)
(* The bot as one process: mentions are let in by the gate (Gate), become  *)
(* turns of an agent that carries results from turn to turn (ThreadMemo),  *)
(* and every read of a namespace goes through the gate again, under the    *)
(* policy of that moment.  Gate and memo share the clock and nothing else; *)
(* what lies between them is here: how long what was read under a policy   *)
(* is shown, once the policy has changed.                                  *)
(*                                                                         *)
(* A delivery of a mention is a turn.  Slack may deliver a mention twice:  *)
(* nothing tells the second from a new one, so both are decided, charged   *)
(* and answered.                                                           *)
(***************************************************************************)
EXTENDS Integers, Sequences

CONSTANTS
  Users, Channels, Namespaces, Team, AllowDMs, Capacity, Hour, Policies, Requests,  \* Gate
  Threads, Turns, TTL, CharBudget, MaxThreads, Sizes, RaisingTurns, MaxExchanges,   \* ThreadMemo
  MaxEdits, MaxTime,  \* BOUNDS of both
  Mention,            \* turn -> the event that is delivered
  NoTurn              \* the gate is serving none

VARIABLES
  now,
  file, cached, mtime, unread, pc, request, asked, statted, verdict, buckets, admitted,
  memos, status, thread, talk, ended, last,
  stage,    \* delivery -> new | asking | refused | admitted | running | over
  serving,  \* the delivery the gate is deciding about
  began,    \* turn -> when it recalled the memo of its thread (history)
  used      \* turn -> the versions of the policy its decisions were taken on (history)

G == INSTANCE Gate
M == INSTANCE ThreadMemo

gate == <<file, cached, mtime, unread, pc, request, asked, statted, verdict, buckets, admitted>>
memo == <<memos, status, thread, talk, ended, last>>
own == <<stage, serving, began, used>>
vars == <<now, gate, memo, own>>

ASSUME BotAssumption ==
  /\ Mention \in [Turns -> G!Event] /\ NoTurn \notin Turns
  /\ {Mention[t] : t \in Turns} \cup G!Read \subseteq Requests
  /\ G!GateAssumption /\ M!MemoAssumption

Init ==
  /\ G!Init /\ M!Init
  /\ stage = [t \in Turns |-> "new"] /\ serving = NoTurn
  /\ began = [t \in Turns |-> 0] /\ used = [t \in Turns |-> <<>>]

Goto(t, place) == stage' = [stage EXCEPT ![t] = place]
Uses(t) == used' = [used EXCEPT ![t] = Append(@, cached.version)]

----------------------------------------------------------------------------
(* The gate, for a mention or for a tool.  It decides without an await:    *)
(* other turns stand still meanwhile, the file and its editors do not.     *)

Deliver(t) ==
  /\ stage[t] = "new"
  /\ G!Receive(Mention[t])
  /\ serving' = t
  /\ Goto(t, IF verdict' = "none" THEN "asking" ELSE "refused")
  /\ UNCHANGED <<memo, began, used>>

Look(t) ==
  /\ stage[t] = "running" /\ Len(used[t]) <= MaxExchanges
  /\ \E namespace \in Namespaces : G!Receive([kind |-> "namespace", namespace |-> namespace])
  /\ serving' = t
  /\ UNCHANGED <<memo, stage, began, used>>

Load ==
  /\ G!Stat \/ G!ReadPolicy \/ G!ReadFails
  /\ UNCHANGED <<memo, own>>

Authorize ==
  /\ G!Decide
  /\ Goto(serving, IF verdict' = "allow" THEN "admitted" ELSE "refused")
  /\ Uses(serving) /\ serving' = NoTurn
  /\ UNCHANGED <<memo, began>>

\* What the tool answers is the turn's to keep, a refusal as well.
LookDecided ==
  /\ G!DecideNamespace
  /\ M!Exchange(serving)
  /\ Uses(serving) /\ serving' = NoTurn
  /\ UNCHANGED <<stage, began>>

----------------------------------------------------------------------------
(* The turn: its history and its ack lie between being let in and this.    *)

BeginTurn(t) ==
  /\ stage[t] = "admitted" /\ pc = "idle"
  /\ M!Ask(t)
  /\ Goto(t, "running") /\ began' = [began EXCEPT ![t] = now]
  /\ UNCHANGED <<gate, serving, used>>

EndTurnAnyTime(t) ==  \* fault: the clock moves on while the gate decides
  /\ stage[t] = "running"
  /\ M!Finish(t) \/ M!Raise(t)
  /\ Goto(t, "over")
  /\ UNCHANGED <<gate, serving, began, used>>

EndTurn(t) ==
  /\ stage[t] = "running" /\ pc = "idle"
  /\ M!Finish(t) \/ M!Raise(t)
  /\ Goto(t, "over")
  /\ UNCHANGED <<gate, serving, began, used>>

Wait == G!Tick /\ M!Wait /\ UNCHANGED own
Edit == G!Edit /\ UNCHANGED <<memo, own>>

Next ==
  \/ Load \/ Authorize \/ LookDecided
  \/ \E t \in Turns : Deliver(t) \/ Look(t) \/ BeginTurn(t) \/ EndTurn(t)
  \/ Wait \/ Edit

Spec == Init /\ [][Next]_vars

----------------------------------------------------------------------------
(* Properties.                                                             *)

TypeOK ==
  /\ G!TypeOK /\ M!TypeOK
  /\ stage \in [Turns -> {"new", "asking", "refused", "admitted", "running", "over"}]
  /\ serving \in Turns \cup {NoTurn}
  /\ began \in [Turns -> Nat] /\ used \in [Turns -> Seq(Nat)]

\* What is claimed of the gate on its own holds of it in the bot: whatever
\* turns, redeliveries and tools do around it, it only ever takes steps of Gate,
\* and no time passes while it decides, for want of an await.
GateKept == G!Spec

\* A revocation sticks: no decision, of whichever turn and whether about its
\* mention or about a namespace, is taken on a policy older than one that a
\* decision before it was taken on.
PolicyNeverGoesBack ==
  [][\A s, t \in Turns : \A n \in DOMAIN used[s], m \in DOMAIN used'[t] \ DOMAIN used[t] :
       used[s][n] <= used'[t][m]]_vars

\* A turn at work in its thread at some moment from then until then.
Present(th, from, until) ==
  \E u \in Turns : /\ thread[u] = th /\ status[u] # "waiting"
                   /\ began[u] <= until /\ (status[u] = "running" \/ ended[u] > from)

\* What a turn is shown that it did not read itself, under the policy of its
\* own time, has been kept in the thread without a break: whatever the policy
\* says by now, and however the results were come by, they are gone once the
\* thread was silent for a lifetime.
NeverOutlivesSilence ==
  \A t \in Turns : \A i \in DOMAIN talk[t] :
    LET s == talk[t][i].turn
    IN  s # t => \A moment \in ended[s]..(began[t] - TTL - 1) :
                   Present(thread[t], moment, moment + TTL)
=============================================================================
