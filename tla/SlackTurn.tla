------------------------------ MODULE SlackTurn ------------------------------
(***************************************************************************)
(* The Slack side of a turn (slack_app.py, SlackOps.handle): acknowledge,  *)
(* investigate with a heartbeat editing the ack, write the answer into it, *)
(* attach the charts, audit.  Several mentions of one Slack thread are     *)
(* handled side by side; each sees the others' messages as history.        *)
(*                                                                         *)
(* A message is abstracted to what it shows.  Every call to Slack may fail.*)
(* The investigation itself is AgentLoop; here it ends, or raises.         *)
(***************************************************************************)
EXTENDS Naturals, FiniteSets

CONSTANTS
  Mentions,    \* the mentions of one thread
  Heartbeat,   \* slack_progress_heartbeat_s > 0
  MaxCharts    \* charts_max_per_turn

ASSUME SlackAssumption == Heartbeat \in BOOLEAN /\ MaxCharts \in Nat

Final == {"reply", "failure"}
Shown == {"nothing", "ack", "progress"} \cup Final
Working == {"working", "editing"}
Events == {"authz_allow", "authz_deny", "history_ok", "history_failed",
           "chart_ok", "chart_failed", "reply_sent"}

VARIABLES
  pc,       \* mention -> where its handler is
  beat,     \* mention -> its heartbeat task: none | asleep | sending
  has_ts,   \* mention -> ack_ts is known, so its message can be edited
  shown,    \* mention -> what its message in the thread shows
  late,     \* mention -> edits given up on: none | pending (Slack may apply them yet)
            \* | landed (it did, on the answer)
  history,  \* mention -> what was read of the thread: mention -> Shown
  drawn,    \* mention -> charts of the result that are still to be uploaded
  audited   \* mention -> audit events emitted

vars == <<pc, beat, has_ts, shown, late, history, drawn, audited>>

Init ==
  /\ pc = [m \in Mentions |-> "new"]
  /\ beat = [m \in Mentions |-> "none"]
  /\ has_ts = [m \in Mentions |-> FALSE]
  /\ shown = [m \in Mentions |-> "nothing"]
  /\ late = [m \in Mentions |-> "none"]
  /\ history = [m \in Mentions |-> [o \in {} |-> "nothing"]]
  /\ drawn = [m \in Mentions |-> 0]
  /\ audited = [m \in Mentions |-> {}]

Goto(m, place) == pc' = [pc EXCEPT ![m] = place]
Audit(m, event) == audited' = [audited EXCEPT ![m] = @ \cup {event}]
Show(m, what) == shown' = [shown EXCEPT ![m] = what]

----------------------------------------------------------------------------
(* Before the investigation.                                               *)

Allow(m) ==
  /\ pc[m] = "new"
  /\ Audit(m, "authz_allow") /\ Goto(m, "history")
  /\ UNCHANGED <<beat, has_ts, shown, late, history, drawn>>

\* A reaction, whose failure is swallowed, and nothing else.
Deny(m) ==
  /\ pc[m] = "new"
  /\ Audit(m, "authz_deny") /\ Goto(m, "denied")
  /\ UNCHANGED <<beat, has_ts, shown, late, history, drawn>>

\* A placeholder is left out, as long as it reads exactly as it was posted.
Readable(m) == {o \in Mentions \ {m} : shown[o] \notin {"nothing", "ack"}}

ReadHistory(m) ==
  /\ pc[m] = "history"
  /\ history' = [history EXCEPT ![m] = [o \in Readable(m) |-> shown[o]]]
  /\ Audit(m, "history_ok") /\ Goto(m, "ack")
  /\ UNCHANGED <<beat, has_ts, shown, late, drawn>>

\* Losing the history costs continuity, not the turn.
MissHistory(m) ==
  /\ pc[m] = "history"
  /\ Audit(m, "history_failed") /\ Goto(m, "ack")
  /\ UNCHANGED <<beat, has_ts, shown, late, history, drawn>>

\* The message that starts a thread has no history to read.
SkipHistory(m) ==
  /\ pc[m] = "history"
  /\ Goto(m, "ack")
  /\ UNCHANGED <<beat, has_ts, shown, late, history, drawn, audited>>

\* Slack may answer without a timestamp: then nothing can be edited.
PostAck(m) ==
  /\ pc[m] = "ack"
  /\ Show(m, "ack")
  /\ has_ts' \in {has_ts, [has_ts EXCEPT ![m] = TRUE]}
  /\ beat' = IF has_ts'[m] /\ Heartbeat THEN [beat EXCEPT ![m] = "asleep"] ELSE beat
  /\ Goto(m, "working")
  /\ UNCHANGED <<late, history, drawn, audited>>

\* A call to Slack raises out of the handler; the message is there or it is not.
FailAck(m) ==
  /\ pc[m] = "ack"
  /\ \/ Show(m, "ack")
     \/ UNCHANGED shown
  /\ Goto(m, "crashed")
  /\ UNCHANGED <<beat, has_ts, late, history, drawn, audited>>

----------------------------------------------------------------------------
(* The turn: progress edits of the agent and beats of the heartbeat task.  *)

StartEdit(m) ==
  /\ pc[m] = "working" /\ has_ts[m]
  /\ Goto(m, "editing")
  /\ UNCHANGED <<beat, has_ts, shown, late, history, drawn, audited>>

\* An edit whose request left and whose answer nobody waits for any more.
GiveUp(m) == late' = [late EXCEPT ![m] = "pending"]

\* The edit is applied, or its failure is swallowed; one that timed out may have
\* reached Slack all the same.
EditEnds(m) ==
  \/ Show(m, "progress") /\ UNCHANGED late
  \/ UNCHANGED <<shown, late>>
  \/ GiveUp(m) /\ UNCHANGED shown

FinishEdit(m) ==
  /\ pc[m] = "editing"
  /\ EditEnds(m)
  /\ Goto(m, "working")
  /\ UNCHANGED <<beat, has_ts, history, drawn, audited>>

StartBeat(m) ==
  /\ beat[m] = "asleep"
  /\ beat' = [beat EXCEPT ![m] = "sending"]
  /\ UNCHANGED <<pc, has_ts, shown, late, history, drawn, audited>>

FinishBeat(m) ==
  /\ beat[m] = "sending"
  /\ beat' = [beat EXCEPT ![m] = "asleep"]
  /\ EditEnds(m)
  /\ UNCHANGED <<pc, has_ts, history, drawn, audited>>

QuietForgotten(m) == UNCHANGED <<beat, late>>  \* fault: the task lives on
QuietUncancelled(m) == beat[m] = "none" /\ UNCHANGED <<beat, late>>  \* fault: only awaited

\* _quiet: the task is cancelled and awaited; a request it had sent is out.
Quiet(m) ==
  /\ beat' = [beat EXCEPT ![m] = "none"]
  /\ IF beat[m] = "sending" THEN GiveUp(m) ELSE UNCHANGED late

EndInvestigation(m) ==
  /\ pc[m] = "working"
  /\ \E n \in 0..MaxCharts : drawn' = [drawn EXCEPT ![m] = n]
  /\ Quiet(m)
  /\ Goto(m, "reply")
  /\ UNCHANGED <<has_ts, shown, history, audited>>

InvestigationRaises(m) ==
  /\ pc[m] = "working"
  /\ Quiet(m)
  /\ Goto(m, "failure")
  /\ UNCHANGED <<has_ts, shown, history, drawn, audited>>

\* Slack gets to an edit the handler gave up on, perhaps not the last of them.
ApplyLate(m) ==
  /\ late[m] = "pending"
  /\ \/ shown[m] \in Final /\ late' = [late EXCEPT ![m] = "landed"]
     \/ shown[m] \notin Final /\ late' \in {late, [late EXCEPT ![m] = "none"]}
  /\ Show(m, "progress")
  /\ UNCHANGED <<pc, beat, has_ts, history, drawn, audited>>

----------------------------------------------------------------------------
(* After it: the answer or the failure is written into the ack, or posted. *)

WriteReply(m) ==
  /\ pc[m] = "reply"
  /\ Show(m, "reply")
  /\ Goto(m, "upload")
  /\ UNCHANGED <<beat, has_ts, late, history, drawn, audited>>

WriteFailure(m) ==
  /\ pc[m] = "failure"
  /\ Show(m, "failure")
  /\ Goto(m, "over")
  /\ UNCHANGED <<beat, has_ts, late, history, drawn, audited>>

\* Neither write is guarded: its exception leaves the handler, applied or not.
FailWrite(m) ==
  /\ pc[m] \in Final
  /\ \/ Show(m, pc[m])
     \/ UNCHANGED shown
  /\ Goto(m, "crashed")
  /\ UNCHANGED <<beat, has_ts, late, history, drawn, audited>>

\* A chart that cannot be uploaded is audited and skipped.
UploadRaises(m) ==  \* fault: it ends the handler
  /\ pc[m] = "upload" /\ drawn[m] > 0
  /\ Goto(m, "over")
  /\ Audit(m, "chart_failed")
  /\ UNCHANGED <<beat, has_ts, shown, late, history, drawn>>

Upload(m) ==
  /\ pc[m] = "upload" /\ drawn[m] > 0
  /\ drawn' = [drawn EXCEPT ![m] = @ - 1]
  /\ \/ Audit(m, "chart_ok")
     \/ Audit(m, "chart_failed")
  /\ UNCHANGED <<pc, beat, has_ts, shown, late, history>>

SendReply(m) ==
  /\ pc[m] = "upload" /\ drawn[m] = 0
  /\ Audit(m, "reply_sent")
  /\ Goto(m, "over")
  /\ UNCHANGED <<beat, has_ts, shown, late, history, drawn>>

\* The process dies with every handler and heartbeat in it; nothing is resumed.
Restart ==
  /\ \E m \in Mentions : pc[m] \notin {"new", "denied", "crashed", "over"}
  /\ pc' = [m \in Mentions |->
             IF pc[m] \in {"new", "denied", "crashed", "over"} THEN pc[m] ELSE "crashed"]
  /\ late' = [m \in Mentions |->
               IF beat[m] = "sending" \/ pc[m] = "editing" THEN "pending" ELSE late[m]]
  /\ beat' = [m \in Mentions |-> "none"]
  /\ UNCHANGED <<has_ts, shown, history, drawn, audited>>

Handler(m) ==
  \/ ReadHistory(m) \/ MissHistory(m) \/ SkipHistory(m) \/ PostAck(m) \/ FailAck(m)
  \/ FinishEdit(m) \/ EndInvestigation(m) \/ InvestigationRaises(m)
  \/ WriteReply(m) \/ WriteFailure(m) \/ FailWrite(m)
  \/ Upload(m) \/ SendReply(m)

Next ==
  \/ Restart
  \/ \E m \in Mentions :
       \/ Allow(m) \/ Deny(m) \/ Handler(m)
       \/ StartEdit(m) \/ StartBeat(m) \/ FinishBeat(m) \/ ApplyLate(m)

\* Every Slack call returns or raises, and every investigation ends (AgentLoop,
\* TurnEnds), after however many edits: hence strong fairness for its end.
Fairness ==
  \A m \in Mentions :
    /\ WF_vars(Handler(m))
    /\ SF_vars(EndInvestigation(m) \/ InvestigationRaises(m))

Spec == Init /\ [][Next]_vars /\ Fairness

----------------------------------------------------------------------------
(* Properties.                                                             *)

Histories == UNION {[S -> Shown] : S \in SUBSET Mentions}

TypeOK ==
  /\ pc \in [Mentions -> Working \cup Final \cup
             {"new", "denied", "history", "ack", "upload", "crashed", "over"}]
  /\ beat \in [Mentions -> {"none", "asleep", "sending"}]
  /\ has_ts \in [Mentions -> BOOLEAN]
  /\ shown \in [Mentions -> Shown]
  /\ late \in [Mentions -> {"none", "pending", "landed"}]
  /\ history \in [Mentions -> Histories]
  /\ drawn \in [Mentions -> 0..MaxCharts]
  /\ audited \in [Mentions -> SUBSET Events]

\* A heartbeat task lives only while its turn is investigating: no way out of
\* the turn, failure and restart included, leaves one behind.
BeatOnlyWhileWorking ==
  \A m \in Mentions : beat[m] # "none" => pc[m] \in Working /\ has_ts[m]

\* Once the answer or the failure is written, no edit the bot makes or is still
\* waiting for replaces it, nor one given up on that Slack applied before it;
\* only one of those that Slack applies after it does.
AnswerStands ==
  \A m \in Mentions :
    pc[m] \in {"upload", "over"} => shown[m] \in Final \/ late[m] = "landed"

\* slack_app.py:297-299 and src/README.md:316-317: the heartbeat is cancelled
\* before the answer is written, so a beat can never land on a finished reply.
NothingLandsOnReply ==
  \A m \in Mentions : pc[m] \in {"upload", "over"} => shown[m] \in Final

\* The audit trail and the thread agree on what was answered: reply_sent is
\* audited of a mention whose thread shows the reply and whose charts were all
\* tried, and of every handler that gets through with a reply, whichever of its
\* uploads failed (_upload_charts, "Never fatal").
ReplySentMeansReplied ==
  \A m \in Mentions :
    /\ "reply_sent" \in audited[m] =>
         pc[m] = "over" /\ drawn[m] = 0 /\ (shown[m] = "reply" \/ late[m] = "landed")
    /\ pc[m] = "over" /\ shown[m] = "reply" => "reply_sent" \in audited[m]

\* Whoever is let in gets to an end: the handler returns or raises.
Concluded ==
  \A m \in Mentions : pc[m] = "history" ~> pc[m] \in {"over", "crashed"}

\* A placeholder is nobody's turn: the ack is not replayed as context.
HistoryHasNoPlaceholder ==
  \A m \in Mentions : \A o \in DOMAIN history[m] : history[m][o] \in Final
=============================================================================
