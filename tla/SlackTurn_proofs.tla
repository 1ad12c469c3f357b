-------------------------- MODULE SlackTurn_proofs --------------------------
(***************************************************************************)
(* What SlackTurn keeps for any number of mentions in a thread and charts  *)
(* in a turn, whichever calls to Slack fail and whenever the process is    *)
(* restarted.                                                              *)
(***************************************************************************)
EXTENDS SlackTurn, TLAPS

\* While the charts are uploaded the reply is what the thread shows.
RepliedBeforeCharts ==
  \A m \in Mentions : pc[m] = "upload" => shown[m] = "reply" \/ late[m] = "landed"

IInv ==
  /\ TypeOK
  /\ BeatOnlyWhileWorking
  /\ AnswerStands
  /\ ReplySentMeansReplied
  /\ RepliedBeforeCharts

USE DEF Final, Shown, Working, Events

LEMMA InitInv == Init => IInv
<1> SUFFICES ASSUME Init PROVE IInv
  OBVIOUS
<1>1. TypeOK
  <2>1. [o \in {} |-> "nothing"] \in [{} -> Shown]
    OBVIOUS
  <2>2. history \in [Mentions -> Histories]
    BY <2>1 DEF Init, Histories
  <2> QED
    BY <2>2, SlackAssumption DEF Init, TypeOK
<1>2. BeatOnlyWhileWorking /\ AnswerStands /\ ReplySentMeansReplied /\ RepliedBeforeCharts
  BY DEF Init, BeatOnlyWhileWorking, AnswerStands, ReplySentMeansReplied, RepliedBeforeCharts
<1> QED
  BY <1>1, <1>2 DEF IInv

(* The invariant speaks of one mention at a time: these are its conjuncts  *)
(* for mention o.                                                          *)
Sound(o) ==
  /\ beat[o] # "none" => pc[o] \in Working /\ has_ts[o]
  /\ pc[o] \in {"upload", "over"} /\ late[o] # "landed" => shown[o] \in Final
  /\ "reply_sent" \in audited[o] =>
       pc[o] = "over" /\ drawn[o] = 0 /\ (shown[o] = "reply" \/ late[o] = "landed")
  /\ pc[o] = "over" /\ shown[o] = "reply" => "reply_sent" \in audited[o]
  /\ pc[o] = "upload" => shown[o] = "reply" \/ late[o] = "landed"

LEMMA SoundIsInv == IInv <=> TypeOK /\ \A o \in Mentions : Sound(o)
BY DEF IInv, Sound, BeatOnlyWhileWorking, AnswerStands, ReplySentMeansReplied, RepliedBeforeCharts

\* What the thread is read to say is something its messages can show.
LEMMA ReadHistoryType ==
  ASSUME TypeOK, NEW m \in Mentions, ReadHistory(m)
  PROVE  history' \in [Mentions -> Histories]
<1>1. Readable(m) \in SUBSET Mentions
  BY DEF Readable
<1>2. [o \in Readable(m) |-> shown[o]] \in [Readable(m) -> Shown]
  BY <1>1 DEF TypeOK
<1>3. [o \in Readable(m) |-> shown[o]] \in Histories
  BY <1>1, <1>2 DEF Histories
<1> QED
  BY <1>3 DEF ReadHistory, TypeOK

\* A step of one mention's own: before the investigation.
LEMMA BeforeInv ==
  ASSUME IInv, NEW m \in Mentions,
         Allow(m) \/ Deny(m) \/ ReadHistory(m) \/ MissHistory(m) \/ SkipHistory(m)
         \/ PostAck(m) \/ FailAck(m)
  PROVE  IInv'
<1>0. TypeOK /\ \A o \in Mentions : Sound(o)
  BY SoundIsInv
<1>1. TypeOK'
  <2>1. CASE ReadHistory(m)
    BY <1>0, <2>1, ReadHistoryType DEF TypeOK, ReadHistory, Audit, Goto
  <2>2. CASE PostAck(m)
    BY <1>0, <2>2 DEF TypeOK, PostAck, Show, Goto
  <2>3. CASE FailAck(m)
    BY <1>0, <2>3 DEF TypeOK, FailAck, Show, Goto
  <2> QED
    BY <1>0, <2>1, <2>2, <2>3 DEF TypeOK, Allow, Deny, MissHistory, SkipHistory, Audit, Goto
<1>2. ASSUME NEW o \in Mentions PROVE Sound(o)'
  <2>1. Sound(o) /\ Sound(m)
    BY <1>0
  <2>2. CASE PostAck(m)
    BY <1>0, <2>1, <2>2 DEF Sound, TypeOK, PostAck, Show, Goto
  <2>3. CASE FailAck(m)
    BY <1>0, <2>1, <2>3 DEF Sound, TypeOK, FailAck, Show, Goto
  <2>4. CASE ReadHistory(m)
    BY <1>0, <2>1, <2>4 DEF Sound, TypeOK, ReadHistory, Audit, Goto
  <2> QED
    BY <1>0, <2>1, <2>2, <2>3, <2>4
    DEF Sound, TypeOK, Allow, Deny, MissHistory, SkipHistory, Audit, Goto
<1> QED
  BY <1>1, <1>2 DEF IInv, Sound, BeatOnlyWhileWorking, AnswerStands, ReplySentMeansReplied,
                    RepliedBeforeCharts

\* During it, the heartbeat and a late edit of Slack's included.
LEMMA DuringInv ==
  ASSUME IInv, NEW m \in Mentions,
         StartEdit(m) \/ FinishEdit(m) \/ StartBeat(m) \/ FinishBeat(m)
         \/ EndInvestigation(m) \/ InvestigationRaises(m) \/ ApplyLate(m)
  PROVE  IInv'
<1>0. TypeOK /\ \A o \in Mentions : Sound(o)
  BY SoundIsInv
<1>1. TypeOK'
  <2>1. CASE StartEdit(m) \/ FinishEdit(m)
    BY <1>0, <2>1 DEF TypeOK, StartEdit, FinishEdit, EditEnds, GiveUp, Show, Goto
  <2>2. CASE StartBeat(m) \/ FinishBeat(m)
    BY <1>0, <2>2 DEF TypeOK, StartBeat, FinishBeat, EditEnds, GiveUp, Show
  <2>3. CASE EndInvestigation(m)
    BY <1>0, <2>3, SlackAssumption DEF TypeOK, EndInvestigation, Quiet, GiveUp, Goto
  <2>4. CASE InvestigationRaises(m)
    BY <1>0, <2>4 DEF TypeOK, InvestigationRaises, Quiet, GiveUp, Goto
  <2>5. CASE ApplyLate(m)
    BY <1>0, <2>5 DEF TypeOK, ApplyLate, Show
  <2> QED
    BY <2>1, <2>2, <2>3, <2>4, <2>5
<1>2. ASSUME NEW o \in Mentions PROVE Sound(o)'
  <2>0. Sound(o) /\ Sound(m)
    BY <1>0
  <2>1. CASE StartEdit(m) \/ FinishEdit(m)
    BY <1>0, <2>0, <2>1 DEF Sound, TypeOK, StartEdit, FinishEdit, EditEnds, GiveUp, Show, Goto
  <2>2. CASE StartBeat(m) \/ FinishBeat(m)
    BY <1>0, <2>0, <2>2 DEF Sound, TypeOK, StartBeat, FinishBeat, EditEnds, GiveUp, Show
  <2>3. CASE EndInvestigation(m)
    BY <1>0, <2>0, <2>3 DEF Sound, TypeOK, EndInvestigation, Quiet, GiveUp, Goto
  <2>4. CASE InvestigationRaises(m)
    BY <1>0, <2>0, <2>4 DEF Sound, TypeOK, InvestigationRaises, Quiet, GiveUp, Goto
  <2>5. CASE ApplyLate(m)
    BY <1>0, <2>0, <2>5 DEF Sound, TypeOK, ApplyLate, Show
  <2> QED
    BY <2>1, <2>2, <2>3, <2>4, <2>5
<1> QED
  BY <1>1, <1>2 DEF IInv, Sound, BeatOnlyWhileWorking, AnswerStands, ReplySentMeansReplied,
                    RepliedBeforeCharts

\* And after it.
LEMMA AfterInv ==
  ASSUME IInv, NEW m \in Mentions,
         WriteReply(m) \/ WriteFailure(m) \/ FailWrite(m) \/ Upload(m) \/ SendReply(m)
  PROVE  IInv'
<1>0. TypeOK /\ \A o \in Mentions : Sound(o)
  BY SoundIsInv
<1>1. TypeOK'
  <2>1. CASE WriteReply(m) \/ WriteFailure(m) \/ FailWrite(m)
    BY <1>0, <2>1 DEF TypeOK, WriteReply, WriteFailure, FailWrite, Show, Goto
  <2>2. CASE Upload(m)
    <3>1. drawn[m] - 1 \in 0..MaxCharts
      BY <1>0, <2>2, SlackAssumption DEF TypeOK, Upload
    <3> QED
      BY <1>0, <2>2, <3>1 DEF TypeOK, Upload, Audit
  <2>3. CASE SendReply(m)
    BY <1>0, <2>3 DEF TypeOK, SendReply, Audit, Goto
  <2> QED
    BY <2>1, <2>2, <2>3
<1>2. ASSUME NEW o \in Mentions PROVE Sound(o)'
  <2>0. Sound(o) /\ Sound(m)
    BY <1>0
  <2>1. CASE WriteReply(m) \/ WriteFailure(m) \/ FailWrite(m)
    BY <1>0, <2>0, <2>1 DEF Sound, TypeOK, WriteReply, WriteFailure, FailWrite, Show, Goto
  <2>2. CASE Upload(m)
    BY <1>0, <2>0, <2>2 DEF Sound, TypeOK, Upload, Audit
  <2>3. CASE SendReply(m)
    BY <1>0, <2>0, <2>3 DEF Sound, TypeOK, SendReply, Audit, Goto
  <2> QED
    BY <2>1, <2>2, <2>3
<1> QED
  BY <1>1, <1>2 DEF IInv, Sound, BeatOnlyWhileWorking, AnswerStands, ReplySentMeansReplied,
                    RepliedBeforeCharts

\* A restart ends every handler at once, wherever it was.
LEMMA RestartInv == ASSUME IInv, Restart PROVE IInv'
<1>0. TypeOK /\ \A o \in Mentions : Sound(o)
  BY SoundIsInv
<1>1. TypeOK'
  BY <1>0 DEF TypeOK, Restart
<1>2. ASSUME NEW o \in Mentions PROVE Sound(o)'
  BY <1>0 DEF Sound, TypeOK, Restart
<1> QED
  BY <1>1, <1>2 DEF IInv, Sound, BeatOnlyWhileWorking, AnswerStands, ReplySentMeansReplied,
                    RepliedBeforeCharts

LEMMA StepInv == IInv /\ [Next]_vars => IInv'
<1> SUFFICES ASSUME IInv, [Next]_vars PROVE IInv'
  OBVIOUS
<1>1. CASE UNCHANGED vars
  BY <1>1 DEF vars, IInv, TypeOK, BeatOnlyWhileWorking, AnswerStands, ReplySentMeansReplied,
         RepliedBeforeCharts
<1> QED
  BY <1>1, RestartInv, BeforeInv, DuringInv, AfterInv DEF Next, Handler

LEMMA Invariant == Spec => []IInv
BY InitInv, StepInv, PTL DEF Spec

\* The types of SlackTurn.
THEOREM TypeCorrect == Spec => []TypeOK
<1>1. IInv => TypeOK
  BY DEF IInv
<1> QED
  BY <1>1, Invariant, PTL

\* No way out of a turn leaves its heartbeat running.
THEOREM NoHeartbeatLeft == Spec => []BeatOnlyWhileWorking
<1>1. IInv => BeatOnlyWhileWorking
  BY DEF IInv
<1> QED
  BY <1>1, Invariant, PTL

\* A written answer is only ever replaced by an edit that was given up on.
THEOREM WrittenAnswerStands == Spec => []AnswerStands
<1>1. IInv => AnswerStands
  BY DEF IInv
<1> QED
  BY <1>1, Invariant, PTL

\* reply_sent is audited exactly of the mentions that got through with a reply.
THEOREM AuditAgreesWithThread == Spec => []ReplySentMeansReplied
<1>1. IInv => ReplySentMeansReplied
  BY DEF IInv
<1> QED
  BY <1>1, Invariant, PTL
=============================================================================
