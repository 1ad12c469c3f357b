---------------------------- MODULE OpsBot_proofs ----------------------------
(***************************************************************************)
(* What the bot keeps for any users, policies, threads and turns.  In the  *)
(* bot the gate takes only steps of Gate, and the memo, as it is written,  *)
(* only steps of ThreadMemo, so that what is proved of them alone          *)
(* (Gate_proofs, ThreadMemo_proofs) holds here; on that rests what lies    *)
(* between them.                                                           *)
(***************************************************************************)
EXTENDS OpsBot, TLAPS

GP == INSTANCE Gate_proofs
MP == INSTANCE ThreadMemo_proofs

----------------------------------------------------------------------------
(* The bot implements the gate and the memo.                               *)

\* While the gate is at work it is at work for some turn.
Serves == pc # "idle" => serving \in Turns

LEMMA InitServes == Init => Serves
BY DEF Init, G!Init, Serves

LEMMA StepServes == Serves /\ [Next]_vars => Serves'
<1> SUFFICES ASSUME Serves, [Next]_vars PROVE Serves'
  OBVIOUS
<1>1. CASE Load
  BY <1>1 DEF Load, own, Serves, G!Stat, G!ReadPolicy, G!ReadFails
<1>2. CASE Authorize \/ LookDecided
  BY <1>2 DEF Authorize, LookDecided, Serves, G!Decide, G!DecideNamespace
<1>3. CASE \E t \in Turns : Deliver(t) \/ Look(t) \/ BeginTurn(t) \/ EndTurn(t)
  BY <1>3 DEF Deliver, Look, BeginTurn, EndTurn, gate, Serves
<1>4. CASE Wait \/ Edit \/ UNCHANGED vars
  BY <1>4 DEF Wait, Edit, vars, gate, own, Serves, G!Tick, G!Edit
<1> QED
  BY <1>1, <1>2, <1>3, <1>4 DEF Next

LEMMA GateStep == [Next]_vars => [G!Next]_(G!vars)
<1> SUFFICES ASSUME Next PROVE G!Next \/ UNCHANGED G!vars
  BY DEF vars, gate, G!vars, G!policy_vars, G!bucket_vars
<1>1. CASE Load \/ Authorize \/ LookDecided \/ Wait \/ Edit
  BY <1>1 DEF Load, Authorize, LookDecided, Wait, Edit, G!Next
<1>2. ASSUME NEW t \in Turns, Deliver(t) PROVE G!Next
  BY <1>2, BotAssumption DEF Deliver, G!Next
<1>3. ASSUME NEW t \in Turns, Look(t) PROVE G!Next
  <2>1. PICK namespace \in Namespaces : G!Receive([kind |-> "namespace", namespace |-> namespace])
    BY <1>3 DEF Look
  <2>2. [kind |-> "namespace", namespace |-> namespace] \in Requests
    BY BotAssumption DEF G!Read
  <2> QED
    BY <2>1, <2>2 DEF G!Next
<1>4. ASSUME NEW t \in Turns, BeginTurn(t) PROVE UNCHANGED G!vars
  BY <1>4 DEF BeginTurn, M!Ask, gate, G!vars, G!policy_vars, G!bucket_vars
<1>5. ASSUME NEW t \in Turns, EndTurn(t) PROVE G!Tick
  BY <1>5 DEF EndTurn, M!Finish, M!Raise, M!End, gate, G!Tick, G!policy_vars, G!bucket_vars
<1> QED
  BY <1>1, <1>2, <1>3, <1>4, <1>5 DEF Next, G!Next

LEMMA MemoStep == Serves /\ [Next]_vars => [M!Next]_(M!vars)
<1> SUFFICES ASSUME Serves, Next PROVE M!Next \/ UNCHANGED M!vars
  BY DEF vars, memo, M!vars
<1>1. CASE Load \/ Authorize \/ Edit
  BY <1>1 DEF Load, Authorize, Edit, memo, M!vars, G!Stat, G!ReadPolicy, G!ReadFails, G!Decide,
     G!Edit
<1>2. CASE LookDecided
  <2>1. serving \in Turns /\ now' = now
    BY <1>2 DEF LookDecided, G!DecideNamespace, Serves
  <2> QED
    BY <1>2, <2>1 DEF LookDecided, M!Next, M!vars, memo
<1>3. ASSUME NEW t \in Turns, Deliver(t) \/ Look(t) PROVE UNCHANGED M!vars
  BY <1>3 DEF Deliver, Look, G!Receive, memo, M!vars
<1>4. ASSUME NEW t \in Turns, BeginTurn(t) \/ EndTurn(t) PROVE M!Next
  BY <1>4 DEF BeginTurn, EndTurn, M!Next
<1>5. CASE Wait
  BY <1>5 DEF Wait, M!Next
<1> QED
  BY <1>1, <1>2, <1>3, <1>4, <1>5 DEF Next

\* The gate of the bot is a Gate.
THEOREM BotRunsGate == Spec => GateKept
<1>1. Init => G!Init
  BY DEF Init
<1> QED
  BY <1>1, GateStep, PTL DEF Spec, GateKept, G!Spec

\* The memo of the bot is a ThreadMemo, as it is written.
LEMMA MemoIsThreadMemo == Spec => M!Spec
<1>1. Init => M!Init
  BY DEF Init
<1> QED
  BY <1>1, InitServes, StepServes, MemoStep, PTL DEF Spec, M!Spec

----------------------------------------------------------------------------
(* What was proved of them alone.  The two instances of a component, with  *)
(* its proofs and without, are the same definitions.                       *)

LEMMA Assumptions == GP!GateAssumption /\ MP!MemoAssumption
BY BotAssumption DEF G!GateAssumption, GP!GateAssumption, G!Policy, GP!Policy, G!Event, GP!Event,
   G!Read, GP!Read, M!MemoAssumption, MP!MemoAssumption

LEMMA SameGateInit == G!Init => GP!Init
BY DEF G!Init, GP!Init, G!Files, GP!Files, G!Nobody, GP!Nobody

LEMMA SameGateNext == [G!Next]_(G!vars) => [GP!Next]_(GP!vars)
<1> USE DEF G!policy_vars, GP!policy_vars, G!bucket_vars, GP!bucket_vars
<1>1. ASSUME UNCHANGED G!vars PROVE UNCHANGED GP!vars
  BY <1>1 DEF G!vars, GP!vars
<1>2. ASSUME G!Tick \/ G!Edit PROVE GP!Tick \/ GP!Edit
  BY <1>2 DEF G!Tick, GP!Tick, G!Edit, GP!Edit, G!Files, GP!Files, G!Nobody, GP!Nobody
<1>3. ASSUME NEW r \in Requests, G!Receive(r) PROVE GP!Receive(r)
  BY <1>3 DEF G!Receive, GP!Receive, G!Screened, GP!Screened
<1>4. ASSUME G!Stat \/ G!ReadPolicy \/ G!ReadFails PROVE GP!Stat \/ GP!ReadPolicy \/ GP!ReadFails
  BY <1>4 DEF G!Stat, GP!Stat, G!ReadPolicy, GP!ReadPolicy, G!ReadFails, GP!ReadFails
<1>5. ASSUME G!Decide PROVE GP!Decide
  BY <1>5 DEF G!Decide, GP!Decide, G!Refusal, GP!Refusal, G!Consume, GP!Consume, G!Tokens,
     GP!Tokens, G!AtMost, GP!AtMost, G!SetBucket, GP!SetBucket
<1>6. ASSUME G!DecideNamespace PROVE GP!DecideNamespace
  BY <1>6 DEF G!DecideNamespace, GP!DecideNamespace, G!NamespaceDecision, GP!NamespaceDecision
<1> QED
  BY <1>1, <1>2, <1>3, <1>4, <1>5, <1>6 DEF G!Next, GP!Next

LEMMA SameMemoInit == M!Init => MP!Init
BY DEF M!Init, MP!Init

LEMMA SameRemembered ==
  ASSUME NEW th, NEW blocks
  PROVE  M!Remembered(th, blocks) = MP!Remembered(th, blocks)
<1>1. M!Kept(blocks) = MP!Kept(blocks)
  BY DEF M!Kept, MP!Kept, M!Total, MP!Total, M!Characters, MP!Characters, M!Cardinality,
     MP!Cardinality, M!Min, MP!Min
<1>2. ASSUME NEW cache, NEW keys PROVE M!Without(cache, keys) = MP!Without(cache, keys)
  BY DEF M!Without, MP!Without, M!Restrict, MP!Restrict
<1>3. ASSUME NEW cache PROVE M!Oldest(cache) = MP!Oldest(cache)
  BY DEF M!Oldest, MP!Oldest, M!Cardinality, MP!Cardinality
<1> QED
  BY <1>1, <1>2, <1>3 DEF M!Remembered, MP!Remembered

LEMMA SameMemoNext == [M!Next]_(M!vars) => [MP!Next]_(MP!vars)
<1>1. ASSUME UNCHANGED M!vars PROVE UNCHANGED MP!vars
  BY <1>1 DEF M!vars, MP!vars
<1>2. ASSUME M!Wait PROVE MP!Wait
  BY <1>2 DEF M!Wait, MP!Wait
<1>3. ASSUME NEW t \in Turns, M!Ask(t) PROVE MP!Ask(t)
  BY <1>3 DEF M!Ask, MP!Ask, M!Recall, MP!Recall, M!Expired, MP!Expired, M!Without, MP!Without,
     M!Restrict, MP!Restrict
<1>4. ASSUME NEW t \in Turns, M!Exchange(t) PROVE MP!Exchange(t)
  BY <1>4 DEF M!Exchange, MP!Exchange, M!Own, MP!Own, M!NewBlock, MP!NewBlock,
     M!Cardinality, MP!Cardinality
<1>5. ASSUME NEW t \in Turns, NEW blocks, M!End(t, blocks) PROVE MP!End(t, blocks)
  BY <1>5, SameRemembered DEF M!End, MP!End
<1>6. ASSUME NEW t \in Turns, M!Finish(t) \/ M!Raise(t) PROVE MP!Finish(t) \/ MP!Raise(t)
  BY <1>5, <1>6 DEF M!Finish, MP!Finish, M!Raise, MP!Raise, M!NewBlock, MP!NewBlock
<1> QED
  BY <1>1, <1>2, <1>3, <1>4, <1>5, <1>6 DEF M!Next, MP!Next

LEMMA Alone == Spec => GP!Spec /\ MP!Spec
<1>1. Spec => G!Spec /\ M!Spec
  BY BotRunsGate, MemoIsThreadMemo DEF GateKept
<1> QED
  BY <1>1, SameGateInit, SameGateNext, SameMemoInit, SameMemoNext, PTL
     DEF G!Spec, GP!Spec, M!Spec, MP!Spec

LEMMA SameMemoKept ==
  /\ MP!OwnThreadOnly => M!OwnThreadOnly
  /\ MP!KeepsTailOfLastTurn => M!KeepsTailOfLastTurn
  /\ MP!LeastRecentlyAnsweredGoes => M!LeastRecentlyAnsweredGoes
<1>1. \A th : (M!Answered(th) <=> MP!Answered(th)) /\ M!LastTurn(th) = MP!LastTurn(th)
  BY DEF M!Answered, MP!Answered, M!LastTurn, MP!LastTurn
<1>2. \A blocks : M!Total(blocks, 1) = MP!Total(blocks, 1)
  BY DEF M!Total, MP!Total, M!Characters, MP!Characters, M!Cardinality, MP!Cardinality
<1>3. MP!OwnThreadOnly => M!OwnThreadOnly
  BY DEF M!OwnThreadOnly, MP!OwnThreadOnly
<1>4. MP!KeepsTailOfLastTurn => M!KeepsTailOfLastTurn
  BY <1>1, <1>2 DEF M!KeepsTailOfLastTurn, MP!KeepsTailOfLastTurn
<1>5. MP!LeastRecentlyAnsweredGoes => M!LeastRecentlyAnsweredGoes
  BY DEF M!LeastRecentlyAnsweredGoes, MP!LeastRecentlyAnsweredGoes, M!Answered, MP!Answered,
     M!LastTurn, MP!LastTurn, M!Cardinality, MP!Cardinality
<1> QED
  BY <1>3, <1>4, <1>5

\* So what was proved of the gate alone, and of the memo, is true of the bot:
\* the rate, the policy a decision is taken on, that results stay in their
\* thread, what a thread keeps of them and when it loses them.
THEOREM GuaranteesHold ==
  Spec => [](/\ G!RateBound /\ G!DecidesOnPolicyOnDisk
             /\ M!OwnThreadOnly /\ M!KeepsTailOfLastTurn /\ M!LeastRecentlyAnsweredGoes)
<1>1. GP!Spec => [](GP!RateBound /\ GP!DecidesOnPolicyOnDisk)
  BY Assumptions, GP!NoMoreThanRate, GP!DecisionsFollowFile, PTL
<1>2. MP!Spec => [](MP!OwnThreadOnly /\ MP!KeepsTailOfLastTurn /\ MP!LeastRecentlyAnsweredGoes)
  BY Assumptions, MP!ThreadsAreIsolated, MP!KeepsTheTail, MP!OldestGoFirst, PTL
<1>3. GP!RateBound /\ GP!DecidesOnPolicyOnDisk => G!RateBound /\ G!DecidesOnPolicyOnDisk
  BY DEF G!RateBound, GP!RateBound, G!DecidesOnPolicyOnDisk, GP!DecidesOnPolicyOnDisk
<1> QED
  BY <1>1, <1>2, <1>3, SameMemoKept, Alone, PTL

LEMMA Parts == Spec => [](GP!PolicyInv /\ MP!IInv)
<1>1. GP!Spec => []GP!PolicyInv
  BY Assumptions, GP!PolicyInvariant
<1>2. MP!Spec => []MP!IInv
  BY Assumptions, MP!Invariant
<1> QED
  BY <1>1, <1>2, Alone, PTL

----------------------------------------------------------------------------
(* The policy never goes back: the policy the loader holds is one of the   *)
(* versions the file has had, and only a later version replaces it.        *)

OwnTypes ==
  /\ stage \in [Turns -> {"new", "asking", "refused", "admitted", "running", "over"}]
  /\ serving \in Turns \cup {NoTurn}
  /\ began \in [Turns -> Nat] /\ used \in [Turns -> Seq(Nat)]

UsedInv == \A t \in Turns : \A n \in DOMAIN used[t] : used[t][n] <= cached.version

BotInv == OwnTypes /\ Serves /\ UsedInv

LEMMA Versions ==
  ASSUME GP!PolicyInv
  PROVE  now \in Nat /\ cached.version \in Nat /\ file.version \in Nat
         /\ cached.version <= file.version
BY DEF GP!PolicyInv, GP!TypeOK, GP!LoaderInv, GP!Files

LEMMA CachedOnlyGrows ==
  ASSUME GP!PolicyInv, [Next]_vars
  PROVE  cached'.version \in Nat /\ cached.version <= cached'.version
<1>1. cached' = cached \/ G!ReadPolicy
  BY DEF Next, vars, gate, Load, Authorize, LookDecided, Deliver, Look, BeginTurn, EndTurn, Wait,
     Edit, G!Stat, G!ReadFails, G!Decide, G!DecideNamespace, G!Receive, G!Tick, G!Edit,
     G!policy_vars
<1> QED
  BY <1>1, Versions DEF G!ReadPolicy

\* A decision is taken on the policy the loader holds; nothing else is.
LEMMA UsesCached ==
  ASSUME BotInv, [Next]_vars
  PROVE  \/ used' = used
         \/ /\ serving \in Turns /\ cached' = cached
            /\ used' = [used EXCEPT ![serving] = Append(@, cached.version)]
<1>1. CASE Authorize \/ LookDecided
  BY <1>1 DEF Authorize, LookDecided, Uses, G!Decide, G!DecideNamespace, G!policy_vars, BotInv, Serves
<1>2. CASE ~(Authorize \/ LookDecided)
  BY <1>2 DEF Next, vars, own, Load, Deliver, Look, BeginTurn, EndTurn, Wait, Edit
<1> QED
  BY <1>1, <1>2

LEMMA StepBotInv == GP!PolicyInv /\ BotInv /\ [Next]_vars => BotInv'
<1> SUFFICES ASSUME GP!PolicyInv, BotInv, [Next]_vars PROVE BotInv'
  OBVIOUS
<1>0. now \in Nat /\ cached.version \in Nat /\ cached'.version \in Nat
      /\ cached.version <= cached'.version
  BY Versions, CachedOnlyGrows
<1>1. Serves'
  BY StepServes DEF BotInv
<1>2. used' \in [Turns -> Seq(Nat)] /\ UsedInv'
  <2>1. CASE used' = used
    BY <1>0, <2>1 DEF BotInv, OwnTypes, UsedInv
  <2>2. CASE serving \in Turns /\ cached' = cached
             /\ used' = [used EXCEPT ![serving] = Append(@, cached.version)]
    <3>1. used[serving] \in Seq(Nat) /\ Append(used[serving], cached.version) \in Seq(Nat)
      BY <1>0, <2>2 DEF BotInv, OwnTypes
    <3>2. used' \in [Turns -> Seq(Nat)]
      BY <2>2, <3>1 DEF BotInv, OwnTypes
    <3>3. ASSUME NEW t \in Turns, NEW n \in DOMAIN used'[t] PROVE used'[t][n] <= cached.version
      <4>1. CASE t = serving
        BY <1>0, <2>2, <3>1, <3>3, <4>1 DEF BotInv, OwnTypes, UsedInv
      <4>2. CASE t # serving
        BY <2>2, <3>3, <4>2 DEF BotInv, OwnTypes, UsedInv
      <4> QED
        BY <4>1, <4>2
    <3> QED
      BY <2>2, <3>2, <3>3 DEF UsedInv
  <2> QED
    BY <2>1, <2>2, UsesCached
<1>3. serving' \in Turns \cup {NoTurn}
  BY DEF BotInv, OwnTypes, Next, vars, own, Load, Authorize, LookDecided, Deliver, Look, BeginTurn,
     EndTurn, Wait, Edit
<1>4. began' \in [Turns -> Nat]
  BY <1>0 DEF BotInv, OwnTypes, Next, vars, own, Load, Authorize, LookDecided, Deliver, Look,
     BeginTurn, EndTurn, Wait, Edit
<1>5. stage' \in [Turns -> {"new", "asking", "refused", "admitted", "running", "over"}]
  BY DEF BotInv, OwnTypes, Next, vars, own, Load, Authorize, LookDecided, Deliver, Look, BeginTurn,
     EndTurn, Wait, Edit, Goto
<1> QED
  BY <1>1, <1>2, <1>3, <1>4, <1>5 DEF BotInv, OwnTypes

LEMMA BotInvariant == Spec => [](GP!PolicyInv /\ MP!IInv /\ BotInv)
<1>1. Init => BotInv
  BY InitServes DEF Init, BotInv, OwnTypes, UsedInv
<1> QED
  BY <1>1, StepBotInv, Parts, PTL DEF Spec

\* The types of the bot.
THEOREM TypeCorrect == Spec => []TypeOK
<1>1. GP!PolicyInv => G!TypeOK
  BY DEF GP!PolicyInv, GP!TypeOK, G!TypeOK, GP!Files, G!Files, GP!Nobody, G!Nobody, GP!Verdicts,
     G!Verdicts
<1>2. MP!IInv => M!TypeOK
  BY DEF MP!IInv, MP!MemoTypeOK, M!TypeOK, MP!Block, M!Block, MP!Memo, M!Memo
<1>3. BotInv /\ G!TypeOK /\ M!TypeOK => TypeOK
  BY DEF BotInv, OwnTypes, TypeOK
<1> QED
  BY <1>1, <1>2, <1>3, BotInvariant, PTL

\* A revocation sticks.
THEOREM RevocationSticks == Spec => PolicyNeverGoesBack
<1> DEFINE Sticks == \A s, t \in Turns :
             \A n \in DOMAIN used[s], m \in DOMAIN used'[t] \ DOMAIN used[t] :
               used[s][n] <= used'[t][m]
<1>1. GP!PolicyInv /\ BotInv /\ [Next]_vars => [Sticks]_vars
  <2> SUFFICES ASSUME BotInv, [Next]_vars,
                      NEW s \in Turns, NEW t \in Turns, NEW n \in DOMAIN used[s],
                      NEW m \in DOMAIN used'[t] \ DOMAIN used[t]
               PROVE  used[s][n] <= used'[t][m]
    OBVIOUS
  <2>1. /\ t = serving /\ used[t] \in Seq(Nat)
        /\ used'[t] = Append(used[t], cached.version)
    BY UsesCached DEF BotInv, OwnTypes
  <2>2. used'[t][m] = cached.version
    BY <2>1
  <2> QED
    BY <2>2 DEF BotInv, UsedInv
<1> QED
  BY <1>1, BotInvariant, PTL DEF Spec, PolicyNeverGoesBack

----------------------------------------------------------------------------
(* Silence ends it.  What a turn holds of another turn came to it through  *)
(* the memo of its thread, from turn to turn, each begun within a lifetime *)
(* of the end of the one before: from the end of the turn that read it     *)
(* there is no moment after which the thread was silent for a lifetime.    *)

Bridged(th, s, until) ==
  \A moment \in ended[s]..(until - 1) : Present(th, moment, moment + TTL)

(* The blocks of turns other than me are of turns that are over, and the   *)
(* thread was not silent between them and a moment.                        *)
FromOthers(th, me, blocks, until) ==
  \A i \in DOMAIN blocks : blocks[i].turn # me =>
    blocks[i].turn \in Turns /\ status[blocks[i].turn] = "over" /\ Bridged(th, blocks[i].turn, until)

PastInv == \A t \in Turns : began[t] <= now /\ ended[t] <= now
TalkInv == \A t \in Turns : FromOthers(thread[t], t, talk[t], began[t] - TTL)
KeptInv == \A th \in DOMAIN memos : FromOthers(th, NoTurn, memos[th].blocks, memos[th].at)

SilenceInv == PastInv /\ TalkInv /\ KeptInv

(* What is used of the parts.                                              *)
Typed ==
  /\ now \in Nat /\ TTL \in Nat
  /\ \A th \in DOMAIN memos : /\ th \in Threads /\ memos[th].at \in Nat
                              /\ memos[th].blocks \in Seq(M!Block)
                              /\ \E t \in Turns : memos[th].at = ended[t]
  /\ status \in [Turns -> {"waiting", "running", "over"}]
  /\ thread \in [Turns -> Threads]
  /\ talk \in [Turns -> Seq(M!Block)]
  /\ ended \in [Turns -> Nat]
  /\ began \in [Turns -> Nat]
  /\ NoTurn \notin Turns

LEMMA PartsTyped == ASSUME MP!IInv, BotInv PROVE Typed
<1>1. ASSUME NEW th \in DOMAIN memos
      PROVE  /\ th \in Threads /\ memos[th].at \in Nat /\ memos[th].blocks \in Seq(M!Block)
             /\ \E t \in Turns : memos[th].at = ended[t]
  <2>1. th \in Threads /\ memos[th] \in MP!Memo
    BY DEF MP!IInv, MP!MemoTypeOK
  <2>2. memos[th].at = ended[MP!LastTurn(th)] /\ MP!LastTurn(th) \in Turns
    BY <2>1 DEF MP!IInv, MP!LastTurn, MP!Answered
  <2> QED
    BY <2>1, <2>2 DEF MP!Memo, MP!Block, M!Block
<1> QED
  BY <1>1, BotAssumption DEF MP!IInv, MP!Block, M!Block, Typed, BotInv, OwnTypes, M!MemoAssumption

(* The moves of a turn, as far as silence is concerned.                    *)
Begins(t) == M!Ask(t) /\ began' = [began EXCEPT ![t] = now]

Ends(t) == (M!Finish(t) \/ M!Raise(t)) /\ began' = began

Moves ==
  \/ \E t \in Turns : Begins(t) \/ Ends(t) \/ (M!Exchange(t) /\ began' = began)
  \/ now' \in {now, now + 1} /\ UNCHANGED <<memo, began>>

LEMMA StepMoves == ASSUME BotInv, [Next]_vars PROVE Moves
<1>1. CASE Load \/ Authorize \/ Edit \/ Wait \/ UNCHANGED vars
  BY <1>1 DEF Load, Authorize, Edit, Wait, vars, own, memo, Moves, M!Wait, G!Stat, G!ReadPolicy,
     G!ReadFails, G!Decide, G!Edit
<1>2. CASE LookDecided
  BY <1>2 DEF LookDecided, G!DecideNamespace, Moves, BotInv, Serves
<1>3. ASSUME NEW t \in Turns, Deliver(t) \/ Look(t) PROVE Moves
  BY <1>3 DEF Deliver, Look, G!Receive, Moves
<1>4. ASSUME NEW t \in Turns, BeginTurn(t) \/ EndTurn(t) PROVE Moves
  BY <1>4 DEF BeginTurn, EndTurn, M!Ask, Moves, Begins, Ends
<1> QED
  BY <1>1, <1>2, <1>3, <1>4 DEF Next

\* However a turn ends, it ends a tick from now, with its talk and perhaps
\* the unanswered calls of its own.
LEMMA EndsIs ==
  ASSUME Typed, NEW t \in Turns, Ends(t)
  PROVE  \E blocks \in Seq(M!Block) :
           /\ \A i \in DOMAIN blocks : \/ i \in DOMAIN talk[t] /\ blocks[i] = talk[t][i]
                                       \/ blocks[i].turn = t
           /\ M!End(t, blocks)
<1>1. CASE M!Finish(t)
  BY <1>1 DEF M!Finish, Typed
<1>2. CASE M!Raise(t)
  <2>1. PICK b \in M!Block : b.turn = t /\ M!End(t, Append(talk[t], b))
    <3>1. M!NewBlock(t, 0, FALSE) \in M!Block /\ M!NewBlock(t, 0, FALSE).turn = t
      BY DEF M!NewBlock, M!Block
    <3> QED
      BY <1>2, <3>1 DEF M!Raise
  <2>2. talk[t] \in Seq(M!Block)
    BY DEF Typed
  <2>3. /\ Append(talk[t], b) \in Seq(M!Block)
        /\ \A i \in DOMAIN Append(talk[t], b) :
             \/ i \in DOMAIN talk[t] /\ Append(talk[t], b)[i] = talk[t][i]
             \/ Append(talk[t], b)[i].turn = t
    BY <2>1, <2>2
  <2> QED
    BY <2>1, <2>3
<1> QED
  BY <1>1, <1>2 DEF Ends

(* Present, Bridged and FromOthers after a step, of what it leaves alone.  *)
PresentThen(th, from, until) ==
  \E u \in Turns : /\ thread'[u] = th /\ status'[u] # "waiting"
                   /\ began'[u] <= until /\ (status'[u] = "running" \/ ended'[u] > from)

FromOthersThen(th, me, blocks, until) ==
  \A i \in DOMAIN blocks : blocks[i].turn # me =>
    /\ blocks[i].turn \in Turns /\ status'[blocks[i].turn] = "over"
    /\ \A moment \in ended'[blocks[i].turn]..(until - 1) : PresentThen(th, moment, moment + TTL)

\* Who was there then was there then: a turn at work in its thread before now
\* counts as present when it is over as well.
LEMMA PresentStays ==
  ASSUME Typed, Moves, NEW th, NEW from \in Int, NEW until \in Int, from <= now,
         Present(th, from, until)
  PROVE  PresentThen(th, from, until)
<1>0. PICK u \in Turns : /\ thread[u] = th /\ status[u] # "waiting" /\ began[u] <= until
                         /\ (status[u] = "running" \/ ended[u] > from)
  BY DEF Present
<1>7. SUFFICES /\ thread'[u] = th /\ status'[u] # "waiting" /\ began'[u] <= until
               /\ (status'[u] = "running" \/ ended'[u] > from)
  BY DEF PresentThen
<1>1. ASSUME NEW t \in Turns, Begins(t) PROVE t # u
  BY <1>0, <1>1 DEF Begins, M!Ask
<1>2. ASSUME NEW t \in Turns, Begins(t) \/ M!Exchange(t) PROVE UNCHANGED <<thread, ended>>
  BY <1>2 DEF Begins, M!Ask, M!Exchange
<1>3. CASE \E t \in Turns : Begins(t) \/ (M!Exchange(t) /\ began' = began)
  BY <1>0, <1>1, <1>2, <1>3 DEF Begins, M!Ask, M!Exchange, Typed
<1>4. ASSUME NEW t \in Turns, NEW blocks, M!End(t, blocks), began' = began
      PROVE  /\ thread' = thread /\ status'[u] # "waiting"
             /\ status'[u] = "running" \/ ended'[u] > from
  <2>1. CASE t = u
    BY <1>0, <1>4, <2>1 DEF M!End, Typed
  <2>2. CASE t # u
    BY <1>0, <1>4, <2>2 DEF M!End, Typed
  <2> QED
    BY <2>1, <2>2
<1>5. CASE \E t \in Turns : Ends(t)
  BY <1>0, <1>4, <1>5, EndsIs DEF Ends
<1>6. CASE UNCHANGED <<memo, began>>
  BY <1>0, <1>6 DEF memo
<1> QED
  BY <1>3, <1>5, <1>6 DEF Moves

LEMMA OverStays ==
  ASSUME Typed, Moves, NEW s \in Turns, status[s] = "over"
  PROVE  status'[s] = "over" /\ ended'[s] = ended[s]
<1>1. ASSUME NEW t \in Turns, Begins(t) \/ M!Exchange(t) PROVE status'[s] = "over" /\ ended' = ended
  BY <1>1 DEF Begins, M!Ask, M!Exchange, Typed
<1>2. ASSUME NEW t \in Turns, NEW blocks, M!End(t, blocks)
      PROVE  status'[s] = "over" /\ ended'[s] = ended[s]
  BY <1>2 DEF M!End, Typed
<1>3. CASE UNCHANGED <<memo, began>>
  BY <1>3 DEF memo
<1> QED
  BY <1>1, <1>2, <1>3, EndsIs DEF Moves

LEMMA OthersStay ==
  ASSUME Typed, Moves, NEW th, NEW me, NEW blocks \in Seq(M!Block),
         NEW until \in Int, until <= now + 1, FromOthers(th, me, blocks, until)
  PROVE  FromOthersThen(th, me, blocks, until)
<1> SUFFICES ASSUME NEW i \in DOMAIN blocks, blocks[i].turn # me
             PROVE  /\ blocks[i].turn \in Turns /\ status'[blocks[i].turn] = "over"
                    /\ \A moment \in ended'[blocks[i].turn]..(until - 1) :
                         PresentThen(th, moment, moment + TTL)
  BY DEF FromOthersThen
<1> DEFINE s == blocks[i].turn
<1>1. s \in Turns /\ status[s] = "over" /\ Bridged(th, s, until)
  BY DEF FromOthers
<1>2. status'[s] = "over" /\ ended'[s] = ended[s]
  BY <1>1, OverStays
<1>3. ASSUME NEW moment \in ended[s]..(until - 1) PROVE PresentThen(th, moment, moment + TTL)
  <2>1. ended[s] \in Int /\ moment \in Int /\ moment <= now /\ moment + TTL \in Int
    BY <1>1, <1>3 DEF Typed
  <2>2. Present(th, moment, moment + TTL)
    BY <1>1 DEF Bridged
  <2> QED
    BY <2>1, <2>2, PresentStays
<1> QED
  BY <1>1, <1>2, <1>3

\* Fewer blocks of others, or more of one's own, and a shorter time.
LEMMA FewerOthers ==
  ASSUME Typed, ended' \in [Turns -> Nat], NEW th, NEW me, NEW blocks, NEW until \in Int,
         FromOthersThen(th, me, blocks, until),
         NEW them, NEW fewer, NEW sooner \in Int, sooner <= until,
         \A i \in DOMAIN fewer :
           \/ fewer[i].turn = them
           \/ fewer[i].turn # me /\ \E j \in DOMAIN blocks : fewer[i] = blocks[j]
  PROVE  FromOthersThen(th, them, fewer, sooner)
<1> SUFFICES ASSUME NEW i \in DOMAIN fewer, fewer[i].turn # them
             PROVE  /\ fewer[i].turn \in Turns /\ status'[fewer[i].turn] = "over"
                    /\ \A moment \in ended'[fewer[i].turn]..(sooner - 1) :
                         PresentThen(th, moment, moment + TTL)
  BY DEF FromOthersThen
<1>1. PICK j \in DOMAIN blocks : fewer[i] = blocks[j] /\ blocks[j].turn # me
  OBVIOUS
<1>2. /\ blocks[j].turn \in Turns /\ status'[blocks[j].turn] = "over"
      /\ \A moment \in ended'[blocks[j].turn]..(until - 1) : PresentThen(th, moment, moment + TTL)
  BY <1>1 DEF FromOthersThen
<1>3. ended'[blocks[j].turn] \in Int
  BY <1>2
<1> QED
  BY <1>1, <1>2, <1>3

LEMMA StepPast == ASSUME Typed, PastInv, Moves PROVE PastInv' /\ now' \in Nat /\ now <= now'
<1>1. ASSUME NEW t \in Turns, Begins(t) \/ (M!Exchange(t) /\ began' = began)
      PROVE  PastInv' /\ now' = now
  <2>1. now' = now /\ ended' = ended
    BY <1>1 DEF Begins, M!Ask, M!Exchange
  <2>2. \A u \in Turns : began'[u] \in {began[u], now}
    BY <1>1 DEF Begins, Typed
  <2>3. ASSUME NEW u \in Turns PROVE began'[u] <= now /\ ended[u] <= now
    <3>1. began[u] <= now /\ ended[u] <= now /\ now \in Nat
      BY DEF PastInv, Typed
    <3> QED
      BY <2>2, <3>1
  <2> QED
    BY <2>1, <2>3 DEF PastInv
<1>2. ASSUME NEW t \in Turns, NEW blocks, M!End(t, blocks), began' = began
      PROVE  PastInv' /\ now' = now + 1
  BY <1>2 DEF M!End, PastInv, Typed
<1>3. CASE now' \in {now, now + 1} /\ UNCHANGED <<memo, began>>
  BY <1>3 DEF memo, PastInv, Typed
<1> QED
  BY <1>1, <1>2, <1>3, EndsIs DEF Moves, Ends, Typed

\* A turn that begins is given what its thread keeps, within the lifetime of
\* the turn that left it.
LEMMA BeginsTalk ==
  ASSUME Typed, SilenceInv, Moves, NEW t \in Turns, Begins(t), ended' \in [Turns -> Nat]
  PROVE  FromOthersThen(thread[t], t, M!Recall(thread[t]), now - TTL)
<1> DEFINE th == thread[t]
<1>1. CASE th \in DOMAIN memos /\ ~M!Expired(th) /\ M!Recall(th) = memos[th].blocks
  <2>1. /\ memos[th].at \in Int /\ now - TTL \in Int /\ now - TTL <= memos[th].at
        /\ memos[th].blocks \in Seq(M!Block) /\ memos[th].at <= now + 1
    BY <1>1 DEF M!Expired, Typed, SilenceInv, PastInv
  <2>2. FromOthers(th, NoTurn, memos[th].blocks, memos[th].at)
    BY <1>1 DEF SilenceInv, KeptInv
  <2>3. FromOthersThen(th, NoTurn, memos[th].blocks, memos[th].at)
    BY <2>1, <2>2, OthersStay
  <2>4. \A i \in DOMAIN memos[th].blocks : memos[th].blocks[i].turn # NoTurn
    <3>1. ASSUME NEW i \in DOMAIN memos[th].blocks PROVE memos[th].blocks[i] \in M!Block
      BY <2>1
    <3> QED
      BY <3>1 DEF M!Block, Typed
  <2>5. FromOthersThen(th, t, memos[th].blocks, now - TTL)
    BY <2>1, <2>3, <2>4, FewerOthers
  <2> QED
    BY <1>1, <2>5
<1>2. CASE M!Recall(th) = <<>>
  BY <1>2 DEF FromOthersThen
<1> QED
  BY <1>1, <1>2 DEF M!Recall

\* What a turn leaves in the memo of its thread: its own, and what it was given
\* by turns the thread was not silent since.
LEMMA EndsKept ==
  ASSUME Typed, SilenceInv, Moves, NEW t \in Turns, began' = began, NEW blocks \in Seq(M!Block),
         M!End(t, blocks), FromOthersThen(thread[t], t, blocks, began[t] - TTL)
  PROVE  FromOthersThen(thread[t], NoTurn, blocks, now + 1)
<1>0. /\ now \in Nat /\ TTL \in Nat /\ began[t] \in Nat
      /\ ended'[t] = now + 1 /\ status'[t] = "over" /\ thread' = thread
  BY DEF Typed, M!End
<1> DEFINE th == thread[t]
           until == now + 1
<1>3. ASSUME NEW i \in DOMAIN blocks
      PROVE  /\ blocks[i].turn \in Turns /\ status'[blocks[i].turn] = "over"
             /\ \A moment \in ended'[blocks[i].turn]..(until - 1) :
                  PresentThen(th, moment, moment + TTL)
  <2> DEFINE s == blocks[i].turn
  <2>0. s \in Turns
    <3>1. blocks[i] \in M!Block
      OBVIOUS
    <3> QED
      BY <3>1 DEF M!Block
  <2>1. CASE s = t
    BY <1>0, <2>0, <2>1
  <2>2. CASE s # t
    <3>1. /\ status'[s] = "over"
          /\ \A moment \in ended'[s]..(began[t] - TTL - 1) : PresentThen(thread[t], moment, moment + TTL)
      BY <2>2 DEF FromOthersThen
    <3>2. ended'[s] \in Nat
      BY <1>0, <2>0, <2>2 DEF M!End, Typed
    <3>3. ASSUME NEW moment \in ended'[s]..now PROVE PresentThen(thread[t], moment, moment + TTL)
      <4>1. moment \in Int /\ moment >= ended'[s] /\ moment <= now
        BY <3>2, <1>0, <3>3
      <4>2. CASE moment <= began[t] - TTL - 1
        BY <1>0, <3>1, <3>2, <4>1, <4>2
      <4>3. CASE began[t] <= moment + TTL
        BY <1>0, <4>1, <4>3 DEF PresentThen
      <4> QED
        BY <1>0, <4>1, <4>2, <4>3
    <3> QED
      BY <1>0, <2>0, <3>1, <3>3
  <2> QED
    BY <2>0, <2>1, <2>2
<1> HIDE DEF th, until
<1>4. FromOthersThen(th, NoTurn, blocks, until)
  BY <1>3 DEF FromOthersThen
<1> QED
  BY <1>4 DEF th, until

\* What a turn holds when it ends is its own, or what it held before.
LEMMA EndsTalk ==
  ASSUME Typed, SilenceInv, Moves, ended' \in [Turns -> Nat],
         NEW t \in Turns, NEW blocks \in Seq(M!Block),
         \A i \in DOMAIN blocks : \/ i \in DOMAIN talk[t] /\ blocks[i] = talk[t][i]
                                 \/ blocks[i].turn = t
  PROVE  FromOthersThen(thread[t], t, blocks, began[t] - TTL)
<1>1. /\ talk[t] \in Seq(M!Block) /\ began[t] - TTL \in Int /\ began[t] - TTL <= now + 1
  BY DEF Typed, SilenceInv, PastInv
<1>2. FromOthersThen(thread[t], t, talk[t], began[t] - TTL)
  BY <1>1, OthersStay DEF SilenceInv, TalkInv
<1>3. \A i \in DOMAIN blocks :
        \/ blocks[i].turn = t
        \/ blocks[i].turn # t /\ \E j \in DOMAIN talk[t] : blocks[i] = talk[t][j]
  OBVIOUS
<1> QED
  BY <1>1, <1>2, <1>3, FewerOthers

LEMMA StepTalk ==
  ASSUME Typed, SilenceInv, Moves, ended' \in [Turns -> Nat], NEW t \in Turns
  PROVE  FromOthersThen(thread'[t], t, talk'[t], began'[t] - TTL)
<1>1. CASE thread'[t] = thread[t] /\ talk'[t] = talk[t] /\ began'[t] = began[t]
  BY <1>1, EndsTalk DEF Typed
<1>2. ASSUME NEW u \in Turns, Begins(u)
      PROVE  /\ thread' = thread /\ began'[u] = now /\ talk'[u] = M!Recall(thread[u])
             /\ t # u => talk'[t] = talk[t] /\ began'[t] = began[t]
  BY <1>2 DEF Begins, M!Ask, Typed
<1>3. CASE Begins(t)
  BY <1>2, <1>3, BeginsTalk
<1>4. CASE M!Exchange(t) /\ began' = began
  <2>1. PICK b : b.turn = t /\ b \in M!Block /\ talk' = [talk EXCEPT ![t] = Append(@, b)]
    <3>1. PICK size \in Sizes : talk' = [talk EXCEPT ![t] = Append(@, M!NewBlock(t, size, TRUE))]
      BY <1>4 DEF M!Exchange
    <3>2. M!NewBlock(t, size, TRUE) \in M!Block /\ M!NewBlock(t, size, TRUE).turn = t
      BY BotAssumption DEF M!MemoAssumption, M!NewBlock, M!Block
    <3> QED
      BY <3>1, <3>2
  <2>2. talk[t] \in Seq(M!Block) /\ talk'[t] = Append(talk[t], b) /\ thread' = thread
    BY <1>4, <2>1 DEF Typed, M!Exchange
  <2>3. /\ talk'[t] \in Seq(M!Block)
        /\ \A i \in DOMAIN talk'[t] : \/ i \in DOMAIN talk[t] /\ talk'[t][i] = talk[t][i]
                                      \/ talk'[t][i].turn = t
    BY <2>1, <2>2
  <2> QED
    BY <1>4, <2>2, <2>3, EndsTalk
<1>5. CASE Ends(t)
  <2>1. PICK blocks \in Seq(M!Block) :
          /\ \A i \in DOMAIN blocks : \/ i \in DOMAIN talk[t] /\ blocks[i] = talk[t][i]
                                      \/ blocks[i].turn = t
          /\ M!End(t, blocks)
    BY <1>5, EndsIs
  <2>2. talk'[t] = blocks /\ thread' = thread /\ began' = began
    BY <1>5, <2>1 DEF M!End, Ends, Typed
  <2> QED
    BY <2>1, <2>2, EndsTalk
<1>6. ASSUME NEW u \in Turns, u # t, Ends(u) \/ (M!Exchange(u) /\ began' = began)
      PROVE  thread' = thread /\ talk'[t] = talk[t] /\ began' = began
  BY <1>6 DEF Ends, M!Finish, M!Raise, M!End, M!Exchange, Typed
<1>7. CASE UNCHANGED <<memo, began>>
  BY <1>1, <1>7 DEF memo
<1> QED
  BY <1>1, <1>2, <1>3, <1>4, <1>5, <1>6, <1>7 DEF Moves

LEMMA StepKept ==
  ASSUME Typed, MP!IInv, SilenceInv, Moves, ended' \in [Turns -> Nat], NEW th \in DOMAIN memos'
  PROVE  FromOthersThen(th, NoTurn, memos'[th].blocks, memos'[th].at)
<1>1. CASE th \in DOMAIN memos /\ memos'[th] = memos[th]
  <2>1. /\ memos[th].blocks \in Seq(M!Block) /\ memos[th].at \in Int /\ memos[th].at <= now + 1
    BY <1>1 DEF Typed, SilenceInv, PastInv
  <2> QED
    BY <1>1, <2>1, OthersStay DEF SilenceInv, KeptInv
<1>2. ASSUME NEW t \in Turns, Begins(t) PROVE th \in DOMAIN memos /\ memos'[th] = memos[th]
  BY <1>2 DEF Begins, M!Ask, M!Without, M!Restrict
<1>3. ASSUME NEW t \in Turns, Ends(t)
      PROVE  FromOthersThen(th, NoTurn, memos'[th].blocks, memos'[th].at)
  <2>1. PICK blocks \in Seq(M!Block) :
          /\ \A i \in DOMAIN blocks : \/ i \in DOMAIN talk[t] /\ blocks[i] = talk[t][i]
                                      \/ blocks[i].turn = t
          /\ M!End(t, blocks)
    BY <1>3, EndsIs
  <2>2. \/ th \in DOMAIN memos /\ memos'[th] = memos[th]
        \/ th = thread[t] /\ memos'[th] = [at |-> now', blocks |-> MP!Kept(blocks)]
    BY <2>1, SameRemembered, Assumptions, MP!RememberedIs DEF M!End
  <2>3. CASE th = thread[t] /\ memos'[th] = [at |-> now', blocks |-> MP!Kept(blocks)]
    <3>1. FromOthersThen(th, t, blocks, began[t] - TTL)
      BY <2>1, <2>3, EndsTalk
    <3>2. now' = now + 1 /\ now + 1 \in Int /\ FromOthersThen(th, NoTurn, blocks, now + 1)
      <4>1. began' = began /\ now' = now + 1 /\ now + 1 \in Int
        BY <1>3, <2>1 DEF Ends, M!End, Typed
      <4>2. FromOthersThen(thread[t], NoTurn, blocks, now + 1)
        BY <2>1, <2>3, <3>1, <4>1, EndsKept
      <4> QED
        BY <2>3, <4>1, <4>2
    <3>3. \A i \in DOMAIN MP!Kept(blocks) : \E j \in DOMAIN blocks : MP!Kept(blocks)[i] = blocks[j]
      <4>1. blocks \in Seq(MP!Block)
        BY DEF M!Block, MP!Block
      <4>2. \/ MP!Kept(blocks) = <<>>
            \/ \E n \in 1..Len(blocks) : MP!Kept(blocks) = SubSeq(blocks, n, Len(blocks))
        BY <4>1, Assumptions, MP!KeptIsTail
      <4>3. ASSUME NEW n \in 1..Len(blocks), NEW i \in DOMAIN SubSeq(blocks, n, Len(blocks))
            PROVE  \E j \in DOMAIN blocks : SubSeq(blocks, n, Len(blocks))[i] = blocks[j]
        <5>1. /\ n + i - 1 \in DOMAIN blocks
              /\ SubSeq(blocks, n, Len(blocks))[i] = blocks[n + i - 1]
          OBVIOUS
        <5> QED
          BY <5>1
      <4>4. CASE MP!Kept(blocks) = <<>>
        BY <4>4
      <4>5. ASSUME NEW n \in 1..Len(blocks), MP!Kept(blocks) = SubSeq(blocks, n, Len(blocks)),
                   NEW i \in DOMAIN MP!Kept(blocks)
            PROVE  \E j \in DOMAIN blocks : MP!Kept(blocks)[i] = blocks[j]
        <5>1. i \in DOMAIN SubSeq(blocks, n, Len(blocks))
          BY <4>5, Zenon
        <5>2. PICK j \in DOMAIN blocks : SubSeq(blocks, n, Len(blocks))[i] = blocks[j]
          BY <4>3, <5>1
        <5> QED
          BY <4>5, <5>2, Zenon
      <4> QED
        BY <4>2, <4>4, <4>5, Zenon
    <3>4. \A j \in DOMAIN blocks : blocks[j].turn # NoTurn
      <4>1. ASSUME NEW j \in DOMAIN blocks PROVE blocks[j] \in M!Block
        OBVIOUS
      <4> QED
        BY <4>1 DEF M!Block, Typed
    <3>5. FromOthersThen(th, NoTurn, MP!Kept(blocks), now + 1)
      BY <3>2, <3>3, <3>4, FewerOthers
    <3> QED
      BY <2>3, <3>2, <3>5
  <2> QED
    BY <1>1, <2>2, <2>3
<1>4. ASSUME NEW t \in Turns, M!Exchange(t) PROVE memos' = memos
  BY <1>4 DEF M!Exchange
<1> QED
  BY <1>1, <1>2, <1>3, <1>4 DEF Moves, memo

LEMMA StepSilence == MP!IInv /\ MP!IInv' /\ BotInv /\ SilenceInv /\ [Next]_vars => SilenceInv'
<1> SUFFICES ASSUME MP!IInv, MP!IInv', BotInv, SilenceInv, [Next]_vars PROVE SilenceInv'
  OBVIOUS
<1>1. Typed /\ Moves /\ ended' \in [Turns -> Nat]
  BY PartsTyped, StepMoves DEF MP!IInv
<1>2. PastInv'
  BY <1>1, StepPast DEF SilenceInv
<1>3. TalkInv'
  BY <1>1, StepTalk DEF TalkInv, FromOthers, FromOthersThen, Bridged, Present, PresentThen
<1>4. KeptInv'
  BY <1>1, StepKept DEF KeptInv, FromOthers, FromOthersThen, Bridged, Present, PresentThen
<1> QED
  BY <1>2, <1>3, <1>4 DEF SilenceInv

\* Nothing is shown past a silence of a lifetime.
THEOREM SilenceEndsIt == Spec => []NeverOutlivesSilence
<1>1. Init => SilenceInv
  BY DEF Init, M!Init, SilenceInv, PastInv, TalkInv, KeptInv, FromOthers
<1>2. SilenceInv => NeverOutlivesSilence
  BY DEF SilenceInv, TalkInv, FromOthers, Bridged, NeverOutlivesSilence
<1> QED
  BY <1>1, <1>2, StepSilence, BotInvariant, PTL DEF Spec
=============================================================================
