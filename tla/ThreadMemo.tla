----------------------------- MODULE ThreadMemo -----------------------------
(***************************************************************************)
(* The tool results an Agent carries from one turn of a Slack thread to    *)
(* the next (agent.py, _recall and _remember): an in-process cache with a  *)
(* lifetime, a size and a number of threads.  Turns of one thread or of    *)
(* several run side by side and interleave at their awaits.                *)
(*                                                                         *)
(* A turn's conversation is abstracted to its blocks: one assistant        *)
(* message that calls tools, with the tool messages that answer it.        *)
(***************************************************************************)
EXTENDS Integers, Sequences, FiniteSetsExt, Functions

CONSTANTS
  Threads,
  Turns,
  TTL,           \* agent_thread_memo_ttl_s
  CharBudget,    \* agent_thread_memo_char_budget
  MaxThreads,    \* agent_thread_memo_max_threads
  Sizes,         \* how long the content of a block may be
  RaisingTurns,  \* turns that may call a tool whose dispatch raises
  MaxExchanges,  \* BOUND: blocks one turn adds
  MaxTime        \* BOUND: the clock stops here

ASSUME MemoAssumption ==
  /\ TTL \in Nat /\ CharBudget \in Nat /\ MaxThreads \in Nat \ {0}
  /\ Sizes \subseteq Nat /\ RaisingTurns \subseteq Turns
  /\ MaxExchanges \in Nat /\ MaxTime \in Nat

Block == [turn : Turns, size : Nat, whole : BOOLEAN]
Memo == [at : Nat, blocks : Seq(Block)]

VARIABLES
  now,
  memos,   \* Agent._memos: thread -> Memo, for the threads it holds
  status,  \* turn -> waiting | running | over
  thread,  \* turn -> the thread it was asked in
  talk,    \* turn -> the blocks of its conversation, the carried ones first
  ended,   \* turn -> when it ended
  last     \* thread -> the turns that ended in it, in order (history)

vars == <<now, memos, status, thread, talk, ended, last>>

Init ==
  /\ now = 0
  /\ memos = [th \in {} |-> [at |-> 0, blocks |-> <<>>]]
  /\ status = [t \in Turns |-> "waiting"]
  /\ thread \in [Turns -> Threads]
  /\ talk = [t \in Turns |-> <<>>]
  /\ ended = [t \in Turns |-> 0]
  /\ last = [th \in Threads |-> <<>>]

----------------------------------------------------------------------------
Without(cache, keys) == Restrict(cache, DOMAIN cache \ keys)

\* The length of the text of the blocks from one on: the number of its characters.
Characters(blocks, from) == UNION {{i} \X (1..blocks[i].size) : i \in from..Len(blocks)}
Total(blocks, from) == Cardinality(Characters(blocks, from))

Expired(th) == th \in DOMAIN memos /\ now - memos[th].at > TTL

\* _recall: the memo of the thread, which a look at it past its time deletes.
RecallStale(th) == IF th \in DOMAIN memos THEN memos[th].blocks ELSE <<>>  \* fault: no lifetime
RecallNewest(th) ==  \* fault: the memo of whichever thread was answered last
  IF memos = <<>> \/ Expired(th) THEN <<>>
  ELSE (CHOOSE memo \in Range(memos) : \A m \in Range(memos) : m.at <= memo.at).blocks

Recall(th) ==
  IF CharBudget > 0 /\ th \in DOMAIN memos /\ ~Expired(th) THEN memos[th].blocks ELSE <<>>

Ask(t) ==
  /\ status[t] = "waiting"
  /\ status' = [status EXCEPT ![t] = "running"]
  /\ talk' = [talk EXCEPT ![t] = Recall(thread[t])]
  /\ memos' = IF CharBudget > 0 /\ Expired(thread[t]) THEN Without(memos, {thread[t]}) ELSE memos
  /\ UNCHANGED <<now, thread, ended, last>>

Own(t) == {i \in DOMAIN talk[t] : talk[t][i].turn = t}
NewBlock(t, size, whole) == [turn |-> t, size |-> size, whole |-> whole]

\* One step of the loop: the model calls tools and every call is answered.
Exchange(t) ==
  /\ status[t] = "running"
  /\ Cardinality(Own(t)) < MaxExchanges
  /\ \E size \in Sizes : talk' = [talk EXCEPT ![t] = Append(@, NewBlock(t, size, TRUE))]
  /\ UNCHANGED <<now, memos, status, thread, ended, last>>

\* The newest blocks that fit, and the very newest whether it fits or not.
KeptOldest(blocks) ==  \* fault: counted from the front
  LET fits == {n \in 0..Len(blocks) : Total(SubSeq(blocks, 1, n), 1) <= CharBudget}
  IN  SubSeq(blocks, 1, Max(fits))

Kept(blocks) ==
  LET fits == {i \in 1..Len(blocks) : i = Len(blocks) \/ Total(blocks, i) <= CharBudget}
  IN  IF blocks = <<>> THEN <<>> ELSE SubSeq(blocks, Min(fits), Len(blocks))

\* The threads answered longest ago, as many as the cache has too many.
Newest(cache) ==  \* fault: sorted the other way round
  LET excess == Cardinality(DOMAIN cache) - MaxThreads
  IN  {th \in DOMAIN cache :
         Cardinality({o \in DOMAIN cache : cache[o].at > cache[th].at}) < excess}

Oldest(cache) ==
  LET excess == Cardinality(DOMAIN cache) - MaxThreads
  IN  {th \in DOMAIN cache :
         Cardinality({o \in DOMAIN cache : cache[o].at < cache[th].at}) < excess}

\* _remember: the turn's blocks replace whatever the thread had, nothing included.
Remembered(th, blocks) ==
  LET memo == [at |-> now', blocks |-> Kept(blocks)]
      cache == [k \in DOMAIN memos \cup {th} |-> IF k = th THEN memo ELSE memos[k]]
  IN  IF CharBudget = 0 THEN memos
      ELSE IF Kept(blocks) = <<>> THEN Without(memos, {th})
      ELSE Without(cache, Oldest(cache))

\* The finally clause of _run: whatever ended the turn, it is remembered.
End(t, blocks) ==
  /\ status[t] = "running"
  /\ now < MaxTime /\ now' = now + 1
  /\ status' = [status EXCEPT ![t] = "over"]
  /\ talk' = [talk EXCEPT ![t] = blocks]
  /\ ended' = [ended EXCEPT ![t] = now']
  /\ last' = [last EXCEPT ![thread[t]] = Append(@, t)]
  /\ memos' = Remembered(thread[t], blocks)
  /\ UNCHANGED thread

Finish(t) == End(t, talk[t])

\* A tool that raises leaves the loop with its calls unanswered.
Raise(t) == t \in RaisingTurns /\ End(t, Append(talk[t], NewBlock(t, 0, FALSE)))

Wait == now < MaxTime /\ now' = now + 1 /\ UNCHANGED <<memos, status, thread, talk, ended, last>>

Next == Wait \/ \E t \in Turns : Ask(t) \/ Exchange(t) \/ Finish(t) \/ Raise(t)

Spec == Init /\ [][Next]_vars

----------------------------------------------------------------------------
(* Properties.                                                             *)

TypeOK ==
  /\ now \in Nat
  /\ \E K \in SUBSET Threads : memos \in [K -> Memo]
  /\ status \in [Turns -> {"waiting", "running", "over"}]
  /\ thread \in [Turns -> Threads]
  /\ talk \in [Turns -> Seq(Block)]
  /\ ended \in [Turns -> Nat]
  /\ last \in [Threads -> Seq(Turns)]

\* No turn reads, and no thread keeps, tool results fetched for another thread:
\* the people in that channel may not be those who may see them.
OwnThreadOnly ==
  /\ \A t \in Turns : \A i \in DOMAIN talk[t] : thread[talk[t][i].turn] = thread[t]
  /\ \A th \in DOMAIN memos : \A i \in DOMAIN memos[th].blocks :
       thread[memos[th].blocks[i].turn] = th

Answered(th) == last[th] # <<>>
LastTurn(th) == last[th][Len(last[th])]

\* What a thread keeps is the end of the conversation of the turn that ended
\* last in it, from there back without a gap, within the budget unless it is a
\* single block; a turn running beside it neither mixes into it nor outlives it.
KeepsTailOfLastTurn ==
  \A th \in DOMAIN memos :
    LET blocks == memos[th].blocks
        whole == talk[LastTurn(th)]
    IN  /\ Answered(th) /\ memos[th].at = ended[LastTurn(th)]
        /\ blocks # <<>> /\ blocks = SubSeq(whole, Len(whole) - Len(blocks) + 1, Len(whole))
        /\ Len(blocks) > 1 => Total(blocks, 1) <= CharBudget

\* The cache holds no more threads than it may, and a thread only loses its
\* last turn's results to age, or to as many threads as the cache holds that
\* were all answered after it ("The least recently answered is evicted first").
LeastRecentlyAnsweredGoes ==
  /\ Cardinality(DOMAIN memos) <= MaxThreads
  /\ CharBudget > 0 =>
       \A th \in Threads \ DOMAIN memos :
         Answered(th) /\ talk[LastTurn(th)] # <<>> =>
           \/ now - ended[LastTurn(th)] > TTL
           \/ Cardinality({o \in Threads : Answered(o) /\ ended[LastTurn(o)] > ended[LastTurn(th)]})
                >= MaxThreads

\* A turn that starts with results carried over starts within the lifetime of
\* the last turn that ended in its thread.
CarriesOnlyWithinLifetime ==
  [][\A t \in Turns : status[t] = "waiting" /\ talk'[t] # <<>> =>
       Answered(thread[t]) /\ now - ended[LastTurn(thread[t])] <= TTL]_vars

\* README, "Bounded three ways -- 20k characters, 30 minutes, 32 threads":
\* results are replayed no longer than that after the turn that fetched them.
ReplayedIsFresh ==
  [][\A t \in Turns : status[t] = "waiting" =>
       \A i \in DOMAIN talk'[t] : now - ended[talk'[t][i].turn] <= TTL]_vars
=============================================================================
