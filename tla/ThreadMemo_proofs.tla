------------------------- MODULE ThreadMemo_proofs -------------------------
(***************************************************************************)
(* What ThreadMemo keeps for any number of threads and turns, any lifetime *)
(* and any sizes: results stay in the thread they were fetched for, none   *)
(* is carried into a turn that starts after its thread's lifetime, what a  *)
(* thread keeps is the end of its last turn's conversation, and it loses   *)
(* that to age or to more recent threads only.                             *)
(***************************************************************************)
EXTENDS ThreadMemo, FiniteSetTheorems, TLAPS

Conversation(blocks) == blocks \in Seq(Block)

(* Every block of a conversation was fetched by a turn of that thread.     *)
FetchedIn(th, blocks) == \A i \in DOMAIN blocks : thread[blocks[i].turn] = th

MemoTypeOK == memos \in [DOMAIN memos -> Memo] /\ DOMAIN memos \subseteq Threads

IInv ==
  /\ now \in Nat /\ MemoTypeOK
  /\ status \in [Turns -> {"waiting", "running", "over"}]
  /\ thread \in [Turns -> Threads]
  /\ talk \in [Turns -> Seq(Block)]
  /\ ended \in [Turns -> Nat]
  /\ last \in [Threads -> Seq(Turns)]
  /\ OwnThreadOnly
  /\ \A t \in Turns : status[t] = "waiting" => talk[t] = <<>>
  /\ \A th \in Threads : \A i \in DOMAIN last[th] : status[last[th][i]] = "over"
  /\ \A th \in DOMAIN memos : Answered(th) /\ memos[th].at = ended[LastTurn(th)]
  /\ CharBudget = 0 => DOMAIN memos = {}

\* A nonempty set of naturals has a least member, so Min picks a member.
LEMMA HasLeast == ASSUME NEW S \in SUBSET Nat, S # {} PROVE \E x \in S : \A y \in S : x =< y
<1> DEFINE Less == {p \in Nat \X Nat : p[1] < p[2]}
<1>1. IsWellFoundedOn(Less, Nat)
  BY NatLessThanWellFounded DEF OpToRel
<1>2. \E x \in S : \A y \in S : ~(<<y, x>> \in Less)
  <2> HIDE DEF Less
  <2> QED
    BY <1>1, WFMin
<1>3. ASSUME NEW x \in Nat, NEW y \in Nat, y < x PROVE <<y, x>> \in Less
  BY <1>3
<1> HIDE DEF Less
<1>4. PICK x \in S : \A y \in S : ~(<<y, x>> \in Less)
  BY <1>2
<1>5. ASSUME NEW y \in S PROVE x =< y
  <2>1. x \in Nat /\ y \in Nat
    OBVIOUS
  <2>2. ~(y < x)
    BY <1>3, <1>4, <2>1
  <2> QED
    BY <2>1, <2>2
<1> QED
  BY <1>5

LEMMA MinIsMember == ASSUME NEW S \in SUBSET Nat, S # {} PROVE Min(S) \in S
BY HasLeast DEF Min

\* What is kept of a conversation is its end, from some block on.
LEMMA KeptIsTail ==
  ASSUME NEW blocks \in Seq(Block)
  PROVE  \/ Kept(blocks) = <<>>
         \/ \E n \in 1..Len(blocks) : Kept(blocks) = SubSeq(blocks, n, Len(blocks))
<1>1. CASE blocks = <<>>
  BY <1>1 DEF Kept
<1>2. CASE blocks # <<>>
  <2> DEFINE fits == {i \in 1..Len(blocks) : i = Len(blocks) \/ Total(blocks, i) <= CharBudget}
  <2>1. fits \in SUBSET Nat /\ Len(blocks) \in fits
    BY <1>2
  <2>2. Min(fits) \in fits
    BY <2>1, MinIsMember
  <2>3. Kept(blocks) = SubSeq(blocks, Min(fits), Len(blocks))
    BY <1>2 DEF Kept
  <2> QED
    BY <2>2, <2>3
<1> QED
  BY <1>1, <1>2

\* So it is a conversation too, and of the same thread.
LEMMA KeptIsOfThread ==
  ASSUME NEW th, NEW blocks \in Seq(Block), FetchedIn(th, blocks)
  PROVE  Kept(blocks) \in Seq(Block) /\ FetchedIn(th, Kept(blocks))
<1>1. CASE Kept(blocks) = <<>>
  BY <1>1 DEF FetchedIn
<1>2. ASSUME NEW n \in 1..Len(blocks), Kept(blocks) = SubSeq(blocks, n, Len(blocks))
      PROVE  Kept(blocks) \in Seq(Block) /\ FetchedIn(th, Kept(blocks))
  BY <1>2 DEF FetchedIn
<1> QED
  BY <1>1, <1>2, KeptIsTail

\* A turn is given what its thread keeps, if anything.
LEMMA RecallIsOfThread ==
  ASSUME IInv, NEW th \in Threads
  PROVE  Recall(th) \in Seq(Block) /\ FetchedIn(th, Recall(th))
<1>1. CASE th \in DOMAIN memos
  <2>1. memos[th].blocks \in Seq(Block)
    BY <1>1 DEF IInv, MemoTypeOK, Memo
  <2>2. FetchedIn(th, memos[th].blocks)
    BY <1>1 DEF IInv, OwnThreadOnly, FetchedIn
  <2> QED
    BY <2>1, <2>2 DEF Recall, FetchedIn
<1>2. CASE th \notin DOMAIN memos
  BY <1>2 DEF Recall, FetchedIn
<1> QED
  BY <1>1, <1>2

(* After a turn, what every thread keeps is what it kept before or the     *)
(* tail of that turn's conversation, stamped with the present.             *)
LEMMA RememberedIs ==
  ASSUME NEW th, NEW blocks
  PROVE  \A k \in DOMAIN Remembered(th, blocks) :
           \/ k \in DOMAIN memos /\ Remembered(th, blocks)[k] = memos[k]
              /\ (k # th \/ CharBudget = 0)
           \/ k = th /\ Remembered(th, blocks)[k] = [at |-> now', blocks |-> Kept(blocks)]
BY DEF Remembered, Without, Restrict, Oldest

LEMMA RememberedIsFunction ==
  ASSUME MemoTypeOK, NEW th, NEW blocks
  PROVE  Remembered(th, blocks)
           = [k \in DOMAIN Remembered(th, blocks) |-> Remembered(th, blocks)[k]]
BY DEF Remembered, Without, Restrict, MemoTypeOK

LEMMA InitInv == Init => IInv
BY DEF Init, IInv, MemoTypeOK, OwnThreadOnly, Answered

\* The talks stay with their threads when turn t's becomes one of its thread.
LEMMA TalksOfThreads ==
  ASSUME IInv, NEW t \in Turns, NEW blocks \in Seq(Block), FetchedIn(thread[t], blocks),
         talk' = [talk EXCEPT ![t] = blocks], thread' = thread
  PROVE  /\ talk' \in [Turns -> Seq(Block)]
         /\ \A u \in Turns : \A i \in DOMAIN talk'[u] : thread'[talk'[u][i].turn] = thread'[u]
BY DEF IInv, OwnThreadOnly, FetchedIn

LEMMA AskInv == ASSUME IInv, NEW t \in Turns, Ask(t) PROVE IInv'
<1>1. thread[t] \in Threads
  BY DEF IInv
<1>2. Recall(thread[t]) \in Seq(Block) /\ FetchedIn(thread[t], Recall(thread[t]))
  BY <1>1, RecallIsOfThread
<1>3. /\ talk' \in [Turns -> Seq(Block)]
      /\ \A u \in Turns : \A i \in DOMAIN talk'[u] : thread'[talk'[u][i].turn] = thread'[u]
  BY <1>2, TalksOfThreads DEF Ask
<1>4. /\ DOMAIN memos' \subseteq DOMAIN memos
      /\ memos' = [k \in DOMAIN memos' |-> memos[k]]
  BY DEF Ask, Without, Restrict, IInv, MemoTypeOK
<1>5. MemoTypeOK'
  BY <1>4 DEF IInv, MemoTypeOK
<1>6. OwnThreadOnly'
  <2>1. \A th \in DOMAIN memos' : th \in DOMAIN memos /\ memos'[th] = memos[th]
    BY <1>4
  <2>2. thread' = thread
    BY DEF Ask
  <2>3. \A th \in DOMAIN memos' : \A i \in DOMAIN memos'[th].blocks :
          thread'[memos'[th].blocks[i].turn] = th
    BY <2>1, <2>2 DEF IInv, OwnThreadOnly
  <2> QED
    BY <1>3, <2>3 DEF OwnThreadOnly
<1>7. \A th \in DOMAIN memos' : Answered(th)' /\ memos'[th].at = (ended[LastTurn(th)])'
  BY <1>4 DEF Ask, IInv, Answered, LastTurn
<1>8. \A u \in Turns : status'[u] = "waiting" => talk'[u] = <<>>
  BY DEF Ask, IInv
<1>9. \A th \in Threads : \A i \in DOMAIN last'[th] : status'[last'[th][i]] = "over"
  BY DEF Ask, IInv
<1>10. CharBudget = 0 => DOMAIN memos' = {}
  BY <1>4 DEF IInv
<1>11. status' \in [Turns -> {"waiting", "running", "over"}]
  BY DEF Ask, IInv
<1>12. UNCHANGED <<now, thread, ended, last>>
  BY DEF Ask
<1> QED
  BY <1>3, <1>5, <1>6, <1>7, <1>8, <1>9, <1>10, <1>11, <1>12 DEF IInv

\* A block turn t adds is one of t's thread.
LEMMA AppendOwn ==
  ASSUME IInv, NEW t \in Turns, NEW size \in Nat, NEW whole \in BOOLEAN
  PROVE  LET blocks == Append(talk[t], NewBlock(t, size, whole))
         IN  blocks \in Seq(Block) /\ FetchedIn(thread[t], blocks)
<1>1. NewBlock(t, size, whole) \in Block /\ NewBlock(t, size, whole).turn = t
  BY DEF NewBlock, Block
<1>2. talk[t] \in Seq(Block) /\ FetchedIn(thread[t], talk[t])
  BY DEF IInv, OwnThreadOnly, FetchedIn
<1> QED
  BY <1>1, <1>2 DEF FetchedIn

LEMMA ExchangeInv == ASSUME IInv, NEW t \in Turns, Exchange(t) PROVE IInv'
<1>1. PICK size \in Sizes : talk' = [talk EXCEPT ![t] = Append(talk[t], NewBlock(t, size, TRUE))]
  BY DEF Exchange
<1>2. /\ talk' \in [Turns -> Seq(Block)]
      /\ \A u \in Turns : \A i \in DOMAIN talk'[u] : thread'[talk'[u][i].turn] = thread'[u]
  BY <1>1, AppendOwn, TalksOfThreads, MemoAssumption DEF Exchange
<1>3. OwnThreadOnly'
  BY <1>2 DEF Exchange, IInv, OwnThreadOnly
<1>4. \A u \in Turns : status'[u] = "waiting" => talk'[u] = <<>>
  BY <1>1 DEF Exchange, IInv
<1>5. UNCHANGED <<now, memos, status, thread, ended, last>>
  BY DEF Exchange
<1>6. MemoTypeOK' /\ \A th \in DOMAIN memos' : Answered(th)' /\ memos'[th].at = (ended[LastTurn(th)])'
  BY <1>5 DEF IInv, MemoTypeOK, Answered, LastTurn
<1> QED
  BY <1>2, <1>3, <1>4, <1>5, <1>6 DEF IInv

\* However a turn ends, what it leaves in the cache is its thread's own.
LEMMA EndInv ==
  ASSUME IInv, NEW t \in Turns, NEW blocks \in Seq(Block), FetchedIn(thread[t], blocks),
         End(t, blocks)
  PROVE  IInv'
<1> DEFINE th == thread[t]
<1>1. th \in Threads /\ now' \in Nat /\ th' = th
  BY DEF End, IInv
<1>2. /\ talk' \in [Turns -> Seq(Block)]
      /\ \A u \in Turns : \A i \in DOMAIN talk'[u] : thread'[talk'[u][i].turn] = thread'[u]
  BY TalksOfThreads DEF End
<1>3. Kept(blocks) \in Seq(Block) /\ FetchedIn(th, Kept(blocks))
  BY KeptIsOfThread
<1>4. \A k \in DOMAIN memos' :
        \/ k \in DOMAIN memos /\ memos'[k] = memos[k] /\ k # th
        \/ k = th /\ memos'[k] = [at |-> now', blocks |-> Kept(blocks)]
  BY RememberedIs DEF End, IInv
<1>5. memos' = [k \in DOMAIN memos' |-> memos'[k]]
  BY RememberedIsFunction DEF End, IInv
<1>6. MemoTypeOK'
  <2>1. [at |-> now', blocks |-> Kept(blocks)] \in Memo
    BY <1>1, <1>3 DEF Memo
  <2>2. \A k \in DOMAIN memos' : memos'[k] \in Memo /\ k \in Threads
    BY <1>1, <1>4, <2>1 DEF IInv, MemoTypeOK
  <2> QED
    BY <1>5, <2>2 DEF MemoTypeOK
<1>7. OwnThreadOnly'
  <2>1. thread' = thread
    BY DEF End
  <2> SUFFICES ASSUME NEW k \in DOMAIN memos'
               PROVE  \A i \in DOMAIN memos'[k].blocks : thread'[memos'[k].blocks[i].turn] = k
    BY <1>2 DEF OwnThreadOnly
  <2>2. CASE k \in DOMAIN memos /\ memos'[k] = memos[k]
    BY <2>1, <2>2 DEF IInv, OwnThreadOnly
  <2>3. CASE k = th /\ memos'[k] = [at |-> now', blocks |-> Kept(blocks)]
    BY <1>3, <2>1, <2>3 DEF FetchedIn
  <2> QED
    BY <1>4, <2>2, <2>3
<1>8. \A u \in Turns : status'[u] = "waiting" => talk'[u] = <<>>
  BY DEF End, IInv
<1>9. \A k \in Threads : \A i \in DOMAIN last'[k] : status'[last'[k][i]] = "over"
  <2> SUFFICES ASSUME NEW k \in Threads, NEW i \in DOMAIN last'[k]
               PROVE  status'[last'[k][i]] = "over"
    OBVIOUS
  <2>1. CASE k = th
    <3>1. last[k] \in Seq(Turns) /\ last'[k] = Append(last[k], t)
      BY <1>1, <2>1 DEF End, IInv
    <3>2. \/ i \in DOMAIN last[k] /\ last'[k][i] = last[k][i] /\ last[k][i] \in Turns
          \/ last'[k][i] = t
      BY ONLY <3>1, i \in DOMAIN last'[k]
    <3>3. status'[t] = "over" /\ \A u \in Turns : status[u] = "over" => status'[u] = "over"
      BY DEF End, IInv
    <3>4. \A j \in DOMAIN last[k] : status[last[k][j]] = "over"
      BY DEF IInv
    <3> QED
      BY ONLY <3>2, <3>3, <3>4
  <2>2. CASE k # th
    BY <1>1, <2>2 DEF End, IInv
  <2> QED
    BY <2>1, <2>2
<1>10. \A k \in DOMAIN memos' : Answered(k)' /\ memos'[k].at = (ended[LastTurn(k)])'
  <2> SUFFICES ASSUME NEW k \in DOMAIN memos'
               PROVE  last'[k] # <<>> /\ memos'[k].at = ended'[last'[k][Len(last'[k])]]
    BY DEF Answered, LastTurn
  <2>1. CASE k = th /\ memos'[k] = [at |-> now', blocks |-> Kept(blocks)]
    <3>1. last'[th] = Append(last[th], t) /\ last[th] \in Seq(Turns)
      BY <1>1 DEF End, IInv
    <3>2. last'[th] # <<>> /\ last'[th][Len(last'[th])] = t
      <4>1. /\ Len(Append(last[th], t)) = Len(last[th]) + 1 /\ Len(last[th]) \in Nat
            /\ Append(last[th], t)[Len(last[th]) + 1] = t
        BY ONLY <3>1, t \in Turns
      <4>2. Append(last[th], t) # <<>>
        <5>1. \A s : Len(s) \in Nat /\ Len(s) # 0 => s # <<>>
          OBVIOUS
        <5>2. Len(Append(last[th], t)) \in Nat /\ Len(Append(last[th], t)) # 0
          BY ONLY <4>1
        <5> QED
          BY ONLY <5>1, <5>2, Zenon
      <4> QED
        BY ONLY <3>1, <4>1, <4>2
    <3>3. ended'[t] = now'
      BY DEF End, IInv
    <3> QED
      BY <2>1, <3>2, <3>3
  <2>2. CASE k \in DOMAIN memos /\ memos'[k] = memos[k] /\ k # th
    <3>1. k \in Threads /\ last'[k] = last[k] /\ Answered(k) /\ memos[k].at = ended[LastTurn(k)]
      BY <1>1, <2>2 DEF End, IInv, MemoTypeOK
    <3>2. LastTurn(k) \in Turns /\ status[LastTurn(k)] = "over"
      BY <3>1 DEF IInv, Answered, LastTurn
    <3>3. ended'[LastTurn(k)] = ended[LastTurn(k)]
      BY <3>2 DEF End, IInv
    <3> QED
      BY <2>2, <3>1, <3>3 DEF Answered, LastTurn
  <2> QED
    BY <1>4, <2>1, <2>2
<1>11. CharBudget = 0 => DOMAIN memos' = {}
  BY DEF End, Remembered, IInv
<1>12. /\ status' \in [Turns -> {"waiting", "running", "over"}]
       /\ thread' \in [Turns -> Threads]
       /\ ended' \in [Turns -> Nat]
  BY <1>1 DEF End, IInv
<1>13. last' \in [Threads -> Seq(Turns)]
  BY <1>1 DEF End, IInv
<1> QED
  BY <1>1, <1>2, <1>6, <1>7, <1>8, <1>9, <1>10, <1>11, <1>12, <1>13 DEF IInv

\* Every step of ThreadMemo keeps the invariant.
LEMMA StepInv == IInv /\ [Next]_vars => IInv'
<1> SUFFICES ASSUME IInv, [Next]_vars PROVE IInv'
  OBVIOUS
<1>1. CASE UNCHANGED vars \/ Wait
  <2>1. now' \in Nat /\ UNCHANGED <<memos, status, thread, talk, ended, last>>
    BY <1>1 DEF vars, Wait, IInv
  <2>2. MemoTypeOK' /\ OwnThreadOnly'
    BY <2>1 DEF IInv, MemoTypeOK, OwnThreadOnly
  <2>3. \A th \in DOMAIN memos' : Answered(th)' /\ memos'[th].at = (ended[LastTurn(th)])'
    BY <2>1 DEF IInv, Answered, LastTurn
  <2> QED
    BY <2>1, <2>2, <2>3 DEF IInv
<1>2. ASSUME NEW t \in Turns, Finish(t) PROVE IInv'
  <2>1. talk[t] \in Seq(Block) /\ FetchedIn(thread[t], talk[t])
    BY DEF IInv, OwnThreadOnly, FetchedIn
  <2> QED
    BY <1>2, <2>1, EndInv DEF Finish
<1>3. ASSUME NEW t \in Turns, Raise(t) PROVE IInv'
  BY <1>3, AppendOwn, EndInv DEF Raise
<1> QED
  BY <1>1, <1>2, <1>3, AskInv, ExchangeInv DEF Next

LEMMA Invariant == Spec => []IInv
BY InitInv, StepInv, PTL DEF Spec

\* No turn reads, and no thread keeps, what was fetched for another thread.
THEOREM ThreadsAreIsolated == Spec => []OwnThreadOnly
<1>1. IInv => OwnThreadOnly
  BY DEF IInv
<1> QED
  BY <1>1, Invariant, PTL

\* The types of ThreadMemo.
THEOREM TypeCorrect == Spec => []TypeOK
<1>1. IInv => TypeOK
  BY DEF IInv, MemoTypeOK, TypeOK
<1> QED
  BY <1>1, Invariant, PTL

\* Whatever a turn starts with was stored within the lifetime before it.
THEOREM CarriesWithinLifetime == Spec => CarriesOnlyWithinLifetime
<1> DEFINE InTime(t) == status[t] = "waiting" /\ talk'[t] # <<>> =>
                          Answered(thread[t]) /\ now - ended[LastTurn(thread[t])] <= TTL
<1>1. ASSUME IInv, [Next]_vars, NEW t \in Turns PROVE InTime(t)
  <2> SUFFICES ASSUME status[t] = "waiting", talk'[t] # <<>> PROVE InTime(t)
    OBVIOUS
  <2> USE <1>1
  <2>1. talk[t] = <<>>
    BY DEF IInv
  <2>2. Ask(t)
    <3>1. ASSUME NEW u \in Turns, Exchange(u) \/ Finish(u) \/ Raise(u) PROVE u # t
      BY <3>1 DEF Exchange, Finish, Raise, End
    <3>2. ASSUME NEW u \in Turns, u # t, Ask(u) \/ Exchange(u) \/ Finish(u) \/ Raise(u)
          PROVE  talk'[t] = talk[t]
      BY <3>2 DEF Ask, Exchange, Finish, Raise, End, IInv
    <3> QED
      BY <2>1, <3>1, <3>2 DEF Next, Wait, vars
  <2>3. talk'[t] = Recall(thread[t])
    BY <2>2 DEF Ask, IInv
  <2>4. thread[t] \in DOMAIN memos /\ ~Expired(thread[t])
    BY <2>3 DEF Recall
  <2>5. now - memos[thread[t]].at <= TTL
    <3>1. now \in Nat /\ memos[thread[t]].at \in Nat /\ TTL \in Nat
      BY <2>4, MemoAssumption DEF IInv, MemoTypeOK, Memo
    <3> QED
      BY <2>4, <3>1 DEF Expired
  <2> QED
    BY <2>4, <2>5 DEF IInv
<1>2. IInv /\ [Next]_vars => [\A t \in Turns : InTime(t)]_vars
  BY <1>1
<1> QED
  BY <1>2, Invariant, PTL DEF Spec, CarriesOnlyWithinLifetime

----------------------------------------------------------------------------
(* What a thread keeps.  A turn that is over changes its conversation no   *)
(* more, so what was kept of it stays the end of it.                       *)

\* Characters counted from a block on are those of the blocks from there, each
\* in a place further to the front.
LEMMA TotalOfTail ==
  ASSUME NEW blocks \in Seq(Block), NEW n \in 1..Len(blocks)
  PROVE  Total(SubSeq(blocks, n, Len(blocks)), 1) = Total(blocks, n)
<1> DEFINE tail == SubSeq(blocks, n, Len(blocks))
           A == Characters(blocks, n)
           B == Characters(tail, 1)
           front == [c \in A |-> <<c[1] - n + 1, c[2]>>]
<1>1. /\ Len(blocks) \in Nat /\ Len(tail) = Len(blocks) - n + 1
      /\ \A i \in 1..Len(tail) : tail[i] = blocks[i + n - 1]
  OBVIOUS
<1> HIDE DEF tail
<1>2. \A c : c \in A <=> \E i \in n..Len(blocks) : \E k \in 1..blocks[i].size : c = <<i, k>>
  BY DEF Characters
<1>3. \A c : c \in B <=> \E i \in 1..Len(tail) : \E k \in 1..tail[i].size : c = <<i, k>>
  BY DEF Characters
<1> HIDE DEF A, B
<1>4. ASSUME NEW c \in A PROVE front[c] \in B
  <2>1. PICK i \in n..Len(blocks) : \E k \in 1..blocks[i].size : c = <<i, k>>
    BY <1>2
  <2>2. PICK k \in 1..blocks[i].size : c = <<i, k>>
    BY <2>1
  <2>3. i - n + 1 \in 1..Len(tail) /\ (i - n + 1) + n - 1 = i
    BY <1>1
  <2>4. tail[i - n + 1] = blocks[i] /\ front[c] = <<i - n + 1, k>>
    BY <1>1, <2>2, <2>3
  <2> QED
    BY <1>3, <2>3, <2>4
<1>5. ASSUME NEW c \in A, NEW d \in A, front[c] = front[d] PROVE c = d
  <2>1. PICK i \in n..Len(blocks), k \in Nat : c = <<i, k>>
    BY <1>2
  <2>2. PICK j \in n..Len(blocks), l \in Nat : d = <<j, l>>
    BY <1>2
  <2>3. i - n + 1 = j - n + 1 /\ k = l
    BY <1>5, <2>1, <2>2
  <2> QED
    BY <2>1, <2>2, <2>3
<1>6. ASSUME NEW d \in B PROVE \E c \in A : front[c] = d
  <2>1. PICK i \in 1..Len(tail) : \E k \in 1..tail[i].size : d = <<i, k>>
    BY <1>3
  <2>2. PICK k \in 1..tail[i].size : d = <<i, k>>
    BY <2>1
  <2>3. i + n - 1 \in n..Len(blocks) /\ (i + n - 1) - n + 1 = i /\ tail[i] = blocks[i + n - 1]
    BY <1>1
  <2>4. <<i + n - 1, k>> \in A
    BY <1>2, <2>2, <2>3
  <2> QED
    BY <2>2, <2>3, <2>4
<1>7. front \in Bijection(A, B)
  BY <1>4, <1>5, <1>6 DEF Bijection, Injection, Surjection, IsInjective
<1>8. IsFiniteSet(A)
  <2> DEFINE texts == {{i} \X (1..blocks[i].size) : i \in n..Len(blocks)}
             text == [i \in n..Len(blocks) |-> {i} \X (1..blocks[i].size)]
  <2>1. text \in Surjection(n..Len(blocks), texts)
    BY DEF Surjection
  <2>2. IsFiniteSet(n..Len(blocks))
    BY <1>1, FS_Interval
  <2>3. ASSUME NEW i \in n..Len(blocks) PROVE IsFiniteSet({i} \X (1..blocks[i].size))
    <3>1. blocks[i].size \in Nat
      <4>1. blocks[i] \in Block
        BY <1>1
      <4> QED
        BY <4>1 DEF Block
    <3>2. \A m \in Nat : IsFiniteSet(1..m)
      BY FS_Interval
    <3>3. IsFiniteSet({i})
      BY FS_Singleton
    <3> QED
      BY <3>1, <3>2, <3>3, FS_Product
  <2>4. \A T \in texts : IsFiniteSet(T)
    BY <2>3
  <2>5. A = UNION texts
    BY DEF A, Characters
  <2> HIDE DEF texts, text
  <2>6. IsFiniteSet(texts)
    BY <2>1, <2>2, FS_Surjection
  <2> QED
    BY <2>4, <2>5, <2>6, FS_UNION
<1>9. ExistsBijection(A, B)
  BY <1>7 DEF ExistsBijection
<1>10. Cardinality(B) = Cardinality(A)
  BY <1>8, <1>9, FS_Bijection
<1> QED
  BY <1>10 DEF Total, A, B, tail

\* Blocks are kept from the end, within the budget unless it is one alone.
KeptOf(whole, blocks) ==
  /\ blocks # <<>> /\ blocks = SubSeq(whole, Len(whole) - Len(blocks) + 1, Len(whole))
  /\ Len(blocks) > 1 => Total(blocks, 1) <= CharBudget

LEMMA KeptIsKeptOf ==
  ASSUME NEW blocks \in Seq(Block), blocks # <<>>
  PROVE  KeptOf(blocks, Kept(blocks))
<1> DEFINE fits == {i \in 1..Len(blocks) : i = Len(blocks) \/ Total(blocks, i) <= CharBudget}
           n == Min(fits)
           tail == SubSeq(blocks, n, Len(blocks))
<1>1. fits \in SUBSET Nat /\ Len(blocks) \in fits
  OBVIOUS
<1>2. n \in fits
  BY <1>1, MinIsMember
<1>3. Kept(blocks) = tail
  BY DEF Kept
<1>4. n \in 1..Len(blocks) /\ (n = Len(blocks) \/ Total(blocks, n) <= CharBudget)
  BY <1>2
<1>5. Total(tail, 1) = Total(blocks, n)
  BY <1>4, TotalOfTail
<1> HIDE DEF n
<1>6. Len(blocks) \in Nat /\ Len(tail) = Len(blocks) - n + 1 /\ tail # <<>>
  <2>1. Len(blocks) \in Nat
    OBVIOUS
  <2>2. Len(tail) = Len(blocks) - n + 1
    BY <1>4, <2>1
  <2>3. tail # <<>>
    <3>1. Len(tail) > 0
      BY <1>4, <2>1, <2>2
    <3> HIDE DEF tail
    <3>2. tail = <<>> => Len(tail) = 0
      OBVIOUS
    <3> QED
      BY <3>1, <3>2
  <2> QED
    BY <2>1, <2>2, <2>3
<1>7. Len(blocks) - Len(tail) + 1 = n
  BY <1>4, <1>6
<1> HIDE DEF tail
<1>8. Len(tail) > 1 => Total(tail, 1) <= CharBudget
  BY <1>4, <1>5, <1>6
<1>9. tail = SubSeq(blocks, Len(blocks) - Len(tail) + 1, Len(blocks))
  BY <1>7 DEF tail
<1> QED
  BY <1>3, <1>6, <1>8, <1>9 DEF KeptOf

TailInv == IInv /\ \A th \in DOMAIN memos : KeptOf(talk[LastTurn(th)], memos[th].blocks)

LEMMA InitTail == Init => TailInv
BY InitInv DEF TailInv, Init

\* While the turns that are over keep their conversations, so do the threads
\* whose memo and last turn stay.
LEMMA TailOfUntouched ==
  ASSUME TailInv, NEW th \in DOMAIN memos, UNCHANGED last[th], memos'[th] = memos[th],
         \A u \in Turns : status[u] = "over" => talk'[u] = talk[u]
  PROVE  KeptOf(talk'[LastTurn(th)'], memos'[th].blocks)
<1>1. th \in Threads /\ Answered(th)
  BY DEF TailInv, IInv, MemoTypeOK
<1>2. LastTurn(th) \in Turns /\ status[LastTurn(th)] = "over"
  BY <1>1 DEF TailInv, IInv, Answered, LastTurn
<1>3. LastTurn(th)' = LastTurn(th)
  BY DEF LastTurn
<1> QED
  BY <1>2, <1>3 DEF TailInv

LEMMA EndTail ==
  ASSUME TailInv, NEW t \in Turns, NEW blocks \in Seq(Block), End(t, blocks)
  PROVE  \A th \in DOMAIN memos' : KeptOf(talk'[LastTurn(th)'], memos'[th].blocks)
<1> SUFFICES ASSUME NEW th \in DOMAIN memos'
             PROVE  KeptOf(talk'[LastTurn(th)'], memos'[th].blocks)
  OBVIOUS
<1>1. \/ th \in DOMAIN memos /\ memos'[th] = memos[th] /\ th # thread[t]
      \/ th = thread[t] /\ memos'[th] = [at |-> now', blocks |-> Kept(blocks)]
  BY RememberedIs DEF End, TailInv, IInv
<1>2. CASE th \in DOMAIN memos /\ memos'[th] = memos[th] /\ th # thread[t]
  <2>1. UNCHANGED last[th]
    BY <1>2 DEF End, TailInv, IInv, MemoTypeOK
  <2>2. \A u \in Turns : status[u] = "over" => talk'[u] = talk[u]
    BY DEF End, TailInv, IInv
  <2> QED
    BY <1>2, <2>1, <2>2, TailOfUntouched
<1>3. CASE th = thread[t] /\ memos'[th] = [at |-> now', blocks |-> Kept(blocks)]
  <2>1. Kept(blocks) # <<>>
    <3>1. memos' = Remembered(th, blocks) /\ CharBudget # 0
      BY <1>3 DEF End, TailInv, IInv, Remembered
    <3> QED
      BY <3>1 DEF Remembered, Without, Restrict
  <2>2. blocks # <<>>
    BY <2>1 DEF Kept
  <2>3. th \in Threads /\ last[th] \in Seq(Turns) /\ last'[th] = Append(last[th], t)
    BY <1>3 DEF End, TailInv, IInv
  <2>4. LastTurn(th)' = t
    BY <2>3 DEF LastTurn
  <2>5. talk'[t] = blocks
    BY DEF End, TailInv, IInv
  <2> QED
    BY <1>3, <2>2, <2>4, <2>5, KeptIsKeptOf
<1> QED
  BY <1>1, <1>2, <1>3

LEMMA StepTail == TailInv /\ [Next]_vars => TailInv'
<1> SUFFICES ASSUME TailInv, [Next]_vars
             PROVE  \A th \in DOMAIN memos' : KeptOf(talk'[LastTurn(th)'], memos'[th].blocks)
  BY StepInv DEF TailInv, LastTurn
<1>1. ASSUME UNCHANGED last,
             \A th \in DOMAIN memos' : th \in DOMAIN memos /\ memos'[th] = memos[th],
             \A u \in Turns : status[u] = "over" => talk'[u] = talk[u]
      PROVE  \A th \in DOMAIN memos' : KeptOf(talk'[LastTurn(th)'], memos'[th].blocks)
  BY <1>1, TailOfUntouched
<1>2. CASE UNCHANGED vars \/ Wait
  BY <1>1, <1>2 DEF vars, Wait
<1>3. ASSUME NEW t \in Turns, Ask(t)
      PROVE  \A th \in DOMAIN memos' : KeptOf(talk'[LastTurn(th)'], memos'[th].blocks)
  <2>1. \A th \in DOMAIN memos' : th \in DOMAIN memos /\ memos'[th] = memos[th]
    BY <1>3 DEF Ask, Without, Restrict
  <2>2. UNCHANGED last /\ \A u \in Turns : status[u] = "over" => talk'[u] = talk[u]
    BY <1>3 DEF Ask, TailInv, IInv
  <2> QED
    BY <1>1, <2>1, <2>2
<1>4. ASSUME NEW t \in Turns, Exchange(t)
      PROVE  \A th \in DOMAIN memos' : KeptOf(talk'[LastTurn(th)'], memos'[th].blocks)
  <2>1. UNCHANGED <<memos, last>> /\ \A u \in Turns : status[u] = "over" => talk'[u] = talk[u]
    BY <1>4 DEF Exchange, TailInv, IInv
  <2> QED
    BY <1>1, <2>1
<1>5. ASSUME NEW t \in Turns, Finish(t)
      PROVE  \A th \in DOMAIN memos' : KeptOf(talk'[LastTurn(th)'], memos'[th].blocks)
  <2>1. talk[t] \in Seq(Block)
    BY DEF TailInv, IInv
  <2> QED
    BY <1>5, <2>1, EndTail DEF Finish
<1>6. ASSUME NEW t \in Turns, Raise(t)
      PROVE  \A th \in DOMAIN memos' : KeptOf(talk'[LastTurn(th)'], memos'[th].blocks)
  <2>1. Append(talk[t], NewBlock(t, 0, FALSE)) \in Seq(Block)
    BY AppendOwn DEF TailInv
  <2> QED
    BY <1>6, <2>1, EndTail DEF Raise
<1> QED
  BY <1>2, <1>3, <1>4, <1>5, <1>6 DEF Next

\* A thread keeps the end of the conversation of the turn that ended last in
\* it, within the budget, whatever runs beside it.
THEOREM KeepsTheTail == Spec => []KeepsTailOfLastTurn
<1>1. TailInv => KeepsTailOfLastTurn
  BY DEF TailInv, IInv, KeptOf, KeepsTailOfLastTurn
<1> QED
  BY <1>1, InitTail, StepTail, PTL DEF Spec

----------------------------------------------------------------------------
(* Who is evicted.  Turns end at different times, so the threads of the    *)
(* cache are ordered by when they were answered, and counting the older    *)
(* and the newer ones says how many there are.                             *)

Older(cache, th) == {o \in DOMAIN cache : cache[o].at < cache[th].at}
Newer(cache, th) == {o \in DOMAIN cache : cache[o].at > cache[th].at}

Ordered(cache) ==
  /\ IsFiniteSet(DOMAIN cache)
  /\ \A k \in DOMAIN cache : cache[k].at \in Nat
  /\ \A k, o \in DOMAIN cache : cache[k].at = cache[o].at => k = o

LEMMA OlderAndNewer ==
  ASSUME NEW cache, Ordered(cache), NEW th \in DOMAIN cache
  PROVE  /\ Cardinality(Older(cache, th)) \in Nat /\ Cardinality(Newer(cache, th)) \in Nat
         /\ Cardinality(DOMAIN cache)
              = Cardinality(Older(cache, th)) + Cardinality(Newer(cache, th)) + 1
<1> DEFINE older == Older(cache, th)
           newer == Newer(cache, th)
<1>1. IsFiniteSet(older) /\ IsFiniteSet(newer)
  <2>1. older \in SUBSET DOMAIN cache /\ newer \in SUBSET DOMAIN cache
    BY DEF Older, Newer
  <2> HIDE DEF older, newer
  <2> QED
    BY <2>1, FS_Subset DEF Ordered
<1>2. older \cap newer = {} /\ th \notin older \cup newer
  BY DEF Older, Newer, Ordered
<1>3. DOMAIN cache = (older \cup newer) \cup {th}
  BY DEF Older, Newer, Ordered
<1> HIDE DEF older, newer
<1>4. Cardinality(older) \in Nat /\ Cardinality(newer) \in Nat /\ Cardinality({}) = 0
  BY <1>1, FS_CardinalityType, FS_EmptySet
<1>5. /\ IsFiniteSet(older \cup newer)
      /\ Cardinality(older \cup newer) = Cardinality(older) + Cardinality(newer)
  <2>1. Cardinality(older \cap newer) = 0
    BY <1>2, <1>4
  <2>2. /\ IsFiniteSet(older \cup newer)
        /\ Cardinality(older \cup newer)
             = Cardinality(older) + Cardinality(newer) - Cardinality(older \cap newer)
    BY <1>1, FS_Union
  <2> QED
    BY <1>4, <2>1, <2>2
<1>6. Cardinality(DOMAIN cache) = Cardinality(older \cup newer) + 1
  BY <1>2, <1>3, <1>5, FS_AddElement
<1> QED
  BY <1>4, <1>5, <1>6 DEF older, newer

\* Evicting the oldest leaves no more threads than there may be, of a cache
\* with one more at most.
LEMMA EvictingIsEnough ==
  ASSUME NEW cache, Ordered(cache), Cardinality(DOMAIN cache) <= MaxThreads + 1
  PROVE  Cardinality(DOMAIN cache \ Oldest(cache)) <= MaxThreads
<1> DEFINE D == DOMAIN cache
           kept == D \ Oldest(cache)
<1>1. IsFiniteSet(D) /\ Cardinality(D) \in Nat /\ MaxThreads \in Nat
  BY FS_CardinalityType, MemoAssumption DEF Ordered
<1>2. IsFiniteSet(kept) /\ Cardinality(kept) \in Nat /\ Cardinality(kept) <= Cardinality(D)
  <2>1. kept \in SUBSET D
    OBVIOUS
  <2> HIDE DEF kept, D
  <2> QED
    BY <1>1, <2>1, FS_Subset, FS_CardinalityType
<1>3. CASE Cardinality(D) = MaxThreads + 1
  <2> DEFINE times == {cache[k].at : k \in D}
  <2>1. times \in SUBSET Nat /\ times # {}
    <3>1. D # {}
      BY <1>1, <1>3, FS_EmptySet
    <3> QED
      BY <3>1 DEF Ordered
  <2>2. \E x \in times : \A y \in times : x =< y
    <3> HIDE DEF times
    <3> QED
      BY <2>1, HasLeast
  <2>3. PICK first \in D : \A k \in D : cache[first].at =< cache[k].at
    BY <2>2
  <2>4. {o \in D : cache[o].at < cache[first].at} = {}
    BY <2>3 DEF Ordered
  <2>5. first \in Oldest(cache)
    <3>1. Cardinality({o \in D : cache[o].at < cache[first].at}) = 0
      BY <2>4, FS_EmptySet
    <3>2. 0 < Cardinality(D) - MaxThreads
      BY <1>1, <1>3
    <3> QED
      BY <3>1, <3>2 DEF Oldest
  <2>6. kept \in SUBSET (D \ {first})
    BY <2>5
  <2> HIDE DEF kept, D
  <2>7. IsFiniteSet(D \ {first}) /\ Cardinality(D \ {first}) = Cardinality(D) - 1
    BY <1>1, <2>3, FS_RemoveElement
  <2>8. Cardinality(kept) <= Cardinality(D \ {first})
    BY <2>6, <2>7, FS_Subset
  <2> QED
    BY <1>1, <1>2, <1>3, <2>7, <2>8 DEF kept, D
<1>4. CASE Cardinality(D) # MaxThreads + 1
  <2> HIDE DEF kept
  <2> QED
    BY <1>1, <1>2, <1>4 DEF kept
<1> QED
  BY <1>3, <1>4

\* The threads answered after th was, and why th's results may be gone.
AnsweredThreads == {o \in Threads : Answered(o)}
AnsweredSince(th) == {o \in Threads : Answered(o) /\ ended[LastTurn(o)] > ended[LastTurn(th)]}
Gone(th) ==
  \/ now - ended[LastTurn(th)] > TTL
  \/ Cardinality(AnsweredSince(th)) >= MaxThreads

CacheInv ==
  /\ Ordered(memos) /\ Cardinality(DOMAIN memos) <= MaxThreads
  /\ IsFiniteSet(AnsweredThreads)
  /\ \A o \in AnsweredThreads : ended[LastTurn(o)] <= now
  /\ CharBudget > 0 =>
       \A th \in Threads \ DOMAIN memos :
         Answered(th) /\ talk[LastTurn(th)] # <<>> => Gone(th)

LEMMA InitCache == Init => CacheInv
<1> SUFFICES ASSUME Init PROVE CacheInv
  OBVIOUS
<1>1. DOMAIN memos = {} /\ \A o \in Threads : ~Answered(o)
  BY DEF Init, Answered
<1>2. AnsweredThreads = {}
  BY <1>1 DEF AnsweredThreads
<1>3. Ordered(memos) /\ Cardinality(DOMAIN memos) <= MaxThreads
  <2>1. IsFiniteSet(DOMAIN memos) /\ Cardinality(DOMAIN memos) = 0
    BY <1>1, FS_EmptySet
  <2> QED
    BY <1>1, <2>1, MemoAssumption DEF Ordered
<1>4. IsFiniteSet(AnsweredThreads)
  BY <1>2, FS_EmptySet
<1> QED
  BY <1>1, <1>2, <1>3, <1>4 DEF CacheInv

\* A thread that was answered was answered by a turn that is over.
LEMMA LastTurnIsOver ==
  ASSUME IInv, NEW th \in Threads, Answered(th)
  PROVE  LastTurn(th) \in Turns /\ status[LastTurn(th)] = "over" /\ ended[LastTurn(th)] \in Nat
BY DEF IInv, Answered, LastTurn

\* A turn that does not end: threads are only dropped past their lifetime.
LEMMA NoneEnds ==
  ASSUME IInv, CacheInv, UNCHANGED <<last, ended>>, now' \in Nat, now <= now',
         \A th \in DOMAIN memos' : th \in DOMAIN memos /\ memos'[th] = memos[th],
         \A th \in DOMAIN memos \ DOMAIN memos' : now - memos[th].at > TTL,
         \A u \in Turns : status[u] = "over" => talk'[u] = talk[u]
  PROVE  CacheInv'
<1>1. DOMAIN memos' \in SUBSET DOMAIN memos /\ IsFiniteSet(DOMAIN memos)
  BY DEF CacheInv, Ordered
<1>2. /\ IsFiniteSet(DOMAIN memos') /\ Cardinality(DOMAIN memos') \in Nat
      /\ Cardinality(DOMAIN memos) \in Nat
      /\ Cardinality(DOMAIN memos') <= Cardinality(DOMAIN memos)
  BY <1>1, FS_Subset, FS_CardinalityType
<1>3. Ordered(memos')
  BY <1>1, <1>2 DEF CacheInv, Ordered
<1>4. Cardinality(DOMAIN memos') <= MaxThreads
  BY <1>2, MemoAssumption DEF CacheInv
<1>5. AnsweredThreads' = AnsweredThreads /\ \A th : LastTurn(th)' = LastTurn(th)
  BY DEF AnsweredThreads, Answered, LastTurn
<1>6. \A o \in AnsweredThreads' : ended'[LastTurn(o)'] <= now'
  <2> SUFFICES ASSUME NEW o \in AnsweredThreads PROVE ended[LastTurn(o)] <= now'
    BY <1>5
  <2>1. ended[LastTurn(o)] \in Nat /\ now \in Nat
    BY LastTurnIsOver DEF AnsweredThreads, IInv
  <2> QED
    BY <2>1 DEF CacheInv
<1>7. ASSUME CharBudget > 0, NEW th \in Threads \ DOMAIN memos',
             Answered(th), talk'[LastTurn(th)] # <<>>
      PROVE  Gone(th)'
  <2>1. /\ LastTurn(th) \in Turns /\ status[LastTurn(th)] = "over"
        /\ ended[LastTurn(th)] \in Nat /\ now \in Nat
    BY <1>7, LastTurnIsOver DEF IInv
  <2>2. AnsweredSince(th)' = AnsweredSince(th)
    BY <1>5 DEF AnsweredSince, Answered
  <2>3. Gone(th)
    <3>1. CASE th \in DOMAIN memos
      BY <1>7, <3>1 DEF Gone, IInv
    <3>2. CASE th \notin DOMAIN memos
      BY <1>7, <2>1, <3>2 DEF CacheInv
    <3> QED
      BY <3>1, <3>2
  <2> QED
    BY <1>5, <2>1, <2>2, <2>3, MemoAssumption DEF Gone
<1> QED
  BY <1>3, <1>4, <1>5, <1>6, <1>7 DEF CacheInv, Answered, AnsweredThreads

\* What the end of a turn leaves of when the threads were answered.
LEMMA EndAnswers ==
  ASSUME IInv, CacheInv, NEW t \in Turns, NEW blocks, End(t, blocks)
  PROVE  /\ now \in Nat /\ now' = now + 1 /\ thread[t] \in Threads
         /\ Answered(thread[t])' /\ ended'[LastTurn(thread[t])'] = now'
         /\ talk'[LastTurn(thread[t])'] = blocks
         /\ \A o \in Threads \ {thread[t]} :
              /\ Answered(o)' = Answered(o) /\ LastTurn(o)' = LastTurn(o)
              /\ Answered(o) =>
                   /\ ended'[LastTurn(o)] = ended[LastTurn(o)] /\ ended[LastTurn(o)] \in Nat
                   /\ ended[LastTurn(o)] <= now /\ talk'[LastTurn(o)] = talk[LastTurn(o)]
<1> DEFINE h == thread[t]
<1>1. now \in Nat /\ now' = now + 1 /\ h \in Threads
  BY DEF End, IInv
<1>2. Answered(h)' /\ ended'[LastTurn(h)'] = now' /\ talk'[LastTurn(h)'] = blocks
  <2>1. last[h] \in Seq(Turns) /\ last'[h] = Append(last[h], t)
    BY <1>1 DEF End, IInv
  <2>2. last'[h] # <<>> /\ last'[h][Len(last'[h])] = t
    BY <2>1
  <2>3. ended'[t] = now' /\ talk'[t] = blocks /\ thread' = thread
    BY DEF End, IInv
  <2> QED
    BY <2>2, <2>3 DEF Answered, LastTurn
<1>3. ASSUME NEW o \in Threads \ {h}
      PROVE  Answered(o)' = Answered(o) /\ LastTurn(o)' = LastTurn(o)
  BY <1>1 DEF End, IInv, Answered, LastTurn
<1>4. ASSUME NEW o \in Threads \ {h}, Answered(o)
      PROVE  /\ ended'[LastTurn(o)] = ended[LastTurn(o)] /\ ended[LastTurn(o)] \in Nat
             /\ ended[LastTurn(o)] <= now /\ talk'[LastTurn(o)] = talk[LastTurn(o)]
  <2>1. /\ LastTurn(o) \in Turns /\ status[LastTurn(o)] = "over"
        /\ ended[LastTurn(o)] \in Nat
    BY <1>4, LastTurnIsOver
  <2>2. ended[LastTurn(o)] <= now
    BY <1>4 DEF CacheInv, AnsweredThreads
  <2> QED
    BY <2>1, <2>2 DEF End, IInv
<1> QED
  BY <1>1, <1>2, <1>3, <1>4

\* The cache a turn's results are put into, before the oldest are evicted.
Extended(th, blocks) ==
  [k \in DOMAIN memos \cup {th} |->
     IF k = th THEN [at |-> now', blocks |-> Kept(blocks)] ELSE memos[k]]

\* It is ordered, its newest thread the one just answered, and one too many at most.
LEMMA ExtendedIsOrdered ==
  ASSUME IInv, CacheInv, NEW t \in Turns, NEW blocks, End(t, blocks)
  PROVE  LET cache == Extended(thread[t], blocks)
         IN  /\ Ordered(cache) /\ Cardinality(DOMAIN cache) <= MaxThreads + 1
             /\ Newer(cache, thread[t]) = {}
             /\ \A th \in DOMAIN cache : th \in Threads /\ Answered(th)'
                  /\ cache[th].at = ended'[LastTurn(th)']
<1> DEFINE h == thread[t]
           cache == Extended(h, blocks)
<1>1. /\ DOMAIN cache = DOMAIN memos \cup {h}
      /\ cache[h].at = now' /\ \A k \in DOMAIN memos : k # h => cache[k] = memos[k]
  BY DEF Extended
<1>2. now \in Nat /\ now' = now + 1 /\ h \in Threads
  BY EndAnswers
<1>3. \A k \in DOMAIN memos : k # h =>
        /\ cache[k].at \in Nat /\ cache[k].at <= now /\ k \in Threads /\ Answered(k)'
        /\ cache[k].at = ended'[LastTurn(k)']
  <2> SUFFICES ASSUME NEW k \in DOMAIN memos, k # h
               PROVE  /\ cache[k].at \in Nat /\ cache[k].at <= now
                      /\ k \in Threads /\ Answered(k)' /\ cache[k].at = ended'[LastTurn(k)']
    OBVIOUS
  <2>1. k \in Threads \ {h} /\ Answered(k) /\ memos[k].at = ended[LastTurn(k)]
    BY DEF IInv, MemoTypeOK
  <2> HIDE DEF cache
  <2> QED
    BY <1>1, <2>1, EndAnswers
<1>4. IsFiniteSet(DOMAIN cache) /\ Cardinality(DOMAIN cache) <= MaxThreads + 1
  <2>1. /\ IsFiniteSet(DOMAIN memos) /\ Cardinality(DOMAIN memos) \in Nat
        /\ Cardinality(DOMAIN memos) <= MaxThreads /\ MaxThreads \in Nat
    BY FS_CardinalityType, MemoAssumption DEF CacheInv, Ordered
  <2>2. /\ IsFiniteSet(DOMAIN memos \cup {h})
        /\ \/ Cardinality(DOMAIN memos \cup {h}) = Cardinality(DOMAIN memos)
           \/ Cardinality(DOMAIN memos \cup {h}) = Cardinality(DOMAIN memos) + 1
    BY <2>1, FS_AddElement
  <2> HIDE DEF cache
  <2> QED
    BY <1>1, <2>1, <2>2
<1>5. \A k, o \in DOMAIN memos : memos[k].at = memos[o].at => k = o
  BY DEF CacheInv, Ordered
<1> HIDE DEF cache
<1>6. \A k \in DOMAIN cache : cache[k].at \in Nat
  BY <1>1, <1>2, <1>3
<1>7. \A k, o \in DOMAIN cache : cache[k].at = cache[o].at => k = o
  BY <1>1, <1>2, <1>3, <1>5
<1>8. Newer(cache, h) = {}
  BY <1>1, <1>2, <1>3 DEF Newer
<1>9. \A k \in DOMAIN cache : k \in Threads /\ Answered(k)' /\ cache[k].at = ended'[LastTurn(k)']
  <2>1. \A k : k = h => Answered(k)' /\ ended'[LastTurn(k)'] = now'
    <3>1. thread' = thread
      BY DEF End
    <3> QED
      BY <3>1, EndAnswers
  <2> QED
    BY <1>1, <1>2, <1>3, <2>1
<1> QED
  BY <1>4, <1>6, <1>7, <1>8, <1>9 DEF Ordered, cache

LEMMA PartIsOrdered ==
  ASSUME NEW cache, Ordered(cache), NEW keys
  PROVE  LET part == Without(cache, keys)
         IN  /\ DOMAIN part = DOMAIN cache \ keys /\ \A k \in DOMAIN part : part[k] = cache[k]
             /\ Ordered(part) /\ Cardinality(DOMAIN part) <= Cardinality(DOMAIN cache)
<1> DEFINE part == Without(cache, keys)
<1>1. DOMAIN part = DOMAIN cache \ keys /\ \A k \in DOMAIN part : part[k] = cache[k]
  BY DEF Without, Restrict
<1> HIDE DEF part
<1>2. DOMAIN part \in SUBSET DOMAIN cache /\ IsFiniteSet(DOMAIN cache)
  BY <1>1 DEF Ordered
<1>3. IsFiniteSet(DOMAIN part) /\ Cardinality(DOMAIN part) <= Cardinality(DOMAIN cache)
  BY <1>2, FS_Subset
<1>4. Ordered(part)
  BY <1>1, <1>2, <1>3 DEF Ordered
<1> QED
  BY <1>1, <1>3, <1>4 DEF part

\* A thread that is evicted has as many newer ones beside it as the cache holds;
\* the one just answered has none, and stays.
LEMMA EvictedHasNewer ==
  ASSUME NEW cache, Ordered(cache), NEW th \in Oldest(cache)
  PROVE  Cardinality(Newer(cache, th)) >= MaxThreads
<1>1. /\ th \in DOMAIN cache
      /\ Cardinality(Older(cache, th)) < Cardinality(DOMAIN cache) - MaxThreads
  BY DEF Oldest, Older
<1>2. /\ Cardinality(Older(cache, th)) \in Nat /\ Cardinality(Newer(cache, th)) \in Nat
      /\ Cardinality(DOMAIN cache)
           = Cardinality(Older(cache, th)) + Cardinality(Newer(cache, th)) + 1
  BY <1>1, OlderAndNewer
<1> QED
  BY <1>1, <1>2, MemoAssumption

\* The cache after a turn: bounded, ordered, and the thread just answered in it
\* if its conversation has a block.
LEMMA EndCacheIs ==
  ASSUME IInv, CacheInv, NEW t \in Turns, NEW blocks \in Seq(Block), End(t, blocks)
  PROVE  /\ Ordered(memos') /\ Cardinality(DOMAIN memos') <= MaxThreads
         /\ CharBudget > 0 =>
              \A th \in Threads \ DOMAIN memos' :
                \/ th = thread[t] /\ blocks = <<>>
                \/ th # thread[t] /\ th \notin DOMAIN memos
                \/ th # thread[t] /\ th \in Oldest(Extended(thread[t], blocks))
<1> DEFINE h == thread[t]
           cache == Extended(h, blocks)
<1>1. memos' = IF CharBudget = 0 THEN memos
               ELSE IF Kept(blocks) = <<>> THEN Without(memos, {h})
               ELSE Without(cache, Oldest(cache))
  BY DEF End, Remembered, Extended
<1>2. /\ Ordered(cache) /\ Cardinality(DOMAIN cache) <= MaxThreads + 1 /\ Newer(cache, h) = {}
  BY ExtendedIsOrdered
<1>3. DOMAIN cache = DOMAIN memos \cup {h}
  BY DEF Extended
<1>4. MaxThreads \in Nat \ {0} /\ CharBudget \in Nat /\ Cardinality(DOMAIN memos) \in Nat
  BY MemoAssumption, FS_CardinalityType DEF CacheInv, Ordered
<1> HIDE DEF cache
<1>5. CASE CharBudget = 0
  BY <1>1, <1>4, <1>5 DEF CacheInv
<1>6. CASE CharBudget # 0 /\ Kept(blocks) = <<>>
  <2>1. memos' = Without(memos, {h})
    BY <1>1, <1>6
  <2>2. /\ DOMAIN memos' = DOMAIN memos \ {h} /\ Ordered(memos')
        /\ Cardinality(DOMAIN memos') <= Cardinality(DOMAIN memos)
    BY <2>1, PartIsOrdered DEF CacheInv
  <2>3. IsFiniteSet(DOMAIN memos')
    BY <2>2 DEF Ordered
  <2>4. Cardinality(DOMAIN memos') <= MaxThreads
    BY <1>4, <2>2, <2>3, FS_CardinalityType DEF CacheInv
  <2>5. blocks = <<>>
    BY <1>6, KeptIsKeptOf DEF KeptOf
  <2> QED
    BY <2>2, <2>4, <2>5
<1>7. CASE CharBudget # 0 /\ Kept(blocks) # <<>>
  <2>1. memos' = Without(cache, Oldest(cache))
    BY <1>1, <1>7
  <2>2. DOMAIN memos' = DOMAIN cache \ Oldest(cache) /\ Ordered(memos')
    BY <1>2, <2>1, PartIsOrdered
  <2>3. Cardinality(DOMAIN memos') <= MaxThreads
    BY <1>2, <2>2, EvictingIsEnough
  <2>4. h \notin Oldest(cache)
    <3>1. Cardinality(Newer(cache, h)) = 0
      BY <1>2, FS_EmptySet
    <3>2. h \in Oldest(cache) => Cardinality(Newer(cache, h)) >= MaxThreads
      BY <1>2, EvictedHasNewer
    <3> QED
      BY <1>4, <3>1, <3>2
  <2> QED
    BY <1>3, <2>2, <2>3, <2>4 DEF cache
<1> QED
  BY <1>5, <1>6, <1>7

LEMMA EndCache ==
  ASSUME IInv, CacheInv, NEW t \in Turns, NEW blocks \in Seq(Block), End(t, blocks)
  PROVE  CacheInv'
<1> DEFINE h == thread[t]
           cache == Extended(h, blocks)
<1>1. /\ now \in Nat /\ now' = now + 1 /\ h \in Threads /\ thread' = thread
      /\ Answered(h)' /\ ended'[LastTurn(h)'] = now' /\ talk'[LastTurn(h)'] = blocks
  BY EndAnswers DEF End
<1>2. \A o \in Threads \ {h} : Answered(o)' = Answered(o) /\ LastTurn(o)' = LastTurn(o)
  BY EndAnswers
<1>3. \A o \in Threads \ {h} : Answered(o) =>
        /\ ended'[LastTurn(o)] = ended[LastTurn(o)] /\ ended[LastTurn(o)] \in Nat
        /\ ended[LastTurn(o)] <= now /\ talk'[LastTurn(o)] = talk[LastTurn(o)]
  BY EndAnswers
<1>4. IsFiniteSet(AnsweredThreads')
  <2>1. IsFiniteSet(AnsweredThreads \cup {h})
    BY FS_AddElement DEF CacheInv
  <2>2. AnsweredThreads' \in SUBSET (AnsweredThreads \cup {h})
    BY <1>2 DEF AnsweredThreads
  <2> QED
    BY <2>1, <2>2, FS_Subset
<1>5. \A o \in AnsweredThreads' : ended'[LastTurn(o)'] <= now'
  <2> SUFFICES ASSUME NEW o \in Threads, Answered(o)' PROVE ended'[LastTurn(o)'] <= now'
    BY DEF AnsweredThreads
  <2>1. CASE o = h
    BY <1>1, <2>1
  <2>2. CASE o # h
    BY <1>1, <1>2, <1>3, <2>2
  <2> QED
    BY <2>1, <2>2
<1>6. ASSUME CharBudget > 0, NEW th \in Threads \ DOMAIN memos',
             Answered(th)', talk'[LastTurn(th)'] # <<>>
      PROVE  Gone(th)'
  <2>1. \/ th = h /\ blocks = <<>>
        \/ th # h /\ th \notin DOMAIN memos
        \/ th # h /\ th \in Oldest(cache)
    BY <1>6, EndCacheIs
  <2>2. th \in Threads \ {h} /\ Answered(th) /\ LastTurn(th)' = LastTurn(th)
    BY <1>1, <1>2, <1>6, <2>1
  <2>3. /\ ended'[LastTurn(th)] = ended[LastTurn(th)] /\ ended[LastTurn(th)] \in Nat
        /\ ended[LastTurn(th)] <= now /\ talk'[LastTurn(th)] = talk[LastTurn(th)]
    BY <1>3, <2>2
  <2> DEFINE since == {o \in Threads : Answered(o)' /\ ended'[LastTurn(o)'] > ended[LastTurn(th)]}
  <2>4. AnsweredSince(th)' = since
    BY <2>2, <2>3 DEF AnsweredSince
  <2>5. IsFiniteSet(since)
    <3>1. since \in SUBSET (AnsweredThreads')
      BY DEF AnsweredThreads
    <3> QED
      BY <1>4, <3>1, FS_Subset
  <2>6. SUFFICES now - ended[LastTurn(th)] > TTL \/ Cardinality(since) >= MaxThreads
    BY <1>1, <2>2, <2>3, <2>4, MemoAssumption DEF Gone
  <2>7. CASE th \notin DOMAIN memos
    <3>1. Gone(th)
      BY <1>6, <2>2, <2>3, <2>7 DEF CacheInv
    <3>2. AnsweredSince(th) \in SUBSET since
      <4> SUFFICES ASSUME NEW o \in Threads, Answered(o), ended[LastTurn(o)] > ended[LastTurn(th)]
                   PROVE  Answered(o)' /\ ended'[LastTurn(o)'] > ended[LastTurn(th)]
        BY DEF AnsweredSince
      <4>1. CASE o = h
        BY <1>1, <2>3, <4>1
      <4>2. CASE o # h
        BY <1>2, <1>3, <4>2
      <4> QED
        BY <4>1, <4>2
    <3>3. /\ Cardinality(AnsweredSince(th)) \in Nat /\ Cardinality(since) \in Nat
          /\ Cardinality(AnsweredSince(th)) <= Cardinality(since)
      BY <2>5, <3>2, FS_Subset, FS_CardinalityType
    <3> QED
      BY <3>1, <3>3, MemoAssumption DEF Gone
  <2>8. CASE th \in Oldest(cache)
    <3>1. Ordered(cache) /\ th \in DOMAIN cache
      BY <2>8, ExtendedIsOrdered DEF Oldest
    <3>2. \A k \in DOMAIN cache :
            k \in Threads /\ Answered(k)' /\ cache[k].at = ended'[LastTurn(k)']
      BY ExtendedIsOrdered
    <3> HIDE DEF cache
    <3>3. cache[th].at = ended[LastTurn(th)]
      BY <2>2, <2>3, <3>1, <3>2
    <3>4. Newer(cache, th) \in SUBSET since
      BY <3>2, <3>3 DEF Newer
    <3>5. Cardinality(Newer(cache, th)) >= MaxThreads
      BY <2>8, <3>1, EvictedHasNewer
    <3> HIDE DEF since
    <3>6. /\ Cardinality(Newer(cache, th)) \in Nat /\ Cardinality(since) \in Nat
          /\ Cardinality(Newer(cache, th)) <= Cardinality(since)
      BY <2>5, <3>4, FS_Subset, FS_CardinalityType
    <3> QED
      BY <3>5, <3>6, MemoAssumption DEF since
  <2> QED
    BY <2>1, <2>2, <2>7, <2>8
<1>7. Ordered(memos)' /\ Cardinality(DOMAIN memos') <= MaxThreads
  BY EndCacheIs
<1> QED
  BY <1>4, <1>5, <1>6, <1>7 DEF CacheInv

LEMMA StepCache == IInv /\ CacheInv /\ [Next]_vars => CacheInv'
<1> SUFFICES ASSUME IInv, CacheInv, [Next]_vars PROVE CacheInv'
  OBVIOUS
<1>1. now \in Nat
  BY DEF IInv
<1>2. CASE UNCHANGED vars \/ Wait
  <2>1. UNCHANGED <<memos, talk, last, ended>> /\ now' \in Nat /\ now <= now'
    BY <1>1, <1>2 DEF vars, Wait
  <2> QED
    BY <2>1, NoneEnds
<1>3. ASSUME NEW t \in Turns, Ask(t) PROVE CacheInv'
  <2>1. UNCHANGED <<now, last, ended>>
    BY <1>3 DEF Ask
  <2>2. \A u \in Turns : status[u] = "over" => talk'[u] = talk[u]
    BY <1>3 DEF Ask, IInv
  <2>3. /\ \A th \in DOMAIN memos' : th \in DOMAIN memos /\ memos'[th] = memos[th]
        /\ \A th \in DOMAIN memos \ DOMAIN memos' : now - memos[th].at > TTL
    BY <1>3 DEF Ask, Without, Restrict, Expired
  <2> QED
    BY <1>1, <2>1, <2>2, <2>3, NoneEnds
<1>4. ASSUME NEW t \in Turns, Exchange(t) PROVE CacheInv'
  <2>1. UNCHANGED <<now, memos, last, ended>>
    BY <1>4 DEF Exchange
  <2>2. \A u \in Turns : status[u] = "over" => talk'[u] = talk[u]
    BY <1>4 DEF Exchange, IInv
  <2> QED
    BY <1>1, <2>1, <2>2, NoneEnds
<1>5. ASSUME NEW t \in Turns, Finish(t) PROVE CacheInv'
  <2>1. talk[t] \in Seq(Block)
    BY DEF IInv
  <2> QED
    BY <1>5, <2>1, EndCache DEF Finish
<1>6. ASSUME NEW t \in Turns, Raise(t) PROVE CacheInv'
  <2>1. Append(talk[t], NewBlock(t, 0, FALSE)) \in Seq(Block)
    BY AppendOwn
  <2> QED
    BY <1>6, <2>1, EndCache DEF Raise
<1> QED
  BY <1>2, <1>3, <1>4, <1>5, <1>6 DEF Next

\* The cache is bounded, and a thread whose turn had results loses them only to
\* age or to as many threads answered after it as the cache holds.
THEOREM OldestGoFirst == Spec => []LeastRecentlyAnsweredGoes
<1>1. CacheInv => LeastRecentlyAnsweredGoes
  BY DEF CacheInv, LeastRecentlyAnsweredGoes, Gone, AnsweredSince
<1> QED
  BY <1>1, Invariant, InitCache, StepCache, PTL DEF Spec
=============================================================================
