---------------------------- MODULE Gate_proofs ----------------------------
(***************************************************************************)
(* What Gate keeps for any users, policies, capacity and refill period: a  *)
(* decision is taken on the policy that was on disk, and the bucket lets   *)
(* in neither more nor fewer than its rate.                                *)
(***************************************************************************)
EXTENDS Gate, TLAPS, FiniteSetTheorems

USE GateAssumption

(* The loader never holds a later version than the file's, and the mtime   *)
(* it recorded is one it has read, or one it could not.                    *)
LoaderInv ==
  /\ cached.version <= file.version
  /\ mtime <= cached.version \/ mtime \in unread
  /\ pc # "idle" => asked <= file.version /\ verdict = "none"
  /\ pc = "read" => asked <= statted /\ statted <= file.version

BucketsPast == \A u \in DOMAIN buckets : buckets[u].last <= now

PolicyInv == TypeOK /\ BucketsPast /\ LoaderInv /\ DecidesOnPolicyOnDisk

----------------------------------------------------------------------------
(* Types.                                                                  *)

Entry == [tokens : 0..Capacity * Hour, last : Nat]

LEMMA RequestType ==
  ASSUME NEW r \in Requests
  PROVE  /\ r.kind = "event" => r \in Event /\ r.user \in Users
         /\ r.kind # "event" => r \in Read
BY DEF Event, Read

LEMMA FileType ==
  ASSUME NEW versions \in SUBSET Nat, NEW f \in Files(versions)
  PROVE  f \in Files(Nat) /\ f.version \in versions /\ (f.state = "good" => f.policy \in Policies)
BY DEF Files

\* A refilled bucket is at most full.
LEMMA TokensType ==
  ASSUME TypeOK, NEW u \in Users, BucketsPast
  PROVE  Tokens(u) \in 0..Capacity * Hour
<1>1. Capacity * Hour \in Nat
  OBVIOUS
<1>2. CASE u \in DOMAIN buckets
  <2>1. buckets[u] \in Entry
    BY <1>2 DEF TypeOK, Entry
  <2>2. buckets[u].tokens \in Nat /\ now - buckets[u].last \in Nat
    BY <1>2, <2>1 DEF TypeOK, BucketsPast, Entry
  <2>3. (now - buckets[u].last) * Capacity \in Nat
    BY <2>2
  <2> QED
    BY <1>1, <1>2, <2>2, <2>3 DEF Tokens, AtMost
<1>3. CASE u \notin DOMAIN buckets
  BY <1>1, <1>3 DEF Tokens
<1> QED
  BY <1>2, <1>3

\* Whatever is left is stored for that user alone.
LEMMA SetBucketType ==
  ASSUME TypeOK, NEW u \in Users, NEW tokens \in 0..Capacity * Hour, SetBucket(u, tokens)
  PROVE  /\ \E S \in SUBSET Users : buckets' \in [S -> Entry]
         /\ DOMAIN buckets' = DOMAIN buckets \cup {u}
         /\ buckets'[u] = [tokens |-> tokens, last |-> now]
         /\ \A v \in DOMAIN buckets \ {u} : buckets'[v] = buckets[v]
<1>1. PICK S \in SUBSET Users : buckets \in [S -> Entry]
  BY DEF TypeOK, Entry
<1>2. [tokens |-> tokens, last |-> now] \in Entry
  BY DEF TypeOK, Entry
<1>3. buckets' \in [S \cup {u} -> Entry]
  BY <1>1, <1>2 DEF SetBucket
<1> QED
  BY <1>1, <1>3 DEF SetBucket

\* TokenBucket.consume, whether it lets in or not.
LEMMA ConsumeType ==
  ASSUME TypeOK, BucketsPast, NEW u \in Users, Consume(u), now' = now
  PROVE  /\ \E S \in SUBSET Users : buckets' \in [S -> Entry]
         /\ BucketsPast'
         /\ admitted' \in [Users -> Seq(Nat)]
         /\ verdict' \in Verdicts
<1>1. Tokens(u) \in 0..Capacity * Hour
  BY TokensType
<1>2. PICK tokens \in 0..Capacity * Hour : SetBucket(u, tokens)
  <2>1. CASE Tokens(u) >= Hour
    <3>1. Tokens(u) - Hour \in 0..Capacity * Hour
      <4> HIDE DEF Tokens
      <4>1. Capacity * Hour \in Nat
        OBVIOUS
      <4> QED
        BY <1>1, <2>1, <4>1
    <3> QED
      BY <2>1, <3>1 DEF Consume
  <2>2. CASE ~(Tokens(u) >= Hour)
    BY <1>1, <2>2 DEF Consume
  <2> QED
    BY <2>1, <2>2
<1>3. /\ \E S \in SUBSET Users : buckets' \in [S -> Entry]
      /\ DOMAIN buckets' = DOMAIN buckets \cup {u}
      /\ buckets'[u] = [tokens |-> tokens, last |-> now]
      /\ \A v \in DOMAIN buckets \ {u} : buckets'[v] = buckets[v]
  BY <1>2, SetBucketType
<1>4. BucketsPast'
  BY <1>3 DEF BucketsPast, TypeOK
<1>5. admitted' \in [Users -> Seq(Nat)] /\ verdict' \in Verdicts
  <2>1. \/ admitted' = [admitted EXCEPT ![u] = Append(@, now)] /\ verdict' = "allow"
        \/ admitted' = admitted /\ verdict' = "rate_limited"
    BY DEF Consume
  <2>2. Append(admitted[u], now) \in Seq(Nat)
    BY DEF TypeOK
  <2>3. admitted' \in [Users -> Seq(Nat)]
    BY <2>1, <2>2 DEF TypeOK
  <2> QED
    BY <2>1, <2>3 DEF Verdicts
<1> QED
  BY <1>3, <1>4, <1>5

----------------------------------------------------------------------------
(* Every step keeps the types and what the loader holds.                   *)

LEMMA InitPolicyInv == Init => PolicyInv
<1> SUFFICES ASSUME Init PROVE PolicyInv
  OBVIOUS
<1>1. file \in Files(Nat) /\ file.version = 1
  BY FileType DEF Init
<1>2. buckets \in [{} -> Entry] /\ DOMAIN buckets = {}
  BY DEF Init
<1>3. admitted \in [Users -> Seq(Nat)]
  BY DEF Init
<1>4. TypeOK
  BY <1>1, <1>2, <1>3 DEF Init, TypeOK, Verdicts, Entry
<1> QED
  BY <1>1, <1>2, <1>4 DEF Init, PolicyInv, BucketsPast, LoaderInv, DecidesOnPolicyOnDisk

LEMMA StepPolicyInv == PolicyInv /\ [Next]_vars => PolicyInv'
<1> SUFFICES ASSUME PolicyInv, [Next]_vars PROVE PolicyInv'
  OBVIOUS
<1>0. TypeOK /\ BucketsPast /\ LoaderInv /\ DecidesOnPolicyOnDisk
  BY DEF PolicyInv
<1>v. file.version \in Nat /\ cached.version \in Nat
  BY <1>0, FileType DEF TypeOK
<1> USE DEF PolicyInv, policy_vars, bucket_vars
<1>1. CASE Tick
  BY <1>0, <1>1 DEF Tick, TypeOK, BucketsPast, LoaderInv, DecidesOnPolicyOnDisk
<1>2. CASE Edit
  <2>1. file' \in Files(Nat) /\ file'.version = file.version + 1
    BY <1>2, <1>v, FileType DEF Edit
  <2>2. TypeOK'
    BY <1>0, <1>2, <2>1 DEF Edit, TypeOK
  <2>3. BucketsPast'
    BY <1>0, <1>2 DEF Edit, BucketsPast
  <2>4. LoaderInv' /\ DecidesOnPolicyOnDisk'
    BY <1>0, <1>v, <1>2, <2>1 DEF Edit, TypeOK, LoaderInv, DecidesOnPolicyOnDisk
  <2> QED
    BY <2>2, <2>3, <2>4
<1>3. ASSUME NEW r \in Requests, Receive(r) PROVE PolicyInv'
  <2>1. verdict' \in Verdicts
    BY <1>3 DEF Receive, Screened, Verdicts
  <2>2. TypeOK'
    BY <1>0, <1>v, <1>3, <2>1 DEF Receive, TypeOK
  <2>3. BucketsPast'
    BY <1>0, <1>3 DEF Receive, BucketsPast
  <2>4. LoaderInv' /\ DecidesOnPolicyOnDisk'
    BY <1>0, <1>v, <1>3 DEF Receive, TypeOK, LoaderInv, DecidesOnPolicyOnDisk
  <2> QED
    BY <2>2, <2>3, <2>4
<1>4. CASE Stat
  <2>1. TypeOK' /\ BucketsPast'
    BY <1>0, <1>v, <1>4 DEF Stat, TypeOK, BucketsPast
  <2>2. LoaderInv'
    BY <1>0, <1>v, <1>4 DEF Stat, TypeOK, LoaderInv
  <2>3. DecidesOnPolicyOnDisk'
    BY <1>0, <1>v, <1>4 DEF Stat, TypeOK, LoaderInv, DecidesOnPolicyOnDisk
  <2> QED
    BY <2>1, <2>2, <2>3
<1>5. CASE ReadPolicy
  <2>1. file.policy \in Policies
    BY <1>0, <1>5, FileType DEF ReadPolicy, TypeOK
  <2>2. TypeOK' /\ BucketsPast'
    BY <1>0, <1>v, <1>5, <2>1 DEF ReadPolicy, TypeOK, BucketsPast
  <2>3. LoaderInv' /\ DecidesOnPolicyOnDisk'
    BY <1>0, <1>v, <1>5 DEF ReadPolicy, TypeOK, LoaderInv, DecidesOnPolicyOnDisk
  <2> QED
    BY <2>2, <2>3
<1>6. CASE ReadFails
  <2>1. TypeOK' /\ BucketsPast'
    BY <1>0, <1>6 DEF ReadFails, TypeOK, BucketsPast
  <2>2. LoaderInv' /\ DecidesOnPolicyOnDisk'
    BY <1>0, <1>v, <1>6 DEF ReadFails, TypeOK, LoaderInv, DecidesOnPolicyOnDisk
  <2> QED
    BY <2>1, <2>2
<1>7. CASE Decide
  <2>1. request.user \in Users
    BY <1>0, <1>7, RequestType DEF Decide, TypeOK
  <2>2. /\ \E S \in SUBSET Users : buckets' \in [S -> Entry]
        /\ BucketsPast'
        /\ admitted' \in [Users -> Seq(Nat)]
        /\ verdict' \in Verdicts
    <3>1. CASE Consume(request.user)
      BY <1>0, <1>7, <2>1, <3>1, ConsumeType DEF Decide
    <3>2. CASE verdict' = Refusal(request) /\ UNCHANGED bucket_vars
      BY <1>0, <1>7, <3>2 DEF Decide, TypeOK, BucketsPast, Entry, Refusal, Verdicts
    <3> QED
      BY <1>7, <3>1, <3>2 DEF Decide
  <2>3. TypeOK'
    BY <1>0, <1>7, <2>2 DEF Decide, TypeOK, Entry
  <2>4. LoaderInv' /\ DecidesOnPolicyOnDisk'
    BY <1>0, <1>7 DEF Decide, LoaderInv, DecidesOnPolicyOnDisk
  <2> QED
    BY <2>2, <2>3, <2>4
<1>8. CASE DecideNamespace
  <2>1. verdict' \in Verdicts
    BY <1>8 DEF DecideNamespace, NamespaceDecision, Verdicts
  <2> QED
    BY <1>0, <1>8, <2>1 DEF DecideNamespace, TypeOK, BucketsPast, LoaderInv, DecidesOnPolicyOnDisk
<1>9. CASE UNCHANGED vars
  BY <1>0, <1>9 DEF vars, TypeOK, BucketsPast, LoaderInv, DecidesOnPolicyOnDisk
<1> QED
  BY <1>1, <1>2, <1>3, <1>4, <1>5, <1>6, <1>7, <1>8, <1>9 DEF Next

LEMMA PolicyInvariant == Spec => []PolicyInv
BY InitPolicyInv, StepPolicyInv, PTL DEF Spec

\* The types of Gate.
THEOREM TypeCorrect == Spec => []TypeOK
<1>1. PolicyInv => TypeOK
  BY DEF PolicyInv
<1> QED
  BY <1>1, PolicyInvariant, PTL

\* No decision is taken on a policy the file no longer had when it was asked.
THEOREM DecisionsFollowFile == Spec => []DecidesOnPolicyOnDisk
<1>1. PolicyInv => DecidesOnPolicyOnDisk
  BY DEF PolicyInv
<1> QED
  BY <1>1, PolicyInvariant, PTL

----------------------------------------------------------------------------
(* The bucket.  A user who was let in n times since some admission has     *)
(* spent n tokens since, so no more is left than the full bucket and the   *)
(* refill since then less n; and the bucket lacks no more than the         *)
(* admissions after any moment took, or than it may have lacked at that    *)
(* moment and has not got back since.                                      *)

Full == Capacity * Hour

LeavesAtMost(times, tokens, last) ==
  \A i \in DOMAIN times :
    tokens + (Len(times) - i + 1) * Hour <= Full + Capacity * (last - times[i])

After(times, moment) == {i \in DOMAIN times : times[i] > moment}
Taken(times, moment) == Hour * Cardinality(After(times, moment))

LacksAtMost(times, tokens, last) ==
  \A moment \in Int : moment <= last =>
    \/ Full - tokens <= Taken(times, moment)
    \/ Full - tokens <= Taken(times, moment) + Capacity * (Hour - (last - moment))

BucketInv ==
  \A u \in Users :
    /\ u \notin DOMAIN buckets => admitted[u] = <<>>
    /\ u \in DOMAIN buckets =>
         /\ LeavesAtMost(admitted[u], buckets[u].tokens, buckets[u].last)
         /\ LacksAtMost(admitted[u], buckets[u].tokens, buckets[u].last)

RateInv == BucketInv /\ RateBound

LEMMA Distributes ==
  ASSUME NEW a \in Int, NEW b \in Int, NEW c \in Int
  PROVE  /\ a * (b + c) = a * b + a * c /\ (b + c) * a = b * a + c * a
         /\ a * (b - c) = a * b - a * c /\ (b - c) * a = b * a - c * a
         /\ a * b \in Int /\ a * b = b * a
OBVIOUS

LEMMA AtLeastZero == ASSUME NEW a \in Nat, NEW b \in Nat PROVE a * b \in Nat
OBVIOUS

LEMMA FullType == Full \in Nat /\ Hour <= Full
<1>1. Capacity * Hour = (Capacity - 1) * Hour + Hour
  BY Distributes
<1>2. (Capacity - 1) * Hour \in Nat
  BY AtLeastZero
<1> QED
  BY <1>1, <1>2 DEF Full

\* The admissions after a moment are finitely many.
LEMMA AfterFinite ==
  ASSUME NEW times \in Seq(Nat), NEW moment \in Int
  PROVE  /\ IsFiniteSet(After(times, moment)) /\ Cardinality(After(times, moment)) \in Nat
         /\ Taken(times, moment) \in Nat
<1>1. After(times, moment) \in SUBSET (1..Len(times)) /\ Len(times) \in Nat
  BY DEF After
<1>2. IsFiniteSet(1..Len(times))
  BY <1>1, FS_Interval
<1>3. IsFiniteSet(After(times, moment))
  BY <1>1, <1>2, FS_Subset
<1>4. Cardinality(After(times, moment)) \in Nat
  BY <1>3, FS_CardinalityType
<1> QED
  BY <1>3, <1>4, AtLeastZero DEF Taken

\* Both bounds hold of a bucket that is refilled, up to the present.
LEMMA RefillKeeps ==
  ASSUME TypeOK, BucketsPast, BucketInv, NEW u \in Users
  PROVE  LeavesAtMost(admitted[u], Tokens(u), now) /\ LacksAtMost(admitted[u], Tokens(u), now)
<1> DEFINE T == Tokens(u)
           n == Len(admitted[u])
<1>0. Full \in Nat /\ T \in 0..Full /\ now \in Nat /\ n \in Nat /\ admitted[u] \in Seq(Nat)
  BY FullType, TokensType DEF TypeOK, Full
<1>a. ASSUME NEW i \in DOMAIN admitted[u]
      PROVE  i \in Int /\ admitted[u][i] \in Nat
  BY DEF TypeOK
<1>1. CASE u \notin DOMAIN buckets
  <2>1. T = Full /\ admitted[u] = <<>>
    BY <1>1 DEF Tokens, Full, BucketInv
  <2>2. LeavesAtMost(admitted[u], T, now)
    BY <2>1 DEF LeavesAtMost
  <2>3. LacksAtMost(admitted[u], T, now)
    <3>1. ASSUME NEW moment \in Int PROVE Full - T <= Taken(admitted[u], moment)
      <4>1. Taken(admitted[u], moment) \in Nat
        BY <1>0, AfterFinite
      <4>2. Full - T = 0
        BY <1>0, <2>1
      <4> QED
        BY <4>1, <4>2
    <3> QED
      BY <3>1 DEF LacksAtMost
  <2> QED
    BY <2>2, <2>3
<1>2. CASE u \in DOMAIN buckets
  <2> DEFINE t == buckets[u].tokens
             l == buckets[u].last
             Refill == (now - l) * Capacity
  <2>1. t \in Nat /\ t <= Full /\ l \in Nat /\ now - l \in Nat
    <3>1. t \in 0..Full /\ l \in Nat
      BY <1>2 DEF TypeOK, Full
    <3>2. l <= now
      BY <1>2 DEF BucketsPast
    <3> HIDE DEF t, l
    <3> QED
      BY ONLY <1>0, <3>1, <3>2
  <2>2. Refill \in Nat
    BY <2>1, AtLeastZero
  <2>3. /\ T = Full \/ T = t + Refill
        /\ T <= t + Refill
    BY <1>2, <1>0, <2>1, <2>2 DEF Tokens, AtMost, Full
  <2>4. LeavesAtMost(admitted[u], t, l) /\ LacksAtMost(admitted[u], t, l)
    BY <1>2 DEF BucketInv
  <2> HIDE DEF T, t, l, n
  <2>5. ASSUME NEW i \in DOMAIN admitted[u]
        PROVE  T + (n - i + 1) * Hour <= Full + Capacity * (now - admitted[u][i])
    <3> DEFINE a == admitted[u][i]
               spent == (n - i + 1) * Hour
    <3>1. i \in Int /\ a \in Nat
      BY <1>a
    <3>2. t + spent <= Full + Capacity * (l - a)
      BY <2>4 DEF LeavesAtMost, n
    <3>3. Capacity * (now - a) = Capacity * (l - a) + Capacity * (now - l)
      <4>1. now - a = (l - a) + (now - l)
        BY <1>0, <2>1, <3>1
      <4> QED
        BY <4>1, <2>1, <3>1, Distributes
    <3>4. Capacity * (now - l) = Refill
      BY <1>0, <2>1, Distributes
    <3>5. spent \in Int /\ Capacity * (l - a) \in Int /\ Capacity * (now - a) \in Int
      BY <1>0, <2>1, <3>1, Distributes
    <3> HIDE DEF a, spent, Refill
    <3>6. T + spent <= Full + Capacity * (now - a)
      BY <1>0, <2>1, <2>2, <2>3, <3>2, <3>3, <3>4, <3>5
    <3> QED
      BY <3>6 DEF a, spent
  <2>6. ASSUME NEW moment \in Int, moment <= now
        PROVE  \/ Full - T <= Taken(admitted[u], moment)
               \/ Full - T <= Taken(admitted[u], moment) + Capacity * (Hour - (now - moment))
    <3> DEFINE taken == Taken(admitted[u], moment)
               missing == Capacity * (Hour - (now - moment))
    <3>1. taken \in Nat
      BY <1>0, AfterFinite
    <3>2. CASE T = Full
      BY <1>0, <3>1, <3>2
    <3>3. CASE T = t + Refill /\ moment <= l
      <4>1. \/ Full - t <= taken
            \/ Full - t <= taken + Capacity * (Hour - (l - moment))
        BY <2>4, <3>3 DEF LacksAtMost
      <4>2. missing = Capacity * (Hour - (l - moment)) - Refill
        <5>1. Hour - (now - moment) = (Hour - (l - moment)) - (now - l)
          BY <1>0, <2>1
        <5>2. missing = Capacity * (Hour - (l - moment)) - Capacity * (now - l)
          BY <5>1, <1>0, <2>1, Distributes
        <5> QED
          BY <5>2, <1>0, <2>1, Distributes
      <4>3. missing \in Int /\ Capacity * (Hour - (l - moment)) \in Int
        BY <1>0, <2>1, Distributes
      <4> HIDE DEF taken, missing, Refill
      <4>4. Full - T <= taken \/ Full - T <= taken + missing
        BY <1>0, <2>1, <2>2, <3>1, <3>3, <4>1, <4>2, <4>3
      <4> QED
        BY <4>4 DEF taken, missing
    <3>4. CASE T = t + Refill /\ l < moment
      <4>1. missing = Full - Capacity * (now - moment)
        BY <1>0, Distributes DEF Full
      <4>2. Refill = Capacity * (now - moment) + Capacity * (moment - l)
        <5>1. now - l = (now - moment) + (moment - l)
          BY <1>0, <2>1
        <5>2. Refill = Capacity * (now - l)
          BY <1>0, <2>1, Distributes
        <5> QED
          BY <5>1, <5>2, <1>0, <2>1, Distributes
      <4>3. Capacity * (moment - l) \in Nat
        <5>1. moment - l \in Nat
          BY <2>1, <3>4
        <5> QED
          BY <5>1, AtLeastZero
      <4>4. Capacity * (now - moment) \in Int
        BY <1>0, Distributes
      <4> HIDE DEF taken, missing, Refill
      <4>5. Full - T <= taken + missing
        BY <1>0, <2>1, <2>2, <3>1, <3>4, <4>1, <4>2, <4>3, <4>4
      <4> QED
        BY <4>5 DEF taken, missing
    <3> QED
      BY <2>1, <2>3, <3>2, <3>3, <3>4
  <2> QED
    BY <2>5, <2>6 DEF LeavesAtMost, LacksAtMost, T, n
<1> QED
  BY <1>1, <1>2

\* One more admission takes one more token, from the moments before it.
LEMMA AdmissionKeeps ==
  ASSUME NEW times \in Seq(Nat), NEW time \in Nat, NEW tokens \in Hour..Full,
         LeavesAtMost(times, tokens, time), LacksAtMost(times, tokens, time)
  PROVE  /\ LeavesAtMost(Append(times, time), tokens - Hour, time)
         /\ LacksAtMost(Append(times, time), tokens - Hour, time)
<1> DEFINE more == Append(times, time)
           n == Len(times)
<1>0. /\ Full \in Nat /\ tokens \in Nat /\ tokens - Hour \in Nat /\ n \in Nat
      /\ more \in Seq(Nat) /\ Len(more) = n + 1 /\ more[n + 1] = time
      /\ \A i \in 1..n : more[i] = times[i]
  BY FullType
<1>1. ASSUME NEW i \in DOMAIN more
      PROVE  tokens - Hour + (n + 1 - i + 1) * Hour <= Full + Capacity * (time - more[i])
  <2>1. (n + 1 - i + 1) * Hour = (n - i + 1) * Hour + Hour
    <3>1. i \in Int
      OBVIOUS
    <3>2. n + 1 - i + 1 = (n - i + 1) + 1
      BY <1>0, <3>1
    <3> QED
      BY <1>0, <3>1, <3>2, Distributes
  <2>2. CASE i \in 1..n
    <3>1. tokens + (n - i + 1) * Hour <= Full + Capacity * (time - times[i])
      BY <2>2 DEF LeavesAtMost
    <3>2. (n - i + 1) * Hour \in Int /\ Capacity * (time - times[i]) \in Int
      <4>1. /\ n - i + 1 \in Int /\ time - times[i] \in Int
            /\ Hour \in Int /\ Capacity \in Int
        BY <2>2
      <4>2. \A a, b \in Int : a * b \in Int
        OBVIOUS
      <4> QED
        BY ONLY <4>1, <4>2
    <3>3. more[i] = times[i]
      BY <1>0, <2>2
    <3> HIDE DEF more, n
    <3> QED
      BY <1>0, <2>1, <3>1, <3>2, <3>3
  <2>3. CASE i = n + 1
    <3>1. (n - i + 1) * Hour = 0 /\ Capacity * (time - more[i]) = 0
      BY <1>0, <2>3
    <3> HIDE DEF more, n
    <3> QED
      BY <1>0, <2>1, <3>1
  <2> QED
    BY <1>0, <2>2, <2>3
<1>2. ASSUME NEW moment \in Int, moment <= time
      PROVE  \/ Full - (tokens - Hour) <= Taken(more, moment)
             \/ Full - (tokens - Hour) <= Taken(more, moment) + Capacity * (Hour - (time - moment))
  <2> DEFINE missing == Capacity * (Hour - (time - moment))
  <2>1. Taken(more, moment) \in Nat /\ Taken(times, moment) \in Nat /\ missing \in Int
    <3>1. Taken(more, moment) \in Nat
      <4> HIDE DEF more
      <4> QED
        BY <1>0, AfterFinite
    <3>2. Taken(times, moment) \in Nat
      BY AfterFinite
    <3>3. missing \in Int
      <4>1. Hour - (time - moment) \in Int
        OBVIOUS
      <4> QED
        BY <4>1, Distributes
    <3> QED
      BY <3>1, <3>2, <3>3
  <2>2. CASE moment = time
    <3>1. missing = Full
      BY <2>2 DEF Full
    <3> HIDE DEF more, missing
    <3>2. Full - (tokens - Hour) <= Taken(more, moment) + missing
      BY <1>0, <2>1, <3>1
    <3> QED
      BY <3>2 DEF missing
  <2>3. CASE moment < time
    <3>1. After(more, moment) = After(times, moment) \cup {n + 1} /\ n + 1 \notin After(times, moment)
      BY <1>0, <2>3 DEF After
    <3>2. Cardinality(After(more, moment)) = Cardinality(After(times, moment)) + 1
      BY <3>1, AfterFinite, FS_AddElement
    <3>3. Taken(more, moment) = Taken(times, moment) + Hour
      <4>1. Cardinality(After(times, moment)) \in Nat
        BY AfterFinite
      <4>2. Hour * (Cardinality(After(times, moment)) + 1)
              = Hour * Cardinality(After(times, moment)) + Hour
        BY <4>1, Distributes
      <4> QED
        BY <3>2, <4>2 DEF Taken
    <3>4. \/ Full - tokens <= Taken(times, moment)
          \/ Full - tokens <= Taken(times, moment) + missing
      BY <2>3 DEF LacksAtMost
    <3> HIDE DEF more, missing
    <3>5. \/ Full - (tokens - Hour) <= Taken(more, moment)
          \/ Full - (tokens - Hour) <= Taken(more, moment) + missing
      BY ONLY <1>0, <2>1, <3>3, <3>4, GateAssumption
    <3> QED
      BY <3>5 DEF missing
  <2> QED
    BY <1>2, <2>2, <2>3
<1>3. LeavesAtMost(more, tokens - Hour, time)
  BY <1>0, <1>1 DEF LeavesAtMost
<1>4. LacksAtMost(more, tokens - Hour, time)
  BY <1>2 DEF LacksAtMost
<1> QED
  BY <1>3, <1>4

\* A step that stores nothing in the buckets keeps what is known of them.
LEMMA UntouchedKeepsRate ==
  ASSUME RateInv, UNCHANGED bucket_vars
  PROVE  RateInv'
BY DEF RateInv, BucketInv, RateBound, LeavesAtMost, LacksAtMost, Taken, After, bucket_vars

\* Letting in keeps the bounds of that user's bucket, and so the rate.
LEMMA ConsumeRate ==
  ASSUME TypeOK, BucketsPast, RateInv, NEW u \in Users, Consume(u), now' = now
  PROVE  RateInv'
<1> DEFINE T == Tokens(u)
<1>0. T \in 0..Full /\ Full \in Nat /\ now \in Nat /\ Hour <= Full
  BY TokensType, FullType DEF Full, TypeOK
<1>1. LeavesAtMost(admitted[u], T, now) /\ LacksAtMost(admitted[u], T, now)
  BY RefillKeeps DEF RateInv
<1>2. PICK left \in 0..Full :
        /\ SetBucket(u, left)
        /\ LeavesAtMost(admitted'[u], left, now) /\ LacksAtMost(admitted'[u], left, now)
        /\ \A v \in Users \ {u} : admitted'[v] = admitted[v]
        /\ \/ admitted'[u] = admitted[u]
           \/ admitted'[u] = Append(admitted[u], now)
  <2>1. CASE T >= Hour
    <3>1. T \in Hour..Full /\ T - Hour \in 0..Full
      <4> HIDE DEF T
      <4> QED
        BY <1>0, <2>1
    <3>2. SetBucket(u, T - Hour) /\ admitted' = [admitted EXCEPT ![u] = Append(@, now)]
      BY <2>1 DEF Consume
    <3>3. admitted'[u] = Append(admitted[u], now) /\ admitted[u] \in Seq(Nat)
      BY <3>2 DEF TypeOK
    <3>4. \A v \in Users \ {u} : admitted'[v] = admitted[v]
      BY <3>2 DEF TypeOK
    <3> HIDE DEF T
    <3>5. LeavesAtMost(admitted'[u], T - Hour, now) /\ LacksAtMost(admitted'[u], T - Hour, now)
      BY <1>0, <1>1, <3>1, <3>3, AdmissionKeeps
    <3> QED
      BY <3>1, <3>2, <3>3, <3>4, <3>5
  <2>2. CASE ~(T >= Hour)
    BY <1>0, <1>1, <2>2 DEF Consume
  <2> QED
    BY <2>1, <2>2
<1>3. /\ DOMAIN buckets' = DOMAIN buckets \cup {u}
      /\ buckets'[u] = [tokens |-> left, last |-> now]
      /\ \A v \in DOMAIN buckets \ {u} : buckets'[v] = buckets[v]
  BY <1>2, SetBucketType DEF Full
<1>4. BucketInv'
  <2> SUFFICES ASSUME NEW v \in Users
               PROVE  /\ v \notin DOMAIN buckets' => admitted'[v] = <<>>
                      /\ v \in DOMAIN buckets' =>
                           /\ LeavesAtMost(admitted'[v], buckets'[v].tokens, buckets'[v].last)
                           /\ LacksAtMost(admitted'[v], buckets'[v].tokens, buckets'[v].last)
    BY DEF BucketInv, LeavesAtMost, LacksAtMost, Taken, After
  <2>1. CASE v = u
    BY <1>2, <1>3, <2>1
  <2>2. CASE v # u
    BY <1>2, <1>3, <2>2 DEF RateInv, BucketInv
  <2> QED
    BY <2>1, <2>2
<1>5. RateBound'
  <2> SUFFICES ASSUME NEW v \in Users, NEW i \in DOMAIN admitted'[v], NEW j \in DOMAIN admitted'[v],
                      i <= j
               PROVE  (j - i + 1) * Hour
                        <= Capacity * Hour + Capacity * (admitted'[v][j] - admitted'[v][i])
    BY DEF RateBound
  <2>1. CASE admitted'[v] = admitted[v]
    BY <2>1 DEF RateInv, RateBound
  <2>2. CASE v = u /\ admitted'[u] = Append(admitted[u], now)
    <3> DEFINE n == Len(admitted[u])
    <3>0. /\ admitted[u] \in Seq(Nat) /\ n \in Nat
          /\ i \in 1..n + 1 /\ j \in 1..n + 1
          /\ Len(admitted'[u]) = n + 1 /\ admitted'[u][n + 1] = now
          /\ \A k \in 1..n : admitted'[u][k] = admitted[u][k] /\ admitted[u][k] \in Nat
      BY <2>2 DEF TypeOK
    <3>1. CASE j = n + 1
      <4>0. /\ i \in DOMAIN admitted'[u] /\ admitted'[u][i] \in Nat
            /\ left \in Nat
        <5> HIDE DEF n
        <5>1. left \in Nat
          BY <1>0, <1>2
        <5>2. i \in DOMAIN admitted'[u]
          BY <2>2
        <5>3. i = n + 1 \/ i \in 1..n
          BY ONLY <3>0
        <5>4. admitted'[u][i] \in Nat
          BY <1>0, <3>0, <5>3
        <5> QED
          BY ONLY <5>1, <5>2, <5>4
      <4>1. left + (n + 1 - i + 1) * Hour <= Full + Capacity * (now - admitted'[u][i])
        <5>1. \A k \in DOMAIN admitted'[u] :
                left + (Len(admitted'[u]) - k + 1) * Hour <= Full + Capacity * (now - admitted'[u][k])
          BY <1>2 DEF LeavesAtMost
        <5>2. Len(admitted'[u]) - i + 1 = n + 1 - i + 1
          BY <3>0
        <5> QED
          BY <4>0, <5>1, <5>2
      <4>2. /\ (n + 1 - i + 1) * Hour \in Int
            /\ Capacity * (now - admitted'[u][i]) \in Int
        <5>1. n + 1 - i + 1 \in Int /\ now - admitted'[u][i] \in Int
          <6> HIDE DEF n
          <6> QED
            BY <1>0, <3>0, <4>0
        <5> QED
          BY <5>1
      <4>3. (n + 1 - i + 1) * Hour <= Full + Capacity * (now - admitted'[u][i])
        <5> HIDE DEF n
        <5> QED
          BY <1>0, <4>0, <4>1, <4>2
      <4>4. /\ admitted'[v][j] = now /\ admitted'[v][i] = admitted'[u][i]
            /\ j - i + 1 = n + 1 - i + 1
        BY <2>2, <3>0, <3>1
      <4> QED
        <5> HIDE DEF n
        <5> QED
          BY <4>3, <4>4 DEF Full
    <3>2. CASE j \in 1..n
      <4>1. i \in 1..n
        BY <3>0, <3>2
      <4>2. i \in DOMAIN admitted[u] /\ j \in DOMAIN admitted[u]
        BY <3>0, <3>2, <4>1
      <4> QED
        BY <2>2, <3>0, <3>2, <4>1, <4>2 DEF RateInv, RateBound
    <3>3. j = n + 1 \/ j \in 1..n
      <4> HIDE DEF n
      <4> QED
        BY <3>0
    <3> HIDE DEF n
    <3> QED
      BY ONLY <3>1, <3>2, <3>3
  <2> QED
    BY <1>2, <2>1, <2>2
<1> QED
  BY <1>4, <1>5 DEF RateInv

LEMMA InitRateInv == Init => RateInv
BY DEF Init, RateInv, BucketInv, RateBound

LEMMA StepRateInv == PolicyInv /\ RateInv /\ [Next]_vars => RateInv'
<1> SUFFICES ASSUME PolicyInv, RateInv, [Next]_vars PROVE RateInv'
  OBVIOUS
<1>1. CASE UNCHANGED bucket_vars
  BY <1>1, UntouchedKeepsRate
<1>2. CASE Decide /\ Consume(request.user)
  <2>1. request.user \in Users /\ now' = now
    BY <1>2, RequestType DEF Decide, PolicyInv, TypeOK
  <2> QED
    BY <1>2, <2>1, ConsumeRate DEF PolicyInv
<1> QED
  BY <1>1, <1>2 DEF Next, vars, Tick, Edit, Receive, Stat, ReadPolicy, ReadFails, Decide,
         DecideNamespace

LEMMA RateInvariant == Spec => []RateInv
BY InitRateInv, StepRateInv, PolicyInvariant, PTL DEF Spec

\* Nobody is let in more often than the bucket and its refill allow.
THEOREM NoMoreThanRate == Spec => []RateBound
<1>1. RateInv => RateBound
  BY DEF RateInv
<1> QED
  BY <1>1, RateInvariant, PTL

\* And nobody is refused for its rate who was let in less often than that.
THEOREM NoLessThanRate == Spec => RefusedOnlyWhenSpent
<1> DEFINE Spent == Cardinality({i \in DOMAIN admitted[request.user] :
                                   admitted[request.user][i] > now - Hour}) >= Capacity
<1>1. PolicyInv /\ RateInv /\ [Next]_vars =>
        [pc = "decide" /\ verdict' = "rate_limited" => Spent]_vars
  <2> SUFFICES ASSUME PolicyInv, RateInv, Next, pc = "decide", verdict' = "rate_limited"
               PROVE  Spent
    OBVIOUS
  <2> DEFINE u == request.user
             T == Tokens(u)
             N == Cardinality(After(admitted[u], now - Hour))
  <2>1. verdict = "none"
    BY DEF PolicyInv, LoaderInv
  <2>2. Decide
    BY <2>1 DEF Next, Tick, Edit, Receive, Stat, ReadPolicy, ReadFails, DecideNamespace,
           NamespaceDecision
  <2>3. u \in Users
    BY <2>2, RequestType DEF Decide, PolicyInv, TypeOK
  <2>4. ~(T >= Hour)
    BY <2>2 DEF Decide, Refusal, Consume
  <2>5. T \in 0..Full /\ Full \in Nat /\ now \in Nat /\ admitted[u] \in Seq(Nat)
    BY <2>3, TokensType, FullType DEF PolicyInv, TypeOK, Full
  <2>6. LacksAtMost(admitted[u], T, now)
    BY <2>3, RefillKeeps DEF PolicyInv, RateInv
  <2>7. now - Hour \in Int /\ now - Hour <= now /\ Hour - (now - (now - Hour)) = 0
    BY <2>5
  <2>8. N \in Nat /\ Taken(admitted[u], now - Hour) = Hour * N
    BY <2>5, <2>7, AfterFinite DEF Taken
  <2> HIDE DEF T, N
  <2>9. Full - T <= Hour * N
    <3>1. Full - T <= Hour * N \/ Full - T <= Hour * N + Capacity * 0
      BY <2>6, <2>7, <2>8 DEF LacksAtMost
    <3> QED
      BY <2>5, <2>8, <3>1
  <2>10. N >= Capacity
    <3> SUFFICES ASSUME N < Capacity PROVE FALSE
      BY <2>8
    <3>1. Capacity - 1 - N \in Nat
      BY <2>8
    <3>2. Hour * (Capacity - 1 - N) \in Nat
      BY <3>1, AtLeastZero
    <3>3. Hour * (Capacity - 1 - N) = Full - Hour - Hour * N
      BY <2>8, Distributes DEF Full
    <3> QED
      BY <2>4, <2>5, <2>8, <2>9, <3>2, <3>3, Distributes
  <2> QED
    BY <2>10 DEF N, After
<1> QED
  BY <1>1, PolicyInvariant, RateInvariant, PTL DEF Spec, RefusedOnlyWhenSpent
=============================================================================
