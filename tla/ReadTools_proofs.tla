-------------------------- MODULE ReadTools_proofs --------------------------
(***************************************************************************)
(* What ReadTools tells of any data, under any caps: the last words of a   *)
(* log, the newest Jobs of the CronJob that was read, the newest events,   *)
(* and whether something was left out.                                     *)
(***************************************************************************)
EXTENDS ReadTools, TLAPS, FiniteSetTheorems

----------------------------------------------------------------------------
(* Sorting by counting.                                                    *)

\* Key first, then place: what InOrder sorts by is a strict order.
Before(key, i, j) == key[i] < key[j] \/ (key[i] = key[j] /\ i < j)
Below(places, key, j) == {i \in places : Before(key, i, j)}
Rank(places, key) == [j \in places |-> Cardinality(Below(places, key, j)) + 1]

\* The place that comes n-th.
At(places, key) == [n \in 1..Cardinality(places) |-> CHOOSE j \in places :
                      Cardinality({i \in places : \/ key[i] < key[j]
                                                  \/ key[i] = key[j] /\ i < j}) + 1 = n]

LEMMA UpTo ==
  ASSUME NEW n \in Nat
  PROVE  IsFiniteSet(1..n) /\ Cardinality(1..n) = n
<1>1. IsFiniteSet(1..n) /\ Cardinality(1..n) = IF 1 > n THEN 0 ELSE n - 1 + 1
  BY FS_Interval
<1> QED
  BY ONLY <1>1, n \in Nat

LEMMA RankRises ==
  ASSUME NEW places \in SUBSET Int, IsFiniteSet(places), NEW key \in [places -> Int]
  PROVE  /\ Rank(places, key) \in [places -> 1..Cardinality(places)]
         /\ \A i, j \in places :
              Before(key, i, j) => Rank(places, key)[i] < Rank(places, key)[j]
<1>1. \A j \in places : Below(places, key, j) \in SUBSET places /\ j \notin Below(places, key, j)
  BY DEF Below, Before
<1>2. ASSUME NEW j \in places
      PROVE  /\ IsFiniteSet(Below(places, key, j))
             /\ Cardinality(Below(places, key, j)) \in Nat
             /\ Cardinality(Below(places, key, j)) < Cardinality(places)
  <2>1. IsFiniteSet(Below(places, key, j))
    BY <1>1, FS_Subset
  <2>2. /\ Cardinality(Below(places, key, j)) <= Cardinality(places)
        /\ Cardinality(places) = Cardinality(Below(places, key, j)) => places = Below(places, key, j)
    BY <1>1, FS_Subset
  <2>3. Cardinality(Below(places, key, j)) \in Nat /\ Cardinality(places) \in Nat
    BY <2>1, FS_CardinalityType
  <2> QED
    BY ONLY <1>1, <2>1, <2>2, <2>3
<1>3. Cardinality(places) \in Nat
  BY FS_CardinalityType
<1>4. Rank(places, key) \in [places -> 1..Cardinality(places)]
  <2>1. \A j \in places : Cardinality(Below(places, key, j)) + 1 \in 1..Cardinality(places)
    BY <1>2, <1>3
  <2> QED
    BY <2>1 DEF Rank
<1>5. ASSUME NEW i \in places, NEW j \in places, Before(key, i, j)
      PROVE  Rank(places, key)[i] < Rank(places, key)[j]
  <2>1. Below(places, key, i) \in SUBSET Below(places, key, j)
    <3> SUFFICES ASSUME NEW k \in places, Before(key, k, i) PROVE Before(key, k, j)
      BY DEF Below
    <3> QED
      BY <1>5 DEF Before
  <2>2. i \in Below(places, key, j) /\ i \notin Below(places, key, i)
    BY <1>1, <1>5 DEF Below
  <2>3. /\ Cardinality(Below(places, key, i)) <= Cardinality(Below(places, key, j))
        /\ Cardinality(Below(places, key, j)) # Cardinality(Below(places, key, i))
    BY <1>2, <2>1, <2>2, FS_Subset
  <2> QED
    BY <1>2, <2>3 DEF Rank
<1> QED
  BY <1>4, <1>5

\* Each of the places comes once, by its key and then by its own order.
LEMMA EachPlaceOnce ==
  ASSUME NEW places \in SUBSET Int, IsFiniteSet(places), NEW key \in [places -> Int]
  PROVE  /\ At(places, key) \in Bijection(1..Cardinality(places), places)
         /\ \A n \in 1..Cardinality(places) : At(places, key)[n] \in places
         /\ \A m, n \in 1..Cardinality(places) :
              m < n => Before(key, At(places, key)[m], At(places, key)[n])
         /\ \A n \in 1..Cardinality(places) : Rank(places, key)[At(places, key)[n]] = n
<1> DEFINE C == Cardinality(places)
           rank == Rank(places, key)
           at == At(places, key)
<1>1. rank \in [places -> 1..C] /\ \A i, j \in places : Before(key, i, j) => rank[i] < rank[j]
  BY RankRises
<1>2. \A i, j \in places : i = j \/ Before(key, i, j) \/ Before(key, j, i)
  BY DEF Before
<1>3. C \in Nat
  BY FS_CardinalityType
<1>4. \A i, j \in places : rank[i] = rank[j] => i = j
  <2> HIDE DEF rank
  <2> QED
    BY <1>1, <1>2, <1>3
<1>5. rank \in Surjection(places, 1..C)
  <2>1. rank \in Injection(places, 1..C)
    <3> HIDE DEF rank
    <3> QED
      BY <1>1, <1>4 DEF Injection, IsInjective
  <2>2. IsFiniteSet(1..C) /\ Cardinality(1..C) = C
    BY <1>3, FS_Interval
  <2> HIDE DEF rank
  <2> QED
    BY <2>1, <2>2, FS_Injection
<1>6. \A n \in 1..C : at[n] \in places /\ rank[at[n]] = n
  <2> SUFFICES ASSUME NEW n \in 1..C PROVE at[n] \in places /\ rank[at[n]] = n
    OBVIOUS
  <2>1. PICK j \in places : rank[j] = n
    BY <1>5 DEF Surjection
  <2>2. at[n] = CHOOSE k \in places :
                  Cardinality({i \in places : \/ key[i] < key[k]
                                              \/ key[i] = key[k] /\ i < k}) + 1 = n
    BY DEF At
  <2>3. \A k \in places : rank[k] = Cardinality({i \in places : \/ key[i] < key[k]
                                                                \/ key[i] = key[k] /\ i < k}) + 1
    BY DEF Rank, Below, Before
  <2> HIDE DEF rank, at
  <2> QED
    BY <2>1, <2>2, <2>3
<1>7. at \in [1..C -> places]
  BY <1>6 DEF At
<1> HIDE DEF at, rank
<1>8. at \in Bijection(1..C, places)
  <2>1. \A m, n \in 1..C : at[m] = at[n] => m = n
    BY <1>6
  <2>2. \A j \in places : rank[j] \in 1..C /\ at[rank[j]] = j
    BY <1>1, <1>4, <1>6
  <2> QED
    BY <1>7, <2>1, <2>2 DEF Bijection, Injection, IsInjective, Surjection
<1>9. \A m, n \in 1..C : m < n => Before(key, at[m], at[n])
  <2> SUFFICES ASSUME NEW m \in 1..C, NEW n \in 1..C, m < n PROVE Before(key, at[m], at[n])
    OBVIOUS
  <2>1. at[m] \in places /\ at[n] \in places /\ rank[at[m]] = m /\ rank[at[n]] = n
    BY <1>6
  <2>2. at[m] # at[n] /\ ~(n < m)
    BY <2>1, <1>3
  <2> QED
    BY <1>1, <1>2, <2>1, <2>2
<1> QED
  BY <1>6, <1>8, <1>9 DEF rank, at

\* InOrder is a stable sort of the items at the places, for whatever sequence
\* and keys: each of the places is taken once, the keys never fall, and equal
\* keys keep the order of the places.  The lists of events and Jobs go
\* through it, as they go through Python's sort.
THEOREM SortIsStable ==
  ASSUME NEW S, NEW sequence, NEW places \in SUBSET Int, IsFiniteSet(places),
         \A i \in places : sequence[i] \in S,
         NEW key \in [places -> Int]
  PROVE  LET sorted == InOrder(sequence, places, key) IN
         \E at \in Bijection(1..Cardinality(places), places) :
           /\ sorted \in [1..Cardinality(places) -> S]
           /\ \A n \in 1..Cardinality(places) : sorted[n] = sequence[at[n]]
           /\ \A m, n \in 1..Cardinality(places) : m < n => Before(key, at[m], at[n])
<1>1. /\ At(places, key) \in Bijection(1..Cardinality(places), places)
      /\ \A m, n \in 1..Cardinality(places) :
           m < n => Before(key, At(places, key)[m], At(places, key)[n])
  BY EachPlaceOnce
<1>2. \A n \in 1..Cardinality(places) : sequence[At(places, key)[n]] \in S
  BY EachPlaceOnce
<1>3. InOrder(sequence, places, key) \in [1..Cardinality(places) -> S]
  BY <1>2 DEF InOrder, At
<1>4. \A n \in 1..Cardinality(places) :
        InOrder(sequence, places, key)[n] = sequence[At(places, key)[n]]
  BY <1>2 DEF InOrder, At
<1> QED
  BY <1>1, <1>3, <1>4

----------------------------------------------------------------------------
(* What a filter, a sort and the two ends of a sequence are.               *)

LEMMA PlacesFinite ==
  ASSUME NEW S, NEW s \in Seq(S), NEW places \in SUBSET DOMAIN s
  PROVE  /\ places \in SUBSET Int /\ IsFiniteSet(places) /\ Cardinality(places) \in Nat
         /\ Cardinality(DOMAIN s) = Len(s)
         /\ Cardinality(places) <= Len(s)
         /\ Cardinality(places) = Len(s) => places = DOMAIN s
<1>1. DOMAIN s = 1..Len(s) /\ Len(s) \in Nat
  OBVIOUS
<1>2. IsFiniteSet(DOMAIN s) /\ Cardinality(DOMAIN s) = Len(s)
  BY <1>1, UpTo
<1>3. IsFiniteSet(places)
  BY <1>2, FS_Subset
<1>4. /\ Cardinality(places) <= Len(s)
      /\ Cardinality(places) = Len(s) => places = DOMAIN s
  BY <1>2, FS_Subset
<1> QED
  BY <1>1, <1>2, <1>3, <1>4, FS_CardinalityType

\* The filter keeps every item of the places, once, in the order it had.
Places(places) == [k \in places |-> k]

LEMMA KeptInOrder ==
  ASSUME NEW S, NEW s \in Seq(S), NEW places \in SUBSET DOMAIN s
  PROVE  LET at == At(places, Places(places)) IN
         /\ at \in Bijection(1..Cardinality(places), places)
         /\ Kept(s, places) \in [1..Cardinality(places) -> S]
         /\ \A n \in 1..Cardinality(places) : Kept(s, places)[n] = s[at[n]]
         /\ \A m, n \in 1..Cardinality(places) : m < n => at[m] < at[n]
         /\ \A n \in 1..Cardinality(places) : Rank(places, Places(places))[at[n]] = n
<1> DEFINE key == Places(places)
           at == At(places, key)
           C == Cardinality(places)
<1>1. places \in SUBSET Int /\ IsFiniteSet(places) /\ \A i \in places : s[i] \in S
  BY PlacesFinite
<1>2. key \in [places -> Int] /\ \A k \in places : key[k] = k
  BY <1>1 DEF Places
<1>3. Kept(s, places) = InOrder(s, places, key)
  BY DEF Kept, Places
<1> HIDE DEF key
<1>4. /\ at \in Bijection(1..C, places)
      /\ InOrder(s, places, key) \in [1..C -> S]
      /\ \A n \in 1..C : InOrder(s, places, key)[n] = s[at[n]]
      /\ \A m, n \in 1..C : m < n => Before(key, at[m], at[n])
      /\ \A n \in 1..C : Rank(places, key)[at[n]] = n
  <2>1. at \in Bijection(1..C, places)
    BY <1>1, <1>2, EachPlaceOnce
  <2>0. \A n \in 1..C : s[at[n]] \in S
    BY <1>1, <1>2, EachPlaceOnce
  <2>2. InOrder(s, places, key) \in [1..C -> S]
    BY <2>0 DEF InOrder, At
  <2>3. \A n \in 1..C : InOrder(s, places, key)[n] = s[at[n]]
    BY <2>0 DEF InOrder, At
  <2>4. \A m, n \in 1..C : m < n => Before(key, at[m], at[n])
    BY <1>1, <1>2, EachPlaceOnce
  <2>5. \A n \in 1..C : Rank(places, key)[at[n]] = n
    BY <1>1, <1>2, EachPlaceOnce
  <2> QED
    BY <2>1, <2>2, <2>3, <2>4, <2>5
<1> HIDE DEF at, C
<1>5. \A n \in 1..C : at[n] \in places
  BY <1>4 DEF Bijection, Injection
<1>6. \A m, n \in 1..C : m < n => at[m] < at[n]
  BY <1>1, <1>2, <1>4, <1>5 DEF Before
<1> QED
  BY <1>3, <1>4, <1>6 DEF key, at, C

LEMMA KeptHas ==
  ASSUME NEW S, NEW s \in Seq(S), NEW places \in SUBSET DOMAIN s
  PROVE  /\ Kept(s, places) \in Seq(S) /\ Len(Kept(s, places)) = Cardinality(places)
         /\ \A n \in DOMAIN Kept(s, places) : \E i \in places : Kept(s, places)[n] = s[i]
         /\ \A i \in places : \E n \in DOMAIN Kept(s, places) : Kept(s, places)[n] = s[i]
         /\ places # {} => Kept(s, places) # <<>>
<1> DEFINE C == Cardinality(places)
           kept == Kept(s, places)
           at == At(places, Places(places))
<1>1. C \in Nat
  BY PlacesFinite
<1>2. /\ at \in Bijection(1..C, places)
      /\ kept \in [1..C -> S] /\ \A n \in 1..C : kept[n] = s[at[n]]
  BY KeptInOrder
<1> HIDE DEF at
<1>3. /\ \A n \in 1..C : at[n] \in places /\ s[at[n]] \in S
      /\ \A i \in places : \E n \in 1..C : at[n] = i
  BY <1>2 DEF Bijection, Injection, Surjection
<1> HIDE DEF C, kept
<1>4. kept \in Seq(S) /\ Len(kept) = C /\ DOMAIN kept = 1..C
  BY <1>1, <1>2, <1>3
<1>5. places # {} => kept # <<>>
  BY <1>3, <1>4
<1>6. \A n \in DOMAIN kept : \E i \in places : kept[n] = s[i]
  BY <1>2, <1>3, <1>4
<1>7. \A i \in places : \E n \in DOMAIN kept : kept[n] = s[i]
  BY <1>2, <1>3, <1>4
<1> QED
  BY <1>4, <1>5, <1>6, <1>7 DEF C, kept

LEMMA KeptLast ==
  ASSUME NEW S, NEW s \in Seq(S), NEW places \in SUBSET DOMAIN s, Len(s) \in places
  PROVE  /\ Kept(s, places) # <<>>
         /\ Kept(s, places)[Len(Kept(s, places))] = s[Len(s)]
<1> DEFINE C == Cardinality(places)
           kept == Kept(s, places)
           at == At(places, Places(places))
<1>1. C \in Nat
  BY PlacesFinite
<1>2. /\ at \in Bijection(1..C, places)
      /\ \A n \in 1..C : kept[n] = s[at[n]]
      /\ \A m, n \in 1..C : m < n => at[m] < at[n]
  BY KeptInOrder
<1> HIDE DEF at
<1>3. /\ \A n \in 1..C : at[n] \in places
      /\ \A i \in places : \E n \in 1..C : at[n] = i
  BY <1>2 DEF Bijection, Injection, Surjection
<1>4. kept \in Seq(S) /\ Len(kept) = C /\ kept # <<>>
  BY KeptHas
<1>5. PICK n \in 1..C : at[n] = Len(s)
  BY <1>3
<1>6. at[C] \in 1..Len(s) /\ C \in 1..C
  BY <1>1, <1>3, <1>5
<1>7. n = C
  <2>1. ~(n < C)
    BY <1>2, <1>5, <1>6
  <2> QED
    BY <1>1, <2>1
<1> HIDE DEF C, kept
<1> QED
  BY <1>2, <1>4, <1>5, <1>6, <1>7 DEF C, kept

LEMMA KeptWhole ==
  ASSUME NEW S, NEW s \in Seq(S)
  PROVE  Kept(s, DOMAIN s) = s
<1> DEFINE D == DOMAIN s
           key == Places(D)
           at == At(D, key)
<1>1. Cardinality(D) = Len(s) /\ Len(s) \in Nat /\ D = 1..Len(s)
  BY PlacesFinite
<1>2. /\ at \in Bijection(1..Cardinality(D), D)
      /\ Kept(s, D) \in [1..Cardinality(D) -> S]
      /\ \A n \in 1..Cardinality(D) : Kept(s, D)[n] = s[at[n]]
      /\ \A n \in 1..Cardinality(D) : Rank(D, key)[at[n]] = n
  BY KeptInOrder
<1>3. ASSUME NEW j \in D PROVE Rank(D, key)[j] = j
  <2>1. Below(D, key, j) = 1..j - 1
    BY <1>1 DEF Below, Before, Places
  <2>2. j - 1 \in Nat
    BY <1>1
  <2>4. Cardinality(1..j - 1) = j - 1
    BY <2>2, UpTo
  <2> QED
    BY <2>1, <2>4, <1>1 DEF Rank
<1> HIDE DEF at
<1>4. \A n \in 1..Len(s) : at[n] \in D
  BY <1>1, <1>2 DEF Bijection, Injection
<1>5. \A n \in 1..Len(s) : at[n] = n
  BY <1>1, <1>2, <1>3, <1>4
<1>6. Kept(s, D) \in [1..Len(s) -> S] /\ \A n \in 1..Len(s) : Kept(s, D)[n] = s[n]
  BY <1>1, <1>2, <1>5
<1> HIDE DEF D
<1>7. Kept(s, D) = s
  BY <1>1, <1>6
<1> QED
  BY <1>7 DEF D

LEMMA AtMostIs ==
  ASSUME NEW a \in Int, NEW b \in Int
  PROVE  AtMost(a, b) \in Int /\ AtMost(a, b) <= a /\ AtMost(a, b) <= b
         /\ (AtMost(a, b) = a \/ AtMost(a, b) = b)
BY DEF AtMost

LEMMA FirstOfIs ==
  ASSUME NEW S, NEW s \in Seq(S), NEW limit \in Nat
  PROVE  /\ FirstOf(s, limit) \in Seq(S)
         /\ Len(FirstOf(s, limit)) = AtMost(limit, Len(s))
         /\ DOMAIN FirstOf(s, limit) = 1..AtMost(limit, Len(s))
         /\ \A n \in DOMAIN FirstOf(s, limit) : FirstOf(s, limit)[n] = s[n]
         /\ FirstOf(s, limit) = s <=> Len(s) <= limit
<1>1. AtMost(limit, Len(s)) \in 0..Len(s) /\ Len(s) \in Nat
  BY DEF AtMost
<1>2. /\ FirstOf(s, limit) \in Seq(S)
      /\ Len(FirstOf(s, limit)) = AtMost(limit, Len(s))
      /\ DOMAIN FirstOf(s, limit) = 1..AtMost(limit, Len(s))
      /\ \A n \in DOMAIN FirstOf(s, limit) : FirstOf(s, limit)[n] = s[n]
  BY <1>1 DEF FirstOf
<1>3. Len(s) <= limit => FirstOf(s, limit) = s
  BY <1>1, <1>2 DEF AtMost
<1>4. ~(Len(s) <= limit) => FirstOf(s, limit) # s
  BY <1>1, <1>2 DEF AtMost
<1> QED
  BY <1>2, <1>3, <1>4

LEMMA LastOfIs ==
  ASSUME NEW S, NEW s \in Seq(S), NEW limit \in Nat \ {0}
  PROVE  /\ LastOf(s, limit) \in Seq(S)
         /\ s # <<>> => /\ LastOf(s, limit) # <<>>
                        /\ LastOf(s, limit)[Len(LastOf(s, limit))] = s[Len(s)]
         /\ s = <<>> => LastOf(s, limit) = <<>>
<1> DEFINE m == AtMost(limit, Len(s))
           t == LastOf(s, limit)
<1>1. m \in 0..Len(s) /\ Len(s) \in Nat /\ (s # <<>> => m \in 1..Len(s))
  BY DEF AtMost
<1>2. t = SubSeq(s, Len(s) - m + 1, Len(s))
  BY DEF LastOf
<1> HIDE DEF m, t
<1>3. t \in Seq(S) /\ Len(t) = m /\ \A n \in 1..m : t[n] = s[Len(s) - m + n]
  BY <1>1, <1>2
<1>4. s # <<>> => t # <<>> /\ t[m] = s[Len(s)]
  BY <1>1, <1>3
<1>5. s = <<>> => t = <<>>
  BY <1>1, <1>3
<1> QED
  BY <1>3, <1>4, <1>5 DEF t

\* The first of a sorted sequence: what is left out has no lesser key.
LEMMA FirstOfSorted ==
  ASSUME NEW S, NEW s \in Seq(S), NEW key \in [DOMAIN s -> Int], NEW limit \in Nat
  PROVE  LET cut == FirstOf(SortedBy(s, key), limit) IN
         /\ cut \in Seq(S) /\ Len(cut) = AtMost(limit, Len(s))
         /\ \E at \in [DOMAIN cut -> DOMAIN s] :
              /\ \A n \in DOMAIN cut : cut[n] = s[at[n]]
              /\ \A m, n \in DOMAIN cut : m < n => key[at[m]] <= key[at[n]]
              /\ \A i \in DOMAIN s : \/ \E n \in DOMAIN cut : cut[n] = s[i]
                                     \/ /\ Len(s) > limit
                                        /\ \A n \in DOMAIN cut : key[at[n]] <= key[i]
<1> DEFINE L == Len(s)
           sorted == SortedBy(s, key)
           cut == FirstOf(sorted, limit)
           at == At(DOMAIN s, key)
<1>1. /\ DOMAIN s \in SUBSET Int /\ IsFiniteSet(DOMAIN s) /\ Cardinality(DOMAIN s) = L
      /\ L \in Nat /\ \A i \in DOMAIN s : s[i] \in S
  BY PlacesFinite
<1>2. /\ at \in Bijection(1..L, DOMAIN s)
      /\ sorted \in [1..L -> S]
      /\ \A n \in 1..L : sorted[n] = s[at[n]]
      /\ \A m, n \in 1..L : m < n => Before(key, at[m], at[n])
  <2> DEFINE D == DOMAIN s
  <2>1. key \in [D -> Int] /\ D \in SUBSET Int /\ IsFiniteSet(D) /\ \A i \in D : s[i] \in S
    BY <1>1
  <2>2. Cardinality(D) = L
    BY <1>1
  <2> HIDE DEF D, L
  <2>3. At(D, key) \in Bijection(1..Cardinality(D), D)
    BY ONLY <2>1, EachPlaceOnce
  <2>0. \A n \in 1..Cardinality(D) : s[At(D, key)[n]] \in S
    BY ONLY <2>1, EachPlaceOnce
  <2>4. InOrder(s, D, key) \in [1..Cardinality(D) -> S]
    BY ONLY <2>0 DEF InOrder, At
  <2>5. \A n \in 1..Cardinality(D) : InOrder(s, D, key)[n] = s[At(D, key)[n]]
    BY ONLY <2>0 DEF InOrder, At
  <2>6. \A m, n \in 1..Cardinality(D) : m < n => Before(key, At(D, key)[m], At(D, key)[n])
    BY ONLY <2>1, EachPlaceOnce
  <2> QED
    BY <2>2, <2>3, <2>4, <2>5, <2>6 DEF SortedBy, D
<1> HIDE DEF at
<1>3. /\ \A n \in 1..L : at[n] \in DOMAIN s /\ s[at[n]] \in S
      /\ \A i \in DOMAIN s : \E n \in 1..L : at[n] = i
  BY <1>2 DEF Bijection, Injection, Surjection
<1> HIDE DEF sorted, cut, L
<1>4. sorted \in Seq(S) /\ Len(sorted) = L
  BY <1>1, <1>2, <1>3
<1>5. /\ cut \in Seq(S) /\ Len(cut) = AtMost(limit, L) /\ DOMAIN cut = 1..AtMost(limit, L)
      /\ \A n \in DOMAIN cut : cut[n] = sorted[n]
  BY <1>4, FirstOfIs DEF cut
<1>6. DOMAIN cut \subseteq 1..L
  BY <1>1, <1>5 DEF AtMost
<1>7. \A n \in DOMAIN cut : at[n] \in DOMAIN s /\ cut[n] = s[at[n]]
  BY <1>2, <1>3, <1>5, <1>6
<1>8. \A m, n \in 1..L : m < n => key[at[m]] <= key[at[n]]
  <2> SUFFICES ASSUME NEW m \in 1..L, NEW n \in 1..L, m < n PROVE key[at[m]] <= key[at[n]]
    OBVIOUS
  <2>1. key[at[m]] \in Int /\ key[at[n]] \in Int
    BY <1>3
  <2> QED
    BY <1>2, <2>1 DEF Before
<1>9. ASSUME NEW i \in DOMAIN s, ~\E n \in DOMAIN cut : cut[n] = s[i]
      PROVE  L > limit /\ \A n \in DOMAIN cut : key[at[n]] <= key[i]
  <2>1. PICK q \in 1..L : at[q] = i
    BY <1>3
  <2>2. q \notin DOMAIN cut
    BY <1>7, <1>9, <2>1
  <2>3. q > limit /\ \A n \in DOMAIN cut : n < q
    BY <1>1, <1>5, <2>2 DEF AtMost
  <2>4. L > limit
    BY <1>1, <2>3
  <2>5. \A n \in DOMAIN cut : key[at[n]] <= key[i]
    BY <1>6, <1>8, <2>1, <2>3
  <2> QED
    BY <2>4, <2>5
<1> DEFINE first == [n \in DOMAIN cut |-> at[n]]
<1>10. first \in [DOMAIN cut -> DOMAIN s]
  BY <1>7
<1>11. /\ \A n \in DOMAIN cut : cut[n] = s[first[n]]
       /\ \A m, n \in DOMAIN cut : m < n => key[first[m]] <= key[first[n]]
       /\ \A i \in DOMAIN s : \/ \E n \in DOMAIN cut : cut[n] = s[i]
                              \/ L > limit /\ \A n \in DOMAIN cut : key[first[n]] <= key[i]
  BY <1>6, <1>7, <1>8, <1>9
<1> HIDE DEF first
<1> QED
  BY <1>5, <1>10, <1>11 DEF L, cut, sorted

----------------------------------------------------------------------------
(* The bytes of a log.                                                     *)

BytesOf(lines, i) == {i} \X (1..lines[i].bytes)
BytesSince(lines, n) == UNION {BytesOf(lines, i) : i \in {i \in DOMAIN lines : i >= n}}

LEMMA BytesOfIs ==
  ASSUME NEW lines \in Seq(Line), NEW i \in DOMAIN lines
  PROVE  /\ lines[i].bytes \in Nat \ {0}
         /\ IsFiniteSet(BytesOf(lines, i)) /\ Cardinality(BytesOf(lines, i)) = lines[i].bytes
<1>1. lines[i] \in Line
  OBVIOUS
<1>2. lines[i].bytes \in Nat \ {0}
  BY <1>1 DEF Line
<1> DEFINE N == lines[i].bytes
<1> HIDE DEF N
<1>3. IsFiniteSet(1..N) /\ Cardinality(1..N) = N
  BY <1>2, UpTo DEF N
<1>4. IsFiniteSet({i}) /\ Cardinality({i}) = 1
  BY FS_Singleton
<1>5. IsFiniteSet({i} \X (1..N)) /\ Cardinality({i} \X (1..N)) = 1 * N
  BY <1>3, <1>4, FS_Product
<1> QED
  BY <1>2, <1>5 DEF N, BytesOf

LEMMA BytesFinite ==
  ASSUME NEW lines \in Seq(Line), NEW n \in Nat
  PROVE  /\ IsFiniteSet(BytesSince(lines, n))
         /\ BytesFrom(lines, n) = Cardinality(BytesSince(lines, n)) /\ BytesFrom(lines, n) \in Nat
<1> DEFINE places == {i \in DOMAIN lines : i >= n}
           sets == {BytesOf(lines, i) : i \in places}
           row == [i \in places |-> BytesOf(lines, i)]
<1>1. IsFiniteSet(places)
  BY PlacesFinite
<1>2. row \in Surjection(places, sets)
  BY DEF Surjection
<1>3. \A T \in sets : IsFiniteSet(T)
  BY BytesOfIs
<1>4. BytesSince(lines, n) = UNION sets
  BY DEF BytesSince
<1>5. BytesFrom(lines, n) = Cardinality(BytesSince(lines, n))
  BY DEF BytesFrom, BytesSince, BytesOf
<1> HIDE DEF row, sets, places
<1>6. IsFiniteSet(sets)
  BY <1>1, <1>2, FS_Surjection
<1>7. IsFiniteSet(BytesSince(lines, n))
  BY <1>3, <1>4, <1>6, FS_UNION
<1> QED
  BY <1>5, <1>7, FS_CardinalityType

LEMMA BytesPastEnd ==
  ASSUME NEW lines \in Seq(Line), NEW n \in Nat, n > Len(lines)
  PROVE  BytesFrom(lines, n) = 0
<1>1. BytesSince(lines, n) = {}
  BY DEF BytesSince
<1> QED
  BY <1>1, BytesFinite, FS_EmptySet

LEMMA BytesOfOneMore ==
  ASSUME NEW lines \in Seq(Line), NEW n \in DOMAIN lines
  PROVE  BytesFrom(lines, n) = lines[n].bytes + BytesFrom(lines, n + 1)
<1> DEFINE one == BytesOf(lines, n)
           rest == BytesSince(lines, n + 1)
<1>1. n \in Nat /\ n + 1 \in Nat
  OBVIOUS
<1>2. BytesSince(lines, n) = one \cup rest
  <2>1. {i \in DOMAIN lines : i >= n} = {n} \cup {i \in DOMAIN lines : i >= n + 1}
    OBVIOUS
  <2> QED
    BY <2>1 DEF BytesSince
<1>3. one \cap rest = {}
  BY DEF BytesOf, BytesSince
<1>4. IsFiniteSet(one) /\ Cardinality(one) = lines[n].bytes /\ lines[n].bytes \in Nat
  BY BytesOfIs
<1>5. IsFiniteSet(rest) /\ BytesFrom(lines, n + 1) = Cardinality(rest) /\ Cardinality(rest) \in Nat
  BY <1>1, BytesFinite
<1>6. BytesFrom(lines, n) = Cardinality(BytesSince(lines, n))
  BY <1>1, BytesFinite
<1> HIDE DEF one, rest
<1>7. Cardinality(one \cup rest) = Cardinality(one) + Cardinality(rest) - Cardinality(one \cap rest)
  BY <1>4, <1>5, FS_Union
<1>8. Cardinality({}) = 0
  BY FS_EmptySet
<1>9. Cardinality(one \cup rest) = lines[n].bytes + Cardinality(rest)
  <2>1. Cardinality(one \cap rest) = 0
    BY ONLY <1>3, <1>8
  <2> QED
    BY <1>4, <1>5, <1>7, <2>1
<1> QED
  BY <1>2, <1>5, <1>6, <1>9

LEMMA FewerBytes ==
  ASSUME NEW lines \in Seq(Line), NEW m \in Nat, NEW n \in Nat, m <= n
  PROVE  BytesFrom(lines, n) <= BytesFrom(lines, m)
<1>1. BytesSince(lines, n) \in SUBSET BytesSince(lines, m)
  BY DEF BytesSince
<1>2. Cardinality(BytesSince(lines, n)) <= Cardinality(BytesSince(lines, m))
  BY <1>1, BytesFinite, FS_Subset
<1> QED
  BY <1>2, BytesFinite

----------------------------------------------------------------------------
(* The byte cap of a log, and its window.                                  *)

\* What is cut off is cut off in front; that something was is told apart by
\* the size of the whole.
LEMMA CappedIs ==
  ASSUME NEW lines \in Seq(Line)
  PROVE  /\ lines # <<>> => /\ Capped(lines) # <<>>
                            /\ Capped(lines)[Len(Capped(lines))].age = lines[Len(lines)].age
         /\ Capped(lines) # lines <=> BytesFrom(lines, 1) > MaxLogBytes
<1> DEFINE L == Len(lines)
           room(n) == MaxLogBytes - BytesFrom(lines, n + 1)
           cut == [n \in DOMAIN lines |-> [lines[n] EXCEPT !.bytes = AtMost(@, room(n))]]
           places == {n \in DOMAIN lines : room(n) > 0}
           Piece == [age : Nat, bytes : Int]
<1>1. L \in Nat /\ DOMAIN lines = 1..L /\ MaxLogBytes \in Nat \ {0}
  BY ReadAssumption
<1>2. ASSUME NEW n \in DOMAIN lines
      PROVE  /\ lines[n] \in Line /\ lines[n].bytes \in Nat \ {0}
             /\ BytesFrom(lines, n + 1) \in Nat /\ room(n) \in Int
             /\ BytesFrom(lines, n) = lines[n].bytes + BytesFrom(lines, n + 1)
             /\ cut[n] \in Piece /\ cut[n].age = lines[n].age
             /\ cut[n].bytes = AtMost(lines[n].bytes, room(n))
  <2>1. lines[n] \in Line /\ lines[n].bytes \in Nat \ {0}
    BY BytesOfIs
  <2>2. BytesFrom(lines, n + 1) \in Nat
    BY <1>1, BytesFinite
  <2>3. room(n) \in Int /\ AtMost(lines[n].bytes, room(n)) \in Int
    <3>1. room(n) \in Int
      BY <1>1, <2>2
    <3> QED
      BY <2>1, <3>1 DEF AtMost
  <2>4. cut[n] = [age |-> lines[n].age, bytes |-> AtMost(lines[n].bytes, room(n))]
    BY <2>1 DEF Line
  <2>5. lines[n].age \in Nat
    BY <2>1 DEF Line
  <2> QED
    BY <2>1, <2>2, <2>3, <2>4, <2>5, BytesOfOneMore
<1>3. Capped(lines) = Kept(cut, places)
  BY DEF Capped
<1>4. cut \in Seq(Piece) /\ DOMAIN cut = 1..L /\ Len(cut) = L
  <2>1. cut = [n \in 1..L |-> cut[n]]
    BY <1>1
  <2>2. \A n \in 1..L : cut[n] \in Piece
    BY <1>1, <1>2
  <2> HIDE DEF cut, Piece
  <2>3. cut \in [1..L -> Piece]
    BY ONLY <2>1, <2>2
  <2> QED
    BY ONLY <1>1, <2>3
<1> HIDE DEF cut
<1>5. ASSUME lines # <<>>
      PROVE  /\ Capped(lines) # <<>>
             /\ Capped(lines)[Len(Capped(lines))].age = lines[Len(lines)].age
  <2>1. L \in DOMAIN lines /\ room(L) = MaxLogBytes
    BY <1>1, <1>5, BytesPastEnd
  <2>2. Len(cut) \in places
    BY <1>1, <1>4, <2>1
  <2>3. places \in SUBSET DOMAIN cut
    BY <1>1, <1>4
  <2> HIDE DEF places
  <2>4. Capped(lines) # <<>> /\ Capped(lines)[Len(Capped(lines))] = cut[Len(cut)]
    BY <1>3, <1>4, <2>2, <2>3, KeptLast
  <2> QED
    BY <1>2, <1>4, <2>1, <2>4
<1>6. ASSUME ~(BytesFrom(lines, 1) > MaxLogBytes) PROVE Capped(lines) = lines
  <2>1. ASSUME NEW n \in DOMAIN lines PROVE room(n) > 0 /\ cut[n] = lines[n]
    <3>1. BytesFrom(lines, n) <= BytesFrom(lines, 1) /\ BytesFrom(lines, 1) \in Nat
      BY <1>1, FewerBytes, BytesFinite
    <3>2. lines[n].bytes <= room(n)
      BY <1>1, <1>2, <1>6, <3>1
    <3>3. room(n) > 0 /\ AtMost(lines[n].bytes, room(n)) = lines[n].bytes
      BY <1>2, <3>2 DEF AtMost
    <3> QED
      BY <1>2, <3>3 DEF cut, Line
  <2>2. places = DOMAIN cut
    BY <1>1, <1>4, <2>1
  <2>3. cut = lines
    BY <1>1, <1>4, <2>1
  <2> QED
    BY <1>3, <1>4, <2>2, <2>3, KeptWhole
<1>7. ASSUME BytesFrom(lines, 1) > MaxLogBytes, Capped(lines) = lines PROVE FALSE
  <2>1. places \in SUBSET DOMAIN cut
    BY <1>1, <1>4
  <2>2. Len(Kept(cut, places)) = Cardinality(places)
    BY <1>4, <2>1, KeptHas
  <2>3. Cardinality(places) = Len(cut)
    BY <1>3, <1>4, <1>7, <2>2
  <2>4. places = DOMAIN cut
    BY <1>4, <2>1, <2>3, PlacesFinite
  <2>5. cut = lines
    BY <1>3, <1>4, <1>7, <2>4, KeptWhole
  <2>6. 1 \in DOMAIN lines
    BY <1>1, <1>7, BytesPastEnd
  <2>7. lines[1].bytes <= room(1)
    BY <1>2, <2>5, <2>6, AtMostIs
  <2> QED
    BY <1>1, <1>2, <1>7, <2>6, <2>7
<1> QED
  BY <1>5, <1>6, <1>7

\* What is in the window of a log, if anything is, ends as the log does.
LEMMA WindowEnds ==
  ASSUME NEW log \in Seq(Line), OldestFirst(log), request.since_seconds \in Int
  PROVE  /\ InWindow(log) \in Seq(Line)
         /\ InWindow(log) # <<>> => /\ log # <<>>
                                    /\ InWindow(log)[Len(InWindow(log))] = log[Len(log)]
<1> DEFINE places == {n \in DOMAIN log : log[n].age <= request.since_seconds}
<1>1. InWindow(log) = Kept(log, places)
  BY DEF InWindow
<1>2. places \in SUBSET DOMAIN log
  OBVIOUS
<1>3. Kept(log, places) \in Seq(Line) /\ Len(Kept(log, places)) = Cardinality(places)
  BY <1>2, KeptHas
<1>4. ASSUME Kept(log, places) # <<>> PROVE Len(log) \in places
  <2>1. PICK n \in places : TRUE
    <3>1. 1 \in DOMAIN Kept(log, places)
      BY <1>3, <1>4
    <3> QED
      BY <1>2, <3>1, KeptHas
  <2>2. Len(log) \in DOMAIN log /\ n <= Len(log)
    BY <2>1
  <2>3. log[Len(log)].age <= log[n].age
    BY <2>1, <2>2 DEF OldestFirst
  <2>4. log[Len(log)].age \in Int /\ log[n].age \in Int
    <3>1. log[Len(log)] \in Line /\ log[n] \in Line
      BY <2>1, <2>2
    <3> QED
      BY <3>1 DEF Line
  <2> QED
    BY <2>1, <2>2, <2>3, <2>4
<1> HIDE DEF places
<1> QED
  BY <1>1, <1>2, <1>3, <1>4, KeptLast

----------------------------------------------------------------------------
(* Where a call is, and what it has in hand.                               *)

\* Between its two reads a call has what it needs of the first.
InHand(first) ==
  \/ Is("get_logs") /\ in_hand = <<>> /\ InWindow(first) = <<>>
  \/ Is("get_cronjob") /\ in_hand = <<first.uid>>
  \/ Is("accounting_discover") /\ request.listed /\ in_hand = <<first.latest>>

ReadInv ==
  /\ open \in BOOLEAN /\ request \in Requests
  /\ data \in Parts[request.tool]
  /\ pc \in {"idle", "read", "again", "done"}
  /\ pc \in {"idle", "read"} => seen = <<>> /\ in_hand = <<>>
  /\ pc = "again" => \E first \in Parts[request.tool] : seen = <<first>> /\ InHand(first)
  /\ pc = "done" => /\ Len(in_hand) <= 1 /\ Len(seen) <= 2
                    /\ \A n \in DOMAIN seen : seen[n] \in Parts[request.tool]
  /\ pc # "done" <=> report = NoReport
  /\ pc # "done" => report.code = "none"

\* What there is to read is of the tool's kind.
LEMMA RequestIs ==
  ASSUME request \in Requests
  PROVE  /\ request.tool \in DOMAIN Data
         /\ Is("get_logs") => request.tail_lines \in Nat \ {0} /\ request.since_seconds \in 1..MaxSince
         /\ Is("get_events") => request.limit \in Nat \ {0} /\ request.since_seconds \in 1..MaxSince
         /\ Is("list_pods") => request.limit \in Nat \ {0}
         /\ Is("get_cronjob") => request.job_limit \in Nat \ {0}
         /\ Is("accounting_rows") => request.limit \in Nat
         /\ Is("accounting_discover") => request.limit \in Nat \ {0} /\ request.listed \in BOOLEAN
<1>1. request \in Request
  BY ReadAssumption
<1> USE DEF Is
<1>2. CASE request \in LogsArgs
  BY <1>2 DEF LogsArgs, Data
<1>3. CASE request \in EventsArgs
  BY <1>3 DEF EventsArgs, Data
<1>4. CASE request \in PodsArgs
  BY <1>4 DEF PodsArgs, Data
<1>5. CASE request \in CronJobArgs
  BY <1>5 DEF CronJobArgs, Data
<1>6. CASE request \in NodesArgs
  BY <1>6 DEF NodesArgs, Data
<1>7. CASE request \in ObjectArgs
  BY <1>7 DEF ObjectArgs, Data
<1>8. CASE request \in PromqlArgs
  BY <1>8 DEF PromqlArgs, Data
<1>9. CASE request \in RowsArgs
  BY <1>9 DEF RowsArgs, Data
<1>10. CASE request \in DiscoverArgs
  BY <1>10 DEF DiscoverArgs, Data
<1> QED
  BY <1>1, <1>2, <1>3, <1>4, <1>5, <1>6, <1>7, <1>8, <1>9, <1>10 DEF Request

LEMMA DataIs ==
  ASSUME request \in Requests, NEW d \in Parts[request.tool]
  PROVE  /\ Is("get_logs") => d \in Seq(Line) /\ OldestFirst(d)
         /\ Is("get_events") => d \in Seq(Event)
         /\ Is("list_pods") => d \in Seq(Nat)
         /\ Is("list_nodes") => d \in Seq(Node)
         /\ Is("get_cronjob") => d.jobs \in Seq(Job)
         /\ Is("promql") => d \in Seq(Nat)
         /\ OfAccounting => d.rows \in Seq(Nat)
<1>1. request.tool \in DOMAIN Data
  BY RequestIs
<1>2. d \in Data[request.tool]
  BY <1>1, ReadAssumption
<1>3. Is("get_logs") => OldestFirst(d)
  BY ReadAssumption DEF Is
<1>4. /\ Data["get_logs"] = Seq(Line) /\ Data["get_events"] = Seq(Event)
      /\ Data["list_pods"] = Seq(Nat) /\ Data["list_nodes"] = Seq(Node)
      /\ Data["get_cronjob"] = [uid : Uids \cup {NoUid}, jobs : Seq(Job)]
      /\ Data["promql"] = Seq(Nat)
      /\ Data["accounting_rows"] = Table /\ Data["accounting_discover"] = Table
  BY DEF Data
<1>5. ASSUME OfAccounting PROVE d.rows \in Seq(Nat)
  <2>1. d \in Table
    BY <1>2, <1>4, <1>5 DEF OfAccounting
  <2> QED
    BY <2>1 DEF Table
<1>6. ASSUME Is("get_cronjob") PROVE d.jobs \in Seq(Job)
  <2>1. d \in [uid : Uids \cup {NoUid}, jobs : Seq(Job)]
    BY <1>2, <1>4, <1>6 DEF Is
  <2> QED
    BY <2>1
<1>7. /\ Is("get_logs") => d \in Seq(Line)
      /\ Is("get_events") => d \in Seq(Event)
      /\ Is("list_pods") => d \in Seq(Nat)
      /\ Is("list_nodes") => d \in Seq(Node)
      /\ Is("promql") => d \in Seq(Nat)
  BY <1>2, <1>4 DEF Is
<1> QED
  BY <1>3, <1>5, <1>6, <1>7

LEMMA Single ==
  ASSUME NEW S, NEW x \in S
  PROVE  /\ <<x>> \in Seq(S) /\ Len(<<x>>) = 1 /\ <<x>>[1] = x
         /\ <<>> \in Seq(S) /\ Len(<<>>) = 0
OBVIOUS

LEMMA Appended ==
  ASSUME NEW S, NEW s \in Seq(S), NEW x \in S
  PROVE  /\ Len(Append(s, x)) = Len(s) + 1
         /\ Len(s) = 1 => Append(s, x)[1] = s[1]
         /\ Append(s, x)[Len(s) + 1] = x
<1>1. Len(Append(s, x)) = Len(s) + 1
  OBVIOUS
<1>2. Len(s) = 1 => Append(s, x)[1] = s[1]
  OBVIOUS
<1>3. Append(s, x)[Len(s) + 1] = x
  OBVIOUS
<1> QED
  BY <1>1, <1>2, <1>3

LEMMA AtMostOne ==
  ASSUME NEW first, InHand(first)
  PROVE  Len(in_hand) <= 1
<1>1. in_hand = <<>> \/ \E x : in_hand = <<x>>
  BY DEF InHand
<1>2. CASE in_hand = <<>>
  BY <1>2
<1>3. ASSUME NEW x, in_hand = <<x>> PROVE Len(in_hand) <= 1
  <2>1. Len(<<x>>) = 1
    OBVIOUS
  <2> QED
    BY ONLY <1>3, <2>1
<1> QED
  BY <1>1, <1>2, <1>3

\* A call ends with a report, whether it is an answer or an error.
LEMMA EndsWell ==
  ASSUME ReadInv, pc # "done", NEW told, told.code # "none", Answer(told),
         \/ UNCHANGED seen
         \/ See
  PROVE  ReadInv'
<1>1. /\ pc' = "done" /\ report' = told /\ UNCHANGED <<open, data, request, in_hand>>
  BY DEF Answer
<1>2. report' # NoReport /\ report'.code # "none"
  BY <1>1 DEF NoReport
<1>3. Len(in_hand) <= 1
  <2>1. in_hand = <<>> \/ \E first : InHand(first)
    BY DEF ReadInv
  <2>2. Len(<<>>) <= 1
    OBVIOUS
  <2> QED
    BY <2>1, <2>2, AtMostOne
<1>4. /\ seen \in Seq(Parts[request.tool]) /\ Len(seen) <= 1
  <2>1. CASE pc = "again"
    <3>1. PICK first \in Parts[request.tool] : seen = <<first>>
      BY <2>1 DEF ReadInv
    <3>2. <<first>> \in Seq(Parts[request.tool]) /\ Len(<<first>>) = 1
      BY Single
    <3> QED
      BY ONLY <3>1, <3>2
  <2>2. CASE pc \in {"idle", "read"}
    <3>1. seen = <<>> /\ data \in Parts[request.tool]
      BY <2>2 DEF ReadInv
    <3> QED
      BY ONLY <3>1, Single
  <2> QED
    BY <2>1, <2>2 DEF ReadInv
<1>5. seen' \in Seq(Parts[request.tool]) /\ Len(seen') <= 2
  <2>1. CASE UNCHANGED seen
    BY <1>4, <2>1
  <2>2. CASE See
    BY <1>4, <2>2 DEF See, ReadInv
  <2> QED
    BY <2>1, <2>2
<1> QED
  BY <1>1, <1>2, <1>3, <1>5 DEF ReadInv
LEMMA FailsWell ==
  ASSUME ReadInv, pc # "done", NEW code, code # "none", Fail(code)
  PROVE  ReadInv'
<1> DEFINE told == [code |-> code]
<1>1. told.code # "none" /\ Answer(told) /\ UNCHANGED seen
  BY DEF Fail
<1> HIDE DEF told
<1> QED
  BY <1>1, EndsWell

\* What is seen by the end of a first read, and of a second.
LEMMA FirstSeen ==
  ASSUME ReadInv, pc = "read", See
  PROVE  /\ data \in Parts[request.tool] /\ in_hand = <<>>
         /\ seen' = <<data>> /\ Len(seen') = 1 /\ seen'[1] = data
<1>1. seen = <<>> /\ in_hand = <<>> /\ data \in Parts[request.tool]
  BY DEF ReadInv
<1>2. <<>> \o <<data>> = <<data>> /\ Append(<<>>, data) = <<data>>
  OBVIOUS
<1>3. seen' = <<data>>
  BY <1>1, <1>2 DEF See
<1>4. Len(<<data>>) = 1 /\ <<data>>[1] = data
  OBVIOUS
<1> QED
  BY ONLY <1>1, <1>3, <1>4

LEMMA SecondSeen ==
  ASSUME ReadInv, pc = "again", See
  PROVE  /\ data \in Parts[request.tool]
         /\ seen[1] \in Parts[request.tool] /\ InHand(seen[1])
         /\ Len(seen') = 2 /\ seen'[1] = seen[1] /\ seen'[2] = data
<1>1. PICK first \in Parts[request.tool] : seen = <<first>> /\ InHand(first)
  BY DEF ReadInv
<1>2. data \in Parts[request.tool]
  BY DEF ReadInv
<1>3. seen[1] = first /\ seen \in Seq(Parts[request.tool]) /\ Len(seen) = 1
  <2>1. <<first>> \in Seq(Parts[request.tool]) /\ Len(<<first>>) = 1 /\ <<first>>[1] = first
    BY Single
  <2> QED
    BY ONLY <1>1, <2>1
<1>4. Len(seen') = 2 /\ seen'[1] = seen[1] /\ seen'[2] = data
  <2>1. /\ Len(Append(seen, data)) = Len(seen) + 1
        /\ Append(seen, data)[1] = seen[1]
        /\ Append(seen, data)[Len(seen) + 1] = data
    BY <1>2, <1>3, Appended
  <2> QED
    BY ONLY <1>3, <2>1, See DEF See
<1> QED
  BY <1>1, <1>2, <1>3, <1>4

LEMMA InitInv == Init => ReadInv
<1> SUFFICES ASSUME Init PROVE ReadInv
  OBVIOUS
<1> QED
  BY DEF Init, ReadInv, NoReport

\* A first read that is gone on from leaves in hand what the second needs.
LEMMA GoesOn ==
  ASSUME ReadInv, pc = "read", See, pc' = "again", UNCHANGED <<open, data, request, report>>,
         InHand(data)'
  PROVE  ReadInv'
<1>1. data \in Parts[request.tool] /\ seen' = <<data>>
  BY FirstSeen
<1>2. InHand(data)' <=> \/ Is("get_logs") /\ in_hand' = <<>> /\ InWindow(data) = <<>>
                        \/ Is("get_cronjob") /\ in_hand' = <<data.uid>>
                        \/ Is("accounting_discover") /\ request.listed /\ in_hand' = <<data.latest>>
  BY DEF InHand, Is, InWindow
<1>3. \E first \in Parts[request.tool] : seen' = <<first>> /\ InHand(first)'
  BY <1>1
<1> QED
  BY <1>3 DEF ReadInv

LEMMA StepInv ==
  ASSUME ReadInv, [Next]_vars
  PROVE  ReadInv'
<1>1. CASE Change
  BY <1>1 DEF Change, ReadInv, InHand, InWindow, Is, NoReport
<1>2. CASE Denied
  BY <1>2, FailsWell DEF Denied
<1>3. CASE RefuseRange
  BY <1>3, FailsWell DEF RefuseRange
<1>4. CASE Begin
  BY <1>4 DEF Begin, ReadInv
<1>5. CASE ReadFails
  <2>1. PICK code \in ReadErrors : Fail(code)
    BY <1>5 DEF ReadFails
  <2>2. code # "none"
    BY <2>1 DEF ReadErrors
  <2>3. pc # "done"
    BY <1>5 DEF ReadFails
  <2> QED
    BY <2>1, <2>2, <2>3, FailsWell
<1>6. CASE Breaks
  BY <1>6, FailsWell DEF Breaks
<1>7. CASE TimesOut
  BY <1>7, FailsWell DEF TimesOut
<1>8. ASSUME ReadLog \/ WidenLog \/ WidenFails PROVE ReadInv'
  <2>1. ASSUME NEW lines, NEW note, pc # "done", Answer(Log(lines, note)), See \/ UNCHANGED seen
        PROVE  ReadInv'
    <3>1. Log(lines, note).code # "none"
      BY DEF Log, Told
    <3> HIDE DEF Log
    <3> QED
      BY <2>1, <3>1, EndsWell
  <2>2. CASE ReadLog
    <3> DEFINE lines == TailOf(InWindow(data))
    <3>1. CASE Answer(Log(lines, "none"))
      BY <2>2, <2>1, <3>1 DEF ReadLog
    <3>2. CASE lines = <<>> /\ pc' = "again" /\ UNCHANGED <<open, data, request, in_hand, report>>
      <4>1. pc = "read" /\ See /\ Is("get_logs")
        BY <2>2 DEF ReadLog
      <4>2. data \in Seq(Line) /\ OldestFirst(data) /\ in_hand = <<>>
        BY <4>1, DataIs, FirstSeen DEF ReadInv
      <4>3. request.tail_lines \in Nat \ {0} /\ request.since_seconds \in Int
        BY <4>1, RequestIs DEF ReadInv
      <4>4. InWindow(data) \in Seq(Line)
        BY <4>2, <4>3, WindowEnds
      <4>5. InWindow(data) = <<>>
        BY <3>2, <4>3, <4>4, LastOfIs DEF TailOf
      <4>6. InHand(data)'
        BY <3>2, <4>1, <4>2, <4>5 DEF InHand, Is, InWindow
      <4> QED
        BY <3>2, <4>1, <4>6, GoesOn
    <3> QED
      BY <2>2, <3>1, <3>2 DEF ReadLog
  <2>3. CASE WidenLog
    BY <2>3, <2>1 DEF WidenLog
  <2>4. CASE WidenFails
    BY <2>4, <2>1 DEF WidenFails
  <2> QED
    BY <1>8, <2>2, <2>3, <2>4
<1>9. ASSUME NEW items, NEW truncated, NEW note, pc # "done",
             Answer(Told(items, truncated, note)), See
      PROVE  ReadInv'
  <2>1. Told(items, truncated, note).code # "none"
    BY DEF Told
  <2> HIDE DEF Told
  <2> QED
    BY <1>9, <2>1, EndsWell
<1>10. CASE ListPods
  BY <1>9, <1>10 DEF ListPods
<1>11. CASE GetEvents
  BY <1>9, <1>11 DEF GetEvents
<1>12. CASE ListNodes
  BY <1>9, <1>12 DEF ListNodes
<1>13. CASE ReadCronJob
  <2>1. CASE Fail("not_found")
    BY <1>13, <2>1, FailsWell DEF ReadCronJob
  <2>2. CASE See /\ in_hand' = <<data.uid>> /\ pc' = "again" /\ UNCHANGED <<open, data, request, report>>
    <3>1. InHand(data)'
      BY <1>13, <2>2 DEF ReadCronJob, InHand, Is
    <3> QED
      BY <1>13, <2>2, <3>1, GoesOn DEF ReadCronJob
  <2> QED
    BY <1>13, <2>1, <2>2 DEF ReadCronJob
<1>14. CASE ListJobs
  BY <1>9, <1>14 DEF ListJobs
<1>15. CASE GetPodStatus
  BY <1>9, <1>15 DEF GetPodStatus
<1>16. CASE GetWorkload
  BY <1>9, <1>16 DEF GetWorkload
<1>17. CASE GetNode
  BY <1>9, <1>17 DEF GetNode
<1>18. CASE Query
  BY <1>9, <1>18 DEF Query
<1>19. CASE QueryRows
  BY <1>9, <1>19 DEF QueryRows, CappedRows
<1>20. CASE ReadLatest
  <2>1. CASE Answer(Told(<<>>, FALSE, data.latest))
    BY <1>9, <1>20, <2>1 DEF ReadLatest
  <2>2. CASE /\ request.listed /\ in_hand' = <<data.latest>> /\ pc' = "again"
             /\ UNCHANGED <<open, data, request, report>>
    <3>1. InHand(data)'
      BY <1>20, <2>2 DEF ReadLatest, InHand, Is
    <3> QED
      BY <1>20, <2>2, <3>1, GoesOn DEF ReadLatest
  <2> QED
    BY <1>20, <2>1, <2>2 DEF ReadLatest
<1>21. CASE ListValues
  BY <1>9, <1>21 DEF ListValues, CappedRows
<1>22. CASE UNCHANGED vars
  BY <1>22 DEF vars, ReadInv, InHand, InWindow, Is, NoReport
<1> QED
  BY <1>1, <1>2, <1>3, <1>4, <1>5, <1>6, <1>7, <1>8, <1>10, <1>11, <1>12, <1>13, <1>14, <1>15,
     <1>16, <1>17, <1>18, <1>19, <1>20, <1>21, <1>22 DEF Next, Done

LEMMA Invariance == Spec => []ReadInv
BY InitInv, StepInv, PTL DEF Spec

\* TypeOK: what a call holds is of the kind its tool reads, it has at most one
\* thing in hand between two reads, and it has a report exactly when it is
\* over, whatever is read or fails.
THEOREM TypeCorrect == Spec => []TypeOK
<1>1. ReadInv => TypeOK
  <2> SUFFICES ASSUME ReadInv PROVE TypeOK
    OBVIOUS
  <2>1. CASE pc \in {"idle", "read"}
    BY <2>1 DEF ReadInv, TypeOK
  <2>2. CASE pc = "again"
    <3>1. PICK first \in Parts[request.tool] : seen = <<first>> /\ InHand(first)
      BY <2>2 DEF ReadInv
    <3>2. Len(seen) <= 2 /\ \A n \in DOMAIN seen : seen[n] \in Parts[request.tool]
      BY <3>1
    <3>3. Len(in_hand) <= 1
      BY <3>1, AtMostOne
    <3> QED
      BY <2>2, <3>2, <3>3 DEF ReadInv, TypeOK
  <2>3. CASE pc = "done"
    BY <2>3 DEF ReadInv, TypeOK
  <2> QED
    BY <2>1, <2>2, <2>3 DEF ReadInv
<1> QED
  BY <1>1, Invariance, PTL
----------------------------------------------------------------------------
(* What the model is told.                                                 *)

\* A step that is no answer tells nothing, and after an answer nothing changes.
LEMMA HowItEnds ==
  ASSUME ReadInv, [Next]_vars
  PROVE  \/ report'.code # "ok"
         \/ UNCHANGED vars
         \/ ReadLog \/ WidenLog \/ WidenFails
         \/ ListPods \/ GetEvents \/ ListNodes \/ ListJobs
         \/ GetPodStatus \/ GetWorkload \/ GetNode
         \/ Query \/ QueryRows \/ ReadLatest \/ ListValues
<1>1. ASSUME NEW code, code # "ok", Fail(code) PROVE report'.code # "ok"
  BY <1>1 DEF Fail, Answer
<1>2. ASSUME pc # "done", UNCHANGED report PROVE report'.code # "ok"
  BY <1>2 DEF ReadInv
<1>3. Change => report'.code # "ok"
  BY <1>2 DEF Change
<1>4. Denied \/ RefuseRange \/ Breaks \/ TimesOut => report'.code # "ok"
  BY <1>1 DEF Denied, RefuseRange, Breaks, TimesOut
<1>5. Begin => report'.code # "ok"
  BY <1>2 DEF Begin
<1>6. ReadFails => report'.code # "ok"
  <2> SUFFICES ASSUME NEW code \in ReadErrors, Fail(code) PROVE report'.code # "ok"
    BY DEF ReadFails
  <2>1. code # "ok"
    BY DEF ReadErrors
  <2> QED
    BY <1>1, <2>1
<1>7. ReadCronJob => report'.code # "ok"
  BY <1>1, <1>2 DEF ReadCronJob
<1> QED
  BY <1>3, <1>4, <1>5, <1>6, <1>7 DEF Next, Done

\* A capped log ends as the log does that it is the end of.
LEMMA LogIs ==
  ASSUME request \in Requests, Is("get_logs"), NEW text \in Seq(Line), NEW note
  PROVE  LET told == Log(TailOf(text), note) IN
         /\ told.code = "ok" /\ told.note = note /\ told.items = Capped(TailOf(text))
         /\ TailOf(text) \in Seq(Line) /\ (text = <<>> <=> TailOf(text) = <<>>)
         /\ text # <<>> => /\ told.items # <<>>
                           /\ told.items[Len(told.items)].age = text[Len(text)].age
         /\ told.truncated <=> told.items # TailOf(text)
<1> DEFINE lines == TailOf(text)
<1>1. request.tail_lines \in Nat \ {0}
  BY RequestIs
<1>2. /\ lines \in Seq(Line)
      /\ text # <<>> => lines # <<>> /\ lines[Len(lines)] = text[Len(text)]
      /\ text = <<>> => lines = <<>>
  BY <1>1, LastOfIs DEF TailOf
<1> HIDE DEF lines
<1>3. /\ lines # <<>> => /\ Capped(lines) # <<>>
                         /\ Capped(lines)[Len(Capped(lines))].age = lines[Len(lines)].age
      /\ Capped(lines) # lines <=> BytesFrom(lines, 1) > MaxLogBytes
  BY <1>2, CappedIs
<1>4. Log(lines, note) = [code |-> "ok", items |-> Capped(lines),
                          truncated |-> BytesFrom(lines, 1) > MaxLogBytes, note |-> note]
  BY DEF Log, Told
<1> DEFINE told == Log(lines, note)
<1>5. /\ told.code = "ok" /\ told.note = note /\ told.items = Capped(lines)
      /\ told.truncated = (BytesFrom(lines, 1) > MaxLogBytes)
  BY <1>4
<1> HIDE DEF told
<1>6. told.truncated <=> told.items # lines
  BY <1>3, <1>5
<1>7. text # <<>> => /\ told.items # <<>>
                     /\ told.items[Len(told.items)].age = text[Len(text)].age
  BY <1>2, <1>3, <1>5
<1> QED
  BY <1>2, <1>5, <1>6, <1>7 DEF lines, told

\* A log that is answered from one read, or from two, or with the second failed.
LEMMA LastWordsStep ==
  ASSUME ReadInv, LastWordsTold, [Next]_vars
  PROVE  LastWordsTold'
<1>1. CASE report'.code # "ok"
  BY <1>1 DEF LastWordsTold, Reported
<1>2. CASE UNCHANGED vars
  BY <1>2 DEF vars, LastWordsTold, Reported, Is, Final, InWindow
<1>3. ASSUME NEW tool, tool # "get_logs", Is(tool), UNCHANGED request PROVE LastWordsTold'
  BY <1>3 DEF LastWordsTold, Reported, Is
<1>4. request \in Requests
  BY DEF ReadInv
<1>5. CASE ReadLog
  <2>1. pc = "read" /\ Is("get_logs") /\ See
    BY <1>5 DEF ReadLog
  <2>2. data \in Parts[request.tool] /\ Len(seen') = 1 /\ seen'[1] = data
    BY <2>1, FirstSeen
  <2>3. data \in Seq(Line) /\ OldestFirst(data)
    BY <1>4, <2>1, <2>2, DataIs
  <2>4. CASE report' = report
    BY <2>1, <2>4 DEF ReadInv, LastWordsTold, Reported
  <2>5. CASE TailOf(InWindow(data)) # <<>> /\ Answer(Log(TailOf(InWindow(data)), "none"))
    <3> DEFINE window == InWindow(data)
               told == Log(TailOf(window), "none")
    <3>1. request' = request /\ report' = told
      BY <2>5 DEF Answer
    <3>2. request.since_seconds \in Int
      BY <1>4, <2>1, RequestIs
    <3>3. window \in Seq(Line)
      BY <2>3, <3>2, WindowEnds
    <3>4. window # <<>>
      BY <1>4, <2>1, <2>5, <3>3, LogIs
    <3>5. window[Len(window)] = data[Len(data)]
      BY <2>3, <3>2, <3>4, WindowEnds
    <3> HIDE DEF window
    <3>6. told.note = "none" /\ told.items # <<>>
          /\ told.items[Len(told.items)].age = window[Len(window)].age
      BY <1>4, <2>1, <3>3, <3>4, LogIs
    <3> HIDE DEF told
    <3>7. report'.note = "none" /\ report'.items # <<>>
          /\ report'.items[Len(report'.items)].age = data[Len(data)].age
      BY <3>1, <3>5, <3>6
    <3>8. seen'[Len(seen')] = data
      BY <2>2
    <3> QED
      BY <3>7, <3>8 DEF LastWordsTold, Final
  <2> QED
    BY <1>5, <2>4, <2>5 DEF ReadLog
<1>6. CASE WidenLog
  <2>1. pc = "again" /\ Is("get_logs") /\ See
    BY <1>6 DEF WidenLog
  <2>2. /\ data \in Parts[request.tool] /\ InHand(seen[1])
        /\ Len(seen') = 2 /\ seen'[1] = seen[1] /\ seen'[2] = data
    BY <2>1, SecondSeen
  <2>3. data \in Seq(Line)
    BY <1>4, <2>1, <2>2, DataIs
  <2>4. InWindow(seen[1]) = <<>>
    BY <2>1, <2>2 DEF InHand, Is
  <2> DEFINE note == IF data = <<>> THEN "silent" ELSE "widened"
             told == Log(TailOf(data), note)
  <2>5. request' = request /\ report' = told
    BY <1>6 DEF WidenLog, Answer
  <2>6. InWindow(seen[1])' = <<>>
    BY <2>2, <2>4, <2>5 DEF InWindow
  <2>7. /\ told.note = note
        /\ data # <<>> => /\ told.items # <<>>
                          /\ told.items[Len(told.items)].age = data[Len(data)].age
    BY <1>4, <2>1, <2>3, LogIs
  <2> HIDE DEF told
  <2>8. /\ report'.note = "silent" <=> data = <<>>
        /\ data # <<>> => /\ report'.items # <<>>
                          /\ report'.items[Len(report'.items)].age = data[Len(data)].age
    BY <2>5, <2>7
  <2>9. seen'[Len(seen')] = data
    BY <2>2
  <2> QED
    BY <2>6, <2>8, <2>9 DEF LastWordsTold, Final
<1>7. CASE WidenFails
  <2>1. pc = "again" /\ Is("get_logs") /\ Answer(Log(<<>>, "silent")) /\ UNCHANGED seen
    BY <1>7 DEF WidenFails
  <2>2. PICK first \in Parts[request.tool] : seen = <<first>> /\ InHand(first)
    BY <2>1 DEF ReadInv
  <2>3. InWindow(first) = <<>>
    BY <2>1, <2>2 DEF InHand, Is
  <2>4. seen'[1] = first /\ Len(seen') = 1 /\ seen'[Len(seen')] = first
    <3>1. Len(<<first>>) = 1 /\ <<first>>[1] = first
      OBVIOUS
    <3> QED
      BY ONLY <2>1, <2>2, <3>1
  <2>5. InWindow(first)' = <<>>
    BY <2>1, <2>3 DEF InWindow, Answer
  <2>6. InWindow(seen[1])' = <<>> /\ InWindow(Final)' = <<>>
    BY <2>4, <2>5 DEF InWindow, Final
  <2> QED
    BY <2>4, <2>6 DEF LastWordsTold
<1>8. ASSUME \/ ListPods \/ GetEvents \/ ListNodes \/ ListJobs
             \/ GetPodStatus \/ GetWorkload \/ GetNode \/ Query
      PROVE  LastWordsTold'
  BY <1>8, <1>3 DEF ListPods, GetEvents, ListNodes, ListJobs, GetPodStatus, GetWorkload,
                    GetNode, Query, Answer
<1>9. CASE QueryRows \/ ReadLatest \/ ListValues
  BY <1>9, <1>3 DEF QueryRows, ReadLatest, ListValues, Answer
<1> QED
  BY <1>1, <1>2, <1>5, <1>6, <1>7, <1>8, <1>9, HowItEnds

\* LastWordsTold: of a log with something in its window, or with anything at
\* all once it was read twice, the last line is told and told last, whatever
\* the number of lines and bytes the answer is cut to; and "nothing was logged"
\* is only said of a log that was empty, or of one whose second read failed.
THEOREM LastWordsAreTold == Spec => []LastWordsTold
<1>1. Init => LastWordsTold
  BY DEF Init, LastWordsTold, Reported, NoReport
<1>2. ReadInv /\ LastWordsTold /\ [Next]_vars => LastWordsTold'
  BY LastWordsStep
<1> QED
  BY <1>1, <1>2, Invariance, PTL DEF Spec
\* The Jobs that are told of those there are.
OwnOf(jobs, uid) == {n \in DOMAIN jobs : jobs[n].owner = uid}

LEMMA JobsAre ==
  ASSUME NEW jobs \in Seq(Job), NEW uid, in_hand = <<uid>>, request.job_limit \in Nat
  PROVE  LET own == OwnOf(jobs, uid)
             items == FirstOf(LastMadeFirst(OwnedOf(jobs)), request.job_limit)
         IN  /\ Len(items) = AtMost(request.job_limit, Cardinality(own))
             /\ \A n \in DOMAIN items : \E m \in own : items[n] = jobs[m]
             /\ \A m \in own : (\E n \in DOMAIN items : items[n] = jobs[m]) \/
                               \A n \in DOMAIN items : jobs[m].born <= items[n].born
<1> DEFINE own == OwnOf(jobs, uid)
           kept == Kept(jobs, own)
           key == [n \in DOMAIN kept |-> -kept[n].born]
           items == FirstOf(SortedBy(kept, key), request.job_limit)
<1>1. own \in SUBSET DOMAIN jobs
  BY DEF OwnOf
<1>2. OwnedOf(jobs) = kept
  <2>1. \A n \in DOMAIN jobs : Owned(jobs[n]) <=> jobs[n].owner = uid
    BY DEF Owned
  <2>2. {n \in DOMAIN jobs : Owned(jobs[n])} = own
    BY <2>1 DEF OwnOf
  <2> HIDE DEF own
  <2> QED
    BY <2>2 DEF OwnedOf
<1>3. FirstOf(LastMadeFirst(OwnedOf(jobs)), request.job_limit) = items
  BY <1>2 DEF LastMadeFirst
<1> HIDE DEF own
<1>4. /\ kept \in Seq(Job) /\ Len(kept) = Cardinality(own)
      /\ \A n \in DOMAIN kept : \E i \in own : kept[n] = jobs[i]
      /\ \A i \in own : \E n \in DOMAIN kept : kept[n] = jobs[i]
  BY <1>1, KeptHas
<1> HIDE DEF kept
<1>5. \A n \in DOMAIN kept : kept[n].born \in Nat
  <2>1. \A n \in DOMAIN kept : kept[n] \in Job
    BY <1>4
  <2> QED
    BY <2>1 DEF Job
<1>6. key \in [DOMAIN kept -> Int] /\ \A n \in DOMAIN kept : key[n] = -kept[n].born
  BY <1>5
<1> HIDE DEF key
<1>7. Len(items) = AtMost(request.job_limit, Len(kept))
  BY <1>4, <1>6, FirstOfSorted
<1>8. PICK at \in [DOMAIN items -> DOMAIN kept] :
        /\ \A n \in DOMAIN items : items[n] = kept[at[n]]
        /\ \A i \in DOMAIN kept : \/ \E n \in DOMAIN items : items[n] = kept[i]
                                  \/ \A n \in DOMAIN items : key[at[n]] <= key[i]
  BY <1>4, <1>6, FirstOfSorted
<1> HIDE DEF items
<1>9. \A n \in DOMAIN items : at[n] \in DOMAIN kept
  OBVIOUS
<1>10. \A n \in DOMAIN items : \E m \in own : items[n] = jobs[m]
  BY <1>4, <1>8, <1>9
<1>11. ASSUME NEW m \in own
       PROVE  \/ \E n \in DOMAIN items : items[n] = jobs[m]
              \/ \A n \in DOMAIN items : jobs[m].born <= items[n].born
  <2>1. PICK k \in DOMAIN kept : kept[k] = jobs[m]
    BY <1>4
  <2>2. ASSUME NEW n \in DOMAIN items, key[at[n]] <= key[k] PROVE jobs[m].born <= items[n].born
    <3>1. key[at[n]] = -items[n].born /\ items[n].born \in Nat
      BY <1>5, <1>6, <1>8, <1>9
    <3>2. key[k] = -jobs[m].born /\ jobs[m].born \in Nat
      BY <1>5, <1>6, <2>1
    <3> QED
      BY <2>2, <3>1, <3>2
  <2> QED
    BY <1>8, <2>1, <2>2
<1> QED
  BY <1>3, <1>4, <1>7, <1>10, <1>11 DEF own

LEMMA JobsStep ==
  ASSUME ReadInv, JobsOfThisCronJob, [Next]_vars
  PROVE  JobsOfThisCronJob'
<1>1. CASE report'.code # "ok"
  BY <1>1 DEF JobsOfThisCronJob, Reported
<1>2. CASE UNCHANGED vars
  BY <1>2 DEF vars, JobsOfThisCronJob, Reported, Is, Final, InReport
<1>3. ASSUME NEW tool, tool # "get_cronjob", Is(tool), UNCHANGED request PROVE JobsOfThisCronJob'
  BY <1>3 DEF JobsOfThisCronJob, Reported, Is
<1>4. request \in Requests
  BY DEF ReadInv
<1>5. CASE ListJobs
  <2>1. pc = "again" /\ Is("get_cronjob") /\ See
    BY <1>5 DEF ListJobs
  <2>2. /\ data \in Parts[request.tool] /\ InHand(seen[1])
        /\ Len(seen') = 2 /\ seen'[1] = seen[1] /\ seen'[2] = data
    BY <2>1, SecondSeen
  <2>3. data.jobs \in Seq(Job) /\ request.job_limit \in Nat
    BY <1>4, <2>1, <2>2, DataIs, RequestIs
  <2>4. in_hand = <<seen[1].uid>>
    BY <2>1, <2>2 DEF InHand, Is
  <2> DEFINE own == OwnOf(data.jobs, seen[1].uid)
             items == FirstOf(LastMadeFirst(OwnedOf(data.jobs)), request.job_limit)
  <2>5. request' = request /\ report' = Told(items, FALSE, "none")
    BY <1>5 DEF ListJobs, Answer
  <2>6. /\ Len(items) = AtMost(request.job_limit, Cardinality(own))
        /\ \A n \in DOMAIN items : \E m \in own : items[n] = data.jobs[m]
        /\ \A m \in own : (\E n \in DOMAIN items : items[n] = data.jobs[m]) \/
                          \A n \in DOMAIN items : data.jobs[m].born <= items[n].born
    <3> DEFINE jobs == data.jobs
               uid == seen[1].uid
    <3>1. jobs \in Seq(Job) /\ in_hand = <<uid>> /\ request.job_limit \in Nat
      BY <2>3, <2>4
    <3> HIDE DEF jobs, uid
    <3> DEFINE told == FirstOf(LastMadeFirst(OwnedOf(jobs)), request.job_limit)
    <3>2. Len(told) = AtMost(request.job_limit, Cardinality(OwnOf(jobs, uid)))
      BY ONLY <3>1, JobsAre
    <3>3. \A n \in DOMAIN told : \E m \in OwnOf(jobs, uid) : told[n] = jobs[m]
      BY ONLY <3>1, JobsAre
    <3>4. \A m \in OwnOf(jobs, uid) : (\E n \in DOMAIN told : told[n] = jobs[m]) \/
                                      \A n \in DOMAIN told : jobs[m].born <= told[n].born
      BY ONLY <3>1, JobsAre
    <3> QED
      BY <3>2, <3>3, <3>4 DEF jobs, uid
  <2>7. {n \in DOMAIN Final.jobs : Final.jobs[n].owner = seen[1].uid}' = own
    BY <2>2 DEF Final, OwnOf
  <2> HIDE DEF items, own
  <2>8. report'.items = items
    BY <2>5 DEF Told
  <2>9. Final' = data
    BY <2>2 DEF Final
  <2>10. Final'.jobs = data.jobs
    BY <2>9
  <2>11. (\A m \in {n \in DOMAIN Final.jobs : Final.jobs[n].owner = seen[1].uid} :
            ~InReport(Final.jobs[m]) =>
              \A n \in DOMAIN report.items : Final.jobs[m].born <= report.items[n].born)'
    BY <2>6, <2>7, <2>8, <2>10 DEF InReport
  <2>12. (\A k \in DOMAIN report.items :
            \E m \in {n \in DOMAIN Final.jobs : Final.jobs[n].owner = seen[1].uid} :
              report.items[k] = Final.jobs[m])'
    BY <2>6, <2>7, <2>8, <2>10
  <2>13. (Len(report.items) = AtMost(request.job_limit,
            Cardinality({n \in DOMAIN Final.jobs : Final.jobs[n].owner = seen[1].uid})))'
    BY <2>5, <2>6, <2>7, <2>8
  <2> QED
    BY <2>11, <2>12, <2>13 DEF JobsOfThisCronJob
<1>6. ASSUME \/ ListPods \/ GetEvents \/ ListNodes
             \/ GetPodStatus \/ GetWorkload \/ GetNode \/ Query
      PROVE  JobsOfThisCronJob'
  BY <1>6, <1>3 DEF ListPods, GetEvents, ListNodes, GetPodStatus, GetWorkload, GetNode, Query, Answer
<1>7. CASE QueryRows \/ ReadLatest \/ ListValues
  BY <1>7, <1>3 DEF QueryRows, ReadLatest, ListValues, Answer
<1>8. CASE ReadLog \/ WidenLog \/ WidenFails
  BY <1>8, <1>3 DEF ReadLog, WidenLog, WidenFails, Answer
<1> QED
  BY <1>1, <1>2, <1>5, <1>6, <1>7, <1>8, HowItEnds

\* JobsOfThisCronJob: the Jobs told are Jobs of the CronJob that was read, as
\* many as there are up to the limit, and none that is left out was made after
\* one of them, though the CronJob is deleted and made anew before the Jobs of
\* its namespace are listed.
THEOREM OwnJobsOnly == Spec => []JobsOfThisCronJob
<1>1. Init => JobsOfThisCronJob
  BY DEF Init, JobsOfThisCronJob, Reported, NoReport
<1>2. ReadInv /\ JobsOfThisCronJob /\ [Next]_vars => JobsOfThisCronJob'
  BY JobsStep
<1> QED
  BY <1>1, <1>2, Invariance, PTL DEF Spec
\* The events that are told of a page of them.
Older(a, b) == a.age = Unknown \/ (b.age # Unknown /\ b.age <= a.age)

LEMMA KeysMeet == MaxSince \in Int /\ AfterAll \in Int /\ MaxSince < AfterAll
BY SMT DEF MaxSince, AfterAll

\* Within the window, the sort key puts the newest first and the unknown last.
LEMMA KeyIsAge ==
  ASSUME request.since_seconds \in 1..MaxSince, NEW a \in Event, NEW b \in Event,
         Recent(a), Recent(b), AgeKey(b) <= AgeKey(a)
  PROVE  Older(a, b)
<1>1. a.age \in Int /\ b.age \in Int
  BY DEF Event
<1>2. a.age # Unknown => a.age \in Int /\ a.age <= request.since_seconds
  BY <1>1 DEF Recent
<1>3. a.age # Unknown => a.age < AfterAll
  <2>1. MaxSince \in Int /\ AfterAll \in Int /\ MaxSince < AfterAll
    BY KeysMeet
  <2>2. request.since_seconds \in Int /\ request.since_seconds <= MaxSince
    BY <2>1
  <2> QED
    BY ONLY <1>2, <2>1, <2>2
<1>4. AgeKey(a) = (IF a.age = Unknown THEN AfterAll ELSE a.age)
      /\ AgeKey(b) = (IF b.age = Unknown THEN AfterAll ELSE b.age)
  BY DEF AgeKey
<1>5. CASE a.age = Unknown
  BY <1>5 DEF Older
<1>6. CASE a.age # Unknown /\ b.age = Unknown
  <2>1. AfterAll <= a.age
    BY <1>4, <1>6
  <2>2. AfterAll \in Int /\ a.age \in Int /\ a.age < AfterAll
    BY <1>2, <1>3, <1>6, KeysMeet
  <2> QED
    BY ONLY <2>1, <2>2
<1>7. CASE a.age # Unknown /\ b.age # Unknown
  BY <1>4, <1>7 DEF Older
<1> QED
  BY <1>5, <1>6, <1>7

LEMMA EventsAre ==
  ASSUME NEW page \in Seq(Event), request.since_seconds \in 1..MaxSince, request.limit \in Nat
  PROVE  LET items == EventsOf(RecentOf(page), request.limit)
         IN  /\ \A m, n \in DOMAIN items : m < n => Older(items[n], items[m])
             /\ \A i \in DOMAIN page : Recent(page[i]) =>
                  \/ \E n \in DOMAIN items : items[n] = page[i]
                  \/ /\ Len(RecentOf(page)) > request.limit
                     /\ \A n \in DOMAIN items : Older(page[i], items[n])
<1> DEFINE places == {n \in DOMAIN page : Recent(page[n])}
           recent == RecentOf(page)
           key == [n \in DOMAIN recent |-> AgeKey(recent[n])]
           items == EventsOf(recent, request.limit)
<1>1. places \in SUBSET DOMAIN page /\ recent = Kept(page, places)
  BY DEF RecentOf
<1>2. /\ recent \in Seq(Event)
      /\ \A n \in DOMAIN recent : \E i \in places : recent[n] = page[i]
      /\ \A i \in places : \E n \in DOMAIN recent : recent[n] = page[i]
  <2> HIDE DEF recent, places
  <2>1. Kept(page, places) \in Seq(Event)
    BY <1>1, KeptHas
  <2>2. \A n \in DOMAIN Kept(page, places) : \E i \in places : Kept(page, places)[n] = page[i]
    BY <1>1, KeptHas
  <2>3. \A i \in places : \E n \in DOMAIN Kept(page, places) : Kept(page, places)[n] = page[i]
    BY <1>1, KeptHas
  <2> QED
    BY <1>1, <2>1, <2>2, <2>3
<1>3. items = FirstOf(SortedBy(recent, key), request.limit)
  BY DEF EventsOf, NewestFirst
<1> HIDE DEF recent
<1>4. \A n \in DOMAIN recent : recent[n] \in Event /\ Recent(recent[n]) /\ AgeKey(recent[n]) \in Int
  <2>1. \A n \in DOMAIN recent : recent[n] \in Event
    BY <1>2
  <2>2. \A n \in DOMAIN recent : AgeKey(recent[n]) \in Int
    BY <2>1, KeysMeet DEF Event, AgeKey
  <2>3. \A n \in DOMAIN recent : Recent(recent[n])
    BY <1>2
  <2> QED
    BY <2>1, <2>2, <2>3
<1>5. key \in [DOMAIN recent -> Int] /\ \A n \in DOMAIN recent : key[n] = AgeKey(recent[n])
  BY <1>4
<1> HIDE DEF key
<1>6. PICK at \in [DOMAIN items -> DOMAIN recent] :
        /\ \A n \in DOMAIN items : items[n] = recent[at[n]]
        /\ \A m, n \in DOMAIN items : m < n => key[at[m]] <= key[at[n]]
        /\ \A i \in DOMAIN recent : \/ \E n \in DOMAIN items : items[n] = recent[i]
                                    \/ /\ Len(recent) > request.limit
                                       /\ \A n \in DOMAIN items : key[at[n]] <= key[i]
  <2> DEFINE cut == FirstOf(SortedBy(recent, key), request.limit)
  <2>1. \E at \in [DOMAIN cut -> DOMAIN recent] :
          /\ \A n \in DOMAIN cut : cut[n] = recent[at[n]]
          /\ \A m, n \in DOMAIN cut : m < n => key[at[m]] <= key[at[n]]
          /\ \A i \in DOMAIN recent : \/ \E n \in DOMAIN cut : cut[n] = recent[i]
                                      \/ /\ Len(recent) > request.limit
                                         /\ \A n \in DOMAIN cut : key[at[n]] <= key[i]
    BY <1>2, <1>5, FirstOfSorted
  <2> HIDE DEF items, cut
  <2>2. items = cut
    BY <1>3 DEF cut
  <2> QED
    BY <2>1, <2>2
<1> HIDE DEF items
<1>7. \A n \in DOMAIN items : at[n] \in DOMAIN recent
  OBVIOUS
<1>8. ASSUME NEW i \in DOMAIN recent, NEW j \in DOMAIN recent, key[j] <= key[i]
      PROVE  Older(recent[i], recent[j])
  BY <1>4, <1>5, <1>8, KeyIsAge
<1>9. \A m, n \in DOMAIN items : m < n => Older(items[n], items[m])
  BY <1>6, <1>7, <1>8
<1>10. ASSUME NEW i \in DOMAIN page, Recent(page[i])
       PROVE  \/ \E n \in DOMAIN items : items[n] = page[i]
              \/ /\ Len(recent) > request.limit
                 /\ \A n \in DOMAIN items : Older(page[i], items[n])
  <2>1. PICK k \in DOMAIN recent : recent[k] = page[i]
    BY <1>2, <1>10
  <2> QED
    BY <1>6, <1>7, <1>8, <2>1
<1> QED
  BY <1>9, <1>10 DEF recent, items

LEMMA EventsStep ==
  ASSUME ReadInv, NewestEventsTold, [Next]_vars
  PROVE  NewestEventsTold'
<1>1. CASE report'.code # "ok"
  BY <1>1 DEF NewestEventsTold, Reported
<1>2. CASE UNCHANGED vars
  BY <1>2 DEF vars, NewestEventsTold, Reported, Is, Final, InReport, Recent
<1>3. ASSUME NEW tool, tool # "get_events", Is(tool), UNCHANGED request PROVE NewestEventsTold'
  BY <1>3 DEF NewestEventsTold, Reported, Is
<1>4. request \in Requests
  BY DEF ReadInv
<1>5. CASE GetEvents
  <2>1. pc = "read" /\ Is("get_events") /\ See
    BY <1>5 DEF GetEvents
  <2>2. data \in Parts[request.tool] /\ Len(seen') = 1 /\ seen'[1] = data
    BY <2>1, FirstSeen
  <2>3. data \in Seq(Event)
    BY <1>4, <2>1, <2>2, DataIs
  <2>4. request.limit \in Nat /\ request.since_seconds \in 1..MaxSince
    BY <1>4, <2>1, RequestIs
  <2>5. OverFetch * request.limit \in Nat
    BY <2>4, ReadAssumption
  <2>6. PICK page \in Seq(Event) : page = FirstOf(data, OverFetch * request.limit)
    BY <2>3, <2>5, FirstOfIs
  <2>7. PICK items : items = EventsOf(RecentOf(page), request.limit)
    OBVIOUS
  <2>8. PICK cut : cut = (Len(RecentOf(page)) > request.limit)
    OBVIOUS
  <2>9. request' = request /\ report' = Told(items, cut, "none")
    BY <1>5, <2>6, <2>7, <2>8 DEF GetEvents, Answer, Page
  <2>10. FirstOf(Final, OverFetch * request.limit)' = page
    BY <2>2, <2>6, <2>9 DEF Final
  <2>11. /\ \A m, n \in DOMAIN items : m < n => Older(items[n], items[m])
         /\ \A i \in DOMAIN page : Recent(page[i]) =>
              (\E n \in DOMAIN items : items[n] = page[i]) \/
              (cut /\ \A n \in DOMAIN items : Older(page[i], items[n]))
    BY <2>4, <2>7, <2>8, EventsAre
  <2>12. report'.items = items /\ report'.truncated = cut
    BY <2>9 DEF Told
  <2>13. \A n \in DOMAIN page : Recent(page[n])' <=> Recent(page[n])
    BY <2>9 DEF Recent
  <2>14. \A n \in DOMAIN page : (InReport(page[n]))' <=> \E m \in DOMAIN items : items[m] = page[n]
    BY <2>12 DEF InReport
  <2> QED
    BY <2>10, <2>11, <2>12, <2>13, <2>14 DEF NewestEventsTold, Older
<1>6. ASSUME \/ ListPods \/ ListJobs \/ ListNodes
             \/ GetPodStatus \/ GetWorkload \/ GetNode \/ Query
      PROVE  NewestEventsTold'
  BY <1>6, <1>3 DEF ListPods, ListJobs, ListNodes, GetPodStatus, GetWorkload, GetNode, Query, Answer
<1>7. CASE QueryRows \/ ReadLatest \/ ListValues
  BY <1>7, <1>3 DEF QueryRows, ReadLatest, ListValues, Answer
<1>8. CASE ReadLog \/ WidenLog \/ WidenFails
  BY <1>8, <1>3 DEF ReadLog, WidenLog, WidenFails, Answer
<1> QED
  BY <1>1, <1>2, <1>5, <1>6, <1>7, <1>8, HowItEnds

\* NewestEventsTold: the events told are newest first, those without a time
\* last; an event of the page that is in the window and not told is no newer
\* than any that is, and then the answer says it was cut.
THEOREM NewestAreTold == Spec => []NewestEventsTold
<1>1. Init => NewestEventsTold
  BY DEF Init, NewestEventsTold, Reported, NoReport
<1>2. ReadInv /\ NewestEventsTold /\ [Next]_vars => NewestEventsTold'
  BY EventsStep
<1> QED
  BY <1>1, <1>2, Invariance, PTL DEF Spec
\* Of a list cut to a limit it is said exactly when it is another.
LEMMA CutIs ==
  ASSUME NEW S, NEW s \in Seq(S), NEW limit \in Nat
  PROVE  Len(s) > limit <=> FirstOf(s, limit) # s
<1>1. Len(s) \in Nat /\ (FirstOf(s, limit) = s <=> Len(s) <= limit)
  BY FirstOfIs
<1> QED
  BY ONLY <1>1, limit \in Nat

\* Of series cut in number and in length.
LEMMA SeriesAre ==
  ASSUME NEW all \in Seq(Nat), NEW limit \in Nat,
         NEW kept, DOMAIN kept = DOMAIN FirstOf(all, limit)
  PROVE  Len(all) > limit \/ kept # FirstOf(all, limit) <=> kept # all
<1> DEFINE first == FirstOf(all, limit)
<1>1. first \in Seq(Nat) /\ (first = all <=> Len(all) <= limit)
  BY FirstOfIs
<1>2. DOMAIN kept = DOMAIN first
  OBVIOUS
<1>3. Len(all) > limit => DOMAIN first # DOMAIN all
  <2>1. DOMAIN first = 1..AtMost(limit, Len(all)) /\ DOMAIN all = 1..Len(all) /\ Len(all) \in Nat
    BY FirstOfIs
  <2>2. Len(all) > limit => Len(all) \in DOMAIN all /\ Len(all) \notin DOMAIN first
    BY <2>1 DEF AtMost
  <2> QED
    BY <2>2
<1>4. Len(all) \in Nat
  OBVIOUS
<1> HIDE DEF first
<1>5. CASE Len(all) > limit
  BY <1>2, <1>3, <1>5
<1>6. CASE ~(Len(all) > limit)
  <2>1. first = all
    BY <1>1, <1>4, <1>6
  <2> QED
    BY <1>6, <2>1 DEF first
<1> QED
  BY <1>5, <1>6
\* The answer that cuts what matched to a limit, or to a size.
LEMMA CutsStep ==
  ASSUME ReadInv, CutsAreSaid, [Next]_vars
  PROVE  CutsAreSaid'
<1>1. CASE report'.code # "ok"
  BY <1>1 DEF CutsAreSaid
<1>2. CASE UNCHANGED vars
  BY <1>2 DEF vars, CutsAreSaid, Matching, LogRead, Is, OfAccounting, Final, InWindow, TailOf, Selected,
                RowsSent
<1>3. ASSUME NEW tool, tool \notin Capping, Is(tool), UNCHANGED request PROVE CutsAreSaid'
  BY <1>3 DEF CutsAreSaid, Is, Capping
<1>4. request \in Requests
  BY DEF ReadInv
<1>5. ASSUME NEW items, NEW truncated, NEW note, NEW matching,
             Answer(Told(items, truncated, note)), Matching' = matching,
             truncated <=> items # matching
      PROVE  CutsAreSaid'
  <2>1. report'.items = items /\ report'.truncated = truncated
    BY <1>5 DEF Answer, Told
  <2> QED
    BY <1>5, <2>1 DEF CutsAreSaid
<1>6. ASSUME pc = "read", See PROVE Final' = data
  BY <1>6, FirstSeen DEF Final
<1>7. ASSUME pc = "again", See PROVE Final' = data
  BY <1>7, SecondSeen DEF Final
<1>8. ASSUME NEW text \in Seq(Line), NEW note, Is("get_logs"), UNCHANGED request,
             report' = Log(TailOf(text), note), Matching' = TailOf(text)
      PROVE  CutsAreSaid'
  <2> DEFINE told == Log(TailOf(text), note)
  <2>1. told.truncated <=> told.items # TailOf(text)
    BY <1>4, <1>8, LogIs
  <2> HIDE DEF told
  <2>2. report'.truncated <=> report'.items # Matching'
    BY <1>8, <2>1 DEF told
  <2> QED
    BY <2>2 DEF CutsAreSaid
<1>9. CASE ReadLog
  <2>1. pc = "read" /\ Is("get_logs") /\ See
    BY <1>9 DEF ReadLog
  <2>2. data \in Parts[request.tool] /\ Len(seen') = 1
    BY <2>1, FirstSeen
  <2>3. data \in Seq(Line) /\ OldestFirst(data) /\ request.since_seconds \in Int
    BY <1>4, <2>1, <2>2, DataIs, RequestIs
  <2>4. CASE report' = report
    BY <2>1, <2>4 DEF ReadInv, CutsAreSaid
  <2>5. CASE Answer(Log(TailOf(InWindow(data)), "none"))
    <3>1. InWindow(data) \in Seq(Line)
      BY <2>3, WindowEnds
    <3>2. request' = request /\ report' = Log(TailOf(InWindow(data)), "none")
      BY <2>5 DEF Answer
    <3>3. Final' = data
      BY <1>6, <2>1
    <3>4. Matching' = TailOf(InWindow(data))
      <4>1. Matching' = TailOf(LogRead)'
        BY <2>1, <3>2 DEF Matching, Is, TailOf
      <4>2. InWindow(Final)' = InWindow(data)
        BY <3>2, <3>3 DEF InWindow
      <4>3. LogRead' = InWindow(data)
        BY <2>2, <4>2 DEF LogRead
      <4> QED
        BY <3>2, <4>1, <4>3 DEF TailOf
    <3> QED
      BY <1>8, <2>1, <3>1, <3>2, <3>4
  <2> QED
    BY <1>9, <2>4, <2>5 DEF ReadLog
<1>10. CASE WidenLog
  <2>1. pc = "again" /\ Is("get_logs") /\ See
    BY <1>10 DEF WidenLog
  <2>2. data \in Parts[request.tool] /\ Len(seen') = 2
    BY <2>1, SecondSeen
  <2>3. data \in Seq(Line)
    BY <1>4, <2>1, <2>2, DataIs
  <2>4. PICK note : request' = request /\ report' = Log(TailOf(data), note)
    BY <1>10 DEF WidenLog, Answer
  <2>5. Final' = data
    BY <1>7, <2>1
  <2>6. Matching' = TailOf(data)
    <3>1. Matching' = TailOf(LogRead)'
      BY <2>1, <2>4 DEF Matching, Is, TailOf
    <3>2. LogRead' = data
      BY <2>2, <2>5 DEF LogRead
    <3> QED
      BY <2>4, <3>1, <3>2 DEF TailOf
  <2> QED
    BY <1>8, <2>1, <2>3, <2>4, <2>6
<1>11. CASE WidenFails
  <2>1. /\ pc = "again" /\ Is("get_logs") /\ UNCHANGED seen
        /\ request' = request /\ report' = Log(<<>>, "silent")
    BY <1>11 DEF WidenFails, Answer
  <2>2. PICK first \in Parts[request.tool] : seen = <<first>> /\ InHand(first)
    BY <2>1 DEF ReadInv
  <2>3. InWindow(first) = <<>>
    BY <2>1, <2>2 DEF InHand, Is
  <2>4. Len(seen') = 1 /\ seen'[1] = first
    <3>1. Len(<<first>>) = 1 /\ <<first>>[1] = first
      OBVIOUS
    <3> QED
      BY ONLY <2>1, <2>2, <3>1
  <2>5. <<>> \in Seq(Line)
    OBVIOUS
  <2>6. TailOf(<<>>) = <<>>
    BY <1>4, <2>1, <2>5, LogIs
  <2>7. InWindow(Final)' = <<>>
    BY <2>1, <2>3, <2>4 DEF InWindow, Final
  <2>8. TailOf(<<>>)' = <<>>
    BY <2>1, <2>6 DEF TailOf
  <2>9. Matching' = TailOf(<<>>)
    BY <2>1, <2>4, <2>6, <2>7, <2>8 DEF Matching, Is, TailOf, LogRead
  <2> QED
    BY <1>8, <2>1, <2>5, <2>6, <2>9
<1>12. CASE ListPods
  <2>1. pc = "read" /\ Is("list_pods") /\ See
        /\ Answer(Told(FirstOf(data, request.limit), Len(data) > request.limit, "none"))
    BY <1>12 DEF ListPods, Page, More
  <2>2. data \in Seq(Nat) /\ request.limit \in Nat
    BY <1>4, <2>1, FirstSeen, DataIs, RequestIs
  <2>3. Matching' = data
    BY <1>6, <2>1 DEF Matching, Is, OfAccounting, Answer
  <2>4. Len(data) > request.limit <=> FirstOf(data, request.limit) # data
    BY <2>2, CutIs
  <2> QED
    BY <1>5, <2>1, <2>3, <2>4
<1>13. CASE ListNodes
  <2> DEFINE selected == Selected(data)
  <2>1. pc = "read" /\ Is("list_nodes") /\ See
        /\ Answer(Told(FirstOf(selected, NodeLimit), Len(selected) > NodeLimit, "none"))
    BY <1>13 DEF ListNodes
  <2>2. data \in Seq(Node) /\ NodeLimit \in Nat
    BY <1>4, <2>1, FirstSeen, DataIs, ReadAssumption
  <2>3. selected \in Seq(Node)
    <3> DEFINE unhealthy == {n \in DOMAIN data : Unhealthy(data[n])}
    <3>1. unhealthy \in SUBSET DOMAIN data
      OBVIOUS
    <3> HIDE DEF unhealthy
    <3>2. Kept(data, unhealthy) \in Seq(Node)
      BY <2>2, <3>1, KeptHas
    <3> QED
      BY <2>2, <3>2 DEF Selected, unhealthy
  <2>4. Final' = data /\ request' = request
    BY <1>6, <2>1 DEF Answer
  <2>5. Matching' = selected
    BY <2>1, <2>4 DEF Matching, Is, OfAccounting, Selected
  <2> HIDE DEF selected
  <2>6. Len(selected) > NodeLimit <=> FirstOf(selected, NodeLimit) # selected
    BY <2>2, <2>3, CutIs
  <2> QED
    BY <1>5, <2>1, <2>5, <2>6
<1>14. CASE Query
  <2> DEFINE series == FirstOf(data, MaxSeries)
             ends == 2 * (MaxSamples \div 2)
             kept == [n \in DOMAIN series |-> IF series[n] > MaxSamples THEN ends ELSE series[n]]
  <2>1. pc = "read" /\ Is("promql") /\ See
        /\ Answer(Told(kept, Len(data) > MaxSeries \/ kept # series, "none"))
    BY <1>14 DEF Query
  <2>2. data \in Seq(Nat) /\ MaxSeries \in Nat
    BY <1>4, <2>1, FirstSeen, DataIs, ReadAssumption
  <2>3. Matching' = data
    BY <1>6, <2>1 DEF Matching, Is, OfAccounting, Answer
  <2>4. DOMAIN kept = DOMAIN FirstOf(data, MaxSeries)
    OBVIOUS
  <2> HIDE DEF kept
  <2>5. (Len(data) > MaxSeries \/ kept # series) <=> kept # data
    BY <2>2, <2>4, SeriesAre
  <2> QED
    BY <1>5, <2>1, <2>3, <2>5
<1>15. ASSUME OfAccounting, Final' = data, Is("accounting_discover") => request.listed,
              NEW note, data \in Parts[request.tool], Answer(CappedRows(RowsSent(data), note))
       PROVE  CutsAreSaid'
  <2> DEFINE rows == RowsSent(data)
  <2>1. Matching' = rows
    <3>1. request' = request
      BY <1>15 DEF Answer
    <3>2. RowsSent(Final)' = rows
      BY <1>15, <3>1 DEF RowsSent
    <3>3. Matching' = RowsSent(Final)'
      BY <1>15, <3>1 DEF Matching, Is, OfAccounting, RowsSent
    <3> QED
      BY <3>2, <3>3
  <2>2. data.rows \in Seq(Nat) /\ request.limit \in Nat /\ MaxRows \in Nat
    BY <1>4, <1>15, DataIs, RequestIs, ReadAssumption DEF OfAccounting, Is
  <2>3. rows \in Seq(Nat)
    <3>1. FirstOf(data.rows, request.limit) \in Seq(Nat)
      BY <2>2, FirstOfIs
    <3> QED
      BY <2>2, <3>1 DEF RowsSent
  <2> HIDE DEF rows
  <2>4. Len(rows) > MaxRows <=> FirstOf(rows, MaxRows) # rows
    BY <2>2, <2>3, CutIs
  <2>5. Answer(Told(FirstOf(rows, MaxRows), Len(rows) > MaxRows, note))
    BY <1>15 DEF CappedRows, rows
  <2> QED
    BY <1>5, <2>1, <2>4, <2>5
<1>16. CASE QueryRows
  <2>1. pc = "read" /\ See /\ request.tool = "accounting_rows"
        /\ Answer(CappedRows(RowsSent(data), "none"))
    BY <1>16 DEF QueryRows, Is
  <2> QED
    BY <1>6, <1>15, <2>1, FirstSeen DEF OfAccounting, Is
<1>17. CASE ReadLatest
  <2>1. pc = "read" /\ Is("accounting_discover") /\ See
    BY <1>17 DEF ReadLatest
  <2>2. CASE report' = report
    BY <2>1, <2>2 DEF ReadInv, CutsAreSaid
  <2>3. CASE ~request.listed /\ Answer(Told(<<>>, FALSE, data.latest))
    <3>1. Matching' = <<>>
      BY <2>1, <2>3 DEF Matching, Is, OfAccounting, Answer
    <3> QED
      BY <1>5, <2>3, <3>1
  <2> QED
    BY <1>17, <2>2, <2>3 DEF ReadLatest
<1>18. CASE ListValues
  <2>1. pc = "again" /\ See /\ request.tool = "accounting_discover"
        /\ Answer(CappedRows(RowsSent(data), in_hand[1]))
    BY <1>18 DEF ListValues, Is
  <2>2. data \in Parts[request.tool] /\ InHand(seen[1])
    BY <2>1, SecondSeen
  <2>3. request.listed
    BY <2>1, <2>2 DEF InHand, Is
  <2> QED
    BY <1>7, <1>15, <2>1, <2>2, <2>3 DEF OfAccounting
<1>19. ASSUME GetEvents \/ ListJobs \/ GetPodStatus \/ GetWorkload \/ GetNode
       PROVE  CutsAreSaid'
  BY <1>19, <1>3 DEF GetEvents, ListJobs, GetPodStatus, GetWorkload, GetNode, Answer, Capping
<1> QED
  BY <1>1, <1>2, <1>9, <1>10, <1>11, <1>12, <1>13, <1>14, <1>16, <1>17, <1>18, <1>19, HowItEnds

\* CutsAreSaid: whether a log was cut to its last bytes, a list to its limit, a
\* query to its first series and the ends of their samples, or a table to its
\* first rows, is said, and it is not said of what is told whole.
THEOREM CutsAreTold == Spec => []CutsAreSaid
<1>1. Init => CutsAreSaid
  BY DEF Init, CutsAreSaid, NoReport
<1>2. ReadInv /\ CutsAreSaid /\ [Next]_vars => CutsAreSaid'
  BY CutsStep
<1> QED
  BY <1>1, <1>2, Invariance, PTL DEF Spec
=============================================================================
