-------------------------- MODULE DocsIndex_proofs --------------------------
(***************************************************************************)
(* What DocsIndex keeps for any number of searches, pushes and faults.     *)
(***************************************************************************)
EXTENDS DocsIndex, TLAPS

(* What a run has in hand is at least as recent as what it would replace,  *)
(* and by the time it renames its file that file is the committed build of *)
(* the checkout it verified.                                               *)
InRun == {"chunk", "open", "ddl", "insert", "publish"}
InBuild == {"open", "ddl", "insert", "publish"}

USE DEF held, past

IInv ==
  /\ TypeOK
  /\ NeverHalfBuilt
  /\ index = Absent \/ index.stage = "whole"
  /\ index.version <= upstream.version
  /\ pc \in InRun => checkout.version >= index.version
  /\ checkout.version <= upstream.version
  /\ pc \in InBuild => checkout.good
  /\ pc \in InRun \cup {"clone"} => checkouts > 0
  /\ pc = "ddl" => building # Absent
  /\ pc = "publish" => building = [stage |-> "whole", version |-> checkout.version]

\* The invariant holds at first.
LEMMA InitInv == Init => IInv
BY DocsAssumption DEF Init, IInv, TypeOK, NeverHalfBuilt, NoCheckout, Absent, Checkout,
   File, Stages, InRun, InBuild

Failures == {"none", "directory", "clone", "checkout", "leftover", "disk"}

(* A run may end in any way, as long as the published file is left alone: *)
(* a run that is over has nothing in hand the invariant speaks of.         *)
LEMMA RunEndsInv ==
  ASSUME IInv, NEW why \in Failures, pc # "sleep", RunEnds(why),
         index' = index, upstream' = upstream, search' = search, handle' = handle,
         building' \in File, directory' \in {"ours", "narrowed", "foreign"}, faults' \in Nat,
         UNCHANGED past
  PROVE  IInv'
<1> USE DocsAssumption
<1>1. checkouts' \in Nat /\ tripped' \in Nat
  BY DEF IInv, TypeOK, RunEnds, InRun
<1>2. TypeOK'
  BY <1>1 DEF IInv, TypeOK, RunEnds, Failures, NoCheckout, Checkout
<1>3. NeverHalfBuilt'
  BY DEF IInv, NeverHalfBuilt
<1> QED
  BY <1>2, <1>3 DEF IInv, TypeOK, RunEnds, InRun, InBuild, NoCheckout, Checkout, File

\* The file being built is given up, whatever becomes of its name.
LEMMA AbandonInv ==
  ASSUME IInv, NEW why \in Failures, pc # "sleep", Abandon(why), UNCHANGED readers,
         UNCHANGED <<directory, upstream, past>>, faults' \in Nat
  PROVE  IInv'
<1>1. building' \in File /\ directory' \in {"ours", "narrowed", "foreign"}
  BY DEF IInv, TypeOK, Abandon, File, Stages, Absent
<1> QED
  BY <1>1, RunEndsInv DEF Abandon, readers

\* The sidecar's own steps, which touch no connection of a reader.
LEMMA SyncInv == ASSUME IInv, SyncStep PROVE IInv'
<1> USE DocsAssumption DEF Failures
<1>1. CASE Preflight
  <2>1. CASE Writable /\ pc' = "clone" /\ checkouts' = checkouts + 1
             /\ UNCHANGED held
    BY <1>1, <2>1 DEF IInv, TypeOK, NeverHalfBuilt, InRun, InBuild, Preflight, Widened, readers, files
  <2>2. CASE RunEnds("directory")
    BY <1>1, <2>2, RunEndsInv DEF Preflight, Widened, readers, files, IInv, TypeOK
  <2> QED
    BY <1>1, <2>1, <2>2 DEF Preflight
<1>2. CASE Clone
  BY <1>2 DEF Clone, readers, files, world, IInv, TypeOK, NeverHalfBuilt, InRun, InBuild, Checkout, File
<1>3. CASE CloneFails
  <2>1. faults' \in Nat
    BY <1>3 DEF CloneFails, IInv, TypeOK
  <2>2. CASE ~LastAttempt /\ attempt' = attempt + 1 /\ UNCHANGED <<pc, checkout, failure, tripped, checkouts>>
    BY <1>3, <2>1, <2>2 DEF CloneFails, LastAttempt, readers, files, IInv, TypeOK, NeverHalfBuilt,
       InRun, InBuild
  <2>3. CASE RunEnds("clone")
    BY <1>3, <2>1, <2>3, RunEndsInv DEF CloneFails, readers, files, IInv, TypeOK
  <2> QED
    BY <1>3, <2>2, <2>3 DEF CloneFails
<1>4. CASE Chunk
  <2>1. CASE Publishable /\ pc' = "open" /\ UNCHANGED <<held, checkouts>>
    BY <1>4, <2>1 DEF Chunk, Publishable, readers, files, world, IInv, TypeOK, NeverHalfBuilt,
       InRun, InBuild
  <2>2. CASE RunEnds("checkout")
    BY <1>4, <2>2, RunEndsInv DEF Chunk, readers, files, world, IInv, TypeOK
  <2> QED
    BY <1>4, <2>1, <2>2 DEF Chunk
<1>5. CASE OpenBuild
  <2>1. directory' \in {"ours", "narrowed", "foreign"}
    BY <1>5 DEF OpenBuild, Widened, IInv, TypeOK
  <2>2. CASE Opened /\ pc' = "ddl" /\ UNCHANGED <<held, checkouts>>
    <3>1. building' \in File /\ building' # Absent
      BY <2>2 DEF Opened, IInv, TypeOK, File, Stages, Checkout, Absent
    <3> QED
      BY <1>5, <2>1, <2>2, <3>1 DEF OpenBuild, Opened, readers, IInv, TypeOK, NeverHalfBuilt,
         InRun, InBuild
  <2>3. CASE UNCHANGED files /\ RunEnds("directory")
    BY <1>5, <2>1, <2>3, RunEndsInv DEF OpenBuild, readers, files, IInv, TypeOK
  <2> QED
    BY <1>5, <2>2, <2>3 DEF OpenBuild
<1>6. CASE CreateTables
  <2>1. CASE /\ building' = [stage |-> "schema", version |-> checkout.version]
             /\ pc' = "insert"
             /\ UNCHANGED <<held, checkouts, index>>
    <3>1. building' \in File
      BY <2>1 DEF IInv, TypeOK, File, Stages, Checkout
    <3> QED
      BY <1>6, <2>1, <3>1 DEF CreateTables, readers, world, IInv, TypeOK, NeverHalfBuilt, InRun, InBuild
  <2>2. CASE Abandon("directory") \/ Abandon("leftover")
    BY <1>6, <2>2, AbandonInv DEF CreateTables, readers, world, IInv, TypeOK
  <2> QED
    BY <1>6, <2>1, <2>2 DEF CreateTables
<1>7. CASE Insert
  <2>1. CASE /\ building' = [stage |-> "whole", version |-> checkout.version]
             /\ pc' = "publish"
             /\ UNCHANGED <<held, checkouts, index>>
    <3>1. building' \in File
      BY <2>1 DEF IInv, TypeOK, File, Stages, Checkout
    <3> QED
      BY <1>7, <2>1, <3>1 DEF Insert, readers, world, IInv, TypeOK, NeverHalfBuilt, InRun, InBuild
  <2>2. CASE Abandon("directory")
    BY <1>7, <2>2, AbandonInv DEF Insert, readers, world, IInv, TypeOK
  <2> QED
    BY <1>7, <2>1, <2>2 DEF Insert
<1>8. CASE DiskFull
  BY <1>8, AbandonInv DEF DiskFull, IInv, TypeOK
<1>9. CASE Publish
  <2>1. CASE index' = building /\ building' = Absent /\ RunEnds("none")
    <3>1. index' = [stage |-> "whole", version |-> checkout.version]
      BY <1>9, <2>1 DEF Publish, IInv
    <3>2. index' \in File /\ index'.stage = "whole" /\ index'.version <= upstream.version
      BY <3>1 DEF IInv, TypeOK, File, Stages, Checkout
    <3>3. TypeOK'
      BY <1>9, <2>1, <3>2 DEF Publish, RunEnds, readers, world, NoCheckout, Absent, IInv, TypeOK,
         InRun, File, Stages, Checkout
    <3>4. NeverHalfBuilt'
      BY <1>9, <3>2 DEF Publish, readers, IInv, NeverHalfBuilt
    <3> QED
      BY <1>9, <2>1, <3>2, <3>3, <3>4 DEF Publish, RunEnds, world, NoCheckout, IInv, TypeOK,
         InRun, InBuild, Checkout
  <2>2. CASE Abandon("directory")
    BY <1>9, <2>2, AbandonInv DEF Publish, readers, world, IInv, TypeOK
  <2> QED
    BY <1>9, <2>1, <2>2 DEF Publish
<1>10. CASE Rebuild
  BY <1>10 DEF Rebuild, readers, files, world, IInv, TypeOK, NeverHalfBuilt, InRun, InBuild
<1> QED
  BY <1>1, <1>2, <1>3, <1>4, <1>5, <1>6, <1>7, <1>8, <1>9, <1>10 DEF SyncStep

\* Pushes, permissions, kills and the connections of readers.
LEMMA WorldInv ==
  ASSUME IInv,
         Push \/ ChangeDirectory \/ Kill \/ \E r \in Readers : Connect(r) \/ Relax(r) \/ Close(r)
  PROVE  IInv'
<1> USE DEF IInv, TypeOK, NeverHalfBuilt, InRun, InBuild
<1>1. CASE Push
  BY <1>1 DEF Push, sync, files, readers, Checkout, File
<1>2. CASE ChangeDirectory
  BY <1>2 DEF ChangeDirectory, sync, files, readers
<1>3. CASE Kill
  BY <1>3, DocsAssumption DEF Kill, files, readers, NoCheckout, Checkout
<1>4. ASSUME NEW r \in Readers, Connect(r) PROVE IInv'
  BY <1>4 DEF Connect, sync, files, world
<1>5. ASSUME NEW r \in Readers, Relax(r) PROVE IInv'
  BY <1>5 DEF Relax, sync, files, world
<1>6. ASSUME NEW r \in Readers, Close(r) PROVE IInv'
  BY <1>6 DEF Close, sync, files, world, Absent, File, Stages
<1> QED
  BY <1>1, <1>2, <1>3, <1>4, <1>5, <1>6

LEMMA StepInv == IInv /\ [Next]_vars => IInv'
<1> SUFFICES ASSUME IInv, [Next]_vars PROVE IInv'
  OBVIOUS
<1>1. CASE UNCHANGED vars
  BY <1>1 DEF vars, sync, files, readers, world, IInv, TypeOK, NeverHalfBuilt, InRun, InBuild
<1> QED
  BY <1>1, SyncInv, WorldInv DEF Next

LEMMA Invariant == Spec => []IInv
BY InitInv, StepInv, PTL DEF Spec

\* The types of DocsIndex.
THEOREM TypeCorrect == Spec => []TypeOK
<1>1. IInv => TypeOK
  BY DEF IInv
<1> QED
  BY <1>1, Invariant, PTL

\* No search ever has a half-built index open, wherever builds are killed.
THEOREM SearchesSeeWholeIndexes == Spec => []NeverHalfBuilt
<1>1. IInv => NeverHalfBuilt
  BY DEF IInv
<1> QED
  BY <1>1, Invariant, PTL

(* Only Publish changes the published file, and what it puts there.        *)
LEMMA OnlyPublish ==
  ASSUME IInv, [Next]_vars, index' # index
  PROVE  /\ index' = [stage |-> "whole", version |-> checkout.version]
         /\ checkout.good /\ checkout.version >= index.version
<1>1. Publish /\ index' = building
  BY DEF Next, SyncStep, vars, files, Preflight, Clone, CloneFails, Chunk, OpenBuild, Opened,
     CreateTables, Insert, DiskFull, Publish, Abandon, Rebuild, Push, ChangeDirectory, Kill,
     Connect, Relax, Close
<1> QED
  BY <1>1 DEF Publish, IInv, InRun, InBuild

\* A published index stays until one at least as recent replaces it.
THEOREM PublishedIndexStays == Spec => PublishedStays
<1>1. IInv /\ [Next]_vars =>
        [index.stage = "whole" => index'.stage = "whole" /\ index'.version >= index.version]_vars
  BY OnlyPublish DEF IInv, TypeOK, File, Checkout
<1> QED
  BY <1>1, Invariant, PTL DEF Spec, PublishedStays

\* What is published is the build of a checkout that had text.
THEOREM EmptyIsNeverPublished == Spec => NeverEmpty
<1>1. IInv /\ [Next]_vars =>
        [index' # index => checkout.good /\ index'.version = checkout.version]_vars
  BY OnlyPublish
<1> QED
  BY <1>1, Invariant, PTL DEF Spec, NeverEmpty

----------------------------------------------------------------------------
(* What runs leave behind.  A temporary directory stays only when its run  *)
(* was killed.  A file may lie under the name of the next build while no   *)
(* run is sure of removing it: that is owed to a kill or to a loss of the  *)
(* directory, and paid back by the one run that trips over it.             *)
Idle == {"sleep", "preflight"}

OwnBuild == pc \in {"insert", "publish"} \/ (pc = "ddl" /\ building.stage = "created")
Owed ==
  IF building = Absent \/ (OwnBuild /\ directory = "ours") THEN 0 ELSE 1

CheckoutsInv == checkouts <= kills + (IF pc \in Idle THEN 0 ELSE 1)
LeftoverInv == tripped + Owed <= kills + losses

LEMMA InitLeft == Init => CheckoutsInv /\ LeftoverInv
BY DEF Init, CheckoutsInv, LeftoverInv, Idle, Owed, Absent

LEMMA StepCheckouts == IInv /\ CheckoutsInv /\ [Next]_vars => CheckoutsInv'
<1> SUFFICES ASSUME IInv, CheckoutsInv, [Next]_vars PROVE CheckoutsInv'
  OBVIOUS
<1>0. kills \in Nat /\ checkouts \in Nat
  BY DEF IInv, TypeOK
<1> USE DEF CheckoutsInv, Idle
<1>1. ASSUME NEW why, pc # "sleep", RunEnds(why), kills' = kills PROVE CheckoutsInv'
  BY <1>0, <1>1 DEF RunEnds
<1>2. CASE Preflight
  BY <1>0, <1>1, <1>2 DEF Preflight
<1>3. CASE Clone \/ Rebuild
  BY <1>0, <1>3 DEF Clone, Rebuild, world
<1>4. CASE CloneFails
  BY <1>0, <1>1, <1>4 DEF CloneFails
<1>5. CASE Chunk
  BY <1>0, <1>1, <1>5 DEF Chunk, world
<1>6. CASE OpenBuild
  BY <1>0, <1>1, <1>6 DEF OpenBuild
<1>7. CASE CreateTables \/ Insert
  BY <1>0, <1>1, <1>7 DEF CreateTables, Insert, Abandon, world
<1>8. CASE DiskFull
  BY <1>0, <1>1, <1>8 DEF DiskFull, Abandon
<1>9. CASE Publish
  BY <1>0, <1>1, <1>9 DEF Publish, Abandon, world
<1>10. CASE Push \/ ChangeDirectory \/ UNCHANGED vars
             \/ \E r \in Readers : Connect(r) \/ Relax(r) \/ Close(r)
  BY <1>10 DEF Push, ChangeDirectory, Connect, Relax, Close, vars, sync, world
<1>11. CASE Kill
  BY <1>0, <1>11 DEF Kill
<1> QED
  BY <1>2, <1>3, <1>4, <1>5, <1>6, <1>7, <1>8, <1>9, <1>10, <1>11 DEF Next, SyncStep

\* A run that gives its file up removes it, where it can.
LEMMA AbandonLeft ==
  ASSUME IInv, LeftoverInv, NEW why, Abandon(why), UNCHANGED <<directory, past>>,
         why = "leftover" => directory = "ours" /\ Owed = 1
  PROVE  LeftoverInv'
<1>1. kills \in Nat /\ losses \in Nat /\ tripped \in Nat
  BY DEF IInv, TypeOK
<1>2. pc' = "sleep" /\ tripped' = IF why = "leftover" THEN tripped + 1 ELSE tripped
  BY DEF Abandon, RunEnds
<1>3. CASE directory = "ours"
  <2>1. Owed' = 0 /\ Owed \in {0, 1}
    BY <1>3 DEF Abandon, Owed
  <2> QED
    BY <1>1, <1>2, <2>1 DEF LeftoverInv
<1>4. CASE directory # "ours"
  <2>1. Owed' = Owed /\ why # "leftover" /\ Owed \in {0, 1}
    BY <1>4 DEF Abandon, Owed
  <2> QED
    BY <1>1, <1>2, <2>1 DEF LeftoverInv
<1> QED
  BY <1>3, <1>4

LEMMA StepLeftover == IInv /\ LeftoverInv /\ [Next]_vars => LeftoverInv'
<1> SUFFICES ASSUME IInv, LeftoverInv, [Next]_vars PROVE LeftoverInv'
  OBVIOUS
<1>0. /\ kills \in Nat /\ losses \in Nat /\ tripped \in Nat
      /\ Owed \in Nat /\ Owed' \in Nat /\ Owed' <= 1
  BY DEF IInv, TypeOK, Owed
<1>a. ASSUME tripped' = tripped, kills' + losses' = kills + losses, Owed' <= Owed
      PROVE  LeftoverInv'
  BY <1>0, <1>a DEF LeftoverInv
<1>c. ASSUME tripped' = tripped, kills' + losses' = kills + losses + 1 PROVE LeftoverInv'
  BY <1>0, <1>c DEF LeftoverInv
<1>b. ASSUME UNCHANGED <<building, past>>, ~OwnBuild, tripped' = tripped PROVE LeftoverInv'
  BY <1>0, <1>a, <1>b DEF Owed
<1>1. CASE Preflight \/ Clone \/ Rebuild \/ CloneFails \/ Chunk
  <2>1. UNCHANGED <<building, past>> /\ ~OwnBuild /\ tripped' = tripped
    BY <1>1 DEF Preflight, Clone, Rebuild, CloneFails, Chunk, RunEnds, files, world, OwnBuild
  <2> QED
    BY <1>b, <2>1
<1>2. CASE OpenBuild
  <2>1. CASE Writable /\ Opened /\ pc' = "ddl" /\ tripped' = tripped
    <3>1. Owed' <= Owed
      BY <1>2, <2>1 DEF OpenBuild, Writable, Opened, Owed, OwnBuild
    <3> QED
      BY <1>2, <1>a, <2>1, <3>1 DEF OpenBuild
  <2>2. CASE UNCHANGED files /\ RunEnds("directory")
    BY <1>2, <1>b, <2>2 DEF OpenBuild, files, RunEnds, OwnBuild
  <2> QED
    BY <1>2, <2>1, <2>2 DEF OpenBuild
<1>3. CASE CreateTables
  <2>1. CASE directory = "ours" /\ pc' = "insert" /\ tripped' = tripped
    <3>1. Owed' = 0
      BY <1>3, <2>1 DEF CreateTables, world, Owed, OwnBuild
    <3> QED
      BY <1>0, <1>3, <1>a, <2>1, <3>1 DEF CreateTables, world
  <2>2. CASE Abandon("directory")
    BY <1>3, <2>2, AbandonLeft DEF CreateTables, world
  <2>3. CASE directory = "ours" /\ building.stage # "created" /\ Abandon("leftover")
    <3>1. building # Absent
      BY <1>3 DEF CreateTables, IInv
    <3>2. Owed = 1
      BY <1>3, <2>3, <3>1 DEF CreateTables, Owed, OwnBuild
    <3> QED
      BY <1>3, <2>3, <3>2, AbandonLeft DEF CreateTables, world
  <2> QED
    BY <1>3, <2>1, <2>2, <2>3 DEF CreateTables
<1>4. CASE Insert
  <2>1. CASE directory = "ours" /\ pc' = "publish" /\ tripped' = tripped
    <3>1. Owed' = 0
      BY <1>4, <2>1 DEF Insert, world, Owed, OwnBuild
    <3> QED
      BY <1>0, <1>4, <1>a, <2>1, <3>1 DEF Insert, world
  <2>2. CASE Abandon("directory")
    BY <1>4, <2>2, AbandonLeft DEF Insert, world
  <2> QED
    BY <1>4, <2>1, <2>2 DEF Insert
<1>5. CASE DiskFull
  BY <1>5, AbandonLeft DEF DiskFull
<1>6. CASE Publish
  <2>1. CASE building' = Absent /\ RunEnds("none")
    <3>1. Owed' = 0
      BY <2>1 DEF Owed
    <3> QED
      BY <1>0, <1>6, <1>a, <2>1, <3>1 DEF Publish, world, RunEnds
  <2>2. CASE Abandon("directory")
    BY <1>6, <2>2, AbandonLeft DEF Publish, world
  <2> QED
    BY <1>6, <2>1, <2>2 DEF Publish
<1>7. CASE Push \/ UNCHANGED vars \/ \E r \in Readers : Connect(r) \/ Relax(r) \/ Close(r)
  BY <1>7 DEF Push, Connect, Relax, Close, vars, sync, files, world, LeftoverInv, Owed, OwnBuild
<1>8. CASE ChangeDirectory
  <2>1. UNCHANGED <<pc, building, tripped, kills>>
    BY <1>8 DEF ChangeDirectory, sync, files
  <2>2. CASE directory' = "ours"
    <3>1. Owed' <= Owed /\ losses' = losses
      BY <1>8, <2>1, <2>2 DEF ChangeDirectory, Owed, OwnBuild
    <3> QED
      BY <1>a, <2>1, <3>1
  <2>3. CASE directory' # "ours"
    <3>1. losses' = losses + 1
      BY <1>8, <2>3 DEF ChangeDirectory
    <3> QED
      BY <1>0, <1>c, <2>1, <3>1
  <2> QED
    BY <2>2, <2>3
<1>9. CASE Kill
  BY <1>0, <1>c, <1>9 DEF Kill
<1> QED
  BY <1>1, <1>2, <1>3, <1>4, <1>5, <1>6, <1>7, <1>8, <1>9 DEF Next, SyncStep

\* No run that ends by itself leaves its temporary directory.
THEOREM OnlyKillsLeaveCheckouts == Spec => []CheckoutsRemoved
<1>1. IInv /\ CheckoutsInv => CheckoutsRemoved
  BY DEF IInv, TypeOK, CheckoutsInv, CheckoutsRemoved, Idle
<1> QED
  BY <1>1, InitLeft, StepCheckouts, Invariant, PTL DEF Spec

\* What a killed run or a lost directory left fails at most one rebuild.
THEOREM LeftoversAreRemoved == Spec => []LeftoverTripsOnce
<1>1. IInv /\ LeftoverInv => LeftoverTripsOnce
  BY DEF IInv, TypeOK, LeftoverInv, LeftoverTripsOnce, Owed
<1> QED
  BY <1>1, InitLeft, StepLeftover, Invariant, PTL DEF Spec
=============================================================================
