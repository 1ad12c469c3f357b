----------------------------- MODULE DocsIndex -----------------------------
(***************************************************************************)
(* The docs index during the life of one pod: the docs-sync sidecar        *)
(* (docs_index/sync.py) rebuilds it over and over in a volume it shares    *)
(* with the agent, whose search_docs (tools/docs.py) reads it meanwhile.   *)
(*                                                                         *)
(* The container may be killed between any two steps; what it left in the  *)
(* volume and in /tmp outlives it.  It always runs as process 1, so the    *)
(* pid in the name of the file it builds is the same in every life.        *)
(***************************************************************************)
EXTENDS Integers

CONSTANTS
  CloneAttempts,   \* CLONE_ATTEMPTS
  Readers,         \* searches that may be under way at once
  MaxVersion,      \* BOUND: pushes to the docs repository
  MaxFaults        \* BOUND: failed clones, full disks, kills, lost permissions

ASSUME DocsAssumption ==
  CloneAttempts \in Nat \ {0} /\ MaxVersion \in Nat \ {0} /\ MaxFaults \in Nat

\* A build of the docs at some version; "schema" has its tables but no
\* committed row, "whole" is committed.
Stages == {"absent", "created", "schema", "whole"}
File == [stage : Stages, version : Nat]
Absent == [stage |-> "absent", version |-> 0]

\* What a clone brings: good when it has the docs directory and some text.
Checkout == [version : Nat, good : BOOLEAN]
NoCheckout == [version |-> 0, good |-> FALSE]

VARIABLES
  pc,         \* the sidecar: sleep | preflight | clone | chunk | open | ddl | insert | publish
  attempt,    \* of clone_docs
  checkout,   \* what this run cloned
  failure,    \* why the last run failed, as its log line says; "none" if it did not
  checkouts,  \* temporary directories in /tmp
  index,      \* the file the agent reads
  building,   \* the file the sidecar builds
  directory,  \* ours | narrowed (ours, without its write bit) | foreign
  upstream,   \* the docs repository
  search,     \* reader -> idle | strict | relaxed
  handle,     \* reader -> the file its connection has open
  faults,     \* faults so far; the next three are history: of the faults, how often
  kills,      \* the container was killed and
  losses,     \* the directory became unwritable; and of the runs, how many
  tripped     \* failed on a file they found

held == <<attempt, checkout, failure, tripped>>
sync == <<pc, held, checkouts>>
files == <<index, building>>
readers == <<search, handle>>
past == <<kills, losses>>
world == <<directory, upstream, faults, past>>
vars == <<sync, files, readers, world>>

Init ==
  /\ pc = "preflight" /\ attempt = 1 /\ checkout = NoCheckout
  /\ failure = "none" /\ checkouts = 0
  /\ index = Absent /\ building = Absent
  /\ directory \in {"ours", "narrowed", "foreign"}
  /\ upstream = [version |-> 1, good |-> TRUE]
  /\ search = [r \in Readers |-> "idle"] /\ handle = [r \in Readers |-> Absent]
  /\ faults = 0 /\ kills = 0 /\ losses = 0 /\ tripped = 0

----------------------------------------------------------------------------
(* One run of sync.                                                        *)

\* require_writable_index_dir: widens the mode of a directory that is ours.
Unwidened == directory  \* fault: the mode is only looked at
Widened == IF directory = "narrowed" THEN "ours" ELSE directory
Writable == Widened = "ours"

\* The run is over; its temporary directory, if it has one, is removed.
RunEndsLeaky(why) ==  \* fault: only a run that succeeds removes it
  /\ pc' = "sleep" /\ failure' = why
  /\ checkouts' = IF pc = "preflight" \/ why # "none" THEN checkouts ELSE checkouts - 1
  /\ checkout' = NoCheckout /\ attempt' = 1
  /\ tripped' = IF why = "leftover" THEN tripped + 1 ELSE tripped
RunEnds(why) ==
  /\ pc' = "sleep" /\ failure' = why
  /\ checkouts' = IF pc = "preflight" THEN checkouts ELSE checkouts - 1
  /\ checkout' = NoCheckout /\ attempt' = 1
  /\ tripped' = IF why = "leftover" THEN tripped + 1 ELSE tripped

Preflight ==
  /\ pc = "preflight"
  /\ directory' = Widened
  /\ \/ /\ Writable
        /\ pc' = "clone" /\ checkouts' = checkouts + 1
        /\ UNCHANGED held
     \/ ~Writable /\ RunEnds("directory")
  /\ UNCHANGED <<files, readers, upstream, faults, past>>

Clone ==
  /\ pc = "clone"
  /\ checkout' = upstream
  /\ pc' = "chunk"
  /\ UNCHANGED <<attempt, failure, tripped, checkouts, files, readers, world>>

\* A clone that failed or timed out is tried again, from an empty directory.
LastAttempt == attempt = CloneAttempts

CloneFails ==
  /\ pc = "clone"
  /\ faults < MaxFaults /\ faults' = faults + 1
  /\ \/ ~LastAttempt /\ attempt' = attempt + 1 /\ UNCHANGED <<pc, checkout, failure, tripped, checkouts>>
     \/ LastAttempt /\ RunEnds("clone")
  /\ UNCHANGED <<files, readers, directory, upstream, past>>

PublishableAny == TRUE  \* fault: an empty checkout is built and published
Publishable == checkout.good

Chunk ==
  /\ pc = "chunk"
  /\ \/ Publishable /\ pc' = "open" /\ UNCHANGED <<held, checkouts>>
     \/ ~Publishable /\ RunEnds("checkout")
  /\ UNCHANGED <<files, readers, world>>

----------------------------------------------------------------------------
(* build_index.                                                            *)

\* sqlite3.connect creates the file, or opens the one a killed run left.
OpenedInPlace ==  \* fault: the published file is written to
  /\ building' = [stage |-> "created", version |-> checkout.version]
  /\ index' = building'
Opened ==
  /\ building' = IF building = Absent
                 THEN [stage |-> "created", version |-> checkout.version] ELSE building
  /\ UNCHANGED index

OpenBuild ==
  /\ pc = "open"
  /\ directory' = Widened
  /\ \/ Writable /\ Opened /\ pc' = "ddl" /\ UNCHANGED <<held, checkouts>>
     \/ ~Writable /\ UNCHANGED files /\ RunEnds("directory")
  /\ UNCHANGED <<readers, upstream, faults, past>>

\* The file being built is removed and the run fails; in a directory that
\* stopped being writable the removal fails too, and is not reported.
AbandonAndKeep(why) == UNCHANGED files /\ RunEnds(why)  \* fault: it is kept
AbandonIndex(why) ==  \* fault: the published file is removed
  /\ index' = IF directory = "ours" THEN Absent ELSE index
  /\ UNCHANGED building
  /\ RunEnds(why)
Abandon(why) ==
  /\ building' = IF directory = "ours" THEN Absent ELSE building
  /\ UNCHANGED index
  /\ RunEnds(why)

\* CREATE TABLE fails on a file that already has the tables.
CreateTables ==
  /\ pc = "ddl"
  /\ \/ /\ directory = "ours" /\ building.stage = "created"
        /\ building' = [stage |-> "schema", version |-> checkout.version]
        /\ pc' = "insert"
        /\ UNCHANGED <<held, checkouts, index>>
     \/ directory # "ours" /\ Abandon("directory")
     \/ directory = "ours" /\ building.stage # "created" /\ Abandon("leftover")
  /\ UNCHANGED <<readers, world>>

Insert ==
  /\ pc = "insert"
  /\ \/ /\ directory = "ours"
        /\ building' = [stage |-> "whole", version |-> checkout.version]
        /\ pc' = "publish"
        /\ UNCHANGED <<held, checkouts, index>>
     \/ directory # "ours" /\ Abandon("directory")
  /\ UNCHANGED <<readers, world>>

DiskFull ==
  /\ pc \in {"ddl", "insert"}
  /\ faults < MaxFaults /\ faults' = faults + 1
  /\ Abandon("disk")
  /\ UNCHANGED <<readers, directory, upstream, past>>

\* The rename replaces the published file in one step.
Publish ==
  /\ pc = "publish"
  /\ \/ directory = "ours" /\ index' = building /\ building' = Absent /\ RunEnds("none")
     \/ directory # "ours" /\ Abandon("directory")
  /\ UNCHANGED <<readers, world>>

\* sync_forever: whatever a run ended with, there is another one.
Rebuild ==
  /\ pc = "sleep"
  /\ pc' = "preflight"
  /\ UNCHANGED <<held, checkouts, files, readers, world>>

----------------------------------------------------------------------------
(* The world: pushes, permissions, and kills of the container.             *)

Push ==
  /\ upstream.version < MaxVersion
  /\ \E good \in BOOLEAN : upstream' = [version |-> upstream.version + 1, good |-> good]
  /\ UNCHANGED <<sync, files, readers, directory, faults, past>>

ChangeDirectory ==
  /\ faults < MaxFaults /\ faults' = faults + 1
  /\ directory' \in {"ours", "narrowed", "foreign"} \ {directory}
  /\ losses' = IF directory' = "ours" THEN losses ELSE losses + 1
  /\ UNCHANGED <<sync, files, readers, upstream, kills>>

\* The container is killed and started again.  The volumes stay as they are;
\* rows that were not committed are gone.
Kill ==
  /\ faults < MaxFaults /\ faults' = faults + 1
  /\ pc' = "preflight" /\ attempt' = 1 /\ checkout' = NoCheckout /\ failure' = "none"
  /\ kills' = kills + 1
  /\ UNCHANGED <<tripped, checkouts, files, readers, directory, upstream, losses>>

----------------------------------------------------------------------------
(* search_docs: one connection, all terms first and any term after that.   *)
(* Before the first build it answers docs_index_missing instead.           *)

Connect(r) ==
  /\ search[r] = "idle"
  /\ index # Absent
  /\ handle' = [handle EXCEPT ![r] = index]
  /\ search' = [search EXCEPT ![r] = "strict"]
  /\ UNCHANGED <<sync, files, world>>

Relax(r) ==
  /\ search[r] = "strict"
  /\ search' = [search EXCEPT ![r] = "relaxed"]
  /\ UNCHANGED <<sync, files, handle, world>>

Close(r) ==
  /\ search[r] # "idle"
  /\ search' = [search EXCEPT ![r] = "idle"]
  /\ handle' = [handle EXCEPT ![r] = Absent]
  /\ UNCHANGED <<sync, files, world>>

SyncStep ==
  \/ Preflight \/ Clone \/ CloneFails \/ Chunk
  \/ OpenBuild \/ CreateTables \/ Insert \/ DiskFull \/ Publish
  \/ Rebuild

Next ==
  \/ SyncStep
  \/ Push \/ ChangeDirectory \/ Kill
  \/ \E r \in Readers : Connect(r) \/ Relax(r) \/ Close(r)

\* The sidecar is a loop in a container that is always started again, and git
\* is under a timeout: it keeps taking steps.
Fairness == WF_vars(SyncStep)

Spec == Init /\ [][Next]_vars /\ Fairness

----------------------------------------------------------------------------
(* Properties.                                                             *)

TypeOK ==
  /\ pc \in {"sleep", "preflight", "clone", "chunk", "open", "ddl", "insert", "publish"}
  /\ attempt \in 1..CloneAttempts
  /\ checkout \in Checkout
  /\ failure \in {"none", "directory", "clone", "checkout", "leftover", "disk"}
  /\ checkouts \in Nat
  /\ index \in File /\ building \in File
  /\ directory \in {"ours", "narrowed", "foreign"}
  /\ upstream \in Checkout
  /\ search \in [Readers -> {"idle", "strict", "relaxed"}]
  /\ handle \in [Readers -> File]
  /\ faults \in Nat /\ kills \in Nat /\ losses \in Nat /\ tripped \in Nat

\* "Readers either see the old index or the new one, never a half-built one"
\* (sync.py:446): what a search has open is committed, whenever it connected
\* and wherever the builds around it were killed.
NeverHalfBuilt ==
  /\ index.stage \in {"absent", "whole"}
  /\ \A r \in Readers : search[r] # "idle" => handle[r].stage = "whole"

\* What was published stays until something at least as recent replaces it:
\* a failed rebuild leaves the previous index answering (sync_forever).
PublishedStays ==
  [][index.stage = "whole" => index'.stage = "whole" /\ index'.version >= index.version]_vars

\* The version a search reads existed upstream and had text: an empty
\* checkout is never published over a working index.
NeverEmpty ==
  [][index' # index => checkout.good /\ index'.version = checkout.version]_vars

\* Between runs there are no more temporary directories than kills: a run that
\* ends by itself, however it ends, takes its own with it.
CheckoutsRemoved == pc \in {"sleep", "preflight"} => checkouts <= kills

\* A kill, or the loss of the directory, fails at most one later rebuild through
\* the file it left; a build that gave up for another reason, a full disk or a
\* file it found, fails none (sync.py:430-435, "for the next run to trip over").
LeftoverTripsOnce == tripped <= kills + losses

\* Whatever went wrong before, the index ends up at the last version pushed,
\* once that has text and the directory is ours or can be made so.
CatchesUp ==
  <>[](upstream.good /\ directory # "foreign")
    => <>[](index.stage = "whole" /\ index.version = upstream.version)

\* sync.py:395-398: a unique name per run, so that what a killed run left
\* behind does not fail a later one.
FailsOnlyForItself == failure # "leftover"
=============================================================================
