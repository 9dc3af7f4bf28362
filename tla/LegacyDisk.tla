----------------------------- MODULE LegacyDisk -----------------------------
(* What the legacy migration keeps between two starts of the container, and  *)
(* how much of it survives a stop.                                           *)
(*                                                                           *)
(* One worker process (docker/scripts/migration_worker.py) moves an old      *)
(* installation to the new media layout: it copies the database, moves the   *)
(* media files of the images batch by batch to canonical paths, registers    *)
(* them, and archives the old directories.  The process may be stopped at    *)
(* any step, by a signal or a power loss, and is started again; whatever it  *)
(* needs to go on is in the files and tables below.                          *)
(*                                                                           *)
(* An image stands for its row, its thumbnails' rows and all their files:    *)
(* they are planned, published and switched together.                        *)
EXTENDS Integers, FiniteSets, FiniteSetsExt

CONSTANTS N,             \* image rows of the old installation, by primary key
          BatchLimit,    \* BatchLimits.max_images
          InPlace,       \* images whose file already has its canonical path
          Orphans,       \* images whose file is missing and no pin shows
          Skipped,       \* images that the registry cannot take
          M,             \* legacy directories and files to archive, in order
          ItemOf,        \* the one that holds each image's old file
          StopAt,        \* bound: the writes a stop may cut in two
          MaxStops,      \* bound: signals and crashes of the worker
          MaxPowerLoss,  \* bound: power losses
          MaxDamage,     \* bound: published files damaged between two starts
          MaxErrors      \* bound: copies that fail for want of space

Images == 1..N
Items == 1..M

ASSUME SizesAssumption ==
  /\ N \in Nat /\ M \in Nat /\ BatchLimit \in Nat \ {0}
  /\ MaxStops \in Nat /\ MaxPowerLoss \in Nat
  /\ MaxDamage \in Nat /\ MaxErrors \in Nat

ASSUME ImagesAssumption ==
  /\ InPlace \subseteq Images /\ Orphans \subseteq Images
  /\ Skipped \subseteq Images /\ InPlace \cap Orphans = {}
  /\ ItemOf \in [Images \ (InPlace \cup Orphans) -> Items]

VARIABLES pc,       \* the worker's next step; "down" between two starts
          mem,      \* what the worker only remembers
          run,      \* the run's directory, its state file and its summary
          snap,     \* the copy of the database and its receipt
          db,       \* the database: its schema and the validation marker
          row,      \* the path each image's row holds
          asset,    \* registry rows
          plan,     \* the frozen plan of the path phase
          backplan, \* the frozen plan of the registry phase
          jr,       \* the batch journal
          ckpt,     \* the checkpoint beside it
          stg,      \* staging files
          dst,      \* files at the canonical paths
          ino,      \* the inode of each of those
          unsynced, \* images whose copy may not have reached the disk
          loose,    \* whose last rename or unlink may not have
          item,     \* where each legacy directory is
          budget    \* stops, power losses, damages and errors so far

files == <<stg, dst, ino, unsynced, loose>>
logs == <<plan, backplan, jr, ckpt>>
vars == <<pc, mem, run, snap, db, row, asset, logs, files, item, budget>>

----------------------------------------------------------------------------
(* The phases of a run, in order (migration_state.py).                       *)
PhaseOrder ==
  <<"initialized", "snapshot_intent", "snapshot_complete", "schema_complete",
    "copying", "paths_complete", "registry_complete", "archive_intent",
    "archive_complete", "complete">>
RunPhases == {PhaseOrder[i] : i \in 1..10}

(* A run's directory: none; being created, its state file not yet written or *)
(* written; renamed to its final name.                                       *)
Dirs == {"none", "creating", "stated", "ready"}

Written == {"none", "partial", "full"}
PlanFiles == {"none", "empty", "torn", "prefix", "frozen"}
LogPhases == {"paths", "backfill"}

NoMem == [batch |-> {}, todo |-> {}, repaired |-> FALSE, fast |-> FALSE]

----------------------------------------------------------------------------
At(p) == pc = p
Go(p) == pc' = p

(* The worker gives up: it reports a failure code and exits.                 *)
Fail == pc' = "failed"

(* _build_batches: the first BatchLimit of the images left, in key order.    *)
Batch(left) ==
  {i \in left : Cardinality({j \in left : j < i}) < BatchLimit}

(* The batch of a plan an image belongs to.                                  *)
BlockOf(i, all) ==
  LET rank(j) == Cardinality({k \in all : k < j})
  IN  {j \in all : rank(j) \div BatchLimit = rank(i) \div BatchLimit}

First(s) == Min(s)

(* open_verified_media_file: the old file is where the plan found it.        *)
SourceThere(i) ==
  IF i \in InPlace THEN dst[i] = "good"
  ELSE i \notin Orphans /\ item[ItemOf[i]] = "there"
=============================================================================
