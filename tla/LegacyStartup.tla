---------------------------- MODULE LegacyStartup ---------------------------
(* The migration worker (docker/scripts/migration_worker.py) and its         *)
(* coordinator (legacy_startup.py): one start after the other, each stopped  *)
(* at any step, until the migration is complete and the application may      *)
(* start.  It composes the snapshot, the path phase, the registry phase and  *)
(* the archive, and adds what happens to the machine between their steps.    *)
EXTENDS LegacySnapshot, LegacyPaths, LegacyRegistry, LegacyArchive

----------------------------------------------------------------------------
(* prepare_migration_locks                                                   *)
PrepareLocks ==
  /\ At("locks") /\ Go("schema")
  /\ UNCHANGED <<mem, run, snap, db, row, asset, logs, files, item, budget>>

(* schema_required                                                           *)
SchemaRequired ==
  \/ ~Incomplete \/ db.schema = "old"
  \/ run.phase \in {"initialized", "snapshot_complete"}

(* Mutant: the marker of the former schema is kept.                          *)
Migrate_MarkerKept ==
  /\ At("schema")
  /\ db' = [db EXCEPT !.exists = TRUE,
                     !.schema = IF SchemaRequired THEN "new" ELSE @]
  /\ Go("converge")
  /\ UNCHANGED <<mem, run, snap, row, asset, logs, files, item, budget>>

(* invalidate_startup_validation, then _run_schema_commands.                 *)
Migrate ==
  /\ At("schema")
  /\ db' = [db EXCEPT !.exists = TRUE, !.marker = FALSE,
                     !.schema = IF SchemaRequired THEN "new" ELSE @]
  /\ Go("converge")
  /\ UNCHANGED <<mem, run, snap, row, asset, logs, files, item, budget>>

(* _converge_after_schema                                                    *)
Converge ==
  /\ At("converge")
  /\ run' = IF Incomplete /\ run.phase \in {"initialized", "snapshot_complete"}
            THEN [run EXCEPT !.phase = "schema_complete"] ELSE run
  /\ IF ~Incomplete THEN Go("runtime")
     ELSE IF run.phase = "snapshot_intent" THEN Fail
     ELSE Go("plan")
  /\ UNCHANGED <<mem, snap, db, row, asset, logs, files, item, budget>>

----------------------------------------------------------------------------
(* _converge_media, between the plan and the execution: the journal is       *)
(* created once, at schema_complete; every start counts as an attempt.       *)
FirstPhase == run.phase = "schema_complete"

OpenJournal ==
  /\ At("journal")
  /\ IF jr.made THEN jr' = TailRepaired(jr) /\ Go("attempt")
     ELSE IF FirstPhase THEN CreateJournal /\ Go("attempt")
     ELSE Fail /\ UNCHANGED jr
  /\ UNCHANGED <<mem, run, snap, db, row, asset, plan, backplan, ckpt, files,
                 item, budget>>

RecordAttempt ==
  /\ At("attempt")
  /\ jr' = AttemptRecorded(jr)
  /\ Go("totals")
  /\ UNCHANGED <<mem, run, snap, db, row, asset, plan, backplan, ckpt, files,
                 item, budget>>

FreezeTotals ==
  /\ At("totals")
  /\ IF jr.totals THEN Go("persist") /\ UNCHANGED jr
     ELSE IF FirstPhase /\ CanFreeze(jr) THEN jr' = TotalsFrozen(jr) /\ Go("persist")
     ELSE Fail /\ UNCHANGED jr
  /\ UNCHANGED <<mem, run, snap, db, row, asset, plan, backplan, ckpt, files,
                 item, budget>>

(* persist_manifest_identity, before the phase moves on.                     *)
PersistMedia ==
  /\ At("persist")
  /\ run' = IF FirstPhase THEN [run EXCEPT !.media = TRUE] ELSE run
  /\ Go("copying")
  /\ UNCHANGED <<mem, snap, db, row, asset, logs, files, item, budget>>

StartCopying ==
  /\ At("copying")
  /\ run' = IF FirstPhase THEN [run EXCEPT !.phase = "copying"] ELSE run
  /\ Go("paths")
  /\ UNCHANGED <<mem, snap, db, row, asset, logs, files, item, budget>>

(* The transition to paths_complete.                                         *)
EndPaths ==
  /\ At("pathsdone")
  /\ run' = IF run.phase = "copying" THEN [run EXCEPT !.phase = "paths_complete"]
            ELSE run
  /\ Go("backopen")
  /\ UNCHANGED <<mem, snap, db, row, asset, logs, files, item, budget>>

----------------------------------------------------------------------------
(* adjust_ownership, runtime_check and record_successful_startup: the marker *)
(* is written unless it made this start fast.                                *)
RuntimeCheck ==
  /\ At("runtime")
  /\ db' = IF mem.fast THEN db ELSE [db EXCEPT !.marker = TRUE]
  /\ Go("done")
  /\ UNCHANGED <<mem, run, snap, row, asset, logs, files, item, budget>>

----------------------------------------------------------------------------
(* The machine.  The supervisor starts the worker; a start without the       *)
(* migration flag counts as one of the errors.                               *)
Idle == pc \in {"down", "failed"}

Start ==
  /\ Idle /\ Go("start")
  /\ UNCHANGED <<mem, run, snap, db, row, asset, logs, files, item, budget>>

StartWithoutFlag ==
  /\ Idle /\ budget.errors < MaxErrors
  /\ Go("noflag")
  /\ budget' = [budget EXCEPT !.errors = @ + 1]
  /\ UNCHANGED <<mem, run, snap, db, row, asset, logs, files, item>>

(* A signal or a crash: what the worker wrote is in the page cache.          *)
Stop ==
  /\ pc \notin {"down", "failed"} /\ budget.stops < MaxStops
  /\ Go("down") /\ mem' = NoMem
  /\ run' \in RunAfter /\ snap' \in SnapAfter
  /\ plan' \in PlanAfter(FALSE) /\ backplan' \in BackplanAfter(FALSE)
  /\ jr' \in JournalAfter
  /\ stg' \in StagingAfter
  /\ budget' = [budget EXCEPT !.stops = @ + 1]
  /\ UNCHANGED <<db, row, asset, ckpt, dst, ino, unsynced, loose, item>>

(* A power loss, at any time: what was not forced out may be gone.           *)
PowerLoss ==
  /\ budget.power < MaxPowerLoss
  /\ Go("down") /\ mem' = NoMem
  /\ run' \in RunAfter /\ snap' \in SnapAfter
  /\ plan' \in PlanAfter(TRUE) /\ backplan' \in BackplanAfter(TRUE)
  /\ jr' \in JournalAfter
  /\ \E s \in StagingAfter : FilesLost(s)
  /\ unsynced' = {} /\ loose' = AllNamed
  /\ item' \in ItemsAfter(TRUE)
  /\ budget' = [budget EXCEPT !.power = @ + 1]
  /\ UNCHANGED <<db, row, asset, ckpt, ino>>

(* Between two starts a published file is lost, damaged, or put back from a  *)
(* copy.                                                                     *)
Damage ==
  /\ At("down") /\ budget.damage < MaxDamage
  /\ \E i \in Images, d \in {"none", "bad", "good"} :
       /\ dst[i] = "good" /\ row[i] = "new"
       /\ dst' = [dst EXCEPT ![i] = d]
       /\ ino' = IF d = "good" THEN [ino EXCEPT ![i] = budget.damage + 1]
                 ELSE ino
  /\ budget' = [budget EXCEPT !.damage = @ + 1]
  /\ UNCHANGED <<pc, mem, run, snap, db, row, asset, logs, stg, unsynced, loose,
                 item>>

----------------------------------------------------------------------------
(* An old installation, of the former schema (where a start may have left    *)
(* its marker) or of this one, or the old directories without a database.    *)
Installed(i) ==
  IF ~db.exists THEN "gone" ELSE IF i \in InPlace THEN "new" ELSE "old"

Init ==
  /\ pc = "down" /\ mem = NoMem /\ run = NoRun
  /\ db \in [exists : BOOLEAN, schema : {"old", "new"}, marker : BOOLEAN]
  /\ db.schema = "new" => db.exists /\ ~db.marker
  /\ db.marker => db.exists
  /\ row = [i \in Images |-> Installed(i)]
  /\ snap = NoSnap
  /\ asset = {} /\ plan = NoPlan /\ backplan = NoBackplan
  /\ jr = NoJournal /\ ckpt = 0
  /\ stg = [i \in Images |-> "none"]
  /\ dst = [i \in Images |->
              IF db.exists /\ i \in InPlace THEN "good" ELSE "none"]
  /\ ino = [i \in Images |-> 0]
  /\ unsynced = {} /\ loose = AllNamed
  /\ item = [k \in Items |-> "there"]
  /\ budget = [stops |-> 0, power |-> 0, damage |-> 0, errors |-> 0]

SnapshotStep ==
  \/ Inspect \/ PrepareNoFlag \/ CreateRun \/ AdoptRun \/ Prepare
  \/ Snapshot \/ CopyDatabase \/ WriteReceipt \/ PromoteSnapshot
  \/ CleanupOrphans \/ EndSnapshot

PlanStep ==
  \/ PrepareLocks \/ Migrate \/ Converge
  \/ OpenManifest \/ RecoverIncompletePlan \/ WriteFrozenPlan
  \/ OpenJournal \/ RecordAttempt \/ FreezeTotals \/ PersistMedia
  \/ StartCopying

PathStep ==
  \/ StartPaths \/ VerifyBatch \/ RepairCheckpoint
  \/ MendBatch \/ MendStage \/ MendSync \/ MendReplace \/ MendLog
  \/ ResumeBatch \/ NextBatch \/ StageFile \/ StageFails \/ SyncFiles
  \/ PublishFile \/ SyncDirectories \/ AnnounceBatch \/ SwitchRows
  \/ CommitBatch \/ ClosePaths \/ EndPaths

RegistryStep ==
  \/ OpenBackfill \/ RecoverIncompleteBackfill \/ WriteBackfillPlan
  \/ BindBackfill \/ PersistBackfill \/ StartRegistry \/ WalkBatch
  \/ AnnounceRegistry \/ RegisterBatch \/ CommitRegistry \/ CloseRegistry
  \/ CompleteRegistry \/ RegistryCheckpoint \/ EndRegistry

ArchiveStep ==
  \/ PrepareArchive \/ MoveItem \/ SyncItem \/ RecordItem
  \/ CompleteSummary \/ CompleteState \/ RuntimeCheck

WorkerStep ==
  SnapshotStep \/ PlanStep \/ PathStep \/ RegistryStep \/ ArchiveStep

MachineStep == Start \/ StartWithoutFlag \/ Stop \/ PowerLoss \/ Damage

Next == WorkerStep \/ MachineStep

Spec == Init /\ [][Next]_vars

(* The worker goes on while it runs, and the container is started again      *)
(* after it has stopped (its restart policy, or the operator).               *)
Fairness == WF_vars(WorkerStep) /\ WF_vars(Start)
FairSpec == Spec /\ Fairness

----------------------------------------------------------------------------
TypeOK ==
  /\ mem \in [batch : SUBSET Images, todo : SUBSET Images,
              repaired : BOOLEAN, fast : BOOLEAN]
  /\ run \in [dir : Dirs, phase : RunPhases, media : BOOLEAN, back : BOOLEAN,
              progress : 0..M, intent : 0..M, summary : {"none", "complete"}]
  /\ snap \in [temp : Written, final : {"none", "full"}, receipt : Written,
               rows : [Images -> {"old", "new", "gone"}],
               schema : {"old", "new"}]
  /\ db \in [exists : BOOLEAN, schema : {"old", "new"}, marker : BOOLEAN]
  /\ row \in [Images -> {"old", "new", "gone"}]
  /\ asset \subseteq Images
  /\ plan \in [file : PlanFiles, images : SUBSET Images]
  /\ backplan \in [file : PlanFiles, images : SUBSET Images,
                   ino : [Images -> 0..MaxDamage]]
  /\ jr \in [made : BOOLEAN, torn : BOOLEAN, attempts : 0..2, totals : BOOLEAN,
             bound : BOOLEAN, proj : Nat, done : SUBSET LogPhases,
             intent : [LogPhases -> SUBSET Images],
             commit : [LogPhases -> SUBSET Images],
             ino : [LogPhases -> [Images -> 0..MaxDamage]]]
  /\ ckpt \in Nat
  /\ stg \in [Images -> Written]
  /\ dst \in [Images -> {"none", "good", "bad"}]
  /\ ino \in [Images -> 0..MaxDamage]
  /\ unsynced \subseteq Images
  /\ loose \in [Images -> {"no", "renamed", "unlinked"}]
  /\ item \in [Items -> {"there", "moved", "archived"}]
  /\ budget \in [stops : 0..MaxStops, power : 0..MaxPowerLoss,
                 damage : 0..MaxDamage, errors : 0..MaxErrors]

(* A row never names a file that a power loss could still take: the copy and *)
(* its name have reached the disk before the row is switched, and nothing    *)
(* but damage from outside undoes that (README: "power-loss safe").          *)
RowsNameDurableFiles ==
  budget.damage = 0 =>
    \A i \in Images : row[i] = "new" =>
      /\ dst[i] = "good" /\ loose[i] # "renamed"
      /\ i \in unsynced => i \in InPlace

(* From the moment a row of an old installation is removed or switched there *)
(* is a complete copy of the database as it was before the first start, and  *)
(* no start ever replaces it.                                                *)
PristineBackup ==
  (\E i \in Images : row[i] # "gone") =>
    \A i \in Images : row[i] # Installed(i) =>
      /\ snap.final = "full" /\ snap.receipt = "full" /\ snap.temp = "none"
      /\ \A k \in Images : snap.rows[k] = Installed(k)

(* Journal and tables never disagree on a batch: what is committed is        *)
(* switched or registered, nothing is that was not announced, and the open   *)
(* batch is as a whole before or after its transaction, so that a restarted  *)
(* worker can tell which.                                                    *)
JournalAgrees ==
  /\ \A i \in jr.commit["paths"] : row[i] = "new"
  /\ \A i \in Images \ InPlace : row[i] = "new" => i \in jr.intent["paths"]
  /\ jr.commit["backfill"] \ Skipped \subseteq asset
  /\ asset \subseteq jr.intent["backfill"]
  /\ Open(jr, "paths") # {} => Recovered(Open(jr, "paths")) # "conflict"
  /\ LET b == Open(jr, "backfill") IN Unregistered(b) \/ Registered(b)

(* What the state file records as archived has left its place for good, and  *)
(* of a completed run the summary says so.                                   *)
ArchiveRecordHolds ==
  /\ \A k \in 1..run.progress : item[k] = "archived"
  /\ run.phase = "complete" =>
       run.progress = M /\ run.summary = "complete"

(* What the two records of the migration say, of the batches and of the old  *)
(* directories, is so, however often the worker was stopped.                 *)
RecordsHold == JournalAgrees /\ ArchiveRecordHolds

(* The whole is a MediaCutover.  The application may run once a start has    *)
(* ended, and at any later time that the marker in the database lets a start *)
(* skip the checks: the marker must vouch for a finished migration.          *)
Cutover ==
  INSTANCE MediaCutover
    WITH Registrable <- Images \ Skipped,
         old <- {i \in Images : row[i] = "old"},
         switched <- {i \in Images : row[i] = "new"},
         registered <- asset, archived <- run.progress,
         complete <- run.phase = "complete",
         open <- pc = "done" \/ Validated
ImplementsMediaCutover == Cutover!CutoverSpec

(* What no later start goes on from: the torn writes that the code refuses.  *)
Wedged ==
  \/ \E i \in Images : stg[i] = "partial"
  \/ run.dir = "creating" \/ snap.receipt = "partial"
  \/ plan.file = "prefix" \/ budget.damage > 0

(* Unless a stop cuts one of those writes, the application starts in the     *)
(* end, however often and wherever the worker was stopped.                   *)
StartsInTheEnd == <>(pc = "done") \/ <>[]Wedged

(* What the documents promise and the code does not keep.                    *)

(* "Only a prefix of the plan, before its completion marker, is planned      *)
(* again in the same run" (recover_incomplete_auto_v2_plan).                 *)
PrefixIsReplanned == plan.file = "prefix" ~> plan.file = "frozen"

(* "A normal stop/restart resumes from the last confirmed batch" (README).   *)
StopsOnlyDelay == <>(pc = "done")
=============================================================================
