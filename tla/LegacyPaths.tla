---------------------------- MODULE LegacyPaths -----------------------------
(* The path phase (media_migration_v2.py): every image's file is copied into *)
(* a staging file, the copies of a batch are forced to the disk, renamed to  *)
(* their canonical paths, announced in the journal, switched in the          *)
(* database in one transaction and committed in the journal.  What a stopped *)
(* worker left is recognised by the next one from its second attempt on.     *)
EXTENDS MigrationJournal

NoPlan == [file |-> "none", images |-> {}]

Rows == {i \in Images : row[i] # "gone"}

----------------------------------------------------------------------------
(* The frozen plan.                                                          *)

(* AutoV2ManifestLog.open and _load_state, as run(execute=False) reads them: *)
(* nothing yet, an incomplete prefix, or a frozen plan.                      *)
OpenManifest ==
  /\ At("plan")
  /\ plan' = IF plan.file = "none" THEN [plan EXCEPT !.file = "empty"] ELSE plan
  /\ CASE plan.file \in {"none", "empty"} -> Go("freeze")
       [] plan.file = "frozen" -> Go("journal")
       [] OTHER -> IF run.phase = "schema_complete" /\ ~run.media
                   THEN Go("replan") ELSE Fail
  /\ UNCHANGED <<mem, run, snap, db, row, asset, backplan, jr, ckpt, files,
                 item, budget>>

(* recover_incomplete_auto_v2_plan: a torn first line goes; a prefix of      *)
(* "planned_skeleton" lines is refused, because _reset_incomplete_plan only  *)
(* knows the "planned" lines of the format before.                           *)
Resettable(file) == file = "torn"
RecoverIncompletePlan ==
  /\ At("replan")
  /\ IF Resettable(plan.file)
     THEN plan' = [plan EXCEPT !.file = "empty"] /\ Go("plan")
     ELSE Fail /\ UNCHANGED plan
  /\ UNCHANGED <<mem, run, snap, db, row, asset, backplan, jr, ckpt, files,
                 item, budget>>

(* _freeze_all_plans: every row's file must be there.                        *)
Plannable == \A i \in Rows : SourceThere(i)

(* write_frozen_plan: a line for each image, the end marker, one fsync.      *)
WriteFrozenPlan ==
  /\ At("freeze")
  /\ IF Plannable
     THEN plan' = [file |-> "frozen", images |-> Rows] /\ Go("plan")
     ELSE Fail /\ UNCHANGED plan
  /\ UNCHANGED <<mem, run, snap, db, row, asset, backplan, jr, ckpt, files,
                 item, budget>>

(* What a stop leaves of the plan being written; after a power loss any of   *)
(* its unsynced content may be there.                                        *)
PartialPlans ==
  {"empty", "torn"} \cup IF Rows # {} THEN {"prefix"} ELSE {}
PlanAfter(power) ==
  IF At("freeze") /\ Plannable /\ "plan" \in StopAt
  THEN {[file |-> f, images |-> {}] : f \in PartialPlans} \cup
       IF power THEN {[file |-> "frozen", images |-> Rows]} ELSE {}
  ELSE {plan}

----------------------------------------------------------------------------
(* The rows of a batch hold the old paths, or the new ones.  A file that is  *)
(* in place has one path, which is both.                                     *)
PreSigned(b) == \A i \in b : row[i] = IF i \in InPlace THEN "new" ELSE "old"
PostSigned(b) == \A i \in b : row[i] = "new"
Recovered(b) ==
  Recovery(PreSigned(b), PostSigned(b), b \subseteq jr.commit["paths"])

(* _validate_image_plan_closure: the plan and the tables name the same rows. *)
PlanCloses == plan.images = Rows

(* _execute_linear, its beginning: the closure, the open batch's rows, then  *)
(* the committed batches.                                                    *)
StartPaths ==
  /\ At("paths")
  /\ IF /\ PlanCloses
        /\ Open(jr, "paths") # {} => Recovered(Open(jr, "paths")) # "conflict"
     THEN /\ mem' = [NoMem EXCEPT !.todo = jr.commit["paths"]]
          /\ Go("verify")
     ELSE Fail /\ UNCHANGED mem
  /\ UNCHANGED <<run, snap, db, row, asset, logs, files, item, budget>>

----------------------------------------------------------------------------
(* _verify_committed_destinations and _verify_and_repair_batch.              *)
Good(i) == dst[i] = "good"
Sound(p, b) == \A i \in b : Good(i) /\ ino[i] = jr.ino[p][i]

AllVerified ==
  IF "paths" \in jr.done
  THEN Go(IF mem.repaired THEN "recheck" ELSE "pathsdone")
  ELSE Go("batch")

VerifyBatch ==
  /\ At("verify")
  /\ IF mem.todo = {} THEN AllVerified /\ UNCHANGED mem
     ELSE LET b == BlockOf(First(mem.todo), plan.images)
          IN  IF Sound("paths", b)
              THEN mem' = [mem EXCEPT !.todo = @ \ b] /\ UNCHANGED pc
              ELSE mem' = [mem EXCEPT !.batch = b] /\ Go("mend")
  /\ UNCHANGED <<run, snap, db, row, asset, logs, files, item, budget>>

(* write_checkpoint after repairs in a completed phase.                      *)
RepairCheckpoint ==
  /\ At("recheck")
  /\ IF CheckpointAhead THEN Fail /\ UNCHANGED ckpt
     ELSE WriteCheckpoint /\ Go("pathsdone")
  /\ UNCHANGED <<mem, run, snap, db, row, asset, plan, backplan, jr, files,
                 item, budget>>

Broken == {i \in mem.batch : ~Good(i)}

Unsound == {i \in mem.batch : ~Good(i) \/ ino[i] # jr.ino["paths"][i]}

(* _require_unchanged_source: a file in place is its own source.             *)
SourceUnchanged(i) == SourceThere(i) /\ (i \in InPlace => ino[i] = 0)

(* Receipt by receipt: a file that is whole but another inode only needs its *)
(* source, one that is not is copied again.                                  *)
MendBatch ==
  /\ At("mend")
  /\ LET upto == IF Broken = {} THEN Unsound
                 ELSE {i \in Unsound : i <= First(Broken)}
     IN  IF Unsound = {} THEN Go("resume")
         ELSE IF \E i \in upto : ~SourceUnchanged(i) THEN Fail
         ELSE Go(IF Broken = {} THEN "mendlog" ELSE "mendstage")
  /\ UNCHANGED <<mem, run, snap, db, row, asset, logs, files, item, budget>>

(* _open_existing_linear_staging: on a resumed attempt a staging file of the *)
(* planned size is used as it is, another one is refused.                    *)
MayStage(i) ==
  IF Resuming THEN stg[i] # "partial" ELSE stg[i] = "none"

(* _prepare_linear_file and _stream_source_to_staging_and_inspect            *)
Staged(i) ==
  /\ stg' = [stg EXCEPT ![i] = "full"]
  /\ unsynced' = IF stg[i] = "none" THEN unsynced \cup {i} ELSE unsynced

MendStage ==
  /\ At("mendstage")
  /\ LET i == First(Broken)
     IN  IF MayStage(i) THEN Staged(i) /\ Go("mendsync")
         ELSE Fail /\ UNCHANGED <<stg, unsynced>>
  /\ UNCHANGED <<mem, run, snap, db, row, asset, logs, dst, ino, loose, item,
                 budget>>

(* _sync_staging_devices: syncfs reaches every file and every name.          *)
AllNamed == [i \in Images |-> "no"]
Synced == unsynced' = {} /\ loose' = AllNamed

MendSync ==
  /\ At("mendsync") /\ Synced /\ Go("mendreplace")
  /\ UNCHANGED <<mem, run, snap, db, row, asset, logs, stg, dst, ino, item,
                 budget>>

(* replace_preverified_destination, and the directories' fsync: damage is    *)
(* counted so that a new file has an inode of its own.                       *)
MendReplace ==
  /\ At("mendreplace")
  /\ LET i == First(Broken)
     IN  /\ stg' = [stg EXCEPT ![i] = "none"]
         /\ dst' = [dst EXCEPT ![i] = "good"]
         /\ ino' = [ino EXCEPT ![i] = budget.damage]
  /\ Go("mend")
  /\ UNCHANGED <<mem, run, snap, db, row, asset, logs, unsynced, loose, item,
                 budget>>

MendLog ==
  /\ At("mendlog")
  /\ jr' = IF NeedsRepairEntry(jr, "paths", mem.batch, ino)
           THEN Repaired(jr, "paths", mem.batch, ino) ELSE jr
  /\ mem' = [mem EXCEPT !.repaired = TRUE]
  /\ Go("resume")
  /\ UNCHANGED <<run, snap, db, row, asset, plan, backplan, ckpt, files, item,
                 budget>>

(* A committed batch goes back to the verification; an open one is resumed   *)
(* (_resume_intent_batch).                                                   *)
ResumeBatch ==
  /\ At("resume")
  /\ IF mem.batch \subseteq jr.commit["paths"]
     THEN mem' = [mem EXCEPT !.todo = @ \ mem.batch] /\ Go("verify")
     ELSE /\ UNCHANGED mem
          /\ CASE Recovered(mem.batch) = "append_commit" -> Go("commit")
               [] Recovered(mem.batch) = "reexecute" -> Go("apply")
               [] OTHER -> Fail
  /\ UNCHANGED <<run, snap, db, row, asset, logs, files, item, budget>>

----------------------------------------------------------------------------
(* The batches.                                                              *)
Pending == plan.images \ jr.commit["paths"]

(* _execute_linear, its loop: an announced batch is resumed, another begun.  *)
NextBatch ==
  /\ At("batch")
  /\ LET b == Batch(Pending)
     IN  IF b = {} THEN Go("closure") /\ UNCHANGED mem
         ELSE /\ mem' = [mem EXCEPT !.batch = b, !.todo = b]
              /\ Go(IF b \subseteq jr.intent["paths"] THEN "mend" ELSE "stage")
  /\ UNCHANGED <<run, snap, db, row, asset, logs, files, item, budget>>

NextTodo == mem' = [mem EXCEPT !.todo = @ \ {First(@)}]

(* _discard_prepared: the staging files of the batch so far go, and with     *)
(* them what a later attempt could have resumed.                             *)
Prepared == mem.batch \ mem.todo
Discard(held) ==
  /\ stg' = [k \in Images |-> IF k \in held THEN "none" ELSE stg[k]]
  /\ unsynced' = unsynced \ held

(* _prepare_path_files                                                       *)
StageFile ==
  /\ At("stage") /\ mem.todo # {}
  /\ LET i == First(mem.todo)
     IN  IF SourceThere(i) /\ MayStage(i)
         THEN Staged(i) /\ NextTodo /\ UNCHANGED pc
         ELSE Fail /\ Discard(Prepared) /\ UNCHANGED mem
  /\ UNCHANGED <<run, snap, db, row, asset, logs, dst, ino, loose, item,
                 budget>>

(* A copy fails for want of space: its own staging file goes too.            *)
StageFails ==
  /\ At("stage") /\ mem.todo # {} /\ budget.errors < MaxErrors
  /\ LET i == First(mem.todo)
     IN  stg[i] = "none" /\ Discard(Prepared \cup {i})
  /\ Fail
  /\ budget' = [budget EXCEPT !.errors = @ + 1]
  /\ UNCHANGED <<mem, run, snap, db, row, asset, logs, dst, ino, loose, item>>

(* Mutant: the copies are published before they have reached the disk.       *)
SyncFiles_NoSync ==
  /\ At("stage") /\ mem.todo = {}
  /\ UNCHANGED <<unsynced, loose>>
  /\ mem' = [mem EXCEPT !.todo = mem.batch]
  /\ Go("publish")
  /\ UNCHANGED <<run, snap, db, row, asset, logs, stg, dst, ino, item, budget>>

SyncFiles ==
  /\ At("stage") /\ mem.todo = {}
  /\ Synced
  /\ mem' = [mem EXCEPT !.todo = mem.batch]
  /\ Go("publish")
  /\ UNCHANGED <<run, snap, db, row, asset, logs, stg, dst, ino, item, budget>>

(* _publish_batch_and_sync_directories: a file in place only loses its copy; *)
(* a destination that is already there is taken if the attempt resumes and   *)
(* its content is the copy's (_rehash_resume_candidate).                     *)
Adoptable(i) == Resuming /\ dst[i] = "good"
PublishFile ==
  /\ At("publish") /\ mem.todo # {}
  /\ LET i == First(mem.todo)
     IN  IF i \in InPlace \/ dst[i] = "none" \/ Adoptable(i)
         THEN /\ stg' = [stg EXCEPT ![i] = "none"]
              /\ dst' = [dst EXCEPT ![i] =
                          IF @ = "none" /\ i \notin InPlace THEN "good" ELSE @]
              /\ loose' = [loose EXCEPT ![i] =
                     IF i \notin InPlace /\ dst[i] = "none" THEN "renamed"
                     ELSE "unlinked"]
              /\ NextTodo /\ UNCHANGED pc
         ELSE Fail /\ UNCHANGED <<mem, stg, dst, loose>>
  /\ UNCHANGED <<run, snap, db, row, asset, logs, ino, unsynced, item, budget>>

SyncDirectories ==
  /\ At("publish") /\ mem.todo = {}
  /\ loose' = AllNamed
  /\ Go("intent")
  /\ UNCHANGED <<mem, run, snap, db, row, asset, logs, stg, dst, ino, unsynced,
                 item, budget>>

(* _verify_published_identities, _current_batch_signature and                *)
(* _verify_source_name_identities, then append_intent.                       *)
AnnounceBatch ==
  /\ At("intent")
  /\ IF /\ \A i \in mem.batch : dst[i] # "none" /\ SourceThere(i)
        /\ PreSigned(mem.batch)
        /\ IntentFollows(jr, "paths", mem.batch)
     THEN jr' = IntentAppended(jr, "paths", mem.batch, ino) /\ Go("apply")
     ELSE Fail /\ UNCHANGED jr
  /\ UNCHANGED <<mem, run, snap, db, row, asset, plan, backplan, ckpt, files,
                 item, budget>>

(* Mutant: the rows are switched one by one, not in one transaction.         *)
SwitchRows_OneByOne ==
  /\ At("apply")
  /\ LET left == {i \in mem.batch : row[i] = "old"}
     IN  IF left # {}
         THEN /\ row' = [row EXCEPT ![First(left)] = "new"]
              /\ UNCHANGED pc
         ELSE UNCHANGED row /\ Go("commit")
  /\ UNCHANGED <<mem, run, snap, db, asset, logs, files, item, budget>>

(* _verify_published_identities: the device, inode and size of each file,    *)
(* not its content.                                                          *)
Identified(b) == \A i \in b : dst[i] # "none" /\ ino[i] = jr.ino["paths"][i]

(* _apply_database_batch: one transaction.                                   *)
SwitchRows ==
  /\ At("apply")
  /\ IF PreSigned(mem.batch) /\ Identified(mem.batch)
     THEN /\ row' = [i \in Images |-> IF i \in mem.batch THEN "new" ELSE row[i]]
          /\ Go("commit")
     ELSE Fail /\ UNCHANGED row
  /\ UNCHANGED <<mem, run, snap, db, asset, logs, files, item, budget>>

CommitBatch ==
  /\ At("commit")
  /\ IF CanCommit(jr, "paths", mem.batch)
     THEN jr' = Committed(jr, "paths", mem.batch) /\ Go("batch")
     ELSE Fail /\ UNCHANGED jr
  /\ UNCHANGED <<mem, run, snap, db, row, asset, plan, backplan, ckpt, files,
                 item, budget>>

(* The closure again, then append_phase_complete.                            *)
ClosePaths ==
  /\ At("closure")
  /\ IF PlanCloses /\ CanComplete(jr, "paths")
     THEN jr' = PhaseCompleted(jr, "paths") /\ Go("recheck")
     ELSE Fail /\ UNCHANGED jr
  /\ UNCHANGED <<mem, run, snap, db, row, asset, plan, backplan, ckpt, files,
                 item, budget>>

----------------------------------------------------------------------------
(* What a stop leaves of a copy under way: nothing, or a staging file that   *)
(* is not whole, or not yet the service account's.                           *)
Copying == (At("stage") /\ mem.todo # {}) \/ At("mendstage")
CopyingOf == IF At("stage") THEN First(mem.todo) ELSE First(Broken)
StagingAfter ==
  IF Copying /\ stg[CopyingOf] = "none" /\ "staging" \in StopAt
  THEN {stg, [stg EXCEPT ![CopyingOf] = "partial"]} ELSE {stg}

(* After a power loss a copy that was not forced out may be cut short (it is *)
(* the staging file, or what was published of it), and a rename or an unlink *)
(* whose directory was not synced may not have happened.  Assumption on the  *)
(* file system: a file only gets its full size once its content is written.  *)
(* A resumed attempt would not notice a full-size staging file of other      *)
(* content, whose hash it takes from the file itself.                        *)
CutShort(i, file) ==
  {file} \cup IF i \in unsynced
             THEN CASE file = "full" -> {"none", "partial"}
                    [] file = "good" -> {"bad"}
                    [] OTHER -> {}
             ELSE {}
FileLost(i, now, s, d) ==
  \/ /\ s \in CutShort(i, now)
     /\ d \in IF i \in InPlace \/ now # "none" THEN {dst[i]}
              ELSE CutShort(i, dst[i])
  \/ loose[i] = "renamed" /\ s \in CutShort(i, "full") /\ d = "none"
  \/ loose[i] = "unlinked" /\ s = "full" /\ d = dst[i]
AtRisk == unsynced \cup {i \in Images : loose[i] # "no"}
FilesLost(now) ==
  \E s \in [AtRisk -> Written], d \in [AtRisk -> {"none", "good", "bad"}] :
    /\ \A i \in AtRisk : FileLost(i, now[i], s[i], d[i])
    /\ stg' = [i \in Images |-> IF i \in AtRisk THEN s[i] ELSE now[i]]
    /\ dst' = [i \in Images |-> IF i \in AtRisk THEN d[i] ELSE dst[i]]
=============================================================================
