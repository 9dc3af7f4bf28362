--------------------------- MODULE LegacySnapshot ---------------------------
(* Before anything changes: the run's directory and state file               *)
(* (migration_state.py), the copy of the database with its receipt           *)
(* (sqlite_snapshot.py) and, behind that copy, the removal of rows whose     *)
(* file is missing and that no pin shows (startup_preflight.py).             *)
EXTENDS LegacyDisk

NoRun == [dir |-> "none", phase |-> "initialized", media |-> FALSE,
          back |-> FALSE, progress |-> 0, intent |-> 0, summary |-> "none"]
NoSnap == [temp |-> "none", final |-> "none", receipt |-> "none",
           rows |-> row, schema |-> db.schema]

Incomplete == run.dir # "none" /\ run.phase # "complete"

(* inspect_legacy_evidence: old paths, old directories, orphaned rows.       *)
OrphanRows == {i \in Orphans : row[i] = "old"}
LegacyEvidence ==
  \/ \E i \in Images \ InPlace : row[i] = "old"
  \/ \E k \in Items : item[k] = "there"
RequiresMigration == LegacyEvidence \/ (db.exists /\ db.schema = "old")

(* inspect_startup_validation: a current marker lets a start skip the checks.*)
Validated == db.marker /\ db.schema = "new"

----------------------------------------------------------------------------
(* prepare_before_schema, its beginning: a completed run must have its       *)
(* summary; a valid marker makes a fast start unless a run is incomplete;    *)
(* scan_run_inventory refuses a directory without a state file.              *)
Inspect ==
  /\ At("start")
  /\ mem' = [NoMem EXCEPT !.fast = Validated /\ ~Incomplete]
  /\ IF run.dir = "ready" /\ run.phase = "complete"
     THEN IF run.summary # "complete" THEN Fail
          ELSE Go(IF mem'.fast THEN "runtime" ELSE "schema")
     ELSE IF mem'.fast THEN Go("runtime")
     ELSE IF run.dir = "creating" THEN Fail
     ELSE IF run.dir = "none"
     THEN Go(IF RequiresMigration THEN "create" ELSE "schema")
     ELSE Go("adopt")
  /\ UNCHANGED <<run, snap, db, row, asset, logs, files, item, budget>>

(* prepare_no_flag: without the migration flag a start refuses to begin or   *)
(* to go on with a migration.                                                *)
PrepareNoFlag ==
  /\ At("noflag")
  /\ mem' = [NoMem EXCEPT !.fast = Validated]
  /\ IF Incomplete THEN Fail
     ELSE IF Validated THEN Go("runtime")
     ELSE IF LegacyEvidence THEN Fail
     ELSE Go("schema")
  /\ UNCHANGED <<run, snap, db, row, asset, logs, files, item, budget>>

(* resolve_or_create_run: the state is written in a directory with a         *)
(* temporary name.                                                           *)
CreateRun ==
  /\ At("create")
  /\ run' = [NoRun EXCEPT !.dir = "stated"]
  /\ Go("adopt")
  /\ UNCHANGED <<mem, snap, db, row, asset, logs, files, item, budget>>

(* ... which is renamed, now or by the next scan.                            *)
AdoptRun ==
  /\ At("adopt")
  /\ run' = [run EXCEPT !.dir = "ready"]
  /\ Go("prepare")
  /\ UNCHANGED <<mem, snap, db, row, asset, logs, files, item, budget>>

(* What a stop leaves of it.                                                 *)
RunAfter ==
  IF At("create") /\ "run" \in StopAt
  THEN {run, [NoRun EXCEPT !.dir = "creating"]} ELSE {run}

(* prepare_before_schema over the phases.                                    *)
Prepare ==
  /\ At("prepare")
  /\ run' = IF run.phase = "initialized" /\ db.exists
            THEN [run EXCEPT !.phase = "snapshot_intent"] ELSE run
  /\ Go(CASE run'.phase = "snapshot_intent" -> "snapshot"
          [] run.phase \in {"snapshot_complete", "schema_complete"} -> "cleanup"
          [] OTHER -> "locks")
  /\ UNCHANGED <<mem, snap, db, row, asset, logs, files, item, budget>>

----------------------------------------------------------------------------
(* Mutant: a copy that is already there is made again.                       *)
ResumeSnapshot_Again(s) ==
  IF s.final # "none" /\ s.temp # "none" THEN "conflict"
  ELSE IF s.receipt # "none" /\ s.temp # "none"
  THEN (IF s.receipt = "full" THEN "promote" ELSE "conflict")
  ELSE IF s.temp # "none" THEN "discard" ELSE "copy"

(* snapshot_sqlite: what the files of an earlier start call for.             *)
ResumeSnapshot(s) ==
  IF s.final # "none" /\ s.temp # "none" THEN "conflict"
  ELSE IF s.receipt # "none"
  THEN IF s.receipt = "full" /\ s.final # "none" THEN "kept"
       ELSE IF s.receipt = "full" /\ s.temp = "full" THEN "promote"
       ELSE "conflict"
  ELSE IF s.final # "none" THEN "kept"
  ELSE IF s.temp # "none" THEN "discard" ELSE "copy"

Snapshot ==
  /\ At("snapshot")
  /\ LET next == ResumeSnapshot(snap)
     IN  /\ snap' = IF next = "discard" THEN [snap EXCEPT !.temp = "none"]
                    ELSE snap
         /\ CASE next = "conflict" -> Fail
              [] next = "kept" -> Go("cleanup")
              [] next = "discard" -> UNCHANGED pc
              [] OTHER -> Go(next)
  /\ UNCHANGED <<mem, run, db, row, asset, logs, files, item, budget>>

(* _create_snapshot_temp and _verified_held_snapshot: an online backup,      *)
(* fsynced and checked.                                                      *)
CopyDatabase ==
  /\ At("copy")
  /\ snap' = [snap EXCEPT !.temp = "full", !.rows = row, !.schema = db.schema]
  /\ Go("receipt")
  /\ UNCHANGED <<mem, run, db, row, asset, logs, files, item, budget>>

(* _create_private_receipt                                                   *)
WriteReceipt ==
  /\ At("receipt")
  /\ snap' = [snap EXCEPT !.receipt = "full"]
  /\ Go("promote")
  /\ UNCHANGED <<mem, run, db, row, asset, logs, files, item, budget>>

(* _finish_receipted_snapshot: the copy fits its receipt; _promote_snapshot  *)
PromoteSnapshot ==
  /\ At("promote")
  /\ snap' = [snap EXCEPT !.temp = "none", !.final = "full"]
  /\ Go("cleanup")
  /\ UNCHANGED <<mem, run, db, row, asset, logs, files, item, budget>>

(* What a stop leaves of the copy or of the receipt.                         *)
SnapAfter ==
  IF At("copy") THEN {snap, [snap EXCEPT !.temp = "partial"]}
  ELSE IF At("receipt") /\ "receipt" \in StopAt
  THEN {snap, [snap EXCEPT !.receipt = "partial"]} ELSE {snap}

----------------------------------------------------------------------------
(* _media_plan_not_started                                                   *)
PlanNotStarted == ~run.media /\ plan.file = "none"

(* protect_orphan_cleanup and open_verified_completed_sqlite_snapshot: the   *)
(* removal commits only while a complete copy of the database is held.       *)
BackupHeld ==
  snap.final = "full" /\ snap.receipt = "full" /\ snap.temp = "none"

(* _cleanup_missing_unreferenced_images over                                 *)
(* remove_confirmed_missing_unreferenced_images: one transaction.            *)
CleanupOrphans ==
  /\ At("cleanup")
  /\ IF OrphanRows = {} \/ ~PlanNotStarted THEN Go("cleaned") /\ UNCHANGED row
     ELSE IF BackupHeld
     THEN /\ row' = [i \in Images |-> IF i \in OrphanRows THEN "gone" ELSE row[i]]
          /\ Go("cleaned")
     ELSE Fail /\ UNCHANGED row
  /\ UNCHANGED <<mem, run, snap, db, asset, logs, files, item, budget>>

(* The transition to snapshot_complete.                                      *)
EndSnapshot ==
  /\ At("cleaned")
  /\ run' = IF run.phase = "snapshot_intent"
            THEN [run EXCEPT !.phase = "snapshot_complete"] ELSE run
  /\ Go("locks")
  /\ UNCHANGED <<mem, snap, db, row, asset, logs, files, item, budget>>
=============================================================================
