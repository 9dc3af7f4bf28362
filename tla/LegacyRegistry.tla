--------------------------- MODULE LegacyRegistry ---------------------------
(* The registry phase (core/services/media_asset_backfill.py): once every    *)
(* path is switched, each image is planned again with the identity of its    *)
(* file, and registered batch by batch, in one transaction each, unless the  *)
(* plan found a reason to skip it.  On every start all batches are walked    *)
(* from the first.                                                           *)
EXTENDS MigrationJournal

NoBackplan ==
  [file |-> "none", images |-> {}, ino |-> [i \in Images |-> 0]]

BackRows == {i \in Images : row[i] # "gone"}

(* _BackfillManifestLog.open and _load_state, in run(execute=False), after   *)
(* the check that the path phase is complete.                                *)
OpenBackfill ==
  /\ At("backopen")
  /\ backplan' = IF "paths" \in jr.done /\ backplan.file = "none"
                 THEN [backplan EXCEPT !.file = "empty"] ELSE backplan
  /\ IF "paths" \notin jr.done THEN Fail
     ELSE CASE backplan.file \in {"none", "empty"} -> Go("backfreeze")
            [] backplan.file = "frozen" -> Go("bind")
            [] OTHER -> IF run.back THEN Fail ELSE Go("backreplan")
  /\ UNCHANGED <<mem, run, snap, db, row, asset, plan, jr, ckpt, files, item,
                 budget>>

(* recover_incomplete_media_asset_plan: any prefix of "planned" lines goes.  *)
RecoverIncompleteBackfill ==
  /\ At("backreplan")
  /\ backplan' = [backplan EXCEPT !.file = "empty"]
  /\ Go("backopen")
  /\ UNCHANGED <<mem, run, snap, db, row, asset, plan, jr, ckpt, files, item,
                 budget>>

(* _decisions over _structural_reason: what a plan says of an image.         *)
ToRegister(b) == b \ Skipped

(* _open_receipt_candidate_resources: the file the path phase's receipt names.*)
ReceiptHolds(i) == dst[i] = "good" /\ ino[i] = jr.ino["paths"][i]

(* _freeze_all_plans: the images of the receipts and of the table are the    *)
(* same, and each file that will be registered is the one its receipt names. *)
BackPlannable ==
  /\ BackRows = jr.commit["paths"]
  /\ \A i \in ToRegister(BackRows) : ReceiptHolds(i)

WriteBackfillPlan ==
  /\ At("backfreeze")
  /\ IF BackPlannable
     THEN /\ backplan' = [file |-> "frozen", images |-> BackRows, ino |-> ino]
          /\ Go("backopen")
     ELSE Fail /\ UNCHANGED backplan
  /\ UNCHANGED <<mem, run, snap, db, row, asset, plan, jr, ckpt, files, item,
                 budget>>

(* What a stop leaves of the plan being written.                             *)
BackplanAfter(power) ==
  IF At("backfreeze") /\ BackPlannable /\ "backplan" \in StopAt
  THEN {[NoBackplan EXCEPT !.file = f] :
          f \in {"empty", "torn"} \cup IF BackRows # {} THEN {"prefix"} ELSE {}}
       \cup IF power
            THEN {[file |-> "frozen", images |-> BackRows, ino |-> ino]}
            ELSE {}
  ELSE {backplan}

----------------------------------------------------------------------------
(* bind_source, and the total that was frozen before the path phase.         *)
BindBackfill ==
  /\ At("bind")
  /\ IF jr.totals
     THEN jr' = SourceBound(jr) /\ Go("backhash")
     ELSE Fail /\ UNCHANGED jr
  /\ UNCHANGED <<mem, run, snap, db, row, asset, plan, backplan, ckpt, files,
                 item, budget>>

(* persist_manifest_identity in _converge_backfill, before the execution.    *)
PersistBackfill ==
  /\ At("backhash")
  /\ run' = IF run.phase = "paths_complete" THEN [run EXCEPT !.back = TRUE]
            ELSE run
  /\ Go("registry")
  /\ UNCHANGED <<mem, snap, db, row, asset, logs, files, item, budget>>

----------------------------------------------------------------------------
(* _expected_registry_signature, before and after a batch.                   *)
Unregistered(b) == b \cap asset = {}
Registered(b) == b \cap asset = ToRegister(b)

(* _verify_database_plan_closure                                             *)
RegistryCloses(complete) ==
  /\ backplan.images = BackRows
  /\ \A i \in BackRows : row[i] = "new"
  /\ asset \subseteq ToRegister(backplan.images)
  /\ complete => Registered(backplan.images)

(* _verify_receipt_plan_closure: verify_receipts_current of every image.     *)
ReceiptsCurrent ==
  /\ backplan.images = jr.commit["paths"]
  /\ \A i \in backplan.images : ReceiptHolds(i)

(* _execute_linear, its beginning.                                           *)
StartRegistry ==
  /\ At("registry")
  /\ IF "backfill" \in jr.done
     THEN /\ UNCHANGED mem
          /\ IF RegistryCloses(TRUE) THEN Go("registrydone") ELSE Fail
     ELSE IF RegistryCloses(FALSE)
     THEN mem' = [NoMem EXCEPT !.todo = backplan.images] /\ Go("regbatch")
     ELSE Fail /\ UNCHANGED mem
  /\ UNCHANGED <<run, snap, db, row, asset, logs, files, item, budget>>

Walked == Batch(mem.todo)

(* The receipts of an announced batch are still the path phase's.            *)
SameReceipts(b) == \A i \in b : jr.ino["backfill"][i] = jr.ino["paths"][i]

(* _prepare_candidate: the file is still the one the plan recorded.          *)
CandidatesCurrent(b) ==
  \A i \in ToRegister(b) : ReceiptHolds(i) /\ ino[i] = backplan.ino[i]

(* _execute_linear_batch: what the journal and the registry say of a batch.  *)
AnnouncedBatch(b) ==
  LET found == Recovery(Unregistered(b), Registered(b),
                        b \subseteq jr.commit["backfill"])
  IN  /\ mem' = IF found = "committed" THEN [mem EXCEPT !.todo = @ \ b] ELSE mem
      /\ CASE found = "committed" -> UNCHANGED pc
           [] found = "append_commit" -> Go("regcommit")
           [] found = "reexecute" -> Go("regapply")
           [] OTHER -> Fail

WalkBatch ==
  /\ At("regbatch") /\ mem.todo # {}
  /\ IF Walked \subseteq jr.intent["backfill"]
     THEN IF SameReceipts(Walked) /\ CandidatesCurrent(Walked)
          THEN AnnouncedBatch(Walked) ELSE Fail /\ UNCHANGED mem
     ELSE /\ UNCHANGED mem
          /\ IF Unregistered(Walked) /\ CandidatesCurrent(Walked)
             THEN Go("regintent") ELSE Fail
  /\ UNCHANGED <<run, snap, db, row, asset, logs, files, item, budget>>

AnnounceRegistry ==
  /\ At("regintent")
  /\ IF IntentFollows(jr, "backfill", Walked)
     THEN /\ jr' = IntentAppended(jr, "backfill", Walked, jr.ino["paths"])
          /\ Go("regapply")
     ELSE Fail /\ UNCHANGED jr
  /\ UNCHANGED <<mem, run, snap, db, row, asset, plan, backplan, ckpt, files,
                 item, budget>>

(* _apply_database_batch: one transaction.                                   *)
RegisterBatch ==
  /\ At("regapply")
  /\ IF Unregistered(Walked) /\ CandidatesCurrent(Walked)
     THEN asset' = asset \cup ToRegister(Walked) /\ Go("regcommit")
     ELSE Fail /\ UNCHANGED asset
  /\ UNCHANGED <<mem, run, snap, db, row, logs, files, item, budget>>

CommitRegistry ==
  /\ At("regcommit")
  /\ IF CanCommit(jr, "backfill", Walked)
     THEN /\ jr' = Committed(jr, "backfill", Walked)
          /\ mem' = [mem EXCEPT !.todo = @ \ Walked]
          /\ Go("regbatch")
     ELSE Fail /\ UNCHANGED <<jr, mem>>
  /\ UNCHANGED <<run, snap, db, row, asset, plan, backplan, ckpt, files, item,
                 budget>>

(* The closures, append_phase_complete and write_checkpoint.                 *)
CloseRegistry ==
  /\ At("regbatch") /\ mem.todo = {}
  /\ IF RegistryCloses(TRUE) /\ ReceiptsCurrent THEN Go("regclosure") ELSE Fail
  /\ UNCHANGED <<mem, run, snap, db, row, asset, logs, files, item, budget>>

CompleteRegistry ==
  /\ At("regclosure")
  /\ IF CanComplete(jr, "backfill")
     THEN jr' = PhaseCompleted(jr, "backfill") /\ Go("regcheckpoint")
     ELSE Fail /\ UNCHANGED jr
  /\ UNCHANGED <<mem, run, snap, db, row, asset, plan, backplan, ckpt, files,
                 item, budget>>

RegistryCheckpoint ==
  /\ At("regcheckpoint")
  /\ IF CheckpointAhead THEN Fail /\ UNCHANGED ckpt
     ELSE WriteCheckpoint /\ Go("registrydone")
  /\ UNCHANGED <<mem, run, snap, db, row, asset, plan, backplan, jr, files,
                 item, budget>>

(* _transition to registry_complete.                                         *)
EndRegistry ==
  /\ At("registrydone")
  /\ run' = IF run.phase = "paths_complete"
            THEN [run EXCEPT !.phase = "registry_complete", !.back = TRUE]
            ELSE run
  /\ Go("archive")
  /\ UNCHANGED <<mem, snap, db, row, asset, logs, files, item, budget>>
=============================================================================
