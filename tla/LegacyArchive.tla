---------------------------- MODULE LegacyArchive ---------------------------
(* The archive (media_archive.py under _converge_archive): when no row names *)
(* an old path any more, the legacy directories and files are renamed, one   *)
(* after the other, into the run's directory, and the state file records     *)
(* each of them before the next is touched.                                  *)
EXTENDS MigrationJournal

(* validate_no_legacy_media_references                                       *)
NoLegacyReferences == \A i \in Images : row[i] # "old"

(* AutoV2CompletionAuthority.load: every planned image has its receipts, and *)
(* both belong to one completed path phase.                                  *)
CompletionAuthority ==
  plan.file = "frozen" /\ "paths" \in jr.done
  /\ jr.commit["paths"] = plan.images

(* _validate_archive_root_namespace and _entry_state: what is recorded as    *)
(* archived is, and nothing after the item under way is.                     *)
RecordedMoved == \A k \in 1..run.progress : item[k] # "there"
OthersThere == \A k \in Items : k > run.progress + 1 => item[k] = "there"

(* prepare, for the first time: every source is there.                       *)
AllThere == \A k \in Items : item[k] = "there"

PrepareArchive ==
  /\ At("archive")
  /\ IF ~CompletionAuthority \/ ~NoLegacyReferences
     THEN Fail /\ UNCHANGED run
     ELSE CASE run.phase = "archive_complete" ->
                 /\ UNCHANGED run
                 /\ IF RecordedMoved THEN Go("complete") ELSE Fail
            [] run.phase = "registry_complete" /\ M = 0 ->
                 UNCHANGED run /\ Go("complete")
            [] run.phase = "registry_complete" /\ M > 0 ->
                 IF AllThere
                 THEN /\ run' = [run EXCEPT !.phase = "archive_intent",
                                            !.intent = 1]
                      /\ Go("move")
                 ELSE Fail /\ UNCHANGED run
            [] OTHER ->
                 /\ UNCHANGED run
                 /\ IF run.intent = run.progress + 1 THEN Go("move") ELSE Fail
  /\ UNCHANGED <<mem, snap, db, row, asset, logs, files, item, budget>>

(* _converge_archive: archive_noreplace, or recover_archive if it was moved. *)
MoveItem ==
  /\ At("move")
  /\ IF RecordedMoved /\ OthersThere
     THEN /\ item' = [item EXCEPT ![run.intent] =
                        IF @ = "there" THEN "moved" ELSE @]
          /\ Go("movesync")
     ELSE Fail /\ UNCHANGED item
  /\ UNCHANGED <<mem, run, snap, db, row, asset, logs, files, budget>>

(* _fsync_parents                                                            *)
SyncItem ==
  /\ At("movesync")
  /\ item' = [item EXCEPT ![run.intent] = "archived"]
  /\ Go("record")
  /\ UNCHANGED <<mem, run, snap, db, row, asset, logs, files, budget>>

(* Mutant: the last item does not end the archive.                           *)
RecordItem_NoEnd ==
  /\ At("record")
  /\ run' = [run EXCEPT !.progress = @ + 1, !.intent = @ + 1]
  /\ Go("move")
  /\ UNCHANGED <<mem, snap, db, row, asset, logs, files, item, budget>>

(* record_completion: _advance_progress, then the next intent or the end.    *)
RecordItem ==
  /\ At("record")
  /\ run' = IF run.intent = M
            THEN [run EXCEPT !.progress = M, !.phase = "archive_complete"]
            ELSE [run EXCEPT !.progress = @ + 1, !.intent = @ + 1]
  /\ Go(IF run.intent = M THEN "complete" ELSE "move")
  /\ UNCHANGED <<mem, snap, db, row, asset, logs, files, item, budget>>

(* After a power loss a rename that was not synced may not have happened.    *)
ItemsAfter(power) ==
  IF power
  THEN {f \in [Items -> {"there", "moved", "archived"}] :
          \A k \in Items : f[k] = item[k] \/ (item[k] = "moved" /\ f[k] = "there")}
  ELSE {item}

----------------------------------------------------------------------------
(* _transition_complete: first the summary that says so ...                  *)
CompleteSummary ==
  /\ At("complete")
  /\ run' = [run EXCEPT !.summary = "complete"]
  /\ Go("finish")
  /\ UNCHANGED <<mem, snap, db, row, asset, logs, files, item, budget>>

(* ... then the state file.                                                  *)
CompleteState ==
  /\ At("finish")
  /\ run' = [run EXCEPT !.phase = "complete"]
  /\ Go("runtime")
  /\ UNCHANGED <<mem, snap, db, row, asset, logs, files, item, budget>>
=============================================================================
