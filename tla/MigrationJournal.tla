-------------------------- MODULE MigrationJournal --------------------------
(* The batch journal of the migration (migration_batch_log.py): which        *)
(* batches were announced and which are committed, for the path phase and    *)
(* for the registry phase, the destination each receipt names, and the       *)
(* totals, attempts and phase ends beside them.  Batches follow one another  *)
(* in key order and only one is open at a time, so the images of the open    *)
(* batch are those announced and not committed.                              *)
EXTENDS LegacyDisk

NoJournal ==
  [made |-> FALSE, torn |-> FALSE, attempts |-> 0, totals |-> FALSE,
   bound |-> FALSE, proj |-> 0, done |-> {},
   intent |-> [p \in LogPhases |-> {}],
   commit |-> [p \in LogPhases |-> {}],
   ino |-> [p \in LogPhases |-> [i \in Images |-> 0]]]

Open(j, p) == j.intent[p] \ j.commit[p]

(* _create_journal: a temporary file, its fsync, a rename and the directory's*)
(* fsync, so that the journal is there with its header or not at all.        *)
CreateJournal == jr' = [NoJournal EXCEPT !.made = TRUE]

(* _load_state_with_tail_repair: an unterminated last line is cut off.       *)
TailRepaired(j) == [j EXCEPT !.torn = FALSE]

(* record_attempt: only "more than one" is ever asked of the number.         *)
AttemptRecorded(j) ==
  [j EXCEPT !.attempts = IF @ = 0 THEN 1 ELSE 2]

(* Mutant: the second attempt is not taken for one that resumes.             *)
Resuming_Late == jr.attempts > 2

(* attempt_count > 1: what a former attempt left may be used.                *)
Resuming == jr.attempts > 1

(* freeze_work_totals                                                        *)
TotalsFrozen(j) == [j EXCEPT !.totals = TRUE]
CanFreeze(j) == ~j.totals /\ \A p \in LogPhases : j.intent[p] = {}

(* bind_source for the registry phase; the header binds the path phase.      *)
SourceBound(j) == [j EXCEPT !.bound = TRUE]

(* _intent_follows_state                                                     *)
IntentFollows(j, p, b) ==
  /\ j.totals
  /\ p = "backfill" => j.bound /\ "paths" \in j.done
  /\ p \notin j.done
  /\ \A q \in LogPhases : Open(j, q) = {}
  /\ \A i \in b, k \in j.intent[p] : k < i

(* append_intent, with the receipts of the batch's files                     *)
IntentAppended(j, p, b, found) ==
  [j EXCEPT !.intent[p] = @ \cup b,
            !.ino[p] = [i \in Images |-> IF i \in b THEN found[i] ELSE @[i]]]

(* append_commit                                                             *)
Committed(j, p, b) == [j EXCEPT !.commit[p] = @ \cup b]
CanCommit(j, p, b) == b # {} /\ b \subseteq Open(j, p)

(* append_repair: the receipts keep all but the destination's identity; a    *)
(* repair after the end of its phase moves the checkpoint's basis.           *)
Repaired(j, p, b, found) ==
  [j EXCEPT !.ino[p] = [i \in Images |-> IF i \in b THEN found[i] ELSE @[i]],
            !.proj = IF p \in j.done THEN @ + 1 ELSE @]
NeedsRepairEntry(j, p, b, found) == \E i \in b : j.ino[p][i] # found[i]

(* append_phase_complete                                                     *)
PhaseCompleted(j, p) ==
  IF p \in j.done THEN j
  ELSE [j EXCEPT !.done = @ \cup {p}, !.proj = @ + 1]
CanComplete(j, p) ==
  p \notin j.done =>
    Open(j, p) = {} /\ (p = "backfill" => j.bound /\ "paths" \in j.done)

(* recover_batch: what the rows say of an announced batch.                   *)
Recovery(pre, post, committed) ==
  IF committed THEN (IF post THEN "committed" ELSE "conflict")
  ELSE IF post THEN "append_commit"
  ELSE IF pre THEN "reexecute" ELSE "conflict"

(* write_checkpoint: never behind the journal it describes.                  *)
CheckpointAhead == ckpt > jr.proj
WriteCheckpoint == ckpt' = jr.proj

(* What a stop leaves of an append under way: nothing of the event, or a     *)
(* tail without its end of line.                                             *)
AppendPoints ==
  {"attempt", "totals", "intent", "commit", "mendlog", "closure", "bind",
   "regintent", "regcommit", "regclosure"}
JournalAfter ==
  IF jr.made /\ pc \in AppendPoints /\ "journal" \in StopAt
  THEN {jr, [jr EXCEPT !.torn = TRUE]} ELSE {jr}
=============================================================================
