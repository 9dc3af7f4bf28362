--------------------------- MODULE ExportAttempts ---------------------------
(***************************************************************************)
(* One export job from its confirmed snapshot to the end of its files      *)
(* (src/exports/services/archive.py, attempts.py, file_ops.py and the      *)
(* terminal cleanup of worker.py): an attempt builds a ZIP in a private    *)
(* directory, verifies it, publishes it by a rename and cleans up.         *)
(*                                                                         *)
(* Each file operation and each transaction is an action: between two of   *)
(* them the process may crash, be stopped or meet an error, and a          *)
(* permission or the account may go.  The worker itself is one process:    *)
(* that no second one writes for the job is what ExportLeases shows.       *)
(***************************************************************************)
EXTENDS Integers, FiniteSets

CONSTANTS
    Items,          \* items of the confirmed snapshot
    Faults,         \* the faults that may happen
    MaxEvents,      \* bound: faults, revocations and account deletions
    MaxResumes      \* MAX_ABNORMAL_RESUMES (3 in worker.py)

FaultKinds == {"crash",    \* the process dies
               "stop",     \* a normal stop, seen at a checkpoint
               "busy",     \* a normal stop while a transaction waits
               "storage",  \* a file operation before the rename fails
               "capture",  \* reading the ZIP back after its rename fails
               "damage",   \* bytes of a closed ZIP change
               "foreign",  \* a file nobody recorded appears in ready/
               "revoke", "delete"}

ASSUME AttemptsAssumption ==
    /\ IsFiniteSet(Items) /\ Items # {} /\ Faults \subseteq FaultKinds
    /\ MaxEvents \in Nat /\ MaxResumes \in Nat

\* A new generation needs a revocation or a recovery, so an event.
Gens == 0..MaxEvents

\* A file is its inode: each attempt creates at most one.
Foreign == MaxEvents + 1
Inodes == Gens \cup {Foreign}
NoFile == -1

\* Paths of the export directory; NoPath is a null column.
Ready == <<"ready", 0>>
Part(g) == <<"part", g>>
Quar(g) == <<"quarantine", g>>
NoPath == <<"null", 0>>
Paths == {Ready} \cup {Part(g) : g \in Gens} \cup {Quar(g) : g \in Gens}

JobStates == {"queued", "archiving", "verifying", "complete", "failed", "expired"}
ActiveStates == {"queued", "archiving", "verifying"}
AttemptStates ==
    {"none", "writing", "closed", "verifying", "retiring", "published", "cleaned"}
FileStates == AttemptStates \cup {"publishing", "ready_candidate"}
Kinds == {"archive", "quarantine"}

\* A file receipt: the inode, and the ctime once the file is closed.
Open == -1
Stamps == {Open} \cup 0..2
NoReceipt == [ino |-> NoFile, stamp |-> Open]

FileRows == [state: FileStates, path: Paths \cup {NoPath},
             intent: Paths \cup {NoPath}, ino: Inodes \cup {NoFile},
             stamp: Stamps]
NoRow == [state |-> "none", path |-> NoPath, intent |-> NoPath,
          ino |-> NoFile, stamp |-> Open]

Modes == {"none", "build", "archiving", "verifying", "publishing", "retiring",
          "complete", "terminal"}
ProgramCounters ==
    {"down", "idle",
     "initial", "mkdir", "attempt_row", "mkfile", "file_row", "stream", "close",
     "validate", "post_build", "revoking", "rotate", "publish", "quarantine",
     "quarantine_move", "quarantine_close", "rename", "candidate", "final",
     "clean", "clean_row", "clean_attempt", "rotate_recovered",
     "recover_retiring", "recover_archiving", "recover_verifying",
     "handoff", "complete_quarantine", "complete_row", "complete_directory",
     "complete_attempt", "complete_done", "releasing",
     "marking", "failing", "ready", "ready_row", "staging", "staging_row",
     "staging_attempt"}

VARIABLES
    job,      \* ExportJob: state, attempt_generation, lease, resume, cleanups
    zip,      \* ExportJob.ready_*: the receipt of the published ZIP
    included, \* ExportItem rows with inclusion_state "included"
    allowed,  \* items the owner may still export
    owner,    \* the account exists
    att,      \* ExportAttempt.state by generation
    rec,      \* ExportAttemptFile by kind and generation
    dirs,     \* attempt directories that exist
    disk,     \* the inode at each path
    file,     \* ctime, content and entries of each inode
    proc,     \* the worker process
    events    \* how many faults, revocations and deletions so far, and
              \* how bad the worst of them was

rows == <<job, zip, included, att, rec>>
fs == <<dirs, disk, file>>
world == <<allowed, owner>>
vars == <<job, zip, included, allowed, owner, att, rec, dirs, disk, file, proc,
          events>>

\* The shape of the rows, of the disk and of what the process remembers.
TypeOK ==
    /\ job \in [state: JobStates, gen: Gens, lease: {"none", "held", "lost"},
                resume: 0..MaxResumes,
                staging: {"pending", "cleaned", "blocked"},
                ready: {"absent", "retained", "pending", "cleaned", "blocked"}]
    /\ zip \in [ino: Inodes \cup {NoFile}, stamp: Stamps]
    /\ included \subseteq Items /\ allowed \subseteq Items /\ owner \in BOOLEAN
    /\ att \in [Gens -> AttemptStates]
    /\ rec \in [Kinds -> [Gens -> FileRows]]
    /\ dirs \subseteq Gens
    /\ disk \in [Paths -> Inodes \cup {NoFile}]
    /\ file \in [Inodes -> [ctime: 0..2, data: {"partial", "whole", "damaged"},
                            items: SUBSET Items]]
    /\ proc \in [pc: ProgramCounters, mode: Modes, at: Gens,
                 then: ProgramCounters, revoked: SUBSET Items,
                 items: SUBSET Items]
    /\ events \in [count : 0..MaxEvents,
                 worst : {"delay", "fault", "unread"}]

Down == [pc |-> "down", mode |-> "none", at |-> 0, then |-> "down",
         revoked |-> {}, items |-> {}]

\* A queued job whose snapshot is confirmed: claimed, snapshotted and handed
\* over, or about to be archived for the first time.
Init ==
    /\ job = [state |-> "queued", gen |-> 0, lease |-> "none", resume |-> 0,
              staging |-> "pending", ready |-> "absent"]
    /\ zip = NoReceipt
    /\ included = Items /\ allowed = Items /\ owner = TRUE
    /\ att = [g \in Gens |-> "none"]
    /\ rec = [k \in Kinds |-> [g \in Gens |-> NoRow]]
    /\ dirs = {}
    /\ disk = [p \in Paths |-> NoFile]
    /\ file = [i \in Inodes |-> [ctime |-> 0, data |-> "partial", items |-> {}]]
    /\ proc = Down
    /\ events = [count |-> 0, worst |-> "delay"]

-----------------------------------------------------------------------------
(* Rows and files.                                                         *)

UncleanAttempts == {g \in Gens : att[g] \notin {"none", "cleaned"}}
Oldest(S) == CHOOSE g \in S : \A h \in S : g <= h

\* The first file of an attempt still to clean, ORDER BY kind.
UncleanKinds(g) == {k \in Kinds : rec[k][g].state \notin {"none", "cleaned"}}
FirstKind(g) == IF "archive" \in UncleanKinds(g) THEN "archive" ELSE "quarantine"

SetRow(k, g, r) == rec' = [rec EXCEPT ![k][g] = r]
SetArchive(r) == SetRow("archive", job.gen, r)
Archive == rec["archive"][job.gen]
Quarantine == rec["quarantine"][job.gen]

\* mutant: the path of the interrupted move is kept
Cleaned_KeepsIntent(r) == [r EXCEPT !.state = "cleaned"]

Cleaned(r) == [r EXCEPT !.state = "cleaned", !.intent = NoPath]

\* OpenFileReceipt.matches_stat and ClosedFileReceipt.matches_stat: a rename
\* changes the ctime, which only a closed receipt compares.
SameInode(f, r) == f # NoFile /\ f = r.ino

\* mutant: any file at the path passes
Matches_Any(f, r) == f # NoFile

Matches(f, r) == SameInode(f, r) /\ (r.stamp = Open \/ r.stamp = file[f].ctime)

\* Both hashes, of the source and of the renamed file, compare the content.
Rehashed(f) == file[f].data = "whole"

Unlink(p) == disk' = [disk EXCEPT ![p] = NoFile] /\ UNCHANGED file
Rename(p, q) ==
    /\ disk' = [disk EXCEPT ![p] = NoFile, ![q] = disk[p]]
    /\ file' = [file EXCEPT ![disk[p]].ctime = @ + 1]
Empty(g) == disk[Part(g)] = NoFile /\ disk[Quar(g)] = NoFile

\* rmdir of an attempt directory; CleanableDirectory is its guard.
CleanableDirectory(g) == g \notin dirs \/ Empty(g)
RemoveDirectory(g) == dirs' = dirs \ {g} /\ UNCHANGED <<disk, file>>

\* The states of _mark_attempts_retiring_locked, for the attempts of S.
RetiredAttempts(S) ==
    [g \in Gens |-> IF g \in S /\ att[g] \in {"writing", "closed", "verifying"}
                    THEN "retiring" ELSE att[g]]
RetiredFiles(S) ==
    [rec EXCEPT !["archive"] =
        [g \in Gens |->
            IF /\ g \in S
               /\ @[g].state \in {"writing", "closed", "verifying", "publishing",
                                  "ready_candidate"}
            THEN [@[g] EXCEPT !.state = "retiring"] ELSE @[g]]]

\* _fail_locked and _record_owner_deleted_locked
FailLocked ==
    /\ job' = [job EXCEPT !.state = "failed", !.staging = "pending",
                          !.lease = "none"]
    /\ att' = RetiredAttempts(Gens) /\ rec' = RetiredFiles(Gens)
    /\ UNCHANGED <<zip, included>>

-----------------------------------------------------------------------------
(* The process.                                                            *)

At(pc) == proc.pc = pc
Goto(pc) == proc' = [proc EXCEPT !.pc = pc]
Enter(mode, pc) == proc' = [proc EXCEPT !.mode = mode, !.pc = pc]
Clean(g, then) == proc' = [proc EXCEPT !.pc = "clean", !.at = g, !.then = then]

\* The process is gone: a lease it held is now that of an older worker.
Exit == /\ proc' = Down
        /\ job' = [job EXCEPT !.lease = IF @ = "held" THEN "lost" ELSE @]

\* Bound on what happens from outside, and what the properties tell apart: stops
\* and revocations only delay, "capture" and "damage" make the ZIP unreadable
\* after its rename.
Severity(kind) ==
    IF kind \in {"capture", "damage"} \/ events.worst = "unread" THEN "unread"
    ELSE IF kind \in {"stop", "revoke"} THEN events.worst ELSE "fault"
Event(kind) ==
    /\ kind \in Faults /\ events.count < MaxEvents
    /\ events' = [count |-> events.count + 1, worst |-> Severity(kind)]

\* An ExportError: build_and_publish retires the attempt, then the job fails.
RaiseExportError ==
    /\ Goto(IF proc.mode = "build" THEN "marking" ELSE "failing")
    /\ UNCHANGED <<rows, fs, world>>

\* build_and_publish cleans up only behind a rotation.
AfterRotation == proc.pc \in {"clean", "clean_row", "clean_attempt"}

\* An ExportStorageError: build_and_publish and recover_archiving turn it into
\* an ExportError, recover_complete blocks the cleanup, and in
\* recover_verifying and recover_retiring it ends the process.  So it does in
\* build_and_publish after a rotation: the attempt is to be marked under the
\* token of before, which is no longer the row's (LeaseLost).
RaiseStorageError ==
    /\ \/ proc.mode = "build" /\ ~AfterRotation /\ Goto("marking") /\ UNCHANGED job
       \/ proc.mode = "build" /\ AfterRotation /\ Exit
       \/ proc.mode = "archiving" /\ Goto("failing") /\ UNCHANGED job
       \/ /\ proc.mode = "complete"
          /\ IF job.state = "complete" /\ job.ready = "retained"
             THEN /\ job' = [job EXCEPT !.staging = "blocked"]
                  /\ Goto("releasing")
             ELSE Exit
       \/ proc.mode \in {"verifying", "publishing", "retiring", "terminal"}
          /\ Exit
    /\ UNCHANGED <<zip, included, att, rec, fs, world>>

Crash ==
    /\ proc.pc # "down" /\ Event("crash")
    /\ Exit
    /\ UNCHANGED <<zip, included, att, rec, fs, world>>

\* Where the code looks at stop_requested, and where it does so only while a
\* transaction waits for the database.
StopPoints ==
    {"initial", "stream", "validate", "post_build", "revoking", "publish",
     "rename", "candidate", "clean", "clean_row", "clean_attempt",
     "recover_retiring", "recover_archiving", "handoff", "complete_quarantine",
     "complete_row", "complete_directory", "complete_attempt", "complete_done"}
BusyPoints == {"attempt_row", "file_row", "close", "rotate", "final",
               "rotate_recovered"}

\* handoff_after_normal_stop and release_job_lease
Handoff ==
    LET tombstone == att[job.gen] = "cleaned"
        requeued == [job EXCEPT !.state = "queued", !.lease = "none",
                                !.gen = IF tombstone THEN @ + 1 ELSE @]
    IN  \/ /\ job.state = "archiving" /\ UncleanAttempts # {}
           /\ job' = [job EXCEPT !.staging = "pending", !.lease = "none"]
           /\ att' = RetiredAttempts(Gens) /\ rec' = RetiredFiles(Gens)
        \/ /\ job.state = "archiving" /\ UncleanAttempts = {}
           /\ job' = requeued
           /\ UNCHANGED <<att, rec>>
        \/ /\ job.state # "archiving"
           /\ job' = [job EXCEPT !.lease = "none"]
           /\ UNCHANGED <<att, rec>>

Stop ==
    /\ \/ proc.pc \in StopPoints /\ Event("stop")
       \/ proc.pc \in BusyPoints /\ Event("busy")
    /\ Handoff
    /\ proc' = Down
    /\ UNCHANGED <<zip, included, fs, world>>

\* The supervisor starts a worker.
Start == /\ At("down") /\ Goto("idle")
         /\ UNCHANGED <<rows, fs, world, events>>

-----------------------------------------------------------------------------
(* build_and_publish                                                       *)

\* Items whose permission was taken away: revoked_item_ids.
Revoked == included \ allowed

\* One batch of _apply_revocation_batches.
ApplyBatch ==
    \E i \in proc.revoked :
        /\ included' = included \ {i}
        /\ proc' = [proc EXCEPT !.revoked = @ \ {i}]
        /\ UNCHANGED <<job, zip, att, rec>>

\* _initial_permission_check: what is revoked is read once, then applied.
InitialCheck ==
    /\ At("initial") /\ UNCHANGED <<fs, world, events>>
    /\ proc' = [proc EXCEPT !.mode = "build", !.pc = "revoking",
                            !.then = "mkdir", !.revoked = Revoked]
    /\ UNCHANGED rows

ApplyRevocations ==
    /\ At("revoking") /\ proc.revoked # {} /\ ApplyBatch
    /\ UNCHANGED <<fs, world, events>>

RevocationsApplied ==
    /\ At("revoking") /\ proc.revoked = {}
    /\ IF proc.then = "mkdir" /\ included = {}  \* all_items_revoked
       THEN RaiseExportError
       ELSE Goto(proc.then) /\ UNCHANGED <<rows, fs, world>>
    /\ UNCHANGED events

\* _archive_inputs and create_directory_fs
MakeDirectory ==
    /\ At("mkdir")
    /\ IF job.gen \in dirs
       THEN RaiseStorageError
       ELSE /\ dirs' = dirs \cup {job.gen}
            /\ proc' = [proc EXCEPT !.pc = "attempt_row", !.items = included]
            /\ UNCHANGED <<rows, disk, file, world>>
    /\ UNCHANGED events

\* record_directory_receipt_db_only
RecordDirectory ==
    /\ At("attempt_row")
    /\ att' = [att EXCEPT ![job.gen] = "writing"]
    /\ Goto("mkfile")
    /\ UNCHANGED <<job, zip, included, rec, fs, world, events>>

\* create_file_fs
MakeFile ==
    /\ At("mkfile")
    /\ disk' = [disk EXCEPT ![Part(job.gen)] = job.gen]
    /\ Goto("file_row")
    /\ UNCHANGED <<rows, dirs, file, world, events>>

\* record_open_file_receipt_db_only
RecordOpenFile ==
    /\ At("file_row")
    /\ SetArchive([state |-> "writing", path |-> Part(job.gen),
                   intent |-> NoPath, ino |-> job.gen, stamp |-> Open])
    /\ Goto("stream")
    /\ UNCHANGED <<job, zip, included, att, fs, world, events>>

\* The entries are written, ensure_exported_at, close_file_fs.
Stream ==
    /\ At("stream")
    /\ file' = [file EXCEPT ![job.gen].data = "whole",
                            ![job.gen].items = proc.items]
    /\ Goto("close")
    /\ UNCHANGED <<rows, dirs, disk, world, events>>

\* record_closed_file_receipt_db_only
RecordClosed ==
    /\ At("close")
    /\ SetArchive([Archive EXCEPT !.state = "closed",
                                  !.stamp = file[job.gen].ctime])
    /\ att' = [att EXCEPT ![job.gen] = "closed"]
    /\ Goto("validate")
    /\ UNCHANGED <<job, zip, included, fs, world, events>>

\* validate_archive, then record_verifying
Validate ==
    /\ At("validate")
    /\ IF Rehashed(disk[Part(job.gen)])
       THEN /\ SetArchive([Archive EXCEPT !.state = "verifying"])
            /\ att' = [att EXCEPT ![job.gen] = "verifying"]
            /\ job' = [job EXCEPT !.state = "verifying"]
            /\ Goto("post_build")
            /\ UNCHANGED <<zip, included, fs, world>>
       ELSE RaiseExportError
    /\ UNCHANGED events

\* mutant: the batches are applied before the attempt is given up
PostBuild_NoIntent ==
    /\ At("post_build")
    /\ IF Revoked = {}
       THEN Goto("publish") /\ UNCHANGED <<att, rec>>
       ELSE /\ proc' = [proc EXCEPT !.pc = "revoking", !.then = "rotate",
                                    !.revoked = Revoked]
            /\ UNCHANGED <<att, rec>>
    /\ UNCHANGED <<job, zip, included, fs, world, events>>

\* _post_build_revocations: the attempt is given up before the first batch.
PostBuild ==
    /\ At("post_build")
    /\ IF Revoked = {}
       THEN Goto("publish") /\ UNCHANGED <<att, rec>>
       ELSE /\ att' = [att EXCEPT ![job.gen] = "retiring"]
            /\ SetArchive([Archive EXCEPT !.state = "retiring"])
            /\ proc' = [proc EXCEPT !.pc = "revoking", !.then = "rotate",
                                    !.revoked = Revoked]
    /\ UNCHANGED <<job, zip, included, fs, world, events>>

\* _rotate_applied_locked: build again under the next generation.
Rotated == [job EXCEPT !.state = "archiving", !.gen = @ + 1]
RotateLocked ==
    /\ att' = [att EXCEPT ![job.gen] = "retiring"]
    /\ SetArchive([Archive EXCEPT !.state = "retiring"])
    /\ job' = Rotated
    /\ Clean(job.gen, "initial")

Rotate ==
    /\ At("rotate") /\ RotateLocked
    /\ UNCHANGED <<zip, included, fs, world, events>>

\* The publishing intent of _prepare_ready_candidate.
PublishIntent ==
    /\ At("publish")
    /\ SetArchive([Archive EXCEPT !.state = "publishing", !.intent = Ready])
    /\ Goto("quarantine")
    /\ UNCHANGED <<job, zip, included, att, fs, world, events>>

\* _resolve_quarantine, first part: a file at the ready path that is not the
\* candidate itself is recorded before it is moved away.
FindCollision ==
    /\ At("quarantine")
    /\ IF Quarantine.state = "none"
       THEN IF disk[Ready] \in {NoFile, Archive.ino}
            THEN Goto("rename") /\ UNCHANGED rec
            ELSE /\ SetRow("quarantine", job.gen,
                           [state |-> "writing", path |-> Ready,
                            intent |-> Quar(job.gen), ino |-> disk[Ready],
                            stamp |-> Open])
                 /\ Goto("quarantine_move")
       ELSE /\ Goto(IF Quarantine.state = "closed" THEN "rename"
                    ELSE "quarantine_move")
            /\ UNCHANGED rec
    /\ UNCHANGED <<job, zip, included, att, fs, world, events>>

\* The move, which an earlier process may have made already.
MoveCollision ==
    LET source == Matches(disk[Ready], Quarantine)
        target == Matches(disk[Quar(job.gen)], Quarantine)
    IN  /\ At("quarantine_move")
        /\ IF source = target
           THEN RaiseExportError
           ELSE /\ IF source THEN Rename(Ready, Quar(job.gen))
                   ELSE UNCHANGED <<disk, file>>
                /\ Goto("quarantine_close")
                /\ UNCHANGED <<rows, dirs, world>>
        /\ UNCHANGED events

CloseQuarantine ==
    /\ At("quarantine_close")
    /\ SetRow("quarantine", job.gen,
              [Quarantine EXCEPT !.state = "closed", !.path = Quar(job.gen),
                                 !.intent = NoPath,
                                 !.stamp = file[disk[Quar(job.gen)]].ctime])
    /\ Goto("rename")
    /\ UNCHANGED <<job, zip, included, att, fs, world, events>>

\* _verify_source_candidate and rename_noreplace; _recover_publishing finds the
\* candidate on either side of the rename.
Publish ==
    LET source == SameInode(disk[Part(job.gen)], Archive)
        target == SameInode(disk[Ready], Archive)
        verified == Matches(disk[Part(job.gen)], Archive)
                    /\ Rehashed(disk[Part(job.gen)])
        moved == proc.mode = "publishing" /\ target /\ ~source
        movable == proc.mode = "publishing" => source # target
    IN  /\ At("rename")
        /\ \/ /\ moved
              /\ Goto("candidate") /\ UNCHANGED <<rows, fs, world>>
           \/ /\ ~moved /\ movable /\ verified /\ disk[Ready] = NoFile
              /\ Rename(Part(job.gen), Ready) /\ Goto("candidate")
              /\ UNCHANGED <<rows, dirs, world>>
           \/ /\ ~moved /\ (movable /\ verified => disk[Ready] # NoFile)
              /\ IF movable /\ verified /\ proc.mode = "publishing"
                 THEN /\ Exit                       \* FileExistsError
                      /\ UNCHANGED <<zip, included, att, rec, fs, world>>
                 ELSE RaiseExportError
        /\ UNCHANGED events

\* _capture_ready_candidate and the row of the ready candidate.
CaptureCandidate ==
    /\ At("candidate")
    /\ IF SameInode(disk[Ready], Archive) /\ Rehashed(disk[Ready])
       THEN /\ SetArchive([Archive EXCEPT !.state = "ready_candidate",
                                          !.path = Ready, !.intent = NoPath,
                                          !.stamp = file[disk[Ready]].ctime])
            /\ Goto("final")
            /\ UNCHANGED <<job, zip, included, att, fs, world>>
       ELSE RaiseExportError
    /\ UNCHANGED events

\* _complete_locked
CompleteLocked ==
    /\ job' = [job EXCEPT !.state = "complete", !.ready = "retained"]
    /\ zip' = [ino |-> Archive.ino, stamp |-> Archive.stamp]
    /\ SetArchive([Archive EXCEPT !.state = "published"])
    /\ att' = [att EXCEPT ![job.gen] = "published"]
    /\ Enter("complete", "handoff")
    /\ UNCHANGED included

\* mutant: permissions are only looked at after the build
FinalFence_Unchecked ==
    /\ At("final")
    /\ IF ~owner THEN FailLocked /\ proc' = [proc EXCEPT !.mode = "terminal",
                        !.pc = "clean", !.at = job.gen, !.then = "releasing"]
       ELSE CompleteLocked
    /\ UNCHANGED <<fs, world, events>>

\* _final_fence: one transaction decides what becomes of the candidate.
FinalFence ==
    /\ At("final")
    /\ \/ ~owner /\ FailLocked /\ proc' = [proc EXCEPT !.mode = "terminal",
                        !.pc = "clean", !.at = job.gen, !.then = "releasing"]
       \/ /\ owner /\ Revoked # {} /\ RotateLocked
          /\ included' = included \ Revoked /\ UNCHANGED zip
       \/ owner /\ Revoked = {} /\ CompleteLocked
    /\ UNCHANGED <<fs, world, events>>

-----------------------------------------------------------------------------
(* _cleanup_retiring, _cleanup_terminal_retiring                           *)

\* mutant: the file is always looked for in the attempt directory
RetiredPath_StagingOnly(k, g) == IF k = "archive" THEN Part(g) ELSE Quar(g)

\* Where the row says the file is.
RetiredPath(k, g) == rec[k][g].path

\* The file may be at its path, gone already, or not the recorded one.
CleanFile ==
    LET g == proc.at
        k == FirstKind(g)
        r == rec[k][g]
        path == RetiredPath(k, g)
        expected == IF k = "archive" THEN {Ready, Part(g)} ELSE {Quar(g)}
    IN  /\ At("clean") /\ att[g] = "retiring" /\ UncleanKinds(g) # {}
        /\ IF /\ r.state = (IF k = "archive" THEN "retiring" ELSE "closed")
              /\ r.path \in expected
              /\ (disk[path] = NoFile \/ Matches(disk[path], r))
           THEN /\ Unlink(path) /\ Goto("clean_row")
                /\ UNCHANGED <<rows, dirs, world>>
           ELSE RaiseStorageError
        /\ UNCHANGED events

CleanRow ==
    /\ At("clean_row")
    /\ LET k == FirstKind(proc.at)
       IN  SetRow(k, proc.at, Cleaned(rec[k][proc.at]))
    /\ Goto("clean")
    /\ UNCHANGED <<job, zip, included, att, fs, world, events>>

\* _remove_retiring_directory_fs
CleanDirectory ==
    /\ At("clean") /\ att[proc.at] = "retiring" /\ UncleanKinds(proc.at) = {}
    /\ IF CleanableDirectory(proc.at)
       THEN /\ RemoveDirectory(proc.at) /\ Goto("clean_attempt")
            /\ UNCHANGED <<rows, world>>
       ELSE RaiseStorageError
    /\ UNCHANGED events

CleanAttempt ==
    /\ At("clean_attempt")
    /\ att' = [att EXCEPT ![proc.at] = "cleaned"]
    /\ Goto("clean")
    /\ UNCHANGED <<job, zip, included, rec, fs, world, events>>

\* The attempt is cleaned, and what asked for it goes on.
CleanDone ==
    /\ At("clean") /\ att[proc.at] = "cleaned"
    /\ Goto(proc.then)
    /\ UNCHANGED <<rows, fs, world, events>>

-----------------------------------------------------------------------------
(* Recovery                                                                *)

\* recover_retiring, for as long as the job has a retiring attempt; an attempt
\* without an archive row makes files.get(kind="archive") raise.
RecoverRetiring ==
    LET retiring == {g \in Gens : att[g] = "retiring"}
    IN  /\ At("recover_retiring")
        /\ IF retiring = {}
           THEN Enter("archiving", "recover_archiving") /\ UNCHANGED rows
           ELSE IF rec["archive"][Oldest(retiring)].state = "none"
           THEN Exit /\ UNCHANGED <<zip, included, att, rec>>
           ELSE Clean(Oldest(retiring), "recover_retiring") /\ UNCHANGED rows
        /\ UNCHANGED <<fs, world, events>>

\* recover_archiving: start over, give up what was being written, or finish
\* giving it up.
RecoverArchiving ==
    LET a == att[job.gen]
    IN  /\ At("recover_archiving")
        /\ \/ /\ a = "none" /\ CleanableDirectory(job.gen)
              /\ RemoveDirectory(job.gen) /\ Enter("build", "initial")
              /\ UNCHANGED <<rows, world>>
           \/ /\ a = "none" /\ ~CleanableDirectory(job.gen)
              /\ RaiseStorageError
           \/ /\ a \in {"writing", "closed"}
              /\ att' = RetiredAttempts({job.gen})
              /\ rec' = RetiredFiles({job.gen})
              /\ Clean(job.gen, "rotate_recovered")
              /\ UNCHANGED <<job, zip, included, fs, world>>
           \/ /\ a \in {"retiring", "cleaned"}
              /\ Clean(job.gen, "rotate_recovered")
              /\ UNCHANGED <<rows, fs, world>>
           \/ /\ a \in {"verifying", "published"} /\ RaiseExportError
        /\ UNCHANGED events

\* _rotate_recovered_attempt and _rotate_recovered_verifying_attempt
RotateRecovered ==
    /\ At("rotate_recovered")
    /\ job' = Rotated
    /\ Enter("build", "initial")
    /\ UNCHANGED <<zip, included, att, rec, fs, world, events>>

\* mutant: an attempt that was given up is published after all
RecoverVerifying_IgnoresAttempt ==
    /\ At("recover_verifying")
    /\ proc' = [proc EXCEPT !.mode = IF Archive.state = "publishing"
                                     THEN "publishing" ELSE @,
                            !.pc = IF Archive.state = "ready_candidate" THEN "final"
                                   ELSE "publish"]
    /\ UNCHANGED <<rows, fs, world, events>>

\* Only an interrupted publication may have moved the file already.
RecoveryMode(s) == IF s = "publishing" THEN "publishing" ELSE proc.mode

\* Where recover_verifying takes up an attempt whose file is in state s.
Resumption(s) ==
    CASE s = "verifying" -> "publish"
      [] s = "publishing" -> "quarantine"
      [] s = "ready_candidate" -> "final"

\* recover_verifying
RecoverVerifying ==
    LET s == Archive.state
    IN  /\ At("recover_verifying")
        /\ \/ /\ att[job.gen] \in {"retiring", "cleaned"}
              /\ IF s \in {"retiring", "cleaned"}
                 THEN Clean(job.gen, "rotate_recovered") /\ UNCHANGED rows
                 ELSE Goto("failing") /\ UNCHANGED rows
           \/ /\ att[job.gen] = "verifying"
              /\ Enter(RecoveryMode(s), Resumption(s))
              /\ UNCHANGED rows
        /\ UNCHANGED <<fs, world, events>>

-----------------------------------------------------------------------------
(* recover_complete                                                        *)

\* Every transaction of recover_complete asks for a retained ZIP: when it
\* expired meanwhile, the cleanup can not even be marked blocked.
Retained == job.state = "complete" /\ job.ready = "retained"

HandoffArchive ==
    /\ At("handoff")
    /\ IF ~Retained
       THEN Exit /\ UNCHANGED rec
       ELSE /\ UNCHANGED job
            /\ IF att[job.gen] = "cleaned" THEN Goto("complete_done") /\ UNCHANGED rec
               ELSE /\ SetArchive(Cleaned(Archive)) /\ Goto("complete_quarantine")
    /\ UNCHANGED <<zip, included, att, fs, world, events>>

CompleteQuarantine ==
    LET q == Quarantine
    IN  /\ At("complete_quarantine")
        /\ IF ~Retained THEN RaiseStorageError
           ELSE IF q.state \in {"none", "cleaned"}
           THEN Goto("complete_directory") /\ UNCHANGED <<rows, fs, world>>
           ELSE IF q.state = "closed"
                   /\ (disk[q.path] = NoFile \/ Matches(disk[q.path], q))
           THEN /\ Unlink(q.path) /\ Goto("complete_row")
                /\ UNCHANGED <<rows, dirs, world>>
           ELSE RaiseStorageError
        /\ UNCHANGED events

CompleteRow ==
    /\ At("complete_row")
    /\ SetRow("quarantine", job.gen, Cleaned(Quarantine))
    /\ Goto("complete_directory")
    /\ UNCHANGED <<job, zip, included, att, fs, world, events>>

CompleteDirectory ==
    /\ At("complete_directory")
    /\ IF Retained /\ CleanableDirectory(job.gen)
       THEN /\ RemoveDirectory(job.gen) /\ Goto("complete_attempt")
            /\ UNCHANGED <<rows, world>>
       ELSE RaiseStorageError
    /\ UNCHANGED events

CompleteAttempt ==
    /\ At("complete_attempt")
    /\ IF Retained
       THEN /\ att' = [att EXCEPT ![job.gen] = "cleaned"]
            /\ Goto("complete_done")
            /\ UNCHANGED <<job, zip, included, rec, fs, world>>
       ELSE RaiseStorageError
    /\ UNCHANGED events

CompleteDone ==
    /\ At("complete_done")
    /\ IF Retained
       THEN /\ job' = [job EXCEPT !.staging = "cleaned"]
            /\ Goto("releasing")
            /\ UNCHANGED <<zip, included, att, rec, fs, world>>
       ELSE RaiseStorageError
    /\ UNCHANGED events

\* release_job_lease
Release ==
    /\ At("releasing")
    /\ job' = [job EXCEPT !.lease = "none"]
    /\ proc' = [Down EXCEPT !.pc = "idle"]
    /\ UNCHANGED <<zip, included, att, rec, fs, world, events>>

-----------------------------------------------------------------------------
(* Failure                                                                 *)

\* _mark_current_attempt_retiring
MarkRetiring ==
    /\ At("marking")
    /\ att' = RetiredAttempts({job.gen}) /\ rec' = RetiredFiles({job.gen})
    /\ Goto("failing")
    /\ UNCHANGED <<job, zip, included, fs, world, events>>

\* fail_job
FailJob ==
    /\ At("failing") /\ FailLocked
    /\ proc' = [Down EXCEPT !.pc = "idle"]
    /\ UNCHANGED <<fs, world, events>>

-----------------------------------------------------------------------------
(* The idle worker: maintenance first, then the claims.                    *)

Stale == job.lease # "held"
Claimed(resume) == [job EXCEPT !.lease = "held", !.resume = resume]

OwnerlessWork == ~owner /\ job.state \in ActiveStates
CompleteWork == /\ job.state = "complete" /\ job.staging # "blocked"
                /\ (job.staging = "pending" \/ job.lease # "none")
ReadyWork == job.state = "expired" /\ job.ready = "pending"
StagingWork == job.state \in {"failed", "expired"} /\ job.staging = "pending"
NoMaintenance == ~OwnerlessWork /\ ~CompleteWork /\ ~ReadyWork /\ ~StagingWork

\* _terminalize_ownerless_active
TerminalizeOwnerless ==
    /\ At("idle") /\ OwnerlessWork /\ FailLocked
    /\ UNCHANGED <<proc, fs, world, events>>

\* claim_complete_maintenance
ClaimComplete ==
    /\ At("idle") /\ ~OwnerlessWork /\ CompleteWork
    /\ job' = [job EXCEPT !.lease = "held"]
    /\ Enter("complete", "handoff")
    /\ UNCHANGED <<zip, included, att, rec, fs, world, events>>

\* mutant: one resume too many
TooOften_OffByOne(resume) == resume > MaxResumes + 1

TooOften(resume) == resume > MaxResumes

\* mutant: abandonments are not counted
Resumed_Uncounted(lease) == job.resume

\* resume_count after taking over from a lease that was lost or handed back.
Resumed(lease) == IF lease = "lost" THEN job.resume + 1 ELSE job.resume

\* What every takeover does: a job without an account fails, and so does one
\* that was abandoned too often.
TakeOver(mode, pc) ==
    LET resume == Resumed(job.lease)
    IN  IF ~owner \/ TooOften(resume)
        THEN FailLocked /\ UNCHANGED proc
        ELSE /\ job' = Claimed(resume)
             /\ Enter(mode, pc)
             /\ UNCHANGED <<zip, included, att, rec>>

\* claim_retiring_recovery and claim_verifying_recovery
ClaimRecovery ==
    /\ At("idle") /\ NoMaintenance /\ Stale
    /\ \/ /\ job.state = "archiving" /\ UncleanAttempts # {}
          /\ TakeOver("retiring", "recover_retiring")
       \/ /\ job.state = "verifying"
          /\ TakeOver("verifying", "recover_verifying")
    /\ UNCHANGED <<fs, world, events>>

\* requeue_expired_nonverifying_jobs
Requeue ==
    LET resume == Resumed(job.lease)
    IN  /\ At("idle") /\ NoMaintenance /\ Stale
        /\ job.state = "archiving" /\ UncleanAttempts = {}
        /\ IF ~owner \/ TooOften(resume)
           THEN FailLocked
           ELSE /\ job' = [job EXCEPT !.state = "queued", !.lease = "none",
                           !.resume = resume,
                           !.gen = IF att[job.gen] = "cleaned" THEN @ + 1 ELSE @]
                /\ UNCHANGED <<zip, included, att, rec>>
        /\ UNCHANGED <<proc, fs, world, events>>

\* claim_next_job
ClaimNext ==
    /\ At("idle") /\ NoMaintenance
    /\ job.state = "queued" /\ job.lease = "none" /\ owner
    /\ UncleanAttempts = {} /\ att[job.gen] = "none"
    /\ job' = [job EXCEPT !.state = "archiving", !.lease = "held"]
    /\ Enter("archiving", "recover_archiving")
    /\ UNCHANGED <<zip, included, att, rec, fs, world, events>>

\* _cleanup_one_ready: unlink the ZIP the row names, then forget it.
CleanReady ==
    /\ At("idle") /\ ~OwnerlessWork /\ ~CompleteWork /\ ReadyWork
    /\ IF disk[Ready] = NoFile \/ Matches(disk[Ready], zip)
       THEN Unlink(Ready) /\ Goto("ready_row") /\ UNCHANGED job
       ELSE /\ job' = [job EXCEPT !.ready = "blocked"]
            /\ Goto("staging") /\ UNCHANGED <<disk, file>>
    /\ UNCHANGED <<zip, included, att, rec, dirs, world, events>>

ReadyCleaned ==
    /\ At("ready_row")
    /\ job' = [job EXCEPT !.ready = "cleaned"]
    /\ zip' = NoReceipt
    /\ Goto("staging")
    /\ UNCHANGED <<included, att, rec, fs, world, events>>

\* _cleanup_one_terminal_staging, one step of it in every pass.
StagingTurn == /\ At("idle") /\ ~OwnerlessWork /\ ~CompleteWork /\ ~ReadyWork
               /\ StagingWork
StagingSkipped == /\ At("staging") /\ ~StagingWork /\ Goto("idle")
                  /\ UNCHANGED <<rows, fs, world, events>>
StagingStep == StagingTurn \/ (At("staging") /\ StagingWork)

Blocked == /\ job' = [job EXCEPT !.staging = "blocked"] /\ Goto("idle")
           /\ UNCHANGED <<zip, included, att, rec, fs, world>>

\* The paths a file row names, those where its file is, and those where
\* something else is.
Named(r) == {r.path, r.intent} \ {NoPath}
Found(r) == {p \in Named(r) : Matches(disk[p], r)}

Strangers(r) == {p \in Named(r) : disk[p] # NoFile /\ ~Matches(disk[p], r)}

\* ready_handoff: the file is the published ZIP, which _cleanup_one_ready owns.
HandedOver(r) == /\ r.state = "published" /\ r.path = Ready
                 /\ zip # NoReceipt /\ job.ready # "cleaned"

\* _terminal_attempt_cleanup
TerminalCleanup ==
    LET g == Oldest(UncleanAttempts)
        k == FirstKind(g)
        r == rec[k][g]
    IN  /\ StagingStep /\ UncleanAttempts # {}
        /\ \/ /\ UncleanKinds(g) # {} /\ k = "quarantine"
              /\ r.state = "writing" /\ r.stamp = Open
              /\ IF Strangers(r) = {} /\ Cardinality(Found(r)) = 1
                 THEN /\ SetRow(k, g, [r EXCEPT !.state = "closed",
                              !.path = CHOOSE p \in Found(r) : TRUE,
                              !.intent = NoPath, !.stamp = file[r.ino].ctime])
                      /\ Goto("idle")
                      /\ UNCHANGED <<job, zip, included, att, fs, world>>
                 ELSE Blocked
           \/ /\ UncleanKinds(g) # {}
              /\ ~(k = "quarantine" /\ r.state = "writing" /\ r.stamp = Open)
              /\ IF HandedOver(r) \/ (Strangers(r) = {} /\ Found(r) = {})
                 THEN /\ Goto("staging_row") /\ UNCHANGED <<rows, fs, world>>
                 ELSE IF Strangers(r) = {} /\ Cardinality(Found(r)) = 1
                 THEN /\ Unlink(CHOOSE p \in Found(r) : TRUE)
                      /\ Goto("staging_row")
                      /\ UNCHANGED <<rows, dirs, world>>
                 ELSE Blocked
           \/ /\ UncleanKinds(g) = {}
              /\ IF CleanableDirectory(g)
                 THEN /\ RemoveDirectory(g) /\ Goto("staging_attempt")
                      /\ UNCHANGED <<rows, world>>
                 ELSE Blocked
        /\ UNCHANGED events

\* The row of the file, or of the attempt, is cleaned afterwards.
TerminalRow ==
    LET g == Oldest(UncleanAttempts)
    IN  /\ UNCHANGED <<job, zip, included, fs, world, events>>
        /\ Goto("idle")
        /\ \/ /\ At("staging_row")
              /\ SetRow(FirstKind(g), g, Cleaned(rec[FirstKind(g)][g]))
              /\ UNCHANGED att
           \/ /\ At("staging_attempt")
              /\ att' = [att EXCEPT ![g] = "cleaned"]
              /\ UNCHANGED rec

\* mark_staging_cleaned
StagingCleaned ==
    /\ StagingStep /\ UncleanAttempts = {}
    /\ job' = [job EXCEPT !.staging = "cleaned"]
    /\ Goto("idle")
    /\ UNCHANGED <<zip, included, att, rec, fs, world, events>>

-----------------------------------------------------------------------------
(* What happens around the worker.                                         *)

\* A private item, a lost board, a deleted pin.
Revoke(i) ==
    /\ i \in allowed /\ job.state \in ActiveStates /\ Event("revoke")
    /\ allowed' = allowed \ {i}
    /\ UNCHANGED <<rows, owner, fs, proc>>

DeleteOwner ==
    /\ owner /\ Event("delete")
    /\ owner' = FALSE
    /\ UNCHANGED <<rows, allowed, fs, proc>>

\* The ZIP expires, is replaced, or a download finds an item revoked.
Expire ==
    /\ Retained
    /\ job' = [job EXCEPT !.state = "expired", !.ready = "pending"]
    /\ UNCHANGED <<zip, included, att, rec, fs, world, proc, events>>

\* A file operation fails; what it would have changed is unchanged.
StoragePoints ==
    {"mkdir", "mkfile", "stream", "close", "validate", "quarantine",
     "quarantine_move", "rename", "clean", "complete_quarantine",
     "complete_directory"}

StorageFault ==
    \/ /\ proc.pc \in StoragePoints /\ Event("storage") /\ RaiseStorageError
    \/ /\ At("candidate") /\ Event("capture") /\ RaiseExportError

\* Bytes of the closed ZIP change under its receipt.
Damage ==
    /\ Archive.state \in {"closed", "verifying", "publishing"}
    /\ file[job.gen].data = "whole" /\ Event("damage")
    /\ file' = [file EXCEPT ![job.gen].data = "damaged"]
    /\ UNCHANGED <<rows, dirs, disk, world, proc>>

\* A file that is no one's appears where the ZIP will go.
PlaceForeign ==
    /\ disk[Ready] = NoFile /\ (\A p \in Paths : disk[p] # Foreign)
    /\ job.state \in ActiveStates
    /\ Event("foreign")
    /\ disk' = [disk EXCEPT ![Ready] = Foreign]
    /\ file' = [file EXCEPT ![Foreign].ctime = 0]
    /\ UNCHANGED <<rows, dirs, world, proc>>

-----------------------------------------------------------------------------
Build ==
    \/ InitialCheck \/ ApplyRevocations \/ RevocationsApplied \/ MakeDirectory
    \/ RecordDirectory \/ MakeFile \/ RecordOpenFile \/ Stream \/ RecordClosed
    \/ Validate \/ PostBuild \/ Rotate \/ PublishIntent \/ FindCollision
    \/ MoveCollision \/ CloseQuarantine \/ Publish \/ CaptureCandidate
    \/ FinalFence
Recover ==
    \/ CleanFile \/ CleanRow \/ CleanDirectory \/ CleanAttempt \/ CleanDone
    \/ RecoverRetiring \/ RecoverArchiving \/ RotateRecovered \/ RecoverVerifying
Finish ==
    \/ HandoffArchive \/ CompleteQuarantine \/ CompleteRow \/ CompleteDirectory
    \/ CompleteAttempt \/ CompleteDone \/ Release \/ MarkRetiring \/ FailJob
Maintain ==
    \/ TerminalizeOwnerless \/ ClaimComplete \/ ClaimRecovery \/ Requeue
    \/ ClaimNext \/ CleanReady \/ ReadyCleaned \/ StagingSkipped
    \/ TerminalCleanup \/ TerminalRow \/ StagingCleaned

WorkerStep == Start \/ Build \/ Recover \/ Finish \/ Maintain
Environment ==
    \/ Crash \/ Stop \/ (\E i \in Items : Revoke(i)) \/ DeleteOwner \/ Expire
    \/ StorageFault \/ Damage \/ PlaceForeign

Next == WorkerStep \/ Environment
Spec == Init /\ [][Next]_vars

\* A worker that exited is started again, and a running one goes on.
FairSpec == Spec /\ WF_vars(WorkerStep)

-----------------------------------------------------------------------------
(* Safety                                                                  *)

\* A completed export's ZIP is in place under the receipt its row stores, whole,
\* and holds exactly the items its rows count as included (_complete_locked,
\* _post_build_revocations): whatever interrupted the build, it is never the
\* archive of an older item list, a partial file or someone else's.
CompleteArchiveMatches ==
    Retained => /\ Matches(disk[Ready], zip)
                /\ file[zip.ino].data = "whole"
                /\ file[zip.ino].items = included

\* The check constraints of ExportAttemptFile and its unique path: a step, of the
\* build, of a recovery or of the cleanup of a job that failed in the middle of
\* a move, that wrote other rows would end in an IntegrityError every time the
\* step is tried again.
Moving == {<<"archive", "publishing">>, <<"quarantine", "writing">>}
Settled == (Kinds \X {"ready_candidate", "published", "cleaned"})
               \cup {<<"quarantine", "closed">>}
RowConstraints ==
    \A g \in Gens :
        /\ \A k \in Kinds :
             LET r == rec[k][g]
             IN  /\ <<k, r.state>> \in Moving => r.intent # NoPath
                 /\ <<k, r.state>> \in Settled => r.intent = NoPath
                 /\ r.state \in {"closed", "verifying", "publishing",
                                 "ready_candidate", "published"} => r.stamp # Open
        /\ \A k, l \in Kinds : k # l /\ rec[k][g].path = rec[l][g].path
                                 => rec[k][g].path = NoPath

\* An export completes only while the owner may still see every item that is in
\* the ZIP (_final_fence): a permission that was taken away during the build,
\* the verification or a recovery is noticed before the ZIP is offered.
OnlyAllowedPublished ==
    [][job.state # "complete" /\ job'.state = "complete"
         => owner /\ file[zip'.ino].items \subseteq allowed]_vars

\* An attempt that was given up is never taken up again: whatever process finds
\* it cleans it (recover_verifying, recover_retiring), and none verifies or
\* publishes it, even though its file may already be at the ready path.
GivenUpIsFinal ==
    [][\A g \in Gens : /\ att[g] = "retiring" => att'[g] \in {"retiring", "cleaned"}
                       /\ att[g] = "cleaned" => att'[g] = "cleaned"]_vars

\* Only a file some row named by its inode is ever removed, and only by moving
\* it can its path change (remove_if_receipt_matches, _resolve_quarantine): a
\* file nobody recorded survives every recovery and every cleanup.
OnDisk(i) == \E p \in Paths : disk[p] = i
Known(i) == zip.ino = i \/ \E k \in Kinds, g \in Gens : rec[k][g].ino = i
NoStrangerRemoved ==
    [][\A i \in Inodes : OnDisk(i) /\ ~OnDisk(i)' => Known(i)]_vars

\* Nothing is left behind.  A file of the job that no row names any more, or not
\* yet, is the one just being recorded: from then on until it is removed some row
\* leads to it (record_open_file_receipt_db_only, _mark_attempt_file_cleaned).
\* And once a job's cleanup is recorded as done, no file its attempts made is on
\* disk (mark_staging_cleaned allows the row to be deleted then, and with it all
\* that is known of the files).  The one exception is a ZIP that could not be
\* read back after its rename: the cleanup of its attempt looks for it at the
\* path it had before.
Tracked(i) == \E k \in Kinds, g \in Gens :
                rec[k][g].ino = i /\ rec[k][g].state \notin {"none", "cleaned"}
RowsCoverDisk ==
    \A p \in Paths :
        disk[p] \in Gens =>
            \/ Tracked(disk[p])
            \/ zip.ino = disk[p]
            \/ p = Part(disk[p]) /\ att[disk[p]] \in {"writing", "retiring"}
CleanedUp ==
    job.state \in {"failed", "expired"} /\ job.staging = "cleaned"
        /\ job.ready \in {"absent", "cleaned"}
NothingForgotten ==
    events.worst # "unread" =>
        RowsCoverDisk /\ (CleanedUp => \A p \in Paths : disk[p] \notin Gens)

\* Stopping the container, however often, fails no export: what a stop leaves
\* behind, the next worker can take up (handoff_after_normal_stop).
StopsFailNothing == job.state # "failed"

\* The cleanup gives up only over a file that no row of the job names, never
\* over the job's own (_cleanup_attempt_file_fs).
BlockedOnlyByStrangers ==
    job.staging = "blocked" => \E p \in Paths : disk[p] # NoFile /\ ~Known(disk[p])

-----------------------------------------------------------------------------
(* Liveness                                                                *)

Ended == /\ job.state \in {"complete", "failed", "expired"}
         /\ job.staging # "pending" /\ job.ready # "pending"

\* However often the build is interrupted, the export comes to its end and its
\* files are cleaned, or their cleanup is reported as blocked: no crash point
\* leaves a state that every restarted worker runs into again
\* (recover_archiving, recover_verifying, MAX_ABNORMAL_RESUMES).  And stopping
\* the container, however often, does not cost an export, nor does a revocation
\* that leaves something to export: unless something else goes wrong it
\* completes (handoff_after_normal_stop, _post_build_revocations, _final_fence).
ExportSettles ==
    /\ <>[]Ended
    /\ <>(job.state = "complete" \/ allowed = {} \/ events.worst # "delay")
=============================================================================
