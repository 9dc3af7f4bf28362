--------------------------- MODULE ExportSnapshot ---------------------------
(***************************************************************************)
(* The snapshot of one export job: a private copy of the images it will    *)
(* archive (src/exports/services/snapshot.py), what the archive does with  *)
(* it (archive.py) and its removal when the job ends (worker.py).          *)
(*                                                                         *)
(* A generation is planned in the job row, its directory made and its      *)
(* receipt recorded; the metadata of the pins is then frozen into rows and *)
(* every image is copied, while the media gate keeps writers out.  Each    *)
(* transaction may find the database busy: the generation is given up,     *)
(* cleaned outside the gate, and a new one planned.  The process may crash *)
(* or be stopped before any step.                                          *)
(***************************************************************************)
EXTENDS Integers, FiniteSets

CONSTANTS
    Pins,        \* targets of the job
    Owned,       \* those of its owner: the others are pins of other accounts
    Assets,      \* media assets, numbered as source_media_asset_id
    AssetOf,     \* the asset of a pin's image
    Faults,      \* the faults that may happen
    MaxEvents,   \* bound: faults and changes of the world
    MaxResumes   \* MAX_ABNORMAL_RESUMES (3 in worker.py)

FaultKinds == {"crash", "stop", "busy", "storage", "hide", "delete", "account"}

ASSUME SnapshotAssumption ==
    /\ Owned \subseteq Pins /\ IsFiniteSet(Assets) /\ Assets \subseteq Nat
    /\ AssetOf \in [Pins -> Assets] /\ Faults \subseteq FaultKinds
    /\ MaxEvents \in Nat /\ MaxResumes \in Nat

\* A new generation needs an event that gave up the one before.
Gens == 0..MaxEvents
NoGen == -1

JobStates == {"snapshotting", "archiving", "complete", "failed"}
Errors == {"none", "permission_changed", "source_missing", "source_changed",
           "insufficient_space", "export_storage_unsafe", "all_items_revoked",
           "worker_repeated_failure"}

\* What the worker does next: maintenance and claims, capture, its steps under
\* the media gate, the cleanup of a candidate, the archive, and terminal cleanup.
GatePoints == {"plan", "mkdir", "record_directory", "metadata", "renew", "start",
               "record_open", "copy", "rename", "record_closed", "progress",
               "finalize"}
CleanupPoints == {"intent", "clean", "rmdir", "cleaned"}
ProgramCounters ==
    GatePoints \cup CleanupPoints \cup
    {"idle", "budget", "loop", "archive", "built", "excluded", "failing",
     "row", "directory_row"}

VARIABLES
    job,      \* ExportJob: state, error, lease, candidate and confirmed snapshot
    blob,     \* ExportBlob.file_state by asset, "none" where there is no row
    cleaned,  \* assets whose ExportBlob has cleanup_state "cleaned"
    item,     \* ExportItem.inclusion_state by pin, "none" where there is no row
    dirs,     \* snapshot directories on disk, by generation
    file,     \* the file of an asset in each of them
    pin,      \* the pins: eligible, hidden from the owner of the job, or deleted
    source,   \* assets whose image file exists
    owner,    \* the account of the job exists
    proc,     \* the worker process
    events    \* how many faults and changes so far

rows == <<job, blob, cleaned, item>>
disk == <<dirs, file>>
world == <<pin, source, owner>>
vars == <<job, blob, cleaned, item, dirs, file, pin, source, owner, proc, events>>

TypeOK ==
    /\ job \in [state: JobStates, error: Errors, lease: {"none", "held"},
                resume: 0..MaxResumes, cand: Gens \cup {NoGen}, receipt: BOOLEAN,
                snap: Gens \cup {NoGen},
                staging: {"pending", "cleaned", "blocked"}]
    /\ blob \in [Assets -> {"none", "new", "writing", "closed"}]
    /\ cleaned \subseteq Assets
    /\ item \in [Pins -> {"none", "included", "excluded"}]
    /\ dirs \subseteq Gens
    /\ file \in [Gens -> [Assets -> {"none", "part", "final"}]]
    /\ pin \in [Pins -> {"eligible", "hidden", "deleted"}]
    /\ source \subseteq Assets /\ owner \in BOOLEAN
    /\ proc \in [pc: ProgramCounters, reuse: BOOLEAN, error: Errors]
    /\ events \in 0..MaxEvents

Idle == [pc |-> "idle", reuse |-> FALSE, error |-> "none"]

\* A queued job, its targets resolved.
Init ==
    /\ job = [state |-> "snapshotting", error |-> "none", lease |-> "none",
              resume |-> 0, cand |-> NoGen, receipt |-> FALSE, snap |-> NoGen,
              staging |-> "pending"]
    /\ blob = [a \in Assets |-> "none"] /\ cleaned = {}
    /\ item = [p \in Pins |-> "none"]
    /\ dirs = {} /\ file = [g \in Gens |-> [a \in Assets |-> "none"]]
    /\ pin = [p \in Pins |-> "eligible"] /\ source = Assets /\ owner = TRUE
    /\ proc = Idle
    /\ events = 0

-----------------------------------------------------------------------------
(* Helpers. *)

At(pc) == proc.pc = pc
Goto(pc) == proc' = [proc EXCEPT !.pc = pc]
Event(kind) == kind \in Faults /\ events < MaxEvents /\ events' = events + 1
Quiet == UNCHANGED <<world, events>>

\* An ExportError on its way to fail_job.
Raise(error) == proc' = [proc EXCEPT !.pc = "failing", !.error = error]

\* _fail_locked
Failed(error) == [job EXCEPT !.state = "failed", !.error = error,
                             !.staging = "pending", !.lease = "none"]

HasRow(a) == blob[a] # "none"
Least(S) == CHOOSE a \in S : \A b \in S : a <= b

\* The generation whose directory a cleanup removes: the candidate first.
Generation == IF job.cand # NoGen THEN job.cand ELSE job.snap
Exists(g) == g \in dirs
FileOf(a) == file[Generation][a]
Present == {a \in Assets : FileOf(a) # "none"}
Write(a, f) == file' = [file EXCEPT ![Generation][a] = f]
RemoveFile(a) == Write(a, "none") /\ UNCHANGED dirs
RemoveDirectory == dirs' = dirs \ {Generation} /\ UNCHANGED file

\* Files the receipts of the rows account for: an open receipt matches the file
\* under both names, a closed one under its own.
Matches_FirstName(a) == \/ blob[a] = "writing" /\ FileOf(a) = "part"
                        \/ blob[a] = "closed" /\ FileOf(a) = "final"
Matches(a) == \/ blob[a] = "writing" /\ FileOf(a) \in {"part", "final"}
              \/ blob[a] = "closed" /\ FileOf(a) = "final"

\* The pin is the account's own; without an account none is.
Mine(p) == owner /\ p \in Owned
Included == {p \in Pins : item[p] = "included"}

-----------------------------------------------------------------------------
(* The world: events that no run of the worker waits for. *)

\* A pin is made private or given away, or shown again.
Hide(p) ==
    /\ pin[p] # "deleted" /\ Event("hide")
    /\ pin' = [pin EXCEPT ![p] = IF @ = "hidden" THEN "eligible" ELSE "hidden"]
    /\ UNCHANGED <<rows, disk, source, owner, proc>>

DeletePin(p) ==
    /\ pin[p] # "deleted" /\ Event("delete")
    /\ pin' = [pin EXCEPT ![p] = "deleted"]
    /\ UNCHANGED <<rows, disk, source, owner, proc>>

\* The pins of the account go with it; the job stays, without an owner.
DeleteAccount ==
    /\ owner /\ Event("account") /\ owner' = FALSE
    /\ pin' = [p \in Pins |-> IF p \in Owned THEN "deleted" ELSE pin[p]]
    /\ UNCHANGED <<rows, disk, source, proc>>

\* The image of the last pin is unlinked under the media lock, which the gate
\* of the snapshot excludes.
GateHeld_Metadata == proc.pc \in {"plan", "mkdir", "record_directory", "metadata"}
GateHeld == proc.pc \in GatePoints
UnlinkSource(a) ==
    /\ a \in source /\ ~GateHeld
    /\ \A p \in Pins : AssetOf[p] = a => pin[p] = "deleted"
    /\ source' = source \ {a}
    /\ UNCHANGED <<rows, disk, pin, owner, proc, events>>

-----------------------------------------------------------------------------
(* Claims, and the end of the process. *)

Resumed == IF job.lease = "held" THEN job.resume + 1 ELSE job.resume
MayResume_OffByOne == job.resume <= MaxResumes
MayResume == Resumed <= MaxResumes
Active == job.state \in {"snapshotting", "archiving"}

\* An archive under way may owe the cleanup of blobs excluded before the crash.
Claim ==
    /\ At("idle") /\ Active /\ owner /\ MayResume
    /\ job' = [job EXCEPT !.lease = "held", !.resume = Resumed]
    /\ IF job.snap = NoGen THEN Goto("budget")
       ELSE \E pc \in {"archive", "excluded"} : Goto(pc)
    /\ UNCHANGED <<blob, cleaned, item, disk>> /\ Quiet

\* The account is gone (_terminalize_ownerless_active), or the job has been
\* taken over too often.
GiveUp ==
    /\ At("idle") /\ Active /\ (~owner \/ ~MayResume)
    /\ job' = Failed(IF owner THEN "worker_repeated_failure"
                     ELSE "permission_changed")
    /\ UNCHANGED <<blob, cleaned, item, disk, proc>> /\ Quiet

\* A crash leaves the lease to expire; a normal stop hands the job back.
Interrupt ==
    /\ ~At("idle") /\ proc' = Idle
    /\ \/ Event("crash") /\ UNCHANGED job
       \/ Event("stop") /\ job' = [job EXCEPT !.lease = "none"]
    /\ UNCHANGED <<blob, cleaned, item, disk, world>>

\* fail_job
Fail ==
    /\ At("failing") /\ job' = Failed(proc.error) /\ proc' = Idle
    /\ UNCHANGED <<blob, cleaned, item, disk>> /\ Quiet

\* A file operation fails, or space is short.
StoragePoints == {"budget", "mkdir", "renew", "start", "copy", "rename", "built"}
StorageFault ==
    /\ proc.pc \in StoragePoints /\ Event("storage") /\ Raise("insufficient_space")
    /\ UNCHANGED <<rows, disk, world>>

-----------------------------------------------------------------------------
(* capture, and _capture_once under the media gate. *)

\* _space_budget
Budget ==
    /\ At("budget")
    /\ IF owner THEN Goto("loop") ELSE Raise("permission_changed")
    /\ UNCHANGED <<rows, disk>> /\ Quiet

Loop ==
    /\ At("loop")
    /\ IF job.cand # NoGen /\ ~proc.reuse THEN Goto("intent") ELSE Goto("plan")
    /\ UNCHANGED <<rows, disk>> /\ Quiet

\* A transaction finds the database busy: the gate is left and the candidate
\* cleaned.  Before the metadata is written, the prepared directory is kept.
LeasePoints == GatePoints \ {"mkdir", "metadata", "copy"}
CaptureBusy ==
    /\ Event("busy")
    /\ \/ proc.pc \in LeasePoints /\ Goto("intent")
       \/ At("metadata") /\ proc' = [proc EXCEPT !.pc = "loop", !.reuse = TRUE]
    /\ UNCHANGED <<rows, disk, world>>

\* _plan_candidate, and the reuse of a prepared directory.  Two plans are apart
\* by an event, so that the number of events is a fresh generation.
Plan ==
    /\ At("plan")
    /\ IF ~owner THEN Raise("permission_changed") /\ UNCHANGED job
       ELSE IF job.cand = NoGen
       THEN /\ job' = [job EXCEPT !.cand = events, !.staging = "pending"]
            /\ Goto("mkdir")
       ELSE /\ UNCHANGED job
            /\ IF ~job.receipt \/ \E a \in Assets : HasRow(a) THEN Goto("intent")
               ELSE IF Exists(job.cand) THEN Goto("metadata")
               ELSE Raise("export_storage_unsafe")
    /\ UNCHANGED <<blob, cleaned, item, disk>> /\ Quiet

\* _prepare_directory
MakeDirectory ==
    /\ At("mkdir") /\ dirs' = dirs \cup {job.cand} /\ Goto("record_directory")
    /\ UNCHANGED <<rows, file>> /\ Quiet

RecordDirectory ==
    /\ At("record_directory") /\ job' = [job EXCEPT !.receipt = TRUE]
    /\ Goto("metadata")
    /\ UNCHANGED <<blob, cleaned, item, disk>> /\ Quiet

\* _build_metadata: a pin that is gone or hidden is left out, unless it is the
\* account's own and gone.
RecordMetadata ==
    LET kept == {p \in Pins : pin[p] = "eligible"} IN
    /\ At("metadata")
    /\ IF ~owner THEN Raise("permission_changed") /\ UNCHANGED <<item, blob>>
       ELSE IF \E p \in Owned : pin[p] = "deleted"
       THEN Raise("source_missing") /\ UNCHANGED <<item, blob>>
       ELSE /\ item' = [p \in Pins |-> IF p \in kept THEN "included" ELSE "none"]
            /\ blob' = [a \in Assets |-> IF \E p \in kept : AssetOf[p] = a
                                         THEN "new" ELSE "none"]
            /\ Goto("renew")
    /\ UNCHANGED <<job, cleaned, disk>> /\ Quiet

\* verify_space and the renewal of the lease before the first file.
Renew == At("renew") /\ Goto("start") /\ UNCHANGED <<rows, disk>> /\ Quiet

\* _capture_blobs takes the blobs one by one, in the order of their assets.
Left == {a \in Assets : blob[a] \in {"new", "writing"}}
Current == Least(Left)

StartBlob ==
    /\ At("start")
    /\ IF Left = {} THEN Goto("finalize") /\ UNCHANGED disk
       ELSE IF Current \notin source THEN Raise("source_missing") /\ UNCHANGED disk
       ELSE Write(Current, "part") /\ UNCHANGED dirs /\ Goto("record_open")
    /\ UNCHANGED rows /\ Quiet

RecordOpenBlob ==
    /\ At("record_open") /\ blob' = [blob EXCEPT ![Current] = "writing"]
    /\ Goto("copy")
    /\ UNCHANGED <<job, cleaned, item, disk>> /\ Quiet

CopyBlob == At("copy") /\ Goto("rename") /\ UNCHANGED <<rows, disk>> /\ Quiet

\* The check of the lease, then rename_noreplace.
RenameBlob ==
    /\ At("rename") /\ Write(Current, "final") /\ UNCHANGED dirs
    /\ Goto("record_closed")
    /\ UNCHANGED rows /\ Quiet

RecordClosedBlob ==
    /\ At("record_closed") /\ blob' = [blob EXCEPT ![Current] = "closed"]
    /\ Goto("progress")
    /\ UNCHANGED <<job, cleaned, item, disk>> /\ Quiet

RecordProgress == At("progress") /\ Goto("start") /\ UNCHANGED <<rows, disk>> /\ Quiet

\* _finalize: the candidate becomes the confirmed snapshot.
Finalize ==
    /\ At("finalize")
    /\ job' = [job EXCEPT !.snap = job.cand, !.cand = NoGen,
                          !.state = "archiving"]
    /\ Goto("archive")
    /\ UNCHANGED <<blob, cleaned, item, disk>> /\ Quiet

-----------------------------------------------------------------------------
(* _cleanup_candidate: outside the gate, and repeated until the database has *)
(* been free for each of its transactions.                                   *)

\* CLEANUP_CAS_RETRY_SECONDS have passed: capture starts over from its loop.
CleanupBusy ==
    /\ proc.pc \in CleanupPoints /\ Event("busy") /\ Goto("loop")
    /\ UNCHANGED <<rows, disk, world>>

ToRemove_Receipted == job.receipt /\ Exists(job.cand)
ToRemove == Exists(job.cand)
RecordIntent ==
    /\ At("intent")
    /\ IF job.cand = NoGen THEN Goto("loop") /\ UNCHANGED job
       ELSE /\ job' = [job EXCEPT !.staging = "pending"]
            /\ IF ToRemove THEN Goto("clean") ELSE Goto("cleaned")
    /\ UNCHANGED <<blob, cleaned, item, disk>> /\ Quiet

\* A file whose receipt was not recorded may go while it is empty, under its
\* first name only.
MayRemove(a) == Matches(a) \/ (blob[a] = "new" /\ FileOf(a) = "part")
CleanFile ==
    /\ At("clean")
    /\ IF Present = {} THEN Goto("rmdir") /\ UNCHANGED disk
       ELSE LET a == Least(Present) IN
            IF MayRemove(a) THEN RemoveFile(a) /\ UNCHANGED proc
            ELSE Raise("export_storage_unsafe") /\ UNCHANGED disk
    /\ UNCHANGED rows /\ Quiet

CleanDirectory ==
    /\ At("rmdir") /\ RemoveDirectory /\ Goto("cleaned")
    /\ UNCHANGED rows /\ Quiet

\* The rows go with the plan, in one transaction.
CandidateCleaned ==
    /\ At("cleaned")
    /\ job' = [job EXCEPT !.cand = NoGen, !.receipt = FALSE, !.staging = "cleaned"]
    /\ blob' = [a \in Assets |-> "none"] /\ item' = [p \in Pins |-> "none"]
    /\ proc' = [proc EXCEPT !.pc = "loop", !.reuse = FALSE]
    /\ UNCHANGED <<cleaned, disk>> /\ Quiet

-----------------------------------------------------------------------------
(* The archive: the items a revocation takes out, and their blobs. *)

\* revoked_item_ids: a pin of the account itself may be deleted meanwhile.
Revoked == {p \in Included : IF Mine(p) THEN pin[p] = "hidden"
                                        ELSE pin[p] # "eligible"}
ApplyRevocations ==
    item' = [p \in Pins |-> IF p \in Revoked THEN "excluded" ELSE item[p]]

\* _initial_permission_check and _archive_inputs
InitialCheck ==
    /\ At("archive") /\ ApplyRevocations
    /\ IF Included \subseteq Revoked THEN Raise("all_items_revoked")
       ELSE IF \E p \in Included \ Revoked :
                   blob[AssetOf[p]] # "closed" \/ AssetOf[p] \in cleaned
       THEN Raise("export_storage_unsafe")
       ELSE Goto("built")
    /\ UNCHANGED <<job, blob, cleaned, disk>> /\ Quiet

\* A revocation while the ZIP was built or published: the attempt is given up
\* and another one follows.  _complete_locked otherwise.
PostBuild ==
    /\ At("built")
    /\ \/ /\ Revoked # {} /\ ApplyRevocations /\ Goto("excluded") /\ UNCHANGED job
       \/ /\ Revoked = {} /\ owner
          /\ job' = [job EXCEPT !.state = "complete", !.lease = "none"]
          /\ proc' = Idle /\ UNCHANGED item
       \/ /\ ~owner /\ job' = Failed("permission_changed")
          /\ proc' = Idle /\ UNCHANGED item
    /\ UNCHANGED <<blob, cleaned, disk>> /\ Quiet

\* _cleanup_excluded_blobs: blobs that no included item refers to any more.
Excluded_Any == {a \in Assets \ cleaned :
                    HasRow(a) /\ \E p \in Pins : AssetOf[p] = a /\ item[p] = "excluded"}
Excluded == {a \in Assets \ cleaned :
                HasRow(a) /\ \A p \in Included : AssetOf[p] # a}
CleanExcluded ==
    /\ At("excluded")
    /\ IF Excluded \cap Present # {}
       THEN /\ RemoveFile(Least(Excluded \cap Present))
            /\ UNCHANGED <<cleaned, proc>>
       ELSE /\ cleaned' = cleaned \cup Excluded /\ Goto("archive") /\ UNCHANGED disk
    /\ UNCHANGED <<job, blob, item>> /\ Quiet

-----------------------------------------------------------------------------
(* The end: recover_complete (archive.py) and _terminal_staging_cleanup *)
(* (worker.py), a step of either in every pass of the worker.           *)

Uncleaned == {a \in Assets \ cleaned : HasRow(a)}
Cleaning(state) == At("idle") /\ job.state = state /\ job.staging = "pending"

CompleteFiles ==
    /\ Cleaning("complete") /\ Uncleaned # {}
    /\ IF Present # {} THEN RemoveFile(Least(Present)) /\ UNCHANGED cleaned
       ELSE cleaned' = cleaned \cup Uncleaned /\ UNCHANGED disk
    /\ UNCHANGED <<job, blob, item, proc>> /\ Quiet

Cleared == [job EXCEPT !.cand = NoGen, !.snap = NoGen, !.receipt = FALSE]

CompleteDirectory ==
    /\ Cleaning("complete") /\ Uncleaned = {} /\ job.snap # NoGen
    /\ IF Exists(job.snap) THEN RemoveDirectory /\ UNCHANGED job
       ELSE job' = Cleared /\ UNCHANGED disk
    /\ UNCHANGED <<blob, cleaned, item, proc>> /\ Quiet

StagingCleaned ==
    /\ \E state \in {"complete", "failed"} : Cleaning(state)
    /\ Uncleaned = {} /\ Generation = NoGen
    /\ job' = [job EXCEPT !.staging = "cleaned"]
    /\ UNCHANGED <<blob, cleaned, item, disk, proc>> /\ Quiet

Blocked == /\ job' = [job EXCEPT !.staging = "blocked"]
           /\ UNCHANGED <<disk, proc>>

\* A file that no receipt accounts for is not touched: the cleanup is blocked.
TerminalFile ==
    /\ Cleaning("failed") /\ Generation # NoGen /\ Uncleaned # {}
    /\ LET a == Least(Uncleaned) IN
       IF ~Exists(Generation) \/ FileOf(a) = "none"
       THEN Goto("row") /\ UNCHANGED <<job, disk>>
       ELSE IF Matches(a) THEN RemoveFile(a) /\ Goto("row") /\ UNCHANGED job
       ELSE Blocked
    /\ UNCHANGED <<blob, cleaned, item>> /\ Quiet

TerminalRow ==
    /\ At("row") /\ cleaned' = cleaned \cup {Least(Uncleaned)} /\ proc' = Idle
    /\ UNCHANGED <<job, blob, item, disk>> /\ Quiet

TerminalDirectory ==
    /\ Cleaning("failed") /\ Generation # NoGen /\ Uncleaned = {}
    /\ IF Present # {} THEN Blocked
       ELSE RemoveDirectory /\ Goto("directory_row") /\ UNCHANGED job
    /\ UNCHANGED <<blob, cleaned, item>> /\ Quiet

TerminalDirectoryRow ==
    /\ At("directory_row") /\ job' = Cleared /\ proc' = Idle
    /\ UNCHANGED <<blob, cleaned, item, disk>> /\ Quiet

-----------------------------------------------------------------------------
Capture == \/ Budget \/ Loop \/ Plan \/ MakeDirectory \/ RecordDirectory
           \/ RecordMetadata \/ Renew \/ StartBlob \/ RecordOpenBlob \/ CopyBlob
           \/ RenameBlob \/ RecordClosedBlob \/ RecordProgress \/ Finalize
CleanCandidate == RecordIntent \/ CleanFile \/ CleanDirectory \/ CandidateCleaned
ArchiveStep == InitialCheck \/ PostBuild \/ CleanExcluded
End == \/ CompleteFiles \/ CompleteDirectory \/ StagingCleaned \/ TerminalFile
       \/ TerminalRow \/ TerminalDirectory \/ TerminalDirectoryRow

WorkerStep == Claim \/ GiveUp \/ Fail \/ Capture \/ CleanCandidate \/ ArchiveStep \/ End
Environment == \/ \E p \in Pins : Hide(p) \/ DeletePin(p)
               \/ \E a \in Assets : UnlinkSource(a)
               \/ DeleteAccount \/ Interrupt \/ StorageFault
               \/ CaptureBusy \/ CleanupBusy

Next == WorkerStep \/ Environment
Spec == Init /\ [][Next]_vars

\* The supervisor restarts the worker, and the worker goes on.
FairSpec == Spec /\ WF_vars(WorkerStep)

-----------------------------------------------------------------------------
(* Properties. *)

\* Whatever was revoked, excluded and cleaned on the way, the snapshot that is
\* archived has the whole file of every item that is still included.
SnapshotWhole ==
    job.state = "archiving" =>
        /\ job.snap \in dirs /\ job.cand = NoGen
        /\ \A p \in Included : LET a == AssetOf[p] IN
              /\ blob[a] = "closed" /\ a \notin cleaned
              /\ file[job.snap][a] = "final"

\* No directory and no file is lost sight of, whatever was interrupted: the row
\* of the job names it, and a cleanup that reports success has left nothing.
NothingForgotten ==
    /\ \A g \in dirs : g \in {job.cand, job.snap}
    /\ \A g \in Gens, a \in Assets :
          file[g][a] # "none" => g \in dirs /\ HasRow(a) /\ a \notin cleaned
    /\ job.staging = "cleaned" => dirs = {}

\* An export fails for what happened to it.  The media gate is held from the
\* frozen metadata to the last copy, so that a source is only missing when a pin
\* of the account is; and of the files of its own only one state fails it: a busy
\* database kept the directory of a prepared generation from being forgotten
\* after it was removed (capture keeps reuse_prepared, snapshot.py:1604).
FailsForCause ==
    /\ job.error = "source_missing" => \E p \in Owned : pin[p] = "deleted"
    /\ job.error = "permission_changed" => ~owner
    /\ job.error = "export_storage_unsafe" => dirs = {} /\ Left = {}

\* Every export ends and what it copied is removed.  A cleanup is given up only
\* for the first file of a blob, made just before its receipt would have been
\* recorded (worker.py:2190).
UnrecordedFile == \E a \in Assets : blob[a] = "new" /\ file[job.cand][a] = "part"
SnapshotSettles ==
    <>[]( /\ job.state \in {"complete", "failed"}
          /\ job.staging = "cleaned" \/ (job.staging = "blocked" /\ UnrecordedFile))

=============================================================================
