# A TLA+ model of SVRx Pinry

SVRx Pinry is a self-hosted image board (Django, SQLite or PostgreSQL, one
container) that lets an account export its pins as a ZIP file.  This directory
holds TLA+ modules that model its concurrent and failure-prone parts, TLC
configurations that check them on small instances, and TLAPS proofs of the
results that matter most.

    tlc -workers 2 -config ExportLeasesTwoWorkers.cfg MCExportLeases
    tlc -workers 2 -config ExportAttempts.cfg ExportAttempts
    tlc -workers 2 -config ExportSnapshot.cfg MCExportSnapshot
    tlc -workers 2 -config PinImport.cfg MCPinImport
    tlc -workers 2 -config LegacyStartup.cfg MCLegacyStartup
    tlc -workers 2 -config RuntimeSupervisor.cfg RuntimeSupervisor
    tlapm ExportLeases_proofs.tla
    tlapm ExportAttempts_proofs.tla
    tlapm ExportSnapshot_proofs.tla
    tlapm PinImportSafety_proofs.tla
    tlapm LegacyStartup_proofs.tla
    tlapm RuntimeSupervisor_proofs.tla

## 1. The system

| Component | State it keeps | Operations | Interacts with | Correct when |
|---|---|---|---|---|
| Export worker and leases (`exports/services/worker.py`, `contracts.py`, `models.py`) | `ExportWorkerLease` (one row), the lease fields of `ExportJob`, the heartbeat's token in memory, `.worker.lock` | acquire, heartbeat, maintenance, four claims, hand-over, fail, release | every export service, the supervisor, the web process | at most one process writes for a job; no accepted export is lost; processing is sequential |
| Export attempts and archives (`attempts.py`, `archive.py`, `file_ops.py`) | `ExportAttempt`, `ExportAttemptFile`, the attempt directory, `ready/<job>.zip` | build, verify, publish by rename, recover, clean | worker, snapshot, download | only a verified ZIP is published; nothing on disk is forgotten; nothing unknown is deleted |
| Export snapshot (`snapshot.py`) | candidate and confirmed generation, `ExportBlob`, the snapshot directory | plan, capture, finalize, drop | worker, media storage | an archive is built from one consistent snapshot |
| Export requests (`jobs.py`, `targeting.py`, `views.py`) | `ExportJob`, `ExportSlot`, `ExportTarget` | create, list, delete of cleaned rows | worker health, slot | one active export for each account, at most three rows |
| Export download (`download.py`) | nothing of its own | authorize, open, authorize again | ready file, permissions of pins | no revoked or replaced ZIP is handed out |
| Database fence (`core/services/database_fence.py`) | the write lock of the database | `BEGIN IMMEDIATE`, table locks | everything that writes | transactions are serial |
| Pin import (`idempotency.py`, `pin_import.py`, `batch_import.py`) | `BatchImportItem` with a lease, `MediaAsset`, files | claim, fence, commit, replay | media storage, deletion | an item makes at most one pin, an image is stored once |
| Pins, boards, tags (`core/models.py`, `views.py`, `bulk_pin_management.py`, ...) | rows | CRUD, bulk edits | export revocation, deletion | counters and covers agree with membership |
| Media storage and backfill (`media_storage.py`, `media_asset_backfill.py`) | staging and final files, manifest | prepare, publish, compensate; resumable backfill | import, migration | no half-published asset; a torn manifest is repaired |
| Media deletion and cleanup (`media_deletion.py`, `media_cleanup.py`, `media_archive.py`) | media files | delete last reference, collect orphans | import | a referenced file is never removed |
| Media migration (`media_migration_v2.py`, `media_asset_backfill.py`, `media_archive.py`, `legacy_startup.py`, `startup_preflight.py`, `sqlite_snapshot.py`, `migration_state.py`, `migration_batch_log.py`, ...) | the run directory with its state file, the frozen plans, the batch journal and its checkpoint, the database snapshot, staging and canonical files, old directories | inspect, snapshot, plan, copy and switch in batches, register, archive, complete; resume or repair on the next start | supervisor, media storage | no row names a file that can still be lost; the application never runs on half-migrated data; a stop anywhere resumes |
| Container supervisor (`docker/scripts/supervisor.py`, `startup_recovery.py`, `migration_status.py`, `migration_worker.py`) | child processes, the maintenance marker, the status file, the retry budget | spawn, drive the worker, readiness, gate transition, serve, hold, retry, clean up | migration, web application, export worker | the gate opens only for a finished migration and a ready application; one writer at a time; a lost child closes the gate |
| Users and SSO (`users/`) | login attempts, identities | begin, finish, recover | provider | an attempt is used once |
| Single-page application (`pinry-spa/src`) | browser state | import queue, bulk executor | API | requests are not repeated |
| Plugins, locale, templates, deployment | none | | | |

The hard behaviours are, in the exports: two kinds of processes (the web
application and the worker) share rows, every file operation can be separated
from its row by a crash, a container can be stopped (SIGTERM, hand-over) or
killed (takeover) at any point, an old worker may survive beside a new one, and
accounts, pins and permissions change while an export is being built.  In the
imports: several request handlers and maintenance commands work on the same
items, the same content and the same files, held apart only by a lease, row
locks and two kinds of `flock`, and files and rows change at different times.
In the migration: one process, but every write can be cut by a signal or undone
by a power loss, and each later start has to tell from what is left how far the
one before it came.  In the supervisor: children that die, hang, or exit after
the last SIGKILL, and SIGTERM between any two steps of opening the gate.

## 2. The modules

| Module | Models |
|---|---|
| `ExportLeases` | how export workers take turns, claim, hand over, take over, fail, finish and clean up jobs, and how the account's slot follows |
| `MCExportLeases` | the instances TLC checks |
| `ExportLeases_proofs` | theorems about `ExportLeases` |
| `ExportAttempts` | how one job's ZIP is built, verified, published and cleaned, file operation by file operation, through crashes, stops and errors |
| `ExportAttempts_proofs` | theorems about `ExportAttempts` |
| `ExportSnapshot` | how the worker copies the images of one job, what the archive takes out of the copy, and how it is removed |
| `MCExportSnapshot` | the instance TLC checks |
| `ExportSnapshot_proofs` | theorems about `ExportSnapshot` |
| `PinImport` | how request handlers import and delete pins at the same time, share images, and remove or leave behind files |
| `MCPinImport` | the instance TLC checks |
| `PinImport_proofs` | theorems: types, one pin for an item, settled by the lease holder |
| `PinImportSafety_proofs` | the inductive invariant about locks, rows and files; theorems: images, pins, files, failures |
| `LegacyDisk` | the state of the migration: what is on the disk and in the tables, and what survives a stop |
| `MigrationJournal` | the batch journal: operators on it, and which events it accepts |
| `LegacySnapshot` | the run's state file, the copy of the database, the removal of orphaned rows |
| `LegacyPaths` | the plan of the path phase; copy, sync, rename, announce, switch, commit; verification and repair |
| `LegacyRegistry` | the plan and the batches of the registry phase |
| `LegacyArchive` | the old directories leave their place one by one; completion |
| `LegacyStartup` | composes these four with starts, stops, power losses and damage |
| `MediaCutover` | the abstract specification that `LegacyStartup` implements |
| `MCLegacyStartup` | the instances TLC checks |
| `LegacyBatches_proofs` | lemmas: every start cuts the images left into the same batches |
| `LegacyStartup_proofs` | theorems about `LegacyStartup`: its safety and that it implements `MediaCutover` |
| `RuntimeSupervisor` | the supervisor, its children, the maintenance gate, the recovery page and its retries |
| `RuntimeSupervisor_proofs` | theorems about `RuntimeSupervisor` |

### ExportLeases

State.  `row` is the one `ExportWorkerLease` row; `held` stands for its
`lease_uuid`, whose value is determined by the generation.  `proc[w]` is one
worker process: its program counter in `run_once`, its generation, the token of
its heartbeat (`token`), the token its foreground thread works with (`held`) and
whether the current call of a service started the build itself (`building`).
The other variables are columns of `ExportJob`, `ExportAttempt` and `ExportSlot`
with the names of the source, except `fence` (the three columns
`LeaseToken.job_fence` compares), `snap` (which snapshot generation column is
set) and `due` (`expires_at` has passed).  `issued` and `losses` are history
variables.

Steps.  Every transaction of the code runs inside `database_write_fence`, so
transactions are serial and each is one action; between two actions anything
else may happen.  The program counter follows `_run_once_active`: `ownerless ->
complete -> expire -> ready -> staging -> orphans -> allowed` are the
transactions of `cleanup_expired_and_stale`, `retiring -> verifying -> requeue ->
retiring2 -> queued` the claims, `work` the services under the claimed lease, and
`failing`, `finishing`, `ownerclean`, `releasing` the ways a claimed job ends.
A loop over the files of one cleanup pass is one action that ends cleaned or
blocked.  `_TokenTransition` holds the heartbeat's lock until the transaction is
committed, so row and token change in one action, as they do for the heartbeat.

Environment.  Accounts create exports and are deleted; exports become overdue;
downloads expire them; a process crashes, is stopped, meets a storage error or
an `ExportError`; another process may start while the older one still runs if
its export root differs (`Root`): the `flock` on `.worker.lock` excludes only
processes with the same root.

What is left out: the branches of `fail_job` and `handoff_after_normal_stop` for
a job that ended meanwhile (`HeartbeatAgreesWithRow` shows they are not
reached), the retry of a busy database, progress counters and error texts.

Bounds.  `MaxJobs`, `MaxGeneration` (worker incarnations) and `MaxAttempt`
(attempt generations) bound the state; `MaxAbnormalResumes` is a constant of the
code, made small.  Faults stop at the last generation (`MayRestart`), so the
last worker of every behaviour runs undisturbed, and a revocation takes an
attempt generation only while enough are left for recoveries (`MayRevoke`).
That each worker incarnation has one to recover with (`MaxGeneration <=
MaxAttempt`) is assumed of the bounds: the columns of the code have no limit.
Deadlock is not checked: when nothing is left to do, the last worker waits.

Fairness.  `FairSpec` asks weak fairness of `WorkerStep(w)`: the supervisor
starts a worker that exited again (`_maintain_export_worker`), and a running
worker is a sequential program that goes on.  No fairness is asked of crashes,
stops, errors, accounts or downloads.  A cleanup may meet an I/O error
(`CleanupPutOff`): it stays pending, is tried again in a later run, and counts as
work, so that this run claims nothing (`_run_once_active`, worker.py:3245).  One
file that can never be deleted would therefore hold up every export.  `FairSpec`
assumes that it does not come to that: strong fairness of `CleanupDone(w)`, a
cleanup that is tried again and again is carried out at last.  Without it
`EveryExportEnds` is violated by a run that is put off for ever.

### ExportAttempts

This module looks at one job whose snapshot is confirmed and at one worker at a
time; that no second worker writes for the job is what `ExportLeases` shows.

State.  `job`, `att` and `rec` are the rows of `ExportJob`, `ExportAttempt` and
`ExportAttemptFile` (by kind and attempt generation); `zip` is the receipt in
`ExportJob.ready_*`; `included` are the items still in the export, `allowed` the
items the owner may see.  `disk` maps paths to inodes, `file` gives the ctime and
the content of an inode, `dirs` the attempt directories.  An attempt creates at
most one file, so its generation names the inode, and `Foreign` is a file nobody
recorded.  A receipt is an inode and, once the file is closed, its ctime, which a
rename changes: that is all `OpenFileReceipt` and `ClosedFileReceipt` tell apart
here.  `proc` is the worker: the step it is at, which service it is in (`mode`,
which decides what an error does), the attempt it cleans and where it goes on.

Steps.  Every file operation (`create_directory_fs`, the rename, each unlink and
rmdir) and every transaction is an action, in the order of `build_and_publish`,
`recover_archiving`, `recover_verifying`, `recover_retiring`, `recover_complete`
and `_terminal_staging_cleanup`.  Row and file therefore change in different
steps, and a fault can come between them.  A failed file operation of
`build_and_publish` retires the attempt and fails the job, unless it comes in the
cleanup after a rotation (`AfterRotation`): the attempt is then to be marked under
the token of before the rotation, the row refuses it, and the process ends.

Faults.  `Faults` chooses which may happen: the process dies, is stopped at a
checkpoint, or is stopped while a transaction waits for the database; a file
operation fails; reading the ZIP back after its rename fails; the content of a
closed ZIP changes before it is read back; an unknown file appears at the ready
path; a permission is taken away; the account is deleted.

What is left out: the blobs and the directory of the snapshot (they are in
`ExportSnapshot`), progress,
permissions that are given back, damage after the last hash (a download finds
it), and a ready directory that disappears (the container creates it at start).
An empty attempt directory whose row was not written is removed only by a
recovery; if the job ends first, the directory stays, which `NothingForgotten`
does not count.

Bounds.  `MaxEvents` bounds faults, revocations and deletions together; an
attempt generation is only spent after one of them.  Three are enough for a
revocation or an unknown file, an error during the step that follows, and a
crash in its recovery.  Two items make a revocation that leaves something to
export; the runs about cleanup need one.

Fairness.  `FairSpec` asks weak fairness of the worker as a whole: the
supervisor starts it again, and it is a sequential program.

### ExportSnapshot

State.  `job` is the row of `ExportJob`: state, error, lease, resume count, and
the candidate and the confirmed generation with whether the directory's receipt
is recorded; `blob` and `cleaned` are the rows of `ExportBlob`, `item` those of
`ExportItem`.  `dirs` and `file` are the directories and files on disk; a file is
`.part` or has its final name.  `pin`, `source` and `owner` are what the rest of
the system changes meanwhile.  `proc` is the worker: its step, and the local
variable `reuse_prepared` of `capture`.

Steps.  `capture` plans a generation, makes its directory, freezes the metadata
and copies blob after blob while it holds the media gate; each file operation and
each transaction is an action.  A transaction that finds the database busy
(`CaptureBusy`) leaves the gate and has the candidate cleaned; the cleanup itself
may be busy too (`CleanupBusy`).  The archive applies revocations, removes blobs
nobody needs any more and starts over; at the end `recover_complete` or
`_terminal_staging_cleanup` removes what is left, one step in each pass.

Environment.  Pins are hidden, shown again, given away or deleted, the account
is deleted, and the image of the last pin is unlinked, which the media gate
excludes while it is held.

What is left out: how the ZIP is written (`ExportAttempts`), sizes and names,
sources that somebody changes by hand, and a media gate that others hold, for
which `capture` waits.

Bounds.  `MaxEvents` bounds faults and changes together; a new generation needs
an event that gave up the one before, so there are as many generations.  Four
events are enough for a busy database, a busy cleanup, another fault in the
second generation and a revocation.  Three pins on two images: a shared image and
one of its own, a pin of the account and others.  `MaxResumes` is 1 instead of 3.

Fairness.  `FairSpec` asks weak fairness of the worker as a whole, as above.

### PinImport

State.  `item` are the `BatchImportItem` rows: state, `attempt_generation` (`gen`),
whether `lease_expires_at` has passed (`expired`), whether a failure may be
retried, and the pin.  `images` are the assets with rows (`Image`, `Thumbnail`,
`MediaAsset`), `pins` gives the image of each `Pin`, `pending` are the assets with
`PendingMediaDeletion` rows.  `disk` holds a staging directory and the published
files of an asset, whose four files are one here.  `proc[h]` is one request
handler or command: its step, the import it works on and its lease generation,
the row it has read, the image and pin it deals with, and the two locks it
holds: the dedup lock of a content (`_acquire_media_dedup_lock`, `dedup`) and the
lifecycle lock of the media storage (`media`), which imports share.  An import
uses a fresh `asset_uuid` under each generation, so the pair of both names the
asset and the pin.  `made` and `abandoned` are history variables.

Steps.  An item is claimed (`Ask`, `Reclaim`: read, then compare and swap, up to
`_CAS_REEVALUATION_LIMIT` times), fetched and staged (`Prepare`), both locks are
taken, the row is locked and compared (`Fence`), the image is reused or published,
and rows, pin and the item's success are committed together (`Commit`); then the
staging directory goes (`Finish`).  An error rolls the transaction back, gives
the locks up, removes the files (`Compensate`) and only then records the failure.
A deletion reads the pin, takes the dedup lock (which it waits for until a
deadline; the model lets it give up whenever another holds the lock), compares
inside the transaction, deletes the image with its last pin and journals its files;
they are removed after the commit by the same handler or by
`retry_media_deletions`.  `cleanup_orphan_media` scans first and looks again under
the lock.  One `Commit` is one action because everything it reads is locked:
`RowLocked` and `AssetLocked` are the `SELECT ... FOR UPDATE` rows.

The database is the weaker of the two that are supported, PostgreSQL with READ
COMMITTED: a transaction sees what others have committed and waits only for
locked rows.  SQLite with its serial writers allows fewer interleavings.

Faults.  A handler dies; a fetch, a lock with its deadline or the database fails
(with an error that may or may not be retried); the database stays busy while a
claim or a failure is recorded; an unlink fails; a lease runs out although its
handler still works.

What is left out: an answer that changes nothing (a replay, `in_progress`, a
failure for good) is no step; the minimum age of orphans is not relied on for
published files (only the lock protects them), while a staging directory is
swept only when no import works on it, which its age stands for; one account;
images without an `asset_uuid`; a COMMIT whose outcome stays unknown; request
fingerprints, boards and tags.

Bounds.  `MaxEvents` bounds faults and slow leases together (2: one while the
work is done and one while it is undone or recorded), `CasReevaluationLimit` is 2
instead of 4.  Two handlers, one item, one
single import and one content: imports of different contents share no lock but
the lifecycle lock, which all of them share.  Two imports of one content and a
deletion of its image need no more; the proofs hold for any number.

Fairness.  `FairSpec` asks weak fairness of the steps of a handler that is at
work (a request runs until it is answered), strong fairness of the client that
asks again (it polls until the item has settled) and of an operator who runs
`retry_media_deletions` from time to time, and weak fairness of the end of a
lease that nobody serves.

### The legacy migration

`migration_worker.py` runs once at each start of the container, before the web
application.  `legacy_startup.py` decides what is to be done and calls, in order,
the preflight and the database snapshot, the schema migrations, the path phase,
the registry phase and the archive.  It is one sequential process; what makes it
hard is that it may be stopped at any point and has to go on from the files.

State (`LegacyDisk`).  An image stands for its row, the rows of its thumbnails
and all their files, which are planned, published and switched together.  `run`
is the run's directory with its state file (phase, identities of the plans,
archive progress) and summary, `snap` the copy of the database with its receipt,
`db` the schema and the validation marker, `row` the path each row holds, `asset`
the registry, `plan` and `backplan` the two frozen plans, `jr` the batch journal,
`ckpt` its checkpoint; `stg`, `dst` and `ino` are the staging files, the files at
the canonical paths and their inodes, `unsynced` and `loose` what a power loss
could still undo, `item` the old directories.  `mem` and `pc` are the worker,
which forgets them when it stops.

Steps.  A step is one durable write, rename, sync or transaction, with all the
checks the code makes before it; a check that fails ends the start (`Fail`), as
every failure code of the worker does.  `MigrationJournal` has the journal as
functions of its state, because the path and the registry phase use it in the
same way.  A batch is copied to staging files, they are forced out, renamed,
their directories forced out, announced in the journal, switched in one
transaction and committed in the journal; a later start recognises an announced
batch by its rows (`recover_batch`), verifies the committed ones and repairs what
is damaged.

Faults.  `Stop` is a signal or a crash between two steps, or inside the writes
named by `StopAt`, where it leaves a part of what was being written.  `PowerLoss`
takes, in addition, any part of what was not forced out.  A published file may be
lost, damaged or replaced between two starts, a copy may fail for want of space,
and a start may lack the migration flag.  An error in the preparation of a batch
discards what was prepared of it (`Discard`); what a stop leaves is resumed.

Assumption on the file system: a file has its full size only once its content is
written, so that a power loss leaves a staging file that was not forced out whole,
short (`CutShort`) or missing.  A later start resumes a staging file by its size
and dimensions and takes the hash it records from the file itself
(media_migration_v2.py:2988-3079); it would accept a file of full size whose blocks
were never written.  `RowsNameDurableFiles` rests on this assumption.

`MediaCutover` says what the migration promises, in six variables: the orphaned
rows go first, the others are switched in key order and never back, images are
registered only when no old path is left, directories leave only when all images
are registered, the run is complete only when all have left, and the application
may not start before the evidence of an old installation is gone.  `LegacyStartup`
implements it under the substitution at the end of the module, in which the
application counts as allowed to start also while the validation marker would
let a start skip the checks.

What is left out: the `_execute` family of `media_migration_v2.py` (lines
3875-5054 but for `_validate_image_plan_closure` and
`_verify_intent_staging_identity`) and of `media_asset_backfill.py` (lines
2660-3052), which nothing calls any more; branches that only a run begun by an
older version can reach (v2 manifests, a snapshot without a receipt); space
checks; decisions for images that are registered already or collide; a second
run that new evidence starts after the first has completed; progress frames.

Bounds.  Five images (one without its file and without a pin, one whose file is
in place, one the registry cannot take) in batches of two, two old directories,
and one each of stop, power loss, damage and error.  A stop and a power loss make
three starts, so that something is resumed, and what resumed is interrupted and
resumed again.

Fairness.  Weak fairness of the worker's steps, since it runs until it ends, and
of starting the container again (its restart policy, or the operator).

### RuntimeSupervisor

State.  `pc` is the call the supervisor is about to make, `code` the failure it
holds.  `proc` has for each child whether it runs, is stopped by SIGSTOP, has left
members of its process group behind, or is dead and not reaped.  `worker` is what
the migration worker has written to its pipe and how it exited, `told` what the
supervisor has read of it.  `store` is the status in memory and on disk, `marker`
the file that keeps nginx from passing requests on, `policy` the retry budget,
`flags` the fields `_attempt_status_failed`, `_shutdown_requested` and so on.

Steps.  A step is a call that starts, stops, reaps or probes a process or writes
the status or the marker.  The order is that of `run`: gate, nginx, status, lock,
worker, application, readiness, gate transition, serving; a failure goes to
`_hold_failed`, from where a retry accepted by `RecoveryPolicy` starts the next
attempt.

Environment.  Children exit at any time, with or without leaving others of their
group behind, and those exit later; the worker reports complete or error; SIGTERM
arrives; a write fails up to `MaxFaults` times.  A deadline is a choice between in
time and too late.

What is left out: the HTTP of the recovery page (a request with a wrong token
changes nothing), the frames of progress, the backoff of the export worker, and
the fifth child, `auth_recovery` (supervisor.py:1231-1258).  It is started only
after the gate has opened, and a failure of its start or its exit later leaves the
service up without it (supervisor.py:1282-1286).  It is ended wherever the export
worker is, and a held failure and a retry wait for the children of every role
(supervisor.py:1316, 1341, 1431); as one more child of the kind of `export` it
gives the properties nothing new to fail on.

Bounds.  `MaxAccepted` is 3 as in the code, `MaxFaults` is 1.

Fairness.  The supervisor's loops go on, the clock runs, the automatic retry is
looked at in every turn of the hold loop, and a process group that was killed
exits in the end.  Nothing is assumed of the migration worker, of gunicorn, of a
user or of SIGTERM.

## 3. The runs

| Run | Instance | Question |
|---|---|---|
| `leases_two_workers` | 2 workers with different roots, 1 account, 1 job, 3 generations, 4 attempt generations | Do the fences keep a superseded worker out, and do token, row, resume count and attempts agree through any interleaving of crashes, stops and takeovers? |
| `leases_queue` | 1 worker, 2 accounts, 2 jobs, 2 generations | Do slots, sequential processing and replacement hold across accounts and a restart? |
| `leases_liveness` | 1 worker, 1 account, 2 jobs, 2 generations, fair | Does every export end, and is what it left behind cleaned? |
| `attempts_faults` | 2 items, 3 faults of any kind, fair | Is a published ZIP whole, of the current item list and still allowed; does a given-up attempt stay so; is nothing unknown removed, is every file known to a row until it is removed; do the rows keep the table's constraints; does every export settle? |
| `attempts_busy_stop` | stops, also of a waiting transaction | Violation: see below |
| `attempts_blocked` | a crash and the deletion of the account | Violation: see below |
| `export_snapshot` | 3 pins, 2 images, 4 events of any kind, fair | Has the archive every file it needs; is no directory or file forgotten; does an export fail only for what happened to it; is everything removed in the end? |
| `imports_race` | 2 handlers, 1 item and 1 single import of the same content, 2 faults of any kind, fair | Does an item make at most one pin, settled by its lease holder; do images, pins and files agree through reuse, deletion, sweeps, compensation and crashes; does no import fail because of another; does every item settle and the deletion journal drain? |
| `migration` | 5 images, 2 directories, one of each fault, fair | Can a row name a file that may be lost; is there always a copy of the old database; do journal, tables and disk agree; is it a `MediaCutover`; does the application start in the end? |
| `migration_plan_prefix` | a stop while the plan is written | Violation: see below |
| `migration_stop` | a stop in the middle of a copy | Violation: see below |
| `supervisor` | 3 retries, 1 failed write, fair | Does the gate open only for a finished migration and a ready application; is there one writer; does the automatic retry happen; do a lost application and SIGTERM end the service? |

Two workers are needed for a zombie, three generations for a takeover of a
takeover, four attempt generations for two revocations and two recoveries of one
job; two accounts and two jobs for the interplay of claims and for the
replacement of an export.

Four runs end in a counterexample on purpose, because what the documentation
says does not hold:

- `attempts_busy_stop`.  The README of the repository promises that after a
  normal stop processing resumes from the last attempt state.  A stop while the
  row of the new `archive.zip.part` waits for the database leaves an attempt
  that is marked retiring and has no file row.  `recover_retiring` asks for that
  row with `.get()`, so every worker that takes the job over dies of
  `DoesNotExist`, and after `MAX_ABNORMAL_RESUMES` of them the job has failed.
- `attempts_blocked`.  The README promises that old job files are cleaned.  A
  process that dies right after the rename leaves a row with the ctime from
  before it.  A recovery copes with that (it compares device, inode, size and
  mtime), but if the job ends first, the terminal cleanup compares the ctime,
  takes the job's own ZIP for an unknown file and blocks, and while a cleanup is
  blocked no export of any account is claimed.

- `migration_plan_prefix`.  The docstring of `recover_incomplete_auto_v2_plan`
  promises that a prefix of the plan is planned again.  The lines of the plan are
  `planned_skeleton` events, and `_reset_incomplete_plan` accepts only `planned`
  ones, the former format, so a stop while the plan is written ends the migration
  for good.  The registry's plan has the former format and is planned again.
- `migration_stop`.  The README promises that a normal stop resumes from the last
  confirmed batch.  The worker has no handler for SIGTERM: a stop in the middle of
  a copy leaves a staging file that is not whole, which every later start refuses
  and nothing removes.

Other weaknesses are listed as hazards, with the exception in the property that
names them:

- `_remove_retiring_file_fs` looks only at the path of a row and not at its
  intent, so an error in reading the ZIP back, followed by a crash, leaves the ZIP
  at the ready path with its row cleaned (`NothingForgotten` of `ExportAttempts`
  leaves this one fault out).
- The cleanup of a snapshot that ended in failure blocks on the first file of a
  blob if it was made and its receipt not recorded (`UnrecordedFile` in
  `SnapshotSettles`), although the cleanup of a candidate would remove it.
- `capture` goes on believing that a prepared directory can be used after a
  cleanup has removed it, and then fails with `export_storage_unsafe` (the last
  conjunct of `FailsForCause`).
- A torn write of the run directory, of the snapshot's receipt, of the plan or of
  a staging file is refused by every later start (`Wedged` in `StartsInTheEnd`).

## 4. The proofs

`ExportLeases_proofs` proves, for every value of the constants:

- `TypeCorrect`: `Spec => []TypeOK`; in particular `resume_count` never exceeds
  `MaxAbnormalResumes`.
- `Fencing`: the inductive invariant `FencingInv`.  It adds to `TypeOK` that a
  process that is down remembers nothing, that no process has a generation above
  the row's, that two live processes never share one, that a process has a token
  exactly while it works on the job it holds (`TokenShape`), and
  `HeartbeatAgreesWithRow`.  A new generation is one above the row's and
  therefore above all; afterwards only the new process passes
  `lock_current_worker_lease`, and since every write of a job's fence is under
  that check, only it can move a fence, which it does together with its token.
- `HeartbeatAgrees`, `OneWriter`: consequences of `FencingInv`.
- `TerminalFinal`: each step changes a job's state in one of the ways
  `StateStep` lists; the transaction that fails a job is reached only with an
  active job, because the process still has its token.
- `SlotCorrect`: `SlotMatchesActive` is inductive relative to `FencingInv`.
- `TakeoversSound`: `TakeoversAreSound`, that is no lease of the living worker is
  leaked, `resume_count` is charged only for leases that died, and at most one
  attempt of a job may have files.
- `ExportsOneAtATime`: `OneAtATime`.

The last two rest on a second inductive invariant, `LeaseInv`, which contains
`FencingInv`.  What a claim does is decided by rows other workers left, so it
relates those rows to the workers that still live:

- `HeldInv`: a process between jobs holds nothing, and a process that finishes,
  releases or cleans up after a job holds one that is no longer active (of the
  claims only `ClaimCompleteMaintenance` takes such a job, and no step makes a job
  active again).  So none of those steps can disturb an active job.
- `FenceInv`: no fence names a generation above the worker row's, so that to a new
  worker every lease in the table is stale.
- `AttemptInv`: an attempt that is not cleaned is the current one, or the
  retiring one before it while the current one has not begun; a queued job has
  neither attempt files nor a candidate snapshot.
- `LossInv`: a lease of an active job that no process can use any more was lost
  and is not charged yet.  It makes `resume_count <= losses` inductive: a takeover
  charges exactly such a lease, and replaces it.
- `LeakFree(w)`: what the living worker's lease is on is its token's job.  Every
  way out of a job clears both in one transaction or ends the job.
- `Sequential(w)`: what the claims so far have found.  `_run_once_active` has no
  check that no other export is in progress before it claims a queued one; it
  relies on the order of the claims.  At `verifying` no abandoned job with
  leftovers is in capture or archiving, at `requeue` none is verifying either, and
  from `retiring2` on none is in progress.  Without it `OneInv`, which is
  `OneAtATime` for two jobs, would not survive `ClaimNextJob`.
- `SpentInv` and `Solvent(w)` are about the bound only: every attempt the worker is
  not building itself can be replaced by a next generation.

The proof has one lemma for each way a step treats the worker's job
(`WalkStep`, `WorkStep`, `TakeStep`, `DownStep`, `EndStep`, `EndedStep`,
`EnvironmentStep`); each action is shown to be one of these, except a hand-over
and a requeue, which make a job free and have a proof of their own.

The only assumption is `ConstantsAssumption` (the bounds are naturals, every
worker generation has an attempt generation, there are finitely many workers,
`NoOwner` is no account), which TLC evaluates in every run.

`ExportAttempts_proofs` proves everything that `attempts_faults` checks of the
safety of one export, for every set of items, any kinds of faults and every
number of events and of resumes:

- `AttemptsTypeOK` (`TypeOK`), `RowsMeetConstraints` (`RowConstraints`),
  `PublishedArchiveHolds` (`CompleteArchiveMatches`), `NothingLeftBehind`
  (`NothingForgotten`);
- the action properties `GivenUpStays` (`GivenUpIsFinal`),
  `OnlyAllowedCompletes` (`OnlyAllowedPublished`) and `StrangersStay`
  (`NoStrangerRemoved`).

The inductive invariant is `AttInv`.  A file operation and its row change in
different steps and the worker may die between any two, so a recovery knows only
rows and disk.  `Resting` is what holds of these whatever the worker is doing:

- every attempt older than the current one is cleaned before the current one
  begins, and an attempt that is cleaned has no directory (`AttemptsInv`);
- job, attempt and file rows fit together (`JobInv`, `RowsInv`), and a row's path
  and intent say where the rename it is at can have got to (`ArchiveInv`,
  `QuarantineInv`);
- an inode is at one path, in a directory that exists, and its ctime tells
  whether it was renamed (`DiskInv`), so that a receipt matches no other file;
- what is published is the list that was verified (`ArchiveHolds`).

`StateAt`, `BuildAt`, `CleanAt` and `StagingAt` say what a step relies on while
the worker lives: that it still is in the job's state its service was called in,
which attempt it makes or cleans, and which of its rows are done.  A crash
discards them and leaves `Resting`; the next worker establishes them again from
the rows.  `PlaceInv` and `PlaceAt` say where the file of a row can be.  They hold
until a ZIP cannot be read back, the one fault `NothingForgotten` leaves out:
from then on a row may be marked cleaned while its file is at the ready path.
`CountInv` is there for `TypeOK`: a new generation, an item to revoke and an
attempt that will be given up each cost one event, so generations stay below the
bound on events.  The assumption is `AttemptsAssumption`.

`PinImport_proofs` proves, for every number of handlers, items, imports and
contents and every bound:

- `TypeCorrect`: `Spec => []TypeOK`.  `TypeInv` adds what a handler remembers at
  each step (`Shape`).
- `OncePerItem`: `AtMostOncePerItem`.  Each step leaves an item alone, claims it
  while it has not succeeded, or settles it under its lease (`ItemMoves`); a pin
  is made only in the last case, from the state pending.
- `LeaseHolderSettles`: `SettledByLeaseHolder`, from the same lemma.

`PinImportSafety_proofs` proves the other four safety properties that
`imports_race` checks: `FilesPresent`, `ImagesAndPins`, `NoConflicts` and
`FilesAccounted`.  None of them is inductive.  `SafeInv` adds:

- an id is given once, and until an import commits nothing else uses its id
  (`IssuedInv`, `OwnInv`), because a generation only grows;
- who is at which step has which lock, and locks exclude (`LockInv`);
- what an import has looked up is still true when it commits (`Ready`): the
  locked row keeps a deletion away, the dedup lock another import of the
  content, the lifecycle lock a removal of files;
- a deletion still knows its pin and its image has no rows (`Deletes`), and what
  an import has on the disk at each step (`Leaves`);
- no image is in the journal (`Journal`).

From these each property is preserved by each step; `StepRows`, `StepDisk`,
`StepOwn` and `StepArrives` first reduce the actions to the few that touch rows,
files or ids, so that the proofs need not look at all of them again.  The
assumptions are those of `PinImport` (`None` is no import and no content, items
and single imports differ, every import has a content, the limit is positive).

`RuntimeSupervisor_proofs` proves, for every number of automatic and requested
attempts and every bound on faults: `SupervisorTypeOK` (`TypeOK`), `GateSafety`
(`GateOpensOnlyWhenReady`) and `WritersExclude` (`ExclusiveWriters`).  The
inductive invariant is `SupInv`.  That nginx never serves a start which is not
ready is a matter of several steps: the gate may be open before nginx is first
started, while the application is ready and the status says so, and on the way
out when nginx has gone (`GateInv`); what makes the second case true is that the
start of the application is reached only after the worker has reported success
and has been reaped (`ServeInv`), and what makes the first true is that no child
is registered before (`EarlyInv`).

`ExportSnapshot_proofs` proves, for every number of pins, assets and resumes:
`SnapshotTypeOK` (`TypeOK`), `SnapshotComplete` (`SnapshotWhole`),
`SnapshotAccounted` (`NothingForgotten`) and `SnapshotFailsForCause`
(`FailsForCause`).  Its invariant `SnapInv` follows the worker through the
capture, the archive and the end of a job: there is one generation at a time and
its state says at which step the worker can be (`StageInv`, `CandidateInv`); a
file of the candidate is one its receipts account for (`ReceiptInv`), so that a
cleanup by receipts leaves nothing; while the capture holds its gate the sources
of the blobs stay (`CopyInv`); and the reason recorded for a failure stays true
(`CauseInv`).

`LegacyStartup_proofs` proves all safety properties of the migration, for every
number of images and old directories, every batch limit, any set of torn writes
and any number of stops, power losses, damages and errors:

- `MigrationTypeOK` (`TypeOK`), `BackupPristine` (`PristineBackup`),
  `RecordsAreTrue` (`RecordsHold`), `RowsDurable` (`RowsNameDurableFiles`);
- `MigrationIsCutover`: `Spec => ImplementsMediaCutover`.  Seven actions are seen
  by the abstract specification: the removal of orphans, a switch, a
  registration, the record of an archived item, the end of the run, the start of
  the application, and what takes it away (a stop, or the schema step that drops
  the marker).  `SwitchSwitches`, `RegisterRegisters` and the lemmas beside them
  map each; every other step leaves what `MediaCutover` sees as it was (`Aside`).

The inductive invariant is `MigrationInv`.  None of the properties is inductive,
because a restarted worker acts on what it reads and not on what the earlier one
meant.  The invariant therefore says, file by file, what can be read: which
phases the state file can show at which step (`RunInv`, `StepInv`), that no old
path is left once the registry is begun and all is registered once an item is
archived (`DoneInv`), that the copy of the database is complete before it has
its name (`BackupInv`), that a frozen plan holds exactly the rows there are
(`PlanInv`), that rows and registry agree with the journal (`PathsAgree`,
`RegistryAgrees`), and that announced files are on the disk (`DurableInv`).
`Undisturbed` says once which part a step that leaves its variables alone keeps.

Its core is `LogInv`: what is committed is a row of whole batches from the
beginning of the plan, and an open batch is the next.  The code nowhere stores
the batches: each start cuts them again from the images left, so that the open
batch of one start is recognised by the next only if both cut alike.
`LegacyBatches_proofs` proves that they do (`BatchIsBlock`): after any number of
whole batches, the first `BatchLimit` of the images left are the images whose rank
in the plan has the next quotient by `BatchLimit`.  The path phase and the
registry phase both rest on it.

The assumptions of the modules about the migration, the supervisor and the
snapshot are those of the modules they are about
(`SizesAssumption`, `ImagesAssumption` and the bounds being naturals), which TLC
evaluates in the runs.

With these every invariant and every action property that a passing run checks is
a theorem.  The liveness properties (`EveryExportEnds`, `ExportSettles`,
`SnapshotSettles`, `ImportsSettle`, `RetryHappens`, `ServingEnds`,
`StartsInTheEnd`) are model-checked only: they need fairness and `ENABLED`, which
the prover does not handle.

## 5. Not modelled

- The dead code and the branches for older formats named above.
- Users and SSO, image fetching and decoding, the single-page application,
  plugins, locale and deployment: request handling without shared state that
  outlives a transaction, input and output, or a user interface.
- Which pins an export selects (`targeting.py`), the status API, board covers,
  tags and bulk edits: query evaluation and single transactions.
- The two-phase check of a download around the open file; the transitions it makes
  are in `ExportLeases`.
- The supervisor's child `auth_recovery`, see `RuntimeSupervisor`.
- A COMMIT whose outcome stays unknown, and the deletion of an account whose pins
  cascade (both are hazards without a property): the models let a transaction
  commit or fail, and imports have one account.

## 6. What could come next

1. `ExportRetention`: the ready file under downloads, expiry and replacement, and
   an abstract specification of what an account is promised.
2. Several accounts and the deletion of one in `PinImport`.
3. Login attempts of SSO; bulk edits with their counters and covers.
4. Proofs: that each step of `ExportAttempts` and `ExportSnapshot` is a step, or a
   stutter, of the one job they share with `ExportLeases`.
