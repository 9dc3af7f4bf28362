------------------------ MODULE LegacyStartup_proofs ------------------------
(* Theorems of LegacyStartup, for every number of images and directories,    *)
(* every batch limit and every number of faults: what holds of the migration *)
(* of an old installation wherever it is stopped, and that it implements     *)
(* MediaCutover.                                                             *)
EXTENDS LegacyStartup, LegacyBatches_proofs

-----------------------------------------------------------------------------
(* Types. *)

RowStates == {"old", "new", "gone"}
Mems == [batch : SUBSET Images, todo : SUBSET Images,
         repaired : BOOLEAN, fast : BOOLEAN]
Runs == [dir : Dirs, phase : RunPhases, media : BOOLEAN, back : BOOLEAN,
         progress : 0..M, intent : 0..M, summary : {"none", "complete"}]
Snaps == [temp : Written, final : {"none", "full"}, receipt : Written,
          rows : [Images -> RowStates], schema : {"old", "new"}]
Dbs == [exists : BOOLEAN, schema : {"old", "new"}, marker : BOOLEAN]
Plans == [file : PlanFiles, images : SUBSET Images]
Inodes == [Images -> 0..MaxDamage]
Backplans == [file : PlanFiles, images : SUBSET Images, ino : Inodes]
Journals ==
  [made : BOOLEAN, torn : BOOLEAN, attempts : 0..2, totals : BOOLEAN,
   bound : BOOLEAN, proj : Nat, done : SUBSET LogPhases,
   intent : [LogPhases -> SUBSET Images],
   commit : [LogPhases -> SUBSET Images], ino : [LogPhases -> Inodes]]
Stagings == [Images -> Written]
Destinations == [Images -> {"none", "good", "bad"}]
Namings == [Images -> {"no", "renamed", "unlinked"}]
Places == [Items -> {"there", "moved", "archived"}]
Budgets == [stops : 0..MaxStops, power : 0..MaxPowerLoss,
            damage : 0..MaxDamage, errors : 0..MaxErrors]

LEMMA Types ==
  TypeOK <=>
    /\ mem \in Mems /\ run \in Runs /\ snap \in Snaps /\ db \in Dbs
    /\ row \in [Images -> RowStates] /\ asset \in SUBSET Images /\ plan \in Plans
    /\ backplan \in Backplans /\ jr \in Journals /\ ckpt \in Nat
    /\ stg \in Stagings /\ dst \in Destinations /\ ino \in Inodes
    /\ unsynced \in SUBSET Images /\ loose \in Namings /\ item \in Places
    /\ budget \in Budgets
  BY DEF TypeOK, RowStates, Mems, Runs, Snaps, Dbs, Plans, Inodes, Backplans,
     Journals, Stagings, Destinations, Namings, Places, Budgets

LEMMA TypesNext ==
  TypeOK' <=>
    /\ mem' \in Mems /\ run' \in Runs /\ snap' \in Snaps /\ db' \in Dbs
    /\ row' \in [Images -> RowStates] /\ asset' \in SUBSET Images /\ plan' \in Plans
    /\ backplan' \in Backplans /\ jr' \in Journals /\ ckpt' \in Nat
    /\ stg' \in Stagings /\ dst' \in Destinations /\ ino' \in Inodes
    /\ unsynced' \in SUBSET Images /\ loose' \in Namings /\ item' \in Places
    /\ budget' \in Budgets
  BY DEF TypeOK, RowStates, Mems, Runs, Snaps, Dbs, Plans, Inodes, Backplans,
     Journals, Stagings, Destinations, Namings, Places, Budgets

LEMMA Fields ==
  TypeOK =>
    /\ mem.batch \in SUBSET Images /\ mem.todo \in SUBSET Images
    /\ plan.images \in SUBSET Images /\ backplan.images \in SUBSET Images
    /\ run.progress \in 0..M /\ run.intent \in 0..M /\ run.phase \in RunPhases
    /\ \A p \in LogPhases :
         jr.intent[p] \in SUBSET Images /\ jr.commit[p] \in SUBSET Images
    /\ budget.damage \in 0..MaxDamage
    /\ \A i \in Images : row[i] \in RowStates
  BY Types DEF Mems, Plans, Backplans, Runs, Journals, Budgets

LEMMA BothPhases == "paths" \in LogPhases /\ "backfill" \in LogPhases
  BY DEF LogPhases

LEMMA MNat == M \in Nat /\ MaxDamage \in Nat /\ 0 \in 0..M /\ 0 \in 0..MaxDamage
  BY SizesAssumption

LEMMA PhaseNames ==
  {"initialized", "snapshot_intent", "snapshot_complete", "schema_complete",
   "copying", "paths_complete", "registry_complete", "archive_intent",
   "archive_complete", "complete"} \subseteq RunPhases
  BY DEF RunPhases, PhaseOrder

LEMMA EmptyJournal ==
  /\ NoJournal \in Journals
  /\ \A p \in LogPhases : NoJournal.intent[p] = {} /\ NoJournal.commit[p] = {}
  /\ \A p \in LogPhases, i \in Images : NoJournal.ino[p][i] = 0
<1>1. [p \in LogPhases |-> [i \in Images |-> 0]] \in [LogPhases -> Inodes]
  BY MNat DEF Inodes
<1>2. [p \in LogPhases |-> {}] \in [LogPhases -> SUBSET Images]
  OBVIOUS
<1>3. NoJournal \in Journals
  BY <1>1, <1>2 DEF NoJournal, Journals
<1>. QED  BY <1>3 DEF NoJournal

-----------------------------------------------------------------------------
(* Where the worker is. *)

Freezing == {"freeze", "replan"}
Opening == {"journal", "attempt", "totals", "persist", "copying", "paths"}
Mending == {"mend", "mendstage", "mendsync", "mendreplace", "mendlog", "resume"}
Staging == {"stage", "publish", "intent"}
Switching == {"apply", "commit"}
Walking == {"verify", "batch", "closure", "recheck"} \cup Mending \cup Staging
             \cup Switching
Backing == {"pathsdone", "backopen", "backfreeze", "backreplan"}
Binding == {"bind", "backhash", "registry"}
Registering == {"regbatch", "regintent", "regapply", "regcommit"}
Moving == {"move", "movesync", "record"}
Ending == {"complete", "finish"}
Closed == {"regclosure", "regcheckpoint", "registrydone", "archive"} \cup Moving
            \cup Ending
Copied == {"cleanup", "cleaned"}
Saving == {"snapshot", "copy", "receipt", "promote"}
Schema == {"locks", "schema", "converge"}
Converging == {"plan"} \cup Freezing \cup Opening \cup Walking \cup Backing
                \cup Binding \cup Registering \cup Closed

NoOld == \A i \in Images : row[i] # "old"
AllRegistered == \A i \in Images \ Skipped : row[i] = "new" => i \in asset
HasRows == \E i \in Images : row[i] # "gone"

(* The state file: what a run has done.                                      *)
Archiving == {"archive_intent", "archive_complete", "complete"}
RunInv ==
  /\ run.dir # "ready" => run.phase = "initialized"
  /\ run.phase \notin Archiving => run.progress = 0 /\ run.intent = 0 /\ AllThere
  /\ run.phase = "archive_intent" => run.intent = run.progress + 1
  /\ run.phase \in {"archive_complete", "complete"} => run.progress = M
  /\ run.phase = "complete" => run.summary = "complete"
  /\ \A k \in 1..run.progress : item[k] = "archived"

(* ... and what it is doing; a start that migrates has dropped the marker.   *)
StepInv ==
  /\ pc = "create" => run.dir = "none"
  /\ pc \in {"prepare", "locks"} \cup Saving \cup Copied \cup Converging => run.dir = "ready"
  /\ pc \in Schema => run.dir \in {"none", "ready"}
  /\ pc \in Saving => run.phase = "snapshot_intent"
  /\ pc \in Copied => run.phase \in {"snapshot_intent", "snapshot_complete",
                                     "schema_complete"}
  /\ pc \in Converging => run.phase \notin {"initialized", "snapshot_intent"}
  /\ pc \in Moving => run.phase = "archive_intent"
  /\ pc = "movesync" => item[run.intent] # "there"
  /\ pc = "record" => item[run.intent] = "archived"
  /\ pc \in Ending => run.progress = M
  /\ pc = "finish" => run.summary = "complete"
  /\ pc \in {"converge"} \cup Converging => ~db.marker

(* When no old path is left, when all is registered, when the application    *)
(* may start.                                                                *)
DoneInv ==
  /\ \A i \in InPlace : row[i] # "old"
  /\ asset # {} \/ backplan.file = "frozen" => NoOld
  /\ run.progress > 0 \/ run.phase = "complete" => NoOld /\ AllRegistered
  /\ Validated \/ pc \in {"runtime", "done"} => NoOld /\ run.progress = M
  /\ pc \in {"schema", "converge"} /\ run.dir = "none" => NoOld /\ M = 0
  /\ pc \in Registering \cup Closed => NoOld
  /\ pc \in Closed => AllRegistered

(* The copy of the database.                                                 *)
BackupInv ==
  /\ ~db.exists => ~HasRows
  /\ snap.final = "full" => BackupHeld
  /\ snap.receipt # "none" /\ snap.final = "none" => snap.temp = "full"
  /\ pc = "copy" => snap.temp = "none" /\ snap.receipt = "none"
  /\ pc \in {"copy", "receipt", "promote"} => snap.final = "none"
  /\ pc = "receipt" => snap.temp = "full" /\ snap.receipt = "none"
  /\ pc = "promote" => snap.receipt = "full"
  /\ HasRows =>
       /\ snap.temp = "full" \/ snap.final = "full" =>
            \A k \in Images : snap.rows[k] = Installed(k)
       /\ \A i \in Images : row[i] # Installed(i) => snap.final = "full"
       /\ run.phase \notin {"initialized", "snapshot_intent"} \/ pc \in Copied =>
            snap.final = "full"
       /\ pc \in Schema => ~(Incomplete /\ run.phase = "initialized")

(* The frozen plans.                                                         *)
PlanInv ==
  /\ plan.file = "frozen" =>
       plan.images = Rows /\ \A i \in Orphans : row[i] = "gone"
  /\ plan.file # "frozen" => jr.intent["paths"] = {}
  /\ pc \in Freezing => plan.file # "frozen"
  /\ pc \in Opening \cup Walking => plan.file = "frozen"
  /\ backplan.file = "frozen" => backplan.images = Rows
  /\ backplan.file # "frozen" => jr.intent["backfill"] = {}
  /\ pc \in {"backfreeze", "backreplan"} => backplan.file # "frozen"
  /\ pc \in Binding \cup Registering => backplan.file = "frozen"

(* The journal of either phase: what is committed are the first blocks of    *)
(* the plan, and what is open is the next.                                   *)
Batches(p, images) ==
  /\ jr.commit[p] \subseteq jr.intent[p]
  /\ Leading(jr.commit[p], images)
  /\ Open(jr, p) # {} => Open(jr, p) = Batch(images \ jr.commit[p])
LogInv ==
  /\ Batches("paths", plan.images) /\ Batches("backfill", backplan.images)
  /\ ~jr.made => ~jr.totals /\ \A p \in LogPhases : jr.intent[p] = {}
  /\ pc \in {"attempt", "totals"} => jr.made

(* ... against the tables.                                                   *)
PathsAgree ==
  /\ \A i \in jr.commit["paths"] : row[i] = "new"
  /\ \A i \in Images \ InPlace : row[i] = "new" => i \in jr.intent["paths"]
  /\ PreSigned(Open(jr, "paths")) \/ PostSigned(Open(jr, "paths"))
RegistryAgrees ==
  /\ jr.commit["backfill"] \ Skipped \subseteq asset
  /\ asset \subseteq jr.intent["backfill"] \ Skipped
  /\ LET b == Open(jr, "backfill") IN Unregistered(b) \/ Registered(b)

(* The batch under way.                                                      *)
WalkInv ==
  /\ pc = "verify" => mem.todo \subseteq jr.commit["paths"]
  /\ pc \in Mending =>
       /\ mem.batch # {} /\ OneBlock(mem.batch, plan.images)
       /\ mem.batch \subseteq jr.intent["paths"]
       /\ mem.batch \subseteq jr.commit["paths"] =>
            mem.todo \subseteq jr.commit["paths"]
  /\ pc = "mendstage" => Broken # {}
  /\ pc \in Staging =>
       /\ mem.batch = Batch(plan.images \ jr.commit["paths"])
       /\ mem.batch # {} /\ mem.batch \cap jr.intent["paths"] = {}
       /\ mem.todo \subseteq mem.batch
  /\ pc \in Switching => mem.batch # {} /\ mem.batch = Open(jr, "paths")
  /\ pc = "commit" => PostSigned(mem.batch)
RegWalkInv ==
  /\ pc \in Registering =>
       /\ mem.todo \subseteq backplan.images
       /\ Leading(backplan.images \ mem.todo, backplan.images)
       /\ backplan.images \ mem.todo \subseteq jr.commit["backfill"]
  /\ pc \in Registering \ {"regbatch"} => mem.todo # {}
  /\ pc = "regintent" => ~(Walked \subseteq jr.intent["backfill"])
  /\ pc \in {"regapply", "regcommit"} => Walked = Open(jr, "backfill")
  /\ pc = "regcommit" => Registered(Walked)

(* What has reached the disk, as long as nobody damages a file.              *)
Kept(i) == dst[i] = "good" /\ loose[i] # "renamed" /\ (i \in unsynced => i \in InPlace)
DurableInv == budget.damage = 0 =>
  /\ \A i \in Images : ino[i] = 0 /\ jr.ino["paths"][i] = 0
  /\ \A i \in InPlace : loose[i] # "renamed" /\ (row[i] = "new" => dst[i] = "good")
  /\ \A i \in jr.intent["paths"] : Kept(i)
  /\ pc \in Mending => pc \in {"mend", "resume"}
  /\ pc \in {"publish", "intent"} =>
       /\ unsynced = {}
       /\ \A i \in mem.batch \ (mem.todo \cup InPlace) : dst[i] = "good"
  /\ pc = "intent" => mem.todo = {} /\ \A i \in Images : loose[i] = "no"

MigrationInv ==
  /\ TypeOK /\ RunInv /\ StepInv /\ DoneInv /\ BackupInv /\ PlanInv /\ LogInv
  /\ PathsAgree /\ RegistryAgrees /\ WalkInv /\ RegWalkInv /\ DurableInv

-----------------------------------------------------------------------------
(* The open batch of a phase is one block of its plan. *)

LEMMA OpenBlock ==
  ASSUME NEW p, NEW A \in SUBSET Images, Batches(p, A),
         NEW B, B # {}, OneBlock(B, A), B \subseteq jr.intent[p],
         ~(B \subseteq jr.commit[p])
  PROVE  B = Open(jr, p)
<1>1. B \cap jr.commit[p] = {}
  BY BlockInOrOut DEF Batches
<1>2. B \subseteq Open(jr, p) /\ Open(jr, p) # {}
  BY <1>1 DEF Open
<1>3. OneBlock(Open(jr, p), A)
  <2>1. Leading(jr.commit[p], A) /\ Open(jr, p) = Batch(A \ jr.commit[p])
    BY <1>2 DEF Batches
  <2>2. OneBlock(Batch(A \ jr.commit[p]), A)
    BY <2>1, LeadingGrows
  <2>. QED  BY <2>1, <2>2
<1>. QED  BY <1>2, <1>3, BlocksMeet

-----------------------------------------------------------------------------
(* What a step leaves undisturbed. *)

Ends == {"runtime", "done", "schema", "converge"} \cup Registering \cup Closed
Saves == {"copy", "receipt", "promote"} \cup Copied \cup Schema
Walks == {"verify"} \cup Mending \cup Staging \cup Switching

LEMMA Undisturbed ==
  ASSUME MigrationInv
  PROVE  /\ run' = run /\ item' = item => RunInv'
         /\ /\ row' = row /\ asset' = asset /\ backplan' = backplan /\ run' = run
            /\ db' = db /\ pc' \notin Ends
            => DoneInv'
         /\ /\ snap' = snap /\ db' = db /\ row' = row /\ run' = run /\ pc' \notin Saves
            => BackupInv'
         /\ /\ plan' = plan /\ backplan' = backplan /\ jr' = jr
            /\ pc' \notin {"attempt", "totals"}
            => LogInv'
         /\ row' = row /\ jr' = jr => PathsAgree'
         /\ asset' = asset /\ jr' = jr => RegistryAgrees'
         /\ pc' \notin Walks => WalkInv'
         /\ pc' \notin Registering => RegWalkInv'
         /\ /\ budget' = budget /\ ino' = ino /\ jr' = jr /\ loose' = loose
            /\ row' = row /\ dst' = dst /\ unsynced' = unsynced
            /\ pc' \notin Mending \cup {"publish", "intent"}
            => DurableInv'
<1>1. run' = run /\ item' = item => RunInv'
  BY DEF MigrationInv, RunInv, Archiving, AllThere
<1>2. /\ row' = row /\ asset' = asset /\ backplan' = backplan /\ run' = run
      /\ db' = db /\ pc' \notin Ends
      => DoneInv'
  BY DEF MigrationInv, DoneInv, NoOld, AllRegistered, Validated, Ends
<1>3. /\ snap' = snap /\ db' = db /\ row' = row /\ run' = run /\ pc' \notin Saves
      => BackupInv'
  BY DEF MigrationInv, BackupInv, HasRows, BackupHeld, Installed, Incomplete, Saves
<1>4. /\ plan' = plan /\ backplan' = backplan /\ jr' = jr
      /\ pc' \notin {"attempt", "totals"}
      => LogInv'
  BY DEF MigrationInv, LogInv, Batches, Open
<1>5. row' = row /\ jr' = jr => PathsAgree'
  BY DEF MigrationInv, PathsAgree, PreSigned, PostSigned, Open
<1>6. asset' = asset /\ jr' = jr => RegistryAgrees'
  BY DEF MigrationInv, RegistryAgrees, Unregistered, Registered, ToRegister, Open
<1>7. pc' \notin Walks => WalkInv'
  BY DEF WalkInv, Walks, Mending, Staging, Switching
<1>8. pc' \notin Registering => RegWalkInv'
  BY DEF RegWalkInv, Registering
<1>9. /\ budget' = budget /\ ino' = ino /\ jr' = jr /\ loose' = loose
      /\ row' = row /\ dst' = dst /\ unsynced' = unsynced
      /\ pc' \notin Mending \cup {"publish", "intent"}
      => DurableInv'
  BY DEF MigrationInv, DurableInv, Kept, Mending
<1>. QED  BY <1>1, <1>2, <1>3, <1>4, <1>5, <1>6, <1>7, <1>8, <1>9

-----------------------------------------------------------------------------
(* Steps of the worker keep the invariant: the run and the snapshot. *)


LEMMA InspectKeeps ==
  ASSUME MigrationInv, Inspect
  PROVE  MigrationInv'
<1>1. /\ TypeOK /\ RunInv /\ StepInv /\ DoneInv /\ BackupInv /\ PlanInv
      /\ LogInv /\ PathsAgree /\ RegistryAgrees /\ WalkInv /\ RegWalkInv /\ DurableInv
  BY DEF MigrationInv
<1>2. /\ pc = "start" /\ run' = run /\ snap' = snap /\ db' = db /\ row' = row
      /\ asset' = asset /\ plan' = plan /\ backplan' = backplan /\ jr' = jr
      /\ ckpt' = ckpt /\ stg' = stg /\ dst' = dst /\ ino' = ino
      /\ unsynced' = unsynced /\ loose' = loose /\ item' = item
      /\ budget' = budget
  BY DEF Inspect, At, logs, files
<1>3. /\ mem' \in Mems
      /\ \/ pc' = "failed"
         \/ pc' = "runtime" /\ Validated
         \/ pc' = "schema" /\ run.dir = "ready" /\ run.phase = "complete"
         \/ pc' = "schema" /\ run.dir = "none" /\ ~LegacyEvidence
         \/ pc' = "create" /\ run.dir = "none"
         \/ pc' = "adopt"
  BY <1>1, Types DEF Inspect, Go, Fail, Mems, NoMem, Incomplete, RequiresMigration
<1>4. /\ RunInv' /\ LogInv' /\ PathsAgree' /\ RegistryAgrees' /\ WalkInv'
      /\ RegWalkInv' /\ DurableInv'
  BY <1>1, <1>2, <1>3, Undisturbed
  DEF MigrationInv, Walks, Mending, Staging, Switching, Registering
<1>5. TypeOK'
  BY <1>1, <1>2, <1>3, Types, TypesNext
<1>6. StepInv'
  BY <1>1, <1>2, <1>3
  DEF StepInv, Freezing, Opening, Mending, Staging, Switching, Walking,
       Backing, Binding, Registering, Moving, Ending, Closed, Copied, Saving,
       Schema, Converging
<1>7. DoneInv'
  BY <1>1, <1>2, <1>3, Types, SizesAssumption
  DEF DoneInv, NoOld, AllRegistered, Validated, Registering, Closed, Moving,
       Ending, LegacyEvidence, RunInv, Archiving, AllThere, Items, Runs,
       RowStates
<1>8. BackupInv'
  BY <1>1, <1>2, <1>3
  DEF BackupInv, HasRows, BackupHeld, Installed, Incomplete, Copied, Schema
<1>9. PlanInv'
  BY <1>1, <1>2, <1>3
  DEF PlanInv, Rows, Freezing, Opening, Walking, Mending, Staging, Switching,
       Binding, Registering
<1>. QED  BY <1>4, <1>5, <1>6, <1>7, <1>8, <1>9 DEF MigrationInv

LEMMA PrepareNoFlagKeeps ==
  ASSUME MigrationInv, PrepareNoFlag
  PROVE  MigrationInv'
<1>1. /\ TypeOK /\ RunInv /\ StepInv /\ DoneInv /\ BackupInv /\ PlanInv
      /\ LogInv /\ PathsAgree /\ RegistryAgrees /\ WalkInv /\ RegWalkInv /\ DurableInv
  BY DEF MigrationInv
<1>2. /\ pc = "noflag" /\ run' = run /\ snap' = snap /\ db' = db
      /\ row' = row /\ asset' = asset /\ plan' = plan /\ backplan' = backplan
      /\ jr' = jr /\ ckpt' = ckpt /\ stg' = stg /\ dst' = dst /\ ino' = ino
      /\ unsynced' = unsynced /\ loose' = loose /\ item' = item
      /\ budget' = budget
  BY DEF PrepareNoFlag, At, logs, files
<1>3. /\ mem' \in Mems
      /\ \/ pc' = "failed"
         \/ pc' = "runtime" /\ Validated
         \/ pc' = "schema" /\ ~Incomplete /\ ~LegacyEvidence
  BY <1>1, Types DEF PrepareNoFlag, Go, Fail, Mems, NoMem, Validated, Dbs
<1>4. /\ RunInv' /\ LogInv' /\ PathsAgree' /\ RegistryAgrees' /\ WalkInv'
      /\ RegWalkInv' /\ DurableInv'
  BY <1>1, <1>2, <1>3, Undisturbed
  DEF MigrationInv, Walks, Mending, Staging, Switching, Registering
<1>5. TypeOK'
  BY <1>1, <1>2, <1>3, Types, TypesNext
<1>6. StepInv'
  BY <1>1, <1>2, <1>3
  DEF StepInv, Freezing, Opening, Mending, Staging, Switching, Walking,
       Backing, Binding, Registering, Moving, Ending, Closed, Copied, Saving,
       Schema, Converging, RunInv, Incomplete
<1>7. DoneInv'
  BY <1>1, <1>2, <1>3, Types, SizesAssumption
  DEF DoneInv, NoOld, AllRegistered, Validated, Registering, Closed, Moving,
       Ending, LegacyEvidence, RunInv, Archiving, AllThere, Items, Runs,
       RowStates
<1>8. BackupInv'
  BY <1>1, <1>2, <1>3
  DEF BackupInv, HasRows, BackupHeld, Installed, Incomplete, Copied, Schema
<1>9. PlanInv'
  BY <1>1, <1>2, <1>3
  DEF PlanInv, Rows, Freezing, Opening, Walking, Mending, Staging, Switching,
       Binding, Registering
<1>. QED  BY <1>4, <1>5, <1>6, <1>7, <1>8, <1>9 DEF MigrationInv

LEMMA CreateRunKeeps ==
  ASSUME MigrationInv, CreateRun
  PROVE  MigrationInv'
<1>1. /\ TypeOK /\ RunInv /\ StepInv /\ DoneInv /\ BackupInv /\ PlanInv
      /\ LogInv /\ PathsAgree /\ RegistryAgrees /\ WalkInv /\ RegWalkInv /\ DurableInv
  BY DEF MigrationInv
<1>2. /\ pc = "create" /\ mem' = mem /\ snap' = snap /\ db' = db
      /\ row' = row /\ asset' = asset /\ plan' = plan /\ backplan' = backplan
      /\ jr' = jr /\ ckpt' = ckpt /\ stg' = stg /\ dst' = dst /\ ino' = ino
      /\ unsynced' = unsynced /\ loose' = loose /\ item' = item
      /\ budget' = budget
  BY DEF CreateRun, At, logs, files
<1>3. /\ run' \in Runs /\ run'.dir = "stated" /\ run'.phase = "initialized"
      /\ run'.progress = 0 /\ run'.intent = 0 /\ pc' = "adopt"
  BY MNat, PhaseNames DEF CreateRun, Go, NoRun, Runs, Dirs
<1>4. run.phase = "initialized" /\ run.progress = 0 /\ AllThere
  BY <1>1, <1>2 DEF StepInv, RunInv, Archiving
<1>5. /\ LogInv' /\ PathsAgree' /\ RegistryAgrees' /\ WalkInv'
      /\ RegWalkInv' /\ DurableInv'
  BY <1>1, <1>2, <1>3, Undisturbed
  DEF MigrationInv, Walks, Mending, Staging, Switching, Registering
<1>6. TypeOK'
  BY <1>1, <1>2, <1>3, <1>4, Types, TypesNext
<1>7. RunInv'
  BY <1>1, <1>2, <1>3, <1>4
  DEF RunInv, Archiving, AllThere
<1>8. StepInv'
  BY <1>1, <1>2, <1>3, <1>4
  DEF StepInv, Freezing, Opening, Mending, Staging, Switching, Walking,
       Backing, Binding, Registering, Moving, Ending, Closed, Copied, Saving,
       Schema, Converging
<1>9. DoneInv'
  BY <1>1, <1>2, <1>3, <1>4
  DEF DoneInv, NoOld, AllRegistered, Validated, Registering, Closed, Moving,
       Ending
<1>10. BackupInv'
  BY <1>1, <1>2, <1>3, <1>4
  DEF BackupInv, HasRows, BackupHeld, Installed, Incomplete, Copied, Schema
<1>11. PlanInv'
  BY <1>1, <1>2, <1>3, <1>4
  DEF PlanInv, Rows, Freezing, Opening, Walking, Mending, Staging, Switching,
       Binding, Registering
<1>. QED  BY <1>5, <1>6, <1>7, <1>8, <1>9, <1>10, <1>11 DEF MigrationInv

LEMMA AdoptRunKeeps ==
  ASSUME MigrationInv, AdoptRun
  PROVE  MigrationInv'
<1>1. /\ TypeOK /\ RunInv /\ StepInv /\ DoneInv /\ BackupInv /\ PlanInv
      /\ LogInv /\ PathsAgree /\ RegistryAgrees /\ WalkInv /\ RegWalkInv /\ DurableInv
  BY DEF MigrationInv
<1>2. /\ pc = "adopt" /\ mem' = mem /\ snap' = snap /\ db' = db /\ row' = row
      /\ asset' = asset /\ plan' = plan /\ backplan' = backplan /\ jr' = jr
      /\ ckpt' = ckpt /\ stg' = stg /\ dst' = dst /\ ino' = ino
      /\ unsynced' = unsynced /\ loose' = loose /\ item' = item
      /\ budget' = budget
  BY DEF AdoptRun, At, logs, files
<1>3. /\ run' \in Runs /\ run'.dir = "ready" /\ run'.phase = run.phase
      /\ run'.progress = run.progress /\ run'.intent = run.intent
      /\ run'.summary = run.summary /\ pc' = "prepare"
  BY <1>1, Types DEF AdoptRun, Go, Runs, Dirs
<1>4. /\ LogInv' /\ PathsAgree' /\ RegistryAgrees' /\ WalkInv'
      /\ RegWalkInv' /\ DurableInv'
  BY <1>1, <1>2, <1>3, Undisturbed
  DEF MigrationInv, Walks, Mending, Staging, Switching, Registering
<1>5. TypeOK'
  BY <1>1, <1>2, <1>3, Types, TypesNext
<1>6. RunInv'
  BY <1>1, <1>2, <1>3
  DEF RunInv, Archiving, AllThere
<1>7. StepInv'
  BY <1>1, <1>2, <1>3
  DEF StepInv, Freezing, Opening, Mending, Staging, Switching, Walking,
       Backing, Binding, Registering, Moving, Ending, Closed, Copied, Saving,
       Schema, Converging
<1>8. DoneInv'
  BY <1>1, <1>2, <1>3
  DEF DoneInv, NoOld, AllRegistered, Validated, Registering, Closed, Moving,
       Ending
<1>9. BackupInv'
  BY <1>1, <1>2, <1>3
  DEF BackupInv, HasRows, BackupHeld, Installed, Incomplete, Copied, Schema
<1>10. PlanInv'
  BY <1>1, <1>2, <1>3
  DEF PlanInv, Rows, Freezing, Opening, Walking, Mending, Staging, Switching,
       Binding, Registering
<1>. QED  BY <1>4, <1>5, <1>6, <1>7, <1>8, <1>9, <1>10 DEF MigrationInv

LEMMA PrepareKeeps ==
  ASSUME MigrationInv, Prepare
  PROVE  MigrationInv'
<1>1. /\ TypeOK /\ RunInv /\ StepInv /\ DoneInv /\ BackupInv /\ PlanInv
      /\ LogInv /\ PathsAgree /\ RegistryAgrees /\ WalkInv /\ RegWalkInv /\ DurableInv
  BY DEF MigrationInv
<1>2. /\ pc = "prepare" /\ mem' = mem /\ snap' = snap /\ db' = db
      /\ row' = row /\ asset' = asset /\ plan' = plan /\ backplan' = backplan
      /\ jr' = jr /\ ckpt' = ckpt /\ stg' = stg /\ dst' = dst /\ ino' = ino
      /\ unsynced' = unsynced /\ loose' = loose /\ item' = item
      /\ budget' = budget
  BY DEF Prepare, At, logs, files
<1>3. /\ run' \in Runs /\ run'.dir = run.dir
      /\ run'.progress = run.progress /\ run'.intent = run.intent
      /\ run'.summary = run.summary
      /\ \/ /\ run'.phase = "snapshot_intent" /\ pc' = "snapshot"
            /\ run.phase = "initialized" \/ run.phase = "snapshot_intent"
         \/ /\ run'.phase = run.phase /\ pc' = "cleanup"
            /\ run.phase \in {"snapshot_complete", "schema_complete"}
         \/ /\ run'.phase = run.phase /\ pc' = "locks"
            /\ run.phase # "snapshot_intent"
            /\ run.phase = "initialized" => ~db.exists
  BY <1>1, Types DEF Prepare, Go, Runs, RunPhases, PhaseOrder
<1>4. /\ LogInv' /\ PathsAgree' /\ RegistryAgrees' /\ WalkInv'
      /\ RegWalkInv' /\ DurableInv'
  BY <1>1, <1>2, <1>3, Undisturbed
  DEF MigrationInv, Walks, Mending, Staging, Switching, Registering
<1>5. TypeOK'
  BY <1>1, <1>2, <1>3, Types, TypesNext
<1>6. RunInv'
  BY <1>1, <1>2, <1>3
  DEF RunInv, Archiving, AllThere, StepInv
<1>7. StepInv'
  BY <1>1, <1>2, <1>3
  DEF StepInv, Freezing, Opening, Mending, Staging, Switching, Walking,
       Backing, Binding, Registering, Moving, Ending, Closed, Copied, Saving,
       Schema, Converging
<1>8. DoneInv'
  BY <1>1, <1>2, <1>3
  DEF DoneInv, NoOld, AllRegistered, Validated, Registering, Closed, Moving,
       Ending
<1>9. BackupInv'
  BY <1>1, <1>2, <1>3
  DEF BackupInv, HasRows, BackupHeld, Installed, Incomplete, Copied, Schema
<1>10. PlanInv'
  BY <1>1, <1>2, <1>3
  DEF PlanInv, Rows, Freezing, Opening, Walking, Mending, Staging, Switching,
       Binding, Registering
<1>. QED  BY <1>4, <1>5, <1>6, <1>7, <1>8, <1>9, <1>10 DEF MigrationInv

LEMMA SnapshotKeeps ==
  ASSUME MigrationInv, Snapshot
  PROVE  MigrationInv'
<1>1. /\ TypeOK /\ RunInv /\ StepInv /\ DoneInv /\ BackupInv /\ PlanInv
      /\ LogInv /\ PathsAgree /\ RegistryAgrees /\ WalkInv /\ RegWalkInv /\ DurableInv
  BY DEF MigrationInv
<1>2. /\ pc = "snapshot" /\ mem' = mem /\ run' = run /\ db' = db
      /\ row' = row /\ asset' = asset /\ plan' = plan /\ backplan' = backplan
      /\ jr' = jr /\ ckpt' = ckpt /\ stg' = stg /\ dst' = dst /\ ino' = ino
      /\ unsynced' = unsynced /\ loose' = loose /\ item' = item
      /\ budget' = budget
  BY DEF Snapshot, At, logs, files
<1>3. \/ snap' = snap /\ pc' = "failed"
      \/ snap' = snap /\ pc' = "cleanup" /\ snap.final = "full"
      \/ /\ snap' = [snap EXCEPT !.temp = "none"] /\ pc' = "snapshot"
         /\ snap.final = "none" /\ snap.receipt = "none"
      \/ /\ snap' = snap /\ pc' = "promote"
         /\ snap.final = "none" /\ snap.receipt = "full"
      \/ /\ snap' = snap /\ pc' = "copy"
         /\ snap.final = "none" /\ snap.receipt = "none" /\ snap.temp = "none"
  BY <1>1, <1>2, Types DEF Snapshot, Go, Fail, ResumeSnapshot, Snaps
<1>4. /\ snap' \in Snaps /\ snap'.final = snap.final /\ snap'.receipt = snap.receipt
      /\ snap'.rows = snap.rows
      /\ snap'.temp = snap.temp \/ (snap'.temp = "none" /\ snap.receipt = "none")
  BY <1>1, <1>3, Types DEF Snaps, Written
<1>5. /\ RunInv' /\ DoneInv' /\ LogInv' /\ PathsAgree' /\ RegistryAgrees'
      /\ WalkInv' /\ RegWalkInv' /\ DurableInv'
  BY <1>1, <1>2, <1>3, Undisturbed
  DEF MigrationInv, Ends, Registering, Closed, Moving, Ending, Walks,
       Mending, Staging, Switching
<1>6. TypeOK'
  BY <1>1, <1>2, <1>3, <1>4, Types, TypesNext
<1>7. StepInv'
  BY <1>1, <1>2, <1>3, <1>4
  DEF StepInv, Freezing, Opening, Mending, Staging, Switching, Walking,
       Backing, Binding, Registering, Moving, Ending, Closed, Copied, Saving,
       Schema, Converging
<1>8. BackupInv'
  BY <1>1, <1>2, <1>3, <1>4
  DEF BackupInv, HasRows, BackupHeld, Installed, Incomplete, Copied, Schema
<1>9. PlanInv'
  BY <1>1, <1>2, <1>3, <1>4
  DEF PlanInv, Rows, Freezing, Opening, Walking, Mending, Staging, Switching,
       Binding, Registering
<1>. QED  BY <1>5, <1>6, <1>7, <1>8, <1>9 DEF MigrationInv

LEMMA CopyDatabaseKeeps ==
  ASSUME MigrationInv, CopyDatabase
  PROVE  MigrationInv'
<1>1. /\ TypeOK /\ RunInv /\ StepInv /\ DoneInv /\ BackupInv /\ PlanInv
      /\ LogInv /\ PathsAgree /\ RegistryAgrees /\ WalkInv /\ RegWalkInv /\ DurableInv
  BY DEF MigrationInv
<1>2. /\ pc = "copy" /\ mem' = mem /\ run' = run /\ db' = db /\ row' = row
      /\ asset' = asset /\ plan' = plan /\ backplan' = backplan /\ jr' = jr
      /\ ckpt' = ckpt /\ stg' = stg /\ dst' = dst /\ ino' = ino
      /\ unsynced' = unsynced /\ loose' = loose /\ item' = item
      /\ budget' = budget
  BY DEF CopyDatabase, At, logs, files
<1>3. /\ snap' \in Snaps /\ snap'.final = snap.final /\ snap'.receipt = snap.receipt
      /\ snap'.rows = row /\ snap'.temp = "full" /\ pc' = "receipt"
  BY <1>1, Types DEF CopyDatabase, Go, Snaps, Written, Dbs
<1>4. /\ RunInv' /\ DoneInv' /\ LogInv' /\ PathsAgree' /\ RegistryAgrees'
      /\ WalkInv' /\ RegWalkInv' /\ DurableInv'
  BY <1>1, <1>2, <1>3, Undisturbed
  DEF MigrationInv, Ends, Registering, Closed, Moving, Ending, Walks,
       Mending, Staging, Switching
<1>5. TypeOK'
  BY <1>1, <1>2, <1>3, Types, TypesNext
<1>6. StepInv'
  BY <1>1, <1>2, <1>3
  DEF StepInv, Freezing, Opening, Mending, Staging, Switching, Walking,
       Backing, Binding, Registering, Moving, Ending, Closed, Copied, Saving,
       Schema, Converging
<1>7. BackupInv'
  BY <1>1, <1>2, <1>3
  DEF BackupInv, HasRows, BackupHeld, Installed, Incomplete, Copied, Schema
<1>8. PlanInv'
  BY <1>1, <1>2, <1>3
  DEF PlanInv, Rows, Freezing, Opening, Walking, Mending, Staging, Switching,
       Binding, Registering
<1>. QED  BY <1>4, <1>5, <1>6, <1>7, <1>8 DEF MigrationInv

LEMMA WriteReceiptKeeps ==
  ASSUME MigrationInv, WriteReceipt
  PROVE  MigrationInv'
<1>1. /\ TypeOK /\ RunInv /\ StepInv /\ DoneInv /\ BackupInv /\ PlanInv
      /\ LogInv /\ PathsAgree /\ RegistryAgrees /\ WalkInv /\ RegWalkInv /\ DurableInv
  BY DEF MigrationInv
<1>2. /\ pc = "receipt" /\ mem' = mem /\ run' = run /\ db' = db /\ row' = row
      /\ asset' = asset /\ plan' = plan /\ backplan' = backplan /\ jr' = jr
      /\ ckpt' = ckpt /\ stg' = stg /\ dst' = dst /\ ino' = ino
      /\ unsynced' = unsynced /\ loose' = loose /\ item' = item
      /\ budget' = budget
  BY DEF WriteReceipt, At, logs, files
<1>3. /\ snap' \in Snaps /\ snap'.final = snap.final /\ snap'.receipt = "full"
      /\ snap'.rows = snap.rows /\ snap'.temp = snap.temp /\ pc' = "promote"
  BY <1>1, Types DEF WriteReceipt, Go, Snaps, Written
<1>4. /\ RunInv' /\ DoneInv' /\ LogInv' /\ PathsAgree' /\ RegistryAgrees'
      /\ WalkInv' /\ RegWalkInv' /\ DurableInv'
  BY <1>1, <1>2, <1>3, Undisturbed
  DEF MigrationInv, Ends, Registering, Closed, Moving, Ending, Walks,
       Mending, Staging, Switching
<1>5. TypeOK'
  BY <1>1, <1>2, <1>3, Types, TypesNext
<1>6. StepInv'
  BY <1>1, <1>2, <1>3
  DEF StepInv, Freezing, Opening, Mending, Staging, Switching, Walking,
       Backing, Binding, Registering, Moving, Ending, Closed, Copied, Saving,
       Schema, Converging
<1>7. BackupInv'
  BY <1>1, <1>2, <1>3
  DEF BackupInv, HasRows, BackupHeld, Installed, Incomplete, Copied, Schema
<1>8. PlanInv'
  BY <1>1, <1>2, <1>3
  DEF PlanInv, Rows, Freezing, Opening, Walking, Mending, Staging, Switching,
       Binding, Registering
<1>. QED  BY <1>4, <1>5, <1>6, <1>7, <1>8 DEF MigrationInv

LEMMA PromoteSnapshotKeeps ==
  ASSUME MigrationInv, PromoteSnapshot
  PROVE  MigrationInv'
<1>1. /\ TypeOK /\ RunInv /\ StepInv /\ DoneInv /\ BackupInv /\ PlanInv
      /\ LogInv /\ PathsAgree /\ RegistryAgrees /\ WalkInv /\ RegWalkInv /\ DurableInv
  BY DEF MigrationInv
<1>2. /\ pc = "promote" /\ mem' = mem /\ run' = run /\ db' = db /\ row' = row
      /\ asset' = asset /\ plan' = plan /\ backplan' = backplan /\ jr' = jr
      /\ ckpt' = ckpt /\ stg' = stg /\ dst' = dst /\ ino' = ino
      /\ unsynced' = unsynced /\ loose' = loose /\ item' = item
      /\ budget' = budget
  BY DEF PromoteSnapshot, At, logs, files
<1>3. /\ snap' \in Snaps /\ snap'.final = "full" /\ snap'.receipt = snap.receipt
      /\ snap'.rows = snap.rows /\ snap'.temp = "none" /\ pc' = "cleanup"
  BY <1>1, Types DEF PromoteSnapshot, Go, Snaps, Written
<1>4. snap.temp = "full" /\ snap.receipt = "full" /\ snap.final = "none"
  BY <1>1, <1>2 DEF BackupInv
<1>5. /\ RunInv' /\ DoneInv' /\ LogInv' /\ PathsAgree' /\ RegistryAgrees'
      /\ WalkInv' /\ RegWalkInv' /\ DurableInv'
  BY <1>1, <1>2, <1>3, Undisturbed
  DEF MigrationInv, Ends, Registering, Closed, Moving, Ending, Walks,
       Mending, Staging, Switching
<1>6. TypeOK'
  BY <1>1, <1>2, <1>3, <1>4, Types, TypesNext
<1>7. StepInv'
  BY <1>1, <1>2, <1>3, <1>4
  DEF StepInv, Freezing, Opening, Mending, Staging, Switching, Walking,
       Backing, Binding, Registering, Moving, Ending, Closed, Copied, Saving,
       Schema, Converging
<1>8. BackupInv'
  BY <1>1, <1>2, <1>3, <1>4
  DEF BackupInv, HasRows, BackupHeld, Installed, Incomplete, Copied, Schema
<1>9. PlanInv'
  BY <1>1, <1>2, <1>3, <1>4
  DEF PlanInv, Rows, Freezing, Opening, Walking, Mending, Staging, Switching,
       Binding, Registering
<1>. QED  BY <1>5, <1>6, <1>7, <1>8, <1>9 DEF MigrationInv

LEMMA CleanupOrphansKeeps ==
  ASSUME MigrationInv, CleanupOrphans
  PROVE  MigrationInv'
<1>1. /\ TypeOK /\ RunInv /\ StepInv /\ DoneInv /\ BackupInv /\ PlanInv
      /\ LogInv /\ PathsAgree /\ RegistryAgrees /\ WalkInv /\ RegWalkInv /\ DurableInv
  BY DEF MigrationInv
<1>2. /\ pc = "cleanup" /\ mem' = mem /\ run' = run /\ snap' = snap
      /\ db' = db /\ asset' = asset /\ plan' = plan /\ backplan' = backplan
      /\ jr' = jr /\ ckpt' = ckpt /\ stg' = stg /\ dst' = dst /\ ino' = ino
      /\ unsynced' = unsynced /\ loose' = loose /\ item' = item
      /\ budget' = budget
  BY DEF CleanupOrphans, At, logs, files
<1>3. \/ row' = row /\ pc' \in {"failed", "cleaned"}
      \/ /\ plan.file = "none" /\ BackupHeld /\ pc' = "cleaned" /\ OrphanRows # {}
         /\ row' = [i \in Images |-> IF i \in OrphanRows THEN "gone" ELSE row[i]]
  BY DEF CleanupOrphans, Go, Fail, PlanNotStarted
<1>4. /\ row' \in [Images -> RowStates] /\ pc' \in {"failed", "cleaned"}
      /\ \A i \in Images : row'[i] = row[i] \/ (row'[i] = "gone" /\ row[i] = "old")
      /\ \/ row' = row
         \/ plan.file = "none" /\ BackupHeld /\ ~NoOld
  BY <1>1, <1>3, Types, ImagesAssumption DEF RowStates, OrphanRows, NoOld
<1>5. \/ row' = row
      \/ /\ ~NoOld /\ plan.file # "frozen" /\ backplan.file # "frozen"
         /\ asset = {} /\ jr.intent["paths"] = {} /\ jr.commit["paths"] = {}
  BY <1>1, <1>4 DEF DoneInv, PlanInv, LogInv, Batches
<1>6. RunInv' /\ LogInv' /\ RegistryAgrees' /\ WalkInv' /\ RegWalkInv'
  BY <1>1, <1>2, <1>3, <1>4, Undisturbed
  DEF MigrationInv, Walks, Mending, Staging, Switching, Registering
<1>7. TypeOK'
  BY <1>1, <1>2, <1>4, Types, TypesNext
<1>8. StepInv'
  BY <1>1, <1>2, <1>4
    DEF StepInv, Freezing, Opening, Mending, Staging, Switching, Walking, Backing,
        Binding, Registering, Moving, Ending, Closed, Copied, Saving, Schema,
        Converging
<1>9. DoneInv'
  BY <1>1, <1>2, <1>4, <1>5, ImagesAssumption
    DEF DoneInv, NoOld, AllRegistered, Validated, Registering, Closed, Moving,
        Ending
<1>10. BackupInv'
  BY <1>1, <1>2, <1>4
    DEF BackupInv, HasRows, BackupHeld, Installed, Incomplete, Copied, Schema
<1>11. PlanInv'
  BY <1>1, <1>2, <1>4, <1>5
    DEF PlanInv, Rows, Freezing, Opening, Walking, Mending, Staging, Switching,
        Binding, Registering
<1>12. PathsAgree'
  <2>1. CASE row' = row
    BY <1>1, <1>2, <2>1 DEF PathsAgree, PreSigned, PostSigned, Open
  <2>2. CASE jr.intent["paths"] = {} /\ jr.commit["paths"] = {}
    <3>1. \A i \in Images : row'[i] = "new" => row[i] = "new"
      BY <1>4
    <3>. QED  BY <1>1, <1>2, <2>2, <3>1 DEF PathsAgree, PreSigned, PostSigned, Open
  <2>. QED  BY <1>5, <2>1, <2>2
<1>13. DurableInv'
  BY <1>1, <1>2, <1>4, ImagesAssumption DEF DurableInv, Kept, Mending
<1>. QED  BY <1>6, <1>7, <1>8, <1>9, <1>10, <1>11, <1>12, <1>13 DEF
          MigrationInv

LEMMA EndSnapshotKeeps ==
  ASSUME MigrationInv, EndSnapshot
  PROVE  MigrationInv'
<1>1. /\ TypeOK /\ RunInv /\ StepInv /\ DoneInv /\ BackupInv /\ PlanInv
      /\ LogInv /\ PathsAgree /\ RegistryAgrees /\ WalkInv /\ RegWalkInv /\ DurableInv
  BY DEF MigrationInv
<1>2. /\ pc = "cleaned" /\ mem' = mem /\ snap' = snap /\ db' = db
      /\ row' = row /\ asset' = asset /\ plan' = plan /\ backplan' = backplan
      /\ jr' = jr /\ ckpt' = ckpt /\ stg' = stg /\ dst' = dst /\ ino' = ino
      /\ unsynced' = unsynced /\ loose' = loose /\ item' = item
      /\ budget' = budget
  BY DEF EndSnapshot, At, logs, files
<1>3. /\ run' \in Runs /\ run'.dir = run.dir /\ run'.progress = run.progress
      /\ run'.intent = run.intent /\ run'.summary = run.summary /\ pc' = "locks"
      /\ \/ run'.phase = run.phase
         \/ run'.phase = "snapshot_complete" /\ run.phase = "snapshot_intent"
  BY <1>1, Types DEF EndSnapshot, Go, Runs, RunPhases, PhaseOrder
<1>4. run'.phase \in {"snapshot_complete", "schema_complete"}
  BY <1>1, <1>2 DEF EndSnapshot, StepInv, Copied, RunInv, Runs
<1>5. /\ LogInv' /\ PathsAgree' /\ RegistryAgrees' /\ WalkInv'
      /\ RegWalkInv' /\ DurableInv'
  BY <1>1, <1>2, <1>3, Undisturbed
  DEF MigrationInv, Walks, Mending, Staging, Switching, Registering
<1>6. TypeOK'
  BY <1>1, <1>2, <1>3, <1>4, Types, TypesNext
<1>7. RunInv'
  BY <1>1, <1>2, <1>3, <1>4
  DEF RunInv, Archiving, AllThere
<1>8. StepInv'
  BY <1>1, <1>2, <1>3, <1>4
  DEF StepInv, Freezing, Opening, Mending, Staging, Switching, Walking,
       Backing, Binding, Registering, Moving, Ending, Closed, Copied, Saving,
       Schema, Converging
<1>9. DoneInv'
  BY <1>1, <1>2, <1>3, <1>4
  DEF DoneInv, NoOld, AllRegistered, Validated, Registering, Closed, Moving,
       Ending
<1>10. BackupInv'
  BY <1>1, <1>2, <1>3, <1>4
  DEF BackupInv, HasRows, BackupHeld, Installed, Incomplete, Copied, Schema
<1>11. PlanInv'
  BY <1>1, <1>2, <1>3, <1>4
  DEF PlanInv, Rows, Freezing, Opening, Walking, Mending, Staging, Switching,
       Binding, Registering
<1>. QED  BY <1>5, <1>6, <1>7, <1>8, <1>9, <1>10, <1>11 DEF MigrationInv

-----------------------------------------------------------------------------
(* The schema and the journal. *)

LEMMA PrepareLocksKeeps ==
  ASSUME MigrationInv, PrepareLocks
  PROVE  MigrationInv'
<1>1. /\ TypeOK /\ RunInv /\ StepInv /\ DoneInv /\ BackupInv /\ PlanInv
      /\ LogInv /\ PathsAgree /\ RegistryAgrees /\ WalkInv /\ RegWalkInv /\ DurableInv
  BY DEF MigrationInv
<1>2. /\ pc = "locks" /\ mem' = mem /\ run' = run /\ snap' = snap /\ db' = db
      /\ row' = row /\ asset' = asset /\ plan' = plan /\ backplan' = backplan
      /\ jr' = jr /\ ckpt' = ckpt /\ stg' = stg /\ dst' = dst /\ ino' = ino
      /\ unsynced' = unsynced /\ loose' = loose /\ item' = item
      /\ budget' = budget
  BY DEF PrepareLocks, At, logs, files
<1>3. pc' = "schema"
  BY DEF PrepareLocks, Go
<1>4. /\ RunInv' /\ LogInv' /\ PathsAgree' /\ RegistryAgrees' /\ WalkInv'
      /\ RegWalkInv' /\ DurableInv'
  BY <1>1, <1>2, <1>3, Undisturbed
  DEF MigrationInv, Walks, Mending, Staging, Switching, Registering
<1>5. TypeOK'
  BY <1>1, <1>2, <1>3, Types, TypesNext
<1>6. StepInv'
  BY <1>1, <1>2, <1>3
  DEF StepInv, Freezing, Opening, Mending, Staging, Switching, Walking,
       Backing, Binding, Registering, Moving, Ending, Closed, Copied, Saving,
       Schema, Converging
<1>7. DoneInv'
  BY <1>1, <1>2, <1>3
  DEF DoneInv, NoOld, AllRegistered, Validated, Registering, Closed, Moving,
       Ending, StepInv
<1>8. BackupInv'
  BY <1>1, <1>2, <1>3
  DEF BackupInv, HasRows, BackupHeld, Installed, Incomplete, Copied, Schema
<1>9. PlanInv'
  BY <1>1, <1>2, <1>3
  DEF PlanInv, Rows, Freezing, Opening, Walking, Mending, Staging, Switching,
       Binding, Registering
<1>. QED  BY <1>4, <1>5, <1>6, <1>7, <1>8, <1>9 DEF MigrationInv

LEMMA MigrateKeeps ==
  ASSUME MigrationInv, Migrate
  PROVE  MigrationInv'
<1>1. /\ TypeOK /\ RunInv /\ StepInv /\ DoneInv /\ BackupInv /\ PlanInv
      /\ LogInv /\ PathsAgree /\ RegistryAgrees /\ WalkInv /\ RegWalkInv /\ DurableInv
  BY DEF MigrationInv
<1>2. /\ pc = "schema" /\ mem' = mem /\ run' = run /\ snap' = snap
      /\ row' = row /\ asset' = asset /\ plan' = plan /\ backplan' = backplan
      /\ jr' = jr /\ ckpt' = ckpt /\ stg' = stg /\ dst' = dst /\ ino' = ino
      /\ unsynced' = unsynced /\ loose' = loose /\ item' = item
      /\ budget' = budget
  BY DEF Migrate, At, logs, files
<1>3. /\ db' \in Dbs /\ db'.exists /\ ~db'.marker /\ pc' = "converge"
  BY <1>1, Types DEF Migrate, Go, Dbs
<1>4. /\ RunInv' /\ LogInv' /\ PathsAgree' /\ RegistryAgrees' /\ WalkInv'
      /\ RegWalkInv' /\ DurableInv'
  BY <1>1, <1>2, <1>3, Undisturbed
  DEF MigrationInv, Walks, Mending, Staging, Switching, Registering
<1>5. TypeOK'
  BY <1>1, <1>2, <1>3, Types, TypesNext
<1>6. StepInv'
  BY <1>1, <1>2, <1>3
  DEF StepInv, Freezing, Opening, Mending, Staging, Switching, Walking,
       Backing, Binding, Registering, Moving, Ending, Closed, Copied, Saving,
       Schema, Converging
<1>7. DoneInv'
  BY <1>1, <1>2, <1>3
  DEF DoneInv, NoOld, AllRegistered, Validated, Registering, Closed, Moving,
       Ending
<1>8. BackupInv'
  BY <1>1, <1>2, <1>3
  DEF BackupInv, HasRows, BackupHeld, Installed, Incomplete, Copied, Schema
<1>9. PlanInv'
  BY <1>1, <1>2, <1>3
  DEF PlanInv, Rows, Freezing, Opening, Walking, Mending, Staging, Switching,
       Binding, Registering
<1>. QED  BY <1>4, <1>5, <1>6, <1>7, <1>8, <1>9 DEF MigrationInv

LEMMA ConvergeKeeps ==
  ASSUME MigrationInv, Converge
  PROVE  MigrationInv'
<1>1. /\ TypeOK /\ RunInv /\ StepInv /\ DoneInv /\ BackupInv /\ PlanInv
      /\ LogInv /\ PathsAgree /\ RegistryAgrees /\ WalkInv /\ RegWalkInv /\ DurableInv
  BY DEF MigrationInv
<1>2. /\ pc = "converge" /\ mem' = mem /\ snap' = snap /\ db' = db
      /\ row' = row /\ asset' = asset /\ plan' = plan /\ backplan' = backplan
      /\ jr' = jr /\ ckpt' = ckpt /\ stg' = stg /\ dst' = dst /\ ino' = ino
      /\ unsynced' = unsynced /\ loose' = loose /\ item' = item
      /\ budget' = budget
  BY DEF Converge, At, logs, files
<1>3. /\ run' \in Runs /\ run'.dir = run.dir
      /\ run'.progress = run.progress /\ run'.intent = run.intent
      /\ run'.summary = run.summary
      /\ \/ run'.phase = run.phase /\ ~Incomplete /\ pc' = "runtime"
         \/ run'.phase = run.phase /\ Incomplete /\ pc' = "failed"
         \/ /\ Incomplete /\ run'.phase = "schema_complete" /\ pc' = "plan"
            /\ run.phase \in {"initialized", "snapshot_complete"}
         \/ /\ Incomplete /\ run'.phase = run.phase /\ pc' = "plan"
            /\ run.phase \notin {"initialized", "snapshot_complete",
                                 "snapshot_intent"}
  BY <1>1, Types DEF Converge, Go, Fail, Runs, RunPhases, PhaseOrder
<1>4. /\ LogInv' /\ PathsAgree' /\ RegistryAgrees' /\ WalkInv'
      /\ RegWalkInv' /\ DurableInv'
  BY <1>1, <1>2, <1>3, Undisturbed
  DEF MigrationInv, Walks, Mending, Staging, Switching, Registering
<1>5. TypeOK'
  BY <1>1, <1>2, <1>3, Types, TypesNext
<1>6. RunInv'
  BY <1>1, <1>2, <1>3
  DEF RunInv, Archiving, AllThere, Incomplete, StepInv, Schema
<1>7. StepInv'
  BY <1>1, <1>2, <1>3
  DEF StepInv, Freezing, Opening, Mending, Staging, Switching, Walking,
       Backing, Binding, Registering, Moving, Ending, Closed, Copied, Saving,
       Schema, Converging, Incomplete
<1>8. DoneInv'
  BY <1>1, <1>2, <1>3, Types
  DEF DoneInv, NoOld, AllRegistered, Validated, Registering, Closed, Moving,
       Ending, Incomplete, StepInv, Schema, RunInv, Archiving, Runs
<1>9. BackupInv'
  BY <1>1, <1>2, <1>3
  DEF BackupInv, HasRows, BackupHeld, Installed, Incomplete, Copied, Schema
<1>10. PlanInv'
  BY <1>1, <1>2, <1>3
  DEF PlanInv, Rows, Freezing, Opening, Walking, Mending, Staging, Switching,
       Binding, Registering
<1>. QED  BY <1>4, <1>5, <1>6, <1>7, <1>8, <1>9, <1>10 DEF MigrationInv

LEMMA OpenJournalKeeps ==
  ASSUME MigrationInv, OpenJournal
  PROVE  MigrationInv'
<1>1. /\ TypeOK /\ RunInv /\ StepInv /\ DoneInv /\ BackupInv /\ PlanInv
      /\ LogInv /\ PathsAgree /\ RegistryAgrees /\ WalkInv /\ RegWalkInv /\ DurableInv
  BY DEF MigrationInv
<1>2. /\ pc = "journal" /\ mem' = mem /\ run' = run /\ snap' = snap
      /\ db' = db /\ row' = row /\ asset' = asset /\ plan' = plan
      /\ backplan' = backplan /\ ckpt' = ckpt /\ stg' = stg /\ dst' = dst
      /\ ino' = ino /\ unsynced' = unsynced /\ loose' = loose /\ item' = item
      /\ budget' = budget
  BY DEF OpenJournal, At, logs, files
<1>3. \/ jr' = jr /\ pc' = "failed"
      \/ jr.made /\ jr' = TailRepaired(jr) /\ pc' = "attempt"
      \/ ~jr.made /\ jr' = [NoJournal EXCEPT !.made = TRUE] /\ pc' = "attempt"
  BY DEF OpenJournal, Go, Fail, CreateJournal
<1>4. /\ jr' \in Journals
      /\ \A p \in LogPhases : jr'.intent[p] = jr.intent[p] /\ jr'.commit[p] = jr.commit[p]
      /\ jr.made => jr'.made
      /\ jr'.made \/ pc' = "failed"
      /\ ~jr'.made => ~jr'.totals
      /\ \A i \in Images : jr.ino["paths"][i] = 0 => jr'.ino["paths"][i] = 0
  <2>1. CASE jr' = jr /\ pc' = "failed"
    BY <1>1, <2>1, Types DEF LogInv
  <2>2. CASE jr.made /\ jr' = TailRepaired(jr)
    BY <1>1, <2>2, Types DEF TailRepaired, Journals
  <2>3. CASE ~jr.made /\ jr' = [NoJournal EXCEPT !.made = TRUE]
    <3>1. /\ jr' \in Journals /\ jr'.made /\ jr'.intent = NoJournal.intent
          /\ jr'.commit = NoJournal.commit /\ jr'.ino = NoJournal.ino
      BY <2>3, EmptyJournal DEF Journals
    <3>2. /\ \A p \in LogPhases : jr'.intent[p] = {} /\ jr'.commit[p] = {}
          /\ \A i \in Images : jr'.ino["paths"][i] = 0
      BY <3>1, EmptyJournal, BothPhases
    <3>. QED  BY <1>1, <2>3, <3>1, <3>2 DEF LogInv, Batches, LogPhases
  <2>. QED  BY <1>3, <2>1, <2>2, <2>3
<1>5. /\ pc' \in {"failed", "attempt"}
      /\ jr'.intent["paths"] = jr.intent["paths"]
      /\ jr'.commit["paths"] = jr.commit["paths"]
      /\ jr'.intent["backfill"] = jr.intent["backfill"]
      /\ jr'.commit["backfill"] = jr.commit["backfill"]
  BY <1>3, <1>4, BothPhases
<1>6. RunInv' /\ DoneInv' /\ BackupInv' /\ WalkInv' /\ RegWalkInv'
  BY <1>1, <1>2, <1>3, <1>4, <1>5, Undisturbed
  DEF MigrationInv, Ends, Registering, Closed, Moving, Ending, Saves, Copied,
       Schema, Walks, Mending, Staging, Switching
<1>7. TypeOK'
  BY <1>1, <1>2, <1>3, <1>4, <1>5, Types, TypesNext
<1>8. StepInv'
  BY <1>1, <1>2, <1>3, <1>4, <1>5
  DEF StepInv, Freezing, Opening, Mending, Staging, Switching, Walking,
       Backing, Binding, Registering, Moving, Ending, Closed, Copied, Saving,
       Schema, Converging
<1>9. PlanInv'
  BY <1>1, <1>2, <1>5
    DEF PlanInv, Rows, Freezing, Opening, Walking, Mending, Staging, Switching,
        Binding, Registering
<1>10. LogInv'
  BY <1>1, <1>2, <1>4, <1>5 DEF LogInv, Batches, Open
<1>11. PathsAgree'
  BY <1>1, <1>2, <1>5 DEF PathsAgree, PreSigned, PostSigned, Open
<1>12. RegistryAgrees'
  BY <1>1, <1>2, <1>5
    DEF RegistryAgrees, Unregistered, Registered, ToRegister, Open
<1>13. DurableInv'
  BY <1>1, <1>2, <1>4, <1>5 DEF DurableInv, Kept, Mending
<1>. QED  BY <1>6, <1>7, <1>8, <1>9, <1>10, <1>11, <1>12, <1>13 DEF
          MigrationInv

LEMMA RecordAttemptKeeps ==
  ASSUME MigrationInv, RecordAttempt
  PROVE  MigrationInv'
<1>1. /\ TypeOK /\ RunInv /\ StepInv /\ DoneInv /\ BackupInv /\ PlanInv
      /\ LogInv /\ PathsAgree /\ RegistryAgrees /\ WalkInv /\ RegWalkInv /\ DurableInv
  BY DEF MigrationInv
<1>2. /\ pc = "attempt" /\ mem' = mem /\ run' = run /\ snap' = snap
      /\ db' = db /\ row' = row /\ asset' = asset /\ plan' = plan
      /\ backplan' = backplan /\ ckpt' = ckpt /\ stg' = stg /\ dst' = dst
      /\ ino' = ino /\ unsynced' = unsynced /\ loose' = loose /\ item' = item
      /\ budget' = budget
  BY DEF RecordAttempt, At, logs, files
<1>3. /\ pc' = "totals" /\ jr'.made = jr.made /\ jr'.totals = jr.totals
      /\ jr' \in Journals /\ jr'.intent = jr.intent /\ jr'.commit = jr.commit
      /\ jr'.ino = jr.ino
  BY <1>1, Types DEF RecordAttempt, Go, AttemptRecorded, Journals
<1>4. RunInv' /\ DoneInv' /\ BackupInv' /\ WalkInv' /\ RegWalkInv'
  BY <1>1, <1>2, <1>3, Undisturbed
  DEF MigrationInv, Ends, Registering, Closed, Moving, Ending, Saves, Copied,
       Schema, Walks, Mending, Staging, Switching
<1>5. TypeOK'
  BY <1>1, <1>2, <1>3, Types, TypesNext
<1>6. StepInv'
  BY <1>1, <1>2, <1>3
  DEF StepInv, Freezing, Opening, Mending, Staging, Switching, Walking,
       Backing, Binding, Registering, Moving, Ending, Closed, Copied, Saving,
       Schema, Converging
<1>7. PlanInv'
  BY <1>1, <1>2, <1>3
  DEF PlanInv, Rows, Freezing, Opening, Walking, Mending, Staging, Switching,
       Binding, Registering
<1>8. LogInv'
  BY <1>1, <1>2, <1>3
  DEF LogInv, Batches, Open
<1>9. PathsAgree'
  BY <1>1, <1>2, <1>3
  DEF PathsAgree, PreSigned, PostSigned, Open
<1>10. RegistryAgrees'
  BY <1>1, <1>2, <1>3
  DEF RegistryAgrees, Unregistered, Registered, ToRegister, Open
<1>11. DurableInv'
  BY <1>1, <1>2, <1>3
  DEF DurableInv, Kept, Mending
<1>. QED  BY <1>4, <1>5, <1>6, <1>7, <1>8, <1>9, <1>10, <1>11 DEF MigrationInv

LEMMA FreezeTotalsKeeps ==
  ASSUME MigrationInv, FreezeTotals
  PROVE  MigrationInv'
<1>1. /\ TypeOK /\ RunInv /\ StepInv /\ DoneInv /\ BackupInv /\ PlanInv
      /\ LogInv /\ PathsAgree /\ RegistryAgrees /\ WalkInv /\ RegWalkInv /\ DurableInv
  BY DEF MigrationInv
<1>2. /\ pc = "totals" /\ mem' = mem /\ run' = run /\ snap' = snap
      /\ db' = db /\ row' = row /\ asset' = asset /\ plan' = plan
      /\ backplan' = backplan /\ ckpt' = ckpt /\ stg' = stg /\ dst' = dst
      /\ ino' = ino /\ unsynced' = unsynced /\ loose' = loose /\ item' = item
      /\ budget' = budget
  BY DEF FreezeTotals, At, logs, files
<1>3. /\ pc' \in {"persist", "failed"} /\ jr'.made = jr.made
      /\ jr' \in Journals /\ jr'.intent = jr.intent /\ jr'.commit = jr.commit
      /\ jr'.ino = jr.ino
  BY <1>1, Types DEF FreezeTotals, Go, Fail, TotalsFrozen, Journals
<1>4. RunInv' /\ DoneInv' /\ BackupInv' /\ WalkInv' /\ RegWalkInv'
  BY <1>1, <1>2, <1>3, Undisturbed
  DEF MigrationInv, Ends, Registering, Closed, Moving, Ending, Saves, Copied,
       Schema, Walks, Mending, Staging, Switching
<1>5. TypeOK'
  BY <1>1, <1>2, <1>3, Types, TypesNext
<1>6. StepInv'
  BY <1>1, <1>2, <1>3
  DEF StepInv, Freezing, Opening, Mending, Staging, Switching, Walking,
       Backing, Binding, Registering, Moving, Ending, Closed, Copied, Saving,
       Schema, Converging
<1>7. PlanInv'
  BY <1>1, <1>2, <1>3
  DEF PlanInv, Rows, Freezing, Opening, Walking, Mending, Staging, Switching,
       Binding, Registering
<1>8. LogInv'
  BY <1>1, <1>2, <1>3
  DEF LogInv, Batches, Open
<1>9. PathsAgree'
  BY <1>1, <1>2, <1>3
  DEF PathsAgree, PreSigned, PostSigned, Open
<1>10. RegistryAgrees'
  BY <1>1, <1>2, <1>3
  DEF RegistryAgrees, Unregistered, Registered, ToRegister, Open
<1>11. DurableInv'
  BY <1>1, <1>2, <1>3
  DEF DurableInv, Kept, Mending
<1>. QED  BY <1>4, <1>5, <1>6, <1>7, <1>8, <1>9, <1>10, <1>11 DEF MigrationInv

LEMMA PersistMediaKeeps ==
  ASSUME MigrationInv, PersistMedia
  PROVE  MigrationInv'
<1>1. /\ TypeOK /\ RunInv /\ StepInv /\ DoneInv /\ BackupInv /\ PlanInv
      /\ LogInv /\ PathsAgree /\ RegistryAgrees /\ WalkInv /\ RegWalkInv /\ DurableInv
  BY DEF MigrationInv
<1>2. /\ pc = "persist" /\ mem' = mem /\ snap' = snap /\ db' = db
      /\ row' = row /\ asset' = asset /\ plan' = plan /\ backplan' = backplan
      /\ jr' = jr /\ ckpt' = ckpt /\ stg' = stg /\ dst' = dst /\ ino' = ino
      /\ unsynced' = unsynced /\ loose' = loose /\ item' = item
      /\ budget' = budget
  BY DEF PersistMedia, At, logs, files
<1>3. /\ run' \in Runs /\ run'.dir = run.dir /\ run'.progress = run.progress
      /\ run'.intent = run.intent /\ run'.summary = run.summary
      /\ run'.phase = run.phase /\ pc' = "copying"
  BY <1>1, Types DEF PersistMedia, Go, Runs
<1>4. /\ LogInv' /\ PathsAgree' /\ RegistryAgrees' /\ WalkInv'
      /\ RegWalkInv' /\ DurableInv'
  BY <1>1, <1>2, <1>3, Undisturbed
  DEF MigrationInv, Walks, Mending, Staging, Switching, Registering
<1>5. TypeOK'
  BY <1>1, <1>2, <1>3, Types, TypesNext
<1>6. RunInv'
  BY <1>1, <1>2, <1>3
  DEF RunInv, Archiving, AllThere
<1>7. StepInv'
  BY <1>1, <1>2, <1>3
  DEF StepInv, Freezing, Opening, Mending, Staging, Switching, Walking,
       Backing, Binding, Registering, Moving, Ending, Closed, Copied, Saving,
       Schema, Converging
<1>8. DoneInv'
  BY <1>1, <1>2, <1>3
  DEF DoneInv, NoOld, AllRegistered, Validated, Registering, Closed, Moving,
       Ending
<1>9. BackupInv'
  BY <1>1, <1>2, <1>3
  DEF BackupInv, HasRows, BackupHeld, Installed, Incomplete, Copied, Schema
<1>10. PlanInv'
  BY <1>1, <1>2, <1>3
  DEF PlanInv, Rows, Freezing, Opening, Walking, Mending, Staging, Switching,
       Binding, Registering
<1>. QED  BY <1>4, <1>5, <1>6, <1>7, <1>8, <1>9, <1>10 DEF MigrationInv

LEMMA StartCopyingKeeps ==
  ASSUME MigrationInv, StartCopying
  PROVE  MigrationInv'
<1>1. /\ TypeOK /\ RunInv /\ StepInv /\ DoneInv /\ BackupInv /\ PlanInv
      /\ LogInv /\ PathsAgree /\ RegistryAgrees /\ WalkInv /\ RegWalkInv /\ DurableInv
  BY DEF MigrationInv
<1>2. /\ pc = "copying" /\ mem' = mem /\ snap' = snap /\ db' = db
      /\ row' = row /\ asset' = asset /\ plan' = plan /\ backplan' = backplan
      /\ jr' = jr /\ ckpt' = ckpt /\ stg' = stg /\ dst' = dst /\ ino' = ino
      /\ unsynced' = unsynced /\ loose' = loose /\ item' = item
      /\ budget' = budget
  BY DEF StartCopying, At, logs, files
<1>3. /\ run' \in Runs /\ run'.dir = run.dir /\ run'.progress = run.progress
      /\ run'.intent = run.intent /\ run'.summary = run.summary
      /\ run'.phase = run.phase \/ (run'.phase = "copying" /\ run.phase = "schema_complete")
      /\ pc' = "paths"
  BY <1>1, Types DEF StartCopying, FirstPhase, Go, Runs, RunPhases, PhaseOrder
<1>4. /\ LogInv' /\ PathsAgree' /\ RegistryAgrees' /\ WalkInv'
      /\ RegWalkInv' /\ DurableInv'
  BY <1>1, <1>2, <1>3, Undisturbed
  DEF MigrationInv, Walks, Mending, Staging, Switching, Registering
<1>5. TypeOK'
  BY <1>1, <1>2, <1>3, Types, TypesNext
<1>6. RunInv'
  BY <1>1, <1>2, <1>3
  DEF RunInv, Archiving, AllThere
<1>7. StepInv'
  BY <1>1, <1>2, <1>3
  DEF StepInv, Freezing, Opening, Mending, Staging, Switching, Walking,
       Backing, Binding, Registering, Moving, Ending, Closed, Copied, Saving,
       Schema, Converging
<1>8. DoneInv'
  BY <1>1, <1>2, <1>3
  DEF DoneInv, NoOld, AllRegistered, Validated, Registering, Closed, Moving,
       Ending
<1>9. BackupInv'
  BY <1>1, <1>2, <1>3
  DEF BackupInv, HasRows, BackupHeld, Installed, Incomplete, Copied, Schema
<1>10. PlanInv'
  BY <1>1, <1>2, <1>3
  DEF PlanInv, Rows, Freezing, Opening, Walking, Mending, Staging, Switching,
       Binding, Registering
<1>. QED  BY <1>4, <1>5, <1>6, <1>7, <1>8, <1>9, <1>10 DEF MigrationInv

LEMMA EndPathsKeeps ==
  ASSUME MigrationInv, EndPaths
  PROVE  MigrationInv'
<1>1. /\ TypeOK /\ RunInv /\ StepInv /\ DoneInv /\ BackupInv /\ PlanInv
      /\ LogInv /\ PathsAgree /\ RegistryAgrees /\ WalkInv /\ RegWalkInv /\ DurableInv
  BY DEF MigrationInv
<1>2. /\ pc = "pathsdone" /\ mem' = mem /\ snap' = snap /\ db' = db
      /\ row' = row /\ asset' = asset /\ plan' = plan /\ backplan' = backplan
      /\ jr' = jr /\ ckpt' = ckpt /\ stg' = stg /\ dst' = dst /\ ino' = ino
      /\ unsynced' = unsynced /\ loose' = loose /\ item' = item
      /\ budget' = budget
  BY DEF EndPaths, At, logs, files
<1>3. /\ run' \in Runs /\ run'.dir = run.dir /\ run'.progress = run.progress
      /\ run'.intent = run.intent /\ run'.summary = run.summary
      /\ run'.phase = run.phase \/ (run'.phase = "paths_complete" /\ run.phase = "copying")
      /\ pc' = "backopen"
  BY <1>1, Types DEF EndPaths, Go, Runs, RunPhases, PhaseOrder
<1>4. /\ LogInv' /\ PathsAgree' /\ RegistryAgrees' /\ WalkInv'
      /\ RegWalkInv' /\ DurableInv'
  BY <1>1, <1>2, <1>3, Undisturbed
  DEF MigrationInv, Walks, Mending, Staging, Switching, Registering
<1>5. TypeOK'
  BY <1>1, <1>2, <1>3, Types, TypesNext
<1>6. RunInv'
  BY <1>1, <1>2, <1>3
  DEF RunInv, Archiving, AllThere
<1>7. StepInv'
  BY <1>1, <1>2, <1>3
  DEF StepInv, Freezing, Opening, Mending, Staging, Switching, Walking,
       Backing, Binding, Registering, Moving, Ending, Closed, Copied, Saving,
       Schema, Converging
<1>8. DoneInv'
  BY <1>1, <1>2, <1>3
  DEF DoneInv, NoOld, AllRegistered, Validated, Registering, Closed, Moving,
       Ending
<1>9. BackupInv'
  BY <1>1, <1>2, <1>3
  DEF BackupInv, HasRows, BackupHeld, Installed, Incomplete, Copied, Schema
<1>10. PlanInv'
  BY <1>1, <1>2, <1>3
  DEF PlanInv, Rows, Freezing, Opening, Walking, Mending, Staging, Switching,
       Binding, Registering
<1>. QED  BY <1>4, <1>5, <1>6, <1>7, <1>8, <1>9, <1>10 DEF MigrationInv

LEMMA RuntimeCheckKeeps ==
  ASSUME MigrationInv, RuntimeCheck
  PROVE  MigrationInv'
<1>1. /\ TypeOK /\ RunInv /\ StepInv /\ DoneInv /\ BackupInv /\ PlanInv
      /\ LogInv /\ PathsAgree /\ RegistryAgrees /\ WalkInv /\ RegWalkInv /\ DurableInv
  BY DEF MigrationInv
<1>2. /\ pc = "runtime" /\ mem' = mem /\ run' = run /\ snap' = snap
      /\ row' = row /\ asset' = asset /\ plan' = plan /\ backplan' = backplan
      /\ jr' = jr /\ ckpt' = ckpt /\ stg' = stg /\ dst' = dst /\ ino' = ino
      /\ unsynced' = unsynced /\ loose' = loose /\ item' = item
      /\ budget' = budget
  BY DEF RuntimeCheck, At, logs, files
<1>3. /\ db' \in Dbs /\ db'.exists = db.exists /\ db'.schema = db.schema /\ pc' = "done"
  BY <1>1, Types DEF RuntimeCheck, Go, Dbs
<1>4. /\ RunInv' /\ LogInv' /\ PathsAgree' /\ RegistryAgrees' /\ WalkInv'
      /\ RegWalkInv' /\ DurableInv'
  BY <1>1, <1>2, <1>3, Undisturbed
  DEF MigrationInv, Walks, Mending, Staging, Switching, Registering
<1>5. TypeOK'
  BY <1>1, <1>2, <1>3, Types, TypesNext
<1>6. StepInv'
  BY <1>1, <1>2, <1>3
  DEF StepInv, Freezing, Opening, Mending, Staging, Switching, Walking,
       Backing, Binding, Registering, Moving, Ending, Closed, Copied, Saving,
       Schema, Converging
<1>7. DoneInv'
  BY <1>1, <1>2, <1>3
  DEF DoneInv, NoOld, AllRegistered, Validated, Registering, Closed, Moving,
       Ending
<1>8. BackupInv'
  BY <1>1, <1>2, <1>3
  DEF BackupInv, HasRows, BackupHeld, Installed, Incomplete, Copied, Schema
<1>9. PlanInv'
  BY <1>1, <1>2, <1>3
  DEF PlanInv, Rows, Freezing, Opening, Walking, Mending, Staging, Switching,
       Binding, Registering
<1>. QED  BY <1>4, <1>5, <1>6, <1>7, <1>8, <1>9 DEF MigrationInv

-----------------------------------------------------------------------------
(* The path phase. *)

LEMMA OpenManifestKeeps ==
  ASSUME MigrationInv, OpenManifest
  PROVE  MigrationInv'
<1>1. /\ TypeOK /\ RunInv /\ StepInv /\ DoneInv /\ BackupInv /\ PlanInv
      /\ LogInv /\ PathsAgree /\ RegistryAgrees /\ WalkInv /\ RegWalkInv /\ DurableInv
  BY DEF MigrationInv
<1>2. /\ pc = "plan" /\ mem' = mem /\ run' = run /\ snap' = snap /\ db' = db
      /\ row' = row /\ asset' = asset /\ backplan' = backplan /\ jr' = jr
      /\ ckpt' = ckpt /\ stg' = stg /\ dst' = dst /\ ino' = ino
      /\ unsynced' = unsynced /\ loose' = loose /\ item' = item
      /\ budget' = budget
  BY DEF OpenManifest, At, logs, files
<1>3. /\ plan' \in Plans /\ plan'.images = plan.images
      /\ plan'.file = "frozen" <=> plan.file = "frozen"
      /\ \/ pc' \in {"freeze", "replan"} /\ plan.file # "frozen"
         \/ pc' = "journal" /\ plan.file = "frozen"
         \/ pc' = "failed"
  BY <1>1, Types DEF OpenManifest, Go, Fail, Plans, PlanFiles
<1>4. /\ RunInv' /\ DoneInv' /\ BackupInv' /\ PathsAgree'
      /\ RegistryAgrees' /\ WalkInv' /\ RegWalkInv' /\ DurableInv'
  BY <1>1, <1>2, <1>3, Undisturbed
  DEF MigrationInv, Ends, Registering, Closed, Moving, Ending, Saves, Copied,
       Schema, Walks, Mending, Staging, Switching
<1>5. TypeOK'
  BY <1>1, <1>2, <1>3, Types, TypesNext
<1>6. StepInv'
  BY <1>1, <1>2, <1>3
  DEF StepInv, Freezing, Opening, Mending, Staging, Switching, Walking,
       Backing, Binding, Registering, Moving, Ending, Closed, Copied, Saving,
       Schema, Converging
<1>7. PlanInv'
  BY <1>1, <1>2, <1>3
  DEF PlanInv, Rows, Freezing, Opening, Walking, Mending, Staging, Switching,
       Binding, Registering
<1>8. LogInv'
  BY <1>1, <1>2, <1>3
  DEF LogInv, Batches, Open
<1>. QED  BY <1>4, <1>5, <1>6, <1>7, <1>8 DEF MigrationInv

LEMMA RecoverIncompletePlanKeeps ==
  ASSUME MigrationInv, RecoverIncompletePlan
  PROVE  MigrationInv'
<1>1. /\ TypeOK /\ RunInv /\ StepInv /\ DoneInv /\ BackupInv /\ PlanInv
      /\ LogInv /\ PathsAgree /\ RegistryAgrees /\ WalkInv /\ RegWalkInv /\ DurableInv
  BY DEF MigrationInv
<1>2. /\ pc = "replan" /\ mem' = mem /\ run' = run /\ snap' = snap
      /\ db' = db /\ row' = row /\ asset' = asset /\ backplan' = backplan
      /\ jr' = jr /\ ckpt' = ckpt /\ stg' = stg /\ dst' = dst /\ ino' = ino
      /\ unsynced' = unsynced /\ loose' = loose /\ item' = item
      /\ budget' = budget
  BY DEF RecoverIncompletePlan, At, logs, files
<1>3. /\ plan' \in Plans /\ plan'.images = plan.images
      /\ plan'.file = "frozen" <=> plan.file = "frozen"
      /\ pc' \in {"plan", "failed"}
  BY <1>1, Types
    DEF RecoverIncompletePlan, Resettable, Go, Fail, Plans, PlanFiles
<1>4. /\ RunInv' /\ DoneInv' /\ BackupInv' /\ PathsAgree'
      /\ RegistryAgrees' /\ WalkInv' /\ RegWalkInv' /\ DurableInv'
  BY <1>1, <1>2, <1>3, Undisturbed
  DEF MigrationInv, Ends, Registering, Closed, Moving, Ending, Saves, Copied,
       Schema, Walks, Mending, Staging, Switching
<1>5. TypeOK'
  BY <1>1, <1>2, <1>3, Types, TypesNext
<1>6. StepInv'
  BY <1>1, <1>2, <1>3
  DEF StepInv, Freezing, Opening, Mending, Staging, Switching, Walking,
       Backing, Binding, Registering, Moving, Ending, Closed, Copied, Saving,
       Schema, Converging
<1>7. PlanInv'
  BY <1>1, <1>2, <1>3
  DEF PlanInv, Rows, Freezing, Opening, Walking, Mending, Staging, Switching,
       Binding, Registering
<1>8. LogInv'
  BY <1>1, <1>2, <1>3
  DEF LogInv, Batches, Open
<1>. QED  BY <1>4, <1>5, <1>6, <1>7, <1>8 DEF MigrationInv

LEMMA WriteFrozenPlanKeeps ==
  ASSUME MigrationInv, WriteFrozenPlan
  PROVE  MigrationInv'
<1>1. /\ TypeOK /\ RunInv /\ StepInv /\ DoneInv /\ BackupInv /\ PlanInv
      /\ LogInv /\ PathsAgree /\ RegistryAgrees /\ WalkInv /\ RegWalkInv /\ DurableInv
  BY DEF MigrationInv
<1>2. /\ pc = "freeze" /\ mem' = mem /\ run' = run /\ snap' = snap
      /\ db' = db /\ row' = row /\ asset' = asset /\ backplan' = backplan
      /\ jr' = jr /\ ckpt' = ckpt /\ stg' = stg /\ dst' = dst /\ ino' = ino
      /\ unsynced' = unsynced /\ loose' = loose /\ item' = item
      /\ budget' = budget
  BY DEF WriteFrozenPlan, At, logs, files
<1>3. plan.file # "frozen" /\ jr.intent["paths"] = {} /\ jr.commit["paths"] = {}
  BY <1>1, <1>2 DEF PlanInv, Freezing, LogInv, Batches
<1>4. \/ plan' = plan /\ pc' = "failed"
      \/ /\ plan' \in Plans /\ plan'.file = "frozen" /\ plan'.images = Rows
         /\ Plannable /\ pc' = "plan"
  BY DEF WriteFrozenPlan, Go, Fail, Plans, PlanFiles, Rows
<1>5. /\ RunInv' /\ DoneInv' /\ BackupInv' /\ PathsAgree'
      /\ RegistryAgrees' /\ WalkInv' /\ RegWalkInv' /\ DurableInv'
  BY <1>1, <1>2, <1>4, Undisturbed
  DEF MigrationInv, Ends, Registering, Closed, Moving, Ending, Saves, Copied,
       Schema, Walks, Mending, Staging, Switching
<1>6. TypeOK'
  BY <1>1, <1>2, <1>3, <1>4, Types, TypesNext
<1>7. StepInv'
  BY <1>1, <1>2, <1>3, <1>4
  DEF StepInv, Freezing, Opening, Mending, Staging, Switching, Walking,
       Backing, Binding, Registering, Moving, Ending, Closed, Copied, Saving,
       Schema, Converging
<1>8. PlanInv'
  BY <1>1, <1>2, <1>3, <1>4, ImagesAssumption
  DEF PlanInv, Rows, Freezing, Opening, Walking, Mending, Staging, Switching,
       Binding, Registering, Plannable, SourceThere
<1>9. LogInv'
  BY <1>1, <1>2, <1>3, <1>4, LeadingNone
  DEF LogInv, Batches, Open
<1>. QED  BY <1>5, <1>6, <1>7, <1>8, <1>9 DEF MigrationInv

LEMMA StartPathsKeeps ==
  ASSUME MigrationInv, StartPaths
  PROVE  MigrationInv'
<1>1. /\ TypeOK /\ RunInv /\ StepInv /\ DoneInv /\ BackupInv /\ PlanInv
      /\ LogInv /\ PathsAgree /\ RegistryAgrees /\ WalkInv /\ RegWalkInv /\ DurableInv
  BY DEF MigrationInv
<1>2. /\ pc = "paths" /\ run' = run /\ snap' = snap /\ db' = db /\ row' = row
      /\ asset' = asset /\ plan' = plan /\ backplan' = backplan /\ jr' = jr
      /\ ckpt' = ckpt /\ stg' = stg /\ dst' = dst /\ ino' = ino
      /\ unsynced' = unsynced /\ loose' = loose /\ item' = item
      /\ budget' = budget
  BY DEF StartPaths, At, logs, files
<1>3. \/ mem' = mem /\ pc' = "failed"
      \/ /\ mem' \in Mems /\ mem'.todo = jr.commit["paths"]
         /\ pc' = "verify"
  BY <1>1, Fields, BothPhases DEF StartPaths, Go, Fail, Mems, NoMem
<1>4. /\ RunInv' /\ DoneInv' /\ BackupInv' /\ LogInv' /\ PathsAgree'
      /\ RegistryAgrees' /\ RegWalkInv' /\ DurableInv'
  BY <1>1, <1>2, <1>3, Undisturbed
  DEF MigrationInv, Ends, Registering, Closed, Moving, Ending, Saves, Copied,
       Schema, Mending
<1>5. TypeOK'
  BY <1>1, <1>2, <1>3, Types, TypesNext
<1>6. StepInv'
  BY <1>1, <1>2, <1>3
  DEF StepInv, Freezing, Opening, Mending, Staging, Switching, Walking,
       Backing, Binding, Registering, Moving, Ending, Closed, Copied, Saving,
       Schema, Converging
<1>7. PlanInv'
  BY <1>1, <1>2, <1>3
  DEF PlanInv, Rows, Freezing, Opening, Walking, Mending, Staging, Switching,
       Binding, Registering
<1>8. WalkInv'
  BY <1>1, <1>2, <1>3
  DEF WalkInv, Mending, Staging, Switching, Open, PostSigned, Broken, Good
<1>. QED  BY <1>4, <1>5, <1>6, <1>7, <1>8 DEF MigrationInv

LEMMA VerifyBatchKeeps ==
  ASSUME MigrationInv, VerifyBatch
  PROVE  MigrationInv'
<1>1. /\ TypeOK /\ RunInv /\ StepInv /\ DoneInv /\ BackupInv /\ PlanInv
      /\ LogInv /\ PathsAgree /\ RegistryAgrees /\ WalkInv /\ RegWalkInv /\ DurableInv
  BY DEF MigrationInv
<1>2. /\ pc = "verify" /\ run' = run /\ snap' = snap /\ db' = db
      /\ row' = row /\ asset' = asset /\ plan' = plan /\ backplan' = backplan
      /\ jr' = jr /\ ckpt' = ckpt /\ stg' = stg /\ dst' = dst /\ ino' = ino
      /\ unsynced' = unsynced /\ loose' = loose /\ item' = item
      /\ budget' = budget
  BY DEF VerifyBatch, At, logs, files
<1>3. /\ mem.todo \subseteq jr.commit["paths"]
      /\ jr.commit["paths"] \subseteq plan.images
      /\ jr.commit["paths"] \subseteq jr.intent["paths"]
      /\ Leading(jr.commit["paths"], plan.images)
  BY <1>1, <1>2 DEF WalkInv, LogInv, Batches, Leading
<1>4. \/ mem' = mem /\ pc' \in {"recheck", "pathsdone", "batch"}
      \/ /\ mem.todo # {}
         /\ LET b == BlockOf(First(mem.todo), plan.images)
            IN  \/ mem' = [mem EXCEPT !.todo = @ \ b] /\ pc' = "verify"
                \/ mem' = [mem EXCEPT !.batch = b] /\ pc' = "mend"
  BY <1>2 DEF VerifyBatch, AllVerified, Go
<1>5. \/ mem' \in Mems /\ mem'.todo \subseteq mem.todo
         /\ pc' \in {"recheck", "pathsdone", "batch", "verify"}
      \/ /\ mem' \in Mems /\ mem'.todo = mem.todo /\ pc' = "mend"
         /\ mem'.batch # {} /\ OneBlock(mem'.batch, plan.images)
         /\ mem'.batch \subseteq jr.commit["paths"]
  <2>1. CASE mem' = mem /\ pc' \in {"recheck", "pathsdone", "batch"}
    BY <1>1, <2>1, Types
  <2>2. CASE mem.todo # {}
    <3> DEFINE i == First(mem.todo)
               b == BlockOf(i, plan.images)
    <3>1. i \in jr.commit["paths"] /\ i \in plan.images
      BY <1>1, <1>3, <2>2, Fields, LeastIn
    <3>2. b # {} /\ OneBlock(b, plan.images)
      BY <3>1, InOwnBlock, BlockMember DEF OneBlock
    <3>3. b \subseteq jr.commit["paths"]
      BY <1>3, <3>1 DEF Leading
    <3>4. b \in SUBSET Images
      BY <1>1, <1>3, <3>3, Fields
    <3>5. CASE mem' = [mem EXCEPT !.todo = @ \ b] /\ pc' = "verify"
      BY <1>1, <3>5, Types DEF Mems
    <3>6. CASE mem' = [mem EXCEPT !.batch = b] /\ pc' = "mend"
      <4>1. mem' \in Mems /\ mem'.todo = mem.todo /\ mem'.batch = b
        BY <1>1, <3>4, <3>6, Types DEF Mems
      <4>. QED  BY <3>2, <3>3, <3>6, <4>1
    <3>. QED  BY <1>4, <2>1, <3>5, <3>6
  <2>. QED  BY <1>4, <2>1, <2>2
<1>6. /\ RunInv' /\ DoneInv' /\ BackupInv' /\ LogInv' /\ PathsAgree'
      /\ RegistryAgrees' /\ RegWalkInv'
  BY <1>1, <1>2, <1>4, <1>5, Undisturbed
  DEF MigrationInv, Ends, Registering, Closed, Moving, Ending, Saves, Copied,
       Schema
<1>7. TypeOK'
  BY <1>1, <1>2, <1>3, <1>4, <1>5, Types, TypesNext
<1>8. StepInv'
  BY <1>1, <1>2, <1>3, <1>4, <1>5
  DEF StepInv, Freezing, Opening, Mending, Staging, Switching, Walking,
       Backing, Binding, Registering, Moving, Ending, Closed, Copied, Saving,
       Schema, Converging
<1>9. PlanInv'
  BY <1>1, <1>2, <1>3, <1>4, <1>5
  DEF PlanInv, Rows, Freezing, Opening, Walking, Mending, Staging, Switching,
       Binding, Registering
<1>10. WalkInv'
  BY <1>1, <1>2, <1>3, <1>4, <1>5
  DEF WalkInv, Mending, Staging, Switching, Open, PostSigned, Broken, Good
<1>11. DurableInv'
  BY <1>1, <1>2, <1>3, <1>4, <1>5
  DEF DurableInv, Kept, Mending
<1>. QED  BY <1>6, <1>7, <1>8, <1>9, <1>10, <1>11 DEF MigrationInv

LEMMA RepairCheckpointKeeps ==
  ASSUME MigrationInv, RepairCheckpoint
  PROVE  MigrationInv'
<1>1. /\ TypeOK /\ RunInv /\ StepInv /\ DoneInv /\ BackupInv /\ PlanInv
      /\ LogInv /\ PathsAgree /\ RegistryAgrees /\ WalkInv /\ RegWalkInv /\ DurableInv
  BY DEF MigrationInv
<1>2. /\ pc = "recheck" /\ mem' = mem /\ run' = run /\ snap' = snap
      /\ db' = db /\ row' = row /\ asset' = asset /\ plan' = plan
      /\ backplan' = backplan /\ jr' = jr /\ stg' = stg /\ dst' = dst
      /\ ino' = ino /\ unsynced' = unsynced /\ loose' = loose /\ item' = item
      /\ budget' = budget
  BY DEF RepairCheckpoint, At, logs, files
<1>3. ckpt' \in Nat /\ pc' \in {"pathsdone", "failed"}
  BY <1>1, Types DEF RepairCheckpoint, WriteCheckpoint, Go, Fail, Journals
<1>4. /\ RunInv' /\ DoneInv' /\ BackupInv' /\ LogInv' /\ PathsAgree'
      /\ RegistryAgrees' /\ WalkInv' /\ RegWalkInv' /\ DurableInv'
  BY <1>1, <1>2, <1>3, Undisturbed
  DEF MigrationInv, Ends, Registering, Closed, Moving, Ending, Saves, Copied,
       Schema, Walks, Mending, Staging, Switching
<1>5. TypeOK'
  BY <1>1, <1>2, <1>3, Types, TypesNext
<1>6. StepInv'
  BY <1>1, <1>2, <1>3
  DEF StepInv, Freezing, Opening, Mending, Staging, Switching, Walking,
       Backing, Binding, Registering, Moving, Ending, Closed, Copied, Saving,
       Schema, Converging
<1>7. PlanInv'
  BY <1>1, <1>2, <1>3
  DEF PlanInv, Rows, Freezing, Opening, Walking, Mending, Staging, Switching,
       Binding, Registering
<1>. QED  BY <1>4, <1>5, <1>6, <1>7 DEF MigrationInv

LEMMA MendBatchKeeps ==
  ASSUME MigrationInv, MendBatch
  PROVE  MigrationInv'
<1>1. /\ TypeOK /\ RunInv /\ StepInv /\ DoneInv /\ BackupInv /\ PlanInv
      /\ LogInv /\ PathsAgree /\ RegistryAgrees /\ WalkInv /\ RegWalkInv /\ DurableInv
  BY DEF MigrationInv
<1>2. /\ pc = "mend" /\ mem' = mem /\ run' = run /\ snap' = snap /\ db' = db
      /\ row' = row /\ asset' = asset /\ plan' = plan /\ backplan' = backplan
      /\ jr' = jr /\ ckpt' = ckpt /\ stg' = stg /\ dst' = dst /\ ino' = ino
      /\ unsynced' = unsynced /\ loose' = loose /\ item' = item
      /\ budget' = budget
  BY DEF MendBatch, At, logs, files
<1>3. budget.damage = 0 => Unsound = {}
  <2>1. mem.batch \subseteq jr.intent["paths"] /\ mem.batch \in SUBSET Images
    BY <1>1, <1>2, Fields DEF WalkInv, Mending
  <2>. QED  BY <1>1, <2>1 DEF DurableInv, Unsound, Good, Kept
<1>4. /\ pc' \in {"resume", "failed", "mendlog", "mendstage"}
      /\ pc' = "mendstage" => Broken # {}
      /\ Unsound = {} => pc' = "resume"
  BY DEF MendBatch, Go, Fail
<1>5. /\ RunInv' /\ DoneInv' /\ BackupInv' /\ LogInv' /\ PathsAgree'
      /\ RegistryAgrees' /\ RegWalkInv'
  BY <1>1, <1>2, <1>4, Undisturbed
  DEF MigrationInv, Ends, Registering, Closed, Moving, Ending, Saves, Copied,
       Schema
<1>6. TypeOK'
  BY <1>1, <1>2, <1>3, <1>4, Types, TypesNext
<1>7. StepInv'
  BY <1>1, <1>2, <1>3, <1>4
  DEF StepInv, Freezing, Opening, Mending, Staging, Switching, Walking,
       Backing, Binding, Registering, Moving, Ending, Closed, Copied, Saving,
       Schema, Converging
<1>8. PlanInv'
  BY <1>1, <1>2, <1>3, <1>4
  DEF PlanInv, Rows, Freezing, Opening, Walking, Mending, Staging, Switching,
       Binding, Registering
<1>9. WalkInv'
  BY <1>1, <1>2, <1>3, <1>4
  DEF WalkInv, Mending, Staging, Switching, Open, PostSigned, Broken, Good
<1>10. DurableInv'
  BY <1>1, <1>2, <1>3, <1>4
  DEF DurableInv, Kept, Mending
<1>. QED  BY <1>5, <1>6, <1>7, <1>8, <1>9, <1>10 DEF MigrationInv

LEMMA MendStageKeeps ==
  ASSUME MigrationInv, MendStage
  PROVE  MigrationInv'
<1>1. /\ TypeOK /\ RunInv /\ StepInv /\ DoneInv /\ BackupInv /\ PlanInv
      /\ LogInv /\ PathsAgree /\ RegistryAgrees /\ WalkInv /\ RegWalkInv /\ DurableInv
  BY DEF MigrationInv
<1>2. /\ pc = "mendstage" /\ mem' = mem /\ run' = run /\ snap' = snap
      /\ db' = db /\ row' = row /\ asset' = asset /\ plan' = plan
      /\ backplan' = backplan /\ jr' = jr /\ ckpt' = ckpt /\ dst' = dst
      /\ ino' = ino /\ loose' = loose /\ item' = item /\ budget' = budget
  BY DEF MendStage, At, logs, files
<1>3. First(Broken) \in Images /\ budget.damage # 0
  <2>1. Broken # {} /\ Broken \in SUBSET Images
    BY <1>1, <1>2, Fields DEF WalkInv, Broken
  <2>2. budget.damage # 0
    BY <1>1, <1>2 DEF DurableInv, Mending
  <2>. QED  BY <2>1, <2>2, LeastIn
<1>4. /\ stg' \in Stagings /\ unsynced' \in SUBSET Images
      /\ pc' \in {"mendsync", "failed"}
  BY <1>1, <1>3, Types DEF MendStage, Staged, Go, Fail, Stagings, Written
<1>5. /\ RunInv' /\ DoneInv' /\ BackupInv' /\ LogInv' /\ PathsAgree'
      /\ RegistryAgrees' /\ RegWalkInv'
  BY <1>1, <1>2, <1>4, Undisturbed
  DEF MigrationInv, Ends, Registering, Closed, Moving, Ending, Saves, Copied,
       Schema
<1>6. TypeOK'
  BY <1>1, <1>2, <1>3, <1>4, Types, TypesNext
<1>7. StepInv'
  BY <1>1, <1>2, <1>3, <1>4
  DEF StepInv, Freezing, Opening, Mending, Staging, Switching, Walking,
       Backing, Binding, Registering, Moving, Ending, Closed, Copied, Saving,
       Schema, Converging
<1>8. PlanInv'
  BY <1>1, <1>2, <1>3, <1>4
  DEF PlanInv, Rows, Freezing, Opening, Walking, Mending, Staging, Switching,
       Binding, Registering
<1>9. WalkInv'
  BY <1>1, <1>2, <1>3, <1>4
  DEF WalkInv, Mending, Staging, Switching, Open, PostSigned, Broken, Good
<1>10. DurableInv'
  BY <1>1, <1>2, <1>3, <1>4
  DEF DurableInv, Kept, Mending
<1>. QED  BY <1>5, <1>6, <1>7, <1>8, <1>9, <1>10 DEF MigrationInv

LEMMA MendSyncKeeps ==
  ASSUME MigrationInv, MendSync
  PROVE  MigrationInv'
<1>1. /\ TypeOK /\ RunInv /\ StepInv /\ DoneInv /\ BackupInv /\ PlanInv
      /\ LogInv /\ PathsAgree /\ RegistryAgrees /\ WalkInv /\ RegWalkInv /\ DurableInv
  BY DEF MigrationInv
<1>2. /\ pc = "mendsync" /\ mem' = mem /\ run' = run /\ snap' = snap
      /\ db' = db /\ row' = row /\ asset' = asset /\ plan' = plan
      /\ backplan' = backplan /\ jr' = jr /\ ckpt' = ckpt /\ stg' = stg
      /\ dst' = dst /\ ino' = ino /\ item' = item /\ budget' = budget
  BY DEF MendSync, At, logs, files
<1>3. budget.damage # 0
  BY <1>1, <1>2 DEF DurableInv, Mending
<1>4. unsynced' = {} /\ loose' \in Namings /\ pc' = "mendreplace"
  BY DEF MendSync, Synced, AllNamed, Namings, Go
<1>5. /\ RunInv' /\ DoneInv' /\ BackupInv' /\ LogInv' /\ PathsAgree'
      /\ RegistryAgrees' /\ RegWalkInv'
  BY <1>1, <1>2, <1>4, Undisturbed
  DEF MigrationInv, Ends, Registering, Closed, Moving, Ending, Saves, Copied,
       Schema
<1>6. TypeOK'
  BY <1>1, <1>2, <1>3, <1>4, Types, TypesNext
<1>7. StepInv'
  BY <1>1, <1>2, <1>3, <1>4
  DEF StepInv, Freezing, Opening, Mending, Staging, Switching, Walking,
       Backing, Binding, Registering, Moving, Ending, Closed, Copied, Saving,
       Schema, Converging
<1>8. PlanInv'
  BY <1>1, <1>2, <1>3, <1>4
  DEF PlanInv, Rows, Freezing, Opening, Walking, Mending, Staging, Switching,
       Binding, Registering
<1>9. WalkInv'
  BY <1>1, <1>2, <1>3, <1>4
  DEF WalkInv, Mending, Staging, Switching, Open, PostSigned, Broken, Good
<1>10. DurableInv'
  BY <1>1, <1>2, <1>3, <1>4
  DEF DurableInv, Kept, Mending
<1>. QED  BY <1>5, <1>6, <1>7, <1>8, <1>9, <1>10 DEF MigrationInv

LEMMA MendReplaceKeeps ==
  ASSUME MigrationInv, MendReplace
  PROVE  MigrationInv'
<1>1. /\ TypeOK /\ RunInv /\ StepInv /\ DoneInv /\ BackupInv /\ PlanInv
      /\ LogInv /\ PathsAgree /\ RegistryAgrees /\ WalkInv /\ RegWalkInv /\ DurableInv
  BY DEF MigrationInv
<1>2. /\ pc = "mendreplace" /\ mem' = mem /\ run' = run /\ snap' = snap
      /\ db' = db /\ row' = row /\ asset' = asset /\ plan' = plan
      /\ backplan' = backplan /\ jr' = jr /\ ckpt' = ckpt
      /\ unsynced' = unsynced /\ loose' = loose /\ item' = item
      /\ budget' = budget
  BY DEF MendReplace, At, logs, files
<1>3. budget.damage # 0
  BY <1>1, <1>2 DEF DurableInv, Mending
<1>4. /\ stg' \in Stagings /\ dst' \in Destinations /\ ino' \in Inodes
      /\ pc' = "mend"
  BY <1>1, Fields, Types
    DEF MendReplace, Stagings, Destinations, Inodes, Written, Go
<1>5. /\ RunInv' /\ DoneInv' /\ BackupInv' /\ LogInv' /\ PathsAgree'
      /\ RegistryAgrees' /\ RegWalkInv'
  BY <1>1, <1>2, <1>4, Undisturbed
  DEF MigrationInv, Ends, Registering, Closed, Moving, Ending, Saves, Copied,
       Schema
<1>6. TypeOK'
  BY <1>1, <1>2, <1>3, <1>4, Types, TypesNext
<1>7. StepInv'
  BY <1>1, <1>2, <1>3, <1>4
  DEF StepInv, Freezing, Opening, Mending, Staging, Switching, Walking,
       Backing, Binding, Registering, Moving, Ending, Closed, Copied, Saving,
       Schema, Converging
<1>8. PlanInv'
  BY <1>1, <1>2, <1>3, <1>4
  DEF PlanInv, Rows, Freezing, Opening, Walking, Mending, Staging, Switching,
       Binding, Registering
<1>9. WalkInv'
  BY <1>1, <1>2, <1>3, <1>4
  DEF WalkInv, Mending, Staging, Switching, Open, PostSigned, Broken, Good
<1>10. DurableInv'
  BY <1>1, <1>2, <1>3, <1>4
  DEF DurableInv, Kept, Mending
<1>. QED  BY <1>5, <1>6, <1>7, <1>8, <1>9, <1>10 DEF MigrationInv

LEMMA MendLogKeeps ==
  ASSUME MigrationInv, MendLog
  PROVE  MigrationInv'
<1>1. /\ TypeOK /\ RunInv /\ StepInv /\ DoneInv /\ BackupInv /\ PlanInv
      /\ LogInv /\ PathsAgree /\ RegistryAgrees /\ WalkInv /\ RegWalkInv /\ DurableInv
  BY DEF MigrationInv
<1>2. /\ pc = "mendlog" /\ run' = run /\ snap' = snap /\ db' = db
      /\ row' = row /\ asset' = asset /\ plan' = plan /\ backplan' = backplan
      /\ ckpt' = ckpt /\ stg' = stg /\ dst' = dst /\ ino' = ino
      /\ unsynced' = unsynced /\ loose' = loose /\ item' = item
      /\ budget' = budget
  BY DEF MendLog, At, logs, files
<1>3. budget.damage # 0
  BY <1>1, <1>2 DEF DurableInv, Mending
<1>4. /\ mem' \in Mems /\ mem'.batch = mem.batch /\ mem'.todo = mem.todo
      /\ pc' = "resume"
  BY <1>1, Types DEF MendLog, Mems, Go
<1>5. /\ jr' \in Journals /\ jr'.intent = jr.intent /\ jr'.commit = jr.commit
      /\ jr'.made = jr.made /\ jr'.totals = jr.totals
  <2>1. CASE jr' = jr
    BY <1>1, <2>1, Types
  <2>2. CASE jr' = Repaired(jr, "paths", mem.batch, ino)
    <3> DEFINE f == [i \in Images |-> IF i \in mem.batch THEN ino[i]
                                      ELSE jr.ino["paths"][i]]
               k == IF "paths" \in jr.done THEN jr.proj + 1 ELSE jr.proj
    <3>1. f \in Inodes
      BY <1>1, Types, BothPhases DEF Inodes, Journals
    <3>2. jr.ino \in [LogPhases -> Inodes] /\ jr.proj \in Nat
      BY <1>1, Types DEF Journals
    <3>4. k \in Nat
      BY <3>2
    <3>3. jr' = [jr EXCEPT !.ino = [jr.ino EXCEPT !["paths"] = f], !.proj = k]
      BY <1>1, <2>2, Types DEF Repaired, Journals
    <3> HIDE DEF f, k
    <3>5. [jr.ino EXCEPT !["paths"] = f] \in [LogPhases -> Inodes]
      BY <3>1, <3>2
    <3>. QED  BY <1>1, <3>3, <3>4, <3>5, Types DEF Journals
  <2>. QED  BY <2>1, <2>2 DEF MendLog
<1>6. RunInv' /\ DoneInv' /\ BackupInv' /\ RegWalkInv'
  BY <1>1, <1>2, <1>4, Undisturbed
  DEF MigrationInv, Ends, Registering, Closed, Moving, Ending, Saves, Copied,
       Schema
<1>7. TypeOK'
  BY <1>1, <1>2, <1>3, <1>4, <1>5, Types, TypesNext
<1>8. StepInv'
  BY <1>1, <1>2, <1>3, <1>4, <1>5
  DEF StepInv, Freezing, Opening, Mending, Staging, Switching, Walking,
       Backing, Binding, Registering, Moving, Ending, Closed, Copied, Saving,
       Schema, Converging
<1>9. PlanInv'
  BY <1>1, <1>2, <1>3, <1>4, <1>5
  DEF PlanInv, Rows, Freezing, Opening, Walking, Mending, Staging, Switching,
       Binding, Registering
<1>10. LogInv'
  BY <1>1, <1>2, <1>3, <1>4, <1>5
  DEF LogInv, Batches, Open
<1>11. PathsAgree'
  BY <1>1, <1>2, <1>3, <1>4, <1>5
  DEF PathsAgree, PreSigned, PostSigned, Open
<1>12. RegistryAgrees'
  BY <1>1, <1>2, <1>3, <1>4, <1>5
  DEF RegistryAgrees, Unregistered, Registered, ToRegister, Open
<1>13. WalkInv'
  BY <1>1, <1>2, <1>3, <1>4, <1>5
  DEF WalkInv, Mending, Staging, Switching, Open, PostSigned, Broken, Good
<1>14. DurableInv'
  BY <1>1, <1>2, <1>3, <1>4, <1>5
  DEF DurableInv, Kept, Mending
<1>. QED  BY <1>6, <1>7, <1>8, <1>9, <1>10, <1>11, <1>12, <1>13, <1>14 DEF
          MigrationInv

LEMMA ResumeBatchKeeps ==
  ASSUME MigrationInv, ResumeBatch
  PROVE  MigrationInv'
<1>1. /\ TypeOK /\ RunInv /\ StepInv /\ DoneInv /\ BackupInv /\ PlanInv
      /\ LogInv /\ PathsAgree /\ RegistryAgrees /\ WalkInv /\ RegWalkInv /\ DurableInv
  BY DEF MigrationInv
<1>2. /\ pc = "resume" /\ run' = run /\ snap' = snap /\ db' = db
      /\ row' = row /\ asset' = asset /\ plan' = plan /\ backplan' = backplan
      /\ jr' = jr /\ ckpt' = ckpt /\ stg' = stg /\ dst' = dst /\ ino' = ino
      /\ unsynced' = unsynced /\ loose' = loose /\ item' = item
      /\ budget' = budget
  BY DEF ResumeBatch, At, logs, files
<1>3. \/ /\ mem.batch \subseteq jr.commit["paths"] /\ pc' = "verify"
         /\ mem' = [mem EXCEPT !.todo = @ \ mem.batch]
      \/ /\ ~(mem.batch \subseteq jr.commit["paths"]) /\ mem' = mem
         /\ pc' \in {"commit", "apply", "failed"}
         /\ pc' = "commit" => PostSigned(mem.batch)
  BY DEF ResumeBatch, Recovered, Recovery, Go, Fail
<1>4. /\ mem.batch # {} /\ OneBlock(mem.batch, plan.images)
      /\ mem.batch \subseteq jr.intent["paths"]
      /\ mem.batch \subseteq jr.commit["paths"] =>
           mem.todo \subseteq jr.commit["paths"]
      /\ Batches("paths", plan.images) /\ plan.images \in SUBSET Images
  BY <1>1, <1>2, Fields DEF WalkInv, Mending, LogInv
<1>5. ~(mem.batch \subseteq jr.commit["paths"]) => mem.batch = Open(jr, "paths")
  BY <1>4, OpenBlock
<1>6. /\ mem' \in Mems /\ mem'.batch = mem.batch
      /\ mem'.todo \subseteq mem.todo
  BY <1>1, <1>3, Types DEF Mems
<1>7. /\ RunInv' /\ DoneInv' /\ BackupInv' /\ LogInv' /\ PathsAgree'
      /\ RegistryAgrees' /\ RegWalkInv' /\ DurableInv'
  BY <1>1, <1>2, <1>3, Undisturbed
  DEF MigrationInv, Ends, Registering, Closed, Moving, Ending, Saves, Copied,
       Schema, Mending
<1>8. TypeOK'
  BY <1>1, <1>2, <1>3, <1>4, <1>5, <1>6, Types, TypesNext
<1>9. StepInv'
  BY <1>1, <1>2, <1>3, <1>4, <1>5, <1>6
  DEF StepInv, Freezing, Opening, Mending, Staging, Switching, Walking,
       Backing, Binding, Registering, Moving, Ending, Closed, Copied, Saving,
       Schema, Converging
<1>10. PlanInv'
  BY <1>1, <1>2, <1>3, <1>4, <1>5, <1>6
  DEF PlanInv, Rows, Freezing, Opening, Walking, Mending, Staging, Switching,
       Binding, Registering
<1>11. WalkInv'
  BY <1>1, <1>2, <1>3, <1>4, <1>5, <1>6
  DEF WalkInv, Mending, Staging, Switching, Open, PostSigned, Broken, Good
<1>. QED  BY <1>7, <1>8, <1>9, <1>10, <1>11 DEF MigrationInv

LEMMA NextBatchKeeps ==
  ASSUME MigrationInv, NextBatch
  PROVE  MigrationInv'
<1>1. /\ TypeOK /\ RunInv /\ StepInv /\ DoneInv /\ BackupInv /\ PlanInv
      /\ LogInv /\ PathsAgree /\ RegistryAgrees /\ WalkInv /\ RegWalkInv /\ DurableInv
  BY DEF MigrationInv
<1>2. /\ pc = "batch" /\ run' = run /\ snap' = snap /\ db' = db /\ row' = row
      /\ asset' = asset /\ plan' = plan /\ backplan' = backplan /\ jr' = jr
      /\ ckpt' = ckpt /\ stg' = stg /\ dst' = dst /\ ino' = ino
      /\ unsynced' = unsynced /\ loose' = loose /\ item' = item
      /\ budget' = budget
  BY DEF NextBatch, At, logs, files
<1>3. Batches("paths", plan.images) /\ plan.images \in SUBSET Images
  BY <1>1, Fields DEF LogInv
<1>4. LET b == Batch(plan.images \ jr.commit["paths"])
      IN  \/ mem' = mem /\ pc' = "closure"
          \/ /\ b # {} /\ mem' = [mem EXCEPT !.batch = b, !.todo = b]
             /\ \/ pc' = "mend" /\ b \subseteq jr.intent["paths"]
                \/ pc' = "stage" /\ ~(b \subseteq jr.intent["paths"])
  BY DEF NextBatch, Pending, Go
<1>5. LET b == Batch(plan.images \ jr.commit["paths"])
      IN  /\ b \in SUBSET Images /\ OneBlock(b, plan.images)
          /\ b \cap jr.commit["paths"] = {}
          /\ ~(b \subseteq jr.intent["paths"]) => b \cap jr.intent["paths"] = {}
  <2>1. Batch(plan.images \ jr.commit["paths"]) \in SUBSET Images
    BY <1>3, BatchWithin
  <2>2. Leading(jr.commit["paths"], plan.images)
    BY <1>3 DEF Batches
  <2>3. /\ OneBlock(Batch(plan.images \ jr.commit["paths"]), plan.images)
        /\ Batch(plan.images \ jr.commit["paths"]) \cap jr.commit["paths"] = {}
    BY <1>3, <2>2, LeadingGrows
  <2>4. /\ jr.commit["paths"] \subseteq jr.intent["paths"]
        /\ \/ jr.intent["paths"] \ jr.commit["paths"] = {}
           \/ jr.intent["paths"] \ jr.commit["paths"]
                = Batch(plan.images \ jr.commit["paths"])
    BY <1>3 DEF Batches, Open
  <2>. QED  BY <2>1, <2>3, <2>4
<1>6. \/ mem' = mem /\ pc' = "closure"
      \/ /\ mem' \in Mems /\ mem'.todo = mem'.batch /\ mem'.batch # {}
         /\ mem'.batch = Batch(plan.images \ jr.commit["paths"])
         /\ \/ pc' = "mend" /\ mem'.batch \subseteq jr.intent["paths"]
            \/ pc' = "stage" /\ mem'.batch \cap jr.intent["paths"] = {}
  BY <1>1, <1>4, <1>5, Types DEF Mems
<1>7. /\ RunInv' /\ DoneInv' /\ BackupInv' /\ LogInv' /\ PathsAgree'
      /\ RegistryAgrees' /\ RegWalkInv'
  BY <1>1, <1>2, <1>4, <1>6, Undisturbed
  DEF MigrationInv, Ends, Registering, Closed, Moving, Ending, Saves, Copied,
       Schema
<1>8. TypeOK'
  BY <1>1, <1>2, <1>6, Types, TypesNext
<1>9. StepInv'
  BY <1>1, <1>2, <1>3, <1>4, <1>5, <1>6
  DEF StepInv, Freezing, Opening, Mending, Staging, Switching, Walking,
       Backing, Binding, Registering, Moving, Ending, Closed, Copied, Saving,
       Schema, Converging
<1>10. PlanInv'
  BY <1>1, <1>2, <1>3, <1>4, <1>5, <1>6
  DEF PlanInv, Rows, Freezing, Opening, Walking, Mending, Staging, Switching,
       Binding, Registering
<1>11. WalkInv'
  BY <1>1, <1>2, <1>5, <1>6 DEF WalkInv, Mending, Staging, Switching, Broken, Good
<1>12. DurableInv'
  BY <1>1, <1>2, <1>3, <1>4, <1>5, <1>6
  DEF DurableInv, Kept, Mending
<1>. QED  BY <1>7, <1>8, <1>9, <1>10, <1>11, <1>12 DEF MigrationInv

LEMMA StageFileKeeps ==
  ASSUME MigrationInv, StageFile
  PROVE  MigrationInv'
<1>1. /\ TypeOK /\ RunInv /\ StepInv /\ DoneInv /\ BackupInv /\ PlanInv
      /\ LogInv /\ PathsAgree /\ RegistryAgrees /\ WalkInv /\ RegWalkInv /\ DurableInv
  BY DEF MigrationInv
<1>2. /\ pc = "stage" /\ run' = run /\ snap' = snap /\ db' = db /\ row' = row
      /\ asset' = asset /\ plan' = plan /\ backplan' = backplan /\ jr' = jr
      /\ ckpt' = ckpt /\ dst' = dst /\ ino' = ino /\ loose' = loose
      /\ item' = item /\ budget' = budget
  BY DEF StageFile, At, logs, files
<1>3. /\ mem.todo \subseteq mem.batch /\ mem.batch # {}
      /\ mem.batch \cap jr.intent["paths"] = {}
      /\ mem.batch = Batch(plan.images \ jr.commit["paths"])
  BY <1>1, <1>2 DEF WalkInv, Staging
<1>4. First(mem.todo) \in mem.todo
  <2>1. mem.todo # {} /\ mem.todo \in SUBSET Images
    BY <1>1, Fields DEF StageFile
  <2>. QED  BY <2>1, LeastIn
<1>5. \/ /\ pc' = "failed" /\ mem' = mem /\ unsynced' \subseteq unsynced
         /\ stg' = [k \in Images |-> IF k \in Prepared THEN "none" ELSE stg[k]]
      \/ /\ pc' = "stage" /\ mem' = [mem EXCEPT !.todo = @ \ {First(@)}]
         /\ stg' = [stg EXCEPT ![First(mem.todo)] = "full"]
         /\ unsynced' \subseteq unsynced \cup {First(mem.todo)}
  BY <1>2 DEF StageFile, NextTodo, Staged, Discard, Go, Fail
<1>6. /\ pc' \in {"failed", "stage"} /\ stg' \in Stagings
      /\ mem' \in Mems /\ mem'.batch = mem.batch /\ mem'.todo \subseteq mem.todo
      /\ unsynced' \in SUBSET Images
      /\ \A i \in Images \ mem.batch : i \in unsynced' => i \in unsynced
  <2>1. CASE /\ pc' = "failed" /\ mem' = mem /\ unsynced' \subseteq unsynced
             /\ stg' = [k \in Images |-> IF k \in Prepared THEN "none" ELSE stg[k]]
    <3>1. stg' \in Stagings
      BY <1>1, <2>1, Types DEF Stagings, Written
    <3>. QED  BY <1>1, <2>1, <3>1, Types
  <2>2. CASE /\ pc' = "stage" /\ mem' = [mem EXCEPT !.todo = @ \ {First(@)}]
             /\ stg' = [stg EXCEPT ![First(mem.todo)] = "full"]
             /\ unsynced' \subseteq unsynced \cup {First(mem.todo)}
    <3>1. First(mem.todo) \in mem.batch /\ First(mem.todo) \in Images
      BY <1>1, <1>3, <1>4, Fields
    <3>2. mem' \in Mems /\ mem'.batch = mem.batch /\ mem'.todo \subseteq mem.todo
      BY <1>1, <2>2, Types DEF Mems
    <3>3. stg' \in Stagings
      BY <1>1, <2>2, Types DEF Stagings, Written
    <3>. QED  BY <1>1, <2>2, <3>1, <3>2, <3>3, Types
  <2>. QED  BY <1>5, <2>1, <2>2
<1>7. /\ RunInv' /\ DoneInv' /\ BackupInv' /\ LogInv' /\ PathsAgree'
      /\ RegistryAgrees' /\ RegWalkInv'
  BY <1>1, <1>2, <1>5, <1>6, Undisturbed
  DEF MigrationInv, Ends, Registering, Closed, Moving, Ending, Saves, Copied,
       Schema
<1>8. TypeOK'
  BY <1>1, <1>2, <1>3, <1>4, <1>5, <1>6, Types, TypesNext
<1>9. StepInv'
  BY <1>1, <1>2, <1>3, <1>4, <1>5, <1>6
  DEF StepInv, Freezing, Opening, Mending, Staging, Switching, Walking,
       Backing, Binding, Registering, Moving, Ending, Closed, Copied, Saving,
       Schema, Converging
<1>10. PlanInv'
  BY <1>1, <1>2, <1>3, <1>4, <1>5, <1>6
  DEF PlanInv, Rows, Freezing, Opening, Walking, Mending, Staging, Switching,
       Binding, Registering
<1>11. WalkInv'
  BY <1>1, <1>2, <1>3, <1>6 DEF WalkInv, Mending, Staging, Switching
<1>12. DurableInv'
  <2>1. \A i \in jr.intent["paths"] : i \in Images /\ i \notin mem.batch
    BY <1>1, <1>3, Fields, BothPhases
  <2>. QED  BY <1>1, <1>2, <1>6, <2>1 DEF DurableInv, Kept, Mending
<1>. QED  BY <1>7, <1>8, <1>9, <1>10, <1>11, <1>12 DEF MigrationInv

LEMMA StageFailsKeeps ==
  ASSUME MigrationInv, StageFails
  PROVE  MigrationInv'
<1>1. /\ TypeOK /\ RunInv /\ StepInv /\ DoneInv /\ BackupInv /\ PlanInv
      /\ LogInv /\ PathsAgree /\ RegistryAgrees /\ WalkInv /\ RegWalkInv /\ DurableInv
  BY DEF MigrationInv
<1>2. /\ pc = "stage" /\ mem' = mem /\ run' = run /\ snap' = snap /\ db' = db
      /\ row' = row /\ asset' = asset /\ plan' = plan /\ backplan' = backplan
      /\ jr' = jr /\ ckpt' = ckpt /\ dst' = dst /\ ino' = ino
      /\ loose' = loose /\ item' = item
  BY DEF StageFails, At, logs, files
<1>3. /\ pc' = "failed" /\ stg' \in Stagings /\ unsynced' \subseteq unsynced
  BY <1>1, Types DEF StageFails, Discard, Fail, Stagings, Written
<1>4. budget' \in Budgets /\ budget'.damage = budget.damage
  BY <1>1, Types, SizesAssumption DEF StageFails, Budgets
<1>5. /\ RunInv' /\ DoneInv' /\ BackupInv' /\ LogInv' /\ PathsAgree'
      /\ RegistryAgrees' /\ WalkInv' /\ RegWalkInv'
  BY <1>1, <1>2, <1>3, Undisturbed
  DEF MigrationInv, Ends, Registering, Closed, Moving, Ending, Saves, Copied,
       Schema, Walks, Mending, Staging, Switching
<1>6. TypeOK'
  <2>1. unsynced' \in SUBSET Images
    BY <1>1, <1>3, Types
  <2>. QED  BY <1>1, <1>2, <1>3, <1>4, <2>1, Types, TypesNext
<1>7. StepInv'
  BY <1>1, <1>2, <1>3, <1>4
  DEF StepInv, Freezing, Opening, Mending, Staging, Switching, Walking,
       Backing, Binding, Registering, Moving, Ending, Closed, Copied, Saving,
       Schema, Converging
<1>8. PlanInv'
  BY <1>1, <1>2, <1>3, <1>4
  DEF PlanInv, Rows, Freezing, Opening, Walking, Mending, Staging, Switching,
       Binding, Registering
<1>9. DurableInv'
  BY <1>1, <1>2, <1>3, <1>4
  DEF DurableInv, Kept, Mending
<1>. QED  BY <1>5, <1>6, <1>7, <1>8, <1>9 DEF MigrationInv

LEMMA SyncFilesKeeps ==
  ASSUME MigrationInv, SyncFiles
  PROVE  MigrationInv'
<1>1. /\ TypeOK /\ RunInv /\ StepInv /\ DoneInv /\ BackupInv /\ PlanInv
      /\ LogInv /\ PathsAgree /\ RegistryAgrees /\ WalkInv /\ RegWalkInv /\ DurableInv
  BY DEF MigrationInv
<1>2. /\ pc = "stage" /\ run' = run /\ snap' = snap /\ db' = db /\ row' = row
      /\ asset' = asset /\ plan' = plan /\ backplan' = backplan /\ jr' = jr
      /\ ckpt' = ckpt /\ stg' = stg /\ dst' = dst /\ ino' = ino
      /\ item' = item /\ budget' = budget
  BY DEF SyncFiles, At, logs, files
<1>3. /\ mem.todo \subseteq mem.batch /\ mem.batch # {}
      /\ mem.batch \cap jr.intent["paths"] = {}
      /\ mem.batch = Batch(plan.images \ jr.commit["paths"])
  BY <1>1, <1>2 DEF WalkInv, Staging
<1>4. /\ pc' = "publish" /\ unsynced' = {} /\ loose' \in Namings
      /\ \A i \in Images : loose'[i] = "no"
      /\ mem' \in Mems /\ mem'.batch = mem.batch /\ mem'.todo = mem.batch
  BY <1>1, Types DEF SyncFiles, Synced, AllNamed, Namings, Go, Mems
<1>5. /\ RunInv' /\ DoneInv' /\ BackupInv' /\ LogInv' /\ PathsAgree'
      /\ RegistryAgrees' /\ RegWalkInv'
  BY <1>1, <1>2, <1>4, Undisturbed
  DEF MigrationInv, Ends, Registering, Closed, Moving, Ending, Saves, Copied,
       Schema
<1>6. TypeOK'
  BY <1>1, <1>2, <1>3, <1>4, Types, TypesNext
<1>7. StepInv'
  BY <1>1, <1>2, <1>3, <1>4
  DEF StepInv, Freezing, Opening, Mending, Staging, Switching, Walking,
       Backing, Binding, Registering, Moving, Ending, Closed, Copied, Saving,
       Schema, Converging
<1>8. PlanInv'
  BY <1>1, <1>2, <1>3, <1>4
  DEF PlanInv, Rows, Freezing, Opening, Walking, Mending, Staging, Switching,
       Binding, Registering
<1>9. WalkInv'
  BY <1>1, <1>2, <1>3, <1>4
  DEF WalkInv, Mending, Staging, Switching, Open, PostSigned, Broken, Good
<1>10. DurableInv'
  <2>1. \A i \in jr.intent["paths"] : i \in Images
    BY <1>1, Fields, BothPhases
  <2>. QED  BY <1>1, <1>2, <1>4, <2>1, ImagesAssumption DEF DurableInv, Kept, Mending
<1>. QED  BY <1>5, <1>6, <1>7, <1>8, <1>9, <1>10 DEF MigrationInv

LEMMA PublishFileKeeps ==
  ASSUME MigrationInv, PublishFile
  PROVE  MigrationInv'
<1>1. /\ TypeOK /\ RunInv /\ StepInv /\ DoneInv /\ BackupInv /\ PlanInv
      /\ LogInv /\ PathsAgree /\ RegistryAgrees /\ WalkInv /\ RegWalkInv /\ DurableInv
  BY DEF MigrationInv
<1>2. /\ pc = "publish" /\ run' = run /\ snap' = snap /\ db' = db
      /\ row' = row /\ asset' = asset /\ plan' = plan /\ backplan' = backplan
      /\ jr' = jr /\ ckpt' = ckpt /\ ino' = ino /\ unsynced' = unsynced
      /\ item' = item /\ budget' = budget
  BY DEF PublishFile, At, logs, files
<1>3. /\ mem.todo \subseteq mem.batch /\ mem.batch # {}
      /\ mem.batch \cap jr.intent["paths"] = {}
      /\ mem.batch = Batch(plan.images \ jr.commit["paths"])
  BY <1>1, <1>2 DEF WalkInv, Staging
<1>4. First(mem.todo) \in mem.todo /\ mem.todo \in SUBSET Images
  <2>1. mem.todo # {} /\ mem.todo \in SUBSET Images
    BY <1>1, Fields DEF PublishFile
  <2>. QED  BY <2>1, LeastIn
<1>5. LET i == First(mem.todo)
      IN  \/ pc' = "failed" /\ mem' = mem /\ stg' = stg /\ dst' = dst /\ loose' = loose
          \/ /\ pc' = "publish" /\ mem' = [mem EXCEPT !.todo = @ \ {First(@)}]
             /\ i \in InPlace \/ dst[i] = "none" \/ dst[i] = "good"
             /\ stg' = [stg EXCEPT ![i] = "none"]
             /\ dst' = [dst EXCEPT ![i] =
                          IF @ = "none" /\ i \notin InPlace THEN "good" ELSE @]
             /\ loose' = [loose EXCEPT ![i] =
                    IF i \notin InPlace /\ dst[i] = "none" THEN "renamed"
                    ELSE "unlinked"]
  BY <1>2 DEF PublishFile, NextTodo, Adoptable, Go, Fail
<1>6. /\ pc' \in {"failed", "publish"} /\ stg' \in Stagings
      /\ dst' \in Destinations /\ loose' \in Namings
      /\ mem' \in Mems /\ mem'.batch = mem.batch /\ mem'.todo \subseteq mem.todo
      /\ \A k \in Images \ mem.batch : dst'[k] = dst[k] /\ loose'[k] = loose[k]
      /\ \A k \in mem.todo \ (mem'.todo \cup InPlace) : dst'[k] = "good"
      /\ \A k \in Images \ mem.todo : dst'[k] = dst[k]
      /\ \A k \in Images : dst[k] = "good" => dst'[k] = "good"
      /\ \A k \in InPlace : dst'[k] = dst[k]
                            /\ (loose'[k] = "renamed" => loose[k] = "renamed")
  <2>1. CASE pc' = "failed" /\ mem' = mem /\ stg' = stg /\ dst' = dst
             /\ loose' = loose
    BY <1>1, <2>1, Types
  <2>2. CASE ~(pc' = "failed" /\ mem' = mem /\ stg' = stg /\ dst' = dst
               /\ loose' = loose)
    <3>1. PICK i \in mem.todo :
            /\ pc' = "publish" /\ mem' = [mem EXCEPT !.todo = @ \ {i}]
            /\ i \in InPlace \/ dst[i] = "none" \/ dst[i] = "good"
            /\ stg' = [stg EXCEPT ![i] = "none"]
            /\ dst' = [dst EXCEPT ![i] =
                         IF @ = "none" /\ i \notin InPlace THEN "good" ELSE @]
            /\ loose' = [loose EXCEPT ![i] =
                   IF i \notin InPlace /\ dst[i] = "none" THEN "renamed"
                   ELSE "unlinked"]
      BY <1>4, <1>5, <2>2
    <3>2. i \in mem.batch /\ i \in Images
      BY <1>3, <1>4, <3>1
    <3>3. mem' \in Mems /\ mem'.batch = mem.batch /\ mem'.todo = mem.todo \ {i}
      BY <1>1, <3>1, Types DEF Mems
    <3>4. stg' \in Stagings /\ dst' \in Destinations /\ loose' \in Namings
      BY <1>1, <3>1, <3>2, Types DEF Stagings, Written, Destinations, Namings
    <3>5. /\ \A k \in Images \ {i} : dst'[k] = dst[k] /\ loose'[k] = loose[k]
          /\ i \in InPlace => dst'[i] = dst[i] /\ loose'[i] = "unlinked"
          /\ i \notin InPlace => dst'[i] = "good"
          /\ dst[i] = "good" => dst'[i] = "good"
      BY <1>1, <3>1, <3>2, Types DEF Destinations, Namings
    <3>. QED  BY <3>1, <3>2, <3>3, <3>4, <3>5, ImagesAssumption
  <2>. QED  BY <2>1, <2>2
<1>7. /\ RunInv' /\ DoneInv' /\ BackupInv' /\ LogInv' /\ PathsAgree'
      /\ RegistryAgrees' /\ RegWalkInv'
  BY <1>1, <1>2, <1>5, <1>6, Undisturbed
  DEF MigrationInv, Ends, Registering, Closed, Moving, Ending, Saves, Copied,
       Schema
<1>8. TypeOK'
  BY <1>1, <1>2, <1>6, Types, TypesNext
<1>9. StepInv'
  BY <1>1, <1>2, <1>3, <1>4, <1>5, <1>6
  DEF StepInv, Freezing, Opening, Mending, Staging, Switching, Walking,
       Backing, Binding, Registering, Moving, Ending, Closed, Copied, Saving,
       Schema, Converging
<1>10. PlanInv'
  BY <1>1, <1>2, <1>3, <1>4, <1>5, <1>6
  DEF PlanInv, Rows, Freezing, Opening, Walking, Mending, Staging, Switching,
       Binding, Registering
<1>11. WalkInv'
  BY <1>1, <1>2, <1>3, <1>6 DEF WalkInv, Mending, Staging, Switching
<1>12. DurableInv'
  <2>1. \A i \in jr.intent["paths"] : i \in Images /\ i \notin mem.batch
    BY <1>1, <1>3, Fields, BothPhases
  <2>2. \A i \in mem.batch : i \in Images
    BY <1>1, Fields
  <2>3. pc' = "publish" \/ pc' = "failed"
    BY <1>6
  <2>4. budget.damage = 0 =>
          \A i \in mem.batch \ (mem'.todo \cup InPlace) : dst'[i] = "good"
    BY <1>1, <1>2, <1>6, <2>2 DEF DurableInv
  <2>5. budget.damage = 0 =>
          /\ \A i \in Images : ino[i] = 0 /\ jr.ino["paths"][i] = 0
          /\ \A i \in InPlace : loose'[i] # "renamed"
                                 /\ (row[i] = "new" => dst'[i] = "good")
          /\ unsynced = {}
    BY <1>1, <1>2, <1>6 DEF DurableInv
  <2>6. budget.damage = 0 =>
          \A i \in jr.intent["paths"] :
            /\ dst'[i] = "good" /\ loose'[i] # "renamed"
            /\ i \in unsynced => i \in InPlace
    BY <1>1, <1>6, <2>1 DEF DurableInv, Kept
  <2>. QED  BY <1>2, <1>6, <2>3, <2>4, <2>5, <2>6 DEF DurableInv, Kept, Mending
<1>. QED  BY <1>7, <1>8, <1>9, <1>10, <1>11, <1>12 DEF MigrationInv

LEMMA SyncDirectoriesKeeps ==
  ASSUME MigrationInv, SyncDirectories
  PROVE  MigrationInv'
<1>1. /\ TypeOK /\ RunInv /\ StepInv /\ DoneInv /\ BackupInv /\ PlanInv
      /\ LogInv /\ PathsAgree /\ RegistryAgrees /\ WalkInv /\ RegWalkInv /\ DurableInv
  BY DEF MigrationInv
<1>2. /\ pc = "publish" /\ mem' = mem /\ run' = run /\ snap' = snap
      /\ db' = db /\ row' = row /\ asset' = asset /\ plan' = plan
      /\ backplan' = backplan /\ jr' = jr /\ ckpt' = ckpt /\ stg' = stg
      /\ dst' = dst /\ ino' = ino /\ unsynced' = unsynced /\ item' = item
      /\ budget' = budget
  BY DEF SyncDirectories, At, logs, files
<1>3. /\ pc' = "intent" /\ mem.todo = {} /\ loose' \in Namings
      /\ \A i \in Images : loose'[i] = "no" 
  BY DEF SyncDirectories, AllNamed, Namings, Go
<1>4. /\ RunInv' /\ DoneInv' /\ BackupInv' /\ LogInv' /\ PathsAgree'
      /\ RegistryAgrees' /\ RegWalkInv'
  BY <1>1, <1>2, <1>3, Undisturbed
  DEF MigrationInv, Ends, Registering, Closed, Moving, Ending, Saves, Copied,
       Schema
<1>5. TypeOK'
  BY <1>1, <1>2, <1>3, Types, TypesNext
<1>6. StepInv'
  BY <1>1, <1>2, <1>3
  DEF StepInv, Freezing, Opening, Mending, Staging, Switching, Walking,
       Backing, Binding, Registering, Moving, Ending, Closed, Copied, Saving,
       Schema, Converging
<1>7. PlanInv'
  BY <1>1, <1>2, <1>3
  DEF PlanInv, Rows, Freezing, Opening, Walking, Mending, Staging, Switching,
       Binding, Registering
<1>8. WalkInv'
  BY <1>1, <1>2, <1>3
  DEF WalkInv, Mending, Staging, Switching, Open, PostSigned, Broken, Good
<1>9. DurableInv'
  <2>1. \A i \in jr.intent["paths"] : i \in Images
    BY <1>1, Fields, BothPhases
  <2>. QED  BY <1>1, <1>2, <1>3, <2>1, ImagesAssumption DEF DurableInv, Kept, Mending
<1>. QED  BY <1>4, <1>5, <1>6, <1>7, <1>8, <1>9 DEF MigrationInv

LEMMA AnnounceBatchKeeps ==
  ASSUME MigrationInv, AnnounceBatch
  PROVE  MigrationInv'
<1>1. /\ TypeOK /\ RunInv /\ StepInv /\ DoneInv /\ BackupInv /\ PlanInv
      /\ LogInv /\ PathsAgree /\ RegistryAgrees /\ WalkInv /\ RegWalkInv /\ DurableInv
  BY DEF MigrationInv
<1>2. /\ pc = "intent" /\ mem' = mem /\ run' = run /\ snap' = snap
      /\ db' = db /\ row' = row /\ asset' = asset /\ plan' = plan
      /\ backplan' = backplan /\ ckpt' = ckpt /\ stg' = stg /\ dst' = dst
      /\ ino' = ino /\ unsynced' = unsynced /\ loose' = loose /\ item' = item
      /\ budget' = budget
  BY DEF AnnounceBatch, At, logs, files
<1>3. /\ mem.todo \subseteq mem.batch /\ mem.batch # {}
      /\ mem.batch \cap jr.intent["paths"] = {}
      /\ mem.batch = Batch(plan.images \ jr.commit["paths"])
  BY <1>1, <1>2 DEF WalkInv, Staging
<1>4. \/ pc' = "failed" /\ jr' = jr
      \/ /\ pc' = "apply" /\ PreSigned(mem.batch) /\ jr.totals
         /\ Open(jr, "paths") = {}
         /\ jr' = IntentAppended(jr, "paths", mem.batch, ino)
  BY BothPhases DEF AnnounceBatch, IntentFollows, Go, Fail
<1>5. pc' = "apply" =>
        /\ jr' \in Journals /\ jr'.made = jr.made /\ jr'.totals = jr.totals
        /\ jr'.commit["paths"] = jr.commit["paths"]
        /\ jr'.commit["backfill"] = jr.commit["backfill"]
        /\ jr'.intent["backfill"] = jr.intent["backfill"]
        /\ jr'.intent["paths"] = jr.intent["paths"] \cup mem.batch
        /\ \A i \in Images : jr'.ino["paths"][i] \in {ino[i], jr.ino["paths"][i]}
  <2> DEFINE b == mem.batch
             f == [i \in Images |-> IF i \in b THEN ino[i] ELSE jr.ino["paths"][i]]
  <2> SUFFICES ASSUME pc' = "apply"
               PROVE  /\ jr' \in Journals /\ jr'.made = jr.made /\ jr'.totals = jr.totals
                      /\ jr'.commit["paths"] = jr.commit["paths"]
                      /\ jr'.commit["backfill"] = jr.commit["backfill"]
                      /\ jr'.intent["backfill"] = jr.intent["backfill"]
                      /\ jr'.intent["paths"] = jr.intent["paths"] \cup b
                      /\ \A i \in Images :
                           jr'.ino["paths"][i] \in {ino[i], jr.ino["paths"][i]}
    OBVIOUS
  <2>1. f \in Inodes /\ b \in SUBSET Images
    BY <1>1, Fields, Types, BothPhases DEF Inodes, Journals
  <2>2. jr.ino \in [LogPhases -> Inodes] /\ jr.intent \in [LogPhases -> SUBSET Images]
    BY <1>1, Types DEF Journals
  <2>3. jr' = [jr EXCEPT !.intent = [jr.intent EXCEPT !["paths"] = @ \cup b],
                         !.ino = [jr.ino EXCEPT !["paths"] = f]]
    BY <1>1, <1>4, Types DEF IntentAppended, Journals
  <2>4. \A i \in Images : f[i] \in {ino[i], jr.ino["paths"][i]}
    OBVIOUS
  <2> HIDE DEF f, b
  <2>5. /\ [jr.ino EXCEPT !["paths"] = f] \in [LogPhases -> Inodes]
        /\ [jr.intent EXCEPT !["paths"] = @ \cup b] \in [LogPhases -> SUBSET Images]
    BY <2>1, <2>2, BothPhases
  <2>6. /\ jr' \in Journals /\ jr'.made = jr.made /\ jr'.totals = jr.totals
        /\ jr'.commit = jr.commit
        /\ jr'.ino = [jr.ino EXCEPT !["paths"] = f]
        /\ jr'.intent = [jr.intent EXCEPT !["paths"] = @ \cup b]
    BY <1>1, <2>3, <2>5, Types DEF Journals
  <2>. QED  BY <2>2, <2>4, <2>6, BothPhases
<1>6. \/ pc' = "failed" /\ jr' = jr
      \/ /\ pc' = "apply" /\ PreSigned(mem.batch) /\ jr.totals
         /\ Open(jr, "paths") = {}
  BY <1>4
<1>7. RunInv' /\ DoneInv' /\ BackupInv' /\ RegWalkInv'
  BY <1>1, <1>2, <1>4, <1>5, <1>6, Undisturbed
  DEF MigrationInv, Ends, Registering, Closed, Moving, Ending, Saves, Copied,
       Schema
<1>8. TypeOK'
  BY <1>1, <1>2, <1>5, <1>6, Types, TypesNext
<1>9. StepInv'
  BY <1>1, <1>2, <1>3, <1>4, <1>5, <1>6
  DEF StepInv, Freezing, Opening, Mending, Staging, Switching, Walking,
       Backing, Binding, Registering, Moving, Ending, Closed, Copied, Saving,
       Schema, Converging
<1>10. PlanInv'
  BY <1>1, <1>2, <1>3, <1>4, <1>5, <1>6
  DEF PlanInv, Rows, Freezing, Opening, Walking, Mending, Staging, Switching,
       Binding, Registering
<1>11. LogInv'
  BY <1>1, <1>2, <1>3, <1>4, <1>5, <1>6
  DEF LogInv, Batches, Open
<1>12. PathsAgree'
  BY <1>1, <1>2, <1>3, <1>4, <1>5, <1>6
  DEF PathsAgree, PreSigned, PostSigned, Open
<1>13. RegistryAgrees'
  BY <1>1, <1>2, <1>3, <1>4, <1>5, <1>6
  DEF RegistryAgrees, Unregistered, Registered, ToRegister, Open
<1>14. WalkInv'
  <2>1. CASE pc' = "failed" /\ jr' = jr
    BY <1>2, <2>1 DEF WalkInv, Mending, Staging, Switching
  <2>2. CASE pc' = "apply"
    <3>1. mem.batch = jr'.intent["paths"] \ jr'.commit["paths"]
      BY <1>1, <1>3, <1>5, <1>6, <2>2 DEF LogInv, Batches, Open
    <3>. QED  BY <1>2, <1>3, <2>2, <3>1 DEF WalkInv, Mending, Staging, Switching, Open
  <2>. QED  BY <1>6, <2>1, <2>2
<1>15. DurableInv'
  <2>1. \A i \in mem.batch : i \in Images
    BY <1>1, Fields
  <2>2. \A i \in jr.intent["paths"] : i \in Images
    BY <1>1, Fields, BothPhases
  <2>3. CASE pc' = "apply"
    <3>1. PreSigned(mem.batch)
      BY <1>6, <2>3
    <3>2. budget.damage = 0 => \A i \in mem.batch : Kept(i)
      BY <1>1, <1>2, <2>1, <3>1 DEF DurableInv, Kept, PreSigned
    <3>. QED  BY <1>1, <1>2, <1>5, <2>1, <2>2, <2>3, <3>2 DEF DurableInv, Kept, Mending
  <2>4. CASE pc' = "failed" /\ jr' = jr
    BY <1>1, <1>2, <2>4 DEF DurableInv, Kept, Mending
  <2>. QED  BY <1>6, <2>3, <2>4
<1>. QED  BY <1>7, <1>8, <1>9, <1>10, <1>11, <1>12, <1>13, <1>14, <1>15 DEF
          MigrationInv

LEMMA SwitchRowsKeeps ==
  ASSUME MigrationInv, SwitchRows
  PROVE  MigrationInv'
<1>1. /\ TypeOK /\ RunInv /\ StepInv /\ DoneInv /\ BackupInv /\ PlanInv
      /\ LogInv /\ PathsAgree /\ RegistryAgrees /\ WalkInv /\ RegWalkInv /\ DurableInv
  BY DEF MigrationInv
<1>2. /\ pc = "apply" /\ mem' = mem /\ run' = run /\ snap' = snap /\ db' = db
      /\ asset' = asset /\ plan' = plan /\ backplan' = backplan /\ jr' = jr
      /\ ckpt' = ckpt /\ stg' = stg /\ dst' = dst /\ ino' = ino
      /\ unsynced' = unsynced /\ loose' = loose /\ item' = item
      /\ budget' = budget
  BY DEF SwitchRows, At, logs, files
<1>3. /\ mem.batch = Open(jr, "paths") /\ mem.batch # {}
      /\ mem.batch \subseteq jr.intent["paths"] /\ mem.batch \in SUBSET Images
  BY <1>1, <1>2, Fields DEF WalkInv, Switching, Open
<1>4. \/ pc' = "failed" /\ row' = row
      \/ /\ pc' = "commit" /\ PreSigned(mem.batch)
         /\ row' = [i \in Images |-> IF i \in mem.batch THEN "new" ELSE row[i]]
  BY DEF SwitchRows, Go, Fail
<1>5. /\ row' \in [Images -> RowStates] /\ pc' \in {"failed", "commit"}
      /\ \A i \in Images : row'[i] = row[i] \/ (row[i] = "old" /\ row'[i] = "new")
      /\ \A i \in Images \ mem.batch : row'[i] = row[i]
      /\ \A i \in InPlace : row'[i] = row[i]
      /\ pc' = "commit" => \A i \in mem.batch : row'[i] = "new"
      /\ pc' = "failed" => row' = row
  BY <1>1, <1>3, <1>4, Types, ImagesAssumption DEF RowStates, PreSigned
<1>6. snap.final = "full" \/ ~HasRows
  BY <1>1, <1>2 DEF BackupInv, StepInv, Converging, Walking, Switching
<1>7. RunInv' /\ LogInv' /\ RegistryAgrees' /\ RegWalkInv'
  BY <1>1, <1>2, <1>4, <1>5, Undisturbed
  DEF MigrationInv, Registering
<1>8. TypeOK'
  BY <1>1, <1>2, <1>3, <1>4, <1>5, <1>6, Types, TypesNext
<1>9. StepInv'
  BY <1>1, <1>2, <1>3, <1>4, <1>5, <1>6
  DEF StepInv, Freezing, Opening, Mending, Staging, Switching, Walking,
       Backing, Binding, Registering, Moving, Ending, Closed, Copied, Saving,
       Schema, Converging
<1>10. DoneInv'
  <2>1. NoOld => row' = row
    BY <1>1, <1>2, <1>5, Types DEF NoOld
  <2>2. NoOld => NoOld'
    BY <1>5 DEF NoOld
  <2>3. NoOld => (AllRegistered => AllRegistered')
    BY <1>2, <2>1 DEF AllRegistered
  <2>. QED  BY <1>1, <1>2, <1>5, <2>2, <2>3, ImagesAssumption DEF DoneInv, Validated,
              Registering, Closed, Moving, Ending
<1>11. BackupInv'
  <2>1. HasRows' => HasRows
    BY <1>5 DEF HasRows
  <2>. QED  BY <1>1, <1>2, <1>5, <1>6, <2>1
              DEF BackupInv, BackupHeld, Installed, Incomplete, Copied, Schema
<1>12. PlanInv'
  <2>1. Rows' = Rows /\ \A i \in Orphans : row[i] = "gone" => row'[i] = "gone"
    BY <1>5, ImagesAssumption DEF Rows
  <2>. QED  BY <1>1, <1>2, <1>5, <2>1
              DEF PlanInv, Freezing, Opening, Walking, Mending, Staging, Switching,
                  Binding, Registering
<1>13. PathsAgree'
  <2>1. \A i \in jr.commit["paths"] : i \in Images
    BY <1>1, Fields, BothPhases
  <2>2. CASE pc' = "commit"
    BY <1>1, <1>2, <1>3, <1>5, <2>1, <2>2 DEF PathsAgree, PreSigned, PostSigned, Open
  <2>3. CASE pc' = "failed"
    BY <1>1, <1>2, <1>5, <2>3 DEF PathsAgree, PreSigned, PostSigned, Open
  <2>. QED  BY <1>5, <2>2, <2>3
<1>14. WalkInv'
  BY <1>1, <1>2, <1>3, <1>5
    DEF WalkInv, Mending, Staging, Switching, Open, PostSigned, Broken, Good
<1>15. DurableInv'
  BY <1>1, <1>2, <1>5, ImagesAssumption DEF DurableInv, Kept, Mending
<1>. QED  BY <1>7, <1>8, <1>9, <1>10, <1>11, <1>12, <1>13, <1>14, <1>15 DEF
          MigrationInv

LEMMA CommitBatchKeeps ==
  ASSUME MigrationInv, CommitBatch
  PROVE  MigrationInv'
<1>1. /\ TypeOK /\ RunInv /\ StepInv /\ DoneInv /\ BackupInv /\ PlanInv
      /\ LogInv /\ PathsAgree /\ RegistryAgrees /\ WalkInv /\ RegWalkInv /\ DurableInv
  BY DEF MigrationInv
<1>2. /\ pc = "commit" /\ mem' = mem /\ run' = run /\ snap' = snap
      /\ db' = db /\ row' = row /\ asset' = asset /\ plan' = plan
      /\ backplan' = backplan /\ ckpt' = ckpt /\ stg' = stg /\ dst' = dst
      /\ ino' = ino /\ unsynced' = unsynced /\ loose' = loose /\ item' = item
      /\ budget' = budget
  BY DEF CommitBatch, At, logs, files
<1>3. /\ mem.batch = Open(jr, "paths") /\ mem.batch # {} /\ PostSigned(mem.batch)
      /\ mem.batch \subseteq jr.intent["paths"] /\ mem.batch \in SUBSET Images
  BY <1>1, <1>2, Fields DEF WalkInv, Switching, Open
<1>4. /\ Leading(jr.commit["paths"] \cup mem.batch, plan.images)
      /\ jr.commit["paths"] \subseteq jr.intent["paths"]
  <2>1. /\ Leading(jr.commit["paths"], plan.images) /\ plan.images \in SUBSET Images
        /\ mem.batch = Batch(plan.images \ jr.commit["paths"])
        /\ jr.commit["paths"] \subseteq jr.intent["paths"]
    BY <1>1, <1>3, Fields DEF LogInv, Batches
  <2>. QED  BY <2>1, LeadingGrows
<1>5. \/ pc' = "failed" /\ jr' = jr
      \/ /\ pc' = "batch" /\ jr' \in Journals /\ jr'.made = jr.made
         /\ jr'.totals = jr.totals /\ jr'.intent = jr.intent /\ jr'.ino = jr.ino
         /\ jr'.commit["paths"] = jr.commit["paths"] \cup mem.batch
         /\ jr'.commit["backfill"] = jr.commit["backfill"]
  <2>1. CASE pc' = "failed" /\ jr' = jr
    BY <2>1
  <2>2. CASE pc' = "batch" /\ jr' = Committed(jr, "paths", mem.batch)
    <3>1. jr.commit \in [LogPhases -> SUBSET Images]
      BY <1>1, Types DEF Journals
    <3>2. [jr.commit EXCEPT !["paths"] = @ \cup mem.batch]
            \in [LogPhases -> SUBSET Images]
      BY <1>3, <3>1, BothPhases
    <3>3. jr' = [jr EXCEPT !.commit = [jr.commit EXCEPT !["paths"] = @ \cup mem.batch]]
      BY <1>1, <2>2, Types DEF Committed, Journals
    <3>4. /\ jr' \in Journals /\ jr'.made = jr.made
          /\ jr'.totals = jr.totals /\ jr'.intent = jr.intent /\ jr'.ino = jr.ino
          /\ jr'.commit = [jr.commit EXCEPT !["paths"] = @ \cup mem.batch]
      BY <1>1, <3>2, <3>3, Types DEF Journals
    <3>. QED  BY <2>2, <3>1, <3>4, BothPhases
  <2>. QED  BY <2>1, <2>2 DEF CommitBatch, Go, Fail
<1>6. RunInv' /\ DoneInv' /\ BackupInv' /\ WalkInv' /\ RegWalkInv'
  BY <1>1, <1>2, <1>5, Undisturbed
  DEF MigrationInv, Ends, Registering, Closed, Moving, Ending, Saves, Copied,
       Schema, Walks, Mending, Staging, Switching
<1>7. TypeOK'
  BY <1>1, <1>2, <1>5, Types, TypesNext
<1>8. StepInv'
  BY <1>1, <1>2, <1>3, <1>4, <1>5
  DEF StepInv, Freezing, Opening, Mending, Staging, Switching, Walking,
       Backing, Binding, Registering, Moving, Ending, Closed, Copied, Saving,
       Schema, Converging
<1>9. PlanInv'
  BY <1>1, <1>2, <1>3, <1>4, <1>5
  DEF PlanInv, Rows, Freezing, Opening, Walking, Mending, Staging, Switching,
       Binding, Registering
<1>10. LogInv'
  BY <1>1, <1>2, <1>3, <1>4, <1>5
  DEF LogInv, Batches, Open
<1>11. PathsAgree'
  BY <1>1, <1>2, <1>3, <1>4, <1>5
  DEF PathsAgree, PreSigned, PostSigned, Open
<1>12. RegistryAgrees'
  BY <1>1, <1>2, <1>3, <1>4, <1>5
  DEF RegistryAgrees, Unregistered, Registered, ToRegister, Open
<1>13. DurableInv'
  BY <1>1, <1>2, <1>3, <1>4, <1>5
  DEF DurableInv, Kept, Mending
<1>. QED  BY <1>6, <1>7, <1>8, <1>9, <1>10, <1>11, <1>12, <1>13 DEF
          MigrationInv

LEMMA ClosePathsKeeps ==
  ASSUME MigrationInv, ClosePaths
  PROVE  MigrationInv'
<1>1. /\ TypeOK /\ RunInv /\ StepInv /\ DoneInv /\ BackupInv /\ PlanInv
      /\ LogInv /\ PathsAgree /\ RegistryAgrees /\ WalkInv /\ RegWalkInv /\ DurableInv
  BY DEF MigrationInv
<1>2. /\ pc = "closure" /\ mem' = mem /\ run' = run /\ snap' = snap
      /\ db' = db /\ row' = row /\ asset' = asset /\ plan' = plan
      /\ backplan' = backplan /\ ckpt' = ckpt /\ stg' = stg /\ dst' = dst
      /\ ino' = ino /\ unsynced' = unsynced /\ loose' = loose /\ item' = item
      /\ budget' = budget
  BY DEF ClosePaths, At, logs, files
<1>3. /\ pc' \in {"recheck", "failed"} /\ jr'.made = jr.made
      /\ jr'.totals = jr.totals
      /\ jr' \in Journals /\ jr'.intent = jr.intent /\ jr'.commit = jr.commit
      /\ jr'.ino = jr.ino
  <2>1. CASE jr' = jr
    BY <1>1, <2>1, Types DEF ClosePaths, Go, Fail
  <2>2. CASE jr' = [jr EXCEPT !.done = @ \cup {"paths"}, !.proj = @ + 1]
    <3>1. jr.done \cup {"paths"} \in SUBSET LogPhases /\ jr.proj + 1 \in Nat
      BY <1>1, Types, BothPhases DEF Journals
    <3>2. /\ jr' \in Journals /\ jr'.intent = jr.intent /\ jr'.commit = jr.commit
          /\ jr'.ino = jr.ino /\ jr'.made = jr.made /\ jr'.totals = jr.totals
      BY <1>1, <2>2, <3>1, Types DEF Journals
    <3>. QED  BY <3>2 DEF ClosePaths, Go, Fail
  <2>. QED  BY <2>1, <2>2 DEF ClosePaths, PhaseCompleted
<1>4. RunInv' /\ DoneInv' /\ BackupInv' /\ WalkInv' /\ RegWalkInv'
  BY <1>1, <1>2, <1>3, Undisturbed
  DEF MigrationInv, Ends, Registering, Closed, Moving, Ending, Saves, Copied,
       Schema, Walks, Mending, Staging, Switching
<1>5. TypeOK'
  BY <1>1, <1>2, <1>3, Types, TypesNext
<1>6. StepInv'
  BY <1>1, <1>2, <1>3
  DEF StepInv, Freezing, Opening, Mending, Staging, Switching, Walking,
       Backing, Binding, Registering, Moving, Ending, Closed, Copied, Saving,
       Schema, Converging
<1>7. PlanInv'
  BY <1>1, <1>2, <1>3
  DEF PlanInv, Rows, Freezing, Opening, Walking, Mending, Staging, Switching,
       Binding, Registering
<1>8. LogInv'
  BY <1>1, <1>2, <1>3
  DEF LogInv, Batches, Open
<1>9. PathsAgree'
  BY <1>1, <1>2, <1>3
  DEF PathsAgree, PreSigned, PostSigned, Open
<1>10. RegistryAgrees'
  BY <1>1, <1>2, <1>3
  DEF RegistryAgrees, Unregistered, Registered, ToRegister, Open
<1>11. DurableInv'
  BY <1>1, <1>2, <1>3
  DEF DurableInv, Kept, Mending
<1>. QED  BY <1>4, <1>5, <1>6, <1>7, <1>8, <1>9, <1>10, <1>11 DEF MigrationInv

-----------------------------------------------------------------------------
(* The registry phase. *)

LEMMA OpenBackfillKeeps ==
  ASSUME MigrationInv, OpenBackfill
  PROVE  MigrationInv'
<1>1. /\ TypeOK /\ RunInv /\ StepInv /\ DoneInv /\ BackupInv /\ PlanInv
      /\ LogInv /\ PathsAgree /\ RegistryAgrees /\ WalkInv /\ RegWalkInv /\ DurableInv
  BY DEF MigrationInv
<1>2. /\ pc = "backopen" /\ mem' = mem /\ run' = run /\ snap' = snap
      /\ db' = db /\ row' = row /\ asset' = asset /\ plan' = plan /\ jr' = jr
      /\ ckpt' = ckpt /\ stg' = stg /\ dst' = dst /\ ino' = ino
      /\ unsynced' = unsynced /\ loose' = loose /\ item' = item
      /\ budget' = budget
  BY DEF OpenBackfill, At, logs, files
<1>3. /\ backplan' \in Backplans /\ backplan'.images = backplan.images
      /\ backplan'.file = "frozen" <=> backplan.file = "frozen"
      /\ \/ pc' \in {"backfreeze", "backreplan"} /\ backplan.file # "frozen"
         \/ pc' = "bind" /\ backplan.file = "frozen"
         \/ pc' = "failed" 
  BY <1>1, Types DEF OpenBackfill, Go, Fail, Backplans, PlanFiles
<1>4. /\ RunInv' /\ BackupInv' /\ PathsAgree' /\ RegistryAgrees'
      /\ WalkInv' /\ RegWalkInv' /\ DurableInv'
  BY <1>1, <1>2, <1>3, Undisturbed
  DEF MigrationInv, Saves, Copied, Schema, Walks, Mending, Staging,
       Switching, Registering
<1>5. TypeOK'
  BY <1>1, <1>2, <1>3, Types, TypesNext
<1>6. StepInv'
  BY <1>1, <1>2, <1>3
  DEF StepInv, Freezing, Opening, Mending, Staging, Switching, Walking,
       Backing, Binding, Registering, Moving, Ending, Closed, Copied, Saving,
       Schema, Converging
<1>7. DoneInv'
  BY <1>1, <1>2, <1>3
  DEF DoneInv, NoOld, AllRegistered, Validated, Registering, Closed, Moving,
       Ending
<1>8. PlanInv'
  BY <1>1, <1>2, <1>3
  DEF PlanInv, Rows, Freezing, Opening, Walking, Mending, Staging, Switching,
       Binding, Registering
<1>9. LogInv'
  BY <1>1, <1>2, <1>3
  DEF LogInv, Batches, Open
<1>. QED  BY <1>4, <1>5, <1>6, <1>7, <1>8, <1>9 DEF MigrationInv

LEMMA RecoverIncompleteBackfillKeeps ==
  ASSUME MigrationInv, RecoverIncompleteBackfill
  PROVE  MigrationInv'
<1>1. /\ TypeOK /\ RunInv /\ StepInv /\ DoneInv /\ BackupInv /\ PlanInv
      /\ LogInv /\ PathsAgree /\ RegistryAgrees /\ WalkInv /\ RegWalkInv /\ DurableInv
  BY DEF MigrationInv
<1>2. /\ pc = "backreplan" /\ mem' = mem /\ run' = run /\ snap' = snap
      /\ db' = db /\ row' = row /\ asset' = asset /\ plan' = plan /\ jr' = jr
      /\ ckpt' = ckpt /\ stg' = stg /\ dst' = dst /\ ino' = ino
      /\ unsynced' = unsynced /\ loose' = loose /\ item' = item
      /\ budget' = budget
  BY DEF RecoverIncompleteBackfill, At, logs, files
<1>3. /\ backplan' \in Backplans /\ backplan'.images = backplan.images
      /\ backplan'.file # "frozen" /\ backplan.file # "frozen" /\ pc' = "backopen" 
  BY <1>1, <1>2, Types
    DEF RecoverIncompleteBackfill, Go, Backplans, PlanFiles, PlanInv
<1>4. /\ RunInv' /\ BackupInv' /\ PathsAgree' /\ RegistryAgrees'
      /\ WalkInv' /\ RegWalkInv' /\ DurableInv'
  BY <1>1, <1>2, <1>3, Undisturbed
  DEF MigrationInv, Saves, Copied, Schema, Walks, Mending, Staging,
       Switching, Registering
<1>5. TypeOK'
  BY <1>1, <1>2, <1>3, Types, TypesNext
<1>6. StepInv'
  BY <1>1, <1>2, <1>3
  DEF StepInv, Freezing, Opening, Mending, Staging, Switching, Walking,
       Backing, Binding, Registering, Moving, Ending, Closed, Copied, Saving,
       Schema, Converging
<1>7. DoneInv'
  BY <1>1, <1>2, <1>3
  DEF DoneInv, NoOld, AllRegistered, Validated, Registering, Closed, Moving,
       Ending
<1>8. PlanInv'
  BY <1>1, <1>2, <1>3
  DEF PlanInv, Rows, Freezing, Opening, Walking, Mending, Staging, Switching,
       Binding, Registering
<1>9. LogInv'
  BY <1>1, <1>2, <1>3
  DEF LogInv, Batches, Open
<1>. QED  BY <1>4, <1>5, <1>6, <1>7, <1>8, <1>9 DEF MigrationInv

LEMMA WriteBackfillPlanKeeps ==
  ASSUME MigrationInv, WriteBackfillPlan
  PROVE  MigrationInv'
<1>1. /\ TypeOK /\ RunInv /\ StepInv /\ DoneInv /\ BackupInv /\ PlanInv
      /\ LogInv /\ PathsAgree /\ RegistryAgrees /\ WalkInv /\ RegWalkInv /\ DurableInv
  BY DEF MigrationInv
<1>2. /\ pc = "backfreeze" /\ mem' = mem /\ run' = run /\ snap' = snap
      /\ db' = db /\ row' = row /\ asset' = asset /\ plan' = plan /\ jr' = jr
      /\ ckpt' = ckpt /\ stg' = stg /\ dst' = dst /\ ino' = ino
      /\ unsynced' = unsynced /\ loose' = loose /\ item' = item
      /\ budget' = budget
  BY DEF WriteBackfillPlan, At, logs, files
<1>3. /\ backplan.file # "frozen" /\ jr.intent["backfill"] = {}
      /\ jr.commit["backfill"] = {}
  BY <1>1, <1>2 DEF PlanInv, LogInv, Batches
<1>4. \/ backplan' = backplan /\ pc' = "failed"
      \/ /\ backplan' \in Backplans /\ backplan'.file = "frozen"
         /\ backplan'.images = Rows /\ BackRows = jr.commit["paths"]
         /\ pc' = "backopen" 
  BY <1>1, Types
    DEF WriteBackfillPlan, BackPlannable, BackRows, Go, Fail, Backplans, PlanFiles,
        Rows
<1>5. backplan' = backplan \/ NoOld
  BY <1>1, <1>4 DEF BackRows, PathsAgree, NoOld
<1>6. /\ RunInv' /\ BackupInv' /\ PathsAgree' /\ RegistryAgrees'
      /\ WalkInv' /\ RegWalkInv' /\ DurableInv'
  BY <1>1, <1>2, <1>4, Undisturbed
  DEF MigrationInv, Saves, Copied, Schema, Walks, Mending, Staging,
       Switching, Registering
<1>7. TypeOK'
  BY <1>1, <1>2, <1>3, <1>4, <1>5, Types, TypesNext
<1>8. StepInv'
  BY <1>1, <1>2, <1>3, <1>4, <1>5
  DEF StepInv, Freezing, Opening, Mending, Staging, Switching, Walking,
       Backing, Binding, Registering, Moving, Ending, Closed, Copied, Saving,
       Schema, Converging
<1>9. DoneInv'
  BY <1>1, <1>2, <1>3, <1>4, <1>5
  DEF DoneInv, NoOld, AllRegistered, Validated, Registering, Closed, Moving,
       Ending
<1>10. PlanInv'
  BY <1>1, <1>2, <1>3, <1>4, <1>5
  DEF PlanInv, Rows, Freezing, Opening, Walking, Mending, Staging, Switching,
       Binding, Registering
<1>11. LogInv'
  BY <1>1, <1>2, <1>3, <1>4, <1>5, LeadingNone
  DEF LogInv, Batches, Open
<1>. QED  BY <1>6, <1>7, <1>8, <1>9, <1>10, <1>11 DEF MigrationInv

LEMMA BindBackfillKeeps ==
  ASSUME MigrationInv, BindBackfill
  PROVE  MigrationInv'
<1>1. /\ TypeOK /\ RunInv /\ StepInv /\ DoneInv /\ BackupInv /\ PlanInv
      /\ LogInv /\ PathsAgree /\ RegistryAgrees /\ WalkInv /\ RegWalkInv /\ DurableInv
  BY DEF MigrationInv
<1>2. /\ pc = "bind" /\ mem' = mem /\ run' = run /\ snap' = snap /\ db' = db
      /\ row' = row /\ asset' = asset /\ plan' = plan /\ backplan' = backplan
      /\ ckpt' = ckpt /\ stg' = stg /\ dst' = dst /\ ino' = ino
      /\ unsynced' = unsynced /\ loose' = loose /\ item' = item
      /\ budget' = budget
  BY DEF BindBackfill, At, logs, files
<1>3. /\ pc' \in {"backhash", "failed"} /\ jr'.made = jr.made
      /\ jr'.totals = jr.totals
      /\ jr' \in Journals /\ jr'.intent = jr.intent /\ jr'.commit = jr.commit
      /\ jr'.ino = jr.ino
  BY <1>1, Types DEF BindBackfill, Go, Fail, SourceBound, Journals
<1>4. RunInv' /\ DoneInv' /\ BackupInv' /\ WalkInv' /\ RegWalkInv'
  BY <1>1, <1>2, <1>3, Undisturbed
  DEF MigrationInv, Ends, Registering, Closed, Moving, Ending, Saves, Copied,
       Schema, Walks, Mending, Staging, Switching
<1>5. TypeOK'
  BY <1>1, <1>2, <1>3, Types, TypesNext
<1>6. StepInv'
  BY <1>1, <1>2, <1>3
  DEF StepInv, Freezing, Opening, Mending, Staging, Switching, Walking,
       Backing, Binding, Registering, Moving, Ending, Closed, Copied, Saving,
       Schema, Converging
<1>7. PlanInv'
  BY <1>1, <1>2, <1>3
  DEF PlanInv, Rows, Freezing, Opening, Walking, Mending, Staging, Switching,
       Binding, Registering
<1>8. LogInv'
  BY <1>1, <1>2, <1>3
  DEF LogInv, Batches, Open
<1>9. PathsAgree'
  BY <1>1, <1>2, <1>3
  DEF PathsAgree, PreSigned, PostSigned, Open
<1>10. RegistryAgrees'
  BY <1>1, <1>2, <1>3
  DEF RegistryAgrees, Unregistered, Registered, ToRegister, Open
<1>11. DurableInv'
  BY <1>1, <1>2, <1>3
  DEF DurableInv, Kept, Mending
<1>. QED  BY <1>4, <1>5, <1>6, <1>7, <1>8, <1>9, <1>10, <1>11 DEF MigrationInv

LEMMA PersistBackfillKeeps ==
  ASSUME MigrationInv, PersistBackfill
  PROVE  MigrationInv'
<1>1. /\ TypeOK /\ RunInv /\ StepInv /\ DoneInv /\ BackupInv /\ PlanInv
      /\ LogInv /\ PathsAgree /\ RegistryAgrees /\ WalkInv /\ RegWalkInv /\ DurableInv
  BY DEF MigrationInv
<1>2. /\ pc = "backhash" /\ mem' = mem /\ snap' = snap /\ db' = db
      /\ row' = row /\ asset' = asset /\ plan' = plan /\ backplan' = backplan
      /\ jr' = jr /\ ckpt' = ckpt /\ stg' = stg /\ dst' = dst /\ ino' = ino
      /\ unsynced' = unsynced /\ loose' = loose /\ item' = item
      /\ budget' = budget
  BY DEF PersistBackfill, At, logs, files
<1>3. /\ run' \in Runs /\ run'.dir = run.dir /\ run'.progress = run.progress
      /\ run'.intent = run.intent /\ run'.summary = run.summary
      /\ run'.phase = run.phase /\ pc' = "registry"
  BY <1>1, Types DEF PersistBackfill, Go, Runs
<1>4. /\ LogInv' /\ PathsAgree' /\ RegistryAgrees' /\ WalkInv'
      /\ RegWalkInv' /\ DurableInv'
  BY <1>1, <1>2, <1>3, Undisturbed
  DEF MigrationInv, Walks, Mending, Staging, Switching, Registering
<1>5. TypeOK'
  BY <1>1, <1>2, <1>3, Types, TypesNext
<1>6. RunInv'
  BY <1>1, <1>2, <1>3
  DEF RunInv, Archiving, AllThere
<1>7. StepInv'
  BY <1>1, <1>2, <1>3
  DEF StepInv, Freezing, Opening, Mending, Staging, Switching, Walking,
       Backing, Binding, Registering, Moving, Ending, Closed, Copied, Saving,
       Schema, Converging
<1>8. DoneInv'
  BY <1>1, <1>2, <1>3
  DEF DoneInv, NoOld, AllRegistered, Validated, Registering, Closed, Moving,
       Ending
<1>9. BackupInv'
  BY <1>1, <1>2, <1>3
  DEF BackupInv, HasRows, BackupHeld, Installed, Incomplete, Copied, Schema
<1>10. PlanInv'
  BY <1>1, <1>2, <1>3
  DEF PlanInv, Rows, Freezing, Opening, Walking, Mending, Staging, Switching,
       Binding, Registering
<1>. QED  BY <1>4, <1>5, <1>6, <1>7, <1>8, <1>9, <1>10 DEF MigrationInv

LEMMA StartRegistryKeeps ==
  ASSUME MigrationInv, StartRegistry
  PROVE  MigrationInv'
<1>1. /\ TypeOK /\ RunInv /\ StepInv /\ DoneInv /\ BackupInv /\ PlanInv
      /\ LogInv /\ PathsAgree /\ RegistryAgrees /\ WalkInv /\ RegWalkInv /\ DurableInv
  BY DEF MigrationInv
<1>2. /\ pc = "registry" /\ run' = run /\ snap' = snap /\ db' = db
      /\ row' = row /\ asset' = asset /\ plan' = plan /\ backplan' = backplan
      /\ jr' = jr /\ ckpt' = ckpt /\ stg' = stg /\ dst' = dst /\ ino' = ino
      /\ unsynced' = unsynced /\ loose' = loose /\ item' = item
      /\ budget' = budget
  BY DEF StartRegistry, At, logs, files
<1>3. \/ mem' = mem /\ pc' = "failed"
      \/ mem' = mem /\ pc' = "registrydone" /\ RegistryCloses(TRUE)
      \/ /\ mem' \in Mems /\ mem'.todo = backplan.images
         /\ pc' = "regbatch" /\ RegistryCloses(FALSE)
  BY <1>1, Fields DEF StartRegistry, Go, Fail, Mems, NoMem
<1>4. pc' # "failed" => NoOld
  BY <1>1, <1>3, Fields DEF RegistryCloses, BackRows, NoOld, RowStates
<1>5. pc' = "registrydone" => AllRegistered
  BY <1>3 DEF RegistryCloses, BackRows, AllRegistered, Registered, ToRegister
<1>6. /\ RunInv' /\ BackupInv' /\ LogInv' /\ PathsAgree' /\ RegistryAgrees'
      /\ WalkInv' /\ DurableInv'
  BY <1>1, <1>2, <1>3, <1>5, Undisturbed
  DEF MigrationInv, Saves, Copied, Schema, Walks, Mending, Staging, Switching
<1>7. TypeOK'
  BY <1>1, <1>2, <1>3, <1>4, <1>5, Types, TypesNext
<1>8. StepInv'
  BY <1>1, <1>2, <1>3, <1>4, <1>5
  DEF StepInv, Freezing, Opening, Mending, Staging, Switching, Walking,
       Backing, Binding, Registering, Moving, Ending, Closed, Copied, Saving,
       Schema, Converging
<1>9. DoneInv'
  BY <1>1, <1>2, <1>3, <1>4, <1>5
    DEF DoneInv, AllRegistered, NoOld, Validated, Registering, Closed, Moving, Ending
<1>10. PlanInv'
  BY <1>1, <1>2, <1>3, <1>4, <1>5
  DEF PlanInv, Rows, Freezing, Opening, Walking, Mending, Staging, Switching,
       Binding, Registering
<1>11. RegWalkInv'
  <2>1. pc' = "regbatch" => backplan.images \ mem'.todo = {}
    BY <1>3
  <2>. QED  BY <1>1, <1>2, <1>3, <2>1, LeadingNone DEF RegWalkInv, Registering
<1>. QED  BY <1>6, <1>7, <1>8, <1>9, <1>10, <1>11 DEF MigrationInv

LEMMA WalkBatchKeeps ==
  ASSUME MigrationInv, WalkBatch
  PROVE  MigrationInv'
<1>1. /\ TypeOK /\ RunInv /\ StepInv /\ DoneInv /\ BackupInv /\ PlanInv
      /\ LogInv /\ PathsAgree /\ RegistryAgrees /\ WalkInv /\ RegWalkInv /\ DurableInv
  BY DEF MigrationInv
<1>2. /\ pc = "regbatch" /\ run' = run /\ snap' = snap /\ db' = db
      /\ row' = row /\ asset' = asset /\ plan' = plan /\ backplan' = backplan
      /\ jr' = jr /\ ckpt' = ckpt /\ stg' = stg /\ dst' = dst /\ ino' = ino
      /\ unsynced' = unsynced /\ loose' = loose /\ item' = item
      /\ budget' = budget
  BY DEF WalkBatch, At, logs, files
<1>3. /\ mem.todo \subseteq backplan.images /\ backplan.images \in SUBSET Images
      /\ Leading(backplan.images \ mem.todo, backplan.images)
      /\ backplan.images \ mem.todo \subseteq jr.commit["backfill"]
      /\ backplan.images \ (backplan.images \ mem.todo) = mem.todo
  BY <1>1, <1>2, Fields DEF RegWalkInv, Registering
<1>4. /\ Leading((backplan.images \ mem.todo) \cup Walked, backplan.images)
      /\ OneBlock(Walked, backplan.images) /\ Walked \subseteq mem.todo
      /\ backplan.images \ (mem.todo \ Walked)
           = (backplan.images \ mem.todo) \cup Walked
  <2>1. /\ Leading((backplan.images \ mem.todo) \cup Walked, backplan.images)
        /\ OneBlock(Walked, backplan.images)
    BY <1>3, LeadingGrows DEF Walked
  <2>2. Walked \subseteq mem.todo
    BY BatchWithin DEF Walked
  <2>. QED  BY <1>3, <2>1, <2>2
<1>5. mem.todo # {} /\ Walked # {}
  <2>1. mem.todo # {}
    BY DEF WalkBatch
  <2>. QED  BY <1>3, <2>1, BatchNonempty DEF Walked
<1>6. \/ mem' = mem /\ pc' = "failed"
      \/ mem' = mem /\ pc' = "regintent" /\ ~(Walked \subseteq jr.intent["backfill"])
      \/ /\ mem' = [mem EXCEPT !.todo = @ \ Walked] /\ pc' = "regbatch"
         /\ Walked \subseteq jr.commit["backfill"]
      \/ /\ mem' = mem /\ pc' \in {"regcommit", "regapply"}
         /\ Walked \subseteq jr.intent["backfill"]
         /\ ~(Walked \subseteq jr.commit["backfill"])
         /\ pc' = "regcommit" => Registered(Walked)
  BY <1>2 DEF WalkBatch, AnnouncedBatch, Recovery, Go, Fail
<1>7. pc' \in {"regcommit", "regapply"} => Walked = Open(jr, "backfill")
  <2>1. Batches("backfill", backplan.images)
    BY <1>1 DEF LogInv
  <2>. QED  BY <1>3, <1>4, <1>5, <1>6, <2>1, OpenBlock
<1>8. \/ mem' = mem /\ pc' \in {"failed", "regintent", "regcommit", "regapply"}
      \/ /\ mem' \in Mems /\ mem'.todo = mem.todo \ Walked /\ pc' = "regbatch"
         /\ Walked \subseteq jr.commit["backfill"]
  BY <1>1, <1>6, Types DEF Mems
<1>9. Walked' = Batch(mem'.todo)
  BY DEF Walked
<1>10. /\ RunInv' /\ BackupInv' /\ LogInv' /\ PathsAgree' /\ RegistryAgrees'
       /\ WalkInv' /\ DurableInv'
  BY <1>1, <1>2, <1>6, <1>7, <1>8, Undisturbed
  DEF MigrationInv, Saves, Copied, Schema, Walks, Mending, Staging, Switching
<1>11. TypeOK'
  BY <1>1, <1>2, <1>8, Types, TypesNext
<1>12. StepInv'
  BY <1>1, <1>2, <1>3, <1>4, <1>5, <1>6, <1>7, <1>8, <1>9
  DEF StepInv, Freezing, Opening, Mending, Staging, Switching, Walking,
       Backing, Binding, Registering, Moving, Ending, Closed, Copied, Saving,
       Schema, Converging
<1>13. DoneInv'
  BY <1>1, <1>2, <1>3, <1>4, <1>5, <1>6, <1>7, <1>8, <1>9
  DEF DoneInv, NoOld, AllRegistered, Validated, Registering, Closed, Moving,
       Ending
<1>14. PlanInv'
  BY <1>1, <1>2, <1>3, <1>4, <1>5, <1>6, <1>7, <1>8, <1>9
  DEF PlanInv, Rows, Freezing, Opening, Walking, Mending, Staging, Switching,
       Binding, Registering
<1>15. RegWalkInv'
  <2>1. CASE mem' = mem /\ pc' \in {"failed", "regintent", "regcommit", "regapply"}
    <3>1. Walked' = Walked
      BY <1>9, <2>1 DEF Walked
    <3>2. pc' = "regcommit" => Registered(Walked)
      BY <1>6
    <3>3. pc' = "regintent" => ~(Walked \subseteq jr.intent["backfill"])
      BY <1>6
    <3>. QED  BY <1>2, <1>3, <1>5, <1>7, <2>1, <3>1, <3>2, <3>3
                DEF RegWalkInv, Registering, Registered, ToRegister, Open
  <2>2. CASE /\ mem'.todo = mem.todo \ Walked /\ pc' = "regbatch"
             /\ Walked \subseteq jr.commit["backfill"]
    BY <1>2, <1>3, <1>4, <2>2 DEF RegWalkInv, Registering
  <2>. QED  BY <1>8, <2>1, <2>2
<1>. QED  BY <1>10, <1>11, <1>12, <1>13, <1>14, <1>15 DEF MigrationInv

LEMMA AnnounceRegistryKeeps ==
  ASSUME MigrationInv, AnnounceRegistry
  PROVE  MigrationInv'
<1>1. /\ TypeOK /\ RunInv /\ StepInv /\ DoneInv /\ BackupInv /\ PlanInv
      /\ LogInv /\ PathsAgree /\ RegistryAgrees /\ WalkInv /\ RegWalkInv /\ DurableInv
  BY DEF MigrationInv
<1>2. /\ pc = "regintent" /\ mem' = mem /\ run' = run /\ snap' = snap
      /\ db' = db /\ row' = row /\ asset' = asset /\ plan' = plan
      /\ backplan' = backplan /\ ckpt' = ckpt /\ stg' = stg /\ dst' = dst
      /\ ino' = ino /\ unsynced' = unsynced /\ loose' = loose /\ item' = item
      /\ budget' = budget
  BY DEF AnnounceRegistry, At, logs, files
<1>3. /\ mem.todo \subseteq backplan.images /\ backplan.images \in SUBSET Images
      /\ Leading(backplan.images \ mem.todo, backplan.images)
      /\ backplan.images \ mem.todo \subseteq jr.commit["backfill"]
      /\ backplan.images \ (backplan.images \ mem.todo) = mem.todo
  BY <1>1, <1>2, Fields DEF RegWalkInv, Registering
<1>4. /\ Leading((backplan.images \ mem.todo) \cup Walked, backplan.images)
      /\ OneBlock(Walked, backplan.images) /\ Walked \subseteq mem.todo
      /\ backplan.images \ (mem.todo \ Walked)
           = (backplan.images \ mem.todo) \cup Walked
  <2>1. /\ Leading((backplan.images \ mem.todo) \cup Walked, backplan.images)
        /\ OneBlock(Walked, backplan.images)
    BY <1>3, LeadingGrows DEF Walked
  <2>2. Walked \subseteq mem.todo
    BY BatchWithin DEF Walked
  <2>. QED  BY <1>3, <2>1, <2>2
<1>5. mem.todo # {} /\ Walked # {}
  <2>1. mem.todo # {}
    BY <1>1, <1>2 DEF RegWalkInv, Registering
  <2>. QED  BY <1>3, <2>1, BatchNonempty DEF Walked
<1>6. \/ pc' = "failed" /\ jr' = jr
      \/ /\ pc' = "regapply" /\ jr.totals /\ Open(jr, "backfill") = {}
         /\ \A i \in Walked, k \in jr.intent["backfill"] : k < i
         /\ jr' = IntentAppended(jr, "backfill", Walked, jr.ino["paths"])
  BY BothPhases DEF AnnounceRegistry, IntentFollows, Go, Fail
<1>7. pc' = "regapply" => Walked \cap jr.intent["backfill"] = {}
  <2> SUFFICES ASSUME pc' = "regapply", NEW i \in Walked,
                      i \in jr.intent["backfill"]
               PROVE  FALSE
    OBVIOUS
  <2>1. i < i
    BY <1>6
  <2>2. i \in Nat
    BY <1>3, <1>4, ImagesNat
  <2>. QED  BY <2>1, <2>2
<1>8. pc' = "regapply" => Walked = Batch(backplan.images \ jr.commit["backfill"])
  <2> DEFINE C == jr.commit["backfill"]
             D == backplan.images \ mem.todo
  <2>1. Leading(C, backplan.images) /\ C \subseteq jr.intent["backfill"]
    BY <1>1 DEF LogInv, Batches
  <2>2. pc' = "regapply" => Walked \cap C = {}
    BY <1>7, <2>1
  <2>3. Walked = Batch(backplan.images \ D)
    BY <1>3 DEF Walked
  <2>4. pc' = "regapply" => C = D
    BY <1>3, <1>5, <2>1, <2>2, <2>3, WalkReaches
  <2>. QED  BY <2>3, <2>4
<1>9. pc' = "regapply" =>
        /\ jr' \in Journals /\ jr'.made = jr.made /\ jr'.totals = jr.totals
        /\ jr'.commit["paths"] = jr.commit["paths"]
        /\ jr'.commit["backfill"] = jr.commit["backfill"]
        /\ jr'.intent["paths"] = jr.intent["paths"]
        /\ jr'.intent["backfill"] = jr.intent["backfill"] \cup Walked
        /\ jr'.ino["paths"] = jr.ino["paths"]
  <2> DEFINE b == Walked
             f == [i \in Images |-> IF i \in b THEN jr.ino["paths"][i]
                                    ELSE jr.ino["backfill"][i]]
  <2> SUFFICES ASSUME pc' = "regapply"
               PROVE  /\ jr' \in Journals /\ jr'.made = jr.made /\ jr'.totals = jr.totals
                      /\ jr'.commit["paths"] = jr.commit["paths"]
                      /\ jr'.commit["backfill"] = jr.commit["backfill"]
                      /\ jr'.intent["paths"] = jr.intent["paths"]
                      /\ jr'.intent["backfill"] = jr.intent["backfill"] \cup b
                      /\ jr'.ino["paths"] = jr.ino["paths"]
    OBVIOUS
  <2>1. f \in Inodes
    BY <1>1, Types, BothPhases DEF Inodes, Journals
  <2>2. b \in SUBSET Images
    BY <1>3, <1>4
  <2>3. jr.ino \in [LogPhases -> Inodes] /\ jr.intent \in [LogPhases -> SUBSET Images]
    BY <1>1, Types DEF Journals
  <2>4. jr' = [jr EXCEPT !.intent = [jr.intent EXCEPT !["backfill"] = @ \cup b],
                         !.ino = [jr.ino EXCEPT !["backfill"] = f]]
    <3>1. jr' = IntentAppended(jr, "backfill", b, jr.ino["paths"])
      BY <1>6
    <3> HIDE DEF b
    <3>. QED  BY <1>1, <3>1, Types DEF IntentAppended, Journals
  <2> HIDE DEF f, b
  <2>5. /\ [jr.ino EXCEPT !["backfill"] = f] \in [LogPhases -> Inodes]
        /\ [jr.intent EXCEPT !["backfill"] = @ \cup b] \in [LogPhases -> SUBSET Images]
    BY <2>1, <2>2, <2>3, BothPhases
  <2>6. /\ jr' \in Journals /\ jr'.made = jr.made /\ jr'.totals = jr.totals
        /\ jr'.commit = jr.commit
        /\ jr'.ino = [jr.ino EXCEPT !["backfill"] = f]
        /\ jr'.intent = [jr.intent EXCEPT !["backfill"] = @ \cup b]
    BY <1>1, <2>4, <2>5, Types DEF Journals
  <2>. QED  BY <2>3, <2>6, BothPhases
<1>10. \/ pc' = "failed" /\ jr' = jr
       \/ pc' = "regapply" /\ jr.totals /\ Open(jr, "backfill") = {}
  BY <1>6
<1>11. Walked' = Walked /\ backplan.file = "frozen"
  BY <1>1, <1>2 DEF Walked, PlanInv, Registering
<1>12. jr.commit["backfill"] \subseteq jr.intent["backfill"]
  BY <1>1 DEF LogInv, Batches
<1>13. RunInv' /\ BackupInv' /\ WalkInv'
  BY <1>1, <1>2, <1>6, <1>7, <1>8, <1>9, <1>10, Undisturbed
  DEF MigrationInv, Saves, Copied, Schema, Walks, Mending, Staging, Switching
<1>14. TypeOK'
  BY <1>1, <1>2, <1>9, <1>10, Types, TypesNext
<1>15. StepInv'
  BY <1>1, <1>2, <1>10
    DEF StepInv, Freezing, Opening, Mending, Staging, Switching, Walking, Backing,
        Binding, Registering, Moving, Ending, Closed, Copied, Saving, Schema,
        Converging
<1>16. DoneInv'
  BY <1>1, <1>2, <1>10
    DEF DoneInv, NoOld, AllRegistered, Validated, Registering, Closed, Moving,
        Ending
<1>17. PlanInv'
  BY <1>1, <1>2, <1>9, <1>10, <1>11
    DEF PlanInv, Rows, Freezing, Opening, Walking, Mending, Staging, Switching,
        Binding, Registering
<1>18. LogInv'
  <2>1. CASE pc' = "failed" /\ jr' = jr
    BY <1>1, <1>2, <2>1 DEF LogInv, Batches, Open
  <2>2. CASE pc' = "regapply" /\ jr.totals /\ Open(jr, "backfill") = {}
    <3>1. jr'.intent["backfill"] \ jr'.commit["backfill"] = Walked
      BY <1>7, <1>9, <1>12, <2>2 DEF Open
    <3>. QED  BY <1>1, <1>2, <1>8, <1>9, <2>2, <3>1 DEF LogInv, Batches, Open
  <2>. QED  BY <1>10, <2>1, <2>2
<1>19. PathsAgree'
  BY <1>1, <1>2, <1>9, <1>10 DEF PathsAgree, PreSigned, PostSigned, Open
<1>20. RegistryAgrees'
  <2>1. CASE pc' = "failed" /\ jr' = jr
    BY <1>1, <1>2, <2>1 DEF RegistryAgrees, Unregistered, Registered, ToRegister, Open
  <2>2. CASE pc' = "regapply" /\ jr.totals /\ Open(jr, "backfill") = {}
    <3>1. jr'.intent["backfill"] \ jr'.commit["backfill"] = Walked
      BY <1>7, <1>9, <1>12, <2>2 DEF Open
    <3>2. Walked \cap asset = {}
      BY <1>1, <1>7, <2>2 DEF RegistryAgrees
    <3>. QED  BY <1>1, <1>2, <1>9, <2>2, <3>1, <3>2
                DEF RegistryAgrees, Unregistered, Registered, ToRegister, Open
  <2>. QED  BY <1>10, <2>1, <2>2
<1>21. RegWalkInv'
  <2>1. CASE pc' = "failed" /\ jr' = jr
    BY <1>2, <2>1 DEF RegWalkInv, Registering
  <2>2. CASE pc' = "regapply" /\ jr.totals /\ Open(jr, "backfill") = {}
    <3>1. jr'.intent["backfill"] \ jr'.commit["backfill"] = Walked
      BY <1>7, <1>9, <1>12, <2>2 DEF Open
    <3>. QED  BY <1>2, <1>3, <1>5, <1>9, <1>11, <2>2, <3>1
                DEF RegWalkInv, Registering, Open
  <2>. QED  BY <1>10, <2>1, <2>2
<1>22. DurableInv'
  BY <1>1, <1>2, <1>9, <1>10 DEF DurableInv, Kept, Mending
<1>. QED  BY <1>13, <1>14, <1>15, <1>16, <1>17, <1>18, <1>19, <1>20, <1>21,
          <1>22 DEF MigrationInv

LEMMA RegisterBatchKeeps ==
  ASSUME MigrationInv, RegisterBatch
  PROVE  MigrationInv'
<1>1. /\ TypeOK /\ RunInv /\ StepInv /\ DoneInv /\ BackupInv /\ PlanInv
      /\ LogInv /\ PathsAgree /\ RegistryAgrees /\ WalkInv /\ RegWalkInv /\ DurableInv
  BY DEF MigrationInv
<1>2. /\ pc = "regapply" /\ mem' = mem /\ run' = run /\ snap' = snap
      /\ db' = db /\ row' = row /\ plan' = plan /\ backplan' = backplan
      /\ jr' = jr /\ ckpt' = ckpt /\ stg' = stg /\ dst' = dst /\ ino' = ino
      /\ unsynced' = unsynced /\ loose' = loose /\ item' = item
      /\ budget' = budget
  BY DEF RegisterBatch, At, logs, files
<1>3. /\ Walked = Open(jr, "backfill") /\ Walked \subseteq jr.intent["backfill"]
      /\ Walked \in SUBSET Images /\ NoOld
  <2>1. Walked = Open(jr, "backfill")
    BY <1>1, <1>2 DEF RegWalkInv
  <2>2. NoOld
    BY <1>1, <1>2 DEF DoneInv, Registering
  <2>. QED  BY <1>1, <2>1, <2>2, Fields, BothPhases DEF Open
<1>4. /\ Walked' = Walked /\ Open(jr, "backfill")' = Open(jr, "backfill")
      /\ jr.commit["backfill"] \subseteq jr.intent["backfill"]
  BY <1>1, <1>2 DEF Walked, Open, LogInv, Batches
<1>5. \/ pc' = "failed" /\ asset' = asset
      \/ /\ pc' = "regcommit" /\ asset' = asset \cup (Walked \ Skipped)
         /\ Walked \cap asset = {}
  BY DEF RegisterBatch, Unregistered, ToRegister, Go, Fail
<1>6. /\ RunInv' /\ BackupInv' /\ LogInv' /\ PathsAgree' /\ WalkInv'
      /\ DurableInv'
  BY <1>1, <1>2, <1>5, Undisturbed
  DEF MigrationInv, Saves, Copied, Schema, Walks, Mending, Staging, Switching
<1>7. TypeOK'
  <2>1. asset' \in SUBSET Images
    BY <1>1, <1>3, <1>5, Types
  <2>. QED  BY <1>1, <1>2, <2>1, Types, TypesNext
<1>8. StepInv'
  BY <1>1, <1>2, <1>3, <1>4, <1>5
  DEF StepInv, Freezing, Opening, Mending, Staging, Switching, Walking,
       Backing, Binding, Registering, Moving, Ending, Closed, Copied, Saving,
       Schema, Converging
<1>9. DoneInv'
  BY <1>1, <1>2, <1>3, <1>4, <1>5
  DEF DoneInv, NoOld, AllRegistered, Validated, Registering, Closed, Moving,
       Ending
<1>10. PlanInv'
  BY <1>1, <1>2, <1>3, <1>4, <1>5
  DEF PlanInv, Rows, Freezing, Opening, Walking, Mending, Staging, Switching,
       Binding, Registering
<1>11. RegistryAgrees'
  <2>1. CASE pc' = "failed" /\ asset' = asset
    BY <1>1, <1>2, <2>1 DEF RegistryAgrees, Unregistered, Registered, ToRegister, Open
  <2>2. CASE /\ pc' = "regcommit" /\ asset' = asset \cup (Walked \ Skipped)
             /\ Walked \cap asset = {}
    <3>1. Walked \cap asset' = Walked \ Skipped
      BY <2>2
    <3>. QED  BY <1>1, <1>2, <1>3, <2>2, <3>1
                DEF RegistryAgrees, Unregistered, Registered, ToRegister, Open
  <2>. QED  BY <1>5, <2>1, <2>2
<1>12. RegWalkInv'
  <2>1. pc' = "regcommit" => Walked \cap asset' = Walked \ Skipped
    BY <1>5
  <2>. QED  BY <1>1, <1>2, <1>3, <1>4, <1>5, <2>1
              DEF RegWalkInv, Registering, Registered, ToRegister
<1>. QED  BY <1>6, <1>7, <1>8, <1>9, <1>10, <1>11, <1>12 DEF MigrationInv

LEMMA CommitRegistryKeeps ==
  ASSUME MigrationInv, CommitRegistry
  PROVE  MigrationInv'
<1>1. /\ TypeOK /\ RunInv /\ StepInv /\ DoneInv /\ BackupInv /\ PlanInv
      /\ LogInv /\ PathsAgree /\ RegistryAgrees /\ WalkInv /\ RegWalkInv /\ DurableInv
  BY DEF MigrationInv
<1>2. /\ pc = "regcommit" /\ run' = run /\ snap' = snap /\ db' = db
      /\ row' = row /\ asset' = asset /\ plan' = plan /\ backplan' = backplan
      /\ ckpt' = ckpt /\ stg' = stg /\ dst' = dst /\ ino' = ino
      /\ unsynced' = unsynced /\ loose' = loose /\ item' = item
      /\ budget' = budget
  BY DEF CommitRegistry, At, logs, files
<1>3. /\ mem.todo \subseteq backplan.images /\ backplan.images \in SUBSET Images
      /\ Leading(backplan.images \ mem.todo, backplan.images)
      /\ backplan.images \ mem.todo \subseteq jr.commit["backfill"]
      /\ backplan.images \ (backplan.images \ mem.todo) = mem.todo
  BY <1>1, <1>2, Fields DEF RegWalkInv, Registering
<1>4. /\ Leading((backplan.images \ mem.todo) \cup Walked, backplan.images)
      /\ OneBlock(Walked, backplan.images) /\ Walked \subseteq mem.todo
      /\ backplan.images \ (mem.todo \ Walked)
           = (backplan.images \ mem.todo) \cup Walked
  <2>1. /\ Leading((backplan.images \ mem.todo) \cup Walked, backplan.images)
        /\ OneBlock(Walked, backplan.images)
    BY <1>3, LeadingGrows DEF Walked
  <2>2. Walked \subseteq mem.todo
    BY BatchWithin DEF Walked
  <2>. QED  BY <1>3, <2>1, <2>2
<1>5. /\ Walked = Open(jr, "backfill") /\ Walked # {}
      /\ Walked \cap asset = Walked \ Skipped /\ Walked \in SUBSET Images
  <2>1. Walked = Open(jr, "backfill") /\ Registered(Walked) /\ mem.todo # {}
    BY <1>1, <1>2 DEF RegWalkInv, Registering
  <2>2. Walked # {}
    BY <1>3, <2>1, BatchNonempty DEF Walked
  <2>. QED  BY <1>1, <2>1, <2>2, Fields, BothPhases
              DEF Open, Registered, ToRegister
<1>6. /\ Leading(jr.commit["backfill"] \cup Walked, backplan.images)
      /\ jr.commit["backfill"] \subseteq jr.intent["backfill"]
  <2>1. /\ Leading(jr.commit["backfill"], backplan.images)
        /\ Walked = Batch(backplan.images \ jr.commit["backfill"])
        /\ jr.commit["backfill"] \subseteq jr.intent["backfill"]
    BY <1>1, <1>5 DEF LogInv, Batches
  <2>. QED  BY <1>3, <2>1, LeadingGrows
<1>7. \/ pc' = "failed" /\ jr' = jr /\ mem' = mem
      \/ /\ pc' = "regbatch" /\ jr' = Committed(jr, "backfill", Walked)
         /\ mem' = [mem EXCEPT !.todo = @ \ Walked]
  BY <1>2 DEF CommitRegistry, Go, Fail
<1>8. \/ pc' = "failed" /\ jr' = jr /\ mem' = mem
      \/ /\ pc' = "regbatch" /\ jr' \in Journals /\ jr'.made = jr.made
         /\ jr'.totals = jr.totals /\ jr'.intent = jr.intent /\ jr'.ino = jr.ino
         /\ jr'.commit["backfill"] = jr.commit["backfill"] \cup Walked
         /\ jr'.commit["paths"] = jr.commit["paths"]
         /\ mem' \in Mems /\ mem'.todo = mem.todo \ Walked
  <2>1. CASE pc' = "failed" /\ jr' = jr /\ mem' = mem
    BY <2>1
  <2>2. CASE /\ pc' = "regbatch" /\ jr' = Committed(jr, "backfill", Walked)
             /\ mem' = [mem EXCEPT !.todo = @ \ Walked]
    <3> DEFINE b == Walked
    <3>1. jr.commit \in [LogPhases -> SUBSET Images] /\ b \in SUBSET Images
      BY <1>1, <1>5, Types DEF Journals
    <3>2. mem' \in Mems /\ mem'.todo = mem.todo \ b
      BY <1>1, <2>2, Types DEF Mems
    <3>3. jr' = [jr EXCEPT !.commit = [jr.commit EXCEPT !["backfill"] = @ \cup b]]
      <4>1. jr' = Committed(jr, "backfill", b)
        BY <2>2
      <4> HIDE DEF b
      <4>. QED  BY <1>1, <4>1, Types DEF Committed, Journals
    <3> HIDE DEF b
    <3>4. [jr.commit EXCEPT !["backfill"] = @ \cup b] \in [LogPhases -> SUBSET Images]
      BY <3>1, BothPhases
    <3>5. /\ jr' \in Journals /\ jr'.made = jr.made
          /\ jr'.totals = jr.totals /\ jr'.intent = jr.intent /\ jr'.ino = jr.ino
          /\ jr'.commit = [jr.commit EXCEPT !["backfill"] = @ \cup b]
      BY <1>1, <3>3, <3>4, Types DEF Journals
    <3>6. /\ jr'.commit["backfill"] = jr.commit["backfill"] \cup b
          /\ jr'.commit["paths"] = jr.commit["paths"]
      BY <3>1, <3>5, BothPhases
    <3>. QED  BY <2>2, <3>2, <3>5, <3>6 DEF b
  <2>. QED  BY <1>7, <2>1, <2>2
<1>9. RunInv' /\ BackupInv' /\ WalkInv'
  BY <1>1, <1>2, <1>7, <1>8, Undisturbed
  DEF MigrationInv, Saves, Copied, Schema, Walks, Mending, Staging, Switching
<1>10. TypeOK'
  BY <1>1, <1>2, <1>8, Types, TypesNext
<1>11. StepInv'
  BY <1>1, <1>2, <1>8
    DEF StepInv, Freezing, Opening, Mending, Staging, Switching, Walking, Backing,
        Binding, Registering, Moving, Ending, Closed, Copied, Saving, Schema,
        Converging
<1>12. DoneInv'
  BY <1>1, <1>2, <1>8
    DEF DoneInv, NoOld, AllRegistered, Validated, Registering, Closed, Moving,
        Ending
<1>13. PlanInv'
  BY <1>1, <1>2, <1>8
    DEF PlanInv, Rows, Freezing, Opening, Walking, Mending, Staging, Switching,
        Binding, Registering
<1>14. LogInv'
  BY <1>1, <1>2, <1>5, <1>6, <1>8, BothPhases DEF LogInv, Batches, Open
<1>15. PathsAgree'
  BY <1>1, <1>2, <1>8 DEF PathsAgree, PreSigned, PostSigned, Open
<1>16. RegistryAgrees'
  BY <1>1, <1>2, <1>5, <1>6, <1>8
    DEF RegistryAgrees, Unregistered, Registered, ToRegister, Open
<1>17. RegWalkInv'
  BY <1>1, <1>2, <1>3, <1>4, <1>8 DEF RegWalkInv, Registering
<1>18. DurableInv'
  BY <1>1, <1>2, <1>8 DEF DurableInv, Kept, Mending
<1>. QED  BY <1>9, <1>10, <1>11, <1>12, <1>13, <1>14, <1>15, <1>16, <1>17,
          <1>18 DEF MigrationInv

LEMMA CloseRegistryKeeps ==
  ASSUME MigrationInv, CloseRegistry
  PROVE  MigrationInv'
<1>1. /\ TypeOK /\ RunInv /\ StepInv /\ DoneInv /\ BackupInv /\ PlanInv
      /\ LogInv /\ PathsAgree /\ RegistryAgrees /\ WalkInv /\ RegWalkInv /\ DurableInv
  BY DEF MigrationInv
<1>2. /\ pc = "regbatch" /\ mem' = mem /\ run' = run /\ snap' = snap
      /\ db' = db /\ row' = row /\ asset' = asset /\ plan' = plan
      /\ backplan' = backplan /\ jr' = jr /\ ckpt' = ckpt /\ stg' = stg
      /\ dst' = dst /\ ino' = ino /\ unsynced' = unsynced /\ loose' = loose
      /\ item' = item /\ budget' = budget
  BY DEF CloseRegistry, At, logs, files
<1>3. \/ pc' = "failed"
      \/ pc' = "regclosure" /\ RegistryCloses(TRUE)
  BY DEF CloseRegistry, Go, Fail
<1>4. pc' = "regclosure" => AllRegistered
  BY <1>3 DEF RegistryCloses, BackRows, AllRegistered, Registered, ToRegister
<1>5. /\ RunInv' /\ BackupInv' /\ LogInv' /\ PathsAgree' /\ RegistryAgrees'
      /\ WalkInv' /\ RegWalkInv' /\ DurableInv'
  BY <1>1, <1>2, <1>3, <1>4, Undisturbed
  DEF MigrationInv, Saves, Copied, Schema, Walks, Mending, Staging,
       Switching, Registering
<1>6. TypeOK'
  BY <1>1, <1>2, <1>3, <1>4, Types, TypesNext
<1>7. StepInv'
  BY <1>1, <1>2, <1>3, <1>4
  DEF StepInv, Freezing, Opening, Mending, Staging, Switching, Walking,
       Backing, Binding, Registering, Moving, Ending, Closed, Copied, Saving,
       Schema, Converging
<1>8. DoneInv'
  BY <1>1, <1>2, <1>3, <1>4
  DEF DoneInv, NoOld, AllRegistered, Validated, Registering, Closed, Moving,
       Ending
<1>9. PlanInv'
  BY <1>1, <1>2, <1>3, <1>4
  DEF PlanInv, Rows, Freezing, Opening, Walking, Mending, Staging, Switching,
       Binding, Registering
<1>. QED  BY <1>5, <1>6, <1>7, <1>8, <1>9 DEF MigrationInv

LEMMA CompleteRegistryKeeps ==
  ASSUME MigrationInv, CompleteRegistry
  PROVE  MigrationInv'
<1>1. /\ TypeOK /\ RunInv /\ StepInv /\ DoneInv /\ BackupInv /\ PlanInv
      /\ LogInv /\ PathsAgree /\ RegistryAgrees /\ WalkInv /\ RegWalkInv /\ DurableInv
  BY DEF MigrationInv
<1>2. /\ pc = "regclosure" /\ mem' = mem /\ run' = run /\ snap' = snap
      /\ db' = db /\ row' = row /\ asset' = asset /\ plan' = plan
      /\ backplan' = backplan /\ ckpt' = ckpt /\ stg' = stg /\ dst' = dst
      /\ ino' = ino /\ unsynced' = unsynced /\ loose' = loose /\ item' = item
      /\ budget' = budget
  BY DEF CompleteRegistry, At, logs, files
<1>3. /\ pc' \in {"regcheckpoint", "failed"} /\ jr'.made = jr.made
      /\ jr'.totals = jr.totals
      /\ jr' \in Journals /\ jr'.intent = jr.intent /\ jr'.commit = jr.commit
      /\ jr'.ino = jr.ino
  <2>1. CASE jr' = jr
    BY <1>1, <2>1, Types DEF CompleteRegistry, Go, Fail
  <2>2. CASE jr' = [jr EXCEPT !.done = @ \cup {"backfill"}, !.proj = @ + 1]
    <3>1. jr.done \cup {"backfill"} \in SUBSET LogPhases /\ jr.proj + 1 \in Nat
      BY <1>1, Types, BothPhases DEF Journals
    <3>2. /\ jr' \in Journals /\ jr'.intent = jr.intent /\ jr'.commit = jr.commit
          /\ jr'.ino = jr.ino /\ jr'.made = jr.made /\ jr'.totals = jr.totals
      BY <1>1, <2>2, <3>1, Types DEF Journals
    <3>. QED  BY <3>2 DEF CompleteRegistry, Go, Fail
  <2>. QED  BY <2>1, <2>2 DEF CompleteRegistry, PhaseCompleted
<1>4. RunInv' /\ BackupInv' /\ WalkInv' /\ RegWalkInv'
  BY <1>1, <1>2, <1>3, Undisturbed
  DEF MigrationInv, Saves, Copied, Schema, Walks, Mending, Staging,
       Switching, Registering
<1>5. TypeOK'
  BY <1>1, <1>2, <1>3, Types, TypesNext
<1>6. StepInv'
  BY <1>1, <1>2, <1>3
  DEF StepInv, Freezing, Opening, Mending, Staging, Switching, Walking,
       Backing, Binding, Registering, Moving, Ending, Closed, Copied, Saving,
       Schema, Converging
<1>7. DoneInv'
  BY <1>1, <1>2, <1>3
  DEF DoneInv, NoOld, AllRegistered, Validated, Registering, Closed, Moving,
       Ending
<1>8. PlanInv'
  BY <1>1, <1>2, <1>3
  DEF PlanInv, Rows, Freezing, Opening, Walking, Mending, Staging, Switching,
       Binding, Registering
<1>9. LogInv'
  BY <1>1, <1>2, <1>3
  DEF LogInv, Batches, Open
<1>10. PathsAgree'
  BY <1>1, <1>2, <1>3
  DEF PathsAgree, PreSigned, PostSigned, Open
<1>11. RegistryAgrees'
  BY <1>1, <1>2, <1>3
  DEF RegistryAgrees, Unregistered, Registered, ToRegister, Open
<1>12. DurableInv'
  BY <1>1, <1>2, <1>3
  DEF DurableInv, Kept, Mending
<1>. QED  BY <1>4, <1>5, <1>6, <1>7, <1>8, <1>9, <1>10, <1>11, <1>12 DEF
          MigrationInv

LEMMA RegistryCheckpointKeeps ==
  ASSUME MigrationInv, RegistryCheckpoint
  PROVE  MigrationInv'
<1>1. /\ TypeOK /\ RunInv /\ StepInv /\ DoneInv /\ BackupInv /\ PlanInv
      /\ LogInv /\ PathsAgree /\ RegistryAgrees /\ WalkInv /\ RegWalkInv /\ DurableInv
  BY DEF MigrationInv
<1>2. /\ pc = "regcheckpoint" /\ mem' = mem /\ run' = run /\ snap' = snap
      /\ db' = db /\ row' = row /\ asset' = asset /\ plan' = plan
      /\ backplan' = backplan /\ jr' = jr /\ stg' = stg /\ dst' = dst
      /\ ino' = ino /\ unsynced' = unsynced /\ loose' = loose /\ item' = item
      /\ budget' = budget
  BY DEF RegistryCheckpoint, At, logs, files
<1>3. ckpt' \in Nat /\ pc' \in {"registrydone", "failed"}
  BY <1>1, Types DEF RegistryCheckpoint, WriteCheckpoint, Go, Fail, Journals
<1>4. /\ RunInv' /\ BackupInv' /\ LogInv' /\ PathsAgree' /\ RegistryAgrees'
      /\ WalkInv' /\ RegWalkInv' /\ DurableInv'
  BY <1>1, <1>2, <1>3, Undisturbed
  DEF MigrationInv, Saves, Copied, Schema, Walks, Mending, Staging,
       Switching, Registering
<1>5. TypeOK'
  BY <1>1, <1>2, <1>3, Types, TypesNext
<1>6. StepInv'
  BY <1>1, <1>2, <1>3
  DEF StepInv, Freezing, Opening, Mending, Staging, Switching, Walking,
       Backing, Binding, Registering, Moving, Ending, Closed, Copied, Saving,
       Schema, Converging
<1>7. DoneInv'
  BY <1>1, <1>2, <1>3
  DEF DoneInv, NoOld, AllRegistered, Validated, Registering, Closed, Moving,
       Ending
<1>8. PlanInv'
  BY <1>1, <1>2, <1>3
  DEF PlanInv, Rows, Freezing, Opening, Walking, Mending, Staging, Switching,
       Binding, Registering
<1>. QED  BY <1>4, <1>5, <1>6, <1>7, <1>8 DEF MigrationInv

LEMMA EndRegistryKeeps ==
  ASSUME MigrationInv, EndRegistry
  PROVE  MigrationInv'
<1>1. /\ TypeOK /\ RunInv /\ StepInv /\ DoneInv /\ BackupInv /\ PlanInv
      /\ LogInv /\ PathsAgree /\ RegistryAgrees /\ WalkInv /\ RegWalkInv /\ DurableInv
  BY DEF MigrationInv
<1>2. /\ pc = "registrydone" /\ mem' = mem /\ snap' = snap /\ db' = db
      /\ row' = row /\ asset' = asset /\ plan' = plan /\ backplan' = backplan
      /\ jr' = jr /\ ckpt' = ckpt /\ stg' = stg /\ dst' = dst /\ ino' = ino
      /\ unsynced' = unsynced /\ loose' = loose /\ item' = item
      /\ budget' = budget
  BY DEF EndRegistry, At, logs, files
<1>3. /\ run' \in Runs /\ run'.dir = run.dir /\ run'.progress = run.progress
      /\ run'.intent = run.intent /\ run'.summary = run.summary
      /\ run'.phase = run.phase \/ (run'.phase = "registry_complete" /\ run.phase = "paths_complete")
      /\ pc' = "archive"
  BY <1>1, Types, PhaseNames DEF EndRegistry, Go, Runs
<1>4. /\ LogInv' /\ PathsAgree' /\ RegistryAgrees' /\ WalkInv'
      /\ RegWalkInv' /\ DurableInv'
  BY <1>1, <1>2, <1>3, Undisturbed
  DEF MigrationInv, Walks, Mending, Staging, Switching, Registering
<1>5. TypeOK'
  BY <1>1, <1>2, <1>3, Types, TypesNext
<1>6. RunInv'
  BY <1>1, <1>2, <1>3
  DEF RunInv, Archiving, AllThere
<1>7. StepInv'
  BY <1>1, <1>2, <1>3
  DEF StepInv, Freezing, Opening, Mending, Staging, Switching, Walking,
       Backing, Binding, Registering, Moving, Ending, Closed, Copied, Saving,
       Schema, Converging
<1>8. DoneInv'
  BY <1>1, <1>2, <1>3
  DEF DoneInv, NoOld, AllRegistered, Validated, Registering, Closed, Moving,
       Ending
<1>9. BackupInv'
  BY <1>1, <1>2, <1>3
  DEF BackupInv, HasRows, BackupHeld, Installed, Incomplete, Copied, Schema
<1>10. PlanInv'
  BY <1>1, <1>2, <1>3
  DEF PlanInv, Rows, Freezing, Opening, Walking, Mending, Staging, Switching,
       Binding, Registering
<1>. QED  BY <1>4, <1>5, <1>6, <1>7, <1>8, <1>9, <1>10 DEF MigrationInv

-----------------------------------------------------------------------------
(* The archive. *)

LEMMA PrepareArchiveKeeps ==
  ASSUME MigrationInv, PrepareArchive
  PROVE  MigrationInv'
<1>1. /\ TypeOK /\ RunInv /\ StepInv /\ DoneInv /\ BackupInv /\ PlanInv
      /\ LogInv /\ PathsAgree /\ RegistryAgrees /\ WalkInv /\ RegWalkInv /\ DurableInv
  BY DEF MigrationInv
<1>2. /\ pc = "archive" /\ mem' = mem /\ snap' = snap /\ db' = db
      /\ row' = row /\ asset' = asset /\ plan' = plan /\ backplan' = backplan
      /\ jr' = jr /\ ckpt' = ckpt /\ stg' = stg /\ dst' = dst /\ ino' = ino
      /\ unsynced' = unsynced /\ loose' = loose /\ item' = item
      /\ budget' = budget
  BY DEF PrepareArchive, At, logs, files
<1>3. \/ pc' = "failed" /\ run' = run
      \/ /\ pc' = "complete" /\ run' = run
         /\ run.phase = "archive_complete" \/ (run.phase = "registry_complete" /\ M = 0)
      \/ /\ pc' = "move" /\ M > 0 /\ run.phase = "registry_complete"
         /\ run' = [run EXCEPT !.phase = "archive_intent", !.intent = 1]
      \/ pc' = "move" /\ run' = run /\ run.intent = run.progress + 1
  BY SizesAssumption DEF PrepareArchive, Go, Fail
<1>4. /\ run' \in Runs /\ run'.dir = run.dir /\ run'.progress = run.progress
      /\ run'.summary = run.summary
      /\ \/ pc' = "failed" /\ run'.phase = run.phase /\ run'.intent = run.intent
         \/ /\ pc' = "complete" /\ run'.phase = run.phase /\ run'.intent = run.intent
            /\ run.progress = M
         \/ /\ pc' = "move" /\ run'.phase = "archive_intent"
            /\ run'.intent = run.progress + 1
  <2>1. run \in Runs /\ M \in Nat
    BY <1>1, Types, SizesAssumption
  <2>2. CASE pc' = "failed" /\ run' = run
    BY <2>1, <2>2
  <2>3. CASE /\ pc' = "complete" /\ run' = run
             /\ run.phase = "archive_complete" \/ (run.phase = "registry_complete" /\ M = 0)
    BY <1>1, <2>1, <2>3 DEF RunInv, Archiving
  <2>4. CASE /\ pc' = "move" /\ M > 0 /\ run.phase = "registry_complete"
             /\ run' = [run EXCEPT !.phase = "archive_intent", !.intent = 1]
    <3>1. run.progress = 0 /\ 1 \in 0..M /\ "archive_intent" \in RunPhases
      BY <1>1, <2>1, <2>4, PhaseNames DEF RunInv, Archiving
    <3>2. /\ run' \in Runs /\ run'.dir = run.dir /\ run'.progress = run.progress
          /\ run'.summary = run.summary /\ run'.phase = "archive_intent"
          /\ run'.intent = 1
      BY <2>1, <2>4, <3>1 DEF Runs
    <3>. QED  BY <2>4, <3>1, <3>2
  <2>5. CASE pc' = "move" /\ run' = run /\ run.intent = run.progress + 1
    <3>1. run.phase = "archive_intent"
      <4>1. run.progress \in 0..M /\ run.intent \in 0..M
        BY <2>1 DEF Runs
      <4>2. run.progress # M /\ run.intent # 0
        BY <2>1, <2>5, <4>1
      <4>. QED  BY <1>1, <4>2 DEF RunInv, Archiving
    <3>. QED  BY <2>1, <2>5, <3>1
  <2>. QED  BY <1>3, <2>2, <2>3, <2>4, <2>5
<1>5. /\ LogInv' /\ PathsAgree' /\ RegistryAgrees' /\ WalkInv'
      /\ RegWalkInv' /\ DurableInv'
  BY <1>1, <1>2, <1>3, <1>4, Undisturbed
  DEF MigrationInv, Walks, Mending, Staging, Switching, Registering
<1>6. TypeOK'
  BY <1>1, <1>2, <1>4, Types, TypesNext
<1>7. RunInv'
  BY <1>1, <1>2, <1>4 DEF RunInv, StepInv, Closed, Converging, Archiving, AllThere
<1>8. StepInv'
  BY <1>1, <1>2, <1>4
    DEF StepInv, Freezing, Opening, Mending, Staging, Switching, Walking, Backing,
        Binding, Registering, Moving, Ending, Closed, Copied, Saving, Schema,
        Converging
<1>9. DoneInv'
  BY <1>1, <1>2, <1>4
    DEF DoneInv, NoOld, AllRegistered, Validated, Registering, Closed, Moving,
        Ending
<1>10. BackupInv'
  BY <1>1, <1>2, <1>4
    DEF BackupInv, HasRows, BackupHeld, Installed, Incomplete, Copied, Schema,
        StepInv, Closed, Converging
<1>11. PlanInv'
  BY <1>1, <1>2, <1>3, <1>4
  DEF PlanInv, Rows, Freezing, Opening, Walking, Mending, Staging, Switching,
       Binding, Registering
<1>. QED  BY <1>5, <1>6, <1>7, <1>8, <1>9, <1>10, <1>11 DEF MigrationInv

LEMMA MoveItemKeeps ==
  ASSUME MigrationInv, MoveItem
  PROVE  MigrationInv'
<1>1. /\ TypeOK /\ RunInv /\ StepInv /\ DoneInv /\ BackupInv /\ PlanInv
      /\ LogInv /\ PathsAgree /\ RegistryAgrees /\ WalkInv /\ RegWalkInv /\ DurableInv
  BY DEF MigrationInv
<1>2. /\ pc = "move" /\ mem' = mem /\ run' = run /\ snap' = snap /\ db' = db
      /\ row' = row /\ asset' = asset /\ plan' = plan /\ backplan' = backplan
      /\ jr' = jr /\ ckpt' = ckpt /\ stg' = stg /\ dst' = dst /\ ino' = ino
      /\ unsynced' = unsynced /\ loose' = loose /\ budget' = budget
  BY DEF MoveItem, At, logs, files
<1>3. /\ run.phase = "archive_intent" /\ run.intent = run.progress + 1
      /\ run.progress \in 0..M /\ run.intent \in 0..M /\ run.intent \in Items
      /\ \A k \in 1..run.progress : k \in Items \ {run.intent}
  <2>1. /\ run.phase = "archive_intent" /\ run.intent = run.progress + 1
        /\ run.progress \in 0..M /\ run.intent \in 0..M
    BY <1>1, <1>2, Fields DEF StepInv, Moving, RunInv
  <2>2. \A k \in 1..run.progress : k \in 1..M /\ k # run.intent
    BY <2>1, MNat
  <2>. QED  BY <2>1, <2>2, MNat DEF Items
<1>4. /\ item' \in Places /\ pc' \in {"failed", "movesync"}
      /\ \A k \in Items \ {run.intent} : item'[k] = item[k]
      /\ pc' = "movesync" => item'[run.intent] # "there" 
  BY <1>1, <1>3, Types DEF MoveItem, Go, Fail, Places
<1>5. /\ BackupInv' /\ LogInv' /\ PathsAgree' /\ RegistryAgrees'
      /\ WalkInv' /\ RegWalkInv' /\ DurableInv'
  BY <1>1, <1>2, <1>4, Undisturbed
  DEF MigrationInv, Saves, Copied, Schema, Walks, Mending, Staging,
       Switching, Registering
<1>6. TypeOK'
  BY <1>1, <1>2, <1>3, <1>4, Types, TypesNext
<1>7. RunInv'
  BY <1>1, <1>2, <1>3, <1>4 DEF RunInv, Archiving
<1>8. StepInv'
  BY <1>1, <1>2, <1>3, <1>4
  DEF StepInv, Freezing, Opening, Mending, Staging, Switching, Walking,
       Backing, Binding, Registering, Moving, Ending, Closed, Copied, Saving,
       Schema, Converging
<1>9. DoneInv'
  BY <1>1, <1>2, <1>3, <1>4
  DEF DoneInv, NoOld, AllRegistered, Validated, Registering, Closed, Moving,
       Ending
<1>10. PlanInv'
  BY <1>1, <1>2, <1>3, <1>4
  DEF PlanInv, Rows, Freezing, Opening, Walking, Mending, Staging, Switching,
       Binding, Registering
<1>. QED  BY <1>5, <1>6, <1>7, <1>8, <1>9, <1>10 DEF MigrationInv

LEMMA SyncItemKeeps ==
  ASSUME MigrationInv, SyncItem
  PROVE  MigrationInv'
<1>1. /\ TypeOK /\ RunInv /\ StepInv /\ DoneInv /\ BackupInv /\ PlanInv
      /\ LogInv /\ PathsAgree /\ RegistryAgrees /\ WalkInv /\ RegWalkInv /\ DurableInv
  BY DEF MigrationInv
<1>2. /\ pc = "movesync" /\ mem' = mem /\ run' = run /\ snap' = snap
      /\ db' = db /\ row' = row /\ asset' = asset /\ plan' = plan
      /\ backplan' = backplan /\ jr' = jr /\ ckpt' = ckpt /\ stg' = stg
      /\ dst' = dst /\ ino' = ino /\ unsynced' = unsynced /\ loose' = loose
      /\ budget' = budget
  BY DEF SyncItem, At, logs, files
<1>3. /\ run.phase = "archive_intent" /\ run.intent = run.progress + 1
      /\ run.progress \in 0..M /\ run.intent \in 0..M /\ run.intent \in Items
      /\ \A k \in 1..run.progress : k \in Items \ {run.intent}
  <2>1. /\ run.phase = "archive_intent" /\ run.intent = run.progress + 1
        /\ run.progress \in 0..M /\ run.intent \in 0..M
    BY <1>1, <1>2, Fields DEF StepInv, Moving, RunInv
  <2>2. \A k \in 1..run.progress : k \in 1..M /\ k # run.intent
    BY <2>1, MNat
  <2>. QED  BY <2>1, <2>2, MNat DEF Items
<1>4. /\ item' \in Places /\ pc' = "record"
      /\ \A k \in Items \ {run.intent} : item'[k] = item[k]
      /\ item'[run.intent] = "archived" 
  BY <1>1, <1>3, Types DEF SyncItem, Go, Places
<1>5. /\ BackupInv' /\ LogInv' /\ PathsAgree' /\ RegistryAgrees'
      /\ WalkInv' /\ RegWalkInv' /\ DurableInv'
  BY <1>1, <1>2, <1>4, Undisturbed
  DEF MigrationInv, Saves, Copied, Schema, Walks, Mending, Staging,
       Switching, Registering
<1>6. TypeOK'
  BY <1>1, <1>2, <1>3, <1>4, Types, TypesNext
<1>7. RunInv'
  BY <1>1, <1>2, <1>3, <1>4 DEF RunInv, Archiving
<1>8. StepInv'
  BY <1>1, <1>2, <1>3, <1>4
  DEF StepInv, Freezing, Opening, Mending, Staging, Switching, Walking,
       Backing, Binding, Registering, Moving, Ending, Closed, Copied, Saving,
       Schema, Converging
<1>9. DoneInv'
  BY <1>1, <1>2, <1>3, <1>4
  DEF DoneInv, NoOld, AllRegistered, Validated, Registering, Closed, Moving,
       Ending
<1>10. PlanInv'
  BY <1>1, <1>2, <1>3, <1>4
  DEF PlanInv, Rows, Freezing, Opening, Walking, Mending, Staging, Switching,
       Binding, Registering
<1>. QED  BY <1>5, <1>6, <1>7, <1>8, <1>9, <1>10 DEF MigrationInv

LEMMA RecordItemKeeps ==
  ASSUME MigrationInv, RecordItem
  PROVE  MigrationInv'
<1>1. /\ TypeOK /\ RunInv /\ StepInv /\ DoneInv /\ BackupInv /\ PlanInv
      /\ LogInv /\ PathsAgree /\ RegistryAgrees /\ WalkInv /\ RegWalkInv /\ DurableInv
  BY DEF MigrationInv
<1>2. /\ pc = "record" /\ mem' = mem /\ snap' = snap /\ db' = db
      /\ row' = row /\ asset' = asset /\ plan' = plan /\ backplan' = backplan
      /\ jr' = jr /\ ckpt' = ckpt /\ stg' = stg /\ dst' = dst /\ ino' = ino
      /\ unsynced' = unsynced /\ loose' = loose /\ item' = item
      /\ budget' = budget
  BY DEF RecordItem, At, logs, files
<1>3. /\ run.phase = "archive_intent" /\ run.intent = run.progress + 1
      /\ run.progress \in 0..M /\ run.intent \in 0..M /\ run.intent \in Items
      /\ \A k \in 1..run.progress : k \in Items \ {run.intent}
  <2>1. /\ run.phase = "archive_intent" /\ run.intent = run.progress + 1
        /\ run.progress \in 0..M /\ run.intent \in 0..M
    BY <1>1, <1>2, Fields DEF StepInv, Moving, RunInv
  <2>2. \A k \in 1..run.progress : k \in 1..M /\ k # run.intent
    BY <2>1, MNat
  <2>. QED  BY <2>1, <2>2, MNat DEF Items
<1>4. /\ run' \in Runs /\ run'.dir = run.dir /\ run'.summary = run.summary
      /\ run'.progress = run.intent
      /\ \/ /\ pc' = "complete" /\ run'.phase = "archive_complete" /\ run.intent = M
         \/ /\ pc' = "move" /\ run'.phase = "archive_intent"
            /\ run'.intent = run'.progress + 1
  <2>1. run \in Runs /\ M \in Nat
    BY <1>1, Types, SizesAssumption
  <2>2. CASE run.intent = M
    <3>1. /\ run' = [run EXCEPT !.progress = M, !.phase = "archive_complete"]
          /\ pc' = "complete"
      BY <2>2 DEF RecordItem, Go
    <3>. QED  BY <2>1, <2>2, <3>1, MNat, PhaseNames DEF Runs
  <2>3. CASE run.intent # M
    <3>1. /\ run' = [run EXCEPT !.progress = @ + 1, !.intent = @ + 1]
          /\ pc' = "move"
      BY <2>3 DEF RecordItem, Go
    <3>2. run.progress + 1 \in 0..M /\ run.intent + 1 \in 0..M
      BY <1>3, <2>1, <2>3
    <3>. QED  BY <1>3, <2>1, <3>1, <3>2 DEF Runs
  <2>. QED  BY <2>2, <2>3
<1>5. /\ \A k \in 1..run.intent : item[k] = "archived"
      /\ run.progress # M /\ run.intent > 0
  <2>1. item[run.intent] = "archived" /\ \A k \in 1..run.progress : item[k] = "archived"
    BY <1>1, <1>2 DEF StepInv, RunInv
  <2>2. \A k \in 1..run.intent : k = run.intent \/ k \in 1..run.progress
    BY <1>3
  <2>. QED  BY <1>3, <2>1, <2>2, MNat
<1>6. /\ LogInv' /\ PathsAgree' /\ RegistryAgrees' /\ WalkInv'
      /\ RegWalkInv' /\ DurableInv'
  BY <1>1, <1>2, <1>4, Undisturbed
  DEF MigrationInv, Walks, Mending, Staging, Switching, Registering
<1>7. TypeOK'
  BY <1>1, <1>2, <1>4, Types, TypesNext
<1>8. RunInv'
  BY <1>1, <1>2, <1>3, <1>4, <1>5
  DEF RunInv, Archiving, AllThere
<1>9. StepInv'
  BY <1>1, <1>2, <1>3, <1>4, <1>5
  DEF StepInv, Freezing, Opening, Mending, Staging, Switching, Walking,
       Backing, Binding, Registering, Moving, Ending, Closed, Copied, Saving,
       Schema, Converging
<1>10. DoneInv'
  BY <1>1, <1>2, <1>3, <1>4, <1>5
  DEF DoneInv, NoOld, AllRegistered, Validated, Registering, Closed, Moving,
       Ending
<1>11. BackupInv'
  BY <1>1, <1>2, <1>3, <1>4
    DEF BackupInv, HasRows, BackupHeld, Installed, Incomplete, Copied, Schema,
        StepInv, Closed, Converging, Moving
<1>12. PlanInv'
  BY <1>1, <1>2, <1>3, <1>4, <1>5
  DEF PlanInv, Rows, Freezing, Opening, Walking, Mending, Staging, Switching,
       Binding, Registering
<1>. QED  BY <1>6, <1>7, <1>8, <1>9, <1>10, <1>11, <1>12 DEF MigrationInv

LEMMA CompleteSummaryKeeps ==
  ASSUME MigrationInv, CompleteSummary
  PROVE  MigrationInv'
<1>1. /\ TypeOK /\ RunInv /\ StepInv /\ DoneInv /\ BackupInv /\ PlanInv
      /\ LogInv /\ PathsAgree /\ RegistryAgrees /\ WalkInv /\ RegWalkInv /\ DurableInv
  BY DEF MigrationInv
<1>2. /\ pc = "complete" /\ mem' = mem /\ snap' = snap /\ db' = db
      /\ row' = row /\ asset' = asset /\ plan' = plan /\ backplan' = backplan
      /\ jr' = jr /\ ckpt' = ckpt /\ stg' = stg /\ dst' = dst /\ ino' = ino
      /\ unsynced' = unsynced /\ loose' = loose /\ item' = item
      /\ budget' = budget
  BY DEF CompleteSummary, At, logs, files
<1>3. /\ run' \in Runs /\ run'.dir = run.dir /\ run'.progress = run.progress
      /\ run'.intent = run.intent /\ run'.phase = run.phase
      /\ run'.summary = "complete" /\ pc' = "finish" 
  BY <1>1, Types DEF CompleteSummary, Go, Runs
<1>4. /\ LogInv' /\ PathsAgree' /\ RegistryAgrees' /\ WalkInv'
      /\ RegWalkInv' /\ DurableInv'
  BY <1>1, <1>2, <1>3, Undisturbed
  DEF MigrationInv, Walks, Mending, Staging, Switching, Registering
<1>5. TypeOK'
  BY <1>1, <1>2, <1>3, Types, TypesNext
<1>6. RunInv'
  BY <1>1, <1>2, <1>3
  DEF RunInv, Archiving, AllThere
<1>7. StepInv'
  BY <1>1, <1>2, <1>3
  DEF StepInv, Freezing, Opening, Mending, Staging, Switching, Walking,
       Backing, Binding, Registering, Moving, Ending, Closed, Copied, Saving,
       Schema, Converging
<1>8. DoneInv'
  BY <1>1, <1>2, <1>3
  DEF DoneInv, NoOld, AllRegistered, Validated, Registering, Closed, Moving,
       Ending
<1>9. BackupInv'
  BY <1>1, <1>2, <1>3
  DEF BackupInv, HasRows, BackupHeld, Installed, Incomplete, Copied, Schema
<1>10. PlanInv'
  BY <1>1, <1>2, <1>3
  DEF PlanInv, Rows, Freezing, Opening, Walking, Mending, Staging, Switching,
       Binding, Registering
<1>. QED  BY <1>4, <1>5, <1>6, <1>7, <1>8, <1>9, <1>10 DEF MigrationInv

LEMMA CompleteStateKeeps ==
  ASSUME MigrationInv, CompleteState
  PROVE  MigrationInv'
<1>1. /\ TypeOK /\ RunInv /\ StepInv /\ DoneInv /\ BackupInv /\ PlanInv
      /\ LogInv /\ PathsAgree /\ RegistryAgrees /\ WalkInv /\ RegWalkInv /\ DurableInv
  BY DEF MigrationInv
<1>2. /\ pc = "finish" /\ mem' = mem /\ snap' = snap /\ db' = db
      /\ row' = row /\ asset' = asset /\ plan' = plan /\ backplan' = backplan
      /\ jr' = jr /\ ckpt' = ckpt /\ stg' = stg /\ dst' = dst /\ ino' = ino
      /\ unsynced' = unsynced /\ loose' = loose /\ item' = item
      /\ budget' = budget
  BY DEF CompleteState, At, logs, files
<1>3. /\ run' \in Runs /\ run'.dir = run.dir /\ run'.progress = run.progress
      /\ run'.intent = run.intent /\ run'.phase = "complete"
      /\ run'.summary = run.summary /\ pc' = "runtime" 
  BY <1>1, Types, PhaseNames DEF CompleteState, Go, Runs
<1>4. /\ run.progress = M /\ run.summary = "complete" /\ NoOld /\ AllRegistered
      /\ run.dir = "ready" /\ run.phase \notin {"initialized", "snapshot_intent"}
  BY <1>1, <1>2 DEF StepInv, Ending, DoneInv, Closed, Converging
<1>5. /\ LogInv' /\ PathsAgree' /\ RegistryAgrees' /\ WalkInv'
      /\ RegWalkInv' /\ DurableInv'
  BY <1>1, <1>2, <1>3, Undisturbed
  DEF MigrationInv, Walks, Mending, Staging, Switching, Registering
<1>6. TypeOK'
  BY <1>1, <1>2, <1>3, <1>4, Types, TypesNext
<1>7. RunInv'
  BY <1>1, <1>2, <1>3, <1>4
  DEF RunInv, Archiving, AllThere
<1>8. StepInv'
  BY <1>1, <1>2, <1>3, <1>4
  DEF StepInv, Freezing, Opening, Mending, Staging, Switching, Walking,
       Backing, Binding, Registering, Moving, Ending, Closed, Copied, Saving,
       Schema, Converging
<1>9. DoneInv'
  BY <1>1, <1>2, <1>3, <1>4
  DEF DoneInv, NoOld, AllRegistered, Validated, Registering, Closed, Moving,
       Ending
<1>10. BackupInv'
  BY <1>1, <1>2, <1>3, <1>4
  DEF BackupInv, HasRows, BackupHeld, Installed, Incomplete, Copied, Schema
<1>11. PlanInv'
  BY <1>1, <1>2, <1>3, <1>4
  DEF PlanInv, Rows, Freezing, Opening, Walking, Mending, Staging, Switching,
       Binding, Registering
<1>. QED  BY <1>5, <1>6, <1>7, <1>8, <1>9, <1>10, <1>11 DEF MigrationInv

-----------------------------------------------------------------------------
(* What happens to the machine: stops, power losses and damage. *)

LEMMA JournalLeft ==
  ASSUME TypeOK, jr' \in JournalAfter
  PROVE  /\ jr' \in Journals /\ jr'.made = jr.made /\ jr'.totals = jr.totals
         /\ jr'.intent = jr.intent /\ jr'.commit = jr.commit /\ jr'.ino = jr.ino
  BY Types DEF JournalAfter, Journals

LEMMA RunLeft ==
  ASSUME TypeOK, StepInv, RunInv, run' \in RunAfter
  PROVE  /\ run' \in Runs /\ run'.progress = run.progress
         /\ run'.intent = run.intent
         /\ run'.summary = run.summary \/ run'.phase = "initialized"
         /\ run'.phase = run.phase
         /\ run'.dir = "ready" => run.dir = "ready"
         /\ run'.dir # "ready" => run'.phase = "initialized"
<1>1. CASE run' = run
  BY <1>1, Types DEF RunInv
<1>2. CASE pc = "create" /\ run' = [NoRun EXCEPT !.dir = "creating"]
  <2>1. run.phase = "initialized" /\ run.progress = 0 /\ run.intent = 0
    BY <1>2 DEF StepInv, RunInv, Archiving
  <2>. QED  BY <1>2, <2>1, MNat, PhaseNames DEF NoRun, Runs, Dirs
<1>. QED  BY <1>1, <1>2 DEF RunAfter, At

LEMMA SnapLeft ==
  ASSUME TypeOK, BackupInv, snap' \in SnapAfter
  PROVE  /\ snap' \in Snaps /\ snap'.final = snap.final /\ snap'.rows = snap.rows
         /\ snap'.temp = "full" => snap.temp = "full"
         /\ snap'.final = "full" => snap'.receipt = snap.receipt /\ snap'.temp = snap.temp
         /\ snap'.receipt # "none" /\ snap'.final = "none" => snap'.temp = "full"
<1>1. CASE snap' = snap
  BY <1>1, Types DEF BackupInv
<1>2. CASE pc = "copy" /\ snap' = [snap EXCEPT !.temp = "partial"]
  BY <1>2, Types DEF BackupInv, Snaps, Written
<1>3. CASE pc = "receipt" /\ snap' = [snap EXCEPT !.receipt = "partial"]
  BY <1>3, Types DEF BackupInv, Snaps, Written
<1>. QED  BY <1>1, <1>2, <1>3 DEF SnapAfter, At

LEMMA PlanLeft ==
  ASSUME TypeOK, PlanInv, LogInv, NEW power \in BOOLEAN, plan' \in PlanAfter(power)
  PROVE  /\ plan' \in Plans
         /\ \/ plan' = plan
            \/ /\ jr.intent["paths"] = {} /\ jr.commit["paths"] = {}
               /\ plan'.file = "frozen" =>
                    plan'.images = Rows /\ \A i \in Orphans : row[i] = "gone"
<1>1. CASE plan' = plan
  BY <1>1, Types
<1>2. CASE pc = "freeze" /\ Plannable /\ "plan" \in StopAt
  <2>1. jr.intent["paths"] = {} /\ jr.commit["paths"] = {}
    BY <1>2 DEF PlanInv, Freezing, LogInv, Batches
  <2>2. \/ plan' = [file |-> "frozen", images |-> Rows]
        \/ \E f \in PartialPlans : plan' = [file |-> f, images |-> {}]
    BY <1>2 DEF PlanAfter, At
  <2>3. PartialPlans \subseteq PlanFiles \ {"frozen"}
    BY DEF PartialPlans, PlanFiles
  <2>4. Rows \in SUBSET Images
    BY DEF Rows
  <2>5. \A i \in Orphans : row[i] = "gone"
    BY <1>2, ImagesAssumption DEF Plannable, SourceThere, Rows
  <2>. QED  BY <2>1, <2>2, <2>3, <2>4, <2>5 DEF Plans, PlanFiles
<1>. QED  BY <1>1, <1>2 DEF PlanAfter, At

LEMMA BackplanLeft ==
  ASSUME TypeOK, PlanInv, LogInv, PathsAgree, NEW power \in BOOLEAN,
         backplan' \in BackplanAfter(power)
  PROVE  /\ backplan' \in Backplans
         /\ \/ backplan' = backplan
            \/ /\ jr.intent["backfill"] = {} /\ jr.commit["backfill"] = {}
               /\ backplan'.file = "frozen" => backplan'.images = Rows /\ NoOld
<1>1. CASE backplan' = backplan
  BY <1>1, Types
<1>2. CASE pc = "backfreeze" /\ BackPlannable /\ "backplan" \in StopAt
  <2>1. jr.intent["backfill"] = {} /\ jr.commit["backfill"] = {}
    BY <1>2 DEF PlanInv, LogInv, Batches
  <2>2. \/ backplan' = [file |-> "frozen", images |-> BackRows, ino |-> ino]
        \/ \E f \in {"empty", "torn", "prefix"} :
              backplan' = [NoBackplan EXCEPT !.file = f]
    BY <1>2 DEF BackplanAfter, At
  <2>3. BackRows = Rows /\ Rows \in SUBSET Images
    BY DEF BackRows, Rows
  <2>4. NoOld
    BY <1>2, <2>3 DEF BackPlannable, PathsAgree, NoOld, Rows
  <2>5. NoBackplan.ino \in Inodes
    BY MNat DEF NoBackplan, Inodes
  <2>6. CASE backplan' = [file |-> "frozen", images |-> BackRows, ino |-> ino]
    BY <2>1, <2>3, <2>4, <2>6, Types DEF Backplans, PlanFiles
  <2>7. CASE \E f \in {"empty", "torn", "prefix"} :
               backplan' = [NoBackplan EXCEPT !.file = f]
    BY <2>1, <2>5, <2>7 DEF Backplans, PlanFiles, NoBackplan
  <2>. QED  BY <2>2, <2>6, <2>7
<1>. QED  BY <1>1, <1>2 DEF BackplanAfter, At

LEMMA FilesLeft ==
  ASSUME TypeOK, NEW now \in Stagings, FilesLost(now)
  PROVE  /\ stg' \in Stagings /\ dst' \in Destinations
         /\ \A i \in Images : loose[i] # "renamed" /\ (i \in unsynced => i \in InPlace)
              => dst'[i] = dst[i]
         /\ \A i \in InPlace : loose[i] # "renamed" => dst'[i] = dst[i]
<1>1. PICK s \in [AtRisk -> Written], d \in [AtRisk -> {"none", "good", "bad"}] :
        /\ \A i \in AtRisk : FileLost(i, now[i], s[i], d[i])
        /\ stg' = [i \in Images |-> IF i \in AtRisk THEN s[i] ELSE now[i]]
        /\ dst' = [i \in Images |-> IF i \in AtRisk THEN d[i] ELSE dst[i]]
  BY DEF FilesLost
<1>2. stg' \in Stagings /\ dst' \in Destinations
  BY <1>1, Types DEF Stagings, Destinations
<1>3. ASSUME NEW i \in Images, loose[i] # "renamed", i \in unsynced => i \in InPlace
      PROVE  dst'[i] = dst[i]
  <2>1. CASE i \in AtRisk
    <3>1. FileLost(i, now[i], s[i], d[i])
      BY <1>1, <2>1
    <3>2. d[i] = dst[i]
      BY <1>3, <3>1 DEF FileLost, CutShort
    <3>. QED  BY <1>1, <2>1, <3>2
  <2>2. CASE i \notin AtRisk
    BY <1>1, <2>2
  <2>. QED  BY <2>1, <2>2
<1>. QED  BY <1>2, <1>3, ImagesAssumption

LEMMA StagingLeft ==
  ASSUME TypeOK, NEW s \in StagingAfter
  PROVE  s \in Stagings
<1>1. "partial" \in Written
  BY DEF Written
<1>2. \A x : [stg EXCEPT ![x] = "partial"] \in Stagings
  BY <1>1, Types DEF Stagings
<1>. QED  BY <1>2, Types DEF StagingAfter

LEMMA StartKeeps ==
  ASSUME MigrationInv, Start
  PROVE  MigrationInv'
<1>1. /\ TypeOK /\ RunInv /\ StepInv /\ DoneInv /\ BackupInv /\ PlanInv
      /\ LogInv /\ PathsAgree /\ RegistryAgrees /\ WalkInv /\ RegWalkInv /\ DurableInv
  BY DEF MigrationInv
<1>2. /\ mem' = mem /\ run' = run /\ snap' = snap /\ db' = db /\ row' = row
      /\ asset' = asset /\ plan' = plan /\ backplan' = backplan /\ jr' = jr
      /\ ckpt' = ckpt /\ stg' = stg /\ dst' = dst /\ ino' = ino
      /\ unsynced' = unsynced /\ loose' = loose /\ item' = item
      /\ budget' = budget
  BY DEF Start, At, logs, files
<1>3. pc' = "start"
  BY DEF Start, Go
<1>4. /\ RunInv' /\ DoneInv' /\ BackupInv' /\ LogInv' /\ PathsAgree'
      /\ RegistryAgrees' /\ WalkInv' /\ RegWalkInv' /\ DurableInv'
  BY <1>1, <1>2, <1>3, Undisturbed
  DEF MigrationInv, Ends, Registering, Closed, Moving, Ending, Saves, Copied,
       Schema, Walks, Mending, Staging, Switching
<1>5. TypeOK'
  BY <1>1, <1>2, <1>3, Types, TypesNext
<1>6. StepInv'
  BY <1>1, <1>2, <1>3
  DEF StepInv, Freezing, Opening, Mending, Staging, Switching, Walking,
       Backing, Binding, Registering, Moving, Ending, Closed, Copied, Saving,
       Schema, Converging
<1>7. PlanInv'
  BY <1>1, <1>2, <1>3
  DEF PlanInv, Rows, Freezing, Opening, Walking, Mending, Staging, Switching,
       Binding, Registering
<1>. QED  BY <1>4, <1>5, <1>6, <1>7 DEF MigrationInv

LEMMA StartWithoutFlagKeeps ==
  ASSUME MigrationInv, StartWithoutFlag
  PROVE  MigrationInv'
<1>1. /\ TypeOK /\ RunInv /\ StepInv /\ DoneInv /\ BackupInv /\ PlanInv
      /\ LogInv /\ PathsAgree /\ RegistryAgrees /\ WalkInv /\ RegWalkInv /\ DurableInv
  BY DEF MigrationInv
<1>2. /\ mem' = mem /\ run' = run /\ snap' = snap /\ db' = db /\ row' = row
      /\ asset' = asset /\ plan' = plan /\ backplan' = backplan /\ jr' = jr
      /\ ckpt' = ckpt /\ stg' = stg /\ dst' = dst /\ ino' = ino
      /\ unsynced' = unsynced /\ loose' = loose /\ item' = item
  BY DEF StartWithoutFlag, At, logs, files
<1>3. /\ pc' = "noflag" /\ budget' \in Budgets
      /\ budget'.damage = budget.damage
  BY <1>1, Types, SizesAssumption DEF StartWithoutFlag, Go, Budgets
<1>4. /\ RunInv' /\ DoneInv' /\ BackupInv' /\ LogInv' /\ PathsAgree'
      /\ RegistryAgrees' /\ WalkInv' /\ RegWalkInv'
  BY <1>1, <1>2, <1>3, Undisturbed
  DEF MigrationInv, Ends, Registering, Closed, Moving, Ending, Saves, Copied,
       Schema, Walks, Mending, Staging, Switching
<1>5. TypeOK'
  BY <1>1, <1>2, <1>3, Types, TypesNext
<1>6. StepInv'
  BY <1>1, <1>2, <1>3
  DEF StepInv, Freezing, Opening, Mending, Staging, Switching, Walking,
       Backing, Binding, Registering, Moving, Ending, Closed, Copied, Saving,
       Schema, Converging
<1>7. PlanInv'
  BY <1>1, <1>2, <1>3
  DEF PlanInv, Rows, Freezing, Opening, Walking, Mending, Staging, Switching,
       Binding, Registering
<1>8. DurableInv'
  BY <1>1, <1>2, <1>3
  DEF DurableInv, Kept, Mending
<1>. QED  BY <1>4, <1>5, <1>6, <1>7, <1>8 DEF MigrationInv

LEMMA StopKeeps ==
  ASSUME MigrationInv, Stop
  PROVE  MigrationInv'
<1>1. /\ TypeOK /\ RunInv /\ StepInv /\ DoneInv /\ BackupInv /\ PlanInv
      /\ LogInv /\ PathsAgree /\ RegistryAgrees /\ WalkInv /\ RegWalkInv /\ DurableInv
  BY DEF MigrationInv
<1>2. /\ db' = db /\ row' = row /\ asset' = asset /\ ckpt' = ckpt
      /\ dst' = dst /\ ino' = ino /\ unsynced' = unsynced /\ loose' = loose
      /\ item' = item
  BY DEF Stop, At, logs, files
<1>3. /\ pc' = "down" /\ mem' \in Mems
  BY DEF Stop, Go, Mems, NoMem
<1>4. /\ run' \in Runs /\ run'.progress = run.progress
      /\ run'.intent = run.intent
      /\ run'.summary = run.summary \/ run'.phase = "initialized"
      /\ run'.phase = run.phase
      /\ run'.dir = "ready" => run.dir = "ready"
      /\ run'.dir # "ready" => run'.phase = "initialized" 
  BY <1>1, RunLeft DEF Stop
<1>5. /\ snap' \in Snaps /\ snap'.final = snap.final /\ snap'.rows = snap.rows
      /\ snap'.temp = "full" => snap.temp = "full"
      /\ snap'.final = "full" => snap'.receipt = snap.receipt /\ snap'.temp = snap.temp
      /\ snap'.receipt # "none" /\ snap'.final = "none" => snap'.temp = "full" 
  BY <1>1, SnapLeft DEF Stop
<1>6. /\ plan' \in Plans
      /\ \/ plan' = plan
         \/ /\ jr.intent["paths"] = {} /\ jr.commit["paths"] = {}
            /\ plan'.file = "frozen" =>
                 plan'.images = Rows /\ \A i \in Orphans : row[i] = "gone" 
  BY <1>1, PlanLeft DEF Stop
<1>7. /\ backplan' \in Backplans
      /\ \/ backplan' = backplan
         \/ /\ jr.intent["backfill"] = {} /\ jr.commit["backfill"] = {}
            /\ backplan'.file = "frozen" => backplan'.images = Rows /\ NoOld
  BY <1>1, BackplanLeft DEF Stop
<1>8. /\ jr' \in Journals /\ jr'.made = jr.made /\ jr'.totals = jr.totals
      /\ jr'.intent = jr.intent /\ jr'.commit = jr.commit /\ jr'.ino = jr.ino
  BY <1>1, JournalLeft DEF Stop
<1>9. /\ stg' \in Stagings /\ budget' \in Budgets
      /\ budget'.damage = budget.damage
  BY <1>1, Types, StagingLeft, SizesAssumption DEF Stop, Budgets
<1>10. WalkInv' /\ RegWalkInv'
  BY <1>1, <1>2, <1>3, Undisturbed
  DEF MigrationInv, Walks, Mending, Staging, Switching, Registering
<1>11. TypeOK'
  BY <1>1, <1>2, <1>3, <1>4, <1>5, <1>6, <1>7, <1>8, <1>9, Types, TypesNext
<1>12. RunInv'
  BY <1>1, <1>2, <1>4 DEF RunInv, Archiving, AllThere
<1>13. StepInv'
  BY <1>3
    DEF StepInv, Freezing, Opening, Mending, Staging, Switching, Walking, Backing,
        Binding, Registering, Moving, Ending, Closed, Copied, Saving, Schema,
        Converging
<1>14. DoneInv'
  BY <1>1, <1>2, <1>3, <1>4, <1>7
    DEF DoneInv, NoOld, AllRegistered, Validated, Registering, Closed, Moving,
        Ending
<1>15. BackupInv'
  BY <1>1, <1>2, <1>3, <1>4, <1>5
    DEF BackupInv, HasRows, BackupHeld, Installed, Incomplete, Copied, Schema
<1>16. PlanInv'
  BY <1>1, <1>2, <1>3, <1>6, <1>7, <1>8
    DEF PlanInv, Rows, Freezing, Opening, Walking, Mending, Staging, Switching,
        Binding, Registering
<1>17. LogInv'
  <2>1. Leading({}, plan'.images) /\ Leading({}, backplan'.images)
    BY LeadingNone
  <2>. QED  BY <1>1, <1>2, <1>3, <1>6, <1>7, <1>8, <2>1 DEF LogInv, Batches, Open
<1>18. PathsAgree'
  BY <1>1, <1>2, <1>8 DEF PathsAgree, PreSigned, PostSigned, Open
<1>19. RegistryAgrees'
  BY <1>1, <1>2, <1>8
    DEF RegistryAgrees, Unregistered, Registered, ToRegister, Open
<1>20. DurableInv'
  BY <1>1, <1>2, <1>3, <1>8, <1>9 DEF DurableInv, Kept, Mending
<1>. QED  BY <1>10, <1>11, <1>12, <1>13, <1>14, <1>15, <1>16, <1>17, <1>18,
          <1>19, <1>20 DEF MigrationInv

LEMMA PowerLossKeeps ==
  ASSUME MigrationInv, PowerLoss
  PROVE  MigrationInv'
<1>1. /\ TypeOK /\ RunInv /\ StepInv /\ DoneInv /\ BackupInv /\ PlanInv
      /\ LogInv /\ PathsAgree /\ RegistryAgrees /\ WalkInv /\ RegWalkInv /\ DurableInv
  BY DEF MigrationInv
<1>2. /\ db' = db /\ row' = row /\ asset' = asset /\ ckpt' = ckpt
      /\ ino' = ino
  BY DEF PowerLoss, At, logs, files
<1>3. /\ pc' = "down" /\ mem' \in Mems
  BY DEF PowerLoss, Go, Mems, NoMem
<1>4. /\ run' \in Runs /\ run'.progress = run.progress
      /\ run'.intent = run.intent
      /\ run'.summary = run.summary \/ run'.phase = "initialized"
      /\ run'.phase = run.phase
      /\ run'.dir = "ready" => run.dir = "ready"
      /\ run'.dir # "ready" => run'.phase = "initialized" 
  BY <1>1, RunLeft DEF PowerLoss
<1>5. /\ snap' \in Snaps /\ snap'.final = snap.final /\ snap'.rows = snap.rows
      /\ snap'.temp = "full" => snap.temp = "full"
      /\ snap'.final = "full" => snap'.receipt = snap.receipt /\ snap'.temp = snap.temp
      /\ snap'.receipt # "none" /\ snap'.final = "none" => snap'.temp = "full" 
  BY <1>1, SnapLeft DEF PowerLoss
<1>6. /\ plan' \in Plans
      /\ \/ plan' = plan
         \/ /\ jr.intent["paths"] = {} /\ jr.commit["paths"] = {}
            /\ plan'.file = "frozen" =>
                 plan'.images = Rows /\ \A i \in Orphans : row[i] = "gone" 
  BY <1>1, PlanLeft DEF PowerLoss
<1>7. /\ backplan' \in Backplans
      /\ \/ backplan' = backplan
         \/ /\ jr.intent["backfill"] = {} /\ jr.commit["backfill"] = {}
            /\ backplan'.file = "frozen" => backplan'.images = Rows /\ NoOld
  BY <1>1, BackplanLeft DEF PowerLoss
<1>8. /\ jr' \in Journals /\ jr'.made = jr.made /\ jr'.totals = jr.totals
      /\ jr'.intent = jr.intent /\ jr'.commit = jr.commit /\ jr'.ino = jr.ino
  BY <1>1, JournalLeft DEF PowerLoss
<1>9. /\ budget' \in Budgets /\ budget'.damage = budget.damage
      /\ unsynced' = {} /\ loose' \in Namings
      /\ \A i \in Images : loose'[i] = "no" 
  BY <1>1, Types, SizesAssumption DEF PowerLoss, Budgets, AllNamed, Namings
<1>10. /\ stg' \in Stagings /\ dst' \in Destinations
       /\ \A i \in Images : loose[i] # "renamed" /\ (i \in unsynced => i \in InPlace)
            => dst'[i] = dst[i]
       /\ \A i \in InPlace : loose[i] # "renamed" => dst'[i] = dst[i]
  BY <1>1, StagingLeft, FilesLeft DEF PowerLoss
<1>11. /\ item' \in Places
       /\ \A k \in Items : \/ item'[k] = item[k]
                           \/ item[k] = "moved" /\ item'[k] = "there" 
  BY <1>1, Types DEF PowerLoss, ItemsAfter, Places
<1>12. WalkInv' /\ RegWalkInv'
  BY <1>1, <1>2, <1>3, Undisturbed
  DEF MigrationInv, Walks, Mending, Staging, Switching, Registering
<1>13. TypeOK'
  BY <1>1, <1>2, <1>3, <1>4, <1>5, <1>6, <1>7, <1>8, <1>9, <1>10, <1>11, Types, TypesNext
<1>14. RunInv'
  <2>1. \A k \in 1..run.progress : k \in Items
    BY <1>1, Fields, MNat DEF Items
  <2>. QED  BY <1>1, <1>2, <1>4, <1>11, <2>1 DEF RunInv, Archiving, AllThere
<1>15. StepInv'
  BY <1>3
    DEF StepInv, Freezing, Opening, Mending, Staging, Switching, Walking, Backing,
        Binding, Registering, Moving, Ending, Closed, Copied, Saving, Schema,
        Converging
<1>16. DoneInv'
  BY <1>1, <1>2, <1>3, <1>4, <1>7
    DEF DoneInv, NoOld, AllRegistered, Validated, Registering, Closed, Moving,
        Ending
<1>17. BackupInv'
  BY <1>1, <1>2, <1>3, <1>4, <1>5
    DEF BackupInv, HasRows, BackupHeld, Installed, Incomplete, Copied, Schema
<1>18. PlanInv'
  BY <1>1, <1>2, <1>3, <1>6, <1>7, <1>8
    DEF PlanInv, Rows, Freezing, Opening, Walking, Mending, Staging, Switching,
        Binding, Registering
<1>19. LogInv'
  <2>1. Leading({}, plan'.images) /\ Leading({}, backplan'.images)
    BY LeadingNone
  <2>. QED  BY <1>1, <1>2, <1>3, <1>6, <1>7, <1>8, <2>1 DEF LogInv, Batches, Open
<1>20. PathsAgree'
  BY <1>1, <1>2, <1>8 DEF PathsAgree, PreSigned, PostSigned, Open
<1>21. RegistryAgrees'
  BY <1>1, <1>2, <1>8
    DEF RegistryAgrees, Unregistered, Registered, ToRegister, Open
<1>22. DurableInv'
  <2>1. \A i \in jr.intent["paths"] : i \in Images
    BY <1>1, Fields, BothPhases
  <2>2. budget.damage = 0 => \A i \in jr.intent["paths"] : dst'[i] = "good"
    BY <1>1, <1>10, <2>1 DEF DurableInv, Kept
  <2>3. budget.damage = 0 => \A i \in InPlace : row[i] = "new" => dst'[i] = "good"
    BY <1>1, <1>10 DEF DurableInv
  <2>. QED  BY <1>1, <1>2, <1>3, <1>8, <1>9, <2>1, <2>2, <2>3, ImagesAssumption
              DEF DurableInv, Kept, Mending
<1>. QED  BY <1>12, <1>13, <1>14, <1>15, <1>16, <1>17, <1>18, <1>19, <1>20,
          <1>21, <1>22 DEF MigrationInv

LEMMA DamageKeeps ==
  ASSUME MigrationInv, Damage
  PROVE  MigrationInv'
<1>1. /\ TypeOK /\ RunInv /\ StepInv /\ DoneInv /\ BackupInv /\ PlanInv
      /\ LogInv /\ PathsAgree /\ RegistryAgrees /\ WalkInv /\ RegWalkInv /\ DurableInv
  BY DEF MigrationInv
<1>2. /\ pc = "down" /\ mem' = mem /\ run' = run /\ snap' = snap /\ db' = db
      /\ row' = row /\ asset' = asset /\ plan' = plan /\ backplan' = backplan
      /\ jr' = jr /\ ckpt' = ckpt /\ stg' = stg /\ unsynced' = unsynced
      /\ loose' = loose /\ item' = item
  BY DEF Damage, At, logs, files
<1>3. pc' = "down"
  BY DEF Damage, At
<1>4. /\ dst' \in Destinations /\ ino' \in Inodes /\ budget' \in Budgets
      /\ budget'.damage # 0
  <2>1. /\ budget.damage \in 0..MaxDamage /\ budget.damage < MaxDamage /\ MaxDamage \in Nat
        /\ budget' = [budget EXCEPT !.damage = @ + 1]
    BY <1>1, Fields, MNat DEF Damage
  <2>2. budget.damage + 1 \in 0..MaxDamage /\ budget.damage + 1 # 0
    BY <2>1
  <2>3. budget' \in Budgets /\ budget'.damage # 0
    BY <1>1, <2>1, <2>2, Types DEF Budgets
  <2>4. PICK i \in Images, d \in {"none", "bad", "good"} :
          /\ dst' = [dst EXCEPT ![i] = d]
          /\ ino' = IF d = "good" THEN [ino EXCEPT ![i] = budget.damage + 1]
                    ELSE ino
    BY DEF Damage
  <2>. QED  BY <1>1, <2>2, <2>3, <2>4, Types DEF Destinations, Inodes
<1>5. /\ RunInv' /\ DoneInv' /\ BackupInv' /\ LogInv' /\ PathsAgree'
      /\ RegistryAgrees' /\ WalkInv' /\ RegWalkInv'
  BY <1>1, <1>2, <1>3, Undisturbed
  DEF MigrationInv, Ends, Registering, Closed, Moving, Ending, Saves, Copied,
       Schema, Walks, Mending, Staging, Switching
<1>6. TypeOK'
  BY <1>1, <1>2, <1>3, <1>4, Types, TypesNext
<1>7. StepInv'
  BY <1>1, <1>2, <1>3, <1>4
  DEF StepInv, Freezing, Opening, Mending, Staging, Switching, Walking,
       Backing, Binding, Registering, Moving, Ending, Closed, Copied, Saving,
       Schema, Converging
<1>8. PlanInv'
  BY <1>1, <1>2, <1>3, <1>4
  DEF PlanInv, Rows, Freezing, Opening, Walking, Mending, Staging, Switching,
       Binding, Registering
<1>9. DurableInv'
  BY <1>4 DEF DurableInv
<1>. QED  BY <1>5, <1>6, <1>7, <1>8, <1>9 DEF MigrationInv

-----------------------------------------------------------------------------
(* The invariant holds of an old installation and is kept by every step. *)

LEMMA InitInv == Init => MigrationInv
<1> SUFFICES ASSUME Init PROVE MigrationInv
  OBVIOUS
<1>1. /\ pc = "down" /\ mem = NoMem /\ run = NoRun /\ asset = {} /\ plan = NoPlan
      /\ backplan = NoBackplan /\ jr = NoJournal /\ ckpt = 0
      /\ unsynced = {} /\ snap = NoSnap /\ loose = AllNamed
      /\ db \in Dbs /\ ~Validated
      /\ row = [i \in Images |-> Installed(i)]
      /\ stg = [i \in Images |-> "none"]
      /\ dst = [i \in Images |-> IF db.exists /\ i \in InPlace THEN "good" ELSE "none"]
      /\ ino = [i \in Images |-> 0]
      /\ item = [k \in Items |-> "there"]
      /\ budget = [stops |-> 0, power |-> 0, damage |-> 0, errors |-> 0]
  BY DEF Init, Dbs, Validated
<1>2. /\ row \in [Images -> RowStates]
      /\ \A i \in Images : row[i] = Installed(i)
      /\ \A i \in Images : row[i] = "new" => i \in InPlace /\ db.exists
      /\ \A i \in InPlace : row[i] # "old"
      /\ db.exists \/ \A i \in Images : row[i] = "gone"
  BY <1>1, ImagesAssumption DEF Installed, RowStates
<1>3. /\ run \in Runs /\ run.dir = "none" /\ run.phase = "initialized"
      /\ run.progress = 0 /\ run.intent = 0
  BY <1>1, MNat, PhaseNames DEF NoRun, Runs, Dirs
<1>4. /\ snap \in Snaps /\ snap.final = "none" /\ snap.temp = "none"
      /\ snap.receipt = "none"
  BY <1>1, <1>2 DEF NoSnap, Snaps, Written, Dbs
<1>5. /\ jr \in Journals /\ ~jr.totals
      /\ jr.intent["paths"] = {} /\ jr.commit["paths"] = {}
      /\ jr.intent["backfill"] = {} /\ jr.commit["backfill"] = {}
      /\ \A i \in Images : jr.ino["paths"][i] = 0
      /\ \A p \in LogPhases : jr.intent[p] = {}
  <2>1. ~NoJournal.totals
    BY DEF NoJournal
  <2>. QED  BY <1>1, <2>1, EmptyJournal, BothPhases
<1>6. plan \in Plans /\ plan.file = "none" /\ plan.images = {}
  BY <1>1 DEF NoPlan, Plans, PlanFiles
<1>7. backplan \in Backplans /\ backplan.file = "none" /\ backplan.images = {}
  BY <1>1, MNat DEF NoBackplan, Backplans, PlanFiles, Inodes
<1>8. TypeOK
  <2>1. mem \in Mems /\ asset \in SUBSET Images /\ ckpt \in Nat /\ unsynced \in SUBSET Images
    BY <1>1 DEF Mems, NoMem
  <2>2. /\ stg \in Stagings /\ dst \in Destinations /\ ino \in Inodes
        /\ loose \in Namings /\ item \in Places
    BY <1>1, MNat DEF Stagings, Written, Destinations, Inodes, Namings, AllNamed, Places
  <2>3. budget \in Budgets
    BY <1>1, SizesAssumption DEF Budgets
  <2>. QED  BY <1>1, <1>2, <1>3, <1>4, <1>5, <1>6, <1>7, <2>1, <2>2, <2>3, Types
<1>9. RunInv
  BY <1>1, <1>3, MNat DEF RunInv, Archiving, AllThere
<1>10. StepInv
  BY <1>1
  DEF StepInv, Freezing, Opening, Mending, Staging, Switching, Walking, Backing,
      Binding, Registering, Moving, Ending, Closed, Copied, Saving, Schema,
      Converging
<1>11. DoneInv
  BY <1>1, <1>2, <1>3, <1>7 DEF DoneInv, Registering, Closed, Moving, Ending
<1>12. BackupInv
  BY <1>1, <1>2, <1>3, <1>4 DEF BackupInv, HasRows, Copied, Schema
<1>13. PlanInv
  BY <1>1, <1>5, <1>6, <1>7
  DEF PlanInv, Freezing, Opening, Walking, Mending, Staging, Switching, Binding,
      Registering
<1>14. LogInv
  BY <1>1, <1>5, LeadingNone DEF LogInv, Batches, Open
<1>15. PathsAgree /\ RegistryAgrees
  BY <1>1, <1>2, <1>5
  DEF PathsAgree, PreSigned, PostSigned, RegistryAgrees, Unregistered, Open
<1>16. WalkInv /\ RegWalkInv
  BY <1>1 DEF WalkInv, Mending, Staging, Switching, RegWalkInv, Registering
<1>17. DurableInv
  BY <1>1, <1>2, <1>5, ImagesAssumption DEF DurableInv, Kept, Mending, AllNamed
<1>. QED  BY <1>8, <1>9, <1>10, <1>11, <1>12, <1>13, <1>14, <1>15, <1>16, <1>17
            DEF MigrationInv

LEMMA StutterKeeps == MigrationInv /\ UNCHANGED vars => MigrationInv'
<1> SUFFICES ASSUME MigrationInv, UNCHANGED vars PROVE MigrationInv'
  OBVIOUS
<1>1. /\ pc' = pc /\ mem' = mem /\ run' = run /\ snap' = snap /\ db' = db /\ row' = row
      /\ asset' = asset /\ plan' = plan /\ backplan' = backplan /\ jr' = jr
      /\ ckpt' = ckpt /\ stg' = stg /\ dst' = dst /\ ino' = ino /\ loose' = loose
      /\ unsynced' = unsynced /\ item' = item /\ budget' = budget
  BY DEF vars, logs, files
<1>2. TypeOK'
  BY <1>1 DEF MigrationInv, TypeOK
<1>3. RunInv'
  BY <1>1 DEF MigrationInv, RunInv, Archiving, AllThere
<1>4. StepInv'
  BY <1>1 DEF MigrationInv, StepInv
<1>5. DoneInv'
  BY <1>1 DEF MigrationInv, DoneInv, NoOld, AllRegistered, Validated
<1>6. BackupInv'
  BY <1>1 DEF MigrationInv, BackupInv, HasRows, BackupHeld, Installed, Incomplete
<1>7. PlanInv'
  BY <1>1 DEF MigrationInv, PlanInv, Rows
<1>8. LogInv'
  BY <1>1 DEF MigrationInv, LogInv, Batches, Open
<1>9. PathsAgree'
  BY <1>1 DEF MigrationInv, PathsAgree, PreSigned, PostSigned, Open
<1>10. RegistryAgrees'
  BY <1>1 DEF MigrationInv, RegistryAgrees, Unregistered, Registered, ToRegister, Open
<1>11. WalkInv'
  BY <1>1 DEF MigrationInv, WalkInv, Open, PostSigned, Broken, Good
<1>12. RegWalkInv'
  BY <1>1 DEF MigrationInv, RegWalkInv, Walked, Registered, ToRegister, Open
<1>13. DurableInv'
  BY <1>1 DEF MigrationInv, DurableInv, Kept
<1>. QED  BY <1>2, <1>3, <1>4, <1>5, <1>6, <1>7, <1>8, <1>9, <1>10, <1>11, <1>12,
             <1>13 DEF MigrationInv

LEMMA NextInv == MigrationInv /\ [Next]_vars => MigrationInv'
<1> SUFFICES ASSUME MigrationInv, [Next]_vars PROVE MigrationInv'
  OBVIOUS
<1>1. CASE SnapshotStep
  BY <1>1, InspectKeeps, PrepareNoFlagKeeps, CreateRunKeeps, AdoptRunKeeps,
     PrepareKeeps, SnapshotKeeps, CopyDatabaseKeeps, WriteReceiptKeeps,
     PromoteSnapshotKeeps, CleanupOrphansKeeps, EndSnapshotKeeps
  DEF SnapshotStep
<1>2. CASE PlanStep
  BY <1>2, PrepareLocksKeeps, MigrateKeeps, ConvergeKeeps, OpenManifestKeeps,
     RecoverIncompletePlanKeeps, WriteFrozenPlanKeeps, OpenJournalKeeps,
     RecordAttemptKeeps, FreezeTotalsKeeps, PersistMediaKeeps,
     StartCopyingKeeps
  DEF PlanStep
<1>3. CASE PathStep
  BY <1>3, StartPathsKeeps, VerifyBatchKeeps, RepairCheckpointKeeps,
     MendBatchKeeps, MendStageKeeps, MendSyncKeeps, MendReplaceKeeps,
     MendLogKeeps, ResumeBatchKeeps, NextBatchKeeps, StageFileKeeps,
     StageFailsKeeps, SyncFilesKeeps, PublishFileKeeps, SyncDirectoriesKeeps,
     AnnounceBatchKeeps, SwitchRowsKeeps, CommitBatchKeeps, ClosePathsKeeps,
     EndPathsKeeps
  DEF PathStep
<1>4. CASE RegistryStep
  BY <1>4, OpenBackfillKeeps, RecoverIncompleteBackfillKeeps,
     WriteBackfillPlanKeeps, BindBackfillKeeps, PersistBackfillKeeps,
     StartRegistryKeeps, WalkBatchKeeps, AnnounceRegistryKeeps,
     RegisterBatchKeeps, CommitRegistryKeeps, CloseRegistryKeeps,
     CompleteRegistryKeeps, RegistryCheckpointKeeps, EndRegistryKeeps
  DEF RegistryStep
<1>5. CASE ArchiveStep
  BY <1>5, PrepareArchiveKeeps, MoveItemKeeps, SyncItemKeeps,
     RecordItemKeeps, CompleteSummaryKeeps, CompleteStateKeeps,
     RuntimeCheckKeeps
  DEF ArchiveStep
<1>6. CASE MachineStep
  BY <1>6, StartKeeps, StartWithoutFlagKeeps, StopKeeps, PowerLossKeeps,
     DamageKeeps
  DEF MachineStep
<1>7. CASE UNCHANGED vars
  BY <1>7, StutterKeeps
<1>. QED  BY <1>1, <1>2, <1>3, <1>4, <1>5, <1>6, <1>7 DEF Next, WorkerStep

(* Every variable of the migration keeps its type: of the journal, that only *)
(* planned images are announced or committed.                                *)
THEOREM MigrationTypeOK == Spec => []TypeOK
<1>1. MigrationInv => TypeOK
  BY DEF MigrationInv
<1>. QED  BY InitInv, NextInv, <1>1, PTL DEF Spec

(* Before a row of the old installation is removed or switched there is a    *)
(* complete copy of the database as it was, and no later start, however the  *)
(* former ended, makes another (snapshot_sqlite, protect_orphan_cleanup).    *)
THEOREM BackupPristine == Spec => []PristineBackup
<1>1. MigrationInv => PristineBackup
  BY DEF MigrationInv, BackupInv, HasRows, BackupHeld, PristineBackup
<1>. QED  BY InitInv, NextInv, <1>1, PTL DEF Spec

(* What the journal says of the batches and the state file of the archived   *)
(* directories is true of the tables and of the disk, so that a restarted    *)
(* worker can go on from them (recover_batch, record_completion).            *)
THEOREM RecordsAreTrue == Spec => []RecordsHold
<1>1. MigrationInv => RecordsHold
  <2> SUFFICES ASSUME MigrationInv PROVE RecordsHold
    OBVIOUS
  <2>1. LogInv /\ PathsAgree /\ RegistryAgrees /\ RunInv
    BY DEF MigrationInv
  <2>2. Open(jr, "paths") # {} => Recovered(Open(jr, "paths")) # "conflict"
    <3>1. Open(jr, "paths") # {} => ~(Open(jr, "paths") \subseteq jr.commit["paths"])
      BY DEF Open
    <3>. QED  BY <2>1, <3>1 DEF PathsAgree, Recovered, Recovery
  <2>3. JournalAgrees
    BY <2>1, <2>2 DEF JournalAgrees, PathsAgree, RegistryAgrees
  <2>4. ArchiveRecordHolds
    BY <2>1 DEF RunInv, ArchiveRecordHolds
  <2>. QED  BY <2>3, <2>4 DEF RecordsHold
<1>. QED  BY InitInv, NextInv, <1>1, PTL DEF Spec

(* As long as nobody damages a file, a row names a file whose content and    *)
(* name no power loss can take (_sync_staging_devices, the fsync of the      *)
(* directories, append_intent before the switch).                            *)
THEOREM RowsDurable == Spec => []RowsNameDurableFiles
<1>1. MigrationInv => RowsNameDurableFiles
  <2> SUFFICES ASSUME MigrationInv, budget.damage = 0,
                      NEW i \in Images, row[i] = "new"
               PROVE  /\ dst[i] = "good" /\ loose[i] # "renamed"
                      /\ i \in unsynced => i \in InPlace
    BY DEF RowsNameDurableFiles
  <2>1. CASE i \in InPlace
    BY <2>1 DEF MigrationInv, DurableInv
  <2>2. CASE i \notin InPlace
    BY <2>2 DEF MigrationInv, PathsAgree, DurableInv, Kept
  <2>. QED  BY <2>1, <2>2
<1>. QED  BY InitInv, NextInv, <1>1, PTL DEF Spec

-----------------------------------------------------------------------------
(* The migration is a MediaCutover. *)

Running == pc = "done" \/ Validated

(* A step that a reader of the cutover does not see.                         *)
Unseen ==
  /\ row' = row /\ asset' = asset /\ run'.progress = run.progress
  /\ run'.phase = "complete" <=> run.phase = "complete"
  /\ Running' <=> Running

LEMMA UnseenStutters == Unseen => UNCHANGED Cutover!cutover
  BY DEF Unseen, Running, Cutover!cutover

(* Most steps of the worker touch neither the rows nor the database.         *)
Aside ==
  /\ row' = row /\ asset' = asset /\ db' = db
  /\ run'.progress = run.progress
  /\ run'.phase = "complete" <=> run.phase = "complete"
  /\ pc # "done" /\ pc' # "done"

LEMMA AsideUnseen == Aside => Unseen
  BY DEF Aside, Unseen, Running, Validated

LEMMA SnapshotStepAside ==
  ASSUME MigrationInv, SnapshotStep, ~CleanupOrphans
  PROVE  Aside
<1>1. run \in Runs /\ StepInv /\ RunInv
  BY Types DEF MigrationInv
<1>2. CASE Inspect
  BY <1>2 DEF Inspect, Aside, At, Go, Fail, logs, files, Validated
<1>3. CASE PrepareNoFlag
  BY <1>3 DEF PrepareNoFlag, Aside, At, Go, Fail, logs, files, Validated
<1>4. CASE CreateRun
  <2>1. run.phase = "initialized" /\ run.progress = 0 /\ pc = "create"
    BY <1>1, <1>4 DEF CreateRun, At, StepInv, RunInv, Archiving
  <2>2. run'.phase = "initialized" /\ run'.progress = 0
    BY <1>4 DEF CreateRun, NoRun
  <2>. QED  BY <1>4, <2>1, <2>2 DEF CreateRun, Aside, Go, logs, files
<1>5. CASE AdoptRun
  BY <1>1, <1>5 DEF AdoptRun, Aside, At, Go, Fail, logs, files, Runs
<1>6. CASE Prepare
  BY <1>1, <1>6 DEF Prepare, Aside, At, Go, Fail, logs, files, Runs
<1>7. CASE Snapshot
  BY <1>7 DEF Snapshot, Aside, At, Go, Fail, logs, files, ResumeSnapshot
<1>8. CASE CopyDatabase
  BY <1>8 DEF CopyDatabase, Aside, At, Go, Fail, logs, files
<1>9. CASE WriteReceipt
  BY <1>9 DEF WriteReceipt, Aside, At, Go, Fail, logs, files
<1>10. CASE PromoteSnapshot
  BY <1>10 DEF PromoteSnapshot, Aside, At, Go, Fail, logs, files
<1>11. CASE EndSnapshot
  BY <1>1, <1>11 DEF EndSnapshot, Aside, At, Go, Fail, logs, files, Runs
<1>. QED  BY <1>2, <1>3, <1>4, <1>5, <1>6, <1>7, <1>8, <1>9, <1>10, <1>11 DEF
             SnapshotStep

LEMMA PlanStepAside ==
  ASSUME MigrationInv, PlanStep, ~Migrate
  PROVE  Aside
<1>1. run \in Runs /\ StepInv /\ RunInv
  BY Types DEF MigrationInv
<1>2. CASE PrepareLocks
  BY <1>2 DEF PrepareLocks, Aside, At, Go, Fail, logs, files
<1>3. CASE Converge
  BY <1>1, <1>3 DEF Converge, Aside, At, Go, Fail, logs, files, Runs
<1>4. CASE OpenManifest
  BY <1>4 DEF OpenManifest, Aside, At, Go, Fail, logs, files
<1>5. CASE RecoverIncompletePlan
  BY <1>5 DEF RecoverIncompletePlan, Aside, At, Go, Fail, logs, files
<1>6. CASE WriteFrozenPlan
  BY <1>6 DEF WriteFrozenPlan, Aside, At, Go, Fail, logs, files
<1>7. CASE OpenJournal
  BY <1>7 DEF OpenJournal, Aside, At, Go, Fail, logs, files
<1>8. CASE RecordAttempt
  BY <1>8 DEF RecordAttempt, Aside, At, Go, Fail, logs, files
<1>9. CASE FreezeTotals
  BY <1>9 DEF FreezeTotals, Aside, At, Go, Fail, logs, files
<1>10. CASE PersistMedia
  BY <1>1, <1>10 DEF PersistMedia, Aside, At, Go, Fail, logs, files,
     FirstPhase, Runs
<1>11. CASE StartCopying
  BY <1>1, <1>11 DEF StartCopying, Aside, At, Go, Fail, logs, files,
     FirstPhase, Runs
<1>. QED  BY <1>2, <1>3, <1>4, <1>5, <1>6, <1>7, <1>8, <1>9, <1>10, <1>11 DEF
             PlanStep

LEMMA PathStepAside ==
  ASSUME MigrationInv, PathStep, ~SwitchRows
  PROVE  Aside
<1>1. run \in Runs /\ StepInv /\ RunInv
  BY Types DEF MigrationInv
<1>2. CASE StartPaths
  BY <1>2 DEF StartPaths, Aside, At, Go, Fail, logs, files
<1>3. CASE VerifyBatch
  BY <1>3 DEF VerifyBatch, Aside, At, Go, Fail, logs, files, AllVerified
<1>4. CASE RepairCheckpoint
  BY <1>4 DEF RepairCheckpoint, Aside, At, Go, Fail, logs, files
<1>5. CASE MendBatch
  BY <1>5 DEF MendBatch, Aside, At, Go, Fail, logs, files
<1>6. CASE MendStage
  BY <1>6 DEF MendStage, Aside, At, Go, Fail, logs, files
<1>7. CASE MendSync
  BY <1>7 DEF MendSync, Aside, At, Go, Fail, logs, files
<1>8. CASE MendReplace
  BY <1>8 DEF MendReplace, Aside, At, Go, Fail, logs, files
<1>9. CASE MendLog
  BY <1>9 DEF MendLog, Aside, At, Go, Fail, logs, files
<1>10. CASE ResumeBatch
  BY <1>10 DEF ResumeBatch, Aside, At, Go, Fail, logs, files
<1>11. CASE NextBatch
  BY <1>11 DEF NextBatch, Aside, At, Go, Fail, logs, files
<1>12. CASE StageFile
  BY <1>12 DEF StageFile, Aside, At, Go, Fail, logs, files
<1>13. CASE StageFails
  BY <1>13 DEF StageFails, Aside, At, Go, Fail, logs, files
<1>14. CASE SyncFiles
  BY <1>14 DEF SyncFiles, Aside, At, Go, Fail, logs, files
<1>15. CASE PublishFile
  BY <1>15 DEF PublishFile, Aside, At, Go, Fail, logs, files
<1>16. CASE SyncDirectories
  BY <1>16 DEF SyncDirectories, Aside, At, Go, Fail, logs, files
<1>17. CASE AnnounceBatch
  BY <1>17 DEF AnnounceBatch, Aside, At, Go, Fail, logs, files
<1>18. CASE CommitBatch
  BY <1>18 DEF CommitBatch, Aside, At, Go, Fail, logs, files
<1>19. CASE ClosePaths
  BY <1>19 DEF ClosePaths, Aside, At, Go, Fail, logs, files
<1>20. CASE EndPaths
  BY <1>1, <1>20 DEF EndPaths, Aside, At, Go, Fail, logs, files, Runs
<1>. QED  BY <1>2, <1>3, <1>4, <1>5, <1>6, <1>7, <1>8, <1>9, <1>10, <1>11,
             <1>12, <1>13, <1>14, <1>15, <1>16, <1>17, <1>18, <1>19, <1>20
             DEF PathStep

LEMMA RegistryStepAside ==
  ASSUME MigrationInv, RegistryStep, ~RegisterBatch
  PROVE  Aside
<1>1. run \in Runs /\ StepInv /\ RunInv
  BY Types DEF MigrationInv
<1>2. CASE OpenBackfill
  BY <1>2 DEF OpenBackfill, Aside, At, Go, Fail, logs, files
<1>3. CASE RecoverIncompleteBackfill
  BY <1>3 DEF RecoverIncompleteBackfill, Aside, At, Go, Fail, logs, files
<1>4. CASE WriteBackfillPlan
  BY <1>4 DEF WriteBackfillPlan, Aside, At, Go, Fail, logs, files
<1>5. CASE BindBackfill
  BY <1>5 DEF BindBackfill, Aside, At, Go, Fail, logs, files
<1>6. CASE PersistBackfill
  BY <1>1, <1>6 DEF PersistBackfill, Aside, At, Go, Fail, logs, files, Runs
<1>7. CASE StartRegistry
  BY <1>7 DEF StartRegistry, Aside, At, Go, Fail, logs, files
<1>8. CASE WalkBatch
  BY <1>8 DEF WalkBatch, Aside, At, Go, Fail, logs, files, AnnouncedBatch
<1>9. CASE AnnounceRegistry
  BY <1>9 DEF AnnounceRegistry, Aside, At, Go, Fail, logs, files
<1>10. CASE CommitRegistry
  BY <1>10 DEF CommitRegistry, Aside, At, Go, Fail, logs, files
<1>11. CASE CloseRegistry
  BY <1>11 DEF CloseRegistry, Aside, At, Go, Fail, logs, files
<1>12. CASE CompleteRegistry
  BY <1>12 DEF CompleteRegistry, Aside, At, Go, Fail, logs, files
<1>13. CASE RegistryCheckpoint
  BY <1>13 DEF RegistryCheckpoint, Aside, At, Go, Fail, logs, files
<1>14. CASE EndRegistry
  BY <1>1, <1>14 DEF EndRegistry, Aside, At, Go, Fail, logs, files, Runs
<1>. QED  BY <1>2, <1>3, <1>4, <1>5, <1>6, <1>7, <1>8, <1>9, <1>10, <1>11,
             <1>12, <1>13, <1>14 DEF RegistryStep

LEMMA ArchiveStepAside ==
  ASSUME MigrationInv, ArchiveStep, ~RecordItem, ~CompleteState, ~RuntimeCheck
  PROVE  Aside
<1>1. run \in Runs /\ StepInv /\ RunInv
  BY Types DEF MigrationInv
<1>2. CASE PrepareArchive
  BY <1>1, <1>2 DEF PrepareArchive, Aside, At, Go, Fail, logs, files, Runs,
     StepInv, RunInv, Archiving
<1>3. CASE MoveItem
  BY <1>3 DEF MoveItem, Aside, At, Go, Fail, logs, files
<1>4. CASE SyncItem
  BY <1>4 DEF SyncItem, Aside, At, Go, Fail, logs, files
<1>5. CASE CompleteSummary
  BY <1>1, <1>5 DEF CompleteSummary, Aside, At, Go, Fail, logs, files, Runs
<1>. QED  BY <1>2, <1>3, <1>4, <1>5 DEF ArchiveStep

LEMMA InitCutover == Init => Cutover!CutoverInit
<1> SUFFICES ASSUME Init PROVE Cutover!CutoverInit
  OBVIOUS
<1>1. MigrationInv
  BY InitInv
<1>2. asset = {} /\ run.progress = 0 /\ run.phase # "complete" /\ ~Running
  BY DEF Init, NoRun, Running, Validated
<1>. QED  BY <1>2 DEF Cutover!CutoverInit, Running

LEMMA CleanupRemoves ==
  ASSUME MigrationInv, CleanupOrphans
  PROVE  Cutover!RemoveOrphans \/ Unseen
<1>1. CASE row' = row
  BY <1>1 DEF CleanupOrphans, Unseen, Running, Validated, At, Go, Fail, logs, files
<1>2. CASE row' # row
  <2>1. /\ OrphanRows # {} /\ pc = "cleanup" /\ pc' = "cleaned"
        /\ row' = [i \in Images |-> IF i \in OrphanRows THEN "gone" ELSE row[i]]
        /\ asset' = asset /\ run' = run /\ db' = db
    BY <1>2 DEF CleanupOrphans, At, Go, Fail
  <2>2. /\ {i \in Images : row[i] = "old"} \cap Orphans # {}
        /\ {i \in Images : row'[i] = "old"} = {i \in Images : row[i] = "old"} \ Orphans
        /\ {i \in Images : row'[i] = "new"} = {i \in Images : row[i] = "new"}
    BY <2>1, ImagesAssumption DEF OrphanRows
  <2>3. ~NoOld
    BY <2>2 DEF NoOld
  <2>4. asset = {} /\ run.progress = 0 /\ run.phase # "complete" /\ ~Running
    BY <2>1, <2>3, Fields DEF MigrationInv, DoneInv, Running
  <2>5. ~Running'
    BY <2>1, <2>4 DEF Running, Validated
  <2>. QED  BY <2>1, <2>2, <2>4, <2>5 DEF Cutover!RemoveOrphans, Running, Validated
<1>. QED  BY <1>1, <1>2

LEMMA SwitchSwitches ==
  ASSUME MigrationInv, SwitchRows
  PROVE  Cutover!Switch \/ Unseen
<1>1. CASE row' = row
  BY <1>1 DEF SwitchRows, Unseen, Running, Validated, At, Go, Fail, logs, files
<1>2. CASE row' # row
  <2> DEFINE OldRows == {i \in Images : row[i] = "old"}
             b == {i \in mem.batch : row[i] = "old"}
             left == plan.images \ jr.commit["paths"]
  <2>1. /\ PreSigned(mem.batch) /\ pc = "apply" /\ pc' = "commit"
        /\ row' = [i \in Images |-> IF i \in mem.batch THEN "new" ELSE row[i]]
        /\ asset' = asset /\ run' = run /\ db' = db
    BY <1>2 DEF SwitchRows, At, Go, Fail
  <2>2. /\ mem.batch = Batch(left) /\ plan.images = Rows
        /\ \A i \in Orphans : row[i] = "gone"
        /\ \A i \in jr.commit["paths"] : row[i] = "new"
    BY <2>1 DEF MigrationInv, WalkInv, Switching, Walking, LogInv, Batches, PlanInv,
                PathsAgree
  <2>3. mem.batch \in SUBSET Images /\ left \in SUBSET Images
    BY Fields DEF MigrationInv
  <2>4. b # {}
    BY <1>2, <2>1, <2>3, Types DEF PreSigned, MigrationInv
  <2>5. b \in SUBSET OldRows
    BY <2>3
  <2>6. ASSUME NEW i \in b, NEW j \in OldRows \ b  PROVE i < j
    <3>1. j \in left \ mem.batch
      BY <2>2 DEF Rows
    <3>. QED  BY <2>2, <2>3, <3>1, BatchFirst
  <2>7. /\ {i \in Images : row'[i] = "old"} = OldRows \ b
        /\ {i \in Images : row'[i] = "new"} = {i \in Images : row[i] = "new"} \cup b
    BY <2>1, <2>3 DEF PreSigned
  <2>8. ~NoOld
    BY <2>4, <2>5 DEF NoOld
  <2>9. asset = {} /\ run.progress = 0 /\ run.phase # "complete" /\ ~Running
    BY <2>1, <2>8, Fields DEF MigrationInv, DoneInv, Running
  <2>10. ~Running'
    BY <2>1, <2>9 DEF Running, Validated
  <2>11. OldRows \cap Orphans = {}
    BY <2>2
  <2> HIDE DEF b
  <2>. QED  BY <2>1, <2>4, <2>5, <2>6, <2>7, <2>9, <2>10, <2>11
              DEF Cutover!Switch, Running, Validated
<1>. QED  BY <1>1, <1>2

LEMMA RegisterRegisters ==
  ASSUME MigrationInv, RegisterBatch
  PROVE  Cutover!Register \/ Unseen
<1>1. CASE asset' = asset
  BY <1>1 DEF RegisterBatch, Unseen, Running, Validated, At, Go, Fail, logs, files
<1>2. CASE asset' # asset
  <2> DEFINE NewRows == {i \in Images : row[i] = "new"}
             b == Walked \ Skipped
             left == (NewRows \cap (Images \ Skipped)) \ asset
  <2>1. /\ Walked \cap asset = {} /\ pc = "regapply" /\ pc' = "regcommit"
        /\ asset' = asset \cup b /\ row' = row /\ run' = run /\ db' = db
    BY <1>2 DEF RegisterBatch, Unregistered, ToRegister, At, Go, Fail
  <2>2. /\ NoOld /\ backplan.images = Rows /\ mem.todo \subseteq backplan.images
        /\ backplan.images \ mem.todo \subseteq jr.commit["backfill"]
        /\ jr.commit["backfill"] \ Skipped \subseteq asset /\ ~db.marker
    BY <2>1 DEF MigrationInv, DoneInv, RegWalkInv, Registering, PlanInv, RegistryAgrees,
                StepInv, Converging
  <2>3. Rows = NewRows
    BY <2>2, Fields DEF Rows, NoOld, RowStates, MigrationInv
  <2>4. Walked \subseteq mem.todo /\ mem.todo \in SUBSET Images
    BY Fields, BatchWithin DEF Walked, MigrationInv
  <2>5. b \in SUBSET left /\ b # {}
    BY <1>2, <2>1, <2>2, <2>3, <2>4
  <2>6. ASSUME NEW i \in b, NEW j \in left \ b  PROVE i < j
    <3>1. j \in mem.todo \ Batch(mem.todo) /\ i \in Batch(mem.todo)
      BY <2>2, <2>3, <2>4 DEF Walked
    <3>. QED  BY <2>4, <3>1, BatchFirst
  <2>7. ~AllRegistered
    BY <2>5 DEF AllRegistered
  <2>8. run.progress = 0 /\ run.phase # "complete"
    BY <2>7, Fields DEF MigrationInv, DoneInv
  <2>9. ~Running /\ ~Running' /\ {i \in Images : row[i] = "old"} = {}
    BY <2>1, <2>2 DEF Running, Validated, NoOld
  <2>10. row' = row /\ asset' = asset \cup b /\ run' = run
    BY <2>1
  <2> HIDE DEF b
  <2>. QED  BY <2>5, <2>6, <2>8, <2>9, <2>10 DEF Cutover!Register, Running
<1>. QED  BY <1>1, <1>2

LEMMA RecordArchives ==
  ASSUME MigrationInv, RecordItem
  PROVE  Cutover!ArchiveNext
<1>1. /\ run \in Runs /\ M \in Nat /\ run.phase = "archive_intent"
      /\ run.intent = run.progress + 1 /\ run.progress \in 0..M /\ run.intent \in 0..M
      /\ NoOld /\ AllRegistered /\ ~db.marker /\ pc = "record"
  BY Types, Fields, SizesAssumption
  DEF MigrationInv, RecordItem, At, StepInv, Moving, Closed, Converging, RunInv, DoneInv
<1>2. /\ row' = row /\ asset' = asset /\ db' = db /\ pc' # "done"
      /\ run'.progress = run.progress + 1 /\ run'.phase # "complete"
  <2>1. CASE run.intent = M
    BY <1>1, <2>1 DEF RecordItem, Go, Runs
  <2>2. CASE run.intent # M
    BY <1>1, <2>2 DEF RecordItem, Go, Runs
  <2>. QED  BY <2>1, <2>2
<1>3. ~Running /\ ~Running' /\ run.progress < M
  BY <1>1, <1>2 DEF Running, Validated
<1>4. /\ {i \in Images : row[i] = "old"} = {}
      /\ {i \in Images : row[i] = "new"} \cap (Images \ Skipped) \subseteq asset
  BY <1>1 DEF NoOld, AllRegistered
<1>. QED  BY <1>1, <1>2, <1>3, <1>4 DEF Cutover!ArchiveNext, Running

LEMMA CompleteCompletes ==
  ASSUME MigrationInv, CompleteState
  PROVE  Cutover!Complete \/ Unseen
<1>1. /\ run \in Runs /\ run.progress = M /\ NoOld /\ AllRegistered /\ pc = "finish"
  BY Types DEF MigrationInv, CompleteState, At, StepInv, Ending, Closed, DoneInv
<1>2. /\ row' = row /\ asset' = asset /\ db' = db /\ pc' # "done"
      /\ run'.progress = run.progress /\ run'.phase = "complete"
  BY <1>1, PhaseNames DEF CompleteState, Go, Runs
<1>3. Running' <=> Running
  BY <1>1, <1>2 DEF Running, Validated
<1>4. /\ {i \in Images : row[i] = "old"} = {}
      /\ {i \in Images : row[i] = "new"} \cap (Images \ Skipped) \subseteq asset
  BY <1>1 DEF NoOld, AllRegistered
<1>5. ~(run.progress < M)
  BY <1>1, SizesAssumption
<1>6. CASE run.phase = "complete"
  BY <1>2, <1>3, <1>6 DEF Unseen
<1>7. CASE run.phase # "complete"
  BY <1>2, <1>3, <1>4, <1>5, <1>7 DEF Cutover!Complete, Cutover!Evidence, Running
<1>. QED  BY <1>6, <1>7

LEMMA CheckOpens ==
  ASSUME MigrationInv, RuntimeCheck
  PROVE  Cutover!OpenApplication \/ Unseen
<1>1. NoOld /\ run.progress = M /\ pc = "runtime"
  BY DEF MigrationInv, RuntimeCheck, At, DoneInv
<1>2. row' = row /\ asset' = asset /\ run' = run /\ Running'
  BY DEF RuntimeCheck, Go, Running
<1>3. {i \in Images : row[i] = "old"} = {} /\ ~(run.progress < M)
  BY <1>1, SizesAssumption DEF NoOld
<1>4. CASE Running
  BY <1>2, <1>4 DEF Unseen
<1>5. CASE ~Running
  BY <1>2, <1>3, <1>5 DEF Cutover!OpenApplication, Cutover!Evidence, Running
<1>. QED  BY <1>4, <1>5

(* The application stops, or its marker is dropped.                          *)
LEMMA LeavingCloses ==
  ASSUME row' = row, asset' = asset, run'.progress = run.progress,
         run'.phase = "complete" <=> run.phase = "complete", Running' => Running
  PROVE  Cutover!CloseApplication \/ Unseen
<1>1. CASE Running' <=> Running
  BY <1>1 DEF Unseen
<1>2. CASE Running /\ ~Running'
  BY <1>2 DEF Cutover!CloseApplication, Running
<1>. QED  BY <1>1, <1>2

LEMMA MigrateCloses ==
  ASSUME MigrationInv, Migrate
  PROVE  Cutover!CloseApplication \/ Unseen
<1>1. row' = row /\ asset' = asset /\ run' = run
  BY DEF Migrate
<1>2. db \in Dbs
  BY Types DEF MigrationInv
<1>3. ~Running'
  BY <1>2 DEF Migrate, Go, Running, Validated, Dbs
<1>. QED  BY <1>1, <1>3, LeavingCloses

LEMMA MachineCloses ==
  ASSUME MigrationInv, MachineStep
  PROVE  Cutover!CloseApplication \/ Unseen
<1>1. row' = row /\ asset' = asset /\ db' = db /\ (pc' = "done" => pc = "done")
  BY DEF MachineStep, Start, StartWithoutFlag, Stop, PowerLoss, Damage, Go
<1>2. run' = run \/ run' \in RunAfter
  BY DEF MachineStep, Start, StartWithoutFlag, Stop, PowerLoss, Damage
<1>3. run'.progress = run.progress /\ run'.phase = run.phase
  BY <1>2, RunLeft DEF MigrationInv
<1>4. Running' => Running
  BY <1>1 DEF Running, Validated
<1>. QED  BY <1>1, <1>3, <1>4, LeavingCloses

LEMMA NextCutover ==
  MigrationInv /\ [Next]_vars => [Cutover!CutoverNext]_(Cutover!cutover)
<1> SUFFICES ASSUME MigrationInv, [Next]_vars
             PROVE  Cutover!CutoverNext \/ UNCHANGED Cutover!cutover
  OBVIOUS
<1>1. CASE SnapshotStep
  BY <1>1, SnapshotStepAside, AsideUnseen, UnseenStutters, CleanupRemoves
  DEF Cutover!CutoverNext
<1>2. CASE PlanStep
  BY <1>2, PlanStepAside, AsideUnseen, UnseenStutters, MigrateCloses
  DEF Cutover!CutoverNext
<1>3. CASE PathStep
  BY <1>3, PathStepAside, AsideUnseen, UnseenStutters, SwitchSwitches
  DEF Cutover!CutoverNext
<1>4. CASE RegistryStep
  BY <1>4, RegistryStepAside, AsideUnseen, UnseenStutters, RegisterRegisters
  DEF Cutover!CutoverNext
<1>5. CASE ArchiveStep
  BY <1>5, ArchiveStepAside, AsideUnseen, UnseenStutters, RecordArchives,
     CompleteCompletes, CheckOpens
  DEF Cutover!CutoverNext
<1>6. CASE MachineStep
  BY <1>6, MachineCloses, UnseenStutters DEF Cutover!CutoverNext
<1>7. CASE UNCHANGED vars
  <2>1. Unseen
    BY <1>7 DEF vars, Unseen, Running, Validated
  <2>. QED  BY <2>1, UnseenStutters
<1>. QED  BY <1>1, <1>2, <1>3, <1>4, <1>5, <1>6, <1>7 DEF Next, WorkerStep

(* The migration keeps the promises of MediaCutover wherever it is stopped:  *)
(* rows are switched in key order once and for all, images are registered    *)
(* when no row holds an old path any more, old directories leave their place *)
(* when all is registered, and until then the application does not run       *)
(* (_converge_after_schema).                                                 *)
THEOREM MigrationIsCutover == Spec => ImplementsMediaCutover
<1>. QED  BY InitInv, NextInv, InitCutover, NextCutover, PTL
           DEF Spec, ImplementsMediaCutover, Cutover!CutoverSpec

=============================================================================
