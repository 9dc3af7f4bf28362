----------------------- MODULE ExportSnapshot_proofs -----------------------
(* Theorems of ExportSnapshot, for every number of pins, images, events and  *)
(* resumptions: what is safe about the snapshot of an export, its rows and   *)
(* its directory.                                                            *)
EXTENDS ExportSnapshot, WellFoundedInduction, TLAPS

-----------------------------------------------------------------------------
(* Types. *)

BlobStates == {"none", "new", "writing", "closed"}
Stagings == {"pending", "cleaned", "blocked"}
Jobs == [state: JobStates, error: Errors, lease: {"none", "held"},
         resume: 0..MaxResumes, cand: Gens \cup {NoGen}, receipt: BOOLEAN,
         snap: Gens \cup {NoGen}, staging: Stagings]
Files == [Gens -> [Assets -> {"none", "part", "final"}]]
Procs == [pc: ProgramCounters, reuse: BOOLEAN, error: Errors]

LEMMA Types ==
    TypeOK <=>
        /\ job \in Jobs /\ blob \in [Assets -> BlobStates] /\ cleaned \subseteq Assets
        /\ item \in [Pins -> {"none", "included", "excluded"}]
        /\ dirs \subseteq Gens /\ file \in Files
        /\ pin \in [Pins -> {"eligible", "hidden", "deleted"}]
        /\ source \subseteq Assets /\ owner \in BOOLEAN
        /\ proc \in Procs /\ events \in Gens
  BY DEF TypeOK, Jobs, BlobStates, Stagings, Files, Procs, Gens

LEMMA TypesNext ==
    TypeOK' <=>
        /\ job' \in Jobs /\ blob' \in [Assets -> BlobStates] /\ cleaned' \subseteq Assets
        /\ item' \in [Pins -> {"none", "included", "excluded"}]
        /\ dirs' \subseteq Gens /\ file' \in Files
        /\ pin' \in [Pins -> {"eligible", "hidden", "deleted"}]
        /\ source' \subseteq Assets /\ owner' \in BOOLEAN
        /\ proc' \in Procs /\ events' \in Gens
  BY DEF TypeOK, Jobs, BlobStates, Stagings, Files, Procs, Gens

-----------------------------------------------------------------------------
(* The invariant. *)

Copying == {"renew", "start", "record_open", "copy", "rename", "record_closed",
            "progress", "finalize"}
Made == {"record_directory", "metadata"} \cup Copying
InCapture == GatePoints \cup CleanupPoints \cup {"budget", "loop"}
InArchive == {"archive", "built", "excluded"}

(* Where the worker is, against the state of the job.                        *)
StageInv ==
    /\ proc.pc \in InCapture => job.state = "snapshotting"
    /\ proc.pc \in InArchive => job.state = "archiving"
    /\ proc.pc = "failing" => job.state \in {"snapshotting", "archiving"}
    /\ proc.pc \in {"row", "directory_row"} => job.state = "failed"
    /\ job.state = "snapshotting" => job.snap = NoGen /\ cleaned = {}
    /\ job.state \in {"archiving", "complete"} => job.cand = NoGen
    /\ job.cand # NoGen => job.snap = NoGen
    /\ job.cand # NoGen \/ job.snap # NoGen => job.staging # "cleaned"

(* The generation under way, its directory and its rows.                     *)
NoRows == \A a \in Assets : blob[a] = "none"
CandidateInv ==
    /\ proc.pc \in {"mkdir", "clean", "rmdir", "cleaned"} => job.cand # NoGen
    /\ proc.pc \in Made => job.cand \in dirs
    /\ proc.pc = "cleaned" => job.cand \notin dirs
    /\ proc.pc = "rmdir" => \A a \in Assets : file[job.cand][a] = "none"
    /\ job.state = "snapshotting" /\ job.cand = NoGen => NoRows
    /\ proc.pc \in {"mkdir", "record_directory", "metadata"} => NoRows

(* The end of a job, file by file.                                           *)
EndInv ==
    /\ job.state = "complete" /\ job.snap = NoGen => Uncleaned = {}
    /\ proc.pc = "row" => /\ Generation # NoGen /\ Uncleaned # {}
                          /\ FileOf(Least(Uncleaned)) = "none"
    /\ proc.pc = "directory_row" => dirs = {}

(* The blob being copied, and those that are done.                           *)
CopyInv ==
    /\ proc.pc \in {"record_open", "copy", "rename", "record_closed"} => Left # {}
    /\ proc.pc = "record_open" => file[job.cand][Current] = "part"
    /\ proc.pc \in {"copy", "rename", "record_closed"} => blob[Current] = "writing"
    /\ proc.pc = "record_closed" => file[job.cand][Current] = "final"
    /\ proc.pc = "finalize" => Left = {}
    /\ proc.pc \in Copying =>
          /\ \A p \in Included : HasRow(AssetOf[p])
          /\ \A a \in Assets : HasRow(a) => a \in source
          /\ \A a \in Assets : blob[a] = "closed" => file[job.cand][a] = "final"

(* A file of the candidate is one its receipts account for.                  *)
ReceiptInv ==
    job.state = "snapshotting" =>
        \A g \in Gens, a \in Assets :
            /\ file[g][a] = "part" => blob[a] \in {"new", "writing"}
            /\ file[g][a] = "final" => blob[a] \in {"writing", "closed"}

(* Why an error is raised, and what stays true of its reason.                *)
CauseOf(error) ==
    /\ error = "source_missing" => \E p \in Owned : pin[p] = "deleted"
    /\ error = "permission_changed" => ~owner
    /\ error = "export_storage_unsafe" => dirs = {} /\ Left = {}
CauseInv ==
    /\ CauseOf(job.error) /\ CauseOf(proc.error)
    /\ proc.error # "none" => proc.pc = "failing"
    /\ job.error # "none" => job.state = "failed"
    /\ \A p \in Pins : AssetOf[p] \notin source => pin[p] = "deleted"

SnapInv ==
    /\ TypeOK /\ StageInv /\ NothingForgotten /\ CandidateInv /\ EndInv
    /\ CopyInv /\ ReceiptInv /\ SnapshotWhole /\ CauseInv

-----------------------------------------------------------------------------
(* What the assignments of the actions do. *)

(* A set of assets that is not empty has a least one.                        *)
Below == {p \in Nat \X Nat : p[1] < p[2]}

LEMMA LeastIn ==
  ASSUME NEW S \in SUBSET Assets, S # {}
  PROVE  Least(S) \in S
<1>1. Below = OpToRel(<, Nat)
  BY DEF OpToRel, Below
<1>2. IsWellFoundedOn(OpToRel(<, Nat), Nat)
  BY NatLessThanWellFounded
<1>3. IsWellFoundedOn(Below, Nat) /\ S \subseteq Nat
  BY <1>1, <1>2, SnapshotAssumption
<1>4. PICK x \in S : \A y \in S : ~(<<y, x>> \in Below)
  BY <1>3, WFMin
<1>5. \A y \in S : x <= y
  <2> TAKE y \in S
  <2>1. x \in Nat /\ y \in Nat /\ <<y, x>> \notin Below
    BY <1>3, <1>4
  <2>2. ~(y < x)
    BY <2>1 DEF Below
  <2>. QED  BY <2>1, <2>2
<1>. QED  BY <1>5 DEF Least

JobBecomes(state, cand, snap, staging, error) ==
    /\ job' \in Jobs /\ job'.state = state /\ job'.cand = cand
    /\ job'.snap = snap /\ job'.staging = staging /\ job'.error = error
SameJob == JobBecomes(job.state, job.cand, job.snap, job.staging, job.error)
ProcBecomes(pc, error) ==
    proc' \in Procs /\ proc'.pc = pc /\ proc'.error = error
SameRows == UNCHANGED <<blob, cleaned, item>>

(* What the type invariant says of the fields.                               *)
LEMMA Fields ==
  ASSUME SnapInv
  PROVE  /\ job \in Jobs /\ blob \in [Assets -> BlobStates] /\ cleaned \subseteq Assets
         /\ item \in [Pins -> {"none", "included", "excluded"}]
         /\ dirs \subseteq Gens /\ file \in Files
         /\ pin \in [Pins -> {"eligible", "hidden", "deleted"}]
         /\ source \subseteq Assets /\ owner \in BOOLEAN
         /\ proc \in Procs /\ events \in Gens
         /\ job.state \in JobStates /\ job.error \in Errors
         /\ job.cand \in Gens \cup {NoGen} /\ job.snap \in Gens \cup {NoGen}
         /\ job.staging \in Stagings /\ NoGen \notin Gens
         /\ proc.pc \in ProgramCounters /\ proc.error \in Errors
<1>1. /\ job \in Jobs /\ proc \in Procs
  BY Types DEF SnapInv
<1>2. /\ job.state \in JobStates /\ job.error \in Errors
      /\ job.cand \in Gens \cup {NoGen} /\ job.snap \in Gens \cup {NoGen}
      /\ job.staging \in Stagings
      /\ proc.pc \in ProgramCounters /\ proc.error \in Errors
  BY <1>1 DEF Jobs, Procs
<1>3. NoGen \notin Gens
  BY SnapshotAssumption DEF NoGen, Gens
<1>. QED  BY <1>2, <1>3, Types DEF SnapInv

LEMMA GotoEffect ==
  ASSUME proc \in Procs, NEW pc \in ProgramCounters, Goto(pc)
  PROVE  ProcBecomes(pc, proc.error)
  BY DEF Procs, Goto, ProcBecomes

LEMMA RaiseEffect ==
  ASSUME proc \in Procs, NEW error \in Errors, Raise(error)
  PROVE  ProcBecomes("failing", error)
  BY DEF Procs, Raise, ProcBecomes, ProgramCounters

LEMMA IdleEffect ==
  ASSUME proc' = Idle
  PROVE  ProcBecomes("idle", "none")
  BY DEF Idle, ProcBecomes, Procs, ProgramCounters, Errors

LEMMA SameJobEffect ==
  ASSUME job \in Jobs, UNCHANGED job
  PROVE  SameJob
  BY DEF SameJob, JobBecomes

LEMMA FailedEffect ==
  ASSUME job \in Jobs, NEW error \in Errors, job' = Failed(error)
  PROVE  JobBecomes("failed", job.cand, job.snap, "pending", error)
  BY DEF Jobs, Failed, JobBecomes, JobStates, Stagings

LEMMA WriteEffect ==
  ASSUME file \in Files, Generation \in Gens, NEW a \in Assets,
         NEW f \in {"none", "part", "final"}, Write(a, f)
  PROVE  /\ file' \in Files
         /\ \A g \in Gens, b \in Assets :
              file'[g][b] = IF g = Generation /\ b = a THEN f ELSE file[g][b]
  BY DEF Write, Files

(* Before it raises or begins anything, a step to a point of the worker where*)
(* nothing is under way keeps the invariant.                                 *)
MayGo(pc, error) ==
    \/ pc = "idle" /\ error = "none"
    \/ /\ pc \in {"budget", "loop", "plan", "intent"} /\ error = "none"
       /\ job.state = "snapshotting"
    \/ pc \in InArchive /\ error = "none" /\ job.state = "archiving"
    \/ /\ pc = "failing" /\ job.state \in {"snapshotting", "archiving"}
       /\ error # "none" /\ CauseOf(error)

LEMMA FreeStep ==
  ASSUME SnapInv, SameJob, SameRows, UNCHANGED disk, UNCHANGED world,
         events' \in Gens, NEW pc, NEW error, ProcBecomes(pc, error),
         MayGo(pc, error)
  PROVE  SnapInv'
<1>1. /\ job'.state = job.state /\ job'.cand = job.cand /\ job'.snap = job.snap
      /\ job'.staging = job.staging /\ job'.error = job.error
      /\ blob' = blob /\ cleaned' = cleaned /\ item' = item /\ dirs' = dirs
      /\ file' = file /\ pin' = pin /\ source' = source /\ owner' = owner
      /\ proc'.pc = pc /\ proc'.error = error
  BY DEF SameJob, JobBecomes, SameRows, disk, world, ProcBecomes
<1>2. TypeOK'
  BY <1>1, Types, TypesNext DEF SnapInv, SameJob, JobBecomes, ProcBecomes
<1>3. /\ pc \in {"idle", "budget", "loop", "plan", "intent", "failing"} \cup InArchive
      /\ pc \in {"budget", "loop", "plan", "intent"} => job.state = "snapshotting"
      /\ pc \in InArchive => job.state = "archiving"
      /\ pc = "failing" => job.state \in {"snapshotting", "archiving"}
      /\ error # "none" => pc = "failing" /\ CauseOf(error)
      /\ CauseOf("none")
  BY DEF MayGo, InArchive, CauseOf
<1>4. StageInv'
  BY <1>1, <1>3
  DEF SnapInv, StageInv, InCapture, GatePoints, CleanupPoints, InArchive
<1>5. NothingForgotten'
  BY <1>1, <1>3
  DEF SnapInv, NothingForgotten, HasRow, StageInv, InArchive
<1>6. CandidateInv'
  BY <1>1, <1>3
  DEF SnapInv, CandidateInv, Made, Copying, NoRows, InArchive
<1>7. EndInv'
  BY <1>1, <1>3
  DEF SnapInv, EndInv, Uncleaned, HasRow, Generation, FileOf, InArchive
<1>8. CopyInv'
  BY <1>1, <1>3
  DEF SnapInv, CopyInv, Copying, Left, Current, Included, HasRow, InArchive
<1>9. ReceiptInv'
  BY <1>1, <1>3
  DEF SnapInv, ReceiptInv, InArchive
<1>10. SnapshotWhole'
  BY <1>1, <1>3
  DEF SnapInv, SnapshotWhole, Included, InArchive
<1>11. CauseInv'
  BY <1>1, <1>3
  DEF SnapInv, CauseInv, CauseOf, Left, InArchive
<1>. QED  BY <1>2, <1>4, <1>5, <1>6, <1>7, <1>8, <1>9, <1>10, <1>11 DEF SnapInv

-----------------------------------------------------------------------------
(* The world. *)

(* The world changes in one direction: what is deleted stays deleted, and    *)
(* the media gate keeps the sources of the copies.                           *)
LEMMA WorldStep ==
  ASSUME SnapInv, UNCHANGED rows, UNCHANGED disk, UNCHANGED proc,
         events' \in Gens, owner' \in BOOLEAN, ~owner => ~owner',
         pin' \in [Pins -> {"eligible", "hidden", "deleted"}],
         \A p \in Pins : pin[p] = "deleted" => pin'[p] = "deleted",
         source' \subseteq Assets, proc.pc \in Copying => source' = source,
         \A p \in Pins : AssetOf[p] \notin source' => pin'[p] = "deleted"
  PROVE  SnapInv'
<1>1. /\ job' = job /\ blob' = blob /\ cleaned' = cleaned /\ item' = item
      /\ dirs' = dirs /\ file' = file /\ proc' = proc
  BY DEF rows, disk
<1>2. TypeOK'
  BY <1>1, Types, TypesNext DEF SnapInv
<1>3. StageInv'
  BY <1>1
  DEF SnapInv, StageInv, InCapture, GatePoints, CleanupPoints, InArchive
<1>4. NothingForgotten'
  BY <1>1
  DEF SnapInv, NothingForgotten, HasRow, StageInv
<1>5. CandidateInv'
  BY <1>1
  DEF SnapInv, CandidateInv, Made, Copying, NoRows
<1>6. EndInv'
  BY <1>1
  DEF SnapInv, EndInv, Uncleaned, HasRow, Generation, FileOf
<1>7. CopyInv'
  BY <1>1
  DEF SnapInv, CopyInv, Copying, Left, Current, Included, HasRow
<1>8. ReceiptInv'
  BY <1>1
  DEF SnapInv, ReceiptInv
<1>9. SnapshotWhole'
  BY <1>1
  DEF SnapInv, SnapshotWhole, Included
<1>10. CauseInv'
  BY <1>1, SnapshotAssumption
  DEF SnapInv, CauseInv, CauseOf, Left
<1>. QED  BY <1>2, <1>3, <1>4, <1>5, <1>6, <1>7, <1>8, <1>9, <1>10 DEF SnapInv

LEMMA EventEffect ==
  ASSUME SnapInv, NEW kind, Event(kind)
  PROVE  events' \in Gens
  BY Fields, SnapshotAssumption DEF Event, Gens

LEMMA HideKeeps == ASSUME SnapInv, NEW p \in Pins, Hide(p)  PROVE SnapInv'
<1>1. /\ pin' \in [Pins -> {"eligible", "hidden", "deleted"}]
      /\ \A q \in Pins : pin[q] = "deleted" <=> pin'[q] = "deleted"
  BY Fields DEF Hide
<1>2. events' \in Gens
  BY EventEffect DEF Hide
<1>. QED  BY <1>1, <1>2, WorldStep, Fields DEF Hide, SnapInv, CauseInv

LEMMA DeletePinKeeps == ASSUME SnapInv, NEW p \in Pins, DeletePin(p)  PROVE SnapInv'
<1>1. /\ pin' \in [Pins -> {"eligible", "hidden", "deleted"}]
      /\ \A q \in Pins : pin[q] = "deleted" => pin'[q] = "deleted"
  BY Fields DEF DeletePin
<1>2. events' \in Gens
  BY EventEffect DEF DeletePin
<1>. QED  BY <1>1, <1>2, WorldStep, Fields DEF DeletePin, SnapInv, CauseInv

LEMMA DeleteAccountKeeps == SnapInv /\ DeleteAccount => SnapInv'
<1> SUFFICES ASSUME SnapInv, DeleteAccount  PROVE SnapInv'
  OBVIOUS
<1>1. /\ pin' \in [Pins -> {"eligible", "hidden", "deleted"}]
      /\ \A q \in Pins : pin[q] = "deleted" => pin'[q] = "deleted"
  BY Fields DEF DeleteAccount
<1>2. events' \in Gens
  BY EventEffect DEF DeleteAccount
<1>. QED  BY <1>1, <1>2, WorldStep, Fields DEF DeleteAccount, SnapInv, CauseInv

LEMMA UnlinkSourceKeeps ==
  ASSUME SnapInv, NEW a \in Assets, UnlinkSource(a)
  PROVE  SnapInv'
<1>1. /\ source' \subseteq Assets /\ proc.pc \notin Copying
      /\ \A p \in Pins : AssetOf[p] \notin source' => pin[p] = "deleted"
  BY Fields DEF UnlinkSource, GateHeld, GatePoints, Copying, SnapInv, CauseInv
<1>. QED  BY <1>1, WorldStep, Fields DEF UnlinkSource

-----------------------------------------------------------------------------
(* Claims, and the end of the process. *)

LEMMA ClaimKeeps == SnapInv /\ Claim => SnapInv'
<1> SUFFICES ASSUME SnapInv, Claim  PROVE SnapInv'
  OBVIOUS
<1>1. /\ job' \in Jobs /\ job'.state = job.state /\ job'.cand = job.cand
      /\ job'.snap = job.snap /\ job'.staging = job.staging /\ job'.error = job.error
  <2>1. Resumed \in 0..MaxResumes
    <3>1. job.resume \in 0..MaxResumes
      BY Fields DEF Jobs
    <3>. QED  BY <3>1, SnapshotAssumption DEF Claim, MayResume, Resumed
  <2>2. job \in Jobs /\ job' = [job EXCEPT !.lease = "held", !.resume = Resumed]
    BY Fields DEF Claim
  <2>. QED  BY <2>1, <2>2 DEF Jobs
<1>2. /\ proc.error = "none" /\ proc \in Procs
      /\ job.state = "snapshotting" => job.snap = NoGen
      /\ job.state \in {"snapshotting", "archiving"}
  BY Fields DEF SnapInv, CauseInv, StageInv, Claim, At, Active
<1>3. CASE job.snap = NoGen /\ Goto("budget") /\ job.state = "snapshotting"
  <2>1. ProcBecomes("budget", "none")
    BY <1>2, <1>3, GotoEffect DEF ProgramCounters
  <2>. QED
    BY <1>1, <1>3, <2>1, FreeStep, Fields
    DEF MayGo, SameJob, JobBecomes, SameRows, Claim, Quiet
<1>4. CASE \E pc \in {"archive", "excluded"} : Goto(pc) /\ job.state = "archiving"
  <2>1. PICK pc \in {"archive", "excluded"} : Goto(pc) /\ job.state = "archiving"
    BY <1>4
  <2>2. ProcBecomes(pc, "none") /\ pc \in InArchive
    BY <1>2, <2>1, GotoEffect DEF ProgramCounters, InArchive
  <2>. QED
    BY <1>1, <2>1, <2>2, FreeStep, Fields
    DEF MayGo, SameJob, JobBecomes, SameRows, Claim, Quiet
<1>5. job.snap = NoGen => job.state = "snapshotting"
  BY Fields DEF SnapInv, SnapshotWhole, Claim, Active
<1>6. job.snap # NoGen => job.state = "archiving"
  BY <1>2
<1>. QED  BY <1>3, <1>4, <1>5, <1>6 DEF Claim

LEMMA InterruptKeeps == SnapInv /\ Interrupt => SnapInv'
<1> SUFFICES ASSUME SnapInv, Interrupt  PROVE SnapInv'
  OBVIOUS
<1>1. SameJob
  BY Fields DEF Interrupt, SameJob, JobBecomes, Jobs
<1>2. ProcBecomes("idle", "none")
  BY IdleEffect DEF Interrupt
<1>3. events' \in Gens
  BY EventEffect DEF Interrupt
<1>. QED  BY <1>1, <1>2, <1>3, FreeStep DEF Interrupt, SameRows, MayGo

LEMMA StorageFaultKeeps == SnapInv /\ StorageFault => SnapInv'
<1> SUFFICES ASSUME SnapInv, StorageFault  PROVE SnapInv'
  OBVIOUS
<1>1. ProcBecomes("failing", "insufficient_space")
  BY Fields, RaiseEffect DEF StorageFault, Errors
<1>2. job.state \in {"snapshotting", "archiving"}
  BY DEF StorageFault, StoragePoints, SnapInv, StageInv, InCapture, GatePoints, InArchive
<1>3. events' \in Gens
  BY EventEffect DEF StorageFault
<1>. QED
  BY <1>1, <1>2, <1>3, FreeStep, SameJobEffect, Fields
  DEF StorageFault, SameRows, rows, MayGo, CauseOf

LEMMA BudgetKeeps == SnapInv /\ Budget => SnapInv'
<1> SUFFICES ASSUME SnapInv, Budget  PROVE SnapInv'
  OBVIOUS
<1>1. job.state = "snapshotting" /\ proc.error = "none" /\ SameJob /\ events' \in Gens
  BY Fields, SameJobEffect
  DEF Budget, At, SnapInv, StageInv, CauseInv, InCapture, rows, Quiet
<1>2. CASE owner /\ Goto("loop")
  <2>1. ProcBecomes("loop", "none")
    BY <1>1, <1>2, Fields, GotoEffect DEF ProgramCounters
  <2>. QED  BY <1>1, <2>1, FreeStep DEF Budget, SameRows, rows, Quiet, MayGo
<1>3. CASE ~owner /\ Raise("permission_changed")
  <2>1. ProcBecomes("failing", "permission_changed")
    BY <1>3, Fields, RaiseEffect DEF Errors
  <2>. QED
    BY <1>1, <1>3, <2>1, FreeStep DEF Budget, SameRows, rows, Quiet, MayGo, CauseOf
<1>. QED  BY <1>2, <1>3 DEF Budget

LEMMA LoopKeeps == SnapInv /\ Loop => SnapInv'
<1> SUFFICES ASSUME SnapInv, Loop  PROVE SnapInv'
  OBVIOUS
<1>1. job.state = "snapshotting" /\ proc.error = "none" /\ SameJob /\ events' \in Gens
  BY Fields, SameJobEffect
  DEF Loop, At, SnapInv, StageInv, CauseInv, InCapture, rows, Quiet
<1>2. ProcBecomes("intent", "none") \/ ProcBecomes("plan", "none")
  BY <1>1, Fields, GotoEffect
  DEF Loop, ProgramCounters, GatePoints, CleanupPoints
<1>. QED  BY <1>1, <1>2, FreeStep DEF Loop, SameRows, rows, Quiet, MayGo

LEMMA CaptureBusyKeeps == SnapInv /\ CaptureBusy => SnapInv'
<1> SUFFICES ASSUME SnapInv, CaptureBusy  PROVE SnapInv'
  OBVIOUS
<1>1. proc.pc \in GatePoints
  BY DEF CaptureBusy, LeasePoints, At, GatePoints
<1>2. job.state = "snapshotting" /\ proc.error = "none" /\ SameJob /\ events' \in Gens
  BY <1>1, Fields, SameJobEffect, EventEffect
  DEF CaptureBusy, SnapInv, StageInv, CauseInv, InCapture, GatePoints, rows
<1>3. ProcBecomes("intent", "none") \/ ProcBecomes("loop", "none")
  <2>1. proc \in Procs /\ "intent" \in ProgramCounters /\ "loop" \in ProgramCounters
    BY Fields DEF ProgramCounters, CleanupPoints
  <2>2. ASSUME proc' = [proc EXCEPT !.pc = "loop", !.reuse = TRUE]
        PROVE  ProcBecomes("loop", "none")
    BY <1>2, <2>1, <2>2 DEF Procs, ProcBecomes
  <2>3. ASSUME Goto("intent")  PROVE ProcBecomes("intent", "none")
    BY <1>2, <2>1, <2>3, GotoEffect
  <2>. QED  BY <2>2, <2>3 DEF CaptureBusy
<1>. QED  BY <1>2, <1>3, FreeStep DEF CaptureBusy, SameRows, rows, MayGo

LEMMA CleanupBusyKeeps == SnapInv /\ CleanupBusy => SnapInv'
<1> SUFFICES ASSUME SnapInv, CleanupBusy  PROVE SnapInv'
  OBVIOUS
<1>1. job.state = "snapshotting" /\ proc.error = "none" /\ SameJob /\ events' \in Gens
  BY Fields, SameJobEffect, EventEffect
  DEF CleanupBusy, SnapInv, StageInv, CauseInv, InCapture, CleanupPoints, rows
<1>2. ProcBecomes("loop", "none")
  BY <1>1, Fields, GotoEffect DEF CleanupBusy, ProgramCounters
<1>. QED  BY <1>1, <1>2, FreeStep DEF CleanupBusy, SameRows, rows, MayGo

-----------------------------------------------------------------------------
(* Capture. *)

(* At a point of capture, but in a cleanup.                                  *)
LEMMA AtGate ==
  ASSUME SnapInv, proc.pc \in GatePoints \cup CleanupPoints
  PROVE  /\ job.state = "snapshotting" /\ job.snap = NoGen /\ cleaned = {}
         /\ proc.error = "none" /\ job.error = "none"
         /\ job.cand # NoGen => /\ job.cand \in Gens /\ Generation = job.cand
                               /\ job.staging # "cleaned" /\ dirs \subseteq {job.cand}
         /\ job.cand = NoGen => dirs = {} /\ NoRows
  BY Fields
  DEF SnapInv, StageInv, CauseInv, CandidateInv, NothingForgotten, InCapture,
      GatePoints, CleanupPoints, Generation

LEMMA PlanKeeps == SnapInv /\ Plan => SnapInv'
<1> SUFFICES ASSUME SnapInv, Plan  PROVE SnapInv'
  OBVIOUS
<1>1. /\ proc.pc = "plan" /\ job \in Jobs /\ proc \in Procs /\ events \in Gens
      /\ job.state = "snapshotting" /\ job.snap = NoGen /\ cleaned = {}
      /\ proc.error = "none" /\ job.error = "none"
      /\ "mkdir" \in ProgramCounters /\ "metadata" \in ProgramCounters
      /\ "intent" \in ProgramCounters
  BY Fields, AtGate DEF Plan, At, GatePoints, CleanupPoints, ProgramCounters
<1>2. /\ blob' = blob /\ cleaned' = cleaned /\ item' = item /\ dirs' = dirs
      /\ file' = file /\ pin' = pin /\ source' = source /\ owner' = owner
      /\ events' = events /\ SameRows /\ UNCHANGED disk /\ UNCHANGED world
  BY DEF Plan, disk, Quiet, world, SameRows
<1>3. CASE ~owner /\ Raise("permission_changed") /\ UNCHANGED job
  <2>1. ProcBecomes("failing", "permission_changed") /\ SameJob
    BY <1>1, <1>3, RaiseEffect, SameJobEffect DEF Errors
  <2>. QED  BY <1>1, <1>2, <1>3, <2>1, FreeStep DEF MayGo, CauseOf
<1>4. CASE Goto("intent") /\ UNCHANGED job
  <2>1. ProcBecomes("intent", "none") /\ SameJob
    BY <1>1, <1>4, GotoEffect, SameJobEffect
  <2>. QED  BY <1>1, <1>2, <2>1, FreeStep DEF MayGo
<1>5. CASE /\ job.cand # NoGen /\ job.receipt /\ \A a \in Assets : ~HasRow(a)
           /\ ~Exists(job.cand) /\ Raise("export_storage_unsafe") /\ UNCHANGED job
  <2>1. ProcBecomes("failing", "export_storage_unsafe") /\ SameJob
    BY <1>1, <1>5, RaiseEffect, SameJobEffect DEF Errors
  <2>2. dirs = {} /\ Left = {}
    BY <1>1, <1>5, AtGate DEF Left, HasRow, Exists, GatePoints
  <2>. QED  BY <1>1, <1>2, <2>1, <2>2, FreeStep DEF MayGo, CauseOf
<1>6. CASE /\ job.cand # NoGen /\ Exists(job.cand)
           /\ \A a \in Assets : ~HasRow(a)
           /\ Goto("metadata") /\ UNCHANGED job
  <2>1. ProcBecomes("metadata", "none")
    BY <1>1, <1>6, GotoEffect
  <2>2. proc' \in Procs /\ proc'.pc = "metadata" /\ proc'.error = "none" /\ job' = job
    BY <1>6, <2>1 DEF ProcBecomes
  <2>3. TypeOK'
    BY <1>2, <2>2, Types, TypesNext DEF SnapInv
  <2>4. CandidateInv'
    <3>1. NoRows
      BY <1>6 DEF NoRows, HasRow
    <3>2. NoRows'
      BY <1>2, <3>1 DEF NoRows
    <3>3. job.cand \in dirs
      BY <1>6 DEF Exists
    <3>4. job'.cand \in dirs'
      BY <1>2, <2>2, <3>3
    <3>. QED  BY <1>1, <1>6, <2>2, <3>2, <3>4 DEF CandidateInv
  <2>5. StageInv' /\ NothingForgotten' /\ EndInv'
    BY <1>1, <1>2, <2>2
    DEF SnapInv, StageInv, NothingForgotten, EndInv, InCapture, GatePoints,
        InArchive, HasRow, Uncleaned, Generation, FileOf
  <2>6. CopyInv' /\ ReceiptInv' /\ SnapshotWhole' /\ CauseInv'
    BY <1>1, <1>2, <2>2
    DEF SnapInv, CopyInv, ReceiptInv, SnapshotWhole, CauseInv, CauseOf, Copying,
        Included, Left
  <2>. QED  BY <2>3, <2>4, <2>5, <2>6 DEF SnapInv
<1>7. CASE /\ job.cand = NoGen /\ Goto("mkdir")
           /\ job' = [job EXCEPT !.cand = events, !.staging = "pending"]
  <2>1. ProcBecomes("mkdir", "none")
    BY <1>1, <1>7, GotoEffect
  <2>2. JobBecomes("snapshotting", events, NoGen, "pending", "none")
    BY <1>1, <1>7 DEF Jobs, JobBecomes, Stagings
  <2>3. /\ proc' \in Procs /\ proc'.pc = "mkdir" /\ proc'.error = "none"
        /\ job' \in Jobs /\ job'.state = "snapshotting" /\ job'.cand = events
        /\ job'.snap = NoGen /\ job'.staging = "pending" /\ job'.error = "none"
    BY <2>1, <2>2 DEF ProcBecomes, JobBecomes
  <2>4. dirs = {} /\ NoRows /\ events # NoGen
    BY <1>1, <1>7, AtGate, Fields DEF GatePoints
  <2>5. TypeOK'
    BY <1>2, <2>3, Types, TypesNext DEF SnapInv
  <2>6. StageInv' /\ NothingForgotten' /\ CandidateInv' /\ EndInv'
    BY <1>1, <1>2, <2>3, <2>4
    DEF SnapInv, StageInv, NothingForgotten, CandidateInv, EndInv, InCapture,
        GatePoints, InArchive, HasRow, Made, Copying, NoRows
  <2>7. CopyInv' /\ ReceiptInv' /\ SnapshotWhole' /\ CauseInv'
    BY <1>1, <1>2, <2>3
    DEF SnapInv, CopyInv, ReceiptInv, SnapshotWhole, CauseInv, CauseOf, Copying,
        Included, Left
  <2>. QED  BY <2>5, <2>6, <2>7 DEF SnapInv
<1>. QED  BY <1>3, <1>4, <1>5, <1>6, <1>7 DEF Plan

LEMMA MakeDirectoryKeeps == SnapInv /\ MakeDirectory => SnapInv'
<1> SUFFICES ASSUME SnapInv, MakeDirectory  PROVE SnapInv'
  OBVIOUS
<1>1. /\ proc.pc = "mkdir" /\ job.state = "snapshotting" /\ job.snap = NoGen
      /\ cleaned = {} /\ proc.error = "none" /\ job.error = "none"
      /\ job.cand # NoGen /\ job.cand \in Gens /\ Generation = job.cand
      /\ job.staging # "cleaned" /\ dirs \subseteq {job.cand}
  BY Fields, AtGate
  DEF MakeDirectory, At, GatePoints, SnapInv, CandidateInv
<1>2. proc' \in Procs /\ proc'.pc = "record_directory" /\ proc'.error = "none"
  BY <1>1, Fields, GotoEffect DEF MakeDirectory, ProgramCounters, GatePoints, ProcBecomes
<1>3. UNCHANGED <<job, blob, cleaned, item, file, pin, source, owner, events>>
  BY DEF MakeDirectory, rows, disk, Quiet, world
<1>4. dirs' = dirs \cup {job.cand}
  BY DEF MakeDirectory
<1>5. TypeOK'
  BY Types, TypesNext, <1>1, <1>2, <1>3, <1>4
  DEF SnapInv
<1>6. StageInv'
  BY <1>1, <1>2, <1>3, <1>4
  DEF SnapInv, StageInv, InCapture, GatePoints, CleanupPoints, InArchive
<1>7. NothingForgotten'
  BY <1>1, <1>2, <1>3, <1>4
  DEF SnapInv, NothingForgotten, HasRow, StageInv
<1>8. CandidateInv'
  BY <1>1, <1>2, <1>3, <1>4
  DEF SnapInv, CandidateInv, Made, Copying, NoRows
<1>9. EndInv'
  BY <1>1, <1>2, <1>3, <1>4
  DEF SnapInv, EndInv, Uncleaned, HasRow, Generation, FileOf
<1>10. CopyInv'
  BY <1>1, <1>2, <1>3, <1>4
  DEF SnapInv, CopyInv, Copying, Left, Current, Included, HasRow
<1>11. ReceiptInv'
  BY <1>1, <1>2, <1>3, <1>4
  DEF SnapInv, ReceiptInv
<1>12. SnapshotWhole'
  BY <1>1, <1>2, <1>3, <1>4
  DEF SnapInv, SnapshotWhole, Included
<1>13. CauseInv'
  BY <1>1, <1>2, <1>3, <1>4
  DEF SnapInv, CauseInv, CauseOf, Left
<1>. QED  BY <1>5, <1>6, <1>7, <1>8, <1>9, <1>10, <1>11, <1>12, <1>13 DEF SnapInv

LEMMA RenewKeeps == SnapInv /\ Renew => SnapInv'
<1> SUFFICES ASSUME SnapInv, Renew  PROVE SnapInv'
  OBVIOUS
<1>1. /\ proc.pc = "renew" /\ job.state = "snapshotting" /\ job.snap = NoGen
      /\ cleaned = {} /\ proc.error = "none" /\ job.error = "none"
      /\ job.cand # NoGen /\ job.cand \in Gens /\ Generation = job.cand
      /\ job.staging # "cleaned" /\ dirs \subseteq {job.cand}
      /\ job.cand \in dirs
  BY Fields, AtGate
  DEF Renew, At, GatePoints, SnapInv, CandidateInv, Made, Copying
<1>2. proc' \in Procs /\ proc'.pc = "start" /\ proc'.error = "none"
  BY <1>1, Fields, GotoEffect DEF Renew, ProgramCounters, GatePoints, ProcBecomes
<1>3. UNCHANGED <<job, blob, cleaned, item, dirs, file, pin, source, owner, events>>
  BY DEF Renew, rows, disk, Quiet, world
<1>4. TypeOK'
  BY Types, TypesNext, <1>2, <1>3
  DEF SnapInv
<1>5. StageInv'
  BY <1>1, <1>2, <1>3
  DEF SnapInv, StageInv, InCapture, GatePoints, CleanupPoints, InArchive
<1>6. NothingForgotten'
  BY <1>1, <1>2, <1>3
  DEF SnapInv, NothingForgotten, HasRow, StageInv
<1>7. CandidateInv'
  BY <1>1, <1>2, <1>3
  DEF SnapInv, CandidateInv, Made, Copying, NoRows
<1>8. EndInv'
  BY <1>1, <1>2, <1>3
  DEF SnapInv, EndInv, Uncleaned, HasRow, Generation, FileOf
<1>9. CopyInv'
  BY <1>1, <1>2, <1>3
  DEF SnapInv, CopyInv, Copying, Left, Current, Included, HasRow
<1>10. ReceiptInv'
  BY <1>1, <1>2, <1>3
  DEF SnapInv, ReceiptInv
<1>11. SnapshotWhole'
  BY <1>1, <1>2, <1>3
  DEF SnapInv, SnapshotWhole, Included
<1>12. CauseInv'
  BY <1>1, <1>2, <1>3
  DEF SnapInv, CauseInv, CauseOf, Left
<1>. QED  BY <1>4, <1>5, <1>6, <1>7, <1>8, <1>9, <1>10, <1>11, <1>12 DEF SnapInv

LEMMA CopyBlobKeeps == SnapInv /\ CopyBlob => SnapInv'
<1> SUFFICES ASSUME SnapInv, CopyBlob  PROVE SnapInv'
  OBVIOUS
<1>1. /\ proc.pc = "copy" /\ job.state = "snapshotting" /\ job.snap = NoGen
      /\ cleaned = {} /\ proc.error = "none" /\ job.error = "none"
      /\ job.cand # NoGen /\ job.cand \in Gens /\ Generation = job.cand
      /\ job.staging # "cleaned" /\ dirs \subseteq {job.cand}
      /\ job.cand \in dirs
  BY Fields, AtGate
  DEF CopyBlob, At, GatePoints, SnapInv, CandidateInv, Made, Copying
<1>2. proc' \in Procs /\ proc'.pc = "rename" /\ proc'.error = "none"
  BY <1>1, Fields, GotoEffect DEF CopyBlob, ProgramCounters, GatePoints, ProcBecomes
<1>3. UNCHANGED <<job, blob, cleaned, item, dirs, file, pin, source, owner, events>>
  BY DEF CopyBlob, rows, disk, Quiet, world
<1>4. TypeOK'
  BY Types, TypesNext, <1>2, <1>3
  DEF SnapInv
<1>5. StageInv'
  BY <1>1, <1>2, <1>3
  DEF SnapInv, StageInv, InCapture, GatePoints, CleanupPoints, InArchive
<1>6. NothingForgotten'
  BY <1>1, <1>2, <1>3
  DEF SnapInv, NothingForgotten, HasRow, StageInv
<1>7. CandidateInv'
  BY <1>1, <1>2, <1>3
  DEF SnapInv, CandidateInv, Made, Copying, NoRows
<1>8. EndInv'
  BY <1>1, <1>2, <1>3
  DEF SnapInv, EndInv, Uncleaned, HasRow, Generation, FileOf
<1>9. CopyInv'
  BY <1>1, <1>2, <1>3
  DEF SnapInv, CopyInv, Copying, Left, Current, Included, HasRow
<1>10. ReceiptInv'
  BY <1>1, <1>2, <1>3
  DEF SnapInv, ReceiptInv
<1>11. SnapshotWhole'
  BY <1>1, <1>2, <1>3
  DEF SnapInv, SnapshotWhole, Included
<1>12. CauseInv'
  BY <1>1, <1>2, <1>3
  DEF SnapInv, CauseInv, CauseOf, Left
<1>. QED  BY <1>4, <1>5, <1>6, <1>7, <1>8, <1>9, <1>10, <1>11, <1>12 DEF SnapInv

LEMMA RecordProgressKeeps == SnapInv /\ RecordProgress => SnapInv'
<1> SUFFICES ASSUME SnapInv, RecordProgress  PROVE SnapInv'
  OBVIOUS
<1>1. /\ proc.pc = "progress" /\ job.state = "snapshotting" /\ job.snap = NoGen
      /\ cleaned = {} /\ proc.error = "none" /\ job.error = "none"
      /\ job.cand # NoGen /\ job.cand \in Gens /\ Generation = job.cand
      /\ job.staging # "cleaned" /\ dirs \subseteq {job.cand}
      /\ job.cand \in dirs
  BY Fields, AtGate
  DEF RecordProgress, At, GatePoints, SnapInv, CandidateInv, Made, Copying
<1>2. proc' \in Procs /\ proc'.pc = "start" /\ proc'.error = "none"
  BY <1>1, Fields, GotoEffect DEF RecordProgress, ProgramCounters, GatePoints, ProcBecomes
<1>3. UNCHANGED <<job, blob, cleaned, item, dirs, file, pin, source, owner, events>>
  BY DEF RecordProgress, rows, disk, Quiet, world
<1>4. TypeOK'
  BY Types, TypesNext, <1>2, <1>3
  DEF SnapInv
<1>5. StageInv'
  BY <1>1, <1>2, <1>3
  DEF SnapInv, StageInv, InCapture, GatePoints, CleanupPoints, InArchive
<1>6. NothingForgotten'
  BY <1>1, <1>2, <1>3
  DEF SnapInv, NothingForgotten, HasRow, StageInv
<1>7. CandidateInv'
  BY <1>1, <1>2, <1>3
  DEF SnapInv, CandidateInv, Made, Copying, NoRows
<1>8. EndInv'
  BY <1>1, <1>2, <1>3
  DEF SnapInv, EndInv, Uncleaned, HasRow, Generation, FileOf
<1>9. CopyInv'
  BY <1>1, <1>2, <1>3
  DEF SnapInv, CopyInv, Copying, Left, Current, Included, HasRow
<1>10. ReceiptInv'
  BY <1>1, <1>2, <1>3
  DEF SnapInv, ReceiptInv
<1>11. SnapshotWhole'
  BY <1>1, <1>2, <1>3
  DEF SnapInv, SnapshotWhole, Included
<1>12. CauseInv'
  BY <1>1, <1>2, <1>3
  DEF SnapInv, CauseInv, CauseOf, Left
<1>. QED  BY <1>4, <1>5, <1>6, <1>7, <1>8, <1>9, <1>10, <1>11, <1>12 DEF SnapInv

LEMMA RecordDirectoryKeeps == SnapInv /\ RecordDirectory => SnapInv'
<1> SUFFICES ASSUME SnapInv, RecordDirectory  PROVE SnapInv'
  OBVIOUS
<1>1. /\ proc.pc = "record_directory" /\ job.state = "snapshotting" /\ job.snap = NoGen
      /\ cleaned = {} /\ proc.error = "none" /\ job.error = "none"
      /\ job.cand # NoGen /\ job.cand \in Gens /\ Generation = job.cand
      /\ job.staging # "cleaned" /\ dirs \subseteq {job.cand}
      /\ job.cand \in dirs
  BY Fields, AtGate
  DEF RecordDirectory, At, GatePoints, SnapInv, CandidateInv, Made, Copying
<1>2. proc' \in Procs /\ proc'.pc = "metadata" /\ proc'.error = "none"
  BY <1>1, Fields, GotoEffect DEF RecordDirectory, ProgramCounters, GatePoints, ProcBecomes
<1>3. UNCHANGED <<blob, cleaned, item, dirs, file, pin, source, owner, events>>
  BY DEF RecordDirectory, rows, disk, Quiet, world
<1>4. /\ job' \in Jobs /\ job'.state = job.state /\ job'.cand = job.cand
      /\ job'.snap = job.snap /\ job'.staging = job.staging /\ job'.error = job.error
  BY Fields DEF RecordDirectory, Jobs
<1>5. TypeOK'
  BY Types, TypesNext, <1>2, <1>3, <1>4
  DEF SnapInv
<1>6. StageInv'
  BY <1>1, <1>2, <1>3, <1>4
  DEF SnapInv, StageInv, InCapture, GatePoints, CleanupPoints, InArchive
<1>7. NothingForgotten'
  BY <1>1, <1>2, <1>3, <1>4
  DEF SnapInv, NothingForgotten, HasRow, StageInv
<1>8. CandidateInv'
  BY <1>1, <1>2, <1>3, <1>4
  DEF SnapInv, CandidateInv, Made, Copying, NoRows
<1>9. EndInv'
  BY <1>1, <1>2, <1>3, <1>4
  DEF SnapInv, EndInv, Uncleaned, HasRow, Generation, FileOf
<1>10. CopyInv'
  BY <1>1, <1>2, <1>3, <1>4
  DEF SnapInv, CopyInv, Copying, Left, Current, Included, HasRow
<1>11. ReceiptInv'
  BY <1>1, <1>2, <1>3, <1>4
  DEF SnapInv, ReceiptInv
<1>12. SnapshotWhole'
  BY <1>1, <1>2, <1>3, <1>4
  DEF SnapInv, SnapshotWhole, Included
<1>13. CauseInv'
  BY <1>1, <1>2, <1>3, <1>4
  DEF SnapInv, CauseInv, CauseOf, Left
<1>. QED  BY <1>5, <1>6, <1>7, <1>8, <1>9, <1>10, <1>11, <1>12, <1>13 DEF SnapInv

LEMMA RecordOpenBlobKeeps == SnapInv /\ RecordOpenBlob => SnapInv'
<1> SUFFICES ASSUME SnapInv, RecordOpenBlob  PROVE SnapInv'
  OBVIOUS
<1>1. /\ proc.pc = "record_open" /\ job.state = "snapshotting" /\ job.snap = NoGen
      /\ cleaned = {} /\ proc.error = "none" /\ job.error = "none"
      /\ job.cand # NoGen /\ job.cand \in Gens /\ Generation = job.cand
      /\ job.staging # "cleaned" /\ dirs \subseteq {job.cand}
      /\ job.cand \in dirs
  BY Fields, AtGate
  DEF RecordOpenBlob, At, GatePoints, SnapInv, CandidateInv, Made, Copying
<1>2. proc' \in Procs /\ proc'.pc = "copy" /\ proc'.error = "none"
  BY <1>1, Fields, GotoEffect DEF RecordOpenBlob, ProgramCounters, GatePoints, ProcBecomes
<1>3. UNCHANGED <<job, cleaned, item, dirs, file, pin, source, owner, events>>
  BY DEF RecordOpenBlob, rows, disk, Quiet, world
<1>4. /\ Current \in Assets /\ blob[Current] \in {"new", "writing"}
      /\ file[job.cand][Current] = "part"
  BY <1>1, LeastIn DEF SnapInv, CopyInv, Current, Left
<1>5. /\ blob' \in [Assets -> BlobStates]
      /\ \A a \in Assets : blob'[a] = IF a = Current THEN "writing" ELSE blob[a]
  BY <1>4, Fields DEF RecordOpenBlob, BlobStates
<1>6. Left' = Left /\ Current' = Current
  BY <1>4, <1>5 DEF Left, Current
<1>7. TypeOK'
  BY Types, TypesNext, <1>2, <1>3, <1>5
  DEF SnapInv
<1>8. StageInv'
  BY <1>1, <1>2, <1>3, <1>4, <1>5, <1>6
  DEF SnapInv, StageInv, InCapture, GatePoints, CleanupPoints, InArchive,
      HasRow
<1>9. NothingForgotten'
  BY <1>1, <1>2, <1>3, <1>4, <1>5, <1>6
  DEF SnapInv, NothingForgotten, HasRow, StageInv
<1>10. CandidateInv'
  BY <1>1, <1>2, <1>3, <1>4, <1>5, <1>6
  DEF SnapInv, CandidateInv, Made, Copying, NoRows, HasRow
<1>11. EndInv'
  BY <1>1, <1>2, <1>3, <1>4, <1>5, <1>6
  DEF SnapInv, EndInv, Uncleaned, HasRow, Generation, FileOf
<1>12. CopyInv'
  <2>1. /\ Left # {}
        /\ \A p \in Included : HasRow(AssetOf[p])
        /\ \A a \in Assets : HasRow(a) => a \in source
        /\ \A a \in Assets : blob[a] = "closed" => file[job.cand][a] = "final"
    BY <1>1 DEF SnapInv, CopyInv, Copying
  <2>2. /\ \A p \in Included' : HasRow(AssetOf[p])'
        /\ \A a \in Assets : HasRow(a)' => a \in source'
        /\ \A a \in Assets : blob'[a] = "closed" => file'[job'.cand][a] = "final"
    BY <1>3, <1>4, <1>5, <2>1, SnapshotAssumption DEF Included, HasRow
  <2>3. blob'[Current'] = "writing"
    BY <1>4, <1>5, <1>6
  <2>. QED  BY <1>2, <1>6, <2>1, <2>2, <2>3 DEF CopyInv
<1>13. ReceiptInv'
  BY <1>1, <1>2, <1>3, <1>4, <1>5, <1>6
  DEF SnapInv, ReceiptInv, HasRow
<1>14. SnapshotWhole'
  BY <1>1, <1>2, <1>3, <1>4, <1>5, <1>6
  DEF SnapInv, SnapshotWhole, Included, HasRow
<1>15. CauseInv'
  BY <1>1, <1>2, <1>3, <1>4, <1>5, <1>6
  DEF SnapInv, CauseInv, CauseOf, Left, HasRow
<1>. QED  BY <1>7, <1>8, <1>9, <1>10, <1>11, <1>12, <1>13, <1>14, <1>15 DEF SnapInv

LEMMA RecordClosedBlobKeeps == SnapInv /\ RecordClosedBlob => SnapInv'
<1> SUFFICES ASSUME SnapInv, RecordClosedBlob  PROVE SnapInv'
  OBVIOUS
<1>1. /\ proc.pc = "record_closed" /\ job.state = "snapshotting" /\ job.snap = NoGen
      /\ cleaned = {} /\ proc.error = "none" /\ job.error = "none"
      /\ job.cand # NoGen /\ job.cand \in Gens /\ Generation = job.cand
      /\ job.staging # "cleaned" /\ dirs \subseteq {job.cand}
      /\ job.cand \in dirs
  BY Fields, AtGate
  DEF RecordClosedBlob, At, GatePoints, SnapInv, CandidateInv, Made, Copying
<1>2. proc' \in Procs /\ proc'.pc = "progress" /\ proc'.error = "none"
  BY <1>1, Fields, GotoEffect DEF RecordClosedBlob, ProgramCounters, GatePoints, ProcBecomes
<1>3. UNCHANGED <<job, cleaned, item, dirs, file, pin, source, owner, events>>
  BY DEF RecordClosedBlob, rows, disk, Quiet, world
<1>4. /\ Current \in Assets /\ blob[Current] = "writing"
      /\ file[job.cand][Current] = "final"
  BY <1>1, LeastIn DEF SnapInv, CopyInv, Current, Left
<1>5. /\ blob' \in [Assets -> BlobStates]
      /\ \A a \in Assets : blob'[a] = IF a = Current THEN "closed" ELSE blob[a]
  BY <1>4, Fields DEF RecordClosedBlob, BlobStates
<1>6. TypeOK'
  BY Types, TypesNext, <1>2, <1>3, <1>5
  DEF SnapInv
<1>7. StageInv'
  BY <1>1, <1>2, <1>3, <1>4, <1>5
  DEF SnapInv, StageInv, InCapture, GatePoints, CleanupPoints, InArchive,
      HasRow
<1>8. NothingForgotten'
  BY <1>1, <1>2, <1>3, <1>4, <1>5
  DEF SnapInv, NothingForgotten, HasRow, StageInv
<1>9. CandidateInv'
  BY <1>1, <1>2, <1>3, <1>4, <1>5
  DEF SnapInv, CandidateInv, Made, Copying, NoRows, HasRow
<1>10. EndInv'
  BY <1>1, <1>2, <1>3, <1>4, <1>5
  DEF SnapInv, EndInv, Uncleaned, HasRow, Generation, FileOf
<1>11. CopyInv'
  <2>1. /\ \A p \in Included : HasRow(AssetOf[p])
        /\ \A a \in Assets : HasRow(a) => a \in source
        /\ \A a \in Assets : blob[a] = "closed" => file[job.cand][a] = "final"
    BY <1>1 DEF SnapInv, CopyInv, Copying
  <2>2. /\ \A p \in Included' : HasRow(AssetOf[p])'
        /\ \A a \in Assets : HasRow(a)' => a \in source'
        /\ \A a \in Assets : blob'[a] = "closed" => file'[job'.cand][a] = "final"
    BY <1>3, <1>4, <1>5, <2>1, SnapshotAssumption DEF Included, HasRow
  <2>. QED  BY <1>2, <2>2 DEF CopyInv
<1>12. ReceiptInv'
  BY <1>1, <1>2, <1>3, <1>4, <1>5, Fields
  DEF SnapInv, ReceiptInv, HasRow, NothingForgotten
<1>13. SnapshotWhole'
  BY <1>1, <1>2, <1>3, <1>4, <1>5
  DEF SnapInv, SnapshotWhole, Included, HasRow
<1>14. CauseInv'
  BY <1>1, <1>2, <1>3, <1>4, <1>5
  DEF SnapInv, CauseInv, CauseOf, Left, HasRow
<1>. QED  BY <1>6, <1>7, <1>8, <1>9, <1>10, <1>11, <1>12, <1>13, <1>14 DEF SnapInv

LEMMA RenameBlobKeeps == SnapInv /\ RenameBlob => SnapInv'
<1> SUFFICES ASSUME SnapInv, RenameBlob  PROVE SnapInv'
  OBVIOUS
<1>1. /\ proc.pc = "rename" /\ job.state = "snapshotting" /\ job.snap = NoGen
      /\ cleaned = {} /\ proc.error = "none" /\ job.error = "none"
      /\ job.cand # NoGen /\ job.cand \in Gens /\ Generation = job.cand
      /\ job.staging # "cleaned" /\ dirs \subseteq {job.cand}
      /\ job.cand \in dirs
  BY Fields, AtGate
  DEF RenameBlob, At, GatePoints, SnapInv, CandidateInv, Made, Copying
<1>2. proc' \in Procs /\ proc'.pc = "record_closed" /\ proc'.error = "none"
  BY <1>1, Fields, GotoEffect DEF RenameBlob, ProgramCounters, GatePoints, ProcBecomes
<1>3. UNCHANGED <<job, blob, cleaned, item, dirs, pin, source, owner, events>>
  BY DEF RenameBlob, rows, disk, Quiet, world
<1>4. Left # {} /\ Current \in Assets /\ blob[Current] = "writing"
  BY <1>1, LeastIn DEF SnapInv, CopyInv, Current, Left
<1>5. /\ file' \in Files
      /\ \A g \in Gens, b \in Assets :
            file'[g][b] = IF g = job.cand /\ b = Current THEN "final" ELSE file[g][b]
  BY <1>1, <1>4, Fields, WriteEffect DEF RenameBlob
<1>6. Left' = Left /\ Current' = Current
  BY <1>3 DEF Left, Current
<1>7. TypeOK'
  BY Types, TypesNext, <1>2, <1>3, <1>5
  DEF SnapInv
<1>8. StageInv'
  BY <1>1, <1>2, <1>3, <1>4, <1>5, <1>6
  DEF SnapInv, StageInv, InCapture, GatePoints, CleanupPoints, InArchive,
      HasRow
<1>9. NothingForgotten'
  BY <1>1, <1>2, <1>3, <1>4, <1>5, <1>6
  DEF SnapInv, NothingForgotten, HasRow, StageInv
<1>10. CandidateInv'
  BY <1>1, <1>2, <1>3, <1>4, <1>5, <1>6
  DEF SnapInv, CandidateInv, Made, Copying, NoRows, HasRow
<1>11. EndInv'
  BY <1>1, <1>2, <1>3, <1>4, <1>5, <1>6
  DEF SnapInv, EndInv, Uncleaned, HasRow, Generation, FileOf
<1>12. CopyInv'
  BY <1>1, <1>2, <1>3, <1>4, <1>5, <1>6
  DEF SnapInv, CopyInv, Copying, Left, Current, Included, HasRow
<1>13. ReceiptInv'
  BY <1>1, <1>2, <1>3, <1>4, <1>5, <1>6
  DEF SnapInv, ReceiptInv, HasRow
<1>14. SnapshotWhole'
  BY <1>1, <1>2, <1>3, <1>4, <1>5, <1>6
  DEF SnapInv, SnapshotWhole, Included, HasRow
<1>15. CauseInv'
  BY <1>1, <1>2, <1>3, <1>4, <1>5, <1>6
  DEF SnapInv, CauseInv, CauseOf, Left, HasRow
<1>. QED  BY <1>7, <1>8, <1>9, <1>10, <1>11, <1>12, <1>13, <1>14, <1>15 DEF SnapInv

LEMMA FinalizeKeeps == SnapInv /\ Finalize => SnapInv'
<1> SUFFICES ASSUME SnapInv, Finalize  PROVE SnapInv'
  OBVIOUS
<1>1. /\ proc.pc = "finalize" /\ job.state = "snapshotting" /\ job.snap = NoGen
      /\ cleaned = {} /\ proc.error = "none" /\ job.error = "none"
      /\ job.cand # NoGen /\ job.cand \in Gens /\ Generation = job.cand
      /\ job.staging # "cleaned" /\ dirs \subseteq {job.cand}
      /\ job.cand \in dirs
  BY Fields, AtGate
  DEF Finalize, At, GatePoints, SnapInv, CandidateInv, Made, Copying
<1>2. proc' \in Procs /\ proc'.pc = "archive" /\ proc'.error = "none"
  BY <1>1, Fields, GotoEffect DEF Finalize, ProgramCounters, GatePoints, ProcBecomes
<1>3. UNCHANGED <<blob, cleaned, item, dirs, file, pin, source, owner, events>>
  BY DEF Finalize, rows, disk, Quiet, world
<1>4. JobBecomes("archiving", NoGen, job.cand, job.staging, "none")
  BY <1>1, Fields DEF Finalize, Jobs, JobBecomes, JobStates
<1>5. /\ job' \in Jobs /\ job'.state = "archiving" /\ job'.cand = NoGen
      /\ job'.snap = job.cand /\ job'.staging = job.staging /\ job'.error = "none"
  BY <1>4 DEF JobBecomes
<1>6. TypeOK'
  BY Types, TypesNext, <1>2, <1>3, <1>5
  DEF SnapInv
<1>7. StageInv'
  BY <1>1, <1>2, <1>3, <1>5
  DEF SnapInv, StageInv, InCapture, GatePoints, CleanupPoints, InArchive
<1>8. NothingForgotten'
  BY <1>1, <1>2, <1>3, <1>5
  DEF SnapInv, NothingForgotten, HasRow, StageInv
<1>9. CandidateInv'
  BY <1>1, <1>2, <1>3, <1>5
  DEF SnapInv, CandidateInv, Made, Copying, NoRows
<1>10. EndInv'
  BY <1>1, <1>2, <1>3, <1>5
  DEF SnapInv, EndInv, Uncleaned, HasRow, Generation, FileOf
<1>11. CopyInv'
  BY <1>1, <1>2, <1>3, <1>5
  DEF SnapInv, CopyInv, Copying, Left, Current, Included, HasRow
<1>12. ReceiptInv'
  BY <1>1, <1>2, <1>3, <1>5
  DEF SnapInv, ReceiptInv
<1>13. SnapshotWhole'
  <2>1. ASSUME NEW p \in Included
        PROVE  /\ AssetOf[p] \in Assets /\ blob[AssetOf[p]] = "closed"
               /\ file[job.cand][AssetOf[p]] = "final"
    <3>1. AssetOf[p] \in Assets
      BY SnapshotAssumption DEF Included
    <3>2. blob[AssetOf[p]] \in BlobStates \ {"none"} /\ AssetOf[p] \notin Left
      BY <1>1, <3>1, Fields DEF SnapInv, CopyInv, Copying, HasRow
    <3>3. blob[AssetOf[p]] = "closed"
      BY <3>1, <3>2 DEF Left, BlobStates
    <3>. QED  BY <1>1, <3>1, <3>3 DEF SnapInv, CopyInv, Copying
  <2>2. Included' = Included
    BY <1>3 DEF Included
  <2>. QED  BY <1>1, <1>3, <1>5, <2>1, <2>2 DEF SnapshotWhole
<1>14. CauseInv'
  BY <1>1, <1>2, <1>3, <1>5
  DEF SnapInv, CauseInv, CauseOf, Left
<1>. QED  BY <1>6, <1>7, <1>8, <1>9, <1>10, <1>11, <1>12, <1>13, <1>14 DEF SnapInv

LEMMA StartBlobKeeps == SnapInv /\ StartBlob => SnapInv'
<1> SUFFICES ASSUME SnapInv, StartBlob  PROVE SnapInv'
  OBVIOUS
<1>1. /\ proc.pc = "start" /\ job.state = "snapshotting" /\ job.snap = NoGen
      /\ cleaned = {} /\ proc.error = "none" /\ job.error = "none"
      /\ job.cand # NoGen /\ job.cand \in Gens /\ Generation = job.cand
      /\ job.staging # "cleaned" /\ dirs \subseteq {job.cand}
      /\ job.cand \in dirs
  BY Fields, AtGate
  DEF StartBlob, At, GatePoints, SnapInv, CandidateInv, Made, Copying
<1>2. UNCHANGED <<job, blob, cleaned, item, dirs, pin, source, owner, events>>
  BY DEF StartBlob, rows, disk, Quiet, world
<1>3. SameJob /\ SameRows /\ events' \in Gens /\ UNCHANGED world
  BY <1>2, Fields, SameJobEffect DEF SameRows, world
<1>4. CASE Left = {} /\ Goto("finalize") /\ UNCHANGED disk
  <2>1. /\ proc' \in Procs /\ proc'.pc = "finalize" /\ proc'.error = "none"
        /\ file' = file
    BY <1>1, <1>4, Fields, GotoEffect DEF ProgramCounters, GatePoints, ProcBecomes, disk
  <2>2. TypeOK'
    BY <1>2, <2>1, Types, TypesNext DEF SnapInv
  <2>3. StageInv' /\ NothingForgotten' /\ CandidateInv' /\ EndInv'
    BY <1>1, <1>2, <2>1
    DEF SnapInv, StageInv, NothingForgotten, CandidateInv, EndInv, InCapture,
        GatePoints, InArchive, HasRow, Made, Copying, NoRows, Uncleaned
  <2>4. CopyInv' /\ ReceiptInv' /\ SnapshotWhole' /\ CauseInv'
    BY <1>1, <1>2, <1>4, <2>1
    DEF SnapInv, CopyInv, ReceiptInv, SnapshotWhole, CauseInv, CauseOf, Copying,
        Included, Left, HasRow
  <2>. QED  BY <2>2, <2>3, <2>4 DEF SnapInv
<1>5. Left # {} => Current \in Assets /\ Current \in Left
  BY LeastIn DEF Current, Left
<1>6. Left # {} => Current \in source
  BY <1>1, <1>5 DEF SnapInv, CopyInv, Copying, Left, HasRow
<1>7. CASE Left # {} /\ Write(Current, "part") /\ Goto("record_open")
  <2>1. /\ proc' \in Procs /\ proc'.pc = "record_open" /\ proc'.error = "none"
    BY <1>1, <1>7, Fields, GotoEffect DEF ProgramCounters, GatePoints, ProcBecomes
  <2>2. /\ file' \in Files
        /\ \A g \in Gens, b \in Assets :
              file'[g][b] = IF g = job.cand /\ b = Current THEN "part" ELSE file[g][b]
    BY <1>1, <1>5, <1>7, Fields, WriteEffect
  <2>3. Left' = Left /\ Current' = Current /\ blob[Current] \in {"new", "writing"}
    BY <1>2, <1>5, <1>7 DEF Left, Current
  <2>4. TypeOK'
    BY <1>2, <2>1, <2>2, Types, TypesNext DEF SnapInv
  <2>5. StageInv' /\ NothingForgotten'
    BY <1>1, <1>2, <1>5, <1>7, <2>1, <2>2, <2>3
    DEF SnapInv, StageInv, NothingForgotten, InCapture, GatePoints, InArchive, HasRow
  <2>6. CandidateInv' /\ EndInv'
    BY <1>1, <1>2, <2>1
    DEF SnapInv, CandidateInv, EndInv, Made, Copying, NoRows, Uncleaned
  <2>7. CopyInv'
    BY <1>1, <1>2, <1>5, <1>7, <2>1, <2>2, <2>3
    DEF SnapInv, CopyInv, Copying, Included, HasRow
  <2>8. ReceiptInv' /\ SnapshotWhole' /\ CauseInv'
    BY <1>1, <1>2, <1>5, <1>7, <2>1, <2>2, <2>3
    DEF SnapInv, ReceiptInv, SnapshotWhole, CauseInv, CauseOf, Included
  <2>. QED  BY <2>4, <2>5, <2>6, <2>7, <2>8 DEF SnapInv
<1>. QED  BY <1>4, <1>6, <1>7 DEF StartBlob

LEMMA RecordMetadataKeeps == SnapInv /\ RecordMetadata => SnapInv'
<1> SUFFICES ASSUME SnapInv, RecordMetadata  PROVE SnapInv'
  OBVIOUS
<1>1. /\ proc.pc = "metadata" /\ job.state = "snapshotting" /\ job.snap = NoGen
      /\ cleaned = {} /\ proc.error = "none" /\ job.error = "none"
      /\ job.cand # NoGen /\ job.cand \in Gens /\ Generation = job.cand
      /\ job.staging # "cleaned" /\ dirs \subseteq {job.cand}
      /\ job.cand \in dirs
  BY Fields, AtGate
  DEF RecordMetadata, At, GatePoints, SnapInv, CandidateInv, Made, Copying
<1>2. UNCHANGED <<job, cleaned, dirs, file, pin, source, owner, events>>
  BY DEF RecordMetadata, rows, disk, Quiet, world
<1>3. SameJob /\ cleaned' = cleaned /\ events' \in Gens /\ UNCHANGED world /\ UNCHANGED disk
  BY <1>2, Fields, SameJobEffect DEF SameRows, world, disk
<1>4. NoRows
  BY <1>1 DEF SnapInv, CandidateInv
<1>5. CASE ~owner /\ Raise("permission_changed") /\ UNCHANGED <<item, blob>>
  <2>1. ProcBecomes("failing", "permission_changed")
    BY <1>5, Fields, RaiseEffect DEF Errors
  <2>. QED  BY <1>1, <1>3, <1>5, <2>1, FreeStep DEF SameRows, MayGo, CauseOf
<1>6. CASE /\ \E p \in Owned : pin[p] = "deleted"
           /\ Raise("source_missing") /\ UNCHANGED <<item, blob>>
  <2>1. ProcBecomes("failing", "source_missing")
    BY <1>6, Fields, RaiseEffect DEF Errors
  <2>. QED  BY <1>1, <1>3, <1>6, <2>1, FreeStep DEF SameRows, MayGo, CauseOf
<1>7. ASSUME NEW kept, kept = {p \in Pins : pin[p] = "eligible"},
             item' = [p \in Pins |-> IF p \in kept THEN "included" ELSE "none"],
             blob' = [a \in Assets |-> IF \E p \in kept : AssetOf[p] = a
                                      THEN "new" ELSE "none"],
             Goto("renew")
      PROVE  SnapInv'
  <2>1. /\ proc' \in Procs /\ proc'.pc = "renew" /\ proc'.error = "none"
    BY <1>1, <1>7, Fields, GotoEffect DEF ProgramCounters, GatePoints, ProcBecomes
  <2>2. /\ blob' \in [Assets -> BlobStates]
        /\ item' \in [Pins -> {"none", "included", "excluded"}]
    BY <1>7 DEF BlobStates
  <2>3. TypeOK'
    BY <1>2, <2>1, <2>2, Types, TypesNext DEF SnapInv
  <2>4. \A g \in Gens, a \in Assets : file[g][a] = "none"
    BY <1>4, Fields DEF NoRows, SnapInv, NothingForgotten, HasRow, Files
  <2>5. StageInv' /\ NothingForgotten' /\ CandidateInv' /\ EndInv'
    BY <1>1, <1>2, <2>1, <2>4
    DEF SnapInv, StageInv, NothingForgotten, CandidateInv, EndInv, InCapture,
        GatePoints, InArchive, Made, Copying
  <2>6. /\ \A p \in Included' : p \in kept /\ AssetOf[p] \in Assets
        /\ \A p \in Included' : blob'[AssetOf[p]] = "new"
    BY <1>7, SnapshotAssumption DEF Included
  <2>7. \A a \in Assets : /\ blob'[a] # "closed"
                          /\ blob'[a] # "none" => a \in source
    BY <1>7, SnapshotAssumption DEF SnapInv, CauseInv
  <2>8. CopyInv'
    BY <1>2, <2>1, <2>6, <2>7 DEF CopyInv, Copying, HasRow
  <2>9. ReceiptInv' /\ SnapshotWhole' /\ CauseInv'
    BY <1>1, <1>2, <2>1, <2>4
    DEF SnapInv, ReceiptInv, SnapshotWhole, CauseInv, CauseOf
  <2>. QED  BY <2>3, <2>5, <2>8, <2>9 DEF SnapInv
<1>. QED  BY <1>5, <1>6, <1>7 DEF RecordMetadata

-----------------------------------------------------------------------------
(* The cleanup of a candidate. *)

LEMMA RecordIntentKeeps == SnapInv /\ RecordIntent => SnapInv'
<1> SUFFICES ASSUME SnapInv, RecordIntent  PROVE SnapInv'
  OBVIOUS
<1>1. /\ proc.pc = "intent" /\ job.state = "snapshotting" /\ job.snap = NoGen
      /\ cleaned = {} /\ proc.error = "none" /\ job.error = "none" /\ proc \in Procs
  BY Fields, AtGate DEF RecordIntent, At, CleanupPoints
<1>2. UNCHANGED <<blob, cleaned, item, dirs, file, pin, source, owner, events>>
  BY DEF RecordIntent, disk, Quiet, world
<1>3. CASE job.cand = NoGen /\ Goto("loop") /\ UNCHANGED job
  <2>1. ProcBecomes("loop", "none") /\ SameJob
    BY <1>1, <1>3, GotoEffect, Fields, SameJobEffect DEF ProgramCounters
  <2>. QED
    BY <1>1, <1>2, <2>1, Fields, FreeStep DEF MayGo, SameRows, disk, world
<1>4. ASSUME job.cand # NoGen, job' = [job EXCEPT !.staging = "pending"],
             NEW pc \in {"clean", "cleaned"}, Goto(pc),
             pc = "cleaned" => job.cand \notin dirs
      PROVE  SnapInv'
  <2>1. /\ job' \in Jobs /\ job'.state = job.state /\ job'.cand = job.cand
        /\ job'.snap = job.snap /\ job'.staging = "pending" /\ job'.error = job.error
    BY <1>4, Fields DEF Jobs, Stagings
  <2>2. proc' \in Procs /\ proc'.pc = pc /\ proc'.error = "none"
    BY <1>1, <1>4, GotoEffect DEF ProgramCounters, CleanupPoints, ProcBecomes
  <2>3. TypeOK'
    BY <1>2, <2>1, <2>2, Types, TypesNext DEF SnapInv
  <2>4. StageInv' /\ NothingForgotten' /\ CandidateInv' /\ EndInv'
    BY <1>1, <1>2, <1>4, <2>1, <2>2
    DEF SnapInv, StageInv, NothingForgotten, CandidateInv, EndInv, InCapture,
        CleanupPoints, InArchive, HasRow, Made, Copying, NoRows
  <2>5. CopyInv' /\ ReceiptInv' /\ SnapshotWhole' /\ CauseInv'
    BY <1>1, <1>2, <1>4, <2>1, <2>2
    DEF SnapInv, CopyInv, ReceiptInv, SnapshotWhole, CauseInv, CauseOf, Copying, Left
  <2>. QED  BY <2>3, <2>4, <2>5 DEF SnapInv
<1>. QED  BY <1>3, <1>4 DEF RecordIntent, ToRemove, Exists

LEMMA CleanFileKeeps == SnapInv /\ CleanFile => SnapInv'
<1> SUFFICES ASSUME SnapInv, CleanFile  PROVE SnapInv'
  OBVIOUS
<1>1. /\ proc.pc = "clean" /\ job.state = "snapshotting" /\ job.snap = NoGen
      /\ cleaned = {} /\ proc.error = "none" /\ job.error = "none"
      /\ job.cand # NoGen /\ job.cand \in Gens /\ Generation = job.cand
      /\ job.staging # "cleaned" /\ dirs \subseteq {job.cand}
  BY Fields, AtGate DEF CleanFile, At, CleanupPoints, SnapInv, CandidateInv
<1>2. UNCHANGED <<job, blob, cleaned, item, pin, source, owner, events>>
  BY DEF CleanFile, rows, Quiet, world
<1>3. \A a \in Assets : /\ file[job.cand][a] \in {"none", "part", "final"}
                        /\ blob[a] \in BlobStates
  BY <1>1, Fields DEF Files
<1>4. CASE Present = {} /\ Goto("rmdir") /\ UNCHANGED disk
  <2>1. /\ proc' \in Procs /\ proc'.pc = "rmdir" /\ proc'.error = "none"
        /\ file' = file /\ dirs' = dirs
    BY <1>1, <1>4, Fields, GotoEffect DEF ProgramCounters, CleanupPoints, ProcBecomes, disk
  <2>2. \A a \in Assets : file[job.cand][a] = "none"
    BY <1>1, <1>4 DEF Present, FileOf
  <2>3. TypeOK'
    BY <1>2, <2>1, Types, TypesNext DEF SnapInv
  <2>4. StageInv' /\ NothingForgotten' /\ CandidateInv' /\ EndInv'
    BY <1>1, <1>2, <2>1, <2>2
    DEF SnapInv, StageInv, NothingForgotten, CandidateInv, EndInv, InCapture,
        CleanupPoints, InArchive, HasRow, Made, Copying, NoRows
  <2>5. CopyInv' /\ ReceiptInv' /\ SnapshotWhole' /\ CauseInv'
    BY <1>1, <1>2, <2>1
    DEF SnapInv, CopyInv, ReceiptInv, SnapshotWhole, CauseInv, CauseOf, Copying, Left
  <2>. QED  BY <2>3, <2>4, <2>5 DEF SnapInv
<1>5. CASE Present # {} /\ MayRemove(Least(Present)) /\ RemoveFile(Least(Present))
           /\ UNCHANGED proc
  <2>1. Least(Present) \in Assets
    BY <1>5, LeastIn DEF Present
  <2>2. /\ file' \in Files /\ dirs' = dirs /\ proc' = proc
        /\ \A g \in Gens, b \in Assets :
              file'[g][b] = IF g = job.cand /\ b = Least(Present) THEN "none"
                                                               ELSE file[g][b]
    BY <1>1, <1>5, <2>1, Fields, WriteEffect DEF RemoveFile
  <2>3. TypeOK'
    BY <1>2, <2>2, Types, TypesNext DEF SnapInv
  <2>4. StageInv' /\ NothingForgotten' /\ CandidateInv' /\ EndInv'
    BY <1>1, <1>2, <2>2
    DEF SnapInv, StageInv, NothingForgotten, CandidateInv, EndInv, InCapture,
        CleanupPoints, InArchive, HasRow, Made, Copying, NoRows
  <2>5. CopyInv' /\ ReceiptInv' /\ SnapshotWhole' /\ CauseInv'
    BY <1>1, <1>2, <2>2
    DEF SnapInv, CopyInv, ReceiptInv, SnapshotWhole, CauseInv, CauseOf, Copying, Left
  <2>. QED  BY <2>3, <2>4, <2>5 DEF SnapInv
<1>6. Present # {} => MayRemove(Least(Present))
  <2>1. ASSUME NEW a \in Present  PROVE MayRemove(a)
    BY <1>1, <1>3
    DEF Present, FileOf, SnapInv, ReceiptInv, MayRemove, Matches, BlobStates
  <2>. QED  BY <2>1, LeastIn DEF Present
<1>. QED  BY <1>4, <1>5, <1>6 DEF CleanFile

LEMMA CleanDirectoryKeeps == SnapInv /\ CleanDirectory => SnapInv'
<1> SUFFICES ASSUME SnapInv, CleanDirectory  PROVE SnapInv'
  OBVIOUS
<1>1. /\ proc.pc = "rmdir" /\ job.state = "snapshotting" /\ job.snap = NoGen
      /\ cleaned = {} /\ proc.error = "none" /\ job.error = "none"
      /\ job.cand # NoGen /\ job.cand \in Gens /\ Generation = job.cand
      /\ job.staging # "cleaned" /\ dirs \subseteq {job.cand}
  BY Fields, AtGate
  DEF CleanDirectory, At, CleanupPoints, SnapInv, CandidateInv
<1>2. proc' \in Procs /\ proc'.pc = "cleaned" /\ proc'.error = "none"
  BY <1>1, Fields, GotoEffect DEF CleanDirectory, ProgramCounters, CleanupPoints, ProcBecomes
<1>3. UNCHANGED <<job, blob, cleaned, item, file, pin, source, owner, events>> /\ dirs' = {}
  BY <1>1 DEF CleanDirectory, RemoveDirectory, rows, Quiet, world
<1>4. \A g \in Gens, a \in Assets : file[g][a] = "none"
  BY <1>1, Fields DEF SnapInv, NothingForgotten, CandidateInv, Files
<1>5. TypeOK'
  BY Types, TypesNext, <1>2, <1>3
  DEF SnapInv
<1>6. StageInv'
  BY <1>1, <1>2, <1>3, <1>4
  DEF SnapInv, StageInv, InCapture, GatePoints, CleanupPoints, InArchive
<1>7. NothingForgotten'
  BY <1>1, <1>2, <1>3, <1>4
  DEF SnapInv, NothingForgotten, HasRow, StageInv, CleanupPoints
<1>8. CandidateInv'
  BY <1>1, <1>2, <1>3, <1>4
  DEF SnapInv, CandidateInv, Made, Copying, NoRows, CleanupPoints
<1>9. EndInv'
  BY <1>1, <1>2, <1>3, <1>4
  DEF SnapInv, EndInv, Uncleaned, HasRow, Generation, FileOf, CleanupPoints
<1>10. CopyInv'
  BY <1>1, <1>2, <1>3, <1>4
  DEF SnapInv, CopyInv, Copying, Left, Current, Included, HasRow, CleanupPoints
<1>11. ReceiptInv'
  BY <1>1, <1>2, <1>3, <1>4
  DEF SnapInv, ReceiptInv, CleanupPoints
<1>12. SnapshotWhole'
  BY <1>1, <1>2, <1>3, <1>4
  DEF SnapInv, SnapshotWhole, Included, CleanupPoints
<1>13. CauseInv'
  BY <1>1, <1>2, <1>3, <1>4
  DEF SnapInv, CauseInv, CauseOf, Left, CleanupPoints
<1>. QED  BY <1>5, <1>6, <1>7, <1>8, <1>9, <1>10, <1>11, <1>12, <1>13 DEF SnapInv

LEMMA CandidateCleanedKeeps == SnapInv /\ CandidateCleaned => SnapInv'
<1> SUFFICES ASSUME SnapInv, CandidateCleaned  PROVE SnapInv'
  OBVIOUS
<1>1. /\ proc.pc = "cleaned" /\ job.state = "snapshotting" /\ job.snap = NoGen
      /\ cleaned = {} /\ proc.error = "none" /\ job.error = "none" /\ dirs = {}
  BY Fields, AtGate
  DEF CandidateCleaned, At, CleanupPoints, SnapInv, CandidateInv
<1>2. /\ job' \in Jobs /\ job'.state = "snapshotting" /\ job'.cand = NoGen
      /\ job'.snap = NoGen /\ job'.staging = "cleaned" /\ job'.error = "none"
  BY <1>1, Fields DEF CandidateCleaned, Jobs, Stagings
<1>3. proc' \in Procs /\ proc'.pc = "loop" /\ proc'.error = "none"
  BY <1>1, Fields DEF CandidateCleaned, Procs, ProgramCounters
<1>4. /\ \A a \in Assets : blob'[a] = "none"
      /\ blob' \in [Assets -> BlobStates]
      /\ item' \in [Pins -> {"none", "included", "excluded"}]
  BY DEF CandidateCleaned, BlobStates
<1>5. UNCHANGED <<cleaned, dirs, file, pin, source, owner, events>>
  BY DEF CandidateCleaned, disk, Quiet, world
<1>6. \A g \in Gens, a \in Assets : file[g][a] = "none"
  BY <1>1, Fields DEF SnapInv, NothingForgotten, Files
<1>7. TypeOK'
  BY Types, TypesNext, <1>2, <1>3, <1>4, <1>5
  DEF SnapInv
<1>8. StageInv'
  BY <1>1, <1>2, <1>3, <1>4, <1>5, <1>6
  DEF SnapInv, StageInv, InCapture, GatePoints, CleanupPoints, InArchive
<1>9. NothingForgotten'
  BY <1>1, <1>2, <1>3, <1>4, <1>5, <1>6
  DEF SnapInv, NothingForgotten, HasRow, StageInv
<1>10. CandidateInv'
  BY <1>1, <1>2, <1>3, <1>4, <1>5, <1>6
  DEF SnapInv, CandidateInv, Made, Copying, NoRows
<1>11. EndInv'
  BY <1>1, <1>2, <1>3, <1>4, <1>5, <1>6
  DEF SnapInv, EndInv, Uncleaned, HasRow, Generation, FileOf
<1>12. CopyInv'
  BY <1>1, <1>2, <1>3, <1>4, <1>5, <1>6
  DEF SnapInv, CopyInv, Copying, Left, Current, Included, HasRow
<1>13. ReceiptInv'
  BY <1>1, <1>2, <1>3, <1>4, <1>5, <1>6
  DEF SnapInv, ReceiptInv
<1>14. SnapshotWhole'
  BY <1>1, <1>2, <1>3, <1>4, <1>5, <1>6
  DEF SnapInv, SnapshotWhole, Included
<1>15. CauseInv'
  BY <1>1, <1>2, <1>3, <1>4, <1>5, <1>6
  DEF SnapInv, CauseInv, CauseOf, Left
<1>. QED  BY <1>7, <1>8, <1>9, <1>10, <1>11, <1>12, <1>13, <1>14, <1>15 DEF SnapInv

-----------------------------------------------------------------------------
(* The archive. *)

LEMMA AtArchive ==
  ASSUME SnapInv, proc.pc \in InArchive
  PROVE  /\ job.state = "archiving" /\ job.cand = NoGen /\ job.snap \in dirs
         /\ job.snap \in Gens /\ job.snap # NoGen /\ Generation = job.snap
         /\ job.staging # "cleaned" /\ dirs \subseteq {job.snap}
         /\ proc.error = "none" /\ job.error = "none"
  BY Fields
  DEF SnapInv, StageInv, CauseInv, SnapshotWhole, NothingForgotten, InArchive,
      Generation

LEMMA RevocationEffect ==
  ASSUME SnapInv, ApplyRevocations
  PROVE  /\ item' \in [Pins -> {"none", "included", "excluded"}]
         /\ Included' = Included \ Revoked
  BY Fields DEF ApplyRevocations, Included, Revoked

LEMMA InitialCheckKeeps == SnapInv /\ InitialCheck => SnapInv'
<1> SUFFICES ASSUME SnapInv, InitialCheck  PROVE SnapInv'
  OBVIOUS
<1>1. /\ proc.pc = "archive" /\ job.state = "archiving" /\ job.cand = NoGen
      /\ job.snap \in dirs /\ job.snap \in Gens /\ job.snap # NoGen
      /\ Generation = job.snap /\ job.staging # "cleaned" /\ dirs \subseteq {job.snap}
      /\ proc.error = "none" /\ job.error = "none"
  BY AtArchive DEF InitialCheck, At, InArchive
<1>2. UNCHANGED <<job, blob, cleaned, dirs, file, pin, source, owner, events>>
  BY DEF InitialCheck, disk, Quiet, world
<1>3. /\ item' \in [Pins -> {"none", "included", "excluded"}]
      /\ Included' \subseteq Included
  BY RevocationEffect DEF InitialCheck
<1>4. ASSUME NEW p \in Included
      PROVE  blob[AssetOf[p]] = "closed" /\ AssetOf[p] \notin cleaned
  BY <1>1, <1>4 DEF SnapInv, SnapshotWhole
<1>5. /\ proc' \in Procs
      /\ \/ proc'.pc = "failing" /\ proc'.error = "all_items_revoked"
         \/ proc'.pc = "built" /\ proc'.error = "none"
  <2>1. Raise("all_items_revoked") \/ Goto("built")
    BY <1>4 DEF InitialCheck
  <2>. QED
    BY <1>1, <2>1, Fields, RaiseEffect, GotoEffect
    DEF Errors, ProgramCounters, ProcBecomes
<1>6. TypeOK'
  BY Types, TypesNext, <1>2, <1>3, <1>5
  DEF SnapInv
<1>7. StageInv'
  BY <1>1, <1>2, <1>3, <1>5
  DEF SnapInv, StageInv, InCapture, GatePoints, CleanupPoints, InArchive
<1>8. NothingForgotten'
  BY <1>1, <1>2, <1>3, <1>5
  DEF SnapInv, NothingForgotten, HasRow, StageInv
<1>9. CandidateInv'
  BY <1>1, <1>2, <1>3, <1>5
  DEF SnapInv, CandidateInv, Made, Copying, NoRows
<1>10. EndInv'
  BY <1>1, <1>2, <1>3, <1>5
  DEF SnapInv, EndInv, Uncleaned, HasRow, Generation, FileOf
<1>11. CopyInv'
  BY <1>1, <1>2, <1>3, <1>5
  DEF SnapInv, CopyInv, Copying, Left, Current, Included, HasRow
<1>12. ReceiptInv'
  BY <1>1, <1>2, <1>3, <1>5
  DEF SnapInv, ReceiptInv
<1>13. SnapshotWhole'
  BY <1>1, <1>2, <1>3, <1>5
  DEF SnapInv, SnapshotWhole, Included
<1>14. CauseInv'
  BY <1>1, <1>2, <1>3, <1>5
  DEF SnapInv, CauseInv, CauseOf, Left
<1>. QED  BY <1>6, <1>7, <1>8, <1>9, <1>10, <1>11, <1>12, <1>13, <1>14 DEF SnapInv

LEMMA PostBuildKeeps == SnapInv /\ PostBuild => SnapInv'
<1> SUFFICES ASSUME SnapInv, PostBuild  PROVE SnapInv'
  OBVIOUS
<1>1. /\ proc.pc = "built" /\ job.state = "archiving" /\ job.cand = NoGen
      /\ job.snap \in dirs /\ job.snap \in Gens /\ job.snap # NoGen
      /\ Generation = job.snap /\ job.staging # "cleaned" /\ dirs \subseteq {job.snap}
      /\ proc.error = "none" /\ job.error = "none"
  BY AtArchive DEF PostBuild, At, InArchive
<1>2. UNCHANGED <<blob, cleaned, dirs, file, pin, source, owner, events>>
  BY DEF PostBuild, disk, Quiet, world
<1>3. /\ item' \in [Pins -> {"none", "included", "excluded"}]
      /\ Included' \subseteq Included
  BY Fields, RevocationEffect DEF PostBuild, Included
<1>4. /\ job' \in Jobs /\ proc' \in Procs /\ proc'.error = "none"
      /\ job'.cand = job.cand /\ job'.snap = job.snap /\ job'.staging # "cleaned"
      /\ \/ /\ job'.state = "archiving" /\ job'.error = "none"
            /\ proc'.pc = "excluded"
         \/ /\ job'.state = "complete" /\ job'.error = "none"
            /\ proc'.pc = "idle"
         \/ /\ job'.state = "failed" /\ job'.error = "permission_changed" /\ ~owner
            /\ proc'.pc = "idle"
  <2>1. CASE UNCHANGED job /\ Goto("excluded")
    BY <1>1, <2>1, Fields, GotoEffect DEF ProgramCounters, ProcBecomes
  <2>2. CASE job' = [job EXCEPT !.state = "complete", !.lease = "none"] /\ proc' = Idle
    <3>1. /\ job' \in Jobs /\ job'.state = "complete" /\ job'.error = job.error
          /\ job'.cand = job.cand /\ job'.snap = job.snap /\ job'.staging = job.staging
      BY <2>2, Fields DEF Jobs, JobStates
    <3>. QED  BY <1>1, <2>2, <3>1, IdleEffect DEF ProcBecomes
  <2>3. CASE ~owner /\ job' = Failed("permission_changed") /\ proc' = Idle
    <3>1. JobBecomes("failed", job.cand, job.snap, "pending", "permission_changed")
      BY <2>3, Fields, FailedEffect DEF Errors
    <3>. QED  BY <1>1, <2>3, <3>1, IdleEffect DEF ProcBecomes, JobBecomes
  <2>. QED  BY <2>1, <2>2, <2>3 DEF PostBuild
<1>5. TypeOK'
  BY <1>2, <1>3, <1>4, Types, TypesNext DEF SnapInv
<1>6. StageInv' /\ NothingForgotten' /\ CandidateInv' /\ EndInv'
  BY <1>1, <1>2, <1>4
  DEF SnapInv, StageInv, NothingForgotten, CandidateInv, EndInv, InCapture,
      GatePoints, CleanupPoints, InArchive, HasRow, Made, Copying
<1>7. CopyInv' /\ ReceiptInv'
  BY <1>4 DEF CopyInv, ReceiptInv, Copying
<1>8. SnapshotWhole' /\ CauseInv'
  BY <1>1, <1>2, <1>3, <1>4
  DEF SnapInv, SnapshotWhole, CauseInv, CauseOf
<1>. QED  BY <1>5, <1>6, <1>7, <1>8 DEF SnapInv

LEMMA CleanExcludedKeeps == SnapInv /\ CleanExcluded => SnapInv'
<1> SUFFICES ASSUME SnapInv, CleanExcluded  PROVE SnapInv'
  OBVIOUS
<1>1. /\ proc.pc = "excluded" /\ job.state = "archiving" /\ job.cand = NoGen
      /\ job.snap \in dirs /\ job.snap \in Gens /\ job.snap # NoGen
      /\ Generation = job.snap /\ job.staging # "cleaned" /\ dirs \subseteq {job.snap}
      /\ proc.error = "none" /\ job.error = "none"
  BY AtArchive DEF CleanExcluded, At, InArchive
<1>2. UNCHANGED <<job, blob, item, pin, source, owner, events>>
  BY DEF CleanExcluded, Quiet, world
<1>3. \A p \in Included : AssetOf[p] \notin Excluded
  BY DEF Excluded
<1>4. CASE /\ Excluded \cap Present # {} /\ RemoveFile(Least(Excluded \cap Present))
           /\ UNCHANGED <<cleaned, proc>>
  <2>1. PICK a \in Excluded \cap Present : a = Least(Excluded \cap Present)
    BY <1>4, LeastIn DEF Excluded
  <2>2. a \in Assets /\ a \in Excluded
    BY DEF Excluded
  <2>3. /\ file' \in Files /\ dirs' = dirs
        /\ \A g \in Gens, b \in Assets :
              file'[g][b] = IF g = job.snap /\ b = a THEN "none" ELSE file[g][b]
    BY <1>1, <1>4, <2>1, <2>2, Fields, WriteEffect DEF RemoveFile
  <2>4. cleaned' = cleaned /\ proc' = proc
    BY <1>4
  <2>5. TypeOK'
    BY <1>2, <2>3, <2>4, Types, TypesNext DEF SnapInv
  <2>6. StageInv' /\ NothingForgotten' /\ CandidateInv' /\ EndInv'
    BY <1>1, <1>2, <2>3, <2>4
    DEF SnapInv, StageInv, NothingForgotten, CandidateInv, EndInv, InCapture,
        GatePoints, CleanupPoints, InArchive, HasRow, Made, Copying
  <2>7. CopyInv' /\ ReceiptInv' /\ CauseInv'
    BY <1>1, <1>2, <2>3, <2>4
    DEF SnapInv, CopyInv, ReceiptInv, CauseInv, CauseOf, Copying, Left
  <2>8. SnapshotWhole'
    <3>1. ASSUME NEW p \in Included
          PROVE  /\ blob[AssetOf[p]] = "closed" /\ AssetOf[p] \notin cleaned
                 /\ file'[job.snap][AssetOf[p]] = "final"
      <4>1. AssetOf[p] \in Assets /\ AssetOf[p] # a
        BY <1>3, <2>2, SnapshotAssumption DEF Included
      <4>2. /\ blob[AssetOf[p]] = "closed" /\ AssetOf[p] \notin cleaned
            /\ file[job.snap][AssetOf[p]] = "final"
        BY <1>1 DEF SnapInv, SnapshotWhole
      <4>. QED  BY <1>1, <2>3, <4>1, <4>2
    <3>2. Included' = Included
      BY <1>2 DEF Included
    <3>. QED  BY <1>1, <1>2, <2>3, <2>4, <3>1, <3>2 DEF SnapshotWhole
  <2>. QED  BY <2>5, <2>6, <2>7, <2>8 DEF SnapInv
<1>5. CASE /\ Excluded \cap Present = {} /\ cleaned' = cleaned \cup Excluded
           /\ Goto("archive") /\ UNCHANGED disk
  <2>1. /\ proc' \in Procs /\ proc'.pc = "archive" /\ proc'.error = "none"
        /\ file' = file /\ dirs' = dirs
    BY <1>1, <1>5, Fields, GotoEffect DEF ProgramCounters, ProcBecomes, disk
  <2>2. \A g \in Gens, a \in Excluded : file[g][a] = "none"
    <3>1. \A a \in Excluded : a \in Assets /\ file[job.snap][a] = "none"
      BY <1>1, <1>5 DEF Excluded, Present, FileOf
    <3>. QED  BY <1>1, <3>1, Fields DEF SnapInv, NothingForgotten
  <2>3. cleaned' \subseteq Assets
    BY <1>5, Fields DEF Excluded
  <2>4. TypeOK'
    BY <1>2, <2>1, <2>3, Types, TypesNext DEF SnapInv
  <2>5. StageInv' /\ NothingForgotten' /\ CandidateInv' /\ EndInv'
    BY <1>1, <1>2, <1>5, <2>1, <2>2
    DEF SnapInv, StageInv, NothingForgotten, CandidateInv, EndInv, InCapture,
        GatePoints, CleanupPoints, InArchive, HasRow, Made, Copying
  <2>6. CopyInv' /\ ReceiptInv' /\ CauseInv'
    BY <1>1, <1>2, <2>1
    DEF SnapInv, CopyInv, ReceiptInv, CauseInv, CauseOf, Copying, Left
  <2>7. SnapshotWhole'
    BY <1>1, <1>2, <1>3, <1>5, <2>1 DEF SnapInv, SnapshotWhole, Included
  <2>. QED  BY <2>4, <2>5, <2>6, <2>7 DEF SnapInv
<1>. QED  BY <1>4, <1>5 DEF CleanExcluded

-----------------------------------------------------------------------------
(* The end. *)

(* With no file at the generation that is cleaned there is no file at all.   *)
LEMMA OnlyGeneration ==
  ASSUME SnapInv, Generation # NoGen
  PROVE  /\ Generation \in Gens /\ dirs \subseteq {Generation}
         /\ job.staging # "cleaned"
         /\ \A g \in Gens \ {Generation}, a \in Assets : file[g][a] = "none"
<1>1. Generation \in Gens /\ dirs \subseteq {Generation} /\ job.staging # "cleaned"
  BY Fields DEF SnapInv, StageInv, NothingForgotten, Generation
<1>. QED  BY <1>1, Fields DEF SnapInv, NothingForgotten, Files

LEMMA NoGeneration ==
  ASSUME SnapInv, Generation = NoGen
  PROVE  /\ job.cand = NoGen /\ job.snap = NoGen /\ dirs = {}
         /\ \A g \in Gens, a \in Assets : file[g][a] = "none"
<1>1. job.cand = NoGen /\ job.snap = NoGen /\ dirs = {}
  BY Fields DEF SnapInv, NothingForgotten, Generation
<1>. QED  BY <1>1, Fields DEF SnapInv, NothingForgotten, Files

(* What has no more error to raise.                                          *)
LEMMA AtIdle ==
  ASSUME SnapInv, proc.pc # "failing"
  PROVE  proc.error = "none"
  BY DEF SnapInv, CauseInv

LEMMA FailKeeps == SnapInv /\ Fail => SnapInv'
<1> SUFFICES ASSUME SnapInv, Fail  PROVE SnapInv'
  OBVIOUS
<1>1. /\ proc.pc = "failing" /\ CauseOf(proc.error) /\ proc.error \in Errors
      /\ job.state \in {"snapshotting", "archiving"}
  BY Fields DEF Fail, At, SnapInv, StageInv, CauseInv
<1>2. UNCHANGED <<blob, cleaned, item, dirs, file, pin, source, owner, events>>
  BY DEF Fail, disk, Quiet, world
<1>3. /\ job' \in Jobs /\ job'.state = "failed" /\ job'.cand = job.cand
      /\ job'.snap = job.snap /\ job'.staging = "pending" /\ job'.error = proc.error
      /\ proc' \in Procs /\ proc'.pc = "idle" /\ proc'.error = "none"
  BY <1>1, Fields, FailedEffect, IdleEffect DEF Fail, JobBecomes, ProcBecomes
<1>4. TypeOK'
  BY Types, TypesNext, <1>2, <1>3
  DEF SnapInv
<1>5. StageInv'
  BY <1>1, <1>2, <1>3
  DEF SnapInv, StageInv, InCapture, GatePoints, CleanupPoints, InArchive
<1>6. NothingForgotten'
  BY <1>1, <1>2, <1>3
  DEF SnapInv, NothingForgotten, HasRow, StageInv
<1>7. CandidateInv'
  BY <1>1, <1>2, <1>3
  DEF SnapInv, CandidateInv, Made, Copying, NoRows
<1>8. EndInv'
  BY <1>1, <1>2, <1>3
  DEF SnapInv, EndInv, Uncleaned, HasRow, Generation, FileOf
<1>9. CopyInv'
  BY <1>1, <1>2, <1>3
  DEF SnapInv, CopyInv, Copying, Left, Current, Included, HasRow
<1>10. ReceiptInv'
  BY <1>1, <1>2, <1>3
  DEF SnapInv, ReceiptInv
<1>11. SnapshotWhole'
  BY <1>1, <1>2, <1>3
  DEF SnapInv, SnapshotWhole, Included
<1>12. CauseInv'
  BY <1>1, <1>2, <1>3
  DEF SnapInv, CauseInv, CauseOf, Left
<1>. QED  BY <1>4, <1>5, <1>6, <1>7, <1>8, <1>9, <1>10, <1>11, <1>12 DEF SnapInv

LEMMA GiveUpKeeps == SnapInv /\ GiveUp => SnapInv'
<1> SUFFICES ASSUME SnapInv, GiveUp  PROVE SnapInv'
  OBVIOUS
<1>1. /\ proc.pc = "idle" /\ proc.error = "none"
      /\ job.state \in {"snapshotting", "archiving"}
  BY AtIdle DEF GiveUp, At, Active
<1>2. UNCHANGED <<blob, cleaned, item, dirs, file, pin, source, owner, events, proc>>
  BY DEF GiveUp, disk, Quiet, world
<1>3. PICK error \in {"worker_repeated_failure", "permission_changed"} :
        /\ job' = Failed(error)
        /\ error = "permission_changed" => ~owner
  BY DEF GiveUp
<1>4. /\ job' \in Jobs /\ job'.state = "failed" /\ job'.cand = job.cand
      /\ job'.snap = job.snap /\ job'.staging = "pending" /\ job'.error = error
  BY <1>3, Fields, FailedEffect DEF JobBecomes, Errors
<1>5. TypeOK'
  BY Types, TypesNext, <1>2, <1>4
  DEF SnapInv
<1>6. StageInv'
  BY <1>1, <1>2, <1>3, <1>4
  DEF SnapInv, StageInv, InCapture, GatePoints, CleanupPoints, InArchive
<1>7. NothingForgotten'
  BY <1>1, <1>2, <1>3, <1>4
  DEF SnapInv, NothingForgotten, HasRow, StageInv
<1>8. CandidateInv'
  BY <1>1, <1>2, <1>3, <1>4
  DEF SnapInv, CandidateInv, Made, Copying, NoRows
<1>9. EndInv'
  BY <1>1, <1>2, <1>3, <1>4
  DEF SnapInv, EndInv, Uncleaned, HasRow, Generation, FileOf
<1>10. CopyInv'
  BY <1>1, <1>2, <1>3, <1>4
  DEF SnapInv, CopyInv, Copying, Left, Current, Included, HasRow
<1>11. ReceiptInv'
  BY <1>1, <1>2, <1>3, <1>4
  DEF SnapInv, ReceiptInv
<1>12. SnapshotWhole'
  BY <1>1, <1>2, <1>3, <1>4
  DEF SnapInv, SnapshotWhole, Included
<1>13. CauseInv'
  BY <1>1, <1>2, <1>3, <1>4
  DEF SnapInv, CauseInv, CauseOf, Left
<1>. QED  BY <1>5, <1>6, <1>7, <1>8, <1>9, <1>10, <1>11, <1>12, <1>13 DEF SnapInv

LEMMA CompleteFilesKeeps == SnapInv /\ CompleteFiles => SnapInv'
<1> SUFFICES ASSUME SnapInv, CompleteFiles  PROVE SnapInv'
  OBVIOUS
<1>1. /\ proc.pc = "idle" /\ job.state = "complete" /\ Uncleaned # {}
      /\ Generation = job.snap /\ job.snap \in Gens /\ job.snap # NoGen
      /\ job.cand = NoGen
  BY Fields
  DEF CompleteFiles, Cleaning, At, SnapInv, EndInv, StageInv, Generation
<1>2. UNCHANGED <<job, blob, item, proc, pin, source, owner, events>>
  BY DEF CompleteFiles, Quiet, world
<1>3. /\ dirs \subseteq {job.snap} /\ job.staging # "cleaned"
      /\ \A g \in Gens \ {job.snap}, a \in Assets : file[g][a] = "none"
  BY <1>1, OnlyGeneration
<1>4. /\ file' \in Files /\ dirs' = dirs /\ cleaned' \subseteq Assets
      /\ cleaned \subseteq cleaned'
      /\ \A g \in Gens, a \in Assets :
            file'[g][a] # "none" => file[g][a] # "none" /\ a \notin cleaned'
  <2>1. CASE Present # {} /\ RemoveFile(Least(Present)) /\ UNCHANGED cleaned
    <3>1. Least(Present) \in Assets
      BY <2>1, LeastIn DEF Present
    <3>2. /\ file' \in Files /\ dirs' = dirs /\ cleaned' = cleaned
          /\ \A g \in Gens, b \in Assets :
                file'[g][b] = IF g = job.snap /\ b = Least(Present) THEN "none"
                                                                 ELSE file[g][b]
      BY <1>1, <2>1, <3>1, Fields, WriteEffect DEF RemoveFile
    <3>. QED  BY <3>2, Fields DEF SnapInv, NothingForgotten
  <2>2. CASE Present = {} /\ cleaned' = cleaned \cup Uncleaned /\ UNCHANGED disk
    <3>1. \A g \in Gens, a \in Assets : file[g][a] = "none"
      BY <1>1, <1>3, <2>2 DEF Present, FileOf
    <3>. QED  BY <2>2, <3>1, Fields DEF disk, Uncleaned
  <2>. QED  BY <2>1, <2>2 DEF CompleteFiles
<1>5. TypeOK'
  BY Types, TypesNext, <1>2, <1>4
  DEF SnapInv
<1>6. StageInv'
  BY <1>1, <1>2, <1>3, <1>4
  DEF SnapInv, StageInv, InCapture, GatePoints, CleanupPoints, InArchive
<1>7. NothingForgotten'
  BY <1>1, <1>2, <1>3, <1>4
  DEF SnapInv, NothingForgotten, HasRow, StageInv
<1>8. CandidateInv'
  BY <1>1, <1>2, <1>3, <1>4
  DEF SnapInv, CandidateInv, Made, Copying, NoRows
<1>9. EndInv'
  BY <1>1, <1>2, <1>3, <1>4
  DEF SnapInv, EndInv, Uncleaned, HasRow, Generation, FileOf
<1>10. CopyInv'
  BY <1>1, <1>2, <1>3, <1>4
  DEF SnapInv, CopyInv, Copying, Left, Current, Included, HasRow
<1>11. ReceiptInv'
  BY <1>1, <1>2, <1>3, <1>4
  DEF SnapInv, ReceiptInv
<1>12. SnapshotWhole'
  BY <1>1, <1>2, <1>3, <1>4
  DEF SnapInv, SnapshotWhole, Included
<1>13. CauseInv'
  BY <1>1, <1>2, <1>3, <1>4
  DEF SnapInv, CauseInv, CauseOf, Left
<1>. QED  BY <1>5, <1>6, <1>7, <1>8, <1>9, <1>10, <1>11, <1>12, <1>13 DEF SnapInv

LEMMA CompleteDirectoryKeeps == SnapInv /\ CompleteDirectory => SnapInv'
<1> SUFFICES ASSUME SnapInv, CompleteDirectory  PROVE SnapInv'
  OBVIOUS
<1>1. /\ proc.pc = "idle" /\ job.state = "complete" /\ Uncleaned = {}
      /\ Generation = job.snap /\ job.snap \in Gens /\ job.snap # NoGen
      /\ job.cand = NoGen
  BY Fields
  DEF CompleteDirectory, Cleaning, At, SnapInv, EndInv, StageInv, Generation
<1>2. UNCHANGED <<blob, cleaned, item, file, proc, pin, source, owner, events>>
  BY DEF CompleteDirectory, RemoveDirectory, disk, Quiet, world
<1>3. /\ \A g \in Gens, a \in Assets : file[g][a] = "none"
      /\ dirs \subseteq {job.snap} /\ job.staging # "cleaned"
  <2>1. \A g \in Gens, a \in Assets : file[g][a] # "none" => a \in Uncleaned
    BY DEF SnapInv, NothingForgotten, Uncleaned
  <2>. QED  BY <1>1, <2>1, OnlyGeneration
<1>4. /\ job' \in Jobs /\ job'.state = job.state /\ job'.staging = job.staging
      /\ job'.error = job.error /\ job'.cand = NoGen /\ dirs' = {}
      /\ job'.snap \in {job.snap, NoGen}
  <2>1. CASE Exists(job.snap) /\ RemoveDirectory /\ UNCHANGED job
    BY <1>1, <1>3, <2>1, Fields DEF RemoveDirectory
  <2>2. CASE ~Exists(job.snap) /\ job' = Cleared /\ UNCHANGED disk
    <3>1. /\ job' \in Jobs /\ job'.state = job.state /\ job'.staging = job.staging
          /\ job'.error = job.error /\ job'.cand = NoGen /\ job'.snap = NoGen
      BY <2>2, Fields DEF Cleared, Jobs
    <3>. QED  BY <1>3, <2>2, <3>1 DEF Exists, disk
  <2>. QED  BY <2>1, <2>2 DEF CompleteDirectory
<1>5. TypeOK'
  BY Types, TypesNext, <1>2, <1>4
  DEF SnapInv
<1>6. StageInv'
  BY <1>1, <1>2, <1>3, <1>4
  DEF SnapInv, StageInv, InCapture, GatePoints, CleanupPoints, InArchive
<1>7. NothingForgotten'
  BY <1>1, <1>2, <1>3, <1>4
  DEF SnapInv, NothingForgotten, HasRow, StageInv
<1>8. CandidateInv'
  BY <1>1, <1>2, <1>3, <1>4
  DEF SnapInv, CandidateInv, Made, Copying, NoRows
<1>9. EndInv'
  BY <1>1, <1>2, <1>3, <1>4
  DEF SnapInv, EndInv, Uncleaned, HasRow, Generation, FileOf
<1>10. CopyInv'
  BY <1>1, <1>2, <1>3, <1>4
  DEF SnapInv, CopyInv, Copying, Left, Current, Included, HasRow
<1>11. ReceiptInv'
  BY <1>1, <1>2, <1>3, <1>4
  DEF SnapInv, ReceiptInv
<1>12. SnapshotWhole'
  BY <1>1, <1>2, <1>3, <1>4
  DEF SnapInv, SnapshotWhole, Included
<1>13. CauseInv'
  BY <1>1, <1>2, <1>3, <1>4
  DEF SnapInv, CauseInv, CauseOf, Left
<1>. QED  BY <1>5, <1>6, <1>7, <1>8, <1>9, <1>10, <1>11, <1>12, <1>13 DEF SnapInv

LEMMA StagingCleanedKeeps == SnapInv /\ StagingCleaned => SnapInv'
<1> SUFFICES ASSUME SnapInv, StagingCleaned  PROVE SnapInv'
  OBVIOUS
<1>1. /\ proc.pc = "idle" /\ job.state \in {"complete", "failed"} /\ Uncleaned = {}
      /\ job.cand = NoGen /\ job.snap = NoGen /\ dirs = {}
  BY NoGeneration DEF StagingCleaned, Cleaning, At
<1>2. UNCHANGED <<blob, cleaned, item, dirs, file, proc, pin, source, owner, events>>
  BY DEF StagingCleaned, disk, Quiet, world
<1>3. /\ job' \in Jobs /\ job'.state = job.state /\ job'.cand = job.cand
      /\ job'.snap = job.snap /\ job'.error = job.error
  BY Fields DEF StagingCleaned, Jobs, Stagings
<1>4. TypeOK'
  BY Types, TypesNext, <1>2, <1>3
  DEF SnapInv
<1>5. StageInv'
  BY <1>1, <1>2, <1>3
  DEF SnapInv, StageInv, InCapture, GatePoints, CleanupPoints, InArchive
<1>6. NothingForgotten'
  BY <1>1, <1>2, <1>3
  DEF SnapInv, NothingForgotten, HasRow, StageInv
<1>7. CandidateInv'
  BY <1>1, <1>2, <1>3
  DEF SnapInv, CandidateInv, Made, Copying, NoRows
<1>8. EndInv'
  BY <1>1, <1>2, <1>3
  DEF SnapInv, EndInv, Uncleaned, HasRow, Generation, FileOf
<1>9. CopyInv'
  BY <1>1, <1>2, <1>3
  DEF SnapInv, CopyInv, Copying, Left, Current, Included, HasRow
<1>10. ReceiptInv'
  BY <1>1, <1>2, <1>3
  DEF SnapInv, ReceiptInv
<1>11. SnapshotWhole'
  BY <1>1, <1>2, <1>3
  DEF SnapInv, SnapshotWhole, Included
<1>12. CauseInv'
  BY <1>1, <1>2, <1>3
  DEF SnapInv, CauseInv, CauseOf, Left
<1>. QED  BY <1>4, <1>5, <1>6, <1>7, <1>8, <1>9, <1>10, <1>11, <1>12 DEF SnapInv

LEMMA TerminalFileKeeps == SnapInv /\ TerminalFile => SnapInv'
<1> SUFFICES ASSUME SnapInv, TerminalFile  PROVE SnapInv'
  OBVIOUS
<1>1. /\ proc.pc = "idle" /\ job.state = "failed" /\ Generation # NoGen
      /\ Generation \in Gens /\ dirs \subseteq {Generation} /\ job.staging # "cleaned"
      /\ proc.error = "none" /\ proc \in Procs
  BY Fields, OnlyGeneration, AtIdle DEF TerminalFile, Cleaning, At
<1>2. UNCHANGED <<blob, cleaned, item, pin, source, owner, events>>
  BY DEF TerminalFile, Quiet, world
<1>3. Uncleaned # {} /\ Least(Uncleaned) \in Assets /\ Uncleaned' = Uncleaned
  BY <1>2, LeastIn DEF TerminalFile, Uncleaned, HasRow
<1>4. /\ job' \in Jobs /\ job'.state = job.state /\ job'.cand = job.cand
      /\ job'.snap = job.snap /\ job'.error = job.error /\ job'.staging # "cleaned"
      /\ Generation' = Generation /\ proc' \in Procs /\ proc'.error = "none"
      /\ dirs' = dirs /\ file' \in Files
      /\ \A g \in Gens, a \in Assets : file'[g][a] # "none" => file[g][a] # "none"
      /\ \/ proc'.pc = "idle"
         \/ /\ proc'.pc = "row"
            /\ file'[Generation][Least(Uncleaned)] = "none"
  <2>1. CASE /\ ~Exists(Generation) \/ FileOf(Least(Uncleaned)) = "none"
             /\ Goto("row") /\ UNCHANGED <<job, disk>>
    <3>1. file[Generation][Least(Uncleaned)] = "none"
      BY <1>1, <1>3, <2>1 DEF Exists, FileOf, SnapInv, NothingForgotten
    <3>2. proc' \in Procs /\ proc'.pc = "row" /\ proc'.error = "none"
      BY <1>1, <2>1, GotoEffect DEF ProgramCounters, ProcBecomes
    <3>. QED  BY <1>1, <2>1, <3>1, <3>2, Fields DEF disk, Generation
  <2>2. CASE /\ RemoveFile(Least(Uncleaned)) /\ Goto("row") /\ UNCHANGED job
    <3>1. /\ file' \in Files /\ dirs' = dirs
          /\ \A g \in Gens, b \in Assets :
                file'[g][b] = IF g = Generation /\ b = Least(Uncleaned) THEN "none"
                                                                     ELSE file[g][b]
      BY <1>1, <1>3, <2>2, Fields, WriteEffect DEF RemoveFile
    <3>2. proc' \in Procs /\ proc'.pc = "row" /\ proc'.error = "none"
      BY <1>1, <2>2, GotoEffect DEF ProgramCounters, ProcBecomes
    <3>. QED  BY <1>1, <1>3, <2>2, <3>1, <3>2, Fields DEF Generation
  <2>3. CASE Blocked
    <3>1. /\ job' \in Jobs /\ job'.state = job.state /\ job'.cand = job.cand
          /\ job'.snap = job.snap /\ job'.error = job.error
          /\ job'.staging = "blocked"
      BY <2>3, Fields DEF Blocked, Jobs, Stagings
    <3>2. Generation' = Generation
      BY <3>1 DEF Generation
    <3>. QED  BY <1>1, <2>3, <3>1, <3>2, Fields DEF Blocked, disk
  <2>. QED  BY <2>1, <2>2, <2>3 DEF TerminalFile
<1>5. TypeOK'
  BY Types, TypesNext, <1>2, <1>4
  DEF SnapInv
<1>6. StageInv'
  BY <1>1, <1>2, <1>3, <1>4
  DEF SnapInv, StageInv, InCapture, GatePoints, CleanupPoints, InArchive
<1>7. NothingForgotten'
  BY <1>1, <1>2, <1>3, <1>4
  DEF SnapInv, NothingForgotten, HasRow, StageInv
<1>8. CandidateInv'
  BY <1>1, <1>2, <1>3, <1>4
  DEF SnapInv, CandidateInv, Made, Copying, NoRows
<1>9. EndInv'
  BY <1>1, <1>3, <1>4 DEF EndInv, FileOf
<1>10. CopyInv'
  BY <1>1, <1>2, <1>3, <1>4
  DEF SnapInv, CopyInv, Copying, Left, Current, Included, HasRow
<1>11. ReceiptInv'
  BY <1>1, <1>2, <1>3, <1>4
  DEF SnapInv, ReceiptInv
<1>12. SnapshotWhole'
  BY <1>1, <1>2, <1>3, <1>4
  DEF SnapInv, SnapshotWhole, Included
<1>13. CauseInv'
  BY <1>1, <1>2, <1>3, <1>4
  DEF SnapInv, CauseInv, CauseOf, Left
<1>. QED  BY <1>5, <1>6, <1>7, <1>8, <1>9, <1>10, <1>11, <1>12, <1>13 DEF SnapInv

LEMMA TerminalRowKeeps == SnapInv /\ TerminalRow => SnapInv'
<1> SUFFICES ASSUME SnapInv, TerminalRow  PROVE SnapInv'
  OBVIOUS
<1>1. /\ proc.pc = "row" /\ job.state = "failed" /\ Generation # NoGen
      /\ Uncleaned # {} /\ FileOf(Least(Uncleaned)) = "none" /\ proc.error = "none"
  BY AtIdle DEF TerminalRow, At, SnapInv, EndInv, StageInv
<1>2. UNCHANGED <<job, blob, item, dirs, file, pin, source, owner, events>>
  BY DEF TerminalRow, disk, Quiet, world
<1>3. PICK a \in Assets : cleaned' = cleaned \cup {a} /\ a = Least(Uncleaned)
  BY <1>1, LeastIn DEF TerminalRow, Uncleaned
<1>4. \A g \in Gens : file[g][a] = "none"
  BY <1>1, <1>3, OnlyGeneration DEF FileOf
<1>5. proc' \in Procs /\ proc'.pc = "idle" /\ proc'.error = "none"
  BY IdleEffect DEF TerminalRow, ProcBecomes
<1>6. cleaned' \subseteq Assets
  BY <1>3, Fields
<1>7. TypeOK'
  BY Types, TypesNext, <1>2, <1>5, <1>6
  DEF SnapInv
<1>8. StageInv'
  BY <1>1, <1>2, <1>3, <1>4, <1>5
  DEF SnapInv, StageInv, InCapture, GatePoints, CleanupPoints, InArchive
<1>9. NothingForgotten'
  BY <1>1, <1>2, <1>3, <1>4, <1>5
  DEF SnapInv, NothingForgotten, HasRow, StageInv
<1>10. CandidateInv'
  BY <1>1, <1>2, <1>3, <1>4, <1>5
  DEF SnapInv, CandidateInv, Made, Copying, NoRows
<1>11. EndInv'
  BY <1>1, <1>2, <1>3, <1>4, <1>5
  DEF SnapInv, EndInv, Uncleaned, HasRow, Generation, FileOf
<1>12. CopyInv'
  BY <1>1, <1>2, <1>3, <1>4, <1>5
  DEF SnapInv, CopyInv, Copying, Left, Current, Included, HasRow
<1>13. ReceiptInv'
  BY <1>1, <1>2, <1>3, <1>4, <1>5
  DEF SnapInv, ReceiptInv
<1>14. SnapshotWhole'
  BY <1>1, <1>2, <1>3, <1>4, <1>5
  DEF SnapInv, SnapshotWhole, Included
<1>15. CauseInv'
  BY <1>1, <1>2, <1>3, <1>4, <1>5
  DEF SnapInv, CauseInv, CauseOf, Left
<1>. QED  BY <1>7, <1>8, <1>9, <1>10, <1>11, <1>12, <1>13, <1>14, <1>15 DEF SnapInv

LEMMA TerminalDirectoryKeeps == SnapInv /\ TerminalDirectory => SnapInv'
<1> SUFFICES ASSUME SnapInv, TerminalDirectory  PROVE SnapInv'
  OBVIOUS
<1>1. /\ proc.pc = "idle" /\ job.state = "failed" /\ Generation # NoGen
      /\ Generation \in Gens /\ dirs \subseteq {Generation} /\ job.staging # "cleaned"
      /\ proc.error = "none" /\ proc \in Procs
  BY Fields, OnlyGeneration, AtIdle DEF TerminalDirectory, Cleaning, At
<1>2. UNCHANGED <<blob, cleaned, item, file, pin, source, owner, events>> /\ Uncleaned = {}
  BY DEF TerminalDirectory, RemoveDirectory, Blocked, disk, Quiet, world
<1>3. \A g \in Gens, a \in Assets : file[g][a] = "none"
  BY <1>2, Fields DEF SnapInv, NothingForgotten, Uncleaned, Files
<1>4. /\ job' \in Jobs /\ job'.state = job.state /\ job'.cand = job.cand
      /\ job'.snap = job.snap /\ job'.error = job.error /\ job'.staging # "cleaned"
      /\ proc' \in Procs /\ proc'.error = "none" /\ dirs' \subseteq dirs
      /\ \/ proc'.pc = "idle"
         \/ proc'.pc = "directory_row" /\ dirs' = {}
  <2>1. CASE RemoveDirectory /\ Goto("directory_row") /\ UNCHANGED job
    <3>1. proc' \in Procs /\ proc'.pc = "directory_row" /\ proc'.error = "none"
      BY <1>1, <2>1, GotoEffect DEF ProgramCounters, ProcBecomes
    <3>. QED  BY <1>1, <2>1, <3>1, Fields DEF RemoveDirectory
  <2>2. CASE Blocked
    <3>1. /\ job' \in Jobs /\ job'.state = job.state /\ job'.cand = job.cand
          /\ job'.snap = job.snap /\ job'.error = job.error
          /\ job'.staging = "blocked"
      BY <2>2, Fields DEF Blocked, Jobs, Stagings
    <3>. QED  BY <1>1, <2>2, <3>1 DEF Blocked, disk
  <2>. QED  BY <2>1, <2>2 DEF TerminalDirectory
<1>5. TypeOK'
  BY Types, TypesNext, <1>2, <1>4, Fields
  DEF SnapInv
<1>6. StageInv'
  BY <1>1, <1>2, <1>3, <1>4
  DEF SnapInv, StageInv, InCapture, GatePoints, CleanupPoints, InArchive
<1>7. NothingForgotten'
  BY <1>1, <1>2, <1>3, <1>4
  DEF SnapInv, NothingForgotten, HasRow, StageInv
<1>8. CandidateInv'
  BY <1>1, <1>2, <1>3, <1>4
  DEF SnapInv, CandidateInv, Made, Copying, NoRows
<1>9. EndInv'
  BY <1>1, <1>2, <1>3, <1>4
  DEF SnapInv, EndInv, Uncleaned, HasRow, Generation, FileOf
<1>10. CopyInv'
  BY <1>1, <1>2, <1>3, <1>4
  DEF SnapInv, CopyInv, Copying, Left, Current, Included, HasRow
<1>11. ReceiptInv'
  BY <1>1, <1>2, <1>3, <1>4
  DEF SnapInv, ReceiptInv
<1>12. SnapshotWhole'
  BY <1>1, <1>2, <1>3, <1>4
  DEF SnapInv, SnapshotWhole, Included
<1>13. CauseInv'
  BY <1>1, <1>2, <1>3, <1>4
  DEF SnapInv, CauseInv, CauseOf, Left
<1>. QED  BY <1>5, <1>6, <1>7, <1>8, <1>9, <1>10, <1>11, <1>12, <1>13 DEF SnapInv

LEMMA TerminalDirectoryRowKeeps == SnapInv /\ TerminalDirectoryRow => SnapInv'
<1> SUFFICES ASSUME SnapInv, TerminalDirectoryRow  PROVE SnapInv'
  OBVIOUS
<1>1. /\ proc.pc = "directory_row" /\ job.state = "failed" /\ dirs = {}
      /\ proc.error = "none"
  BY AtIdle DEF TerminalDirectoryRow, At, SnapInv, EndInv, StageInv
<1>2. UNCHANGED <<blob, cleaned, item, dirs, file, pin, source, owner, events>>
  BY DEF TerminalDirectoryRow, disk, Quiet, world
<1>3. /\ job' \in Jobs /\ job'.state = job.state /\ job'.cand = NoGen
      /\ job'.snap = NoGen /\ job'.error = job.error
  BY Fields DEF TerminalDirectoryRow, Cleared, Jobs
<1>4. proc' \in Procs /\ proc'.pc = "idle" /\ proc'.error = "none"
  BY IdleEffect DEF TerminalDirectoryRow, ProcBecomes
<1>5. TypeOK'
  BY Types, TypesNext, <1>2, <1>3, <1>4
  DEF SnapInv
<1>6. StageInv'
  BY <1>1, <1>2, <1>3, <1>4
  DEF SnapInv, StageInv, InCapture, GatePoints, CleanupPoints, InArchive
<1>7. NothingForgotten'
  BY <1>1, <1>2, <1>3, <1>4
  DEF SnapInv, NothingForgotten, HasRow, StageInv
<1>8. CandidateInv'
  BY <1>1, <1>2, <1>3, <1>4
  DEF SnapInv, CandidateInv, Made, Copying, NoRows
<1>9. EndInv'
  BY <1>1, <1>2, <1>3, <1>4
  DEF SnapInv, EndInv, Uncleaned, HasRow, Generation, FileOf
<1>10. CopyInv'
  BY <1>1, <1>2, <1>3, <1>4
  DEF SnapInv, CopyInv, Copying, Left, Current, Included, HasRow
<1>11. ReceiptInv'
  BY <1>1, <1>2, <1>3, <1>4
  DEF SnapInv, ReceiptInv
<1>12. SnapshotWhole'
  BY <1>1, <1>2, <1>3, <1>4
  DEF SnapInv, SnapshotWhole, Included
<1>13. CauseInv'
  BY <1>1, <1>2, <1>3, <1>4
  DEF SnapInv, CauseInv, CauseOf, Left
<1>. QED  BY <1>5, <1>6, <1>7, <1>8, <1>9, <1>10, <1>11, <1>12, <1>13 DEF SnapInv

-----------------------------------------------------------------------------
(* The theorems. *)

LEMMA InitInv == Init => SnapInv
<1> SUFFICES ASSUME Init  PROVE SnapInv
  OBVIOUS
<1>1. /\ job \in Jobs /\ job.state = "snapshotting" /\ job.cand = NoGen
      /\ job.snap = NoGen /\ job.staging = "pending" /\ job.error = "none"
  BY SnapshotAssumption DEF Init, Jobs, JobStates, Errors, Stagings
<1>2. proc \in Procs /\ proc.pc = "idle" /\ proc.error = "none"
  BY DEF Init, Idle, Procs, ProgramCounters, Errors
<1>3. /\ file \in Files /\ blob \in [Assets -> BlobStates]
      /\ \A g \in Gens, a \in Assets : file[g][a] = "none"
      /\ \A a \in Assets : blob[a] = "none"
  BY DEF Init, Files, BlobStates
<1>4. TypeOK
  BY <1>1, <1>2, <1>3, Types, SnapshotAssumption DEF Init, Gens
<1>5. StageInv /\ NothingForgotten /\ CandidateInv /\ EndInv
  BY <1>1, <1>2, <1>3
  DEF Init, StageInv, NothingForgotten, CandidateInv, EndInv, NoRows, InCapture,
      GatePoints, CleanupPoints, InArchive, Made, Copying
<1>6. CopyInv /\ ReceiptInv /\ SnapshotWhole /\ CauseInv
  BY <1>1, <1>2, <1>3, SnapshotAssumption
  DEF Init, CopyInv, ReceiptInv, SnapshotWhole, CauseInv, CauseOf, Copying
<1>. QED  BY <1>4, <1>5, <1>6 DEF SnapInv

LEMMA NextInv == SnapInv /\ [Next]_vars => SnapInv'
<1> SUFFICES ASSUME SnapInv, [Next]_vars  PROVE SnapInv'
  OBVIOUS
<1>1. CASE Capture
  BY <1>1, BudgetKeeps, LoopKeeps, PlanKeeps, MakeDirectoryKeeps,
     RecordDirectoryKeeps, RecordMetadataKeeps, RenewKeeps, StartBlobKeeps,
     RecordOpenBlobKeeps, CopyBlobKeeps, RenameBlobKeeps, RecordClosedBlobKeeps,
     RecordProgressKeeps, FinalizeKeeps
  DEF Capture
<1>2. CASE CleanCandidate \/ ArchiveStep
  BY <1>2, RecordIntentKeeps, CleanFileKeeps, CleanDirectoryKeeps,
     CandidateCleanedKeeps, InitialCheckKeeps, PostBuildKeeps, CleanExcludedKeeps
  DEF CleanCandidate, ArchiveStep
<1>3. CASE End
  BY <1>3, CompleteFilesKeeps, CompleteDirectoryKeeps, StagingCleanedKeeps,
     TerminalFileKeeps, TerminalRowKeeps, TerminalDirectoryKeeps,
     TerminalDirectoryRowKeeps
  DEF End
<1>4. CASE Claim \/ GiveUp \/ Fail
  BY <1>4, ClaimKeeps, GiveUpKeeps, FailKeeps
<1>5. CASE Environment
  BY <1>5, HideKeeps, DeletePinKeeps, UnlinkSourceKeeps, DeleteAccountKeeps,
     InterruptKeeps, StorageFaultKeeps, CaptureBusyKeeps, CleanupBusyKeeps
  DEF Environment
<1>6. CASE UNCHANGED vars
  BY <1>6
  DEF vars, SnapInv, TypeOK, StageInv, NothingForgotten, CandidateInv, EndInv,
      CopyInv, ReceiptInv, SnapshotWhole, CauseInv, CauseOf, NoRows, HasRow,
      Uncleaned, Generation, FileOf, Left, Current, Included
<1>. QED  BY <1>1, <1>2, <1>3, <1>4, <1>5, <1>6 DEF Next, WorkerStep

(* The rows, the files and the worker keep their shape, and an export is     *)
(* resumed at most MAX_ABNORMAL_RESUMES times (claim_next, worker.py).       *)
THEOREM SnapshotTypeOK == Spec => []TypeOK
<1>1. SnapInv => TypeOK
  BY DEF SnapInv
<1>. QED  BY InitInv, NextInv, <1>1, PTL DEF Spec

(* What is archived has the whole file of every item still included, however *)
(* often the capture was given up and whatever was revoked (_finalize,       *)
(* _cleanup_excluded_blobs).                                                 *)
THEOREM SnapshotComplete == Spec => []SnapshotWhole
<1>1. SnapInv => SnapshotWhole
  BY DEF SnapInv
<1>. QED  BY InitInv, NextInv, <1>1, PTL DEF Spec

(* No directory and no file of a snapshot is lost sight of, and a cleanup    *)
(* that reports success has left nothing (_cleanup_candidate,                *)
(* _terminal_staging_cleanup).                                               *)
THEOREM SnapshotAccounted == Spec => []NothingForgotten
<1>1. SnapInv => NothingForgotten
  BY DEF SnapInv
<1>. QED  BY InitInv, NextInv, <1>1, PTL DEF Spec

(* An export of a snapshot fails for what happened to it: a missing source   *)
(* means a deleted pin of the account, and its own files never fail it but   *)
(* for the one reuse after a removal (capture, fail_job).                    *)
THEOREM SnapshotFailsForCause == Spec => []FailsForCause
<1>1. SnapInv => FailsForCause
  BY DEF SnapInv, CauseInv, CauseOf, FailsForCause
<1>. QED  BY InitInv, NextInv, <1>1, PTL DEF Spec

=============================================================================
