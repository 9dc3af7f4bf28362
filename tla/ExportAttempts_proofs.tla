----------------------- MODULE ExportAttempts_proofs -----------------------
(* Theorems of ExportAttempts, for every set of items, every fault and every *)
(* number of events and resumptions: what is safe about the attempts of an   *)
(* export, their rows and their files.                                       *)
EXTENDS ExportAttempts, FiniteSetTheorems, WellFoundedInduction, TLAPS

-----------------------------------------------------------------------------
(* Types. *)

Stagings == {"pending", "cleaned", "blocked"}
Readies == {"absent", "retained", "pending", "cleaned", "blocked"}
Jobs == [state: JobStates, gen: Gens, lease: {"none", "held", "lost"},
         resume: 0..MaxResumes, staging: Stagings, ready: Readies]
Receipts == [ino: Inodes \cup {NoFile}, stamp: Stamps]
Recs == [Kinds -> [Gens -> FileRows]]
Disks == [Paths -> Inodes \cup {NoFile}]
Contents == {"partial", "whole", "damaged"}
Files == [Inodes -> [ctime: 0..2, data: Contents, items: SUBSET Items]]
Procs == [pc: ProgramCounters, mode: Modes, at: Gens, then: ProgramCounters,
          revoked: SUBSET Items, items: SUBSET Items]
Counts == [count: 0..MaxEvents, worst: {"delay", "fault", "unread"}]

LEMMA Types ==
    TypeOK <=>
        /\ job \in Jobs /\ zip \in Receipts /\ included \subseteq Items
        /\ allowed \subseteq Items /\ owner \in BOOLEAN
        /\ att \in [Gens -> AttemptStates] /\ rec \in Recs /\ dirs \subseteq Gens
        /\ disk \in Disks /\ file \in Files /\ proc \in Procs /\ events \in Counts
  BY DEF TypeOK, Jobs, Stagings, Readies, Receipts, Recs, Disks, Contents, Files,
    Procs, Counts

LEMMA TypesNext ==
    TypeOK' <=>
        /\ job' \in Jobs /\ zip' \in Receipts /\ included' \subseteq Items
        /\ allowed' \subseteq Items /\ owner' \in BOOLEAN
        /\ att' \in [Gens -> AttemptStates] /\ rec' \in Recs /\ dirs' \subseteq Gens
        /\ disk' \in Disks /\ file' \in Files /\ proc' \in Procs /\ events' \in Counts
  BY DEF TypeOK, Jobs, Stagings, Readies, Receipts, Recs, Disks, Contents, Files,
    Procs, Counts

(* Generations are inodes, and none is the foreign one.                      *)
LEMMA Numbers ==
    /\ 0 \in Gens /\ NoFile \notin Inodes /\ Foreign \in Inodes /\ Foreign \notin Gens
    /\ \A g \in Gens : g \in Inodes /\ g \in Nat /\ g # NoFile /\ g # Foreign
    /\ \A i \in Inodes : i \in Gens \/ i = Foreign
    /\ \A g \in Nat : g <= MaxEvents => g \in Gens
  BY AttemptsAssumption DEF Gens, Inodes, Foreign, NoFile

(* Every path is one of three, and they are all different.                   *)
LEMMA PathsApart ==
    /\ Ready \in Paths /\ NoPath \notin Paths
    /\ \A g \in Gens :
         /\ Part(g) \in Paths /\ Quar(g) \in Paths
         /\ Part(g) # Ready /\ Quar(g) # Ready
         /\ \A h \in Gens : /\ Part(g) # Quar(h)
                            /\ Part(g) = Part(h) => g = h
                            /\ Quar(g) = Quar(h) => g = h
    /\ \A p \in Paths : p = Ready \/ \E g \in Gens : p = Part(g) \/ p = Quar(g)
  BY DEF Paths, Part, Quar, Ready, NoPath

-----------------------------------------------------------------------------
(* The invariant.                                                            *)

(* Where the worker is. *)

Starting == {"initial", "mkdir", "attempt_row"}
Writing == {"mkfile", "file_row", "stream", "close"}
Verified == {"post_build", "publish"}
Replacing == {"quarantine", "quarantine_move", "quarantine_close", "rename"}
Publishing == Replacing \cup {"candidate"}
Cleaning == {"clean", "clean_row", "clean_attempt"}
Finishing == {"handoff", "complete_quarantine", "complete_row",
              "complete_directory", "complete_attempt", "complete_done"}
Ending == {"staging_row", "staging_attempt"}

Working == {"archiving", "verifying"}
Live == {"writing", "closed", "verifying"}

A(g) == rec["archive"][g]
Q(g) == rec["quarantine"][g]
Left(r) == r.state \notin {"none", "cleaned"}
Clear == \A g \in Gens : att[g] \in {"none", "cleaned"}

(* Which attempts there can be: the current one is begun when every older    *)
(* one is cleaned.                                                           *)
AttemptsInv ==
    \A g \in Gens :
      /\ g > job.gen => att[g] = "none"
      /\ g < job.gen => att[g] \in {"retiring", "cleaned"}
      /\ g + 1 < job.gen => att[g] = "cleaned"
      /\ att[job.gen] # "none" /\ g < job.gen => att[g] = "cleaned"
      /\ att[g] \in Live => g \in dirs
      /\ att[g] = "cleaned" => g \notin dirs
      /\ g \in dirs => g <= job.gen

(* What the job's row says of them.                                          *)
JobInv ==
    /\ job.state = "queued" => att[job.gen] = "none" /\ Clear
    /\ job.state = "archiving" => att[job.gen] \notin {"verifying", "published"}
    /\ job.state = "verifying" => att[job.gen] \in {"verifying", "retiring", "cleaned"}
    /\ job.state = "failed" => \A g \in Gens : att[g] \in {"none", "retiring", "cleaned"}
    /\ job.state \in {"complete", "expired"} => att[job.gen] \in {"published", "cleaned"}
    /\ job.state \in ActiveStates => job.staging = "pending"
    /\ job.staging = "cleaned" => Clear
    /\ job.ready = "absent" <=> job.state \in ActiveStates \cup {"failed"}
    /\ job.ready = "retained" <=> job.state = "complete"
    /\ job.ready \in {"absent", "cleaned"} => zip = NoReceipt
    /\ job.ready \notin {"absent", "cleaned"} => zip.ino = job.gen

(* The rows of an attempt's files, against the attempt's state.              *)
RowsInv ==
    \A g \in Gens :
      /\ att[g] = "none" => A(g).state = "none" /\ Q(g).state = "none"
      /\ att[g] = "writing" => A(g).state \in {"none", "writing"}
      /\ att[g] = "closed" => A(g).state = "closed"
      /\ att[g] \in {"writing", "closed"} => Q(g).state = "none"
      /\ att[g] = "verifying" =>
           /\ A(g).state \in {"verifying", "publishing", "ready_candidate"}
           /\ Q(g).state \in {"none", "writing", "closed"}
           /\ A(g).state = "verifying" => Q(g).state = "none"
           /\ A(g).state = "ready_candidate" => Q(g).state # "writing"
      /\ att[g] = "retiring" => A(g).state \in {"none", "retiring", "cleaned"}
      /\ att[g] = "published" => /\ A(g).state \in {"published", "cleaned"}
                                 /\ Q(g).state \in {"none", "closed", "cleaned"}
      /\ att[g] = "cleaned" => ~Left(A(g)) /\ ~Left(Q(g))

(* The columns of a file's row, against its state.                           *)
ArchiveInv ==
    \A g \in Gens :
      /\ A(g).state = "none" => A(g) = NoRow
      /\ A(g).state # "none" => A(g).ino = g /\ A(g).path \in {Ready, Part(g)}
      /\ A(g).state \in {"writing", "closed", "verifying"} =>
           A(g).path = Part(g) /\ A(g).intent = NoPath
      /\ A(g).state = "publishing" => A(g).path = Part(g) /\ A(g).intent = Ready
      /\ A(g).state \in {"ready_candidate", "published"} =>
           A(g).path = Ready /\ A(g).intent = NoPath
      /\ A(g).state = "retiring" => A(g).intent = NoPath \/ A(g).path = Part(g)
      /\ A(g).state = "retiring" => A(g).intent \in {NoPath, Ready}
      /\ A(g).state = "cleaned" => A(g).intent = NoPath
      /\ A(g).state \in {"closed", "verifying", "publishing", "ready_candidate",
                         "published"} => A(g).stamp # Open

QuarantineInv ==
    \A g \in Gens :
      /\ Q(g).state \in {"none", "writing", "closed", "cleaned"}
      /\ Q(g).state = "none" => Q(g) = NoRow
      /\ Q(g).state = "writing" => /\ Q(g).path = Ready /\ Q(g).intent = Quar(g)
                                   /\ Q(g).stamp = Open /\ Q(g).ino \in Inodes \ {g}
      /\ Q(g).state = "closed" => /\ Q(g).intent = NoPath /\ Q(g).stamp # Open
                                  /\ \/ Q(g).path = Quar(g)
                                     \/ Q(g).path = Ready /\ job.state = "failed"
      /\ Q(g).state = "cleaned" => Q(g).intent = NoPath /\ Q(g).path \in {Ready, Quar(g)}
      /\ A(g).path = Ready => Q(g).path # Ready

(* What is where on the disk.                                                *)
DiskInv ==
    /\ \A p, q \in Paths : disk[p] = disk[q] /\ disk[p] # NoFile => p = q
    /\ \A g \in Gens :
         /\ disk[Part(g)] \in {NoFile, g}
         /\ disk[Part(g)] = g => file[g].ctime = 0
         /\ disk[Quar(g)] \in {NoFile, Q(g).ino}
         /\ g \notin dirs => disk[Part(g)] = NoFile /\ disk[Quar(g)] = NoFile
         /\ A(g).state \in {"writing", "closed", "verifying"} => disk[Ready] # g
         /\ att[g] = "none" => /\ \A p \in Paths : disk[p] # g
                               /\ file[g].ctime = 0
    /\ disk[Ready] # NoFile => file[disk[Ready]].ctime \in 0..1

(* What is in the ZIP that may be published, and the published one.          *)
ArchiveHolds ==
    /\ att[job.gen] = "verifying" => file[job.gen].items = included
    /\ A(job.gen).state = "ready_candidate" =>
         Matches(disk[Ready], A(job.gen)) /\ file[job.gen].data = "whole"
    /\ CompleteArchiveMatches

(* While no ZIP has become unreadable: where the file of an attempt can be.  *)
PlaceInv ==
    events.worst # "unread" =>
      \A g \in Gens :
        /\ \A h \in Gens : disk[Quar(h)] # g
        /\ disk[Part(g)] = g => \/ A(g).state = "none" /\ att[g] \in {"writing", "retiring"}
                                \/ Left(A(g)) /\ A(g).path = Part(g)
        /\ disk[Ready] = g => \/ A(g).state = "publishing"
                              \/ Left(A(g)) /\ A(g).path = Ready
                              \/ /\ A(g).state = "retiring" /\ A(g).intent = Ready
                                 /\ job.state = "failed"
                              \/ zip.ino = g
        /\ A(g).state \in {"closed", "verifying", "publishing"} =>
             file[g].data = "whole"
        /\ Q(g).ino \in {NoFile, Foreign}

(* What holds whatever the worker is doing.                                  *)
Resting ==
    /\ AttemptsInv /\ JobInv /\ RowsInv /\ ArchiveInv /\ QuarantineInv
    /\ DiskInv /\ ArchiveHolds /\ PlaceInv

(* What a step of the worker relies on: of the job,                          *)
StateAt ==
    /\ proc.pc \in Starting \cup Writing \cup
         {"validate", "recover_retiring", "recover_archiving"} => job.state = "archiving"
    /\ proc.pc \in Verified \cup Publishing \cup {"final", "rotate", "recover_verifying"} =>
         job.state = "verifying"
    /\ proc.pc \in {"rotate_recovered", "marking", "failing"} => job.state \in Working
    /\ proc.pc = "revoking" => \/ proc.then = "mkdir" /\ job.state = "archiving"
                               \/ proc.then = "rotate" /\ job.state = "verifying"
    /\ proc.pc \in Finishing => job.state \in {"complete", "expired"}
    /\ proc.pc \in Finishing => proc.mode = "complete"
    /\ proc.mode = "complete" => proc.pc \in Finishing \cup {"releasing"}
    /\ proc.pc = "releasing" => job.state \notin ActiveStates
    /\ proc.pc = "ready_row" => /\ job.state = "expired" /\ job.ready = "pending"
                                /\ disk[Ready] = NoFile
    /\ proc.pc = "staging" => job.state \in {"failed", "expired"}
    /\ proc.pc \in Cleaning =>
         \/ proc.then = "initial" /\ job.state = "archiving" /\ job.gen = proc.at + 1
               /\ att[job.gen] = "none"
         \/ proc.then = "rotate_recovered" /\ job.state \in Working /\ proc.at = job.gen
         \/ proc.then = "recover_retiring" /\ job.state = "archiving"
         \/ /\ proc.then = "releasing" /\ job.state = "failed" /\ proc.mode = "terminal"
            /\ A(proc.at).state = "cleaned" \/ A(proc.at).path = Ready

(* of the attempt it is making,                                              *)
BuildAt ==
    /\ proc.pc \in Starting => att[job.gen] = "none"
    /\ proc.pc = "revoking" =>
         /\ proc.then = "mkdir" => att[job.gen] = "none"
         /\ proc.revoked \subseteq included \ allowed
    /\ proc.pc \in Starting \cup Writing \cup {"revoking"} =>
         \A g \in Gens : g < job.gen => att[g] = "cleaned"
    /\ proc.pc = "attempt_row" => job.gen \in dirs
    /\ proc.pc \in {"attempt_row", "mkfile", "file_row", "stream"} =>
         proc.items = included
    /\ proc.pc \in Writing => att[job.gen] = "writing"
    /\ proc.pc \in {"mkfile", "file_row"} => A(job.gen).state = "none"
    /\ proc.pc = "mkfile" => /\ \A p \in Paths : disk[p] # job.gen
                             /\ file[job.gen].ctime = 0
    /\ proc.pc = "file_row" => disk[Part(job.gen)] = job.gen
    /\ proc.pc \in {"stream", "close"} => A(job.gen).state = "writing"
    /\ proc.pc = "validate" => att[job.gen] = "closed"
    /\ proc.pc \in {"close", "validate"} => file[job.gen].items = included
    /\ proc.pc \in Verified => att[job.gen] = "verifying" /\ A(job.gen).state = "verifying"
    /\ proc.pc \in Publishing => att[job.gen] = "verifying" /\ A(job.gen).state = "publishing"
    /\ proc.pc = "quarantine_move" => Q(job.gen).state = "writing"
    /\ proc.pc = "quarantine_close" => /\ Q(job.gen).state = "writing"
                                       /\ disk[Quar(job.gen)] = Q(job.gen).ino
    /\ proc.pc \in {"rename", "candidate"} => Q(job.gen).state \in {"none", "closed"}
    /\ proc.pc \in Replacing /\ proc.mode # "publishing" => disk[Ready] # job.gen
    /\ proc.pc = "candidate" => disk[Ready] = job.gen
    /\ proc.pc = "final" => A(job.gen).state = "ready_candidate"
    /\ proc.pc = "rotate" \/ (proc.pc = "revoking" /\ proc.then = "rotate") =>
         att[job.gen] = "retiring" /\ A(job.gen).path = Part(job.gen)

(* of the one it is cleaning,                                                *)
CleanAt ==
    /\ proc.pc \in Cleaning => att[proc.at] \in {"retiring", "cleaned"}
    /\ proc.pc \in {"clean_row", "clean_attempt"} => att[proc.at] = "retiring"
    /\ proc.pc = "clean_row" => Left(A(proc.at)) \/ Left(Q(proc.at))
    /\ proc.pc = "clean_attempt" =>
         ~Left(A(proc.at)) /\ ~Left(Q(proc.at)) /\ proc.at \notin dirs
    /\ proc.pc \in {"recover_archiving", "recover_verifying", "rotate_recovered"} =>
         \A g \in Gens : g < job.gen => att[g] = "cleaned"
    /\ proc.pc = "rotate_recovered" => att[job.gen] = "cleaned"
    /\ proc.pc \in {"complete_quarantine", "complete_row", "complete_directory",
                    "complete_attempt"} =>
         att[job.gen] = "published" /\ A(job.gen).state = "cleaned"
    /\ proc.pc = "complete_row" => Q(job.gen).state = "closed"
    /\ proc.pc \in {"complete_directory", "complete_attempt"} => ~Left(Q(job.gen))
    /\ proc.pc = "complete_attempt" => job.gen \notin dirs
    /\ proc.pc = "complete_done" => att[job.gen] = "cleaned"

(* and of the first one that is not cleaned.                                 *)
First(g) == /\ att[g] \notin {"none", "cleaned"}
            /\ \A h \in Gens : att[h] \notin {"none", "cleaned"} => g <= h
StagingAt ==
    /\ proc.pc \in Ending => StagingWork /\ ~Clear
    /\ \A g \in Gens : First(g) =>
         /\ proc.pc = "staging_row" => Left(A(g)) \/ Left(Q(g))
         /\ proc.pc = "staging_attempt" => ~Left(A(g)) /\ ~Left(Q(g)) /\ g \notin dirs

(* Where the file of that attempt can be, with no ZIP unreadable.            *)
PlaceAt ==
    events.worst # "unread" =>
      /\ proc.pc = "close" => file[job.gen].data = "whole"
      /\ proc.pc = "marking" /\ A(job.gen).state = "publishing" => disk[Ready] # job.gen
      /\ proc.pc = "clean_row" /\ Left(A(proc.at)) =>
           \A p \in Paths : disk[p] # proc.at
      /\ \A g \in Gens :
           First(g) /\ proc.pc = "staging_row" /\ Left(A(g)) =>
             zip.ino = g \/ \A p \in Paths : disk[p] # g

(* Events pay for generations: of the items that may no longer be exported,  *)
(* and of an attempt that will be given up, each costs one.                  *)
Paid == \/ proc.pc \in Writing \cup {"validate", "marking", "failing"}
        \/ proc.pc = "revoking" /\ proc.then = "rotate" /\ proc.revoked # {}
Debt == IF /\ job.state \in ActiveStates /\ ~Paid
           /\ att[job.gen] \in {"writing", "closed", "retiring", "cleaned"}
        THEN 1 ELSE 0
CountInv == job.gen + Debt + Cardinality(included \ allowed) <= events.count

AttInv == /\ TypeOK /\ Resting /\ StateAt /\ BuildAt /\ CleanAt /\ StagingAt
          /\ PlaceAt /\ CountInv

-----------------------------------------------------------------------------
(* What the type invariant says of the fields. *)

LEMMA Fields ==
  ASSUME AttInv
  PROVE  /\ job \in Jobs /\ zip \in Receipts /\ att \in [Gens -> AttemptStates]
         /\ rec \in Recs /\ disk \in Disks /\ file \in Files /\ proc \in Procs
         /\ events \in Counts
         /\ job.state \in JobStates /\ job.gen \in Gens /\ job.staging \in Stagings
         /\ job.ready \in Readies /\ job.gen \in Nat
         /\ proc.pc \in ProgramCounters /\ proc.mode \in Modes /\ proc.at \in Gens
         /\ proc.then \in ProgramCounters
         /\ events.count \in Nat /\ events.count <= MaxEvents
         /\ \A g \in Gens : att[g] \in AttemptStates
<1>1. /\ job \in Jobs /\ proc \in Procs /\ events \in Counts
      /\ att \in [Gens -> AttemptStates]
  BY Types DEF AttInv
<1>2. /\ job.state \in JobStates /\ job.gen \in Gens /\ job.staging \in Stagings
      /\ job.ready \in Readies
  BY <1>1 DEF Jobs
<1>3. /\ proc.pc \in ProgramCounters /\ proc.mode \in Modes /\ proc.at \in Gens
      /\ proc.then \in ProgramCounters
  BY <1>1 DEF Procs
<1>4. events.count \in Nat /\ events.count <= MaxEvents
  BY <1>1, AttemptsAssumption DEF Counts
<1>5. \A g \in Gens : att[g] \in AttemptStates
  BY <1>1
<1>. QED  BY <1>2, <1>3, <1>4, <1>5, Types, Numbers DEF AttInv

LEMMA RowFields ==
  ASSUME AttInv
  PROVE  \A g \in Gens :
           /\ A(g) \in FileRows /\ Q(g) \in FileRows
           /\ A(g).state \in FileStates /\ Q(g).state \in FileStates
           /\ A(g).path \in Paths \cup {NoPath} /\ Q(g).path \in Paths \cup {NoPath}
           /\ A(g).intent \in Paths \cup {NoPath} /\ Q(g).intent \in Paths \cup {NoPath}
           /\ A(g).ino \in Inodes \cup {NoFile} /\ Q(g).ino \in Inodes \cup {NoFile}
           /\ A(g).stamp \in Stamps /\ Q(g).stamp \in Stamps
<1>1. \A g \in Gens : A(g) \in FileRows /\ Q(g) \in FileRows
  BY Fields DEF Recs, Kinds, A, Q
<1>. QED  BY <1>1 DEF FileRows

LEMMA DiskFields ==
  ASSUME AttInv
  PROVE  /\ \A p \in Paths : disk[p] \in Inodes \cup {NoFile}
         /\ \A i \in Inodes : /\ file[i].ctime \in 0..2 /\ file[i].data \in Contents
                              /\ file[i].items \subseteq Items
<1>1. \A i \in Inodes :
        file[i] \in [ctime: 0..2, data: Contents, items: SUBSET Items]
  BY Fields DEF Files
<1>2. \A p \in Paths : disk[p] \in Inodes \cup {NoFile}
  BY Fields DEF Disks
<1>. QED  BY <1>1, <1>2

-----------------------------------------------------------------------------
(* What the assignments of the actions do. *)

JobIs(state, gen, staging, ready) ==
    /\ job' \in Jobs /\ job'.state = state /\ job'.gen = gen
    /\ job'.staging = staging /\ job'.ready = ready
SameJob == JobIs(job.state, job.gen, job.staging, job.ready)

ProcIs(pc, mode, at, then, revoked, items) ==
    /\ proc' \in Procs /\ proc'.pc = pc /\ proc'.mode = mode /\ proc'.at = at
    /\ proc'.then = then /\ proc'.revoked = revoked /\ proc'.items = items
Moved(pc) == ProcIs(pc, proc.mode, proc.at, proc.then, proc.revoked, proc.items)
Entered(mode, pc) == ProcIs(pc, mode, proc.at, proc.then, proc.revoked, proc.items)
Sweeping(g, then) ==
    ProcIs("clean", proc.mode, g, then, proc.revoked, proc.items)

RowIs(k, g, state, path, intent, ino, stamp) ==
    /\ rec' \in Recs
    /\ rec'[k][g].state = state /\ rec'[k][g].path = path
    /\ rec'[k][g].intent = intent /\ rec'[k][g].ino = ino
    /\ rec'[k][g].stamp = stamp
    /\ \A l \in Kinds, h \in Gens : l # k \/ h # g => rec'[l][h] = rec[l][h]
SameRec == /\ rec' \in Recs
           /\ \A h \in Gens : A(h)' = A(h) /\ Q(h)' = Q(h)

AttIs(g, state) ==
    /\ att' \in [Gens -> AttemptStates]
    /\ \A h \in Gens : att'[h] = IF h = g THEN state ELSE att[h]

Removed(p) ==
    /\ disk' \in Disks
    /\ \A q \in Paths : disk'[q] = IF q = p THEN NoFile ELSE disk[q]
Renamed(p, q) ==
    /\ disk' \in Disks /\ file' \in Files
    /\ \A s \in Paths : disk'[s] = IF s = q THEN disk[p]
                                   ELSE IF s = p THEN NoFile ELSE disk[s]
    /\ \A i \in Inodes :
         /\ file'[i].ctime = IF i = disk[p] THEN file[i].ctime + 1 ELSE file[i].ctime
         /\ file'[i].data = file[i].data /\ file'[i].items = file[i].items

LEMMA GotoEffect ==
  ASSUME proc \in Procs, NEW pc \in ProgramCounters, Goto(pc)
  PROVE  Moved(pc)
  BY DEF Procs, Goto, Moved, ProcIs

LEMMA EnterEffect ==
  ASSUME proc \in Procs, NEW mode \in Modes, NEW pc \in ProgramCounters,
         Enter(mode, pc)
  PROVE  Entered(mode, pc)
  BY DEF Procs, Enter, Entered, ProcIs

LEMMA CleanEffect ==
  ASSUME proc \in Procs, NEW g \in Gens, NEW then \in ProgramCounters,
         Clean(g, then)
  PROVE  Sweeping(g, then)
  BY DEF Procs, Clean, Sweeping, ProcIs, ProgramCounters

LEMMA DownEffect ==
  ASSUME proc' = Down
  PROVE  ProcIs("down", "none", 0, "down", {}, {})
  BY Numbers DEF Down, ProcIs, Procs, ProgramCounters, Modes

LEMMA IdleEffect ==
  ASSUME proc' = [Down EXCEPT !.pc = "idle"]
  PROVE  ProcIs("idle", "none", 0, "down", {}, {})
  BY Numbers DEF Down, ProcIs, Procs, ProgramCounters, Modes

LEMMA SameJobEffect ==
  ASSUME job \in Jobs, UNCHANGED job
  PROVE  SameJob
  BY DEF SameJob, JobIs

LEMMA LeaseEffect ==
  ASSUME job \in Jobs, NEW lease \in {"none", "held", "lost"},
         job' = [job EXCEPT !.lease = lease]
  PROVE  SameJob
  BY DEF SameJob, JobIs, Jobs

LEMMA RowEffect ==
  ASSUME rec \in Recs, NEW k \in Kinds, NEW g \in Gens, NEW r \in FileRows,
         SetRow(k, g, r)
  PROVE  RowIs(k, g, r.state, r.path, r.intent, r.ino, r.stamp)
  BY DEF Recs, SetRow, RowIs

LEMMA AttEffect ==
  ASSUME att \in [Gens -> AttemptStates], NEW g \in Gens, NEW state \in AttemptStates,
         att' = [att EXCEPT ![g] = state]
  PROVE  AttIs(g, state)
  BY DEF AttIs

LEMMA UnlinkEffect ==
  ASSUME disk \in Disks, NEW p \in Paths, Unlink(p)
  PROVE  Removed(p)
  BY DEF Disks, Unlink, Removed

LEMMA RenameEffect ==
  ASSUME disk \in Disks, file \in Files, NEW p \in Paths, NEW q \in Paths, p # q,
         disk[p] \in Inodes, file[disk[p]].ctime \in 0..1, Rename(p, q)
  PROVE  Renamed(p, q)
<1>1. disk' \in Disks
  BY DEF Disks, Rename
<1>2. \A s \in Paths : disk'[s] = IF s = q THEN disk[p]
                                  ELSE IF s = p THEN NoFile ELSE disk[s]
  BY DEF Disks, Rename
<1>3. file' = [file EXCEPT ![disk[p]].ctime = @ + 1]
  BY DEF Rename
<1>4. \A i \in Inodes :
         /\ file'[i] \in [ctime: 0..2, data: Contents, items: SUBSET Items]
         /\ file'[i].ctime = IF i = disk[p] THEN file[i].ctime + 1 ELSE file[i].ctime
         /\ file'[i].data = file[i].data /\ file'[i].items = file[i].items
  <2> TAKE i \in Inodes
  <2>1. file[i] \in [ctime: 0..2, data: Contents, items: SUBSET Items]
    BY DEF Files
  <2>2. CASE i = disk[p]
    <3>1. file'[i] = [file[i] EXCEPT !.ctime = @ + 1]
      BY <1>3, <2>2 DEF Files
    <3>. QED  BY <2>1, <2>2, <3>1
  <2>3. CASE i # disk[p]
    <3>1. file'[i] = file[i]
      BY <1>3, <2>3 DEF Files
    <3>. QED  BY <2>1, <2>3, <3>1
  <2>. QED  BY <2>2, <2>3
<1>5. file' \in Files
  <2>1. DOMAIN file' = Inodes /\ file' = [i \in Inodes |-> file'[i]]
    BY <1>3 DEF Files
  <2>. QED  BY <2>1, <1>4 DEF Files
<1>. QED  BY <1>1, <1>2, <1>4, <1>5 DEF Renamed

(* What is given up: the attempts of S that were under way.                  *)
Retirable == {"writing", "closed", "verifying", "publishing", "ready_candidate"}
GaveUp(S) ==
    /\ att' \in [Gens -> AttemptStates] /\ rec' \in Recs
    /\ \A g \in Gens :
         /\ att'[g] = IF g \in S /\ att[g] \in Live THEN "retiring" ELSE att[g]
         /\ A(g)' = IF g \in S /\ A(g).state \in Retirable
                    THEN [A(g) EXCEPT !.state = "retiring"] ELSE A(g)
         /\ A(g)'.state = IF g \in S /\ A(g).state \in Retirable
                          THEN "retiring" ELSE A(g).state
         /\ A(g)'.path = A(g).path /\ A(g)'.intent = A(g).intent
         /\ A(g)'.ino = A(g).ino /\ A(g)'.stamp = A(g).stamp
         /\ Q(g)' = Q(g)

LEMMA RetireEffect ==
  ASSUME att \in [Gens -> AttemptStates], rec \in Recs, NEW S \in SUBSET Gens,
         att' = RetiredAttempts(S), rec' = RetiredFiles(S)
  PROVE  GaveUp(S)
<1>1. att' \in [Gens -> AttemptStates]
  BY DEF RetiredAttempts, AttemptStates
<1>2. \A g \in Gens :
        att'[g] = IF g \in S /\ att[g] \in Live THEN "retiring" ELSE att[g]
  BY DEF RetiredAttempts, Live
<1>3. \A g \in Gens : A(g) \in FileRows
  BY DEF Recs, A, Kinds
<1>4. \A g \in Gens : A(g)' = IF g \in S /\ A(g).state \in Retirable
                              THEN [A(g) EXCEPT !.state = "retiring"] ELSE A(g)
  BY DEF RetiredFiles, Recs, Kinds, A, Retirable
<1>5. \A g \in Gens :
         /\ A(g)' \in FileRows
         /\ A(g)'.state = IF g \in S /\ A(g).state \in Retirable
                          THEN "retiring" ELSE A(g).state
         /\ A(g)'.path = A(g).path /\ A(g)'.intent = A(g).intent
         /\ A(g)'.ino = A(g).ino /\ A(g)'.stamp = A(g).stamp
  BY <1>3, <1>4 DEF FileRows, FileStates, AttemptStates
<1>6. \A g \in Gens : Q(g)' = Q(g)
  BY DEF RetiredFiles, Recs, Kinds, Q
<1>7. rec' \in Recs
  <2>1. rec' = [rec EXCEPT !["archive"] = rec'["archive"]]
    BY DEF RetiredFiles, Recs, Kinds
  <2>2. rec'["archive"] = [g \in Gens |-> rec'["archive"][g]]
    BY DEF RetiredFiles, Recs, Kinds
  <2>3. rec'["archive"] \in [Gens -> FileRows]
    BY <2>2, <1>5 DEF A
  <2>. QED  BY <2>1, <2>3 DEF Recs
<1>. QED  BY <1>1, <1>2, <1>4, <1>5, <1>6, <1>7 DEF GaveUp

-----------------------------------------------------------------------------
(* Steps that change neither rows nor files. *)

(* An event is counted, and an unreadable ZIP is not forgotten.              *)
Later == /\ events' \in Counts /\ events'.count \in Nat
         /\ events.count <= events'.count
         /\ events.worst = "unread" => events'.worst = "unread"
Counted == Later /\ events'.count = events.count + 1

LEMMA EventEffect ==
  ASSUME AttInv, NEW kind \in FaultKinds, Event(kind)
  PROVE  /\ Counted
         /\ kind \in {"capture", "damage"} => events'.worst = "unread"
<1>1. events \in Counts /\ events.count \in Nat
  BY Fields
<1>2. /\ events.count < MaxEvents
      /\ events' = [count |-> events.count + 1, worst |-> Severity(kind)]
  BY DEF Event
<1>3. /\ Severity(kind) \in {"delay", "fault", "unread"}
      /\ events.worst = "unread" => Severity(kind) = "unread"
      /\ kind \in {"capture", "damage"} => Severity(kind) = "unread"
  BY <1>1 DEF Severity, Counts
<1>. QED  BY <1>1, <1>2, <1>3, AttemptsAssumption DEF Counts, Counted, Later

LEMMA NoEvent ==
  ASSUME AttInv, UNCHANGED events
  PROVE  Later /\ events'.count = events.count
  BY Fields DEF Later

SameRows == UNCHANGED <<zip, included, att, rec>>

LEMMA RestingKeeps ==
  ASSUME AttInv, SameJob, SameRows, UNCHANGED fs, Later
  PROVE  Resting'
<1>1. /\ AttemptsInv /\ JobInv /\ RowsInv /\ ArchiveInv /\ QuarantineInv
      /\ DiskInv /\ ArchiveHolds /\ PlaceInv
  BY DEF AttInv, Resting
<1>2. /\ zip' = zip /\ included' = included /\ att' = att /\ rec' = rec
      /\ dirs' = dirs /\ disk' = disk /\ file' = file
      /\ job'.state = job.state /\ job'.gen = job.gen
      /\ job'.staging = job.staging /\ job'.ready = job.ready
      /\ events.worst = "unread" => events'.worst = "unread"
  BY DEF SameRows, fs, SameJob, JobIs, Later
<1>3. AttemptsInv'
  BY <1>1, <1>2 DEF AttemptsInv
<1>4. JobInv'
  BY <1>1, <1>2 DEF JobInv, Clear
<1>5. RowsInv'
  BY <1>1, <1>2 DEF RowsInv, Left, A, Q
<1>6. ArchiveInv'
  BY <1>1, <1>2 DEF ArchiveInv, A
<1>7. QuarantineInv'
  BY <1>1, <1>2 DEF QuarantineInv, A, Q
<1>8. DiskInv'
  BY <1>1, <1>2 DEF DiskInv, A, Q
<1>9. ArchiveHolds'
  BY <1>1, <1>2 DEF ArchiveHolds, CompleteArchiveMatches, Retained, Matches,
    SameInode, A
<1>10. PlaceInv'
  BY <1>1, <1>2 DEF PlaceInv, Left, A, Q
<1>. QED  BY <1>3, <1>4, <1>5, <1>6, <1>7, <1>8, <1>9, <1>10 DEF Resting

(* The worker moves on: what it relies on where it goes has to be shown.     *)
LEMMA MoveKeeps ==
  ASSUME AttInv, SameJob, SameRows, UNCHANGED <<fs, world>>, Later, proc' \in Procs,
         StateAt', BuildAt', CleanAt', StagingAt', PlaceAt', CountInv'
  PROVE  AttInv'
<1>1. Resting'
  BY RestingKeeps
<1>2. TypeOK'
  BY Fields, Types, TypesNext DEF AttInv, SameJob, JobIs, SameRows, fs, world, Later
<1>. QED  BY <1>1, <1>2 DEF AttInv

(* The process is gone.                                                      *)
LEMMA ExitKeeps ==
  ASSUME AttInv, Exit, SameRows, UNCHANGED <<fs, world>>, Later,
         Paid => events'.count >= events.count + 1
  PROVE  AttInv'
<1>1. StateAt /\ CountInv
  BY DEF AttInv
<1>2. /\ zip' = zip /\ included' = included /\ att' = att /\ rec' = rec
      /\ allowed' = allowed
  BY DEF SameRows, world
<1>3. ProcIs("down", "none", 0, "down", {}, {})
  BY DownEffect DEF Exit
<1>4. SameJob
  <2>1. job \in Jobs /\ job.lease \in {"none", "held", "lost"}
    BY Fields DEF Jobs
  <2>. QED  BY <2>1, LeaseEffect DEF Exit
<1>5. StateAt'
  BY <1>3 DEF StateAt, ProcIs, Starting, Writing, Verified, Publishing, Replacing,
    Finishing, Cleaning
<1>6. BuildAt'
  BY <1>3 DEF BuildAt, ProcIs, Starting, Writing, Verified, Publishing, Replacing
<1>7. CleanAt'
  BY <1>3 DEF CleanAt, ProcIs, Cleaning
<1>8. StagingAt'
  BY <1>3 DEF StagingAt, ProcIs, Ending
<1>9. PlaceAt'
  BY <1>3 DEF PlaceAt, ProcIs
<1>10. CountInv'
  <2>1. Cardinality(included \ allowed)' = Cardinality(included \ allowed)
    BY <1>2
  <2>2. Cardinality(included \ allowed) \in Nat
    BY Fields, Types, AttemptsAssumption, FS_Subset, FS_CardinalityType,
      FS_Difference DEF AttInv
  <2>3. /\ job'.gen = job.gen /\ job'.state = job.state /\ job.gen \in Nat
        /\ events.count \in Nat /\ events'.count \in Nat
        /\ events'.count >= events.count
    BY <1>4, Fields DEF SameJob, JobIs, Later
  <2>4. Debt' <= Debt \/ (Debt' = 1 /\ Debt = 0 /\ Paid)
    BY <1>2, <2>3 DEF Debt
  <2>5. Debt \in 0..1 /\ Debt' \in 0..1
    BY DEF Debt
  <2>. QED  BY <1>1, <2>1, <2>2, <2>3, <2>4, <2>5 DEF CountInv
<1>11. proc' \in Procs
  BY <1>3 DEF ProcIs
<1>. QED  BY <1>4, <1>5, <1>6, <1>7, <1>8, <1>9, <1>10, <1>11, MoveKeeps

(* A worker that is nowhere relies on nothing.                               *)
LEMMA NowhereAt ==
  ASSUME proc'.pc \in {"down", "idle"}, proc'.mode # "complete"
  PROVE  StateAt' /\ BuildAt' /\ CleanAt' /\ StagingAt' /\ PlaceAt'
<1>1. StateAt'
  BY DEF StateAt, Starting, Writing, Verified, Publishing, Replacing, Finishing,
    Cleaning
<1>2. BuildAt'
  BY DEF BuildAt, Starting, Writing, Verified, Publishing, Replacing
<1>3. CleanAt' /\ StagingAt' /\ PlaceAt'
  BY DEF CleanAt, Cleaning, StagingAt, Ending, PlaceAt
<1>. QED  BY <1>1, <1>2, <1>3

LEMMA CostIsNat ==
  ASSUME AttInv
  PROVE  /\ Cardinality(included \ allowed) \in Nat /\ IsFiniteSet(included)
         /\ IsFiniteSet(included \ allowed)
         /\ Debt \in 0..1
<1>1. IsFiniteSet(included) /\ IsFiniteSet(included \ allowed)
  BY Types, AttemptsAssumption, FS_Subset, FS_Difference DEF AttInv
<1>2. Cardinality(included \ allowed) \in Nat
  BY <1>1, FS_CardinalityType
<1>. QED  BY <1>1, <1>2 DEF Debt

LEMMA CountKeeps ==
  ASSUME AttInv, UNCHANGED <<included, allowed>>, job'.gen = job.gen, Later,
         Debt' <= Debt \/ events'.count = events.count + 1
  PROVE  CountInv'
<1>1. Cardinality(included \ allowed)' = Cardinality(included \ allowed)
  OBVIOUS
<1>2. Debt' \in 0..1
  BY DEF Debt
<1>. QED  BY <1>1, <1>2, CostIsNat, Fields DEF CountInv, AttInv, Later

(* The attempts under way are given up, by a failure or without one.         *)
LEMMA GiveUpKeeps ==
  ASSUME AttInv, NEW S \in SUBSET Gens, GaveUp(S), job.gen \in S, job.state \in ActiveStates,
         NEW state \in {job.state, "failed"}, JobIs(state, job.gen, "pending", "absent"),
         UNCHANGED <<zip, included, fs>>, Later,
         state # "failed" /\ A(job.gen).state = "publishing" =>
            events'.worst = "unread" \/ disk[Ready] # job.gen
  PROVE  Resting'
<1>1. /\ AttemptsInv /\ JobInv /\ RowsInv /\ ArchiveInv /\ QuarantineInv
      /\ DiskInv /\ ArchiveHolds /\ PlaceInv
  BY DEF AttInv, Resting
<1>2. /\ zip' = zip /\ included' = included
      /\ dirs' = dirs /\ disk' = disk /\ file' = file
      /\ events.worst = "unread" => events'.worst = "unread"
      /\ job'.state = state /\ job'.gen = job.gen /\ job'.staging = "pending"
      /\ job'.ready = "absent" /\ job.gen \in Gens
      /\ job.state \in {"queued", "archiving", "verifying"}
  BY Fields DEF fs, Later, JobIs, ActiveStates
<1>3. \A g \in Gens :
         /\ att[g] \in AttemptStates
         /\ att'[g] = IF g \in S /\ att[g] \in Live THEN "retiring" ELSE att[g]
         /\ A(g)'.state = IF g \in S /\ A(g).state \in Retirable
                          THEN "retiring" ELSE A(g).state
         /\ A(g)'.path = A(g).path /\ A(g)'.intent = A(g).intent
         /\ A(g)'.ino = A(g).ino /\ A(g)'.stamp = A(g).stamp
         /\ A(g).state = "none" => A(g)' = A(g)
         /\ Q(g)' = Q(g)
  BY Fields DEF GaveUp, Retirable
<1>4. \A g \in Gens :
         /\ att[g] # "published" /\ att'[g] \in {"none", "retiring", "cleaned"} \cup Live
         /\ g \notin S => att[g] \notin Live
         /\ A(g).state \in Retirable => att[g] \in Live \cup {"retiring"} /\ g = job.gen
  <2> TAKE g \in Gens
  <2>1. att[g] \in AttemptStates /\ g \in Nat /\ job.gen \in Nat
    BY <1>3, Numbers, Fields
  <2>2. g # job.gen => att[g] \in {"none", "retiring", "cleaned"}
    BY <1>1, <2>1 DEF AttemptsInv
  <2>3. att[job.gen] # "published"
    BY <1>1, <1>2 DEF JobInv
  <2>. QED  BY <1>1, <1>3, <2>1, <2>2, <2>3 DEF RowsInv, Live, Retirable,
            AttemptStates, Left
<1>5. AttemptsInv'
  BY <1>1, <1>2, <1>3 DEF AttemptsInv, Live
<1>6. JobInv'
  <2>1. \A g \in Gens : state = "failed" => att'[g] \in {"none", "retiring", "cleaned"}
    BY <1>3, <1>4 DEF Live, AttemptStates
  <2>2. job.state = "queued" => \A g \in Gens : att'[g] = att[g]
    BY <1>1, <1>3 DEF JobInv, Clear, Live
  <2>. QED  BY <1>1, <1>2, <1>3, <2>1, <2>2 DEF JobInv, Clear, Live, ActiveStates
<1>7. RowsInv'
  BY <1>1, <1>3, <1>4 DEF RowsInv, Left, Live, Retirable
<1>8. ArchiveInv'
  BY <1>1, <1>3 DEF ArchiveInv, Retirable
<1>9. QuarantineInv'
  BY <1>1, <1>2, <1>3 DEF QuarantineInv
<1>10. DiskInv'
  BY <1>1, <1>2, <1>3 DEF DiskInv, Retirable, Live
<1>11. ArchiveHolds'
  BY <1>1, <1>2, <1>3 DEF ArchiveHolds, CompleteArchiveMatches, Retained, Live,
    Retirable
<1>12. PlaceInv'
  BY <1>1, <1>2, <1>3, <1>4 DEF PlaceInv, Left, Live, Retirable, ArchiveInv
<1>. QED  BY <1>5, <1>6, <1>7, <1>8, <1>9, <1>10, <1>11, <1>12 DEF Resting

-----------------------------------------------------------------------------
(* Errors. *)

(* An ExportError of a build or of a recovery: never of what comes after the *)
(* export is complete.                                                       *)
Unmoved == proc.mode = "build" /\ A(job.gen).state = "publishing" =>
             events'.worst = "unread" \/ disk[Ready] # job.gen

LEMMA RaiseExportKeeps ==
  ASSUME AttInv, RaiseExportError, Later, job.state \in Working,
         proc.mode # "complete", Unmoved
  PROVE  AttInv'
<1>1. /\ UNCHANGED <<job, zip, included, att, rec, dirs, disk, file, allowed, owner>>
      /\ proc.mode = "build" => Goto("marking")
      /\ proc.mode # "build" => Goto("failing")
  BY DEF RaiseExportError, rows, fs, world
<1>2. PICK pc \in {"marking", "failing"} :
        /\ Moved(pc)
        /\ pc = "marking" => proc.mode = "build"
  <2>1. "marking" \in ProgramCounters /\ "failing" \in ProgramCounters
    BY DEF ProgramCounters
  <2>. QED  BY <1>1, <2>1, Fields, GotoEffect
<1>3. StateAt'
  BY <1>1, <1>2 DEF StateAt, Moved, ProcIs, Starting, Writing, Verified, Publishing,
    Replacing, Finishing, Cleaning
<1>4. BuildAt'
  BY <1>2 DEF BuildAt, Moved, ProcIs, Starting, Writing, Verified, Publishing, Replacing
<1>5. CleanAt' /\ StagingAt'
  BY <1>2 DEF CleanAt, StagingAt, Moved, ProcIs, Cleaning, Ending
<1>6. PlaceAt'
  BY <1>1, <1>2 DEF PlaceAt, Moved, ProcIs, Unmoved, A
<1>7. CountInv'
  <2>1. Debt' = 0
    BY <1>2 DEF Debt, Paid, Moved, ProcIs
  <2>. QED  BY <1>1, <2>1, CountKeeps, CostIsNat
<1>8. SameJob
  BY <1>1, SameJobEffect, Fields
<1>9. proc' \in Procs
  BY <1>2 DEF Moved, ProcIs
<1>10. SameRows /\ UNCHANGED <<fs, world>>
  BY <1>1 DEF SameRows, fs, world
<1>. QED  BY <1>3, <1>4, <1>5, <1>6, <1>7, <1>8, <1>9, <1>10, MoveKeeps

(* An ExportStorageError, wherever a file operation is tried.                *)
LEMMA RaiseStorageKeeps ==
  ASSUME AttInv, RaiseStorageError, Later, Unmoved,
         proc.mode \in {"build", "archiving"} => job.state \in Working,
         Paid => proc.mode \in {"build", "archiving"} \/ events'.count = events.count + 1
  PROVE  AttInv'
<1>1. UNCHANGED <<zip, included, att, rec, dirs, disk, file, allowed, owner>>
  BY DEF RaiseStorageError, fs, world
<1>2. CASE RaiseExportError /\ proc.mode \in {"build", "archiving"}
  BY <1>2, RaiseExportKeeps
<1>3. CASE Exit /\ (proc.mode \notin {"build", "archiving"} \/ AfterRotation)
  <2>1. SameRows /\ UNCHANGED <<fs, world>>
    BY <1>1 DEF SameRows, fs, world
  <2>2. Paid => events'.count = events.count + 1
    BY <1>3 DEF AfterRotation, Paid, Writing
  <2>. QED  BY <1>3, <2>1, <2>2, ExitKeeps, Fields DEF Later
<1>4. CASE /\ proc.mode = "complete" /\ job.state = "complete" /\ job.ready = "retained"
           /\ job' = [job EXCEPT !.staging = "blocked"] /\ Goto("releasing")
  <2>1. /\ AttemptsInv /\ JobInv /\ RowsInv /\ ArchiveInv /\ QuarantineInv
        /\ DiskInv /\ ArchiveHolds /\ PlaceInv
    BY DEF AttInv, Resting
  <2>2. JobIs(job.state, job.gen, "blocked", job.ready)
    BY <1>4, Fields DEF JobIs, Jobs, Stagings
  <2>3. Moved("releasing")
    BY <1>4, Fields, GotoEffect DEF ProgramCounters
  <2>4. AttemptsInv' /\ RowsInv' /\ ArchiveInv' /\ QuarantineInv' /\ DiskInv'
    BY <1>1, <2>1, <2>2 DEF AttemptsInv, RowsInv, ArchiveInv, QuarantineInv, DiskInv,
      Left, A, Q, JobIs
  <2>5. JobInv'
    BY <1>1, <1>4, <2>1, <2>2 DEF JobInv, Clear, JobIs, ActiveStates
  <2>6. ArchiveHolds'
    BY <1>1, <2>1, <2>2 DEF ArchiveHolds, CompleteArchiveMatches, Retained, Matches,
      SameInode, A, JobIs
  <2>7. PlaceInv'
    BY <1>1, <2>1, <2>2 DEF PlaceInv, Left, A, Q, JobIs, Later
  <2>8. StateAt'
    BY <1>4, <2>2, <2>3 DEF StateAt, Moved, ProcIs, JobIs, Starting, Writing, Verified,
      Publishing, Replacing, Finishing, Cleaning, ActiveStates
  <2>9. BuildAt'
    BY <2>3 DEF BuildAt, Moved, ProcIs, Starting, Writing, Verified, Publishing,
      Replacing
  <2>10. CleanAt' /\ StagingAt' /\ PlaceAt'
    BY <2>3 DEF CleanAt, StagingAt, PlaceAt, Moved, ProcIs, Cleaning, Ending
  <2>11. CountInv'
    <3>1. Debt' = 0
      BY <1>4, <2>2 DEF Debt, JobIs, ActiveStates
    <3>. QED  BY <1>1, <2>2, <3>1, CountKeeps, CostIsNat DEF JobIs
  <2>12. TypeOK'
    BY <1>1, <2>2, <2>3, Fields, Types, TypesNext DEF AttInv, JobIs, Moved,
      ProcIs, Later
  <2>. QED  BY <2>4, <2>5, <2>6, <2>7, <2>8, <2>9, <2>10, <2>11, <2>12
            DEF AttInv, Resting
<1>5. \/ proc.mode = "build" /\ Goto("marking") /\ UNCHANGED job
      \/ proc.mode = "archiving" /\ Goto("failing") /\ UNCHANGED job
      \/ Exit /\ (proc.mode \notin {"build", "archiving"} \/ AfterRotation)
      \/ /\ proc.mode = "complete" /\ job.state = "complete" /\ job.ready = "retained"
         /\ job' = [job EXCEPT !.staging = "blocked"] /\ Goto("releasing")
  BY DEF RaiseStorageError
<1>6. ASSUME \/ proc.mode = "build" /\ Goto("marking") /\ UNCHANGED job
             \/ proc.mode = "archiving" /\ Goto("failing") /\ UNCHANGED job
      PROVE  RaiseExportError /\ proc.mode \in {"build", "archiving"}
  BY <1>1, <1>6 DEF RaiseExportError, rows, fs, world
<1>. QED  BY <1>2, <1>3, <1>4, <1>5, <1>6

-----------------------------------------------------------------------------
(* The build. *)

LEMMA StartKeeps ==
  ASSUME AttInv, Start
  PROVE  AttInv'
<1>1. /\ AttemptsInv /\ JobInv /\ RowsInv /\ ArchiveInv /\ QuarantineInv
      /\ DiskInv /\ ArchiveHolds /\ PlaceInv /\ StateAt /\ BuildAt /\ CleanAt
      /\ StagingAt /\ PlaceAt /\ CountInv
  BY DEF AttInv, Resting
<1>2. /\ proc.pc = "down" /\ job' = job /\ zip' = zip /\ included' = included
      /\ allowed' = allowed /\ owner' = owner /\ att' = att /\ rec' = rec
      /\ dirs' = dirs /\ disk' = disk /\ file' = file /\ events' = events
  BY DEF Start, At, rows, fs, world
<1>3. Moved("idle")
  BY Fields, GotoEffect DEF Start, ProgramCounters
<1>4. StateAt' /\ BuildAt' /\ CleanAt' /\ StagingAt' /\ PlaceAt'
  BY <1>1, <1>2, <1>3, NowhereAt DEF StateAt, Finishing, Moved, ProcIs
<1>5. CountInv'
  <2>1. Debt' <= Debt
    BY <1>1, <1>2, <1>3, Fields DEF Debt, Paid, Writing, ActiveStates, Moved,
      ProcIs
  <2>2. Later
    BY <1>2, NoEvent
  <2>. QED  BY <1>1, <1>2, <1>3, <2>1, <2>2, CountKeeps
<1>6. Later /\ SameJob /\ SameRows /\ UNCHANGED <<fs, world>> /\ proc' \in Procs
  BY <1>1, <1>2, <1>3, NoEvent, SameJobEffect, Fields DEF Counted, SameRows,
    fs, world, Moved, ProcIs
<1>. QED  BY <1>4, <1>5, <1>6, MoveKeeps

LEMMA InitialCheckKeeps ==
  ASSUME AttInv, InitialCheck
  PROVE  AttInv'
<1>1. /\ AttemptsInv /\ JobInv /\ RowsInv /\ ArchiveInv /\ QuarantineInv
      /\ DiskInv /\ ArchiveHolds /\ PlaceInv /\ StateAt /\ BuildAt /\ CleanAt
      /\ StagingAt /\ PlaceAt /\ CountInv
  BY DEF AttInv, Resting
<1>2. /\ proc.pc = "initial" /\ job' = job /\ zip' = zip
      /\ included' = included /\ allowed' = allowed /\ owner' = owner
      /\ att' = att /\ rec' = rec /\ dirs' = dirs /\ disk' = disk
      /\ file' = file /\ events' = events
  BY DEF InitialCheck, At, rows, fs, world
<1>3. /\ job.state = "archiving" /\ att[job.gen] = "none"
      /\ included \subseteq Items
      /\ \A g \in Gens : g < job.gen => att[g] = "cleaned"
  BY <1>1, <1>2, Fields, Types DEF StateAt, BuildAt, Starting, Writing,
    Verified, Publishing, Replacing, Finishing, Cleaning, AttInv
<1>4. ProcIs("revoking", "build", proc.at, "mkdir", Revoked, proc.items)
  BY Fields, <1>1, <1>2, <1>3 DEF InitialCheck, ProcIs, Procs, ProgramCounters,
    Modes, Revoked
<1>5. StateAt'
  BY <1>1, <1>2, <1>3, <1>4, Fields DEF StateAt, Starting, Writing, Verified,
    Publishing, Replacing, Finishing, Cleaning, Working, A, ProcIs
<1>6. BuildAt'
  BY <1>1, <1>2, <1>3, <1>4, Fields DEF BuildAt, Starting, Writing, Verified,
    Publishing, Replacing, A, Q, ProcIs, Revoked
<1>7. CleanAt' /\ StagingAt' /\ PlaceAt'
  BY <1>4 DEF CleanAt, StagingAt, PlaceAt, Cleaning, Ending, ProcIs
<1>8. CountInv'
  <2>1. Debt' <= Debt
    BY <1>1, <1>2, <1>3, <1>4, Fields DEF Debt, Paid, Writing, ActiveStates,
      ProcIs
  <2>2. Later
    BY <1>2, NoEvent
  <2>. QED  BY <1>1, <1>2, <1>3, <1>4, <2>1, <2>2, CountKeeps
<1>9. Later /\ SameJob /\ SameRows /\ UNCHANGED <<fs, world>> /\ proc' \in Procs
  BY <1>1, <1>2, <1>3, <1>4, NoEvent, SameJobEffect, Fields DEF Counted,
    SameRows, fs, world, ProcIs
<1>. QED  BY <1>5, <1>6, <1>7, <1>8, <1>9, MoveKeeps

LEMMA MakeDirectoryKeeps ==
  ASSUME AttInv, MakeDirectory, job.gen \notin dirs
  PROVE  AttInv'
<1>1. /\ AttemptsInv /\ JobInv /\ RowsInv /\ ArchiveInv /\ QuarantineInv
      /\ DiskInv /\ ArchiveHolds /\ PlaceInv /\ StateAt /\ BuildAt /\ CleanAt
      /\ StagingAt /\ PlaceAt /\ CountInv
  BY DEF AttInv, Resting
<1>2. /\ proc.pc = "mkdir" /\ job' = job /\ zip' = zip
      /\ included' = included /\ allowed' = allowed /\ owner' = owner
      /\ att' = att /\ rec' = rec /\ disk' = disk /\ file' = file
      /\ events' = events
  BY DEF MakeDirectory, At, rows, fs, world
<1>3. /\ job.state = "archiving" /\ att[job.gen] = "none"
      /\ included \subseteq Items
      /\ \A g \in Gens : g < job.gen => att[g] = "cleaned"
      /\ dirs' = dirs \cup {job.gen}
  BY <1>1, <1>2, Fields, Types DEF StateAt, BuildAt, Starting, Writing,
    Verified, Publishing, Replacing, Finishing, Cleaning, AttInv, MakeDirectory
<1>4. ProcIs("attempt_row", proc.mode, proc.at, proc.then, proc.revoked, included)
  BY Fields, <1>1, <1>2, <1>3 DEF MakeDirectory, ProcIs, Procs, ProgramCounters
<1>5. AttemptsInv'
  BY <1>1, <1>2, <1>3, <1>4, Fields DEF AttemptsInv, Live, ProcIs
<1>6. JobInv'
  BY <1>1, <1>2 DEF JobInv, Clear, ActiveStates
<1>7. RowsInv'
  BY <1>1, <1>2 DEF RowsInv, Left, Live, A, Q
<1>8. ArchiveInv'
  BY <1>1, <1>2 DEF ArchiveInv, A
<1>9. QuarantineInv'
  BY <1>1, <1>2 DEF QuarantineInv, A, Q
<1>10. DiskInv'
  BY <1>1, <1>2, <1>3, <1>4, Fields, Numbers, PathsApart DEF DiskInv, A, Q,
    ProcIs
<1>11. ArchiveHolds'
  BY <1>1, <1>2 DEF ArchiveHolds, CompleteArchiveMatches, Retained, Matches,
    SameInode, A
<1>12. PlaceInv'
  BY <1>1, <1>2 DEF PlaceInv, Left, A, Q
<1>13. StateAt'
  BY <1>1, <1>2, <1>3, <1>4, Fields DEF StateAt, Starting, Writing, Verified,
    Publishing, Replacing, Finishing, Cleaning, Working, A, ProcIs
<1>14. BuildAt'
  BY <1>1, <1>2, <1>3, <1>4, Fields DEF BuildAt, Starting, Writing, Verified,
    Publishing, Replacing, A, Q, ProcIs
<1>15. CleanAt' /\ StagingAt' /\ PlaceAt'
  BY <1>4 DEF CleanAt, StagingAt, PlaceAt, Cleaning, Ending, ProcIs
<1>16. CountInv'
  <2>1. Debt' <= Debt
    BY <1>1, <1>2, <1>3, <1>4, Fields DEF Debt, Paid, Writing, ActiveStates,
      ProcIs
  <2>2. Later
    BY <1>2, NoEvent
  <2>. QED  BY <1>1, <1>2, <1>3, <1>4, <2>1, <2>2, CountKeeps
<1>17. TypeOK'
  BY <1>1, <1>2, <1>3, <1>4, Fields, Types, TypesNext DEF AttInv, ProcIs
<1>. QED  BY <1>5, <1>6, <1>7, <1>8, <1>9, <1>10, <1>11, <1>12, <1>13, <1>14,
            <1>15, <1>16, <1>17 DEF AttInv, Resting

LEMMA RecordDirectoryKeeps ==
  ASSUME AttInv, RecordDirectory
  PROVE  AttInv'
<1>1. /\ AttemptsInv /\ JobInv /\ RowsInv /\ ArchiveInv /\ QuarantineInv
      /\ DiskInv /\ ArchiveHolds /\ PlaceInv /\ StateAt /\ BuildAt /\ CleanAt
      /\ StagingAt /\ PlaceAt /\ CountInv
  BY DEF AttInv, Resting
<1>2. /\ proc.pc = "attempt_row" /\ job' = job /\ zip' = zip
      /\ included' = included /\ allowed' = allowed /\ owner' = owner
      /\ rec' = rec /\ dirs' = dirs /\ disk' = disk /\ file' = file
      /\ events' = events
  BY DEF RecordDirectory, At, rows, fs, world
<1>3. /\ job.state = "archiving" /\ att[job.gen] = "none" /\ job.gen \in dirs
      /\ proc.items = included
      /\ \A g \in Gens : g < job.gen => att[g] = "cleaned"
  BY <1>1, <1>2, Fields DEF StateAt, BuildAt, Starting, Writing, Verified,
    Publishing, Replacing, Finishing, Cleaning
<1>4. Moved("mkfile")
  BY Fields, GotoEffect DEF RecordDirectory, ProgramCounters
<1>5. AttIs(job.gen, "writing")
  BY Fields, AttEffect DEF RecordDirectory, AttemptStates
<1>6. AttemptsInv'
  BY <1>1, <1>2, <1>3, <1>4, <1>5, Fields DEF AttemptsInv, Live, Moved, ProcIs,
    AttIs
<1>7. JobInv'
  BY <1>1, <1>2, <1>3, <1>4, <1>5, Fields DEF JobInv, Clear, ActiveStates,
    Moved, ProcIs, AttIs
<1>8. RowsInv'
  BY <1>1, <1>2, <1>3, <1>4, <1>5, Fields DEF RowsInv, Left, Live, A, Q, Moved,
    ProcIs, AttIs
<1>9. ArchiveInv'
  BY <1>1, <1>2 DEF ArchiveInv, A
<1>10. QuarantineInv'
  BY <1>1, <1>2 DEF QuarantineInv, A, Q
<1>11. DiskInv'
  BY <1>1, <1>2, <1>3, <1>4, <1>5, Fields, Numbers, PathsApart DEF DiskInv, A,
    Q, Moved, ProcIs, AttIs
<1>12. ArchiveHolds'
  BY <1>1, <1>2, <1>3, <1>4, <1>5, Fields DEF ArchiveHolds,
    CompleteArchiveMatches, Retained, Matches, SameInode, A, Moved, ProcIs,
    AttIs
<1>13. PlaceInv'
  BY <1>1, <1>2, <1>3, <1>4, <1>5, Fields, Numbers, PathsApart DEF PlaceInv,
    Left, A, Q, Moved, ProcIs, AttIs, DiskInv
<1>14. StateAt'
  BY <1>1, <1>2, <1>3, <1>4, <1>5, Fields DEF StateAt, Starting, Writing,
    Verified, Publishing, Replacing, Finishing, Cleaning, Working, A, Moved,
    ProcIs, AttIs
<1>15. BuildAt'
  BY <1>1, <1>2, <1>3, <1>4, <1>5, Fields DEF BuildAt, Starting, Writing,
    Verified, Publishing, Replacing, A, Q, Moved, ProcIs, AttIs, RowsInv,
    DiskInv
<1>16. CleanAt' /\ StagingAt' /\ PlaceAt'
  BY <1>4 DEF CleanAt, StagingAt, PlaceAt, Cleaning, Ending, Moved, ProcIs
<1>17. CountInv'
  <2>1. Debt' <= Debt
    BY <1>1, <1>2, <1>3, <1>4, <1>5, Fields DEF Debt, Paid, Writing,
      ActiveStates, Moved, ProcIs, AttIs
  <2>2. Later
    BY <1>2, NoEvent
  <2>. QED  BY <1>1, <1>2, <1>3, <1>4, <1>5, <2>1, <2>2, CountKeeps
<1>18. TypeOK'
  BY <1>1, <1>2, <1>3, <1>4, <1>5, Fields, Types, TypesNext DEF AttInv, Moved,
    ProcIs, AttIs
<1>. QED  BY <1>6, <1>7, <1>8, <1>9, <1>10, <1>11, <1>12, <1>13, <1>14, <1>15,
            <1>16, <1>17, <1>18 DEF AttInv, Resting

LEMMA MakeFileKeeps ==
  ASSUME AttInv, MakeFile
  PROVE  AttInv'
<1>1. /\ AttemptsInv /\ JobInv /\ RowsInv /\ ArchiveInv /\ QuarantineInv
      /\ DiskInv /\ ArchiveHolds /\ PlaceInv /\ StateAt /\ BuildAt /\ CleanAt
      /\ StagingAt /\ PlaceAt /\ CountInv
  BY DEF AttInv, Resting
<1>2. /\ proc.pc = "mkfile" /\ job' = job /\ zip' = zip
      /\ included' = included /\ allowed' = allowed /\ owner' = owner
      /\ att' = att /\ rec' = rec /\ dirs' = dirs /\ file' = file
      /\ events' = events
  BY DEF MakeFile, At, rows, fs, world
<1>3. /\ job.state = "archiving" /\ att[job.gen] = "writing"
      /\ proc.items = included
      /\ \A g \in Gens : g < job.gen => att[g] = "cleaned"
      /\ A(job.gen).state = "none"
      /\ \A p \in Paths : disk[p] # job.gen
      /\ file[job.gen].ctime = 0
  BY <1>1, <1>2, Fields DEF StateAt, BuildAt, Starting, Writing, Verified,
    Publishing, Replacing, Finishing, Cleaning
<1>4. Moved("file_row")
  BY Fields, GotoEffect DEF MakeFile, ProgramCounters
<1>5. /\ disk' \in Disks
      /\ \A p \in Paths : disk'[p] = IF p = Part(job.gen) THEN job.gen ELSE disk[p]
  BY Fields, PathsApart, Numbers DEF MakeFile, Disks
<1>6. AttemptsInv'
  BY <1>1, <1>2 DEF AttemptsInv, Live
<1>7. JobInv'
  BY <1>1, <1>2 DEF JobInv, Clear, ActiveStates
<1>8. RowsInv'
  BY <1>1, <1>2 DEF RowsInv, Left, Live, A, Q
<1>9. ArchiveInv'
  BY <1>1, <1>2 DEF ArchiveInv, A
<1>10. QuarantineInv'
  BY <1>1, <1>2 DEF QuarantineInv, A, Q
<1>11. DiskInv'
  BY <1>1, <1>2, <1>3, <1>4, <1>5, Fields, Numbers, PathsApart DEF DiskInv, A,
    Q, Moved, ProcIs, AttemptsInv, Live
<1>12. ArchiveHolds'
  BY <1>1, <1>2, <1>3, <1>4, <1>5, Fields DEF ArchiveHolds,
    CompleteArchiveMatches, Retained, Matches, SameInode, A, Moved, ProcIs
<1>13. PlaceInv'
  BY <1>1, <1>2, <1>3, <1>4, <1>5, Fields, Numbers, PathsApart DEF PlaceInv,
    Left, A, Q, Moved, ProcIs
<1>14. StateAt'
  BY <1>1, <1>2, <1>3, <1>4, <1>5, Fields DEF StateAt, Starting, Writing,
    Verified, Publishing, Replacing, Finishing, Cleaning, Working, A, Moved,
    ProcIs
<1>15. BuildAt'
  BY <1>1, <1>2, <1>3, <1>4, <1>5, Fields, PathsApart DEF BuildAt, Starting,
    Writing, Verified, Publishing, Replacing, A, Q, Moved, ProcIs
<1>16. CleanAt' /\ StagingAt' /\ PlaceAt'
  BY <1>4 DEF CleanAt, StagingAt, PlaceAt, Cleaning, Ending, Moved, ProcIs
<1>17. CountInv'
  <2>1. Debt' <= Debt
    BY <1>1, <1>2, <1>3, <1>4, <1>5, Fields DEF Debt, Paid, Writing,
      ActiveStates, Moved, ProcIs
  <2>2. Later
    BY <1>2, NoEvent
  <2>. QED  BY <1>1, <1>2, <1>3, <1>4, <1>5, <2>1, <2>2, CountKeeps
<1>18. TypeOK'
  BY <1>1, <1>2, <1>3, <1>4, <1>5, Fields, Types, TypesNext DEF AttInv, Moved,
    ProcIs
<1>. QED  BY <1>6, <1>7, <1>8, <1>9, <1>10, <1>11, <1>12, <1>13, <1>14, <1>15,
            <1>16, <1>17, <1>18 DEF AttInv, Resting

LEMMA RecordOpenFileKeeps ==
  ASSUME AttInv, RecordOpenFile
  PROVE  AttInv'
<1>1. /\ AttemptsInv /\ JobInv /\ RowsInv /\ ArchiveInv /\ QuarantineInv
      /\ DiskInv /\ ArchiveHolds /\ PlaceInv /\ StateAt /\ BuildAt /\ CleanAt
      /\ StagingAt /\ PlaceAt /\ CountInv
  BY DEF AttInv, Resting
<1>2. /\ proc.pc = "file_row" /\ job' = job /\ zip' = zip
      /\ included' = included /\ allowed' = allowed /\ owner' = owner
      /\ att' = att /\ dirs' = dirs /\ disk' = disk /\ file' = file
      /\ events' = events
  BY DEF RecordOpenFile, At, rows, fs, world
<1>3. /\ job.state = "archiving" /\ att[job.gen] = "writing"
      /\ proc.items = included
      /\ \A g \in Gens : g < job.gen => att[g] = "cleaned"
      /\ A(job.gen).state = "none" /\ disk[Part(job.gen)] = job.gen
  BY <1>1, <1>2, Fields DEF StateAt, BuildAt, Starting, Writing, Verified,
    Publishing, Replacing, Finishing, Cleaning
<1>4. Moved("stream")
  BY Fields, GotoEffect DEF RecordOpenFile, ProgramCounters
<1>5. RowIs("archive", job.gen, "writing", Part(job.gen), NoPath, job.gen, Open)
  <2>1. [state |-> "writing", path |-> Part(job.gen), intent |-> NoPath,
         ino |-> job.gen, stamp |-> Open] \in FileRows
    BY Fields, PathsApart, Numbers DEF FileRows, FileStates, AttemptStates, Stamps
  <2>. QED  BY <2>1, Fields, RowEffect DEF RecordOpenFile, SetArchive, Kinds
<1>6. AttemptsInv'
  BY <1>1, <1>2 DEF AttemptsInv, Live
<1>7. JobInv'
  BY <1>1, <1>2 DEF JobInv, Clear, ActiveStates
<1>8. RowsInv'
  BY <1>1, <1>2, <1>3, <1>4, <1>5, Fields DEF RowsInv, Left, Live, A, Q, Moved,
    ProcIs, RowIs, Kinds
<1>9. ArchiveInv'
  BY <1>1, <1>2, <1>3, <1>4, <1>5, Fields, Numbers, PathsApart DEF ArchiveInv,
    A, Moved, ProcIs, RowIs, Kinds
<1>10. QuarantineInv'
  BY <1>1, <1>2, <1>3, <1>4, <1>5, Fields, Numbers, PathsApart DEF
    QuarantineInv, A, Q, Moved, ProcIs, RowIs, Kinds
<1>11. DiskInv'
  BY <1>1, <1>2, <1>3, <1>4, <1>5, Fields, Numbers, PathsApart DEF DiskInv, A,
    Q, Moved, ProcIs, RowIs, Kinds
<1>12. ArchiveHolds'
  BY <1>1, <1>2, <1>3, <1>4, <1>5, Fields DEF ArchiveHolds,
    CompleteArchiveMatches, Retained, Matches, SameInode, A, Moved, ProcIs,
    RowIs, Kinds
<1>13. PlaceInv'
  BY <1>1, <1>2, <1>3, <1>4, <1>5, Fields, Numbers, PathsApart DEF PlaceInv,
    Left, A, Q, Moved, ProcIs, RowIs, Kinds
<1>14. StateAt'
  BY <1>1, <1>2, <1>3, <1>4, <1>5, Fields DEF StateAt, Starting, Writing,
    Verified, Publishing, Replacing, Finishing, Cleaning, Working, A, Moved,
    ProcIs, RowIs, Kinds
<1>15. BuildAt'
  BY <1>1, <1>2, <1>3, <1>4, <1>5, Fields DEF BuildAt, Starting, Writing,
    Verified, Publishing, Replacing, A, Q, Moved, ProcIs, RowIs, Kinds
<1>16. CleanAt' /\ StagingAt' /\ PlaceAt'
  BY <1>4 DEF CleanAt, StagingAt, PlaceAt, Cleaning, Ending, Moved, ProcIs
<1>17. CountInv'
  <2>1. Debt' <= Debt
    BY <1>1, <1>2, <1>3, <1>4, <1>5, Fields DEF Debt, Paid, Writing,
      ActiveStates, Moved, ProcIs, RowIs, Kinds
  <2>2. Later
    BY <1>2, NoEvent
  <2>. QED  BY <1>1, <1>2, <1>3, <1>4, <1>5, <2>1, <2>2, CountKeeps
<1>18. TypeOK'
  BY <1>1, <1>2, <1>3, <1>4, <1>5, Fields, Types, TypesNext DEF AttInv, Moved,
    ProcIs, RowIs, Kinds
<1>. QED  BY <1>6, <1>7, <1>8, <1>9, <1>10, <1>11, <1>12, <1>13, <1>14, <1>15,
            <1>16, <1>17, <1>18 DEF AttInv, Resting

LEMMA StreamKeeps ==
  ASSUME AttInv, Stream
  PROVE  AttInv'
<1>1. /\ AttemptsInv /\ JobInv /\ RowsInv /\ ArchiveInv /\ QuarantineInv
      /\ DiskInv /\ ArchiveHolds /\ PlaceInv /\ StateAt /\ BuildAt /\ CleanAt
      /\ StagingAt /\ PlaceAt /\ CountInv
  BY DEF AttInv, Resting
<1>2. /\ proc.pc = "stream" /\ job' = job /\ zip' = zip
      /\ included' = included /\ allowed' = allowed /\ owner' = owner
      /\ att' = att /\ rec' = rec /\ dirs' = dirs /\ disk' = disk
      /\ events' = events
  BY DEF Stream, At, rows, fs, world
<1>3. /\ job.state = "archiving" /\ att[job.gen] = "writing"
      /\ proc.items = included
      /\ \A g \in Gens : g < job.gen => att[g] = "cleaned"
      /\ A(job.gen).state = "writing" /\ included \subseteq Items
  BY <1>1, <1>2, Fields, Types DEF StateAt, BuildAt, Starting, Writing,
    Verified, Publishing, Replacing, Finishing, Cleaning, AttInv
<1>4. Moved("close")
  BY Fields, GotoEffect DEF Stream, ProgramCounters
<1>5. /\ file' \in Files
      /\ \A i \in Inodes : file'[i].ctime = file[i].ctime
      /\ \A i \in Inodes \ {job.gen} : file'[i] = file[i]
      /\ file'[job.gen].data = "whole" /\ file'[job.gen].items = included
  BY Fields, Numbers, <1>1, <1>2, <1>3, <1>4 DEF Stream, Files, Contents
<1>6. AttemptsInv'
  BY <1>1, <1>2 DEF AttemptsInv, Live
<1>7. JobInv'
  BY <1>1, <1>2 DEF JobInv, Clear, ActiveStates
<1>8. RowsInv'
  BY <1>1, <1>2 DEF RowsInv, Left, Live, A, Q
<1>9. ArchiveInv'
  BY <1>1, <1>2 DEF ArchiveInv, A
<1>10. QuarantineInv'
  BY <1>1, <1>2 DEF QuarantineInv, A, Q
<1>11. DiskInv'
  BY <1>1, <1>2, <1>3, <1>4, <1>5, Fields, Numbers, PathsApart, DiskFields DEF
    DiskInv, A, Q, Moved, ProcIs
<1>12. ArchiveHolds'
  BY <1>1, <1>2, <1>3, <1>4, <1>5, Fields, Numbers DEF ArchiveHolds,
    CompleteArchiveMatches, Retained, Matches, SameInode, A, Moved, ProcIs
<1>13. PlaceInv'
  BY <1>1, <1>2, <1>3, <1>4, <1>5, Fields, Numbers, PathsApart DEF PlaceInv,
    Left, A, Q, Moved, ProcIs
<1>14. StateAt'
  BY <1>1, <1>2, <1>3, <1>4, <1>5, Fields DEF StateAt, Starting, Writing,
    Verified, Publishing, Replacing, Finishing, Cleaning, Working, A, Moved,
    ProcIs
<1>15. BuildAt'
  BY <1>1, <1>2, <1>3, <1>4, <1>5, Fields DEF BuildAt, Starting, Writing,
    Verified, Publishing, Replacing, A, Q, Moved, ProcIs
<1>16. PlaceAt'
  BY <1>1, <1>2, <1>3, <1>4, <1>5, Fields DEF PlaceAt, First, Left, A, Moved,
    ProcIs
<1>17. CleanAt' /\ StagingAt'
  BY <1>4 DEF CleanAt, StagingAt, Cleaning, Ending, Moved, ProcIs
<1>18. CountInv'
  <2>1. Debt' <= Debt
    BY <1>1, <1>2, <1>3, <1>4, <1>5, Fields DEF Debt, Paid, Writing,
      ActiveStates, Moved, ProcIs
  <2>2. Later
    BY <1>2, NoEvent
  <2>. QED  BY <1>1, <1>2, <1>3, <1>4, <1>5, <2>1, <2>2, CountKeeps
<1>19. TypeOK'
  BY <1>1, <1>2, <1>3, <1>4, <1>5, Fields, Types, TypesNext DEF AttInv, Moved,
    ProcIs
<1>. QED  BY <1>6, <1>7, <1>8, <1>9, <1>10, <1>11, <1>12, <1>13, <1>14, <1>15,
            <1>17, <1>16, <1>18, <1>19 DEF AttInv, Resting

LEMMA RecordClosedKeeps ==
  ASSUME AttInv, RecordClosed
  PROVE  AttInv'
<1>1. /\ AttemptsInv /\ JobInv /\ RowsInv /\ ArchiveInv /\ QuarantineInv
      /\ DiskInv /\ ArchiveHolds /\ PlaceInv /\ StateAt /\ BuildAt /\ CleanAt
      /\ StagingAt /\ PlaceAt /\ CountInv
  BY DEF AttInv, Resting
<1>2. /\ proc.pc = "close" /\ job' = job /\ zip' = zip
      /\ included' = included /\ allowed' = allowed /\ owner' = owner
      /\ dirs' = dirs /\ disk' = disk /\ file' = file /\ events' = events
  BY DEF RecordClosed, At, rows, fs, world
<1>3. /\ job.state = "archiving" /\ att[job.gen] = "writing"
      /\ file[job.gen].items = included
      /\ \A g \in Gens : g < job.gen => att[g] = "cleaned"
      /\ A(job.gen).state = "writing"
  BY <1>1, <1>2, Fields DEF StateAt, BuildAt, Starting, Writing, Verified,
    Publishing, Replacing, Finishing, Cleaning
<1>4. Moved("validate")
  BY Fields, GotoEffect DEF RecordClosed, ProgramCounters
<1>5. AttIs(job.gen, "closed")
  BY Fields, AttEffect DEF RecordClosed, AttemptStates
<1>6. RowIs("archive", job.gen, "closed", Archive.path, Archive.intent, Archive.ino,
            file[job.gen].ctime)
  <2>1. Archive \in FileRows /\ file[job.gen].ctime \in 0..2
    BY Fields, RowFields, DiskFields, Numbers DEF Archive, A
  <2>2. [Archive EXCEPT !.state = "closed", !.stamp = file[job.gen].ctime] \in FileRows
    BY <2>1 DEF FileRows, FileStates, AttemptStates, Stamps
  <2>3. RowIs("archive", job.gen, "closed", Archive.path, Archive.intent, Archive.ino,
              file[job.gen].ctime)
    BY <2>1, <2>2, Fields, RowEffect DEF RecordClosed, SetArchive, Kinds, FileRows
  <2>. QED  BY <2>3
<1>7. AttemptsInv'
  BY <1>1, <1>2, <1>3, <1>4, <1>5, <1>6, Fields DEF AttemptsInv, Live, Moved,
    ProcIs, RowIs, Kinds, AttIs
<1>8. JobInv'
  BY <1>1, <1>2, <1>3, <1>4, <1>5, <1>6, Fields DEF JobInv, Clear,
    ActiveStates, Moved, ProcIs, RowIs, Kinds, AttIs
<1>9. RowsInv'
  BY <1>1, <1>2, <1>3, <1>4, <1>5, <1>6, Fields DEF RowsInv, Left, Live, A, Q,
    Moved, ProcIs, RowIs, Kinds, AttIs
<1>10. ArchiveInv'
  BY <1>1, <1>2, <1>3, <1>4, <1>5, <1>6, Fields, Numbers, PathsApart,
    DiskFields DEF ArchiveInv, A, Moved, ProcIs, RowIs, Kinds, AttIs, Archive,
    Open
<1>11. QuarantineInv'
  BY <1>1, <1>2, <1>3, <1>4, <1>5, <1>6, Fields, Numbers, PathsApart DEF
    QuarantineInv, A, Q, Moved, ProcIs, RowIs, Kinds, AttIs, Archive
<1>12. DiskInv'
  BY <1>1, <1>2, <1>3, <1>4, <1>5, <1>6, Fields, Numbers, PathsApart DEF
    DiskInv, A, Q, Moved, ProcIs, RowIs, Kinds, AttIs, Archive
<1>13. ArchiveHolds'
  BY <1>1, <1>2, <1>3, <1>4, <1>5, <1>6, Fields DEF ArchiveHolds,
    CompleteArchiveMatches, Retained, Matches, SameInode, A, Moved, ProcIs,
    RowIs, Kinds, AttIs, Archive
<1>14. PlaceInv'
  BY <1>1, <1>2, <1>3, <1>4, <1>5, <1>6, Fields, Numbers, PathsApart DEF
    PlaceInv, Left, A, Q, Moved, ProcIs, RowIs, Kinds, AttIs, Archive, PlaceAt
<1>15. StateAt'
  BY <1>1, <1>2, <1>3, <1>4, <1>5, <1>6, Fields DEF StateAt, Starting, Writing,
    Verified, Publishing, Replacing, Finishing, Cleaning, Working, A, Moved,
    ProcIs, RowIs, Kinds, AttIs
<1>16. BuildAt'
  BY <1>1, <1>2, <1>3, <1>4, <1>5, <1>6, Fields DEF BuildAt, Starting, Writing,
    Verified, Publishing, Replacing, A, Q, Moved, ProcIs, RowIs, Kinds, AttIs
<1>17. CleanAt' /\ StagingAt' /\ PlaceAt'
  BY <1>4 DEF CleanAt, StagingAt, PlaceAt, Cleaning, Ending, Moved, ProcIs
<1>18. CountInv'
  <2>1. Debt' <= Debt
    BY <1>1, <1>2, <1>3, <1>4, <1>5, <1>6, Fields DEF Debt, Paid, Writing,
      ActiveStates, Moved, ProcIs, RowIs, Kinds, AttIs
  <2>2. Later
    BY <1>2, NoEvent
  <2>. QED  BY <1>1, <1>2, <1>3, <1>4, <1>5, <1>6, <2>1, <2>2, CountKeeps
<1>19. TypeOK'
  BY <1>1, <1>2, <1>3, <1>4, <1>5, <1>6, Fields, Types, TypesNext DEF AttInv,
    Moved, ProcIs, RowIs, Kinds, AttIs
<1>. QED  BY <1>7, <1>8, <1>9, <1>10, <1>11, <1>12, <1>13, <1>14, <1>15, <1>16,
            <1>17, <1>18, <1>19 DEF AttInv, Resting

(* A permission that was taken away takes its item out of the export.        *)

LEMMA ApplyRevocationsKeeps ==
  ASSUME AttInv, ApplyRevocations
  PROVE  AttInv'
<1>1. /\ AttemptsInv /\ JobInv /\ RowsInv /\ ArchiveInv /\ QuarantineInv
      /\ DiskInv /\ ArchiveHolds /\ PlaceInv /\ StateAt /\ BuildAt /\ CleanAt
      /\ StagingAt /\ PlaceAt /\ CountInv
  BY DEF AttInv, Resting
<1>2. /\ proc.pc = "revoking" /\ job' = job /\ zip' = zip
      /\ allowed' = allowed /\ owner' = owner /\ att' = att /\ rec' = rec
      /\ dirs' = dirs /\ disk' = disk /\ file' = file /\ events' = events
  BY DEF ApplyRevocations, ApplyBatch, At, rows, fs, world
<1>3. /\ proc.revoked # {} /\ proc.revoked \subseteq included \ allowed
      /\ included \subseteq Items
      /\ \A g \in Gens : g < job.gen => att[g] = "cleaned"
      /\ \/ proc.then = "mkdir" /\ job.state = "archiving" /\ att[job.gen] = "none"
         \/ /\ proc.then = "rotate" /\ job.state = "verifying"
            /\ att[job.gen] = "retiring"
      /\ A(job.gen).state # "ready_candidate"
  BY <1>1, <1>2, Fields, Types DEF StateAt, BuildAt, Starting, Writing,
    Verified, Publishing, Replacing, Finishing, Cleaning, ApplyRevocations,
    AttInv, RowsInv, A
<1>4. PICK i \in proc.revoked :
        /\ included' = included \ {i}
        /\ ProcIs("revoking", proc.mode, proc.at, proc.then, proc.revoked \ {i}, proc.items)
  BY Fields, <1>1, <1>2, <1>3 DEF ApplyRevocations, ApplyBatch, ProcIs, Procs
<1>5. AttemptsInv'
  BY <1>1, <1>2 DEF AttemptsInv, Live
<1>6. JobInv'
  BY <1>1, <1>2 DEF JobInv, Clear, ActiveStates
<1>7. RowsInv'
  BY <1>1, <1>2 DEF RowsInv, Left, Live, A, Q
<1>8. ArchiveInv'
  BY <1>1, <1>2 DEF ArchiveInv, A
<1>9. QuarantineInv'
  BY <1>1, <1>2 DEF QuarantineInv, A, Q
<1>10. DiskInv'
  BY <1>1, <1>2 DEF DiskInv, A, Q
<1>11. ArchiveHolds'
  BY <1>1, <1>2, <1>3, <1>4 DEF ArchiveHolds, CompleteArchiveMatches, Retained,
    A
<1>12. PlaceInv'
  BY <1>1, <1>2 DEF PlaceInv, Left, A, Q
<1>13. StateAt'
  BY <1>1, <1>2, <1>3, <1>4, Fields DEF StateAt, Starting, Writing, Verified,
    Publishing, Replacing, Finishing, Cleaning, Working, A, ProcIs
<1>14. BuildAt'
  BY <1>1, <1>2, <1>3, <1>4, Fields DEF BuildAt, Starting, Writing, Verified,
    Publishing, Replacing, A, Q, ProcIs
<1>15. CleanAt' /\ StagingAt' /\ PlaceAt'
  BY <1>4 DEF CleanAt, StagingAt, PlaceAt, Cleaning, Ending, ProcIs
<1>16. CountInv'
  <2>1. (included \ allowed)' = (included \ allowed) \ {i}
    BY <1>2, <1>4
  <2>2. Cardinality(included \ allowed)' = Cardinality(included \ allowed) - 1
    BY <1>3, <1>4, <2>1, CostIsNat, FS_RemoveElement
  <2>3. Debt = 0 /\ Debt' \in 0..1
    BY <1>1, <1>2, <1>3 DEF Debt, Paid
  <2>4. job'.gen = job.gen /\ events'.count = events.count
    BY <1>2
  <2>. QED  BY <1>1, <2>2, <2>3, <2>4, Fields, CostIsNat DEF CountInv
<1>17. TypeOK'
  BY <1>1, <1>2, <1>3, <1>4, Fields, Types, TypesNext DEF AttInv, ProcIs
<1>. QED  BY <1>5, <1>6, <1>7, <1>8, <1>9, <1>10, <1>11, <1>12, <1>13, <1>14,
            <1>15, <1>16, <1>17 DEF AttInv, Resting

LEMMA RevocationsAppliedKeeps ==
  ASSUME AttInv, RevocationsApplied, ~(proc.then = "mkdir" /\ included = {})
  PROVE  AttInv'
<1>1. /\ AttemptsInv /\ JobInv /\ RowsInv /\ ArchiveInv /\ QuarantineInv
      /\ DiskInv /\ ArchiveHolds /\ PlaceInv /\ StateAt /\ BuildAt /\ CleanAt
      /\ StagingAt /\ PlaceAt /\ CountInv
  BY DEF AttInv, Resting
<1>2. /\ proc.pc = "revoking" /\ job' = job /\ zip' = zip
      /\ included' = included /\ allowed' = allowed /\ owner' = owner
      /\ att' = att /\ rec' = rec /\ dirs' = dirs /\ disk' = disk
      /\ file' = file /\ events' = events
  BY DEF RevocationsApplied, At, rows, fs, world
<1>3. /\ proc.revoked = {}
      /\ \A g \in Gens : g < job.gen => att[g] = "cleaned"
      /\ \/ proc.then = "mkdir" /\ job.state = "archiving" /\ att[job.gen] = "none"
         \/ /\ proc.then = "rotate" /\ job.state = "verifying"
            /\ att[job.gen] = "retiring" /\ A(job.gen).path = Part(job.gen)
  BY <1>1, <1>2, Fields DEF StateAt, BuildAt, Starting, Writing, Verified,
    Publishing, Replacing, Finishing, Cleaning, RevocationsApplied, A
<1>4. Moved(proc.then)
  BY Fields, GotoEffect, <1>1, <1>2, <1>3 DEF RevocationsApplied
<1>5. StateAt'
  BY <1>1, <1>2, <1>3, <1>4, Fields DEF StateAt, Starting, Writing, Verified,
    Publishing, Replacing, Finishing, Cleaning, Working, A, Moved, ProcIs
<1>6. BuildAt'
  BY <1>1, <1>2, <1>3, <1>4, Fields DEF BuildAt, Starting, Writing, Verified,
    Publishing, Replacing, A, Q, Moved, ProcIs
<1>7. CleanAt'
  BY <1>1, <1>2, <1>3, <1>4, Fields DEF CleanAt, Cleaning, Left, A, Q, Moved,
    ProcIs
<1>8. StagingAt'
  BY <1>1, <1>2, <1>3, <1>4, Fields DEF StagingAt, Ending, First, StagingWork,
    Clear, Left, A, Q, Moved, ProcIs
<1>9. PlaceAt'
  BY <1>1, <1>2, <1>3, <1>4, Fields DEF PlaceAt, First, Left, A, Moved, ProcIs
<1>10. CountInv'
  <2>1. Debt' <= Debt
    BY <1>1, <1>2, <1>3, <1>4, Fields DEF Debt, Paid, Writing, ActiveStates,
      Moved, ProcIs
  <2>2. Later
    BY <1>2, NoEvent
  <2>. QED  BY <1>1, <1>2, <1>3, <1>4, <2>1, <2>2, CountKeeps
<1>11. Later /\ SameJob /\ SameRows /\ UNCHANGED <<fs, world>> /\ proc' \in Procs
  BY <1>1, <1>2, <1>3, <1>4, NoEvent, SameJobEffect, Fields DEF Counted,
    SameRows, fs, world, Moved, ProcIs
<1>. QED  BY <1>5, <1>6, <1>7, <1>8, <1>9, <1>10, <1>11, MoveKeeps

LEMMA AllRevokedKeeps ==
  ASSUME AttInv, RevocationsApplied, proc.then = "mkdir" /\ included = {}
  PROVE  AttInv'
<1>1. StateAt /\ BuildAt /\ RowsInv
  BY DEF AttInv, Resting
<1>2. RaiseExportError /\ UNCHANGED events /\ proc.pc = "revoking"
  BY DEF RevocationsApplied, At
<1>3. /\ job.state \in Working /\ proc.mode # "complete"
      /\ A(job.gen).state = "none"
  BY <1>1, <1>2, Fields DEF StateAt, BuildAt, RowsInv, Finishing, Working
<1>. QED  BY <1>2, <1>3, NoEvent, RaiseExportKeeps DEF Unmoved

LEMMA ValidateKeeps ==
  ASSUME AttInv, Validate, Rehashed(disk[Part(job.gen)])
  PROVE  AttInv'
<1>1. /\ AttemptsInv /\ JobInv /\ RowsInv /\ ArchiveInv /\ QuarantineInv
      /\ DiskInv /\ ArchiveHolds /\ PlaceInv /\ StateAt /\ BuildAt /\ CleanAt
      /\ StagingAt /\ PlaceAt /\ CountInv
  BY DEF AttInv, Resting
<1>2. /\ proc.pc = "validate" /\ zip' = zip /\ included' = included
      /\ allowed' = allowed /\ owner' = owner /\ dirs' = dirs /\ disk' = disk
      /\ file' = file /\ events' = events
  BY DEF Validate, At, rows, fs, world
<1>3. /\ job.state = "archiving" /\ att[job.gen] = "closed"
      /\ A(job.gen).state = "closed" /\ file[job.gen].items = included
      /\ Q(job.gen).state = "none" /\ job.staging = "pending"
      /\ \A g \in Gens : g < job.gen => att[g] = "cleaned"
  BY <1>1, <1>2, Fields DEF StateAt, BuildAt, Starting, Writing, Verified,
    Publishing, Replacing, Finishing, Cleaning, RowsInv, AttemptsInv, JobInv,
    ActiveStates, A, Q
<1>4. Moved("post_build")
  BY Fields, GotoEffect DEF Validate, ProgramCounters
<1>5. JobIs("verifying", job.gen, job.staging, job.ready)
  BY Fields DEF Validate, JobIs, Jobs, JobStates
<1>6. AttIs(job.gen, "verifying")
  BY Fields, AttEffect DEF Validate, AttemptStates
<1>7. RowIs("archive", job.gen, "verifying", Archive.path, Archive.intent, Archive.ino,
            Archive.stamp)
  <2>1. Archive \in FileRows
    BY Fields, RowFields DEF Archive, A
  <2>2. [Archive EXCEPT !.state = "verifying"] \in FileRows
    BY <2>1, Fields, PathsApart DEF FileRows, FileStates, AttemptStates, Stamps
  <2>. QED  BY <2>1, <2>2, Fields, RowEffect DEF Validate, SetArchive, Archive,
            Kinds, FileRows
<1>8. AttemptsInv'
  BY <1>1, <1>2, <1>3, <1>4, <1>5, <1>6, <1>7, Fields DEF AttemptsInv, Live,
    JobIs, Moved, ProcIs, RowIs, Kinds, AttIs
<1>9. JobInv'
  BY <1>1, <1>2, <1>3, <1>4, <1>5, <1>6, <1>7, Fields DEF JobInv, Clear,
    ActiveStates, JobIs, Moved, ProcIs, RowIs, Kinds, AttIs, RowsInv
<1>10. RowsInv'
  BY <1>1, <1>2, <1>3, <1>4, <1>5, <1>6, <1>7, Fields DEF RowsInv, Left, Live,
    A, Q, JobIs, Moved, ProcIs, RowIs, Kinds, AttIs
<1>11. ArchiveInv'
  BY <1>1, <1>2, <1>3, <1>4, <1>5, <1>6, <1>7, Fields, Numbers, PathsApart DEF
    ArchiveInv, A, JobIs, Moved, ProcIs, RowIs, Kinds, AttIs, Archive
<1>12. QuarantineInv'
  BY <1>1, <1>2, <1>3, <1>4, <1>5, <1>6, <1>7, Fields, Numbers, PathsApart DEF
    QuarantineInv, A, Q, JobIs, Moved, ProcIs, RowIs, Kinds, AttIs, Archive
<1>13. DiskInv'
  BY <1>1, <1>2, <1>3, <1>4, <1>5, <1>6, <1>7, Fields, Numbers, PathsApart DEF
    DiskInv, A, Q, JobIs, Moved, ProcIs, RowIs, Kinds, AttIs, Archive
<1>14. ArchiveHolds'
  BY <1>1, <1>2, <1>3, <1>4, <1>5, <1>6, <1>7, Fields DEF ArchiveHolds,
    CompleteArchiveMatches, Retained, Matches, SameInode, A, JobIs, Moved,
    ProcIs, RowIs, Kinds, AttIs, Archive
<1>15. PlaceInv'
  BY <1>1, <1>2, <1>3, <1>4, <1>5, <1>6, <1>7, Fields, Numbers, PathsApart DEF
    PlaceInv, Left, A, Q, JobIs, Moved, ProcIs, RowIs, Kinds, AttIs, Archive
<1>16. StateAt'
  BY <1>1, <1>2, <1>3, <1>4, <1>5, <1>6, <1>7, Fields DEF StateAt, Starting,
    Writing, Verified, Publishing, Replacing, Finishing, Cleaning, Working, A,
    JobIs, Moved, ProcIs, RowIs, Kinds, AttIs
<1>17. BuildAt'
  BY <1>1, <1>2, <1>3, <1>4, <1>5, <1>6, <1>7, Fields DEF BuildAt, Starting,
    Writing, Verified, Publishing, Replacing, A, Q, JobIs, Moved, ProcIs,
    RowIs, Kinds, AttIs
<1>18. CleanAt' /\ StagingAt' /\ PlaceAt'
  BY <1>4 DEF CleanAt, StagingAt, PlaceAt, Cleaning, Ending, Moved, ProcIs
<1>19. CountInv'
  <2>1. Debt' <= Debt
    BY <1>1, <1>2, <1>3, <1>4, <1>5, <1>6, <1>7, Fields DEF Debt, Paid,
      Writing, ActiveStates, JobIs, Moved, ProcIs, RowIs, Kinds, AttIs
  <2>2. Later
    BY <1>2, NoEvent
  <2>. QED  BY <1>1, <1>2, <1>3, <1>4, <1>5, <1>6, <1>7, <2>1, <2>2, CountKeeps
              DEF JobIs
<1>20. TypeOK'
  BY <1>1, <1>2, <1>3, <1>4, <1>5, <1>6, <1>7, Fields, Types, TypesNext DEF
    AttInv, JobIs, Moved, ProcIs, RowIs, Kinds, AttIs
<1>. QED  BY <1>8, <1>9, <1>10, <1>11, <1>12, <1>13, <1>14, <1>15, <1>16,
            <1>17, <1>18, <1>19, <1>20 DEF AttInv, Resting

LEMMA InvalidKeeps ==
  ASSUME AttInv, Validate, ~Rehashed(disk[Part(job.gen)])
  PROVE  AttInv'
<1>1. StateAt /\ BuildAt /\ RowsInv
  BY DEF AttInv, Resting
<1>2. RaiseExportError /\ UNCHANGED events /\ proc.pc = "validate"
  BY DEF Validate, At
<1>3. /\ job.state \in Working /\ proc.mode # "complete"
      /\ A(job.gen).state = "closed"
  BY <1>1, <1>2, Fields DEF StateAt, BuildAt, RowsInv, Finishing, Working
<1>. QED  BY <1>2, <1>3, NoEvent, RaiseExportKeeps DEF Unmoved

LEMMA PostBuildKeeps ==
  ASSUME AttInv, PostBuild, Revoked = {}
  PROVE  AttInv'
<1>1. /\ AttemptsInv /\ JobInv /\ RowsInv /\ ArchiveInv /\ QuarantineInv
      /\ DiskInv /\ ArchiveHolds /\ PlaceInv /\ StateAt /\ BuildAt /\ CleanAt
      /\ StagingAt /\ PlaceAt /\ CountInv
  BY DEF AttInv, Resting
<1>2. /\ proc.pc = "post_build" /\ job' = job /\ zip' = zip
      /\ included' = included /\ allowed' = allowed /\ owner' = owner
      /\ att' = att /\ rec' = rec /\ dirs' = dirs /\ disk' = disk
      /\ file' = file /\ events' = events
  BY DEF PostBuild, At, rows, fs, world
<1>3. /\ job.state = "verifying" /\ att[job.gen] = "verifying"
      /\ A(job.gen).state = "verifying"
  BY <1>1, <1>2, Fields DEF StateAt, BuildAt, Starting, Writing, Verified,
    Publishing, Replacing, Finishing, Cleaning
<1>4. Moved("publish")
  BY Fields, GotoEffect DEF PostBuild, ProgramCounters
<1>5. StateAt'
  BY <1>1, <1>2, <1>3, <1>4, Fields DEF StateAt, Starting, Writing, Verified,
    Publishing, Replacing, Finishing, Cleaning, Working, A, Moved, ProcIs
<1>6. BuildAt'
  BY <1>1, <1>2, <1>3, <1>4, Fields DEF BuildAt, Starting, Writing, Verified,
    Publishing, Replacing, A, Q, Moved, ProcIs
<1>7. CleanAt' /\ StagingAt' /\ PlaceAt'
  BY <1>4 DEF CleanAt, StagingAt, PlaceAt, Cleaning, Ending, Moved, ProcIs
<1>8. CountInv'
  <2>1. Debt' <= Debt
    BY <1>1, <1>2, <1>3, <1>4, Fields DEF Debt, Paid, Writing, ActiveStates,
      Moved, ProcIs
  <2>2. Later
    BY <1>2, NoEvent
  <2>. QED  BY <1>1, <1>2, <1>3, <1>4, <2>1, <2>2, CountKeeps
<1>9. Later /\ SameJob /\ SameRows /\ UNCHANGED <<fs, world>> /\ proc' \in Procs
  BY <1>1, <1>2, <1>3, <1>4, NoEvent, SameJobEffect, Fields DEF Counted,
    SameRows, fs, world, Moved, ProcIs
<1>. QED  BY <1>5, <1>6, <1>7, <1>8, <1>9, MoveKeeps

LEMMA PostBuildRevokedKeeps ==
  ASSUME AttInv, PostBuild, Revoked # {}
  PROVE  AttInv'
<1>1. /\ AttemptsInv /\ JobInv /\ RowsInv /\ ArchiveInv /\ QuarantineInv
      /\ DiskInv /\ ArchiveHolds /\ PlaceInv /\ StateAt /\ BuildAt /\ CleanAt
      /\ StagingAt /\ PlaceAt /\ CountInv
  BY DEF AttInv, Resting
<1>2. /\ proc.pc = "post_build" /\ job' = job /\ zip' = zip
      /\ included' = included /\ allowed' = allowed /\ owner' = owner
      /\ dirs' = dirs /\ disk' = disk /\ file' = file /\ events' = events
  BY DEF PostBuild, At, rows, fs, world
<1>3. /\ job.state = "verifying" /\ att[job.gen] = "verifying"
      /\ A(job.gen).state = "verifying" /\ A(job.gen).path = Part(job.gen)
      /\ A(job.gen).intent = NoPath /\ Q(job.gen).state = "none"
      /\ included \subseteq Items
      /\ \A g \in Gens : g < job.gen => att[g] = "cleaned"
  BY <1>1, <1>2, Fields, Types DEF StateAt, BuildAt, Starting, Writing,
    Verified, Publishing, Replacing, Finishing, Cleaning, AttInv, AttemptsInv,
    ArchiveInv, RowsInv, A, Q
<1>4. ProcIs("revoking", proc.mode, proc.at, "rotate", Revoked, proc.items)
  <2>1. proc' = [proc EXCEPT !.pc = "revoking", !.then = "rotate", !.revoked = Revoked]
    BY DEF PostBuild
  <2>2. Revoked \in SUBSET Items
    BY <1>3 DEF Revoked
  <2>. QED  BY <2>1, <2>2, Fields DEF ProcIs, Procs, ProgramCounters
<1>5. AttIs(job.gen, "retiring")
  BY Fields, AttEffect DEF PostBuild, AttemptStates
<1>6. RowIs("archive", job.gen, "retiring", Archive.path, Archive.intent, Archive.ino,
            Archive.stamp)
  <2>1. Archive \in FileRows
    BY Fields, RowFields DEF Archive, A
  <2>2. [Archive EXCEPT !.state = "retiring"] \in FileRows
    BY <2>1, Fields, PathsApart DEF FileRows, FileStates, AttemptStates, Stamps
  <2>. QED  BY <2>1, <2>2, Fields, RowEffect DEF PostBuild, SetArchive, Archive,
            Kinds, FileRows
<1>7. AttemptsInv'
  BY <1>1, <1>2, <1>3, <1>4, <1>5, <1>6, Fields DEF AttemptsInv, Live, ProcIs,
    RowIs, Kinds, AttIs
<1>8. JobInv'
  BY <1>1, <1>2, <1>3, <1>4, <1>5, <1>6, Fields DEF JobInv, Clear,
    ActiveStates, ProcIs, RowIs, Kinds, AttIs
<1>9. RowsInv'
  BY <1>1, <1>2, <1>3, <1>4, <1>5, <1>6, Fields DEF RowsInv, Left, Live, A, Q,
    ProcIs, RowIs, Kinds, AttIs
<1>10. ArchiveInv'
  BY <1>1, <1>2, <1>3, <1>4, <1>5, <1>6, Fields, Numbers, PathsApart DEF
    ArchiveInv, A, ProcIs, RowIs, Kinds, AttIs, Archive
<1>11. QuarantineInv'
  BY <1>1, <1>2, <1>3, <1>4, <1>5, <1>6, Fields, Numbers, PathsApart DEF
    QuarantineInv, A, Q, ProcIs, RowIs, Kinds, AttIs, Archive
<1>12. DiskInv'
  BY <1>1, <1>2, <1>3, <1>4, <1>5, <1>6, Fields, Numbers, PathsApart DEF
    DiskInv, A, Q, ProcIs, RowIs, Kinds, AttIs, Archive
<1>13. ArchiveHolds'
  BY <1>1, <1>2, <1>3, <1>4, <1>5, <1>6, Fields DEF ArchiveHolds,
    CompleteArchiveMatches, Retained, Matches, SameInode, A, ProcIs, RowIs,
    Kinds, AttIs
<1>14. PlaceInv'
  BY <1>1, <1>2, <1>3, <1>4, <1>5, <1>6, Fields, Numbers, PathsApart DEF
    PlaceInv, Left, A, Q, ProcIs, RowIs, Kinds, AttIs, Archive
<1>15. StateAt'
  BY <1>1, <1>2, <1>3, <1>4, <1>5, <1>6, Fields DEF StateAt, Starting, Writing,
    Verified, Publishing, Replacing, Finishing, Cleaning, Working, A, ProcIs,
    RowIs, Kinds, AttIs
<1>16. BuildAt'
  BY <1>1, <1>2, <1>3, <1>4, <1>5, <1>6, Fields DEF BuildAt, Starting, Writing,
    Verified, Publishing, Replacing, A, Q, ProcIs, RowIs, Kinds, AttIs,
    Archive, Revoked
<1>17. CleanAt' /\ StagingAt' /\ PlaceAt'
  BY <1>4 DEF CleanAt, StagingAt, PlaceAt, Cleaning, Ending, ProcIs
<1>18. CountInv'
  <2>1. Debt' <= Debt
    BY <1>1, <1>2, <1>3, <1>4, <1>5, <1>6, Fields DEF Debt, Paid, Writing,
      ActiveStates, ProcIs, RowIs, Kinds, AttIs, Revoked
  <2>2. Later
    BY <1>2, NoEvent
  <2>. QED  BY <1>1, <1>2, <1>3, <1>4, <1>5, <1>6, <2>1, <2>2, CountKeeps
<1>19. TypeOK'
  BY <1>1, <1>2, <1>3, <1>4, <1>5, <1>6, Fields, Types, TypesNext DEF AttInv,
    ProcIs, RowIs, Kinds, AttIs
<1>. QED  BY <1>7, <1>8, <1>9, <1>10, <1>11, <1>12, <1>13, <1>14, <1>15, <1>16,
            <1>17, <1>18, <1>19 DEF AttInv, Resting

(* The attempt is given up, and the next generation begins.                  *)

LEMMA RotateKeeps ==
  ASSUME AttInv, Rotate
  PROVE  AttInv'
<1>1. /\ AttemptsInv /\ JobInv /\ RowsInv /\ ArchiveInv /\ QuarantineInv
      /\ DiskInv /\ ArchiveHolds /\ PlaceInv /\ StateAt /\ BuildAt /\ CleanAt
      /\ StagingAt /\ PlaceAt /\ CountInv
  BY DEF AttInv, Resting
<1>2. /\ proc.pc = "rotate" /\ zip' = zip /\ included' = included
      /\ allowed' = allowed /\ owner' = owner /\ dirs' = dirs /\ disk' = disk
      /\ file' = file /\ events' = events
  BY DEF Rotate, At, rows, fs, world
<1>3. /\ job.state = "verifying" /\ att[job.gen] = "retiring"
      /\ A(job.gen).path = Part(job.gen) /\ job.staging = "pending"
      /\ job.ready = "absent"
      /\ \A g \in Gens : g < job.gen => att[g] = "cleaned"
      /\ A(job.gen).state \in {"none", "retiring", "cleaned"}
      /\ A(job.gen).state # "none" /\ job.gen + 1 \in Gens
  <2>1. /\ job.state = "verifying" /\ att[job.gen] = "retiring"
        /\ A(job.gen).path = Part(job.gen)
    BY <1>1, <1>2 DEF StateAt, BuildAt, Publishing, Verified, Replacing
  <2>2. /\ A(job.gen).state \in {"none", "retiring", "cleaned"}
        /\ A(job.gen).state # "none"
    BY <1>1, <2>1, Fields, PathsApart DEF RowsInv, ArchiveInv, NoRow
  <2>3. job.staging = "pending" /\ job.ready = "absent"
    BY <1>1, <2>1 DEF JobInv, ActiveStates
  <2>4. \A g \in Gens : g < job.gen => att[g] = "cleaned"
    BY <1>1, <2>1, Fields DEF AttemptsInv
  <2>5. Debt = 1
    BY <1>2, <2>1 DEF Debt, Paid, ActiveStates, Writing
  <2>6. job.gen + 1 <= events.count
    BY <1>1, <2>5, Fields, CostIsNat DEF CountInv
  <2>7. job.gen + 1 \in Gens
    BY <2>6, Fields, AttemptsAssumption DEF Gens
  <2>. QED  BY <2>1, <2>2, <2>3, <2>4, <2>7
<1>4. Sweeping(job.gen, "initial")
  BY Fields, CleanEffect DEF Rotate, RotateLocked, ProgramCounters
<1>5. AttIs(job.gen, "retiring")
  BY Fields, AttEffect DEF Rotate, RotateLocked, AttemptStates
<1>6. JobIs("archiving", job.gen + 1, job.staging, job.ready)
  BY Fields, <1>1, <1>2, <1>3, <1>4, <1>5 DEF Rotate, RotateLocked, Rotated,
    JobIs, Jobs, JobStates
<1>7. RowIs("archive", job.gen, "retiring", Archive.path, Archive.intent, Archive.ino,
            Archive.stamp)
  <2>1. Archive \in FileRows
    BY Fields, RowFields DEF Archive, A
  <2>2. [Archive EXCEPT !.state = "retiring"] \in FileRows
    BY <2>1, Fields, PathsApart DEF FileRows, FileStates, AttemptStates, Stamps
  <2>. QED  BY <2>1, <2>2, Fields, RowEffect DEF Rotate, RotateLocked, SetArchive,
            Archive, Kinds, FileRows
<1>8. AttemptsInv'
  BY <1>1, <1>2, <1>3, <1>4, <1>5, <1>6, <1>7, Fields, Numbers DEF AttemptsInv,
    Live, JobIs, Sweeping, ProcIs, RowIs, Kinds, AttIs
<1>9. JobInv'
  BY <1>1, <1>2, <1>3, <1>4, <1>5, <1>6, <1>7, Fields, Numbers DEF JobInv,
    Clear, ActiveStates, JobIs, Sweeping, ProcIs, RowIs, Kinds, AttIs,
    AttemptsInv
<1>10. RowsInv'
  BY <1>1, <1>2, <1>3, <1>4, <1>5, <1>6, <1>7, Fields DEF RowsInv, Left, Live,
    A, Q, JobIs, Sweeping, ProcIs, RowIs, Kinds, AttIs, Archive
<1>11. ArchiveInv'
  BY <1>1, <1>2, <1>3, <1>4, <1>5, <1>6, <1>7, Fields, Numbers, PathsApart DEF
    ArchiveInv, A, JobIs, Sweeping, ProcIs, RowIs, Kinds, AttIs, Archive
<1>12. QuarantineInv'
  BY <1>1, <1>2, <1>3, <1>4, <1>5, <1>6, <1>7, Fields, Numbers, PathsApart DEF
    QuarantineInv, A, Q, JobIs, Sweeping, ProcIs, RowIs, Kinds, AttIs, Archive
<1>13. DiskInv'
  BY <1>1, <1>2, <1>3, <1>4, <1>5, <1>6, <1>7, Fields, Numbers, PathsApart DEF
    DiskInv, A, Q, JobIs, Sweeping, ProcIs, RowIs, Kinds, AttIs, Archive
<1>14. ArchiveHolds'
  BY <1>1, <1>2, <1>3, <1>4, <1>5, <1>6, <1>7, Fields, Numbers DEF
    ArchiveHolds, CompleteArchiveMatches, Retained, Matches, SameInode, A,
    JobIs, Sweeping, ProcIs, RowIs, Kinds, AttIs, AttemptsInv, RowsInv, Archive
<1>15. PlaceInv'
  BY <1>1, <1>2, <1>3, <1>4, <1>5, <1>6, <1>7, Fields, Numbers, PathsApart DEF
    PlaceInv, Left, A, Q, JobIs, Sweeping, ProcIs, RowIs, Kinds, AttIs, Archive
<1>16. StateAt'
  BY <1>1, <1>2, <1>3, <1>4, <1>5, <1>6, <1>7, Fields, Numbers DEF StateAt,
    Starting, Writing, Verified, Publishing, Replacing, Finishing, Cleaning,
    Working, A, JobIs, Sweeping, ProcIs, RowIs, Kinds, AttIs, AttemptsInv
<1>17. CleanAt'
  BY <1>1, <1>2, <1>3, <1>4, <1>5, <1>6, <1>7, Fields DEF CleanAt, Cleaning,
    Left, A, Q, JobIs, Sweeping, ProcIs, RowIs, Kinds, AttIs
<1>18. BuildAt' /\ StagingAt' /\ PlaceAt'
  BY <1>4 DEF BuildAt, StagingAt, PlaceAt, Starting, Writing, Verified,
    Publishing, Replacing, Ending, Sweeping, ProcIs
<1>19. CountInv'
  <2>1. Debt = 1 /\ Debt' = 0
    BY <1>1, <1>2, <1>3, <1>4, <1>5, <1>6, Fields, Numbers
       DEF Debt, Paid, Writing, ActiveStates, AttemptsInv, JobIs, AttIs
  <2>2. Cardinality(included \ allowed)' = Cardinality(included \ allowed)
    BY <1>2
  <2>. QED  BY <1>1, <1>2, <1>6, <2>1, <2>2, Fields, CostIsNat DEF CountInv, JobIs
<1>20. TypeOK'
  BY <1>1, <1>2, <1>3, <1>4, <1>5, <1>6, <1>7, Fields, Types, TypesNext DEF
    AttInv, JobIs, Sweeping, ProcIs, RowIs, Kinds, AttIs
<1>. QED  BY <1>8, <1>9, <1>10, <1>11, <1>12, <1>13, <1>14, <1>15, <1>16,
            <1>18, <1>17, <1>19, <1>20 DEF AttInv, Resting

LEMMA PublishIntentKeeps ==
  ASSUME AttInv, PublishIntent
  PROVE  AttInv'
<1>1. /\ AttemptsInv /\ JobInv /\ RowsInv /\ ArchiveInv /\ QuarantineInv
      /\ DiskInv /\ ArchiveHolds /\ PlaceInv /\ StateAt /\ BuildAt /\ CleanAt
      /\ StagingAt /\ PlaceAt /\ CountInv
  BY DEF AttInv, Resting
<1>2. /\ proc.pc = "publish" /\ job' = job /\ zip' = zip
      /\ included' = included /\ allowed' = allowed /\ owner' = owner
      /\ att' = att /\ dirs' = dirs /\ disk' = disk /\ file' = file
      /\ events' = events
  BY DEF PublishIntent, At, rows, fs, world
<1>3. /\ job.state = "verifying" /\ att[job.gen] = "verifying"
      /\ A(job.gen).state = "verifying" /\ A(job.gen).path = Part(job.gen)
      /\ A(job.gen).stamp # Open /\ Q(job.gen).state = "none"
      /\ disk[Ready] # job.gen
  BY <1>1, <1>2, Fields DEF StateAt, BuildAt, Starting, Writing, Verified,
    Publishing, Replacing, Finishing, Cleaning, ArchiveInv, RowsInv, DiskInv,
    A, Q
<1>4. Moved("quarantine")
  BY Fields, GotoEffect DEF PublishIntent, ProgramCounters
<1>5. RowIs("archive", job.gen, "publishing", Archive.path, Ready, Archive.ino,
            Archive.stamp)
  <2>1. Archive \in FileRows
    BY Fields, RowFields DEF Archive, A
  <2>2. [Archive EXCEPT !.state = "publishing",
             !.intent = Ready]
          \in FileRows
    BY <2>1, Fields, PathsApart DEF FileRows, FileStates, AttemptStates, Stamps
  <2>. QED  BY <2>1, <2>2, Fields, RowEffect DEF PublishIntent, SetArchive,
            Archive, Kinds, FileRows
<1>6. AttemptsInv'
  BY <1>1, <1>2 DEF AttemptsInv, Live
<1>7. JobInv'
  BY <1>1, <1>2 DEF JobInv, Clear, ActiveStates
<1>8. RowsInv'
  BY <1>1, <1>2, <1>3, <1>4, <1>5, Fields DEF RowsInv, Left, Live, A, Q, Moved,
    ProcIs, RowIs, Kinds, Archive
<1>9. ArchiveInv'
  BY <1>1, <1>2, <1>3, <1>4, <1>5, Fields, Numbers, PathsApart DEF ArchiveInv,
    A, Moved, ProcIs, RowIs, Kinds, Archive
<1>10. QuarantineInv'
  BY <1>1, <1>2, <1>3, <1>4, <1>5, Fields, Numbers, PathsApart DEF
    QuarantineInv, A, Q, Moved, ProcIs, RowIs, Kinds, Archive
<1>11. DiskInv'
  BY <1>1, <1>2, <1>3, <1>4, <1>5, Fields, Numbers, PathsApart DEF DiskInv, A,
    Q, Moved, ProcIs, RowIs, Kinds, Archive
<1>12. ArchiveHolds'
  BY <1>1, <1>2, <1>3, <1>4, <1>5, Fields DEF ArchiveHolds,
    CompleteArchiveMatches, Retained, Matches, SameInode, A, Moved, ProcIs,
    RowIs, Kinds, Archive
<1>13. PlaceInv'
  BY <1>1, <1>2, <1>3, <1>4, <1>5, Fields, Numbers, PathsApart DEF PlaceInv,
    Left, A, Q, Moved, ProcIs, RowIs, Kinds, Archive
<1>14. StateAt'
  BY <1>1, <1>2, <1>3, <1>4, <1>5, Fields DEF StateAt, Starting, Writing,
    Verified, Publishing, Replacing, Finishing, Cleaning, Working, A, Moved,
    ProcIs, RowIs, Kinds
<1>15. BuildAt'
  BY <1>1, <1>2, <1>3, <1>4, <1>5, Fields DEF BuildAt, Starting, Writing,
    Verified, Publishing, Replacing, A, Q, Moved, ProcIs, RowIs, Kinds, Archive
<1>16. CleanAt' /\ StagingAt' /\ PlaceAt'
  BY <1>4 DEF CleanAt, StagingAt, PlaceAt, Cleaning, Ending, Moved, ProcIs
<1>17. CountInv'
  <2>1. Debt' <= Debt
    BY <1>1, <1>2, <1>3, <1>4, <1>5, Fields DEF Debt, Paid, Writing,
      ActiveStates, Moved, ProcIs, RowIs, Kinds
  <2>2. Later
    BY <1>2, NoEvent
  <2>. QED  BY <1>1, <1>2, <1>3, <1>4, <1>5, <2>1, <2>2, CountKeeps
<1>18. TypeOK'
  BY <1>1, <1>2, <1>3, <1>4, <1>5, Fields, Types, TypesNext DEF AttInv, Moved,
    ProcIs, RowIs, Kinds
<1>. QED  BY <1>6, <1>7, <1>8, <1>9, <1>10, <1>11, <1>12, <1>13, <1>14, <1>15,
            <1>16, <1>17, <1>18 DEF AttInv, Resting

(* A file that is in the way is recorded, moved and recorded again.          *)

LEMMA NoCollisionKeeps ==
  ASSUME AttInv, FindCollision, Quarantine.state = "none",
         disk[Ready] \in {NoFile, Archive.ino}
  PROVE  AttInv'
<1>1. /\ AttemptsInv /\ JobInv /\ RowsInv /\ ArchiveInv /\ QuarantineInv
      /\ DiskInv /\ ArchiveHolds /\ PlaceInv /\ StateAt /\ BuildAt /\ CleanAt
      /\ StagingAt /\ PlaceAt /\ CountInv
  BY DEF AttInv, Resting
<1>2. /\ proc.pc = "quarantine" /\ job' = job /\ zip' = zip
      /\ included' = included /\ allowed' = allowed /\ owner' = owner
      /\ att' = att /\ rec' = rec /\ dirs' = dirs /\ disk' = disk
      /\ file' = file /\ events' = events
  BY DEF FindCollision, At, Archive, Quarantine, rows, fs, world
<1>3. /\ job.state = "verifying" /\ att[job.gen] = "verifying"
      /\ A(job.gen).state = "publishing" /\ A(job.gen).ino = job.gen
      /\ Q(job.gen).state \in {"none", "writing", "closed"}
      /\ proc.mode # "publishing" => disk[Ready] # job.gen
  BY <1>1, <1>2, Fields DEF StateAt, BuildAt, Starting, Writing, Verified,
    Publishing, Replacing, Finishing, Cleaning, ArchiveInv, RowsInv, A, Q
<1>4. Moved("rename")
  BY Fields, GotoEffect DEF FindCollision, Archive, Quarantine, ProgramCounters
<1>5. StateAt'
  BY <1>1, <1>2, <1>3, <1>4, Fields DEF StateAt, Starting, Writing, Verified,
    Publishing, Replacing, Finishing, Cleaning, Working, A, Moved, ProcIs
<1>6. BuildAt'
  BY <1>1, <1>2, <1>3, <1>4, Fields DEF BuildAt, Starting, Writing, Verified,
    Publishing, Replacing, A, Q, Moved, ProcIs, Quarantine
<1>7. CleanAt' /\ StagingAt' /\ PlaceAt'
  BY <1>4 DEF CleanAt, StagingAt, PlaceAt, Cleaning, Ending, Moved, ProcIs
<1>8. CountInv'
  <2>1. Debt' <= Debt
    BY <1>1, <1>2, <1>3, <1>4, Fields DEF Debt, Paid, Writing, ActiveStates,
      Moved, ProcIs
  <2>2. Later
    BY <1>2, NoEvent
  <2>. QED  BY <1>1, <1>2, <1>3, <1>4, <2>1, <2>2, CountKeeps
<1>9. Later /\ SameJob /\ SameRows /\ UNCHANGED <<fs, world>> /\ proc' \in Procs
  BY <1>1, <1>2, <1>3, <1>4, NoEvent, SameJobEffect, Fields DEF Counted,
    SameRows, fs, world, Moved, ProcIs
<1>. QED  BY <1>5, <1>6, <1>7, <1>8, <1>9, MoveKeeps

LEMMA FindCollisionKeeps ==
  ASSUME AttInv, FindCollision, Quarantine.state = "none",
         disk[Ready] \notin {NoFile, Archive.ino}
  PROVE  AttInv'
<1>1. /\ AttemptsInv /\ JobInv /\ RowsInv /\ ArchiveInv /\ QuarantineInv
      /\ DiskInv /\ ArchiveHolds /\ PlaceInv /\ StateAt /\ BuildAt /\ CleanAt
      /\ StagingAt /\ PlaceAt /\ CountInv
  BY DEF AttInv, Resting
<1>2. /\ proc.pc = "quarantine" /\ job' = job /\ zip' = zip
      /\ included' = included /\ allowed' = allowed /\ owner' = owner
      /\ att' = att /\ dirs' = dirs /\ disk' = disk /\ file' = file
      /\ events' = events
  BY DEF FindCollision, At, rows, fs, world
<1>3. /\ job.state = "verifying" /\ att[job.gen] = "verifying"
      /\ A(job.gen).state = "publishing" /\ A(job.gen).ino = job.gen
      /\ Q(job.gen).state \in {"none", "writing", "closed"}
      /\ proc.mode # "publishing" => disk[Ready] # job.gen
      /\ disk[Ready] \in Inodes \ {job.gen} /\ Quarantine = Q(job.gen)
      /\ disk[Quar(job.gen)] = NoFile
      /\ \A g \in Gens : g < job.gen => att[g] = "cleaned"
      /\ zip = NoReceipt /\ A(job.gen).path = Part(job.gen)
  BY <1>1, <1>2, Fields, DiskFields, PathsApart DEF StateAt, BuildAt, Starting,
    Writing, Verified, Publishing, Replacing, Finishing, Cleaning, ArchiveInv,
    RowsInv, QuarantineInv, DiskInv, AttemptsInv, JobInv, ActiveStates, NoRow,
    Archive, Quarantine, A, Q
<1>4. events.worst # "unread" => disk[Ready] = Foreign
  <2>1. ASSUME NEW g \in Gens, g # job.gen
        PROVE  ~Left(A(g)) /\ A(g).state # "publishing" /\ zip.ino # g
    <3>1. att[g] \in {"none", "cleaned"}
      BY <1>1, <1>3, <2>1, Fields, Numbers DEF AttemptsInv
    <3>2. ~Left(A(g)) /\ A(g).state # "publishing"
      BY <1>1, <3>1 DEF RowsInv, Left
    <3>. QED  BY <1>3, <2>1, <3>2, Numbers DEF NoReceipt
  <2>. QED  BY <1>1, <1>3, <2>1, Numbers DEF PlaceInv, Left
<1>5. Moved("quarantine_move")
  BY Fields, GotoEffect DEF FindCollision, ProgramCounters
<1>6. RowIs("quarantine", job.gen, "writing", Ready, Quar(job.gen), disk[Ready], Open)
  <2>1. [state |-> "writing", path |-> Ready, intent |-> Quar(job.gen),
         ino |-> disk[Ready], stamp |-> Open] \in FileRows
    BY <1>3, Fields, PathsApart DEF FileRows, FileStates, AttemptStates, Stamps
  <2>. QED  BY <2>1, Fields, RowEffect DEF FindCollision, Kinds
<1>7. AttemptsInv'
  BY <1>1, <1>2 DEF AttemptsInv, Live
<1>8. JobInv'
  BY <1>1, <1>2 DEF JobInv, Clear, ActiveStates
<1>9. RowsInv'
  BY <1>1, <1>2, <1>3, <1>4, <1>5, <1>6, Fields DEF RowsInv, Left, Live, A, Q,
    Moved, ProcIs, RowIs, Kinds
<1>10. ArchiveInv'
  BY <1>1, <1>2, <1>3, <1>4, <1>5, <1>6, Fields, Numbers, PathsApart DEF
    ArchiveInv, A, Moved, ProcIs, RowIs, Kinds
<1>11. QuarantineInv'
  BY <1>1, <1>2, <1>3, <1>4, <1>5, <1>6, Fields, Numbers, PathsApart DEF
    QuarantineInv, A, Q, Moved, ProcIs, RowIs, Kinds
<1>12. DiskInv'
  BY <1>1, <1>2, <1>3, <1>4, <1>5, <1>6, Fields, Numbers, PathsApart DEF
    DiskInv, A, Q, Moved, ProcIs, RowIs, Kinds
<1>13. ArchiveHolds'
  BY <1>1, <1>2, <1>3, <1>4, <1>5, <1>6, Fields DEF ArchiveHolds,
    CompleteArchiveMatches, Retained, Matches, SameInode, A, Moved, ProcIs,
    RowIs, Kinds, RowsInv
<1>14. PlaceInv'
  BY <1>1, <1>2, <1>3, <1>4, <1>5, <1>6, Fields, Numbers, PathsApart DEF
    PlaceInv, Left, A, Q, Moved, ProcIs, RowIs, Kinds
<1>15. StateAt'
  BY <1>1, <1>2, <1>3, <1>4, <1>5, <1>6, Fields DEF StateAt, Starting, Writing,
    Verified, Publishing, Replacing, Finishing, Cleaning, Working, A, Moved,
    ProcIs, RowIs, Kinds
<1>16. BuildAt'
  BY <1>1, <1>2, <1>3, <1>4, <1>5, <1>6, Fields DEF BuildAt, Starting, Writing,
    Verified, Publishing, Replacing, A, Q, Moved, ProcIs, RowIs, Kinds
<1>17. CleanAt' /\ StagingAt' /\ PlaceAt'
  BY <1>5 DEF CleanAt, StagingAt, PlaceAt, Cleaning, Ending, Moved, ProcIs
<1>18. CountInv'
  <2>1. Debt' <= Debt
    BY <1>1, <1>2, <1>3, <1>4, <1>5, <1>6, Fields DEF Debt, Paid, Writing,
      ActiveStates, Moved, ProcIs, RowIs, Kinds
  <2>2. Later
    BY <1>2, NoEvent
  <2>. QED  BY <1>1, <1>2, <1>3, <1>4, <1>5, <1>6, <2>1, <2>2, CountKeeps
<1>19. TypeOK'
  BY <1>1, <1>2, <1>3, <1>4, <1>5, <1>6, Fields, Types, TypesNext DEF AttInv,
    Moved, ProcIs, RowIs, Kinds
<1>. QED  BY <1>7, <1>8, <1>9, <1>10, <1>11, <1>12, <1>13, <1>14, <1>15, <1>16,
            <1>17, <1>18, <1>19 DEF AttInv, Resting

LEMMA CollisionFoundKeeps ==
  ASSUME AttInv, FindCollision, Quarantine.state # "none"
  PROVE  AttInv'
<1>1. /\ AttemptsInv /\ JobInv /\ RowsInv /\ ArchiveInv /\ QuarantineInv
      /\ DiskInv /\ ArchiveHolds /\ PlaceInv /\ StateAt /\ BuildAt /\ CleanAt
      /\ StagingAt /\ PlaceAt /\ CountInv
  BY DEF AttInv, Resting
<1>2. /\ proc.pc = "quarantine" /\ job' = job /\ zip' = zip
      /\ included' = included /\ allowed' = allowed /\ owner' = owner
      /\ att' = att /\ rec' = rec /\ dirs' = dirs /\ disk' = disk
      /\ file' = file /\ events' = events
  BY DEF FindCollision, At, rows, fs, world
<1>3. /\ job.state = "verifying" /\ att[job.gen] = "verifying"
      /\ A(job.gen).state = "publishing" /\ A(job.gen).ino = job.gen
      /\ Q(job.gen).state \in {"none", "writing", "closed"}
      /\ proc.mode # "publishing" => disk[Ready] # job.gen
      /\ Quarantine = Q(job.gen)
  BY <1>1, <1>2, Fields DEF StateAt, BuildAt, Starting, Writing, Verified,
    Publishing, Replacing, Finishing, Cleaning, ArchiveInv, RowsInv, A, Q,
    Quarantine
<1>4. \/ Q(job.gen).state = "closed" /\ Moved("rename")
      \/ Q(job.gen).state = "writing" /\ Moved("quarantine_move")
  BY Fields, GotoEffect, <1>1, <1>2, <1>3 DEF FindCollision, ProgramCounters, Q
<1>5. StateAt'
  BY <1>1, <1>2, <1>3, <1>4, Fields DEF StateAt, Starting, Writing, Verified,
    Publishing, Replacing, Finishing, Cleaning, Working, A, Moved, ProcIs
<1>6. BuildAt'
  BY <1>1, <1>2, <1>3, <1>4, Fields DEF BuildAt, Starting, Writing, Verified,
    Publishing, Replacing, A, Q, Moved, ProcIs
<1>7. CleanAt'
  BY <1>1, <1>2, <1>3, <1>4, Fields DEF CleanAt, Cleaning, Left, A, Q, Moved,
    ProcIs
<1>8. StagingAt'
  BY <1>1, <1>2, <1>3, <1>4, Fields DEF StagingAt, Ending, First, StagingWork,
    Clear, Left, A, Q, Moved, ProcIs
<1>9. PlaceAt'
  BY <1>1, <1>2, <1>3, <1>4, Fields DEF PlaceAt, First, Left, A, Moved, ProcIs
<1>10. CountInv'
  <2>1. Debt' <= Debt
    BY <1>1, <1>2, <1>3, <1>4, Fields DEF Debt, Paid, Writing, ActiveStates,
      Moved, ProcIs
  <2>2. Later
    BY <1>2, NoEvent
  <2>. QED  BY <1>1, <1>2, <1>3, <1>4, <2>1, <2>2, CountKeeps
<1>11. Later /\ SameJob /\ SameRows /\ UNCHANGED <<fs, world>> /\ proc' \in Procs
  BY <1>1, <1>2, <1>3, <1>4, NoEvent, SameJobEffect, Fields DEF Counted,
    SameRows, fs, world, Moved, ProcIs
<1>. QED  BY <1>5, <1>6, <1>7, <1>8, <1>9, <1>10, <1>11, MoveKeeps

LEMMA MoveCollisionKeeps ==
  ASSUME AttInv, MoveCollision, Matches(disk[Ready], Quarantine),
         ~Matches(disk[Quar(job.gen)], Quarantine)
  PROVE  AttInv'
<1>1. /\ AttemptsInv /\ JobInv /\ RowsInv /\ ArchiveInv /\ QuarantineInv
      /\ DiskInv /\ ArchiveHolds /\ PlaceInv /\ StateAt /\ BuildAt /\ CleanAt
      /\ StagingAt /\ PlaceAt /\ CountInv
  BY DEF AttInv, Resting
<1>2. /\ proc.pc = "quarantine_move" /\ job' = job /\ zip' = zip
      /\ included' = included /\ allowed' = allowed /\ owner' = owner
      /\ att' = att /\ rec' = rec /\ dirs' = dirs /\ events' = events
  BY DEF MoveCollision, At, rows, fs, world
<1>3. /\ job.state = "verifying" /\ att[job.gen] = "verifying"
      /\ A(job.gen).state = "publishing" /\ A(job.gen).ino = job.gen
      /\ Q(job.gen).state \in {"none", "writing", "closed"}
      /\ proc.mode # "publishing" => disk[Ready] # job.gen
      /\ Q(job.gen).state = "writing" /\ Quarantine = Q(job.gen)
      /\ disk[Ready] = Q(job.gen).ino /\ disk[Ready] \in Inodes
      /\ disk[Quar(job.gen)] = NoFile /\ Q(job.gen).ino # job.gen
      /\ \A g \in Gens : g < job.gen => att[g] = "cleaned"
      /\ job.gen \in dirs
  BY <1>1, <1>2, Fields, DiskFields, PathsApart DEF StateAt, BuildAt, Starting,
    Writing, Verified, Publishing, Replacing, Finishing, Cleaning, ArchiveInv,
    RowsInv, QuarantineInv, DiskInv, AttemptsInv, Live, Matches, SameInode,
    Quarantine, A, Q
<1>4. Moved("quarantine_close")
  BY Fields, GotoEffect DEF MoveCollision, ProgramCounters
<1>5. Renamed(Ready, Quar(job.gen))
  <2>1. file[disk[Ready]].ctime \in 0..1
    BY <1>1, <1>3, Numbers DEF DiskInv
  <2>. QED  BY <1>3, <2>1, Fields, PathsApart, RenameEffect DEF MoveCollision
<1>6. AttemptsInv'
  BY <1>1, <1>2 DEF AttemptsInv, Live
<1>7. JobInv'
  BY <1>1, <1>2 DEF JobInv, Clear, ActiveStates
<1>8. RowsInv'
  BY <1>1, <1>2 DEF RowsInv, Left, Live, A, Q
<1>9. ArchiveInv'
  BY <1>1, <1>2 DEF ArchiveInv, A
<1>10. QuarantineInv'
  BY <1>1, <1>2 DEF QuarantineInv, A, Q
<1>11. DiskInv'
  BY <1>1, <1>2, <1>3, <1>4, <1>5, Fields, Numbers, PathsApart, DiskFields DEF
    DiskInv, A, Q, Moved, ProcIs, Renamed
<1>12. ArchiveHolds'
  BY <1>1, <1>2, <1>3, <1>4, <1>5, Fields, Numbers DEF ArchiveHolds,
    CompleteArchiveMatches, Retained, Matches, SameInode, A, Moved, ProcIs,
    Renamed, AttemptsInv, RowsInv
<1>13. PlaceInv'
  BY <1>1, <1>2, <1>3, <1>4, <1>5, Fields, Numbers, PathsApart DEF PlaceInv,
    Left, A, Q, Moved, ProcIs, Renamed
<1>14. StateAt'
  BY <1>1, <1>2, <1>3, <1>4, <1>5, Fields DEF StateAt, Starting, Writing,
    Verified, Publishing, Replacing, Finishing, Cleaning, Working, A, Moved,
    ProcIs, Renamed
<1>15. BuildAt'
  BY <1>1, <1>2, <1>3, <1>4, <1>5, Fields, Numbers, PathsApart DEF BuildAt,
    Starting, Writing, Verified, Publishing, Replacing, A, Q, Moved, ProcIs,
    Renamed
<1>16. CleanAt' /\ StagingAt' /\ PlaceAt'
  BY <1>4 DEF CleanAt, StagingAt, PlaceAt, Cleaning, Ending, Moved, ProcIs
<1>17. CountInv'
  <2>1. Debt' <= Debt
    BY <1>1, <1>2, <1>3, <1>4, <1>5, Fields DEF Debt, Paid, Writing,
      ActiveStates, Moved, ProcIs, Renamed
  <2>2. Later
    BY <1>2, NoEvent
  <2>. QED  BY <1>1, <1>2, <1>3, <1>4, <1>5, <2>1, <2>2, CountKeeps
<1>18. TypeOK'
  BY <1>1, <1>2, <1>3, <1>4, <1>5, Fields, Types, TypesNext DEF AttInv, Moved,
    ProcIs, Renamed
<1>. QED  BY <1>6, <1>7, <1>8, <1>9, <1>10, <1>11, <1>12, <1>13, <1>14, <1>15,
            <1>16, <1>17, <1>18 DEF AttInv, Resting

LEMMA CollisionMovedKeeps ==
  ASSUME AttInv, MoveCollision, ~Matches(disk[Ready], Quarantine),
         Matches(disk[Quar(job.gen)], Quarantine)
  PROVE  AttInv'
<1>1. /\ AttemptsInv /\ JobInv /\ RowsInv /\ ArchiveInv /\ QuarantineInv
      /\ DiskInv /\ ArchiveHolds /\ PlaceInv /\ StateAt /\ BuildAt /\ CleanAt
      /\ StagingAt /\ PlaceAt /\ CountInv
  BY DEF AttInv, Resting
<1>2. /\ proc.pc = "quarantine_move" /\ job' = job /\ zip' = zip
      /\ included' = included /\ allowed' = allowed /\ owner' = owner
      /\ att' = att /\ rec' = rec /\ dirs' = dirs /\ disk' = disk
      /\ file' = file /\ events' = events
  BY DEF MoveCollision, At, Quarantine, rows, fs, world
<1>3. /\ job.state = "verifying" /\ att[job.gen] = "verifying"
      /\ A(job.gen).state = "publishing" /\ A(job.gen).ino = job.gen
      /\ Q(job.gen).state \in {"none", "writing", "closed"}
      /\ proc.mode # "publishing" => disk[Ready] # job.gen
      /\ Q(job.gen).state = "writing" /\ Quarantine = Q(job.gen)
      /\ disk[Quar(job.gen)] = Q(job.gen).ino
  BY <1>1, <1>2, Fields DEF StateAt, BuildAt, Starting, Writing, Verified,
    Publishing, Replacing, Finishing, Cleaning, ArchiveInv, RowsInv, Matches,
    SameInode, Quarantine, A, Q
<1>4. Moved("quarantine_close")
  BY Fields, GotoEffect DEF MoveCollision, Quarantine, ProgramCounters
<1>5. StateAt'
  BY <1>1, <1>2, <1>3, <1>4, Fields DEF StateAt, Starting, Writing, Verified,
    Publishing, Replacing, Finishing, Cleaning, Working, A, Moved, ProcIs
<1>6. BuildAt'
  BY <1>1, <1>2, <1>3, <1>4, Fields DEF BuildAt, Starting, Writing, Verified,
    Publishing, Replacing, A, Q, Moved, ProcIs
<1>7. CleanAt' /\ StagingAt' /\ PlaceAt'
  BY <1>4 DEF CleanAt, StagingAt, PlaceAt, Cleaning, Ending, Moved, ProcIs
<1>8. CountInv'
  <2>1. Debt' <= Debt
    BY <1>1, <1>2, <1>3, <1>4, Fields DEF Debt, Paid, Writing, ActiveStates,
      Moved, ProcIs
  <2>2. Later
    BY <1>2, NoEvent
  <2>. QED  BY <1>1, <1>2, <1>3, <1>4, <2>1, <2>2, CountKeeps
<1>9. Later /\ SameJob /\ SameRows /\ UNCHANGED <<fs, world>> /\ proc' \in Procs
  BY <1>1, <1>2, <1>3, <1>4, NoEvent, SameJobEffect, Fields DEF Counted,
    SameRows, fs, world, Moved, ProcIs
<1>. QED  BY <1>5, <1>6, <1>7, <1>8, <1>9, MoveKeeps

LEMMA CollisionLostKeeps ==
  ASSUME AttInv, MoveCollision,
         Matches(disk[Ready], Quarantine) = Matches(disk[Quar(job.gen)], Quarantine)
  PROVE  AttInv'
<1>1. StateAt /\ BuildAt
  BY DEF AttInv, Resting
<1>2. RaiseExportError /\ UNCHANGED events /\ proc.pc = "quarantine_move"
  BY DEF MoveCollision, At
<1>3. /\ job.state \in Working /\ proc.mode # "complete"
      /\ proc.mode = "build" => disk[Ready] # job.gen
  BY <1>1, <1>2 DEF StateAt, BuildAt, Publishing, Replacing, Finishing, Working
<1>. QED  BY <1>2, <1>3, NoEvent, RaiseExportKeeps DEF Unmoved

LEMMA CloseQuarantineKeeps ==
  ASSUME AttInv, CloseQuarantine
  PROVE  AttInv'
<1>1. /\ AttemptsInv /\ JobInv /\ RowsInv /\ ArchiveInv /\ QuarantineInv
      /\ DiskInv /\ ArchiveHolds /\ PlaceInv /\ StateAt /\ BuildAt /\ CleanAt
      /\ StagingAt /\ PlaceAt /\ CountInv
  BY DEF AttInv, Resting
<1>2. /\ proc.pc = "quarantine_close" /\ job' = job /\ zip' = zip
      /\ included' = included /\ allowed' = allowed /\ owner' = owner
      /\ att' = att /\ dirs' = dirs /\ disk' = disk /\ file' = file
      /\ events' = events
  BY DEF CloseQuarantine, At, rows, fs, world
<1>3. /\ job.state = "verifying" /\ att[job.gen] = "verifying"
      /\ A(job.gen).state = "publishing" /\ A(job.gen).ino = job.gen
      /\ Q(job.gen).state \in {"none", "writing", "closed"}
      /\ proc.mode # "publishing" => disk[Ready] # job.gen
      /\ Q(job.gen).state = "writing" /\ disk[Quar(job.gen)] = Q(job.gen).ino
      /\ file[disk[Quar(job.gen)]].ctime \in 0..2
  BY <1>1, <1>2, Fields, DiskFields DEF StateAt, BuildAt, Starting, Writing,
    Verified, Publishing, Replacing, Finishing, Cleaning, ArchiveInv, RowsInv,
    QuarantineInv, A, Q
<1>4. Moved("rename")
  BY Fields, GotoEffect DEF CloseQuarantine, ProgramCounters
<1>5. RowIs("quarantine", job.gen, "closed", Quar(job.gen), NoPath, Quarantine.ino,
            file[disk[Quar(job.gen)]].ctime)
  <2>1. Quarantine \in FileRows
    BY Fields, RowFields DEF Quarantine, Q
  <2>2. [Quarantine EXCEPT !.state = "closed",
             !.path = Quar(job.gen),
             !.intent = NoPath,
             !.stamp = file[disk[Quar(job.gen)]].ctime]
          \in FileRows
    BY <2>1, <1>3, Fields, PathsApart DEF FileRows, FileStates, AttemptStates, Stamps
  <2>. QED  BY <2>1, <2>2, Fields, RowEffect DEF CloseQuarantine, Quarantine,
            Kinds, FileRows
<1>6. AttemptsInv'
  BY <1>1, <1>2 DEF AttemptsInv, Live
<1>7. JobInv'
  BY <1>1, <1>2 DEF JobInv, Clear, ActiveStates
<1>8. RowsInv'
  BY <1>1, <1>2, <1>3, <1>4, <1>5, Fields DEF RowsInv, Left, Live, A, Q, Moved,
    ProcIs, RowIs, Kinds, Quarantine, Open
<1>9. ArchiveInv'
  BY <1>1, <1>2, <1>3, <1>4, <1>5, Fields, Numbers, PathsApart DEF ArchiveInv,
    A, Moved, ProcIs, RowIs, Kinds, Quarantine, Open
<1>10. QuarantineInv'
  BY <1>1, <1>2, <1>3, <1>4, <1>5, Fields, Numbers, PathsApart DEF
    QuarantineInv, A, Q, Moved, ProcIs, RowIs, Kinds, Quarantine, Open
<1>11. DiskInv'
  BY <1>1, <1>2, <1>3, <1>4, <1>5, Fields, Numbers, PathsApart DEF DiskInv, A,
    Q, Moved, ProcIs, RowIs, Kinds, Quarantine, Open
<1>12. ArchiveHolds'
  BY <1>1, <1>2, <1>3, <1>4, <1>5, Fields DEF ArchiveHolds,
    CompleteArchiveMatches, Retained, Matches, SameInode, A, Moved, ProcIs,
    RowIs, Kinds, Quarantine, Open
<1>13. PlaceInv'
  BY <1>1, <1>2, <1>3, <1>4, <1>5, Fields, Numbers, PathsApart DEF PlaceInv,
    Left, A, Q, Moved, ProcIs, RowIs, Kinds, Quarantine, Open
<1>14. StateAt'
  BY <1>1, <1>2, <1>3, <1>4, <1>5, Fields DEF StateAt, Starting, Writing,
    Verified, Publishing, Replacing, Finishing, Cleaning, Working, A, Moved,
    ProcIs, RowIs, Kinds
<1>15. BuildAt'
  BY <1>1, <1>2, <1>3, <1>4, <1>5, Fields DEF BuildAt, Starting, Writing,
    Verified, Publishing, Replacing, A, Q, Moved, ProcIs, RowIs, Kinds,
    Quarantine, Open
<1>16. CleanAt' /\ StagingAt' /\ PlaceAt'
  BY <1>4 DEF CleanAt, StagingAt, PlaceAt, Cleaning, Ending, Moved, ProcIs
<1>17. CountInv'
  <2>1. Debt' <= Debt
    BY <1>1, <1>2, <1>3, <1>4, <1>5, Fields DEF Debt, Paid, Writing,
      ActiveStates, Moved, ProcIs, RowIs, Kinds
  <2>2. Later
    BY <1>2, NoEvent
  <2>. QED  BY <1>1, <1>2, <1>3, <1>4, <1>5, <2>1, <2>2, CountKeeps
<1>18. TypeOK'
  BY <1>1, <1>2, <1>3, <1>4, <1>5, Fields, Types, TypesNext DEF AttInv, Moved,
    ProcIs, RowIs, Kinds
<1>. QED  BY <1>6, <1>7, <1>8, <1>9, <1>10, <1>11, <1>12, <1>13, <1>14, <1>15,
            <1>16, <1>17, <1>18 DEF AttInv, Resting

(* The rename, and what an earlier process may have left of it.              *)

LEMMA PublishMovedKeeps ==
  ASSUME AttInv, Publish, SameInode(disk[Ready], Archive), Goto("candidate"),
         UNCHANGED <<rows, fs, world>>
  PROVE  AttInv'
<1>1. /\ AttemptsInv /\ JobInv /\ RowsInv /\ ArchiveInv /\ QuarantineInv
      /\ DiskInv /\ ArchiveHolds /\ PlaceInv /\ StateAt /\ BuildAt /\ CleanAt
      /\ StagingAt /\ PlaceAt /\ CountInv
  BY DEF AttInv, Resting
<1>2. /\ proc.pc = "rename" /\ job' = job /\ zip' = zip
      /\ included' = included /\ allowed' = allowed /\ owner' = owner
      /\ att' = att /\ rec' = rec /\ dirs' = dirs /\ disk' = disk
      /\ file' = file /\ events' = events
  BY DEF Publish, At, rows, fs, world
<1>3. /\ job.state = "verifying" /\ att[job.gen] = "verifying"
      /\ A(job.gen).state = "publishing" /\ A(job.gen).ino = job.gen
      /\ A(job.gen).path = Part(job.gen) /\ A(job.gen).stamp # Open
      /\ Q(job.gen).state \in {"none", "closed"} /\ Archive = A(job.gen)
      /\ disk[Ready] = job.gen
  BY <1>1, <1>2, Fields DEF StateAt, BuildAt, Starting, Writing, Verified,
    Publishing, Replacing, Finishing, Cleaning, ArchiveInv, A, Q, Archive,
    SameInode
<1>4. Moved("candidate")
  BY Fields, GotoEffect DEF ProgramCounters
<1>5. StateAt'
  BY <1>1, <1>2, <1>3, <1>4, Fields DEF StateAt, Starting, Writing, Verified,
    Publishing, Replacing, Finishing, Cleaning, Working, A, Moved, ProcIs
<1>6. BuildAt'
  BY <1>1, <1>2, <1>3, <1>4, Fields DEF BuildAt, Starting, Writing, Verified,
    Publishing, Replacing, A, Q, Moved, ProcIs
<1>7. CleanAt' /\ StagingAt' /\ PlaceAt'
  BY <1>4 DEF CleanAt, StagingAt, PlaceAt, Cleaning, Ending, Moved, ProcIs
<1>8. CountInv'
  <2>1. Debt' <= Debt
    BY <1>1, <1>2, <1>3, <1>4, Fields DEF Debt, Paid, Writing, ActiveStates,
      Moved, ProcIs
  <2>2. Later
    BY <1>2, NoEvent
  <2>. QED  BY <1>1, <1>2, <1>3, <1>4, <2>1, <2>2, CountKeeps
<1>9. Later /\ SameJob /\ SameRows /\ UNCHANGED <<fs, world>> /\ proc' \in Procs
  BY <1>1, <1>2, <1>3, <1>4, NoEvent, SameJobEffect, Fields DEF Counted,
    SameRows, fs, world, Moved, ProcIs
<1>. QED  BY <1>5, <1>6, <1>7, <1>8, <1>9, MoveKeeps

LEMMA PublishKeeps ==
  ASSUME AttInv, At("rename"), Matches(disk[Part(job.gen)], Archive),
         disk[Ready] = NoFile, Rename(Part(job.gen), Ready), Goto("candidate"),
         UNCHANGED <<rows, dirs, world, events>>
  PROVE  AttInv'
<1>1. /\ AttemptsInv /\ JobInv /\ RowsInv /\ ArchiveInv /\ QuarantineInv
      /\ DiskInv /\ ArchiveHolds /\ PlaceInv /\ StateAt /\ BuildAt /\ CleanAt
      /\ StagingAt /\ PlaceAt /\ CountInv
  BY DEF AttInv, Resting
<1>2. /\ proc.pc = "rename" /\ job' = job /\ zip' = zip
      /\ included' = included /\ allowed' = allowed /\ owner' = owner
      /\ att' = att /\ rec' = rec /\ dirs' = dirs /\ events' = events
  BY DEF At, rows, fs, world
<1>3. /\ job.state = "verifying" /\ att[job.gen] = "verifying"
      /\ A(job.gen).state = "publishing" /\ A(job.gen).ino = job.gen
      /\ A(job.gen).path = Part(job.gen) /\ A(job.gen).stamp # Open
      /\ Q(job.gen).state \in {"none", "closed"} /\ Archive = A(job.gen)
      /\ disk[Part(job.gen)] = job.gen /\ job.gen \in dirs
      /\ file[job.gen].ctime = 0 /\ zip = NoReceipt /\ job.ready = "absent"
  BY <1>1, <1>2, Fields DEF StateAt, BuildAt, Starting, Writing, Verified,
    Publishing, Replacing, Finishing, Cleaning, ArchiveInv, AttemptsInv,
    DiskInv, JobInv, ActiveStates, Live, Matches, SameInode, A, Q, Archive
<1>4. Moved("candidate")
  BY Fields, GotoEffect DEF ProgramCounters
<1>5. Renamed(Part(job.gen), Ready)
  BY <1>3, Fields, PathsApart, Numbers, RenameEffect
<1>6. AttemptsInv'
  BY <1>1, <1>2 DEF AttemptsInv, Live
<1>7. JobInv'
  BY <1>1, <1>2 DEF JobInv, Clear, ActiveStates
<1>8. RowsInv'
  BY <1>1, <1>2 DEF RowsInv, Left, Live, A, Q
<1>9. ArchiveInv'
  BY <1>1, <1>2 DEF ArchiveInv, A
<1>10. QuarantineInv'
  BY <1>1, <1>2 DEF QuarantineInv, A, Q
<1>11. DiskInv'
  BY <1>1, <1>2, <1>3, <1>4, <1>5, Fields, Numbers, PathsApart, DiskFields DEF
    DiskInv, A, Q, Moved, ProcIs, Renamed
<1>12. ArchiveHolds'
  BY <1>1, <1>2, <1>3, <1>4, <1>5, Fields, Numbers DEF ArchiveHolds,
    CompleteArchiveMatches, Retained, Matches, SameInode, A, Moved, ProcIs,
    Renamed
<1>13. PlaceInv'
  BY <1>1, <1>2, <1>3, <1>4, <1>5, Fields, Numbers, PathsApart DEF PlaceInv,
    Left, A, Q, Moved, ProcIs, Renamed
<1>14. StateAt'
  BY <1>1, <1>2, <1>3, <1>4, <1>5, Fields DEF StateAt, Starting, Writing,
    Verified, Publishing, Replacing, Finishing, Cleaning, Working, A, Moved,
    ProcIs, Renamed
<1>15. BuildAt'
  BY <1>1, <1>2, <1>3, <1>4, <1>5, Fields, PathsApart, Numbers DEF BuildAt,
    Starting, Writing, Verified, Publishing, Replacing, A, Q, Moved, ProcIs,
    Renamed
<1>16. CleanAt' /\ StagingAt' /\ PlaceAt'
  BY <1>4 DEF CleanAt, StagingAt, PlaceAt, Cleaning, Ending, Moved, ProcIs
<1>17. CountInv'
  <2>1. Debt' <= Debt
    BY <1>1, <1>2, <1>3, <1>4, <1>5, Fields DEF Debt, Paid, Writing,
      ActiveStates, Moved, ProcIs, Renamed
  <2>2. Later
    BY <1>2, NoEvent
  <2>. QED  BY <1>1, <1>2, <1>3, <1>4, <1>5, <2>1, <2>2, CountKeeps
<1>18. TypeOK'
  BY <1>1, <1>2, <1>3, <1>4, <1>5, Fields, Types, TypesNext DEF AttInv, Moved,
    ProcIs, Renamed
<1>. QED  BY <1>6, <1>7, <1>8, <1>9, <1>10, <1>11, <1>12, <1>13, <1>14, <1>15,
            <1>16, <1>17, <1>18 DEF AttInv, Resting

LEMMA PublishFailsKeeps ==
  ASSUME AttInv, At("rename"), UNCHANGED events,
         \/ Exit /\ UNCHANGED <<zip, included, att, rec, fs, world>>
         \/ RaiseExportError
  PROVE  AttInv'
<1>1. StateAt /\ BuildAt
  BY DEF AttInv, Resting
<1>2. proc.pc = "rename" /\ ~Paid
  BY DEF At, Paid, Writing
<1>3. /\ job.state \in Working /\ proc.mode # "complete"
      /\ proc.mode = "build" => disk[Ready] # job.gen
  BY <1>1, <1>2 DEF StateAt, BuildAt, Publishing, Replacing, Finishing, Working
<1>4. CASE Exit /\ UNCHANGED <<zip, included, att, rec, fs, world>>
  BY <1>2, <1>4, NoEvent, ExitKeeps DEF SameRows
<1>5. CASE RaiseExportError
  BY <1>3, <1>5, NoEvent, RaiseExportKeeps DEF Unmoved
<1>. QED  BY <1>4, <1>5

LEMMA PublishAllKeeps ==
  ASSUME AttInv, Publish
  PROVE  AttInv'
<1>1. At("rename") /\ UNCHANGED events
  BY DEF Publish
<1>2. CASE /\ SameInode(disk[Ready], Archive)
           /\ Goto("candidate") /\ UNCHANGED <<rows, fs, world>>
  BY <1>2, PublishMovedKeeps
<1>3. CASE /\ Matches(disk[Part(job.gen)], Archive) /\ disk[Ready] = NoFile
           /\ Rename(Part(job.gen), Ready) /\ Goto("candidate")
           /\ UNCHANGED <<rows, dirs, world>>
  BY <1>1, <1>3, PublishKeeps
<1>4. CASE \/ Exit /\ UNCHANGED <<zip, included, att, rec, fs, world>>
           \/ RaiseExportError
  BY <1>1, <1>4, PublishFailsKeeps
<1>. QED  BY <1>2, <1>3, <1>4 DEF Publish

(* The candidate is read back; only damage makes that fail.                  *)

LEMMA CaptureCandidateKeeps ==
  ASSUME AttInv, CaptureCandidate, SameInode(disk[Ready], Archive),
         Rehashed(disk[Ready])
  PROVE  AttInv'
<1>1. /\ AttemptsInv /\ JobInv /\ RowsInv /\ ArchiveInv /\ QuarantineInv
      /\ DiskInv /\ ArchiveHolds /\ PlaceInv /\ StateAt /\ BuildAt /\ CleanAt
      /\ StagingAt /\ PlaceAt /\ CountInv
  BY DEF AttInv, Resting
<1>2. /\ proc.pc = "candidate" /\ job' = job /\ zip' = zip
      /\ included' = included /\ allowed' = allowed /\ owner' = owner
      /\ att' = att /\ dirs' = dirs /\ disk' = disk /\ file' = file
      /\ events' = events
  BY DEF CaptureCandidate, At, rows, fs, world
<1>3. /\ job.state = "verifying" /\ att[job.gen] = "verifying"
      /\ A(job.gen).state = "publishing" /\ A(job.gen).ino = job.gen
      /\ A(job.gen).path = Part(job.gen) /\ A(job.gen).stamp # Open
      /\ Q(job.gen).state \in {"none", "closed"} /\ Archive = A(job.gen)
      /\ disk[Ready] = job.gen /\ file[job.gen].data = "whole"
      /\ file[disk[Ready]].ctime \in 0..2 /\ Q(job.gen).path # Ready
      /\ disk[Part(job.gen)] = NoFile
  BY <1>1, <1>2, Fields, DiskFields, Numbers, PathsApart DEF StateAt, BuildAt,
    Starting, Writing, Verified, Publishing, Replacing, Finishing, Cleaning,
    DiskInv, ArchiveInv, QuarantineInv, NoRow, A, Q, Archive, Rehashed
<1>4. Moved("final")
  BY Fields, GotoEffect DEF CaptureCandidate, ProgramCounters
<1>5. RowIs("archive", job.gen, "ready_candidate", Ready, NoPath, Archive.ino,
            file[disk[Ready]].ctime)
  <2>1. Archive \in FileRows
    BY Fields, RowFields DEF Archive, A
  <2>2. [Archive EXCEPT !.state = "ready_candidate",
             !.path = Ready,
             !.intent = NoPath,
             !.stamp = file[disk[Ready]].ctime]
          \in FileRows
    BY <2>1, <1>3, Fields, PathsApart DEF FileRows, FileStates, AttemptStates, Stamps
  <2>. QED  BY <2>1, <2>2, Fields, RowEffect DEF CaptureCandidate, SetArchive,
            Archive, Kinds, FileRows
<1>6. AttemptsInv'
  BY <1>1, <1>2 DEF AttemptsInv, Live
<1>7. JobInv'
  BY <1>1, <1>2 DEF JobInv, Clear, ActiveStates
<1>8. RowsInv'
  BY <1>1, <1>2, <1>3, <1>4, <1>5, Fields DEF RowsInv, Left, Live, A, Q, Moved,
    ProcIs, RowIs, Kinds, Archive, Open
<1>9. ArchiveInv'
  BY <1>1, <1>2, <1>3, <1>4, <1>5, Fields, Numbers, PathsApart DEF ArchiveInv,
    A, Moved, ProcIs, RowIs, Kinds, Archive, Open
<1>10. QuarantineInv'
  BY <1>1, <1>2, <1>3, <1>4, <1>5, Fields, Numbers, PathsApart DEF
    QuarantineInv, A, Q, Moved, ProcIs, RowIs, Kinds, Archive, Open
<1>11. DiskInv'
  BY <1>1, <1>2, <1>3, <1>4, <1>5, Fields, Numbers, PathsApart DEF DiskInv, A,
    Q, Moved, ProcIs, RowIs, Kinds, Archive, Open
<1>12. ArchiveHolds'
  BY <1>1, <1>2, <1>3, <1>4, <1>5, Fields, Numbers DEF ArchiveHolds,
    CompleteArchiveMatches, Retained, Matches, SameInode, A, Moved, ProcIs,
    RowIs, Kinds, Archive, Open
<1>13. PlaceInv'
  BY <1>1, <1>2, <1>3, <1>4, <1>5, Fields, Numbers, PathsApart DEF PlaceInv,
    Left, A, Q, Moved, ProcIs, RowIs, Kinds, Archive, Open
<1>14. StateAt'
  BY <1>1, <1>2, <1>3, <1>4, <1>5, Fields DEF StateAt, Starting, Writing,
    Verified, Publishing, Replacing, Finishing, Cleaning, Working, A, Moved,
    ProcIs, RowIs, Kinds
<1>15. BuildAt'
  BY <1>1, <1>2, <1>3, <1>4, <1>5, Fields DEF BuildAt, Starting, Writing,
    Verified, Publishing, Replacing, A, Q, Moved, ProcIs, RowIs, Kinds,
    Archive, Open
<1>16. CleanAt' /\ StagingAt' /\ PlaceAt'
  BY <1>4 DEF CleanAt, StagingAt, PlaceAt, Cleaning, Ending, Moved, ProcIs
<1>17. CountInv'
  <2>1. Debt' <= Debt
    BY <1>1, <1>2, <1>3, <1>4, <1>5, Fields DEF Debt, Paid, Writing,
      ActiveStates, Moved, ProcIs, RowIs, Kinds
  <2>2. Later
    BY <1>2, NoEvent
  <2>. QED  BY <1>1, <1>2, <1>3, <1>4, <1>5, <2>1, <2>2, CountKeeps
<1>18. TypeOK'
  BY <1>1, <1>2, <1>3, <1>4, <1>5, Fields, Types, TypesNext DEF AttInv, Moved,
    ProcIs, RowIs, Kinds
<1>. QED  BY <1>6, <1>7, <1>8, <1>9, <1>10, <1>11, <1>12, <1>13, <1>14, <1>15,
            <1>16, <1>17, <1>18 DEF AttInv, Resting

LEMMA CaptureFailsKeeps ==
  ASSUME AttInv, CaptureCandidate,
         ~(SameInode(disk[Ready], Archive) /\ Rehashed(disk[Ready]))
  PROVE  AttInv'
<1>1. StateAt /\ BuildAt /\ PlaceInv /\ ArchiveInv
  BY DEF AttInv, Resting
<1>2. RaiseExportError /\ UNCHANGED events /\ proc.pc = "candidate"
  BY DEF CaptureCandidate, At
<1>3. /\ job.state \in Working /\ proc.mode # "complete"
      /\ disk[Ready] = job.gen /\ A(job.gen).state = "publishing"
  BY <1>1, <1>2 DEF StateAt, BuildAt, Publishing, Finishing, Working
<1>4. SameInode(disk[Ready], Archive)
  BY <1>1, <1>3, Fields, Numbers DEF ArchiveInv, SameInode, Archive, A
<1>5. events.worst = "unread"
  BY <1>1, <1>3, <1>4, Fields DEF PlaceInv, Rehashed
<1>. QED  BY <1>2, <1>3, <1>5, NoEvent, RaiseExportKeeps DEF Unmoved, Later

(* The final fence: the job fails, is built again or is complete.            *)

LEMMA FenceCompleteKeeps ==
  ASSUME AttInv, At("final"), CompleteLocked, Revoked = {},
         UNCHANGED <<fs, world, events>>
  PROVE  AttInv'
<1>1. /\ AttemptsInv /\ JobInv /\ RowsInv /\ ArchiveInv /\ QuarantineInv
      /\ DiskInv /\ ArchiveHolds /\ PlaceInv /\ StateAt /\ BuildAt /\ CleanAt
      /\ StagingAt /\ PlaceAt /\ CountInv
  BY DEF AttInv, Resting
<1>2. /\ proc.pc = "final" /\ included' = included /\ allowed' = allowed
      /\ owner' = owner /\ dirs' = dirs /\ disk' = disk /\ file' = file
      /\ events' = events
  BY DEF At, CompleteLocked, rows, fs, world
<1>3. /\ job.state = "verifying" /\ A(job.gen).state = "ready_candidate"
      /\ att[job.gen] = "verifying" /\ A(job.gen).path = Ready
      /\ A(job.gen).intent = NoPath /\ A(job.gen).stamp # Open
      /\ A(job.gen).ino = job.gen /\ Q(job.gen).state \in {"none", "closed"}
      /\ job.staging = "pending" /\ job.ready = "absent" /\ zip = NoReceipt
      /\ \A g \in Gens : g < job.gen => att[g] = "cleaned"
      /\ \A g \in Gens : g > job.gen => att[g] = "none"
  <2>1. job.state = "verifying" /\ A(job.gen).state = "ready_candidate"
    BY <1>1, <1>2 DEF StateAt, BuildAt
  <2>2. att[job.gen] = "verifying"
    BY <1>1, <2>1, Fields DEF JobInv, RowsInv, Left
  <2>3. /\ A(job.gen).path = Ready /\ A(job.gen).intent = NoPath
        /\ A(job.gen).stamp # Open /\ A(job.gen).ino = job.gen
        /\ Q(job.gen).state \in {"none", "closed"}
    BY <1>1, <2>1, <2>2, Fields DEF ArchiveInv, RowsInv
  <2>4. job.staging = "pending" /\ job.ready = "absent" /\ zip = NoReceipt
    BY <1>1, <2>1 DEF JobInv, ActiveStates
  <2>. QED  BY <1>1, <2>1, <2>2, <2>3, <2>4, Fields DEF AttemptsInv
<1>4. Entered("complete", "handoff")
  BY Fields, EnterEffect DEF CompleteLocked, Modes, ProgramCounters
<1>5. AttIs(job.gen, "published")
  BY Fields, AttEffect DEF CompleteLocked, AttemptStates
<1>6. JobIs("complete", job.gen, job.staging, "retained")
  BY Fields DEF CompleteLocked, JobIs, Jobs, JobStates, Readies
<1>7. zip' = [ino |-> Archive.ino, stamp |-> Archive.stamp] /\ zip' \in Receipts
      /\ zip'.ino = job.gen /\ zip'.stamp = A(job.gen).stamp
  BY <1>3, Fields, RowFields, Numbers DEF CompleteLocked, Receipts, Archive, A
<1>8. RowIs("archive", job.gen, "published", Archive.path, Archive.intent, Archive.ino,
            Archive.stamp)
  <2>1. Archive \in FileRows
    BY Fields, RowFields DEF Archive, A
  <2>2. [Archive EXCEPT !.state = "published"] \in FileRows
    BY <2>1, Fields, PathsApart DEF FileRows, FileStates, AttemptStates, Stamps
  <2>. QED  BY <2>1, <2>2, Fields, RowEffect DEF CompleteLocked, SetArchive,
            Archive, Kinds, FileRows
<1>9. AttemptsInv'
  BY <1>1, <1>2, <1>3, <1>4, <1>5, <1>6, <1>7, <1>8, Fields DEF AttemptsInv,
    Live, JobIs, Entered, ProcIs, RowIs, Kinds, AttIs
<1>10. JobInv'
  BY <1>1, <1>2, <1>3, <1>4, <1>5, <1>6, <1>7, <1>8, Fields DEF JobInv, Clear,
    ActiveStates, JobIs, Entered, ProcIs, RowIs, Kinds, AttIs
<1>11. RowsInv'
  BY <1>1, <1>2, <1>3, <1>4, <1>5, <1>6, <1>7, <1>8, Fields DEF RowsInv, Left,
    Live, A, Q, JobIs, Entered, ProcIs, RowIs, Kinds, AttIs, Archive
<1>12. ArchiveInv'
  BY <1>1, <1>2, <1>3, <1>4, <1>5, <1>6, <1>7, <1>8, Fields, Numbers,
    PathsApart DEF ArchiveInv, A, JobIs, Entered, ProcIs, RowIs, Kinds, AttIs,
    Archive
<1>13. QuarantineInv'
  BY <1>1, <1>2, <1>3, <1>4, <1>5, <1>6, <1>7, <1>8, Fields, Numbers,
    PathsApart DEF QuarantineInv, A, Q, JobIs, Entered, ProcIs, RowIs, Kinds,
    AttIs, Archive
<1>14. DiskInv'
  BY <1>1, <1>2, <1>3, <1>4, <1>5, <1>6, <1>7, <1>8, Fields, Numbers,
    PathsApart DEF DiskInv, A, Q, JobIs, Entered, ProcIs, RowIs, Kinds, AttIs,
    Archive
<1>15. ArchiveHolds'
  BY <1>1, <1>2, <1>3, <1>4, <1>5, <1>6, <1>7, <1>8, Fields, Numbers,
    DiskFields DEF ArchiveHolds, CompleteArchiveMatches, Retained, Matches,
    SameInode, A, JobIs, Entered, ProcIs, RowIs, Kinds, AttIs, Archive
<1>16. PlaceInv'
  BY <1>1, <1>2, <1>3, <1>4, <1>5, <1>6, <1>7, <1>8, Fields, Numbers,
    PathsApart DEF PlaceInv, Left, A, Q, JobIs, Entered, ProcIs, RowIs, Kinds,
    AttIs, Archive, NoReceipt
<1>17. StateAt'
  BY <1>1, <1>2, <1>3, <1>4, <1>5, <1>6, <1>7, <1>8, Fields DEF StateAt,
    Starting, Writing, Verified, Publishing, Replacing, Finishing, Cleaning,
    Working, A, JobIs, Entered, ProcIs, RowIs, Kinds, AttIs
<1>18. BuildAt' /\ CleanAt' /\ StagingAt' /\ PlaceAt'
  BY <1>4 DEF BuildAt, CleanAt, StagingAt, PlaceAt, Starting, Writing,
    Verified, Publishing, Replacing, Cleaning, Ending, Entered, ProcIs
<1>19. CountInv'
  <2>1. Debt' <= Debt
    BY <1>1, <1>2, <1>3, <1>4, <1>5, <1>6, <1>7, <1>8, Fields DEF Debt, Paid,
      Writing, ActiveStates, JobIs, Entered, ProcIs, RowIs, Kinds, AttIs
  <2>2. Later
    BY <1>2, NoEvent
  <2>. QED  BY <1>1, <1>2, <1>3, <1>4, <1>5, <1>6, <1>7, <1>8, <2>1, <2>2,
              CountKeeps DEF JobIs
<1>20. TypeOK'
  BY <1>1, <1>2, <1>3, <1>4, <1>5, <1>6, <1>7, <1>8, Fields, Types, TypesNext
    DEF AttInv, JobIs, Entered, ProcIs, RowIs, Kinds, AttIs
<1>. QED  BY <1>9, <1>10, <1>11, <1>12, <1>13, <1>14, <1>15, <1>16, <1>17,
            <1>18, <1>19, <1>20 DEF AttInv, Resting

LEMMA FenceRotateKeeps ==
  ASSUME AttInv, At("final"), RotateLocked, Revoked # {},
         included' = included \ Revoked, UNCHANGED <<zip, fs, world, events>>
  PROVE  AttInv'
<1>1. /\ AttemptsInv /\ JobInv /\ RowsInv /\ ArchiveInv /\ QuarantineInv
      /\ DiskInv /\ ArchiveHolds /\ PlaceInv /\ StateAt /\ BuildAt /\ CleanAt
      /\ StagingAt /\ PlaceAt /\ CountInv
  BY DEF AttInv, Resting
<1>2. /\ proc.pc = "final" /\ zip' = zip /\ allowed' = allowed
      /\ owner' = owner /\ dirs' = dirs /\ disk' = disk /\ file' = file
      /\ events' = events
  BY DEF At, rows, fs, world
<1>3. /\ job.state = "verifying" /\ A(job.gen).state = "ready_candidate"
      /\ att[job.gen] = "verifying" /\ A(job.gen).path = Ready
      /\ A(job.gen).intent = NoPath /\ A(job.gen).stamp # Open
      /\ A(job.gen).ino = job.gen /\ Q(job.gen).state \in {"none", "closed"}
      /\ job.staging = "pending" /\ job.ready = "absent" /\ zip = NoReceipt
      /\ \A g \in Gens : g < job.gen => att[g] = "cleaned"
      /\ \A g \in Gens : g > job.gen => att[g] = "none"
      /\ Debt = 0 /\ Cardinality(included \ allowed) >= 1
      /\ included \subseteq Items /\ (included \ allowed)' = {}
      /\ job.gen + 1 \in Gens
  <2>1. job.state = "verifying" /\ A(job.gen).state = "ready_candidate"
    BY <1>1, <1>2 DEF StateAt, BuildAt
  <2>2. att[job.gen] = "verifying"
    BY <1>1, <2>1, Fields DEF JobInv, RowsInv, Left
  <2>3. /\ A(job.gen).path = Ready /\ A(job.gen).intent = NoPath
        /\ A(job.gen).stamp # Open /\ A(job.gen).ino = job.gen
        /\ Q(job.gen).state \in {"none", "closed"}
    BY <1>1, <2>1, <2>2, Fields DEF ArchiveInv, RowsInv
  <2>4. job.staging = "pending" /\ job.ready = "absent" /\ zip = NoReceipt
    BY <1>1, <2>1 DEF JobInv, ActiveStates
  <2>5. Debt = 0
    BY <2>2 DEF Debt
  <2>6. (included \ allowed)' = {} /\ included \ allowed # {} /\ included \subseteq Items
    BY <1>2, Types DEF Revoked, AttInv
  <2>7. Cardinality(included \ allowed) >= 1
    BY <2>6, CostIsNat, FS_EmptySet
  <2>8. job.gen + 1 <= events.count
    BY <1>1, <2>5, <2>7, Fields, CostIsNat DEF CountInv
  <2>9. job.gen + 1 \in Gens
    BY <2>8, Fields, AttemptsAssumption DEF Gens
  <2>. QED  BY <1>1, <2>1, <2>2, <2>3, <2>4, <2>5, <2>6, <2>7, <2>9, Fields
            DEF AttemptsInv
<1>4. Sweeping(job.gen, "initial")
  BY Fields, CleanEffect DEF RotateLocked, ProgramCounters
<1>5. AttIs(job.gen, "retiring")
  BY Fields, AttEffect DEF RotateLocked, AttemptStates
<1>6. JobIs("archiving", job.gen + 1, job.staging, job.ready)
  BY Fields, <1>1, <1>2, <1>3, <1>4, <1>5 DEF RotateLocked, Rotated, JobIs,
    Jobs, JobStates
<1>7. RowIs("archive", job.gen, "retiring", Archive.path, Archive.intent, Archive.ino,
            Archive.stamp)
  <2>1. Archive \in FileRows
    BY Fields, RowFields DEF Archive, A
  <2>2. [Archive EXCEPT !.state = "retiring"] \in FileRows
    BY <2>1, Fields, PathsApart DEF FileRows, FileStates, AttemptStates, Stamps
  <2>. QED  BY <2>1, <2>2, Fields, RowEffect DEF RotateLocked, RotateLocked,
            SetArchive, Archive, Kinds, FileRows
<1>8. AttemptsInv'
  BY <1>1, <1>2, <1>3, <1>4, <1>5, <1>6, <1>7, Fields, Numbers DEF AttemptsInv,
    Live, JobIs, Sweeping, ProcIs, RowIs, Kinds, AttIs
<1>9. JobInv'
  BY <1>1, <1>2, <1>3, <1>4, <1>5, <1>6, <1>7, Fields, Numbers DEF JobInv,
    Clear, ActiveStates, JobIs, Sweeping, ProcIs, RowIs, Kinds, AttIs
<1>10. RowsInv'
  BY <1>1, <1>2, <1>3, <1>4, <1>5, <1>6, <1>7, Fields, Numbers DEF RowsInv,
    Left, Live, A, Q, JobIs, Sweeping, ProcIs, RowIs, Kinds, AttIs, Archive
<1>11. ArchiveInv'
  BY <1>1, <1>2, <1>3, <1>4, <1>5, <1>6, <1>7, Fields, Numbers, PathsApart DEF
    ArchiveInv, A, JobIs, Sweeping, ProcIs, RowIs, Kinds, AttIs, Archive
<1>12. QuarantineInv'
  BY <1>1, <1>2, <1>3, <1>4, <1>5, <1>6, <1>7, Fields, Numbers, PathsApart DEF
    QuarantineInv, A, Q, JobIs, Sweeping, ProcIs, RowIs, Kinds, AttIs, Archive
<1>13. DiskInv'
  BY <1>1, <1>2, <1>3, <1>4, <1>5, <1>6, <1>7, Fields, Numbers, PathsApart DEF
    DiskInv, A, Q, JobIs, Sweeping, ProcIs, RowIs, Kinds, AttIs, Archive
<1>14. ArchiveHolds'
  <2>1. att'[job'.gen] = "none" /\ job'.state = "archiving"
    BY <1>3, <1>5, <1>6, Fields, Numbers DEF JobIs, AttIs
  <2>2. A(job.gen)'.state = "none"
    BY <1>1, <1>3, <1>6, <1>7, Fields, Numbers DEF RowIs, RowsInv, A, Kinds, JobIs
  <2>. QED  BY <2>1, <2>2, <1>6 DEF ArchiveHolds, CompleteArchiveMatches,
            Retained, JobIs, A
<1>15. PlaceInv'
  BY <1>1, <1>2, <1>3, <1>4, <1>5, <1>6, <1>7, Fields, Numbers, PathsApart DEF
    PlaceInv, Left, A, Q, JobIs, Sweeping, ProcIs, RowIs, Kinds, AttIs, Archive
<1>16. StateAt'
  BY <1>1, <1>2, <1>3, <1>4, <1>5, <1>6, <1>7, Fields, Numbers DEF StateAt,
    Starting, Writing, Verified, Publishing, Replacing, Finishing, Cleaning,
    Working, A, JobIs, Sweeping, ProcIs, RowIs, Kinds, AttIs
<1>17. CleanAt'
  BY <1>1, <1>2, <1>3, <1>4, <1>5, <1>6, <1>7, Fields DEF CleanAt, Cleaning,
    Left, A, Q, JobIs, Sweeping, ProcIs, RowIs, Kinds, AttIs
<1>18. BuildAt' /\ StagingAt' /\ PlaceAt'
  BY <1>4 DEF BuildAt, StagingAt, PlaceAt, Starting, Writing, Verified,
    Publishing, Replacing, Ending, Sweeping, ProcIs
<1>19. CountInv'
  <2>1. Debt' = 0
    BY <1>3, <1>5, <1>6, Fields, Numbers DEF Debt, JobIs, AttIs
  <2>2. Cardinality(included \ allowed)' = 0
    BY <1>3, FS_EmptySet
  <2>. QED  BY <1>1, <1>2, <1>3, <1>6, <2>1, <2>2, Fields, CostIsNat DEF CountInv, JobIs
<1>20. TypeOK'
  BY <1>1, <1>2, <1>3, <1>4, <1>5, <1>6, <1>7, Fields, Types, TypesNext DEF
    AttInv, JobIs, Sweeping, ProcIs, RowIs, Kinds, AttIs
<1>. QED  BY <1>8, <1>9, <1>10, <1>11, <1>12, <1>13, <1>14, <1>15, <1>16,
            <1>18, <1>17, <1>19, <1>20 DEF AttInv, Resting

-----------------------------------------------------------------------------
(* The cleanup of an attempt that was given up. *)

(* A set of generations that is not empty has a least one.                   *)
Below == {p \in Nat \X Nat : p[1] < p[2]}

LEMMA OldestIn ==
  ASSUME NEW S \in SUBSET Gens, S # {}
  PROVE  Oldest(S) \in S /\ \A h \in S : Oldest(S) <= h
<1>1. Below = OpToRel(<, Nat)
  BY DEF OpToRel, Below
<1>2. IsWellFoundedOn(OpToRel(<, Nat), Nat)
  BY NatLessThanWellFounded
<1>3. IsWellFoundedOn(Below, Nat) /\ S \subseteq Nat
  BY <1>1, <1>2, Numbers
<1>4. PICK x \in S : \A y \in S : ~(<<y, x>> \in Below)
  BY <1>3, WFMin
<1>5. \A y \in S : x <= y
  <2> TAKE y \in S
  <2>1. x \in Nat /\ y \in Nat /\ <<y, x>> \notin Below
    BY <1>3, <1>4
  <2>2. ~(y < x)
    BY <2>1 DEF Below
  <2>. QED  BY <2>1, <2>2
<1>. QED  BY <1>5 DEF Oldest

(* What is true of the job whenever an attempt is being cleaned.             *)
LEMMA WhileCleaning ==
  ASSUME AttInv, proc.pc \in Cleaning
  PROVE  /\ att[proc.at] \in {"retiring", "cleaned"} /\ job.state \in Working \cup {"failed"}
         /\ A(job.gen).state \notin {"publishing", "ready_candidate"}
         /\ att[job.gen] \notin {"verifying", "published"}
         /\ proc.at \in Gens /\ proc.at <= job.gen
         /\ zip = NoReceipt /\ ~Paid
         /\ A(proc.at).state \in {"none", "retiring", "cleaned"}
         /\ att[proc.at] = "cleaned" => ~Left(A(proc.at)) /\ ~Left(Q(proc.at))
         /\ proc.mode \in {"build", "archiving"} => job.state \in Working
         /\ Left(A(proc.at)) /\ job.state = "failed" => A(proc.at).path = Ready
<1>1. /\ AttemptsInv /\ JobInv /\ RowsInv /\ StateAt /\ CleanAt
  BY DEF AttInv, Resting
<1>2. att[proc.at] \in {"retiring", "cleaned"} /\ proc.at \in Gens
  BY <1>1, Fields DEF CleanAt
<1>3. /\ job.state \in Working \cup {"failed"}
      /\ proc.mode \in {"build", "archiving"} => job.state \in Working
      /\ \/ job.state \in {"archiving", "failed"}
         \/ proc.at = job.gen
  BY <1>1 DEF StateAt, Working, Cleaning
<1>4. att[job.gen] \notin {"verifying", "published"} /\ zip = NoReceipt
  BY <1>1, <1>2, <1>3, Fields DEF JobInv, Working, ActiveStates
<1>5. proc.at <= job.gen
  BY <1>1, <1>2, Fields, Numbers DEF AttemptsInv
<1>6. A(job.gen).state \notin {"publishing", "ready_candidate"}
  BY <1>1, <1>4, Fields DEF RowsInv, Left, AttemptStates
<1>7. /\ A(proc.at).state \in {"none", "retiring", "cleaned"}
      /\ att[proc.at] = "cleaned" => ~Left(A(proc.at)) /\ ~Left(Q(proc.at))
  BY <1>1, <1>2 DEF RowsInv, Left
<1>8. Left(A(proc.at)) /\ job.state = "failed" => A(proc.at).path = Ready
  BY <1>1, <1>7 DEF StateAt, Cleaning, Left, Working
<1>9. ~Paid
  BY DEF Paid, Cleaning, Writing
<1>. QED  BY <1>2, <1>3, <1>4, <1>5, <1>6, <1>7, <1>8, <1>9

LEMMA CleaningFails ==
  ASSUME AttInv, proc.pc \in Cleaning, RaiseStorageError, Later
  PROVE  AttInv'
<1>1. Unmoved
  BY WhileCleaning DEF Unmoved
<1>. QED  BY <1>1, WhileCleaning, RaiseStorageKeeps

LEMMA CleanFileKeeps ==
  ASSUME AttInv, CleanFile, Goto("clean_row"),
         UNCHANGED <<rows, dirs, file, world, events>>,
         Unlink(RetiredPath(FirstKind(proc.at), proc.at)),
         FirstKind(proc.at) = "archive" => rec["archive"][proc.at].state = "retiring",
         RetiredPath(FirstKind(proc.at), proc.at)
           \in (IF FirstKind(proc.at) = "archive" THEN {Ready, Part(proc.at)}
                ELSE {Quar(proc.at)})
  PROVE  AttInv'
<1>1. /\ AttemptsInv /\ JobInv /\ RowsInv /\ ArchiveInv /\ QuarantineInv
      /\ DiskInv /\ ArchiveHolds /\ PlaceInv /\ StateAt /\ BuildAt /\ CleanAt
      /\ StagingAt /\ PlaceAt /\ CountInv
  BY DEF AttInv, Resting
<1>2. /\ proc.pc = "clean" /\ job' = job /\ zip' = zip
      /\ included' = included /\ allowed' = allowed /\ owner' = owner
      /\ att' = att /\ rec' = rec /\ dirs' = dirs /\ file' = file
      /\ events' = events
  BY DEF CleanFile, At, rows, fs, world
<1>3. /\ att[proc.at] = "retiring" /\ job.state \in Working \cup {"failed"}
      /\ A(job.gen).state # "ready_candidate"
      /\ att[job.gen] \notin {"verifying", "published"} /\ zip = NoReceipt
      /\ A(proc.at).state \in {"none", "retiring", "cleaned"}
      /\ proc.at \in Gens /\ proc.at <= job.gen
      /\ Left(A(proc.at)) /\ job.state = "failed" => A(proc.at).path = Ready
  <2>1. /\ att[proc.at] = "retiring" /\ job.state \in Working \cup {"failed"}
        /\ A(job.gen).state # "ready_candidate"
        /\ att[job.gen] \notin {"verifying", "published"} /\ zip = NoReceipt
        /\ A(proc.at).state \in {"none", "retiring", "cleaned"}
        /\ proc.at \in Gens /\ proc.at <= job.gen
        /\ Left(A(proc.at)) /\ job.state = "failed" => A(proc.at).path = Ready
    BY <1>1, <1>2, WhileCleaning, Fields DEF CleanAt, Cleaning, CleanFile
  <2>. QED  BY <2>1
<1>4. Moved("clean_row")
  BY Fields, GotoEffect DEF ProgramCounters
<1>5. Left(A(proc.at)) \/ Left(Q(proc.at))
  BY <1>1, <1>2, <1>3, <1>4 DEF CleanFile, UncleanKinds, Kinds, Left, A, Q
<1>6. Left(A(proc.at)) => /\ FirstKind(proc.at) = "archive"
                               /\ A(proc.at).state = "retiring"
  BY <1>1, <1>2, <1>3, <1>4, <1>5 DEF FirstKind, UncleanKinds, Kinds, Left, A
<1>7. ~Left(A(proc.at)) => FirstKind(proc.at) = "quarantine"
  BY <1>1, <1>2, <1>3, <1>4, <1>5, <1>6 DEF FirstKind, UncleanKinds, Kinds,
    Left, A
<1>8. /\ Left(A(proc.at)) => Removed(A(proc.at).path) /\ A(proc.at).path \in {Ready, Part(proc.at)}
      /\ ~Left(A(proc.at)) => Removed(Quar(proc.at))
  BY <1>3, <1>6, <1>7, Fields, PathsApart, UnlinkEffect DEF RetiredPath, A
<1>9. disk' \in Disks /\ \A p \in Paths : disk'[p] \in {NoFile, disk[p]}
  BY <1>8 DEF Removed
<1>10. AttemptsInv'
  BY <1>1, <1>2 DEF AttemptsInv, Live
<1>11. JobInv'
  BY <1>1, <1>2 DEF JobInv, Clear, ActiveStates
<1>12. RowsInv'
  BY <1>1, <1>2 DEF RowsInv, Left, Live, A, Q
<1>13. ArchiveInv'
  BY <1>1, <1>2 DEF ArchiveInv, A
<1>14. QuarantineInv'
  BY <1>1, <1>2 DEF QuarantineInv, A, Q
<1>15. DiskInv'
  BY <1>1, <1>2, <1>3, <1>4, <1>5, <1>6, <1>7, <1>8, <1>9, Fields, Numbers,
    PathsApart DEF DiskInv, A, Q, Moved, ProcIs, Removed
<1>16. ArchiveHolds'
  BY <1>1, <1>2, <1>3, <1>4, <1>5, <1>6, <1>7, <1>8, <1>9, Fields DEF
    ArchiveHolds, CompleteArchiveMatches, Retained, Matches, SameInode, A,
    Moved, ProcIs, Removed, Working
<1>17. PlaceInv'
  BY <1>1, <1>2, <1>3, <1>4, <1>5, <1>6, <1>7, <1>8, <1>9, Fields, Numbers,
    PathsApart DEF PlaceInv, Left, A, Q, Moved, ProcIs, Removed
<1>18. StateAt'
  BY <1>1, <1>2, <1>3, <1>4, <1>5, <1>6, <1>7, <1>8, <1>9, Fields DEF StateAt,
    Starting, Writing, Verified, Publishing, Replacing, Finishing, Cleaning,
    Working, A, Moved, ProcIs, Removed
<1>19. CleanAt'
  BY <1>1, <1>2, <1>3, <1>4, <1>5, <1>6, <1>7, <1>8, <1>9, Fields DEF CleanAt,
    Cleaning, Left, A, Q, Moved, ProcIs, Removed
<1>20. PlaceAt'
  BY <1>1, <1>2, <1>3, <1>4, <1>5, <1>6, <1>7, <1>8, <1>9, Fields, PathsApart,
    Numbers DEF PlaceAt, First, Left, A, Moved, ProcIs, Removed, PlaceInv,
    DiskInv, NoReceipt, Working
<1>21. BuildAt' /\ StagingAt'
  BY <1>4 DEF BuildAt, StagingAt, Starting, Writing, Verified, Publishing,
    Replacing, Ending, Moved, ProcIs
<1>22. CountInv'
  <2>1. Debt' <= Debt
    BY <1>1, <1>2, <1>3, <1>4, <1>5, <1>6, <1>7, <1>8, <1>9, Fields DEF Debt,
      Paid, Writing, ActiveStates, Moved, ProcIs, Removed
  <2>2. Later
    BY <1>2, NoEvent
  <2>. QED  BY <1>1, <1>2, <1>3, <1>4, <1>5, <1>6, <1>7, <1>8, <1>9, <2>1,
              <2>2, CountKeeps
<1>23. TypeOK'
  BY <1>1, <1>2, <1>3, <1>4, <1>5, <1>6, <1>7, <1>8, <1>9, Fields, Types,
    TypesNext DEF AttInv, Moved, ProcIs, Removed
<1>. QED  BY <1>10, <1>11, <1>12, <1>13, <1>14, <1>15, <1>16, <1>17, <1>18,
            <1>21, <1>19, <1>20, <1>22, <1>23 DEF AttInv, Resting

LEMMA CleanRowKeeps ==
  ASSUME AttInv, CleanRow
  PROVE  AttInv'
<1>1. /\ AttemptsInv /\ JobInv /\ RowsInv /\ ArchiveInv /\ QuarantineInv
      /\ DiskInv /\ ArchiveHolds /\ PlaceInv /\ StateAt /\ BuildAt /\ CleanAt
      /\ StagingAt /\ PlaceAt /\ CountInv
  BY DEF AttInv, Resting
<1>2. /\ proc.pc = "clean_row" /\ job' = job /\ zip' = zip
      /\ included' = included /\ allowed' = allowed /\ owner' = owner
      /\ att' = att /\ dirs' = dirs /\ disk' = disk /\ file' = file
      /\ events' = events
  BY DEF CleanRow, At, rows, fs, world
<1>3. /\ att[proc.at] = "retiring" /\ job.state \in Working \cup {"failed"}
      /\ A(job.gen).state # "ready_candidate"
      /\ att[job.gen] \notin {"verifying", "published"} /\ zip = NoReceipt
      /\ A(proc.at).state \in {"none", "retiring", "cleaned"}
      /\ proc.at \in Gens /\ proc.at <= job.gen
      /\ Left(A(proc.at)) /\ job.state = "failed" => A(proc.at).path = Ready
      /\ Left(A(proc.at)) \/ Left(Q(proc.at))
  <2>1. /\ att[proc.at] = "retiring" /\ job.state \in Working \cup {"failed"}
        /\ A(job.gen).state # "ready_candidate"
        /\ att[job.gen] \notin {"verifying", "published"} /\ zip = NoReceipt
        /\ A(proc.at).state \in {"none", "retiring", "cleaned"}
        /\ proc.at \in Gens /\ proc.at <= job.gen
        /\ Left(A(proc.at)) /\ job.state = "failed" => A(proc.at).path = Ready
    BY <1>1, <1>2, WhileCleaning, Fields DEF CleanAt, Cleaning, CleanRow
  <2>2. Left(A(proc.at)) \/ Left(Q(proc.at))
    BY <1>1, <1>2, <2>1, Fields DEF CleanAt
  <2>. QED  BY <2>1, <2>2
<1>4. Moved("clean")
  BY Fields, GotoEffect DEF CleanRow, ProgramCounters
<1>5. \/ /\ Left(A(proc.at)) /\ A(proc.at).state = "retiring"
         /\ RowIs("archive", proc.at, "cleaned", A(proc.at).path, NoPath,
                  A(proc.at).ino, A(proc.at).stamp)
      \/ /\ ~Left(A(proc.at)) /\ Left(Q(proc.at))
         /\ RowIs("quarantine", proc.at, "cleaned", Q(proc.at).path, NoPath,
                  Q(proc.at).ino, Q(proc.at).stamp)
  <2>1. \A r \in FileRows : /\ Cleaned(r) \in FileRows /\ Cleaned(r).state = "cleaned"
                            /\ Cleaned(r).path = r.path /\ Cleaned(r).intent = NoPath
                            /\ Cleaned(r).ino = r.ino /\ Cleaned(r).stamp = r.stamp
    BY DEF Cleaned, FileRows, FileStates, AttemptStates
  <2>2. A(proc.at) \in FileRows /\ Q(proc.at) \in FileRows
    BY Fields, RowFields
  <2>3. CASE Left(A(proc.at))
    <3>1. SetRow("archive", proc.at, Cleaned(A(proc.at)))
      BY <2>3 DEF CleanRow, FirstKind, UncleanKinds, Kinds, Left, A
    <3>. QED  BY <1>3, <2>1, <2>2, <2>3, <3>1, Fields, RowEffect DEF Kinds, Left
  <2>4. CASE ~Left(A(proc.at))
    <3>1. SetRow("quarantine", proc.at, Cleaned(Q(proc.at)))
      BY <2>4 DEF CleanRow, FirstKind, UncleanKinds, Kinds, Left, A, Q
    <3>. QED  BY <1>3, <2>1, <2>2, <2>4, <3>1, Fields, RowEffect DEF Kinds
  <2>. QED  BY <2>3, <2>4
<1>6. AttemptsInv'
  BY <1>1, <1>2 DEF AttemptsInv, Live
<1>7. JobInv'
  BY <1>1, <1>2 DEF JobInv, Clear, ActiveStates
<1>8. RowsInv'
  BY <1>1, <1>2, <1>3, <1>4, <1>5, Fields DEF RowsInv, Left, Live, A, Q, Moved,
    ProcIs, RowIs, Kinds
<1>9. ArchiveInv'
  BY <1>1, <1>2, <1>3, <1>4, <1>5, Fields, Numbers, PathsApart DEF ArchiveInv,
    A, Moved, ProcIs, RowIs, Kinds
<1>10. QuarantineInv'
  BY <1>1, <1>2, <1>3, <1>4, <1>5, Fields, Numbers, PathsApart, SMTT(30) DEF
    QuarantineInv, A, Q, Moved, ProcIs, RowIs, Kinds, Left
<1>11. DiskInv'
  BY <1>1, <1>2, <1>3, <1>4, <1>5, Fields, Numbers, PathsApart DEF DiskInv, A,
    Q, Moved, ProcIs, RowIs, Kinds
<1>12. ArchiveHolds'
  BY <1>1, <1>2, <1>3, <1>4, <1>5, Fields DEF ArchiveHolds,
    CompleteArchiveMatches, Retained, Matches, SameInode, A, Moved, ProcIs,
    RowIs, Kinds
<1>13. PlaceInv'
  BY <1>1, <1>2, <1>3, <1>4, <1>5, Fields, Numbers, PathsApart, SMTT(30) DEF
    PlaceInv, Left, A, Q, Moved, ProcIs, RowIs, Kinds, PlaceAt
<1>14. StateAt'
  BY <1>1, <1>2, <1>3, <1>4, <1>5, Fields DEF StateAt, Starting, Writing,
    Verified, Publishing, Replacing, Finishing, Cleaning, Working, A, Moved,
    ProcIs, RowIs, Kinds
<1>15. CleanAt'
  BY <1>1, <1>2, <1>3, <1>4, <1>5, Fields DEF CleanAt, Cleaning, Left, A, Q,
    Moved, ProcIs, RowIs, Kinds
<1>16. BuildAt' /\ StagingAt' /\ PlaceAt'
  BY <1>4 DEF BuildAt, StagingAt, PlaceAt, Starting, Writing, Verified,
    Publishing, Replacing, Ending, Moved, ProcIs
<1>17. CountInv'
  <2>1. Debt' <= Debt
    BY <1>1, <1>2, <1>3, <1>4, <1>5, Fields DEF Debt, Paid, Writing,
      ActiveStates, Moved, ProcIs, RowIs, Kinds
  <2>2. Later
    BY <1>2, NoEvent
  <2>. QED  BY <1>1, <1>2, <1>3, <1>4, <1>5, <2>1, <2>2, CountKeeps
<1>18. TypeOK'
  BY <1>1, <1>2, <1>3, <1>4, <1>5, Fields, Types, TypesNext DEF AttInv, Moved,
    ProcIs, RowIs, Kinds
<1>. QED  BY <1>6, <1>7, <1>8, <1>9, <1>10, <1>11, <1>12, <1>13, <1>14, <1>16,
            <1>15, <1>17, <1>18 DEF AttInv, Resting

LEMMA CleanDirectoryKeeps ==
  ASSUME AttInv, CleanDirectory, RemoveDirectory(proc.at),
         CleanableDirectory(proc.at), Goto("clean_attempt"),
         UNCHANGED <<rows, world>>
  PROVE  AttInv'
<1>1. /\ AttemptsInv /\ JobInv /\ RowsInv /\ ArchiveInv /\ QuarantineInv
      /\ DiskInv /\ ArchiveHolds /\ PlaceInv /\ StateAt /\ BuildAt /\ CleanAt
      /\ StagingAt /\ PlaceAt /\ CountInv
  BY DEF AttInv, Resting
<1>2. /\ proc.pc = "clean" /\ job' = job /\ zip' = zip
      /\ included' = included /\ allowed' = allowed /\ owner' = owner
      /\ att' = att /\ rec' = rec /\ disk' = disk /\ file' = file
      /\ events' = events
  BY DEF CleanDirectory, At, RemoveDirectory, rows, fs, world
<1>3. /\ att[proc.at] = "retiring" /\ job.state \in Working \cup {"failed"}
      /\ A(job.gen).state # "ready_candidate"
      /\ att[job.gen] \notin {"verifying", "published"} /\ zip = NoReceipt
      /\ A(proc.at).state \in {"none", "retiring", "cleaned"}
      /\ proc.at \in Gens /\ proc.at <= job.gen
      /\ Left(A(proc.at)) /\ job.state = "failed" => A(proc.at).path = Ready
      /\ ~Left(A(proc.at)) /\ ~Left(Q(proc.at))
      /\ disk[Part(proc.at)] = NoFile /\ disk[Quar(proc.at)] = NoFile
      /\ dirs' = dirs \ {proc.at}
  <2>1. /\ att[proc.at] = "retiring" /\ job.state \in Working \cup {"failed"}
        /\ A(job.gen).state # "ready_candidate"
        /\ att[job.gen] \notin {"verifying", "published"} /\ zip = NoReceipt
        /\ A(proc.at).state \in {"none", "retiring", "cleaned"}
        /\ proc.at \in Gens /\ proc.at <= job.gen
        /\ Left(A(proc.at)) /\ job.state = "failed" => A(proc.at).path = Ready
    BY <1>1, <1>2, WhileCleaning, Fields DEF CleanAt, Cleaning, CleanDirectory
  <2>2. /\ ~Left(A(proc.at)) /\ ~Left(Q(proc.at))
        /\ disk[Part(proc.at)] = NoFile /\ disk[Quar(proc.at)] = NoFile
        /\ dirs' = dirs \ {proc.at}
    BY <1>1, <1>2, <2>1, Fields DEF CleanDirectory, UncleanKinds, Kinds, Left,
      A, Q, DiskInv, CleanableDirectory, Empty, RemoveDirectory
  <2>. QED  BY <2>1, <2>2
<1>4. Moved("clean_attempt")
  BY Fields, GotoEffect DEF ProgramCounters
<1>5. AttemptsInv'
  BY <1>1, <1>2, <1>3, <1>4, Fields DEF AttemptsInv, Live, Moved, ProcIs
<1>6. JobInv'
  BY <1>1, <1>2 DEF JobInv, Clear, ActiveStates
<1>7. RowsInv'
  BY <1>1, <1>2 DEF RowsInv, Left, Live, A, Q
<1>8. ArchiveInv'
  BY <1>1, <1>2 DEF ArchiveInv, A
<1>9. QuarantineInv'
  BY <1>1, <1>2 DEF QuarantineInv, A, Q
<1>10. DiskInv'
  BY <1>1, <1>2, <1>3, <1>4, Fields, Numbers, PathsApart DEF DiskInv, A, Q,
    Moved, ProcIs
<1>11. ArchiveHolds'
  BY <1>1, <1>2 DEF ArchiveHolds, CompleteArchiveMatches, Retained, Matches,
    SameInode, A
<1>12. PlaceInv'
  BY <1>1, <1>2 DEF PlaceInv, Left, A, Q
<1>13. StateAt'
  BY <1>1, <1>2, <1>3, <1>4, Fields DEF StateAt, Starting, Writing, Verified,
    Publishing, Replacing, Finishing, Cleaning, Working, A, Moved, ProcIs
<1>14. CleanAt'
  BY <1>1, <1>2, <1>3, <1>4, Fields DEF CleanAt, Cleaning, Left, A, Q, Moved,
    ProcIs
<1>15. BuildAt' /\ StagingAt' /\ PlaceAt'
  BY <1>4 DEF BuildAt, StagingAt, PlaceAt, Starting, Writing, Verified,
    Publishing, Replacing, Ending, Moved, ProcIs
<1>16. CountInv'
  <2>1. Debt' <= Debt
    BY <1>1, <1>2, <1>3, <1>4, Fields DEF Debt, Paid, Writing, ActiveStates,
      Moved, ProcIs
  <2>2. Later
    BY <1>2, NoEvent
  <2>. QED  BY <1>1, <1>2, <1>3, <1>4, <2>1, <2>2, CountKeeps
<1>17. TypeOK'
  BY <1>1, <1>2, <1>3, <1>4, Fields, Types, TypesNext DEF AttInv, Moved, ProcIs
<1>. QED  BY <1>5, <1>6, <1>7, <1>8, <1>9, <1>10, <1>11, <1>12, <1>13, <1>15,
            <1>14, <1>16, <1>17 DEF AttInv, Resting

LEMMA CleanAttemptKeeps ==
  ASSUME AttInv, CleanAttempt
  PROVE  AttInv'
<1>1. /\ AttemptsInv /\ JobInv /\ RowsInv /\ ArchiveInv /\ QuarantineInv
      /\ DiskInv /\ ArchiveHolds /\ PlaceInv /\ StateAt /\ BuildAt /\ CleanAt
      /\ StagingAt /\ PlaceAt /\ CountInv
  BY DEF AttInv, Resting
<1>2. /\ proc.pc = "clean_attempt" /\ job' = job /\ zip' = zip
      /\ included' = included /\ allowed' = allowed /\ owner' = owner
      /\ rec' = rec /\ dirs' = dirs /\ disk' = disk /\ file' = file
      /\ events' = events
  BY DEF CleanAttempt, At, rows, fs, world
<1>3. /\ att[proc.at] = "retiring" /\ job.state \in Working \cup {"failed"}
      /\ A(job.gen).state # "ready_candidate"
      /\ att[job.gen] \notin {"verifying", "published"} /\ zip = NoReceipt
      /\ A(proc.at).state \in {"none", "retiring", "cleaned"}
      /\ proc.at \in Gens /\ proc.at <= job.gen
      /\ Left(A(proc.at)) /\ job.state = "failed" => A(proc.at).path = Ready
      /\ ~Left(A(proc.at)) /\ ~Left(Q(proc.at)) /\ proc.at \notin dirs
  <2>1. /\ att[proc.at] = "retiring" /\ job.state \in Working \cup {"failed"}
        /\ A(job.gen).state # "ready_candidate"
        /\ att[job.gen] \notin {"verifying", "published"} /\ zip = NoReceipt
        /\ A(proc.at).state \in {"none", "retiring", "cleaned"}
        /\ proc.at \in Gens /\ proc.at <= job.gen
        /\ Left(A(proc.at)) /\ job.state = "failed" => A(proc.at).path = Ready
    BY <1>1, <1>2, WhileCleaning, Fields DEF CleanAt, Cleaning, CleanAttempt
  <2>2. /\ ~Left(A(proc.at)) /\ ~Left(Q(proc.at)) /\ proc.at \notin dirs
    BY <1>1, <1>2, <2>1, Fields DEF CleanAt
  <2>. QED  BY <2>1, <2>2
<1>4. Moved("clean")
  BY Fields, GotoEffect DEF CleanAttempt, ProgramCounters
<1>5. AttIs(proc.at, "cleaned")
  BY Fields, AttEffect DEF CleanAttempt, AttemptStates
<1>6. AttemptsInv'
  BY <1>1, <1>2, <1>3, <1>4, <1>5, Fields, Numbers DEF AttemptsInv, Live,
    Moved, ProcIs, AttIs
<1>7. JobInv'
  BY <1>1, <1>2, <1>3, <1>4, <1>5, Fields DEF JobInv, Clear, ActiveStates,
    Moved, ProcIs, AttIs
<1>8. RowsInv'
  BY <1>1, <1>2, <1>3, <1>4, <1>5, Fields DEF RowsInv, Left, Live, A, Q, Moved,
    ProcIs, AttIs
<1>9. ArchiveInv'
  BY <1>1, <1>2 DEF ArchiveInv, A
<1>10. QuarantineInv'
  BY <1>1, <1>2 DEF QuarantineInv, A, Q
<1>11. DiskInv'
  BY <1>1, <1>2, <1>3, <1>4, <1>5, Fields, Numbers, PathsApart DEF DiskInv, A,
    Q, Moved, ProcIs, AttIs
<1>12. ArchiveHolds'
  BY <1>1, <1>2, <1>3, <1>4, <1>5, Fields DEF ArchiveHolds,
    CompleteArchiveMatches, Retained, Matches, SameInode, A, Moved, ProcIs,
    AttIs
<1>13. PlaceInv'
  BY <1>1, <1>2, <1>3, <1>4, <1>5, Fields, Numbers, PathsApart DEF PlaceInv,
    Left, A, Q, Moved, ProcIs, AttIs, DiskInv
<1>14. StateAt'
  BY <1>1, <1>2, <1>3, <1>4, <1>5, Fields, Numbers DEF StateAt, Starting,
    Writing, Verified, Publishing, Replacing, Finishing, Cleaning, Working, A,
    Moved, ProcIs, AttIs
<1>15. CleanAt'
  BY <1>1, <1>2, <1>3, <1>4, <1>5, Fields DEF CleanAt, Cleaning, Left, A, Q,
    Moved, ProcIs, AttIs
<1>16. BuildAt' /\ StagingAt' /\ PlaceAt'
  BY <1>4 DEF BuildAt, StagingAt, PlaceAt, Starting, Writing, Verified,
    Publishing, Replacing, Ending, Moved, ProcIs
<1>17. CountInv'
  <2>1. Debt' <= Debt
    BY <1>1, <1>2, <1>3, <1>4, <1>5, Fields DEF Debt, Paid, Writing,
      ActiveStates, Moved, ProcIs, AttIs
  <2>2. Later
    BY <1>2, NoEvent
  <2>. QED  BY <1>1, <1>2, <1>3, <1>4, <1>5, <2>1, <2>2, CountKeeps
<1>18. TypeOK'
  BY <1>1, <1>2, <1>3, <1>4, <1>5, Fields, Types, TypesNext DEF AttInv, Moved,
    ProcIs, AttIs
<1>. QED  BY <1>6, <1>7, <1>8, <1>9, <1>10, <1>11, <1>12, <1>13, <1>14, <1>16,
            <1>15, <1>17, <1>18 DEF AttInv, Resting

LEMMA CleanDoneKeeps ==
  ASSUME AttInv, CleanDone
  PROVE  AttInv'
<1>1. /\ AttemptsInv /\ JobInv /\ RowsInv /\ ArchiveInv /\ QuarantineInv
      /\ DiskInv /\ ArchiveHolds /\ PlaceInv /\ StateAt /\ BuildAt /\ CleanAt
      /\ StagingAt /\ PlaceAt /\ CountInv
  BY DEF AttInv, Resting
<1>2. /\ proc.pc = "clean" /\ job' = job /\ zip' = zip
      /\ included' = included /\ allowed' = allowed /\ owner' = owner
      /\ att' = att /\ rec' = rec /\ dirs' = dirs /\ disk' = disk
      /\ file' = file /\ events' = events
  BY DEF CleanDone, At, rows, fs, world
<1>3. /\ att[proc.at] = "cleaned"
      /\ \/ proc.then = "initial" /\ job.state = "archiving" /\ job.gen = proc.at + 1
            /\ att[job.gen] = "none" /\ \A g \in Gens : g < job.gen => att[g] = "cleaned"
         \/ proc.then = "rotate_recovered" /\ job.state \in Working /\ proc.at = job.gen
            /\ \A g \in Gens : g < job.gen => att[g] = "cleaned"
         \/ proc.then = "recover_retiring" /\ job.state = "archiving"
         \/ proc.then = "releasing" /\ job.state = "failed"
  <2>1. att[proc.at] = "cleaned"
    BY DEF CleanDone
  <2>2. \A g \in Gens :
          /\ g + 1 < job.gen => att[g] = "cleaned"
          /\ att[job.gen] # "none" /\ g < job.gen => att[g] = "cleaned"
          /\ job.gen = proc.at + 1 /\ g < job.gen => g = proc.at \/ g + 1 < job.gen
    BY <1>1, Fields, Numbers DEF AttemptsInv
  <2>3. \/ proc.then = "initial" /\ job.state = "archiving" /\ job.gen = proc.at + 1
           /\ att[job.gen] = "none"
        \/ proc.then = "rotate_recovered" /\ job.state \in Working /\ proc.at = job.gen
        \/ proc.then = "recover_retiring" /\ job.state = "archiving"
        \/ proc.then = "releasing" /\ job.state = "failed"
    BY <1>1, <1>2 DEF StateAt, Cleaning
  <2>. QED  BY <2>1, <2>2, <2>3
<1>4. Moved(proc.then)
  BY Fields, GotoEffect DEF CleanDone
<1>5. StateAt'
  BY <1>1, <1>2, <1>3, <1>4, Fields DEF StateAt, Starting, Writing, Verified,
    Publishing, Replacing, Finishing, Cleaning, Working, A, Moved, ProcIs,
    ActiveStates
<1>6. BuildAt'
  BY <1>1, <1>2, <1>3, <1>4, Fields DEF BuildAt, Starting, Writing, Verified,
    Publishing, Replacing, A, Q, Moved, ProcIs
<1>7. CleanAt'
  BY <1>1, <1>2, <1>3, <1>4, Fields DEF CleanAt, Cleaning, Left, A, Q, Moved,
    ProcIs
<1>8. StagingAt'
  BY <1>1, <1>2, <1>3, <1>4, Fields DEF StagingAt, Ending, First, StagingWork,
    Clear, Left, A, Q, Moved, ProcIs
<1>9. PlaceAt'
  BY <1>1, <1>2, <1>3, <1>4, Fields DEF PlaceAt, First, Left, A, Moved, ProcIs
<1>10. CountInv'
  <2>1. Debt' <= Debt
    BY <1>1, <1>2, <1>3, <1>4, Fields DEF Debt, Paid, Writing, ActiveStates,
      Moved, ProcIs
  <2>2. Later
    BY <1>2, NoEvent
  <2>. QED  BY <1>1, <1>2, <1>3, <1>4, <2>1, <2>2, CountKeeps
<1>11. Later /\ SameJob /\ SameRows /\ UNCHANGED <<fs, world>> /\ proc' \in Procs
  BY <1>1, <1>2, <1>3, <1>4, NoEvent, SameJobEffect, Fields DEF Counted,
    SameRows, fs, world, Moved, ProcIs
<1>. QED  BY <1>5, <1>6, <1>7, <1>8, <1>9, <1>10, <1>11, MoveKeeps

-----------------------------------------------------------------------------
(* Recovery. *)

LEMMA NoneRetiringKeeps ==
  ASSUME AttInv, RecoverRetiring, {g \in Gens : att[g] = "retiring"} = {}
  PROVE  AttInv'
<1>1. /\ AttemptsInv /\ JobInv /\ RowsInv /\ ArchiveInv /\ QuarantineInv
      /\ DiskInv /\ ArchiveHolds /\ PlaceInv /\ StateAt /\ BuildAt /\ CleanAt
      /\ StagingAt /\ PlaceAt /\ CountInv
  BY DEF AttInv, Resting
<1>2. /\ proc.pc = "recover_retiring" /\ job' = job /\ zip' = zip
      /\ included' = included /\ allowed' = allowed /\ owner' = owner
      /\ att' = att /\ rec' = rec /\ dirs' = dirs /\ disk' = disk
      /\ file' = file /\ events' = events
  BY DEF RecoverRetiring, At, rows, fs, world
<1>3. /\ job.state = "archiving"
      /\ \A g \in Gens : g < job.gen => att[g] = "cleaned"
  BY <1>1, <1>2, Fields DEF StateAt, BuildAt, Starting, Writing, Verified,
    Publishing, Replacing, Finishing, Cleaning, AttemptsInv
<1>4. Entered("archiving", "recover_archiving")
  BY Fields, EnterEffect DEF RecoverRetiring, Modes, ProgramCounters
<1>5. StateAt'
  BY <1>1, <1>2, <1>3, <1>4, Fields DEF StateAt, Starting, Writing, Verified,
    Publishing, Replacing, Finishing, Cleaning, Working, A, Entered, ProcIs
<1>6. CleanAt'
  BY <1>1, <1>2, <1>3, <1>4, Fields DEF CleanAt, Cleaning, Left, A, Q, Entered,
    ProcIs
<1>7. BuildAt' /\ StagingAt' /\ PlaceAt'
  BY <1>4 DEF BuildAt, StagingAt, PlaceAt, Starting, Writing, Verified,
    Publishing, Replacing, Ending, Entered, ProcIs
<1>8. CountInv'
  <2>1. Debt' <= Debt
    BY <1>1, <1>2, <1>3, <1>4, Fields DEF Debt, Paid, Writing, ActiveStates,
      Entered, ProcIs
  <2>2. Later
    BY <1>2, NoEvent
  <2>. QED  BY <1>1, <1>2, <1>3, <1>4, <2>1, <2>2, CountKeeps
<1>9. Later /\ SameJob /\ SameRows /\ UNCHANGED <<fs, world>> /\ proc' \in Procs
  BY <1>1, <1>2, <1>3, <1>4, NoEvent, SameJobEffect, Fields DEF Counted,
    SameRows, fs, world, Entered, ProcIs
<1>. QED  BY <1>5, <1>7, <1>6, <1>8, <1>9, MoveKeeps

LEMMA SweepRetiringKeeps ==
  ASSUME AttInv, RecoverRetiring, NEW g \in Gens, att[g] = "retiring",
         Clean(g, "recover_retiring"), UNCHANGED rows
  PROVE  AttInv'
<1>1. /\ AttemptsInv /\ JobInv /\ RowsInv /\ ArchiveInv /\ QuarantineInv
      /\ DiskInv /\ ArchiveHolds /\ PlaceInv /\ StateAt /\ BuildAt /\ CleanAt
      /\ StagingAt /\ PlaceAt /\ CountInv
  BY DEF AttInv, Resting
<1>2. /\ proc.pc = "recover_retiring" /\ job' = job /\ zip' = zip
      /\ included' = included /\ allowed' = allowed /\ owner' = owner
      /\ att' = att /\ rec' = rec /\ dirs' = dirs /\ disk' = disk
      /\ file' = file /\ events' = events
  BY DEF RecoverRetiring, At, rows, fs, world
<1>3. job.state = "archiving"
  BY <1>1, <1>2, Fields DEF StateAt, BuildAt, Starting, Writing, Verified,
    Publishing, Replacing, Finishing, Cleaning
<1>4. Sweeping(g, "recover_retiring")
  BY Fields, CleanEffect DEF ProgramCounters
<1>5. StateAt'
  BY <1>1, <1>2, <1>3, <1>4, Fields DEF StateAt, Starting, Writing, Verified,
    Publishing, Replacing, Finishing, Cleaning, Working, A, Sweeping, ProcIs
<1>6. CleanAt'
  BY <1>1, <1>2, <1>3, <1>4, Fields DEF CleanAt, Cleaning, Left, A, Q,
    Sweeping, ProcIs
<1>7. BuildAt' /\ StagingAt' /\ PlaceAt'
  BY <1>4 DEF BuildAt, StagingAt, PlaceAt, Starting, Writing, Verified,
    Publishing, Replacing, Ending, Sweeping, ProcIs
<1>8. CountInv'
  <2>1. Debt' <= Debt
    BY <1>1, <1>2, <1>3, <1>4, Fields DEF Debt, Paid, Writing, ActiveStates,
      Sweeping, ProcIs
  <2>2. Later
    BY <1>2, NoEvent
  <2>. QED  BY <1>1, <1>2, <1>3, <1>4, <2>1, <2>2, CountKeeps
<1>9. Later /\ SameJob /\ SameRows /\ UNCHANGED <<fs, world>> /\ proc' \in Procs
  BY <1>1, <1>2, <1>3, <1>4, NoEvent, SameJobEffect, Fields DEF Counted,
    SameRows, fs, world, Sweeping, ProcIs
<1>. QED  BY <1>5, <1>7, <1>6, <1>8, <1>9, MoveKeeps

LEMMA RecoverRetiringKeeps ==
  ASSUME AttInv, RecoverRetiring
  PROVE  AttInv'
<1>. DEFINE retiring == {g \in Gens : att[g] = "retiring"}
<1>1. CASE retiring = {}
  BY <1>1, NoneRetiringKeeps
<1>2. CASE retiring # {}
  <2>1. Oldest(retiring) \in retiring
    BY <1>2, OldestIn
  <2>2. CASE Clean(Oldest(retiring), "recover_retiring") /\ UNCHANGED rows
    BY <2>1, <2>2, SweepRetiringKeeps
  <2>3. CASE Exit /\ UNCHANGED <<zip, included, att, rec, fs, world, events>>
    <3>1. ~Paid
      BY DEF RecoverRetiring, At, Paid, Writing
    <3>. QED  BY <2>3, <3>1, NoEvent, ExitKeeps DEF SameRows
  <2>. QED  BY <1>2, <2>2, <2>3 DEF RecoverRetiring
<1>. QED  BY <1>1, <1>2

LEMMA StartOverKeeps ==
  ASSUME AttInv, RecoverArchiving, att[job.gen] = "none",
         CleanableDirectory(job.gen)
  PROVE  AttInv'
<1>1. /\ AttemptsInv /\ JobInv /\ RowsInv /\ ArchiveInv /\ QuarantineInv
      /\ DiskInv /\ ArchiveHolds /\ PlaceInv /\ StateAt /\ BuildAt /\ CleanAt
      /\ StagingAt /\ PlaceAt /\ CountInv
  BY DEF AttInv, Resting
<1>2. /\ proc.pc = "recover_archiving" /\ job' = job /\ zip' = zip
      /\ included' = included /\ allowed' = allowed /\ owner' = owner
      /\ att' = att /\ rec' = rec /\ disk' = disk /\ file' = file
      /\ events' = events
  BY DEF RecoverArchiving, At, RemoveDirectory, rows, fs, world
<1>3. /\ job.state = "archiving"
      /\ \A g \in Gens : g < job.gen => att[g] = "cleaned"
      /\ dirs' = dirs \ {job.gen}
  BY <1>1, <1>2, Fields DEF StateAt, BuildAt, Starting, Writing, Verified,
    Publishing, Replacing, Finishing, Cleaning, RecoverArchiving,
    RemoveDirectory, CleanAt
<1>4. Entered("build", "initial")
  BY Fields, EnterEffect DEF RecoverArchiving, Modes, ProgramCounters
<1>5. AttemptsInv'
  BY <1>1, <1>2, <1>3, <1>4, Fields DEF AttemptsInv, Live, Entered, ProcIs
<1>6. JobInv'
  BY <1>1, <1>2 DEF JobInv, Clear, ActiveStates
<1>7. RowsInv'
  BY <1>1, <1>2 DEF RowsInv, Left, Live, A, Q
<1>8. ArchiveInv'
  BY <1>1, <1>2 DEF ArchiveInv, A
<1>9. QuarantineInv'
  BY <1>1, <1>2 DEF QuarantineInv, A, Q
<1>10. DiskInv'
  BY <1>1, <1>2, <1>3, <1>4, Fields, Numbers, PathsApart DEF DiskInv, A, Q,
    Entered, ProcIs, CleanableDirectory, Empty
<1>11. ArchiveHolds'
  BY <1>1, <1>2 DEF ArchiveHolds, CompleteArchiveMatches, Retained, Matches,
    SameInode, A
<1>12. PlaceInv'
  BY <1>1, <1>2 DEF PlaceInv, Left, A, Q
<1>13. StateAt'
  BY <1>1, <1>2, <1>3, <1>4, Fields DEF StateAt, Starting, Writing, Verified,
    Publishing, Replacing, Finishing, Cleaning, Working, A, Entered, ProcIs
<1>14. BuildAt'
  BY <1>1, <1>2, <1>3, <1>4, Fields DEF BuildAt, Starting, Writing, Verified,
    Publishing, Replacing, A, Q, Entered, ProcIs
<1>15. CleanAt' /\ StagingAt' /\ PlaceAt'
  BY <1>4 DEF CleanAt, StagingAt, PlaceAt, Cleaning, Ending, Entered, ProcIs
<1>16. CountInv'
  <2>1. Debt' <= Debt
    BY <1>1, <1>2, <1>3, <1>4, Fields DEF Debt, Paid, Writing, ActiveStates,
      Entered, ProcIs
  <2>2. Later
    BY <1>2, NoEvent
  <2>. QED  BY <1>1, <1>2, <1>3, <1>4, <2>1, <2>2, CountKeeps
<1>17. TypeOK'
  BY <1>1, <1>2, <1>3, <1>4, Fields, Types, TypesNext DEF AttInv, Entered,
    ProcIs
<1>. QED  BY <1>5, <1>6, <1>7, <1>8, <1>9, <1>10, <1>11, <1>12, <1>13, <1>14,
            <1>15, <1>16, <1>17 DEF AttInv, Resting

LEMMA GiveUpInterruptedKeeps ==
  ASSUME AttInv, RecoverArchiving, att[job.gen] \in {"writing", "closed"}
  PROVE  AttInv'
<1>1. /\ AttemptsInv /\ JobInv /\ RowsInv /\ ArchiveInv /\ QuarantineInv
      /\ DiskInv /\ ArchiveHolds /\ PlaceInv /\ StateAt /\ BuildAt /\ CleanAt
      /\ StagingAt /\ PlaceAt /\ CountInv
  BY DEF AttInv, Resting
<1>2. /\ proc.pc = "recover_archiving" /\ job' = job /\ zip' = zip
      /\ included' = included /\ allowed' = allowed /\ owner' = owner
      /\ dirs' = dirs /\ disk' = disk /\ file' = file /\ events' = events
  BY DEF RecoverArchiving, At, rows, fs, world
<1>3. /\ job.state = "archiving"
      /\ A(job.gen).state \in {"none", "writing", "closed"}
      /\ job.staging = "pending" /\ job.ready = "absent"
  BY <1>1, <1>2, Fields DEF StateAt, BuildAt, Starting, Writing, Verified,
    Publishing, Replacing, Finishing, Cleaning, RowsInv, JobInv, ActiveStates,
    A
<1>4. Sweeping(job.gen, "rotate_recovered")
  BY Fields, CleanEffect, <1>1, <1>2, <1>3 DEF RecoverArchiving,
    ProgramCounters
<1>5. GaveUp({job.gen})
  BY Fields, RetireEffect DEF RecoverArchiving
<1>6. JobIs(job.state, job.gen, "pending", "absent")
  BY <1>2, <1>3, Fields DEF JobIs
<1>7. Resting'
  BY <1>2, <1>3, <1>5, <1>6, Fields, NoEvent, GiveUpKeeps DEF fs, ActiveStates
<1>8. StateAt'
  BY <1>1, <1>2, <1>3, <1>4, <1>5, <1>6, <1>7, Fields DEF StateAt, Starting,
    Writing, Verified, Publishing, Replacing, Finishing, Cleaning, Working, A,
    JobIs, Sweeping, ProcIs, GaveUp
<1>9. CleanAt'
  BY <1>1, <1>2, <1>3, <1>4, <1>5, <1>6, <1>7, Fields, ZenonT(40) DEF CleanAt,
    Cleaning, Left, A, Q, JobIs, Sweeping, ProcIs, GaveUp, Live
<1>10. BuildAt' /\ StagingAt' /\ PlaceAt'
  BY <1>4 DEF BuildAt, StagingAt, PlaceAt, Starting, Writing, Verified,
    Publishing, Replacing, Ending, Sweeping, ProcIs
<1>11. CountInv'
  <2>1. Debt' <= Debt
    BY <1>1, <1>2, <1>3, <1>4, <1>5, <1>6, <1>7, Fields DEF Debt, Paid,
      Writing, ActiveStates, JobIs, Sweeping, ProcIs, GaveUp
  <2>2. Later
    BY <1>2, NoEvent
  <2>. QED  BY <1>1, <1>2, <1>3, <1>4, <1>5, <1>6, <1>7, <2>1, <2>2, CountKeeps
              DEF JobIs
<1>12. TypeOK'
  BY <1>1, <1>2, <1>3, <1>4, <1>5, <1>6, <1>7, Fields, Types, TypesNext DEF
    AttInv, JobIs, Sweeping, ProcIs, GaveUp
<1>. QED  BY <1>7, <1>8, <1>10, <1>9, <1>11, <1>12 DEF AttInv

LEMMA SweepInterruptedKeeps ==
  ASSUME AttInv, RecoverArchiving, att[job.gen] \in {"retiring", "cleaned"}
  PROVE  AttInv'
<1>1. /\ AttemptsInv /\ JobInv /\ RowsInv /\ ArchiveInv /\ QuarantineInv
      /\ DiskInv /\ ArchiveHolds /\ PlaceInv /\ StateAt /\ BuildAt /\ CleanAt
      /\ StagingAt /\ PlaceAt /\ CountInv
  BY DEF AttInv, Resting
<1>2. /\ proc.pc = "recover_archiving" /\ job' = job /\ zip' = zip
      /\ included' = included /\ allowed' = allowed /\ owner' = owner
      /\ att' = att /\ rec' = rec /\ dirs' = dirs /\ disk' = disk
      /\ file' = file /\ events' = events
  BY DEF RecoverArchiving, At, rows, fs, world
<1>3. job.state = "archiving"
  BY <1>1, <1>2, Fields DEF StateAt, BuildAt, Starting, Writing, Verified,
    Publishing, Replacing, Finishing, Cleaning
<1>4. Sweeping(job.gen, "rotate_recovered")
  BY Fields, CleanEffect, <1>1, <1>2, <1>3 DEF RecoverArchiving,
    ProgramCounters
<1>5. StateAt'
  BY <1>1, <1>2, <1>3, <1>4, Fields DEF StateAt, Starting, Writing, Verified,
    Publishing, Replacing, Finishing, Cleaning, Working, A, Sweeping, ProcIs
<1>6. CleanAt'
  BY <1>1, <1>2, <1>3, <1>4, Fields DEF CleanAt, Cleaning, Left, A, Q,
    Sweeping, ProcIs
<1>7. BuildAt' /\ StagingAt' /\ PlaceAt'
  BY <1>4 DEF BuildAt, StagingAt, PlaceAt, Starting, Writing, Verified,
    Publishing, Replacing, Ending, Sweeping, ProcIs
<1>8. CountInv'
  <2>1. Debt' <= Debt
    BY <1>1, <1>2, <1>3, <1>4, Fields DEF Debt, Paid, Writing, ActiveStates,
      Sweeping, ProcIs
  <2>2. Later
    BY <1>2, NoEvent
  <2>. QED  BY <1>1, <1>2, <1>3, <1>4, <2>1, <2>2, CountKeeps
<1>9. Later /\ SameJob /\ SameRows /\ UNCHANGED <<fs, world>> /\ proc' \in Procs
  BY <1>1, <1>2, <1>3, <1>4, NoEvent, SameJobEffect, Fields DEF Counted,
    SameRows, fs, world, Sweeping, ProcIs
<1>. QED  BY <1>5, <1>7, <1>6, <1>8, <1>9, MoveKeeps

LEMMA RecoverArchivingKeeps ==
  ASSUME AttInv, RecoverArchiving
  PROVE  AttInv'
<1>1. CASE att[job.gen] = "none" /\ CleanableDirectory(job.gen)
  BY <1>1, StartOverKeeps
<1>2. CASE att[job.gen] \in {"writing", "closed"}
  BY <1>2, GiveUpInterruptedKeeps
<1>3. CASE att[job.gen] \in {"retiring", "cleaned"}
  BY <1>3, SweepInterruptedKeeps
<1>4. /\ UNCHANGED events /\ ~Paid /\ job.state = "archiving"
      /\ proc.mode # "complete" /\ A(job.gen).state # "publishing"
  <2>1. StateAt /\ JobInv /\ RowsInv /\ proc.pc = "recover_archiving"
    BY DEF AttInv, Resting, RecoverArchiving, At
  <2>. QED  BY <2>1, Fields
            DEF RecoverArchiving, Paid, Writing, StateAt, Finishing, JobInv, RowsInv,
                Left, AttemptStates
<1>5. CASE RaiseStorageError \/ RaiseExportError
  BY <1>4, <1>5, NoEvent, RaiseStorageKeeps, RaiseExportKeeps DEF Unmoved, Working
<1>. QED  BY <1>1, <1>2, <1>3, <1>5, Fields DEF RecoverArchiving, AttemptStates

LEMMA RotateRecoveredKeeps ==
  ASSUME AttInv, RotateRecovered
  PROVE  AttInv'
<1>1. /\ AttemptsInv /\ JobInv /\ RowsInv /\ ArchiveInv /\ QuarantineInv
      /\ DiskInv /\ ArchiveHolds /\ PlaceInv /\ StateAt /\ BuildAt /\ CleanAt
      /\ StagingAt /\ PlaceAt /\ CountInv
  BY DEF AttInv, Resting
<1>2. /\ proc.pc = "rotate_recovered" /\ zip' = zip /\ included' = included
      /\ allowed' = allowed /\ owner' = owner /\ att' = att /\ rec' = rec
      /\ dirs' = dirs /\ disk' = disk /\ file' = file /\ events' = events
  BY DEF RotateRecovered, At, rows, fs, world
<1>3. /\ job.state \in Working /\ att[job.gen] = "cleaned"
      /\ job.staging = "pending" /\ job.ready = "absent"
      /\ \A g \in Gens : g < job.gen => att[g] = "cleaned"
      /\ Debt = 1 /\ job.gen + 1 \in Gens
  <2>1. /\ job.state \in Working /\ att[job.gen] = "cleaned"
        /\ \A g \in Gens : g < job.gen => att[g] = "cleaned"
    BY <1>1, <1>2 DEF StateAt, CleanAt
  <2>2. job.staging = "pending" /\ job.ready = "absent"
    BY <1>1, <2>1 DEF JobInv, ActiveStates, Working
  <2>3. Debt = 1
    BY <1>2, <2>1 DEF Debt, Paid, ActiveStates, Writing, Working
  <2>4. job.gen + 1 <= events.count
    BY <1>1, <2>3, Fields, CostIsNat DEF CountInv
  <2>5. job.gen + 1 \in Gens
    BY <2>4, Fields, AttemptsAssumption DEF Gens
  <2>. QED  BY <2>1, <2>2, <2>3, <2>5
<1>4. Entered("build", "initial")
  BY Fields, EnterEffect DEF RotateRecovered, Modes, ProgramCounters
<1>5. JobIs("archiving", job.gen + 1, job.staging, job.ready)
  BY Fields, <1>1, <1>2, <1>3, <1>4 DEF RotateRecovered, Rotated, JobIs, Jobs,
    JobStates
<1>6. att[job.gen + 1] = "none" /\ rec["archive"][job.gen + 1].state = "none"
  BY <1>1, <1>3, Fields DEF AttemptsInv, RowsInv, A
<1>7. AttemptsInv'
  BY <1>1, <1>2, <1>3, <1>4, <1>5, <1>6, Fields, Numbers DEF AttemptsInv, Live,
    JobIs, Entered, ProcIs
<1>8. JobInv'
  BY <1>1, <1>2, <1>3, <1>4, <1>5, <1>6, Fields DEF JobInv, Clear,
    ActiveStates, JobIs, Entered, ProcIs
<1>9. RowsInv'
  BY <1>1, <1>2 DEF RowsInv, Left, Live, A, Q
<1>10. ArchiveInv'
  BY <1>1, <1>2 DEF ArchiveInv, A
<1>11. QuarantineInv'
  BY <1>1, <1>2, <1>3, <1>4, <1>5, <1>6, Fields, Numbers, PathsApart DEF
    QuarantineInv, A, Q, JobIs, Entered, ProcIs, Working
<1>12. DiskInv'
  BY <1>1, <1>2 DEF DiskInv, A, Q
<1>13. ArchiveHolds'
  BY <1>1, <1>2, <1>3, <1>4, <1>5, <1>6, Fields DEF ArchiveHolds,
    CompleteArchiveMatches, Retained, Matches, SameInode, A, JobIs, Entered,
    ProcIs
<1>14. PlaceInv'
  BY <1>1, <1>2, <1>3, <1>4, <1>5, <1>6, Fields, Numbers, PathsApart DEF
    PlaceInv, Left, A, Q, JobIs, Entered, ProcIs, Working
<1>15. StateAt'
  BY <1>1, <1>2, <1>3, <1>4, <1>5, <1>6, Fields DEF StateAt, Starting, Writing,
    Verified, Publishing, Replacing, Finishing, Cleaning, Working, A, JobIs,
    Entered, ProcIs
<1>16. BuildAt'
  BY <1>1, <1>2, <1>3, <1>4, <1>5, <1>6, Fields, Numbers DEF BuildAt, Starting,
    Writing, Verified, Publishing, Replacing, A, Q, JobIs, Entered, ProcIs
<1>17. CleanAt' /\ StagingAt' /\ PlaceAt'
  BY <1>4 DEF CleanAt, StagingAt, PlaceAt, Cleaning, Ending, Entered, ProcIs
<1>18. CountInv'
  <2>1. Debt' = 0
    BY <1>2, <1>5, <1>6 DEF Debt, JobIs
  <2>2. Cardinality(included \ allowed)' = Cardinality(included \ allowed)
    BY <1>2
  <2>. QED  BY <1>1, <1>2, <1>3, <1>5, <2>1, <2>2, Fields, CostIsNat DEF CountInv, JobIs
<1>19. TypeOK'
  BY <1>1, <1>2, <1>3, <1>4, <1>5, <1>6, Fields, Types, TypesNext DEF AttInv,
    JobIs, Entered, ProcIs
<1>. QED  BY <1>7, <1>8, <1>9, <1>10, <1>11, <1>12, <1>13, <1>14, <1>15, <1>16,
            <1>17, <1>18, <1>19 DEF AttInv, Resting

LEMMA SweepVerifyingKeeps ==
  ASSUME AttInv, RecoverVerifying, att[job.gen] \in {"retiring", "cleaned"},
         Archive.state \in {"retiring", "cleaned"}
  PROVE  AttInv'
<1>1. /\ AttemptsInv /\ JobInv /\ RowsInv /\ ArchiveInv /\ QuarantineInv
      /\ DiskInv /\ ArchiveHolds /\ PlaceInv /\ StateAt /\ BuildAt /\ CleanAt
      /\ StagingAt /\ PlaceAt /\ CountInv
  BY DEF AttInv, Resting
<1>2. /\ proc.pc = "recover_verifying" /\ job' = job /\ zip' = zip
      /\ included' = included /\ allowed' = allowed /\ owner' = owner
      /\ att' = att /\ rec' = rec /\ dirs' = dirs /\ disk' = disk
      /\ file' = file /\ events' = events
  BY DEF RecoverVerifying, At, rows, fs, world
<1>3. /\ job.state = "verifying"
      /\ \A g \in Gens : g < job.gen => att[g] = "cleaned"
  BY <1>1, <1>2, Fields DEF StateAt, BuildAt, Starting, Writing, Verified,
    Publishing, Replacing, Finishing, Cleaning, CleanAt
<1>4. Sweeping(job.gen, "rotate_recovered")
  BY Fields, CleanEffect, <1>1, <1>2, <1>3 DEF RecoverVerifying,
    ProgramCounters
<1>5. StateAt'
  BY <1>1, <1>2, <1>3, <1>4, Fields DEF StateAt, Starting, Writing, Verified,
    Publishing, Replacing, Finishing, Cleaning, Working, A, Sweeping, ProcIs
<1>6. CleanAt'
  BY <1>1, <1>2, <1>3, <1>4, Fields DEF CleanAt, Cleaning, Left, A, Q,
    Sweeping, ProcIs
<1>7. BuildAt' /\ StagingAt' /\ PlaceAt'
  BY <1>4 DEF BuildAt, StagingAt, PlaceAt, Starting, Writing, Verified,
    Publishing, Replacing, Ending, Sweeping, ProcIs
<1>8. CountInv'
  <2>1. Debt' <= Debt
    BY <1>1, <1>2, <1>3, <1>4, Fields DEF Debt, Paid, Writing, ActiveStates,
      Sweeping, ProcIs
  <2>2. Later
    BY <1>2, NoEvent
  <2>. QED  BY <1>1, <1>2, <1>3, <1>4, <2>1, <2>2, CountKeeps
<1>9. Later /\ SameJob /\ SameRows /\ UNCHANGED <<fs, world>> /\ proc' \in Procs
  BY <1>1, <1>2, <1>3, <1>4, NoEvent, SameJobEffect, Fields DEF Counted,
    SameRows, fs, world, Sweeping, ProcIs
<1>. QED  BY <1>5, <1>7, <1>6, <1>8, <1>9, MoveKeeps

LEMMA UnrecordedKeeps ==
  ASSUME AttInv, RecoverVerifying, att[job.gen] \in {"retiring", "cleaned"},
         Archive.state \notin {"retiring", "cleaned"}
  PROVE  AttInv'
<1>1. /\ AttemptsInv /\ JobInv /\ RowsInv /\ ArchiveInv /\ QuarantineInv
      /\ DiskInv /\ ArchiveHolds /\ PlaceInv /\ StateAt /\ BuildAt /\ CleanAt
      /\ StagingAt /\ PlaceAt /\ CountInv
  BY DEF AttInv, Resting
<1>2. /\ proc.pc = "recover_verifying" /\ job' = job /\ zip' = zip
      /\ included' = included /\ allowed' = allowed /\ owner' = owner
      /\ att' = att /\ rec' = rec /\ dirs' = dirs /\ disk' = disk
      /\ file' = file /\ events' = events
  BY DEF RecoverVerifying, At, rows, fs, world
<1>3. /\ job.state = "verifying"
      /\ \A g \in Gens : g < job.gen => att[g] = "cleaned"
  BY <1>1, <1>2, Fields DEF StateAt, BuildAt, Starting, Writing, Verified,
    Publishing, Replacing, Finishing, Cleaning, CleanAt
<1>4. Moved("failing")
  BY Fields, GotoEffect DEF RecoverVerifying, ProgramCounters
<1>5. StateAt'
  BY <1>1, <1>2, <1>3, <1>4, Fields DEF StateAt, Starting, Writing, Verified,
    Publishing, Replacing, Finishing, Cleaning, Working, A, Moved, ProcIs
<1>6. BuildAt' /\ CleanAt' /\ StagingAt' /\ PlaceAt'
  BY <1>4 DEF BuildAt, CleanAt, StagingAt, PlaceAt, Starting, Writing,
    Verified, Publishing, Replacing, Cleaning, Ending, Moved, ProcIs
<1>7. CountInv'
  <2>1. Debt' <= Debt
    BY <1>1, <1>2, <1>3, <1>4, Fields DEF Debt, Paid, Writing, ActiveStates,
      Moved, ProcIs
  <2>2. Later
    BY <1>2, NoEvent
  <2>. QED  BY <1>1, <1>2, <1>3, <1>4, <2>1, <2>2, CountKeeps
<1>8. Later /\ SameJob /\ SameRows /\ UNCHANGED <<fs, world>> /\ proc' \in Procs
  BY <1>1, <1>2, <1>3, <1>4, NoEvent, SameJobEffect, Fields DEF Counted,
    SameRows, fs, world, Moved, ProcIs
<1>. QED  BY <1>5, <1>6, <1>7, <1>8, MoveKeeps

LEMMA ResumeKeeps ==
  ASSUME AttInv, RecoverVerifying, att[job.gen] = "verifying"
  PROVE  AttInv'
<1>1. /\ AttemptsInv /\ JobInv /\ RowsInv /\ ArchiveInv /\ QuarantineInv
      /\ DiskInv /\ ArchiveHolds /\ PlaceInv /\ StateAt /\ BuildAt /\ CleanAt
      /\ StagingAt /\ PlaceAt /\ CountInv
  BY DEF AttInv, Resting
<1>2. /\ proc.pc = "recover_verifying" /\ job' = job /\ zip' = zip
      /\ included' = included /\ allowed' = allowed /\ owner' = owner
      /\ att' = att /\ rec' = rec /\ dirs' = dirs /\ disk' = disk
      /\ file' = file /\ events' = events
  BY DEF RecoverVerifying, At, rows, fs, world
<1>3. /\ job.state = "verifying"
      /\ \A g \in Gens : g < job.gen => att[g] = "cleaned"
      /\ Archive = A(job.gen)
      /\ A(job.gen).state \in {"verifying", "publishing", "ready_candidate"}
      /\ proc.mode # "complete"
  BY <1>1, <1>2, Fields DEF StateAt, BuildAt, Starting, Writing, Verified,
    Publishing, Replacing, Finishing, Cleaning, CleanAt, RowsInv, A, Archive
<1>4. \/ A(job.gen).state = "verifying" /\ Entered(proc.mode, "publish")
      \/ A(job.gen).state = "publishing" /\ Entered("publishing", "quarantine")
      \/ A(job.gen).state = "ready_candidate" /\ Entered(proc.mode, "final")
  <2>1. Enter(RecoveryMode(Archive.state), Resumption(Archive.state))
    BY DEF RecoverVerifying
  <2>2. CASE A(job.gen).state = "verifying"
    <3>1. Enter(proc.mode, "publish")
      BY <1>3, <2>1, <2>2 DEF RecoveryMode, Resumption
    <3>. QED  BY <2>2, <3>1, Fields, EnterEffect DEF ProgramCounters
  <2>3. CASE A(job.gen).state = "publishing"
    <3>1. Enter("publishing", "quarantine")
      BY <1>3, <2>1, <2>3 DEF RecoveryMode, Resumption
    <3>. QED  BY <2>3, <3>1, Fields, EnterEffect DEF ProgramCounters, Modes
  <2>4. CASE A(job.gen).state = "ready_candidate"
    <3>1. Enter(proc.mode, "final")
      BY <1>3, <2>1, <2>4 DEF RecoveryMode, Resumption
    <3>. QED  BY <2>4, <3>1, Fields, EnterEffect DEF ProgramCounters
  <2>. QED  BY <1>3, <2>2, <2>3, <2>4
<1>5. StateAt'
  BY <1>1, <1>2, <1>3, <1>4, Fields DEF StateAt, Starting, Writing, Verified,
    Publishing, Replacing, Finishing, Cleaning, Working, A, Entered, ProcIs
<1>6. BuildAt'
  BY <1>1, <1>2, <1>3, <1>4, Fields DEF BuildAt, Starting, Writing, Verified,
    Publishing, Replacing, A, Q, Entered, ProcIs
<1>7. CleanAt'
  BY <1>1, <1>2, <1>3, <1>4, Fields DEF CleanAt, Cleaning, Left, A, Q, Entered,
    ProcIs
<1>8. StagingAt'
  BY <1>1, <1>2, <1>3, <1>4, Fields DEF StagingAt, Ending, First, StagingWork,
    Clear, Left, A, Q, Entered, ProcIs
<1>9. PlaceAt'
  BY <1>1, <1>2, <1>3, <1>4, Fields DEF PlaceAt, First, Left, A, Entered,
    ProcIs
<1>10. CountInv'
  <2>1. Debt' <= Debt
    BY <1>1, <1>2, <1>3, <1>4, Fields DEF Debt, Paid, Writing, ActiveStates,
      Entered, ProcIs
  <2>2. Later
    BY <1>2, NoEvent
  <2>. QED  BY <1>1, <1>2, <1>3, <1>4, <2>1, <2>2, CountKeeps
<1>11. Later /\ SameJob /\ SameRows /\ UNCHANGED <<fs, world>> /\ proc' \in Procs
  BY <1>1, <1>2, <1>3, <1>4, NoEvent, SameJobEffect, Fields DEF Counted,
    SameRows, fs, world, Entered, ProcIs
<1>. QED  BY <1>5, <1>6, <1>7, <1>8, <1>9, <1>10, <1>11, MoveKeeps

-----------------------------------------------------------------------------
(* What is left to do when the export is complete. *)

LEMMA FinishingFails ==
  ASSUME AttInv, proc.pc \in Finishing, RaiseStorageError, Later
  PROVE  AttInv'
<1>1. proc.mode = "complete" /\ ~Paid
  BY DEF AttInv, StateAt, Finishing, Paid, Writing
<1>. QED  BY <1>1, RaiseStorageKeeps DEF Unmoved

LEMMA HandoffExpiredKeeps ==
  ASSUME AttInv, HandoffArchive, ~Retained
  PROVE  AttInv'
<1>1. ~Paid
  BY DEF HandoffArchive, At, Paid, Writing
<1>. QED  BY <1>1, NoEvent, ExitKeeps DEF HandoffArchive, SameRows

LEMMA HandoffDoneKeeps ==
  ASSUME AttInv, HandoffArchive, Retained, att[job.gen] = "cleaned"
  PROVE  AttInv'
<1>1. /\ AttemptsInv /\ JobInv /\ RowsInv /\ ArchiveInv /\ QuarantineInv
      /\ DiskInv /\ ArchiveHolds /\ PlaceInv /\ StateAt /\ BuildAt /\ CleanAt
      /\ StagingAt /\ PlaceAt /\ CountInv
  BY DEF AttInv, Resting
<1>2. /\ proc.pc = "handoff" /\ job' = job /\ zip' = zip
      /\ included' = included /\ allowed' = allowed /\ owner' = owner
      /\ att' = att /\ rec' = rec /\ dirs' = dirs /\ disk' = disk
      /\ file' = file /\ events' = events
  BY DEF HandoffArchive, At, rows, fs, world
<1>3. /\ job.state = "complete" /\ proc.mode = "complete"
  BY <1>1, <1>2, Fields DEF StateAt, BuildAt, Starting, Writing, Verified,
    Publishing, Replacing, Finishing, Cleaning, Retained
<1>4. Moved("complete_done")
  BY Fields, GotoEffect DEF HandoffArchive, ProgramCounters
<1>5. StateAt'
  BY <1>1, <1>2, <1>3, <1>4, Fields DEF StateAt, Starting, Writing, Verified,
    Publishing, Replacing, Finishing, Cleaning, Working, A, Moved, ProcIs
<1>6. CleanAt'
  BY <1>1, <1>2, <1>3, <1>4, Fields DEF CleanAt, Cleaning, Left, A, Q, Moved,
    ProcIs
<1>7. BuildAt' /\ StagingAt' /\ PlaceAt'
  BY <1>4 DEF BuildAt, StagingAt, PlaceAt, Starting, Writing, Verified,
    Publishing, Replacing, Ending, Moved, ProcIs
<1>8. CountInv'
  <2>1. Debt' <= Debt
    BY <1>1, <1>2, <1>3, <1>4, Fields DEF Debt, Paid, Writing, ActiveStates,
      Moved, ProcIs
  <2>2. Later
    BY <1>2, NoEvent
  <2>. QED  BY <1>1, <1>2, <1>3, <1>4, <2>1, <2>2, CountKeeps
<1>9. Later /\ SameJob /\ SameRows /\ UNCHANGED <<fs, world>> /\ proc' \in Procs
  BY <1>1, <1>2, <1>3, <1>4, NoEvent, SameJobEffect, Fields DEF Counted,
    SameRows, fs, world, Moved, ProcIs
<1>. QED  BY <1>5, <1>7, <1>6, <1>8, <1>9, MoveKeeps

LEMMA HandoffArchiveKeeps ==
  ASSUME AttInv, HandoffArchive, Retained, att[job.gen] # "cleaned"
  PROVE  AttInv'
<1>1. /\ AttemptsInv /\ JobInv /\ RowsInv /\ ArchiveInv /\ QuarantineInv
      /\ DiskInv /\ ArchiveHolds /\ PlaceInv /\ StateAt /\ BuildAt /\ CleanAt
      /\ StagingAt /\ PlaceAt /\ CountInv
  BY DEF AttInv, Resting
<1>2. /\ proc.pc = "handoff" /\ job' = job /\ zip' = zip
      /\ included' = included /\ allowed' = allowed /\ owner' = owner
      /\ att' = att /\ dirs' = dirs /\ disk' = disk /\ file' = file
      /\ events' = events
  BY DEF HandoffArchive, At, rows, fs, world
<1>3. /\ job.state = "complete" /\ job.ready = "retained"
      /\ zip.ino = job.gen /\ proc.mode = "complete"
      /\ att[job.gen] = "published"
      /\ A(job.gen).state \in {"published", "cleaned"}
  BY <1>1, <1>2, Fields DEF StateAt, BuildAt, Starting, Writing, Verified,
    Publishing, Replacing, Finishing, Cleaning, Retained, JobInv, RowsInv, A
<1>4. Moved("complete_quarantine")
  BY Fields, GotoEffect DEF HandoffArchive, ProgramCounters
<1>5. RowIs("archive", job.gen, "cleaned", Archive.path, NoPath, Archive.ino, Archive.stamp)
  <2>1. Archive \in FileRows
    BY Fields, RowFields DEF Archive, A
  <2>2. Cleaned(Archive) \in FileRows
    BY <2>1 DEF Cleaned, FileRows, FileStates, AttemptStates
  <2>. QED  BY <2>1, <2>2, Fields, RowEffect
            DEF HandoffArchive, SetArchive, Cleaned, Kinds, FileRows
<1>6. AttemptsInv'
  BY <1>1, <1>2 DEF AttemptsInv, Live
<1>7. JobInv'
  BY <1>1, <1>2 DEF JobInv, Clear, ActiveStates
<1>8. RowsInv'
  BY <1>1, <1>2, <1>3, <1>4, <1>5, Fields DEF RowsInv, Left, Live, A, Q, Moved,
    ProcIs, RowIs, Kinds, Archive
<1>9. ArchiveInv'
  BY <1>1, <1>2, <1>3, <1>4, <1>5, Fields, Numbers, PathsApart DEF ArchiveInv,
    A, Moved, ProcIs, RowIs, Kinds, Archive
<1>10. QuarantineInv'
  BY <1>1, <1>2, <1>3, <1>4, <1>5, Fields, Numbers, PathsApart DEF
    QuarantineInv, A, Q, Moved, ProcIs, RowIs, Kinds, Archive
<1>11. DiskInv'
  BY <1>1, <1>2, <1>3, <1>4, <1>5, Fields, Numbers, PathsApart DEF DiskInv, A,
    Q, Moved, ProcIs, RowIs, Kinds, Archive
<1>12. ArchiveHolds'
  BY <1>1, <1>2, <1>3, <1>4, <1>5, Fields DEF ArchiveHolds,
    CompleteArchiveMatches, Retained, Matches, SameInode, A, Moved, ProcIs,
    RowIs, Kinds
<1>13. PlaceInv'
  BY <1>1, <1>2, <1>3, <1>4, <1>5, Fields, Numbers, PathsApart DEF PlaceInv,
    Left, A, Q, Moved, ProcIs, RowIs, Kinds, Archive, ArchiveInv
<1>14. StateAt'
  BY <1>1, <1>2, <1>3, <1>4, <1>5, Fields DEF StateAt, Starting, Writing,
    Verified, Publishing, Replacing, Finishing, Cleaning, Working, A, Moved,
    ProcIs, RowIs, Kinds
<1>15. CleanAt'
  BY <1>1, <1>2, <1>3, <1>4, <1>5, Fields DEF CleanAt, Cleaning, Left, A, Q,
    Moved, ProcIs, RowIs, Kinds
<1>16. BuildAt' /\ StagingAt' /\ PlaceAt'
  BY <1>4 DEF BuildAt, StagingAt, PlaceAt, Starting, Writing, Verified,
    Publishing, Replacing, Ending, Moved, ProcIs
<1>17. CountInv'
  <2>1. Debt' <= Debt
    BY <1>1, <1>2, <1>3, <1>4, <1>5, Fields DEF Debt, Paid, Writing,
      ActiveStates, Moved, ProcIs, RowIs, Kinds
  <2>2. Later
    BY <1>2, NoEvent
  <2>. QED  BY <1>1, <1>2, <1>3, <1>4, <1>5, <2>1, <2>2, CountKeeps
<1>18. TypeOK'
  BY <1>1, <1>2, <1>3, <1>4, <1>5, Fields, Types, TypesNext DEF AttInv, Moved,
    ProcIs, RowIs, Kinds
<1>. QED  BY <1>6, <1>7, <1>8, <1>9, <1>10, <1>11, <1>12, <1>13, <1>14, <1>16,
            <1>15, <1>17, <1>18 DEF AttInv, Resting

LEMMA NoQuarantineKeeps ==
  ASSUME AttInv, CompleteQuarantine, Retained,
         Quarantine.state \in {"none", "cleaned"}
  PROVE  AttInv'
<1>1. /\ AttemptsInv /\ JobInv /\ RowsInv /\ ArchiveInv /\ QuarantineInv
      /\ DiskInv /\ ArchiveHolds /\ PlaceInv /\ StateAt /\ BuildAt /\ CleanAt
      /\ StagingAt /\ PlaceAt /\ CountInv
  BY DEF AttInv, Resting
<1>2. /\ proc.pc = "complete_quarantine" /\ job' = job /\ zip' = zip
      /\ included' = included /\ allowed' = allowed /\ owner' = owner
      /\ att' = att /\ rec' = rec /\ dirs' = dirs /\ disk' = disk
      /\ file' = file /\ events' = events
  BY DEF CompleteQuarantine, At, rows, fs, world
<1>3. /\ job.state = "complete" /\ proc.mode = "complete"
      /\ ~Left(Q(job.gen))
  BY <1>1, <1>2, Fields DEF StateAt, BuildAt, Starting, Writing, Verified,
    Publishing, Replacing, Finishing, Cleaning, Retained, Left, Q, Quarantine
<1>4. Moved("complete_directory")
  BY Fields, GotoEffect DEF CompleteQuarantine, ProgramCounters
<1>5. StateAt'
  BY <1>1, <1>2, <1>3, <1>4, Fields DEF StateAt, Starting, Writing, Verified,
    Publishing, Replacing, Finishing, Cleaning, Working, A, Moved, ProcIs
<1>6. CleanAt'
  BY <1>1, <1>2, <1>3, <1>4, Fields DEF CleanAt, Cleaning, Left, A, Q, Moved,
    ProcIs
<1>7. BuildAt' /\ StagingAt' /\ PlaceAt'
  BY <1>4 DEF BuildAt, StagingAt, PlaceAt, Starting, Writing, Verified,
    Publishing, Replacing, Ending, Moved, ProcIs
<1>8. CountInv'
  <2>1. Debt' <= Debt
    BY <1>1, <1>2, <1>3, <1>4, Fields DEF Debt, Paid, Writing, ActiveStates,
      Moved, ProcIs
  <2>2. Later
    BY <1>2, NoEvent
  <2>. QED  BY <1>1, <1>2, <1>3, <1>4, <2>1, <2>2, CountKeeps
<1>9. Later /\ SameJob /\ SameRows /\ UNCHANGED <<fs, world>> /\ proc' \in Procs
  BY <1>1, <1>2, <1>3, <1>4, NoEvent, SameJobEffect, Fields DEF Counted,
    SameRows, fs, world, Moved, ProcIs
<1>. QED  BY <1>5, <1>7, <1>6, <1>8, <1>9, MoveKeeps

LEMMA CompleteQuarantineKeeps ==
  ASSUME AttInv, CompleteQuarantine, Quarantine.state = "closed",
         Unlink(Quarantine.path), Goto("complete_row"),
         UNCHANGED <<rows, dirs, world>>
  PROVE  AttInv'
<1>1. /\ AttemptsInv /\ JobInv /\ RowsInv /\ ArchiveInv /\ QuarantineInv
      /\ DiskInv /\ ArchiveHolds /\ PlaceInv /\ StateAt /\ BuildAt /\ CleanAt
      /\ StagingAt /\ PlaceAt /\ CountInv
  BY DEF AttInv, Resting
<1>2. /\ proc.pc = "complete_quarantine" /\ job' = job /\ zip' = zip
      /\ included' = included /\ allowed' = allowed /\ owner' = owner
      /\ att' = att /\ rec' = rec /\ dirs' = dirs /\ file' = file
      /\ events' = events
  BY DEF CompleteQuarantine, At, Unlink, rows, fs, world
<1>3. /\ job.state \in {"complete", "expired"} /\ proc.mode = "complete"
      /\ Q(job.gen).state = "closed" /\ Q(job.gen).path = Quar(job.gen)
      /\ A(job.gen).state # "ready_candidate"
  BY <1>1, <1>2, Fields, PathsApart DEF StateAt, BuildAt, Starting, Writing,
    Verified, Publishing, Replacing, Finishing, Cleaning, QuarantineInv,
    CleanAt, A, Q, Quarantine
<1>4. Moved("complete_row")
  BY Fields, GotoEffect DEF ProgramCounters
<1>5. Removed(Quar(job.gen))
  BY <1>3, Fields, PathsApart, UnlinkEffect DEF Q, Quarantine
<1>6. AttemptsInv'
  BY <1>1, <1>2 DEF AttemptsInv, Live
<1>7. JobInv'
  BY <1>1, <1>2 DEF JobInv, Clear, ActiveStates
<1>8. RowsInv'
  BY <1>1, <1>2 DEF RowsInv, Left, Live, A, Q
<1>9. ArchiveInv'
  BY <1>1, <1>2 DEF ArchiveInv, A
<1>10. QuarantineInv'
  BY <1>1, <1>2 DEF QuarantineInv, A, Q
<1>11. DiskInv'
  BY <1>1, <1>2, <1>3, <1>4, <1>5, Fields, Numbers, PathsApart DEF DiskInv, A,
    Q, Moved, ProcIs, Removed
<1>12. ArchiveHolds'
  BY <1>1, <1>2, <1>3, <1>4, <1>5, Fields, PathsApart DEF ArchiveHolds,
    CompleteArchiveMatches, Retained, Matches, SameInode, A, Moved, ProcIs,
    Removed
<1>13. PlaceInv'
  BY <1>1, <1>2, <1>3, <1>4, <1>5, Fields, Numbers, PathsApart DEF PlaceInv,
    Left, A, Q, Moved, ProcIs, Removed
<1>14. StateAt'
  BY <1>1, <1>2, <1>3, <1>4, <1>5, Fields DEF StateAt, Starting, Writing,
    Verified, Publishing, Replacing, Finishing, Cleaning, Working, A, Moved,
    ProcIs, Removed
<1>15. CleanAt'
  BY <1>1, <1>2, <1>3, <1>4, <1>5, Fields DEF CleanAt, Cleaning, Left, A, Q,
    Moved, ProcIs, Removed
<1>16. BuildAt' /\ StagingAt' /\ PlaceAt'
  BY <1>4 DEF BuildAt, StagingAt, PlaceAt, Starting, Writing, Verified,
    Publishing, Replacing, Ending, Moved, ProcIs
<1>17. CountInv'
  <2>1. Debt' <= Debt
    BY <1>1, <1>2, <1>3, <1>4, <1>5, Fields DEF Debt, Paid, Writing,
      ActiveStates, Moved, ProcIs, Removed
  <2>2. Later
    BY <1>2, NoEvent
  <2>. QED  BY <1>1, <1>2, <1>3, <1>4, <1>5, <2>1, <2>2, CountKeeps
<1>18. TypeOK'
  BY <1>1, <1>2, <1>3, <1>4, <1>5, Fields, Types, TypesNext DEF AttInv, Moved,
    ProcIs, Removed
<1>. QED  BY <1>6, <1>7, <1>8, <1>9, <1>10, <1>11, <1>12, <1>13, <1>14, <1>16,
            <1>15, <1>17, <1>18 DEF AttInv, Resting

LEMMA CompleteRowKeeps ==
  ASSUME AttInv, CompleteRow
  PROVE  AttInv'
<1>1. /\ AttemptsInv /\ JobInv /\ RowsInv /\ ArchiveInv /\ QuarantineInv
      /\ DiskInv /\ ArchiveHolds /\ PlaceInv /\ StateAt /\ BuildAt /\ CleanAt
      /\ StagingAt /\ PlaceAt /\ CountInv
  BY DEF AttInv, Resting
<1>2. /\ proc.pc = "complete_row" /\ job' = job /\ zip' = zip
      /\ included' = included /\ allowed' = allowed /\ owner' = owner
      /\ att' = att /\ dirs' = dirs /\ disk' = disk /\ file' = file
      /\ events' = events
  BY DEF CompleteRow, At, rows, fs, world
<1>3. /\ job.state \in {"complete", "expired"} /\ proc.mode = "complete"
      /\ Q(job.gen).state = "closed" /\ att[job.gen] = "published"
      /\ A(job.gen).state = "cleaned"
  BY <1>1, <1>2, Fields DEF StateAt, BuildAt, Starting, Writing, Verified,
    Publishing, Replacing, Finishing, Cleaning, CleanAt, Q
<1>4. Moved("complete_directory")
  BY Fields, GotoEffect DEF CompleteRow, ProgramCounters
<1>5. RowIs("quarantine", job.gen, "cleaned", Quarantine.path, NoPath,
            Quarantine.ino, Quarantine.stamp)
  <2>1. Quarantine \in FileRows
    BY Fields, RowFields DEF Quarantine, Q
  <2>2. Cleaned(Quarantine) \in FileRows
    BY <2>1 DEF Cleaned, FileRows, FileStates, AttemptStates
  <2>. QED  BY <2>1, <2>2, Fields, RowEffect DEF CompleteRow, Cleaned, Kinds, FileRows
<1>6. AttemptsInv'
  BY <1>1, <1>2 DEF AttemptsInv, Live
<1>7. JobInv'
  BY <1>1, <1>2 DEF JobInv, Clear, ActiveStates
<1>8. RowsInv'
  BY <1>1, <1>2, <1>3, <1>4, <1>5, Fields DEF RowsInv, Left, Live, A, Q, Moved,
    ProcIs, RowIs, Kinds, Quarantine
<1>9. ArchiveInv'
  BY <1>1, <1>2, <1>3, <1>4, <1>5, Fields, Numbers, PathsApart DEF ArchiveInv,
    A, Moved, ProcIs, RowIs, Kinds
<1>10. QuarantineInv'
  BY <1>1, <1>2, <1>3, <1>4, <1>5, Fields, Numbers, PathsApart DEF
    QuarantineInv, A, Q, Moved, ProcIs, RowIs, Kinds, Quarantine
<1>11. DiskInv'
  BY <1>1, <1>2, <1>3, <1>4, <1>5, Fields, Numbers, PathsApart DEF DiskInv, A,
    Q, Moved, ProcIs, RowIs, Kinds, Quarantine
<1>12. ArchiveHolds'
  BY <1>1, <1>2, <1>3, <1>4, <1>5, Fields DEF ArchiveHolds,
    CompleteArchiveMatches, Retained, Matches, SameInode, A, Moved, ProcIs,
    RowIs, Kinds
<1>13. PlaceInv'
  BY <1>1, <1>2, <1>3, <1>4, <1>5, Fields, Numbers, PathsApart DEF PlaceInv,
    Left, A, Q, Moved, ProcIs, RowIs, Kinds, Quarantine
<1>14. StateAt'
  BY <1>1, <1>2, <1>3, <1>4, <1>5, Fields DEF StateAt, Starting, Writing,
    Verified, Publishing, Replacing, Finishing, Cleaning, Working, A, Moved,
    ProcIs, RowIs, Kinds
<1>15. CleanAt'
  BY <1>1, <1>2, <1>3, <1>4, <1>5, Fields DEF CleanAt, Cleaning, Left, A, Q,
    Moved, ProcIs, RowIs, Kinds
<1>16. BuildAt' /\ StagingAt' /\ PlaceAt'
  BY <1>4 DEF BuildAt, StagingAt, PlaceAt, Starting, Writing, Verified,
    Publishing, Replacing, Ending, Moved, ProcIs
<1>17. CountInv'
  <2>1. Debt' <= Debt
    BY <1>1, <1>2, <1>3, <1>4, <1>5, Fields DEF Debt, Paid, Writing,
      ActiveStates, Moved, ProcIs, RowIs, Kinds
  <2>2. Later
    BY <1>2, NoEvent
  <2>. QED  BY <1>1, <1>2, <1>3, <1>4, <1>5, <2>1, <2>2, CountKeeps
<1>18. TypeOK'
  BY <1>1, <1>2, <1>3, <1>4, <1>5, Fields, Types, TypesNext DEF AttInv, Moved,
    ProcIs, RowIs, Kinds
<1>. QED  BY <1>6, <1>7, <1>8, <1>9, <1>10, <1>11, <1>12, <1>13, <1>14, <1>16,
            <1>15, <1>17, <1>18 DEF AttInv, Resting

LEMMA CompleteDirectoryKeeps ==
  ASSUME AttInv, CompleteDirectory, Retained, CleanableDirectory(job.gen)
  PROVE  AttInv'
<1>1. /\ AttemptsInv /\ JobInv /\ RowsInv /\ ArchiveInv /\ QuarantineInv
      /\ DiskInv /\ ArchiveHolds /\ PlaceInv /\ StateAt /\ BuildAt /\ CleanAt
      /\ StagingAt /\ PlaceAt /\ CountInv
  BY DEF AttInv, Resting
<1>2. /\ proc.pc = "complete_directory" /\ job' = job /\ zip' = zip
      /\ included' = included /\ allowed' = allowed /\ owner' = owner
      /\ att' = att /\ rec' = rec /\ disk' = disk /\ file' = file
      /\ events' = events
  BY DEF CompleteDirectory, At, RemoveDirectory, rows, fs, world
<1>3. /\ job.state = "complete" /\ proc.mode = "complete"
      /\ ~Left(Q(job.gen)) /\ att[job.gen] = "published"
      /\ A(job.gen).state = "cleaned" /\ dirs' = dirs \ {job.gen}
  BY <1>1, <1>2, Fields DEF StateAt, BuildAt, Starting, Writing, Verified,
    Publishing, Replacing, Finishing, Cleaning, CompleteDirectory,
    RemoveDirectory, Retained, CleanAt
<1>4. Moved("complete_attempt")
  BY Fields, GotoEffect DEF CompleteDirectory, ProgramCounters
<1>5. AttemptsInv'
  BY <1>1, <1>2, <1>3, <1>4, Fields DEF AttemptsInv, Live, Moved, ProcIs
<1>6. JobInv'
  BY <1>1, <1>2 DEF JobInv, Clear, ActiveStates
<1>7. RowsInv'
  BY <1>1, <1>2 DEF RowsInv, Left, Live, A, Q
<1>8. ArchiveInv'
  BY <1>1, <1>2 DEF ArchiveInv, A
<1>9. QuarantineInv'
  BY <1>1, <1>2 DEF QuarantineInv, A, Q
<1>10. DiskInv'
  BY <1>1, <1>2, <1>3, <1>4, Fields, Numbers, PathsApart DEF DiskInv, A, Q,
    Moved, ProcIs, CleanableDirectory, Empty
<1>11. ArchiveHolds'
  BY <1>1, <1>2 DEF ArchiveHolds, CompleteArchiveMatches, Retained, Matches,
    SameInode, A
<1>12. PlaceInv'
  BY <1>1, <1>2 DEF PlaceInv, Left, A, Q
<1>13. StateAt'
  BY <1>1, <1>2, <1>3, <1>4, Fields DEF StateAt, Starting, Writing, Verified,
    Publishing, Replacing, Finishing, Cleaning, Working, A, Moved, ProcIs
<1>14. CleanAt'
  BY <1>1, <1>2, <1>3, <1>4, Fields DEF CleanAt, Cleaning, Left, A, Q, Moved,
    ProcIs
<1>15. BuildAt' /\ StagingAt' /\ PlaceAt'
  BY <1>4 DEF BuildAt, StagingAt, PlaceAt, Starting, Writing, Verified,
    Publishing, Replacing, Ending, Moved, ProcIs
<1>16. CountInv'
  <2>1. Debt' <= Debt
    BY <1>1, <1>2, <1>3, <1>4, Fields DEF Debt, Paid, Writing, ActiveStates,
      Moved, ProcIs
  <2>2. Later
    BY <1>2, NoEvent
  <2>. QED  BY <1>1, <1>2, <1>3, <1>4, <2>1, <2>2, CountKeeps
<1>17. TypeOK'
  BY <1>1, <1>2, <1>3, <1>4, Fields, Types, TypesNext DEF AttInv, Moved, ProcIs
<1>. QED  BY <1>5, <1>6, <1>7, <1>8, <1>9, <1>10, <1>11, <1>12, <1>13, <1>15,
            <1>14, <1>16, <1>17 DEF AttInv, Resting

LEMMA CompleteAttemptKeeps ==
  ASSUME AttInv, CompleteAttempt, Retained
  PROVE  AttInv'
<1>1. /\ AttemptsInv /\ JobInv /\ RowsInv /\ ArchiveInv /\ QuarantineInv
      /\ DiskInv /\ ArchiveHolds /\ PlaceInv /\ StateAt /\ BuildAt /\ CleanAt
      /\ StagingAt /\ PlaceAt /\ CountInv
  BY DEF AttInv, Resting
<1>2. /\ proc.pc = "complete_attempt" /\ job' = job /\ zip' = zip
      /\ included' = included /\ allowed' = allowed /\ owner' = owner
      /\ rec' = rec /\ dirs' = dirs /\ disk' = disk /\ file' = file
      /\ events' = events
  BY DEF CompleteAttempt, At, rows, fs, world
<1>3. /\ job.state = "complete" /\ proc.mode = "complete"
      /\ ~Left(Q(job.gen)) /\ att[job.gen] = "published"
      /\ A(job.gen).state = "cleaned" /\ job.gen \notin dirs
  BY <1>1, <1>2, Fields DEF StateAt, BuildAt, Starting, Writing, Verified,
    Publishing, Replacing, Finishing, Cleaning, Retained, CleanAt
<1>4. Moved("complete_done")
  BY Fields, GotoEffect DEF CompleteAttempt, ProgramCounters
<1>5. AttIs(job.gen, "cleaned")
  BY Fields, AttEffect DEF CompleteAttempt, AttemptStates
<1>6. AttemptsInv'
  BY <1>1, <1>2, <1>3, <1>4, <1>5, Fields DEF AttemptsInv, Live, Moved, ProcIs,
    AttIs
<1>7. JobInv'
  BY <1>1, <1>2, <1>3, <1>4, <1>5, Fields DEF JobInv, Clear, ActiveStates,
    Moved, ProcIs, AttIs
<1>8. RowsInv'
  BY <1>1, <1>2, <1>3, <1>4, <1>5, Fields DEF RowsInv, Left, Live, A, Q, Moved,
    ProcIs, AttIs
<1>9. ArchiveInv'
  BY <1>1, <1>2 DEF ArchiveInv, A
<1>10. QuarantineInv'
  BY <1>1, <1>2 DEF QuarantineInv, A, Q
<1>11. DiskInv'
  BY <1>1, <1>2, <1>3, <1>4, <1>5, Fields, Numbers, PathsApart DEF DiskInv, A,
    Q, Moved, ProcIs, AttIs
<1>12. ArchiveHolds'
  BY <1>1, <1>2, <1>3, <1>4, <1>5, Fields DEF ArchiveHolds,
    CompleteArchiveMatches, Retained, Matches, SameInode, A, Moved, ProcIs,
    AttIs
<1>13. PlaceInv'
  BY <1>1, <1>2, <1>3, <1>4, <1>5, Fields, Numbers, PathsApart DEF PlaceInv,
    Left, A, Q, Moved, ProcIs, AttIs
<1>14. StateAt'
  BY <1>1, <1>2, <1>3, <1>4, <1>5, Fields DEF StateAt, Starting, Writing,
    Verified, Publishing, Replacing, Finishing, Cleaning, Working, A, Moved,
    ProcIs, AttIs
<1>15. CleanAt'
  BY <1>1, <1>2, <1>3, <1>4, <1>5, Fields DEF CleanAt, Cleaning, Left, A, Q,
    Moved, ProcIs, AttIs
<1>16. BuildAt' /\ StagingAt' /\ PlaceAt'
  BY <1>4 DEF BuildAt, StagingAt, PlaceAt, Starting, Writing, Verified,
    Publishing, Replacing, Ending, Moved, ProcIs
<1>17. CountInv'
  <2>1. Debt' <= Debt
    BY <1>1, <1>2, <1>3, <1>4, <1>5, Fields DEF Debt, Paid, Writing,
      ActiveStates, Moved, ProcIs, AttIs
  <2>2. Later
    BY <1>2, NoEvent
  <2>. QED  BY <1>1, <1>2, <1>3, <1>4, <1>5, <2>1, <2>2, CountKeeps
<1>18. TypeOK'
  BY <1>1, <1>2, <1>3, <1>4, <1>5, Fields, Types, TypesNext DEF AttInv, Moved,
    ProcIs, AttIs
<1>. QED  BY <1>6, <1>7, <1>8, <1>9, <1>10, <1>11, <1>12, <1>13, <1>14, <1>16,
            <1>15, <1>17, <1>18 DEF AttInv, Resting

LEMMA CompleteDoneKeeps ==
  ASSUME AttInv, CompleteDone, Retained
  PROVE  AttInv'
<1>1. /\ AttemptsInv /\ JobInv /\ RowsInv /\ ArchiveInv /\ QuarantineInv
      /\ DiskInv /\ ArchiveHolds /\ PlaceInv /\ StateAt /\ BuildAt /\ CleanAt
      /\ StagingAt /\ PlaceAt /\ CountInv
  BY DEF AttInv, Resting
<1>2. /\ proc.pc = "complete_done" /\ zip' = zip /\ included' = included
      /\ allowed' = allowed /\ owner' = owner /\ att' = att /\ rec' = rec
      /\ dirs' = dirs /\ disk' = disk /\ file' = file /\ events' = events
  BY DEF CompleteDone, At, rows, fs, world
<1>3. /\ job.state = "complete" /\ proc.mode = "complete"
      /\ att[job.gen] = "cleaned"
  BY <1>1, <1>2, Fields DEF StateAt, BuildAt, Starting, Writing, Verified,
    Publishing, Replacing, Finishing, Cleaning, Retained, CleanAt
<1>4. Moved("releasing")
  BY Fields, GotoEffect DEF CompleteDone, ProgramCounters
<1>5. JobIs(job.state, job.gen, "cleaned", job.ready)
  BY Fields DEF CompleteDone, JobIs, Jobs, Stagings
<1>6. AttemptsInv'
  BY <1>1, <1>2, <1>3, <1>4, <1>5, Fields DEF AttemptsInv, Live, JobIs, Moved,
    ProcIs
<1>7. JobInv'
  BY <1>1, <1>2, <1>3, <1>4, <1>5, Fields, Numbers DEF JobInv, Clear,
    ActiveStates, JobIs, Moved, ProcIs, AttemptsInv
<1>8. RowsInv'
  BY <1>1, <1>2 DEF RowsInv, Left, Live, A, Q
<1>9. ArchiveInv'
  BY <1>1, <1>2 DEF ArchiveInv, A
<1>10. QuarantineInv'
  BY <1>1, <1>2, <1>3, <1>4, <1>5, Fields, Numbers, PathsApart DEF
    QuarantineInv, A, Q, JobIs, Moved, ProcIs
<1>11. DiskInv'
  BY <1>1, <1>2 DEF DiskInv, A, Q
<1>12. ArchiveHolds'
  BY <1>1, <1>2, <1>3, <1>4, <1>5, Fields DEF ArchiveHolds,
    CompleteArchiveMatches, Retained, Matches, SameInode, A, JobIs, Moved,
    ProcIs
<1>13. PlaceInv'
  BY <1>1, <1>2, <1>3, <1>4, <1>5, Fields, Numbers, PathsApart DEF PlaceInv,
    Left, A, Q, JobIs, Moved, ProcIs
<1>14. StateAt'
  BY <1>1, <1>2, <1>3, <1>4, <1>5, Fields DEF StateAt, Starting, Writing,
    Verified, Publishing, Replacing, Finishing, Cleaning, Working, A, JobIs,
    Moved, ProcIs, ActiveStates
<1>15. BuildAt' /\ CleanAt' /\ StagingAt' /\ PlaceAt'
  BY <1>4 DEF BuildAt, CleanAt, StagingAt, PlaceAt, Starting, Writing,
    Verified, Publishing, Replacing, Cleaning, Ending, Moved, ProcIs
<1>16. CountInv'
  <2>1. Debt' <= Debt
    BY <1>1, <1>2, <1>3, <1>4, <1>5, Fields DEF Debt, Paid, Writing,
      ActiveStates, JobIs, Moved, ProcIs
  <2>2. Later
    BY <1>2, NoEvent
  <2>. QED  BY <1>1, <1>2, <1>3, <1>4, <1>5, <2>1, <2>2, CountKeeps DEF JobIs
<1>17. TypeOK'
  BY <1>1, <1>2, <1>3, <1>4, <1>5, Fields, Types, TypesNext DEF AttInv, JobIs,
    Moved, ProcIs
<1>. QED  BY <1>6, <1>7, <1>8, <1>9, <1>10, <1>11, <1>12, <1>13, <1>14, <1>15,
            <1>16, <1>17 DEF AttInv, Resting

LEMMA ReleaseKeeps ==
  ASSUME AttInv, Release
  PROVE  AttInv'
<1>1. /\ AttemptsInv /\ JobInv /\ RowsInv /\ ArchiveInv /\ QuarantineInv
      /\ DiskInv /\ ArchiveHolds /\ PlaceInv /\ StateAt /\ BuildAt /\ CleanAt
      /\ StagingAt /\ PlaceAt /\ CountInv
  BY DEF AttInv, Resting
<1>2. /\ proc.pc = "releasing" /\ zip' = zip /\ included' = included
      /\ allowed' = allowed /\ owner' = owner /\ att' = att /\ rec' = rec
      /\ dirs' = dirs /\ disk' = disk /\ file' = file /\ events' = events
  BY DEF Release, At, rows, fs, world
<1>3. ProcIs("idle", "none", 0, "down", {}, {})
  BY IdleEffect DEF Release
<1>4. SameJob
  BY Fields, LeaseEffect DEF Release
<1>5. StateAt' /\ BuildAt' /\ CleanAt' /\ StagingAt' /\ PlaceAt'
  BY <1>1, <1>2, <1>3, NowhereAt DEF StateAt, Finishing, ProcIs
<1>6. CountInv'
  <2>1. Debt' <= Debt
    BY <1>1, <1>2, <1>3, <1>4, Fields DEF Debt, Paid, Writing, ActiveStates,
      SameJob, JobIs, ProcIs
  <2>2. Later
    BY <1>2, NoEvent
  <2>. QED  BY <1>1, <1>2, <1>3, <1>4, <2>1, <2>2, CountKeeps DEF SameJob,
              JobIs
<1>7. Later /\ SameJob /\ SameRows /\ UNCHANGED <<fs, world>> /\ proc' \in Procs
  BY <1>1, <1>2, <1>3, <1>4, NoEvent, SameJobEffect, Fields DEF Counted,
    SameRows, fs, world, ProcIs
<1>. QED  BY <1>5, <1>6, <1>7, MoveKeeps

-----------------------------------------------------------------------------
(* Failure. *)

(* What a failed job leaves of its attempts.                                 *)
LEMMA FailedRows ==
  ASSUME AttInv, FailLocked, UNCHANGED <<fs, world, events>>, job.state \in ActiveStates
  PROVE  /\ JobIs("failed", job.gen, "pending", "absent") /\ GaveUp(Gens)
         /\ Resting' /\ CountInv' /\ UNCHANGED <<zip, included>>
<1>1. job.ready = "absent"
  BY DEF AttInv, Resting, JobInv
<1>2. JobIs("failed", job.gen, "pending", "absent")
  BY <1>1, Fields DEF FailLocked, JobIs, Jobs, JobStates, Stagings
<1>3. GaveUp(Gens) /\ UNCHANGED <<zip, included>>
  BY Fields, RetireEffect DEF FailLocked
<1>4. Resting'
  BY <1>2, <1>3, Fields, NoEvent, GiveUpKeeps
<1>5. Debt' = 0
  BY <1>2 DEF Debt, JobIs, ActiveStates
<1>6. CountInv'
  BY <1>2, <1>3, <1>5, NoEvent, CountKeeps, CostIsNat DEF JobIs, world
<1>. QED  BY <1>2, <1>3, <1>4, <1>6

LEMMA FailKeeps ==
  ASSUME AttInv, FailLocked, UNCHANGED <<fs, world, events>>, job.state \in ActiveStates,
         proc' \in Procs, StateAt' /\ BuildAt' /\ CleanAt' /\ StagingAt' /\ PlaceAt'
  PROVE  AttInv'
<1>1. TypeOK'
  BY FailedRows, Fields, Types, TypesNext DEF AttInv, JobIs, GaveUp, fs, world
<1>. QED  BY <1>1, FailedRows DEF AttInv

LEMMA FailJobKeeps ==
  ASSUME AttInv, FailJob
  PROVE  AttInv'
<1>1. ProcIs("idle", "none", 0, "down", {}, {})
  BY IdleEffect DEF FailJob
<1>2. job.state \in ActiveStates
  BY DEF AttInv, StateAt, FailJob, At, Working, ActiveStates
<1>. QED  BY <1>1, <1>2, NowhereAt, FailKeeps DEF FailJob, ProcIs

(* A worker that is idle, or at the end of its maintenance, stays idle.      *)
LEMMA IdleMode ==
  ASSUME AttInv, proc.pc \in {"idle", "down", "staging", "staging_row", "staging_attempt"}
  PROVE  proc.mode # "complete" /\ ~Paid
  BY DEF AttInv, StateAt, Finishing, Paid, Writing

LEMMA TerminalizeOwnerlessKeeps ==
  ASSUME AttInv, TerminalizeOwnerless
  PROVE  AttInv'
<1>1. proc' = proc /\ proc.pc = "idle" /\ proc \in Procs
  BY Fields DEF TerminalizeOwnerless, At
<1>2. job.state \in ActiveStates
  BY DEF TerminalizeOwnerless, OwnerlessWork
<1>. QED  BY <1>1, <1>2, IdleMode, NowhereAt, FailKeeps DEF TerminalizeOwnerless

LEMMA FenceFailsKeeps ==
  ASSUME AttInv, At("final"), FailLocked, UNCHANGED <<fs, world, events>>,
         proc' = [proc EXCEPT !.mode = "terminal", !.pc = "clean", !.at = job.gen,
                              !.then = "releasing"]
  PROVE  AttInv'
<1>1. /\ job.state = "verifying" /\ A(job.gen).state = "ready_candidate"
      /\ att[job.gen] = "verifying" /\ A(job.gen).path = Ready
  <2>1. /\ StateAt /\ BuildAt /\ JobInv /\ RowsInv /\ ArchiveInv
    BY DEF AttInv, Resting
  <2>2. job.state = "verifying" /\ A(job.gen).state = "ready_candidate"
    BY <2>1 DEF At, StateAt, BuildAt
  <2>. QED  BY <2>1, <2>2, Fields DEF JobInv, RowsInv, ArchiveInv, Left
<1>2. ProcIs("clean", "terminal", job.gen, "releasing", proc.revoked, proc.items)
  BY Fields, ZenonT(40) DEF ProcIs, Procs, Modes, ProgramCounters
<1>3. JobIs("failed", job.gen, "pending", "absent") /\ GaveUp(Gens)
  BY <1>1, FailedRows DEF ActiveStates
<1>4. StateAt'
  BY <1>1, <1>2, <1>3, Fields, ZenonT(40) DEF StateAt, ProcIs, JobIs, GaveUp,
    Starting, Writing, Verified, Publishing, Replacing, Finishing, Cleaning, A
<1>5. CleanAt'
  BY <1>1, <1>2, <1>3, Fields DEF CleanAt, ProcIs, GaveUp, Cleaning, Live
<1>6. BuildAt' /\ StagingAt' /\ PlaceAt'
  BY <1>2 DEF BuildAt, StagingAt, PlaceAt, ProcIs, Starting, Writing, Verified,
    Publishing, Replacing, Ending
<1>7. proc' \in Procs
  BY <1>2 DEF ProcIs
<1>. QED  BY <1>1, <1>4, <1>5, <1>6, <1>7, FailKeeps DEF ActiveStates

LEMMA FinalFenceKeeps ==
  ASSUME AttInv, FinalFence
  PROVE  AttInv'
  BY FenceFailsKeeps, FenceRotateKeeps, FenceCompleteKeeps DEF FinalFence

(* The attempt is given up before the job fails.                             *)
LEMMA MarkRetiringKeeps ==
  ASSUME AttInv, MarkRetiring
  PROVE  AttInv'
<1>1. /\ zip' = zip /\ included' = included /\ allowed' = allowed /\ owner' = owner
      /\ dirs' = dirs /\ disk' = disk /\ file' = file /\ events' = events
      /\ job' = job /\ proc.pc = "marking"
  BY DEF MarkRetiring, At, fs, world
<1>2. /\ job.state \in Working /\ job.staging = "pending" /\ job.ready = "absent"
      /\ proc.mode # "complete"
      /\ A(job.gen).state = "publishing" =>
           events.worst = "unread" \/ disk[Ready] # job.gen
  BY <1>1 DEF AttInv, Resting, StateAt, JobInv, PlaceAt, ActiveStates, Working,
    Finishing
<1>3. Moved("failing")
  BY Fields, GotoEffect DEF MarkRetiring, ProgramCounters
<1>4. GaveUp({job.gen})
  BY Fields, RetireEffect DEF MarkRetiring
<1>5. JobIs(job.state, job.gen, "pending", "absent")
  BY <1>1, <1>2, Fields DEF JobIs
<1>6. Resting'
  BY <1>1, <1>2, <1>4, <1>5, Fields, NoEvent, GiveUpKeeps
     DEF fs, Working, ActiveStates
<1>7. StateAt'
  BY <1>1, <1>2, <1>3 DEF StateAt, Moved, ProcIs, Starting, Writing, Verified,
    Publishing, Replacing, Finishing, Cleaning
<1>8. BuildAt' /\ CleanAt' /\ StagingAt' /\ PlaceAt'
  BY <1>3 DEF BuildAt, CleanAt, StagingAt, PlaceAt, Moved, ProcIs, Starting, Writing,
    Verified, Publishing, Replacing, Cleaning, Ending
<1>9. CountInv'
  <2>1. Debt' = 0
    BY <1>3 DEF Debt, Paid, Moved, ProcIs
  <2>. QED  BY <1>1, <2>1, NoEvent, CountKeeps, CostIsNat
<1>10. TypeOK'
  BY <1>1, <1>3, <1>4, Fields, Types, TypesNext DEF AttInv, Moved, ProcIs, GaveUp
<1>. QED  BY <1>6, <1>7, <1>8, <1>9, <1>10 DEF AttInv

-----------------------------------------------------------------------------
(* The claims. *)

(* Events have paid for the next generation.                                 *)
LEMMA NextGeneration ==
  ASSUME AttInv, job.state \in ActiveStates, att[job.gen] = "cleaned", Later,
         Paid => events'.count = events.count + 1
  PROVE  job.gen + 1 \in Gens /\ job.gen + 1 + Cardinality(included \ allowed) <= events'.count
<1>1. CountInv
  BY DEF AttInv
<1>2. Debt = 1 \/ (Paid /\ Debt = 0)
  BY DEF Debt
<1>3. job.gen + 1 + Cardinality(included \ allowed) <= events'.count
  BY <1>1, <1>2, Fields, CostIsNat DEF CountInv, Later
<1>4. events'.count <= MaxEvents
  BY AttemptsAssumption DEF Later, Counts
<1>. QED  BY <1>3, <1>4, Fields, CostIsNat, AttemptsAssumption DEF Gens, Later

(* An interrupted job with nothing to clean goes back to the queue.          *)
NextGen == IF att[job.gen] = "cleaned" THEN job.gen + 1 ELSE job.gen

LEMMA RequeueRows ==
  ASSUME AttInv, job.state = "archiving", Clear,
         JobIs("queued", NextGen, job.staging, job.ready), SameRows,
         UNCHANGED <<fs, world>>, Later,
         Paid => events'.count = events.count + 1, proc' \in Procs,
         proc'.pc \in {"down", "idle"}, proc'.mode # "complete"
  PROVE  AttInv'
<1>1. /\ AttemptsInv /\ JobInv /\ RowsInv /\ ArchiveInv /\ QuarantineInv
      /\ DiskInv /\ ArchiveHolds /\ PlaceInv /\ StateAt /\ BuildAt /\ CleanAt
      /\ StagingAt /\ PlaceAt /\ CountInv
  BY DEF AttInv, Resting
<1>2. /\ zip' = zip /\ included' = included /\ allowed' = allowed
      /\ owner' = owner /\ att' = att /\ rec' = rec /\ dirs' = dirs
      /\ disk' = disk /\ file' = file
  BY DEF SameRows, rows, fs, world
<1>3. /\ att[job.gen] \in {"none", "cleaned"} /\ job.staging = "pending"
      /\ job.ready = "absent" /\ zip = NoReceipt /\ NextGen \in Gens
      /\ NextGen = job.gen \/ NextGen = job.gen + 1
      /\ att[NextGen] = "none" /\ A(NextGen).state = "none"
      /\ att[job.gen] = "cleaned" =>
           NextGen = job.gen + 1 /\ \A g \in Gens : g <= job.gen => att[g] = "cleaned"
      /\ att[job.gen] = "none" => NextGen = job.gen
  <2>1. att[job.gen] \in {"none", "cleaned"}
    BY Fields DEF Clear
  <2>2. job.staging = "pending" /\ job.ready = "absent" /\ zip = NoReceipt
    BY <1>1 DEF JobInv, ActiveStates
  <2>3. CASE att[job.gen] = "cleaned"
    <3>1. NextGen = job.gen + 1 /\ NextGen \in Gens
      BY <2>3, NextGeneration DEF NextGen, ActiveStates
    <3>2. att[NextGen] = "none" /\ \A g \in Gens : g <= job.gen => att[g] = "cleaned"
      BY <1>1, <2>3, <3>1, Fields, Numbers DEF AttemptsInv
    <3>. QED  BY <1>1, <2>1, <2>2, <2>3, <3>1, <3>2 DEF RowsInv
  <2>4. CASE att[job.gen] # "cleaned"
    BY <1>1, <2>1, <2>2, <2>4, Fields DEF RowsInv, NextGen
  <2>. QED  BY <2>3, <2>4
<1>4. JobIs("queued", NextGen, job.staging, job.ready)
  OBVIOUS
<1>5. events.worst = "unread" => events'.worst = "unread"
  BY DEF Later
<1>6. AttemptsInv'
  BY <1>1, <1>2, <1>3, <1>4, <1>5, Fields, Numbers DEF AttemptsInv, Live, JobIs
<1>7. JobInv'
  BY <1>1, <1>2, <1>3, <1>4, <1>5, Fields DEF JobInv, Clear, ActiveStates,
    JobIs
<1>8. RowsInv'
  BY <1>1, <1>2 DEF RowsInv, Left, Live, A, Q
<1>9. ArchiveInv'
  BY <1>1, <1>2 DEF ArchiveInv, A
<1>10. QuarantineInv'
  BY <1>1, <1>2, <1>3, <1>4, <1>5, Fields, Numbers, PathsApart DEF
    QuarantineInv, A, Q, JobIs
<1>11. DiskInv'
  BY <1>1, <1>2 DEF DiskInv, A, Q
<1>12. ArchiveHolds'
  BY <1>1, <1>2, <1>3, <1>4, <1>5, Fields DEF ArchiveHolds,
    CompleteArchiveMatches, Retained, Matches, SameInode, A, JobIs
<1>13. PlaceInv'
  BY <1>1, <1>2, <1>3, <1>4, <1>5, Fields, Numbers, PathsApart DEF PlaceInv,
    Left, A, Q, JobIs
<1>14. StateAt' /\ BuildAt' /\ CleanAt' /\ StagingAt' /\ PlaceAt'
  BY NowhereAt
<1>15. CountInv'
  <2>1. Debt' = 0
    BY <1>2, <1>3, <1>4 DEF Debt, JobIs
  <2>2. Cardinality(included \ allowed)' = Cardinality(included \ allowed)
    BY <1>2
  <2>3. NextGen + Cardinality(included \ allowed) <= events'.count
    <3>1. CASE att[job.gen] = "cleaned"
      BY <1>3, <3>1, NextGeneration DEF ActiveStates
    <3>2. CASE att[job.gen] = "none"
      BY <1>1, <1>3, <3>2, Fields, CostIsNat DEF CountInv, Later
    <3>. QED  BY <1>3, <3>1, <3>2
  <2>. QED  BY <1>4, <2>1, <2>2, <2>3, Fields, CostIsNat, <1>3, Numbers DEF
            CountInv, JobIs
<1>16. TypeOK'
  BY <1>1, <1>2, <1>3, <1>4, <1>5, Fields, Types, TypesNext DEF AttInv, JobIs,
    Later
<1>. QED  BY <1>6, <1>7, <1>8, <1>9, <1>10, <1>11, <1>12, <1>13, <1>14, <1>15,
            <1>16 DEF AttInv, Resting

LEMMA RequeueKeeps ==
  ASSUME AttInv, Requeue
  PROVE  AttInv'
<1>1. /\ proc.pc = "idle" /\ proc' = proc /\ job.state = "archiving" /\ UncleanAttempts = {}
      /\ UNCHANGED <<fs, world, events>>
  BY DEF Requeue, At
<1>2. CASE FailLocked
  BY <1>1, <1>2, IdleMode, NowhereAt, FailKeeps, Fields DEF ActiveStates
<1>3. CASE /\ ~TooOften(Resumed(job.lease)) /\ SameRows
           /\ job' = [job EXCEPT !.state = "queued", !.lease = "none",
                           !.resume = Resumed(job.lease),
                           !.gen = IF att[job.gen] = "cleaned" THEN @ + 1 ELSE @]
  <2>1. Clear
    BY <1>1 DEF Clear, UncleanAttempts
  <2>2. NextGen \in Gens
    BY <1>1, IdleMode, NoEvent, NextGeneration, Fields DEF NextGen, ActiveStates
  <2>3. Resumed(job.lease) \in 0..MaxResumes
    BY <1>3, Fields, AttemptsAssumption DEF TooOften, Resumed, Jobs
  <2>4. job' = [job EXCEPT !.state = "queued", !.lease = "none",
                           !.resume = Resumed(job.lease), !.gen = NextGen]
    BY <1>3, Fields DEF NextGen, Jobs
  <2>5. JobIs("queued", NextGen, job.staging, job.ready)
    BY <2>2, <2>3, <2>4, Fields DEF JobIs, Jobs, JobStates
  <2>. QED  BY <1>1, <1>3, <2>1, <2>5, IdleMode, NoEvent, RequeueRows, Fields
<1>. QED  BY <1>2, <1>3 DEF Requeue, SameRows

(* A worker takes the job over, if it may.                                   *)
LEMMA ClaimEffect ==
  ASSUME AttInv, ~TooOften(Resumed(job.lease)), job' = Claimed(Resumed(job.lease))
  PROVE  SameJob
<1>1. Resumed(job.lease) \in 0..MaxResumes
  BY Fields, AttemptsAssumption DEF TooOften, Resumed, Jobs
<1>. QED  BY <1>1, Fields DEF Claimed, SameJob, JobIs, Jobs

LEMMA TakeRetiringKeeps ==
  ASSUME AttInv, At("idle"), job.state = "archiving", SameJob,
         Enter("retiring", "recover_retiring"), SameRows,
         UNCHANGED <<fs, world, events>>
  PROVE  AttInv'
<1>1. /\ AttemptsInv /\ JobInv /\ RowsInv /\ ArchiveInv /\ QuarantineInv
      /\ DiskInv /\ ArchiveHolds /\ PlaceInv /\ StateAt /\ BuildAt /\ CleanAt
      /\ StagingAt /\ PlaceAt /\ CountInv
  BY DEF AttInv, Resting
<1>2. /\ proc.pc = "idle" /\ zip' = zip /\ included' = included
      /\ allowed' = allowed /\ owner' = owner /\ att' = att /\ rec' = rec
      /\ dirs' = dirs /\ disk' = disk /\ file' = file /\ events' = events
  BY DEF At, SameRows, rows, fs, world
<1>3. Entered("retiring", "recover_retiring")
  BY Fields, EnterEffect DEF Modes, ProgramCounters
<1>4. SameJob
  OBVIOUS
<1>5. StateAt'
  BY <1>1, <1>2, <1>3, <1>4, Fields DEF StateAt, Starting, Writing, Verified,
    Publishing, Replacing, Finishing, Cleaning, Working, A, SameJob, JobIs,
    Entered, ProcIs
<1>6. BuildAt' /\ CleanAt' /\ StagingAt' /\ PlaceAt'
  BY <1>3 DEF BuildAt, CleanAt, StagingAt, PlaceAt, Starting, Writing,
    Verified, Publishing, Replacing, Cleaning, Ending, Entered, ProcIs
<1>7. CountInv'
  <2>1. Debt' <= Debt
    BY <1>1, <1>2, <1>3, <1>4, Fields DEF Debt, Paid, Writing, ActiveStates,
      SameJob, JobIs, Entered, ProcIs
  <2>2. Later
    BY <1>2, NoEvent
  <2>. QED  BY <1>1, <1>2, <1>3, <1>4, <2>1, <2>2, CountKeeps DEF SameJob,
              JobIs
<1>8. Later /\ SameJob /\ SameRows /\ UNCHANGED <<fs, world>> /\ proc' \in Procs
  BY <1>1, <1>2, <1>3, <1>4, NoEvent, SameJobEffect, Fields DEF Counted,
    SameRows, fs, world, Entered, ProcIs
<1>. QED  BY <1>5, <1>6, <1>7, <1>8, MoveKeeps

LEMMA TakeVerifyingKeeps ==
  ASSUME AttInv, At("idle"), job.state = "verifying", SameJob,
         Enter("verifying", "recover_verifying"), SameRows,
         UNCHANGED <<fs, world, events>>
  PROVE  AttInv'
<1>1. /\ AttemptsInv /\ JobInv /\ RowsInv /\ ArchiveInv /\ QuarantineInv
      /\ DiskInv /\ ArchiveHolds /\ PlaceInv /\ StateAt /\ BuildAt /\ CleanAt
      /\ StagingAt /\ PlaceAt /\ CountInv
  BY DEF AttInv, Resting
<1>2. /\ proc.pc = "idle" /\ zip' = zip /\ included' = included
      /\ allowed' = allowed /\ owner' = owner /\ att' = att /\ rec' = rec
      /\ dirs' = dirs /\ disk' = disk /\ file' = file /\ events' = events
  BY DEF At, SameRows, rows, fs, world
<1>3. \A g \in Gens : g < job.gen => att[g] = "cleaned"
  BY <1>1, <1>2, Fields DEF StateAt, BuildAt, Starting, Writing, Verified,
    Publishing, Replacing, Finishing, Cleaning, AttemptsInv, JobInv
<1>4. Entered("verifying", "recover_verifying")
  BY Fields, EnterEffect DEF Modes, ProgramCounters
<1>5. SameJob
  OBVIOUS
<1>6. StateAt'
  BY <1>1, <1>2, <1>3, <1>4, <1>5, Fields DEF StateAt, Starting, Writing,
    Verified, Publishing, Replacing, Finishing, Cleaning, Working, A, SameJob,
    JobIs, Entered, ProcIs
<1>7. CleanAt'
  BY <1>1, <1>2, <1>3, <1>4, <1>5, Fields DEF CleanAt, Cleaning, Left, A, Q,
    SameJob, JobIs, Entered, ProcIs
<1>8. BuildAt' /\ StagingAt' /\ PlaceAt'
  BY <1>4 DEF BuildAt, StagingAt, PlaceAt, Starting, Writing, Verified,
    Publishing, Replacing, Ending, Entered, ProcIs
<1>9. CountInv'
  <2>1. Debt' <= Debt
    BY <1>1, <1>2, <1>3, <1>4, <1>5, Fields DEF Debt, Paid, Writing,
      ActiveStates, SameJob, JobIs, Entered, ProcIs
  <2>2. Later
    BY <1>2, NoEvent
  <2>. QED  BY <1>1, <1>2, <1>3, <1>4, <1>5, <2>1, <2>2, CountKeeps DEF
              SameJob, JobIs
<1>10. Later /\ SameJob /\ SameRows /\ UNCHANGED <<fs, world>> /\ proc' \in Procs
  BY <1>1, <1>2, <1>3, <1>4, <1>5, NoEvent, SameJobEffect, Fields DEF Counted,
    SameRows, fs, world, Entered, ProcIs
<1>. QED  BY <1>6, <1>8, <1>7, <1>9, <1>10, MoveKeeps

LEMMA ClaimRecoveryKeeps ==
  ASSUME AttInv, ClaimRecovery
  PROVE  AttInv'
<1>1. At("idle") /\ proc.pc = "idle" /\ UNCHANGED <<fs, world, events>>
  BY DEF ClaimRecovery, At
<1>2. ASSUME NEW mode \in Modes, NEW pc \in ProgramCounters, TakeOver(mode, pc),
             job.state \in ActiveStates, ~(SameJob /\ SameRows /\ Enter(mode, pc))
      PROVE  AttInv'
  <2>1. FailLocked /\ proc' = proc
    BY <1>2, ClaimEffect DEF TakeOver, SameRows
  <2>. QED  BY <1>1, <1>2, <2>1, IdleMode, NowhereAt, FailKeeps, Fields
<1>3. CASE job.state = "archiving" /\ TakeOver("retiring", "recover_retiring")
  BY <1>1, <1>2, <1>3, TakeRetiringKeeps DEF ActiveStates, Modes, ProgramCounters
<1>4. CASE job.state = "verifying" /\ TakeOver("verifying", "recover_verifying")
  BY <1>1, <1>2, <1>4, TakeVerifyingKeeps DEF ActiveStates, Modes, ProgramCounters
<1>. QED  BY <1>3, <1>4 DEF ClaimRecovery

LEMMA ClaimNextKeeps ==
  ASSUME AttInv, ClaimNext
  PROVE  AttInv'
<1>1. /\ AttemptsInv /\ JobInv /\ RowsInv /\ ArchiveInv /\ QuarantineInv
      /\ DiskInv /\ ArchiveHolds /\ PlaceInv /\ StateAt /\ BuildAt /\ CleanAt
      /\ StagingAt /\ PlaceAt /\ CountInv
  BY DEF AttInv, Resting
<1>2. /\ proc.pc = "idle" /\ zip' = zip /\ included' = included
      /\ allowed' = allowed /\ owner' = owner /\ att' = att /\ rec' = rec
      /\ dirs' = dirs /\ disk' = disk /\ file' = file /\ events' = events
  BY DEF ClaimNext, At, rows, fs, world
<1>3. /\ job.state = "queued" /\ att[job.gen] = "none"
      /\ job.staging = "pending"
      /\ \A g \in Gens : att[g] \in {"none", "cleaned"}
      /\ \A g \in Gens : g < job.gen => att[g] = "cleaned"
  BY <1>1, <1>2, Fields DEF StateAt, BuildAt, Starting, Writing, Verified,
    Publishing, Replacing, Finishing, Cleaning, ClaimNext, JobInv, AttemptsInv,
    Clear, ActiveStates
<1>4. Entered("archiving", "recover_archiving")
  BY Fields, EnterEffect DEF ClaimNext, Modes, ProgramCounters
<1>5. JobIs("archiving", job.gen, job.staging, job.ready)
  BY Fields DEF ClaimNext, JobIs, Jobs, JobStates
<1>6. AttemptsInv'
  BY <1>1, <1>2, <1>3, <1>4, <1>5, Fields DEF AttemptsInv, Live, JobIs,
    Entered, ProcIs
<1>7. JobInv'
  BY <1>1, <1>2, <1>3, <1>4, <1>5, Fields DEF JobInv, Clear, ActiveStates,
    JobIs, Entered, ProcIs
<1>8. RowsInv'
  BY <1>1, <1>2 DEF RowsInv, Left, Live, A, Q
<1>9. ArchiveInv'
  BY <1>1, <1>2 DEF ArchiveInv, A
<1>10. QuarantineInv'
  BY <1>1, <1>2, <1>3, <1>4, <1>5, Fields, Numbers, PathsApart DEF
    QuarantineInv, A, Q, JobIs, Entered, ProcIs
<1>11. DiskInv'
  BY <1>1, <1>2 DEF DiskInv, A, Q
<1>12. ArchiveHolds'
  BY <1>1, <1>2, <1>3, <1>4, <1>5, Fields DEF ArchiveHolds,
    CompleteArchiveMatches, Retained, Matches, SameInode, A, JobIs, Entered,
    ProcIs, RowsInv
<1>13. PlaceInv'
  BY <1>1, <1>2, <1>3, <1>4, <1>5, Fields, Numbers, PathsApart DEF PlaceInv,
    Left, A, Q, JobIs, Entered, ProcIs
<1>14. StateAt'
  BY <1>1, <1>2, <1>3, <1>4, <1>5, Fields DEF StateAt, Starting, Writing,
    Verified, Publishing, Replacing, Finishing, Cleaning, Working, A, JobIs,
    Entered, ProcIs
<1>15. CleanAt'
  BY <1>1, <1>2, <1>3, <1>4, <1>5, Fields DEF CleanAt, Cleaning, Left, A, Q,
    JobIs, Entered, ProcIs
<1>16. BuildAt' /\ StagingAt' /\ PlaceAt'
  BY <1>4 DEF BuildAt, StagingAt, PlaceAt, Starting, Writing, Verified,
    Publishing, Replacing, Ending, Entered, ProcIs
<1>17. CountInv'
  <2>1. Debt' <= Debt
    BY <1>1, <1>2, <1>3, <1>4, <1>5, Fields DEF Debt, Paid, Writing,
      ActiveStates, JobIs, Entered, ProcIs
  <2>2. Later
    BY <1>2, NoEvent
  <2>. QED  BY <1>1, <1>2, <1>3, <1>4, <1>5, <2>1, <2>2, CountKeeps DEF JobIs
<1>18. TypeOK'
  BY <1>1, <1>2, <1>3, <1>4, <1>5, Fields, Types, TypesNext DEF AttInv, JobIs,
    Entered, ProcIs
<1>. QED  BY <1>6, <1>7, <1>8, <1>9, <1>10, <1>11, <1>12, <1>13, <1>14, <1>16,
            <1>15, <1>17, <1>18 DEF AttInv, Resting

LEMMA ClaimCompleteKeeps ==
  ASSUME AttInv, ClaimComplete
  PROVE  AttInv'
<1>1. /\ AttemptsInv /\ JobInv /\ RowsInv /\ ArchiveInv /\ QuarantineInv
      /\ DiskInv /\ ArchiveHolds /\ PlaceInv /\ StateAt /\ BuildAt /\ CleanAt
      /\ StagingAt /\ PlaceAt /\ CountInv
  BY DEF AttInv, Resting
<1>2. /\ proc.pc = "idle" /\ zip' = zip /\ included' = included
      /\ allowed' = allowed /\ owner' = owner /\ att' = att /\ rec' = rec
      /\ dirs' = dirs /\ disk' = disk /\ file' = file /\ events' = events
  BY DEF ClaimComplete, At, rows, fs, world
<1>3. job.state = "complete"
  BY <1>1, <1>2, Fields DEF StateAt, BuildAt, Starting, Writing, Verified,
    Publishing, Replacing, Finishing, Cleaning, ClaimComplete, CompleteWork
<1>4. Entered("complete", "handoff")
  BY Fields, EnterEffect DEF ClaimComplete, Modes, ProgramCounters
<1>5. SameJob
  BY Fields, LeaseEffect DEF ClaimComplete
<1>6. StateAt'
  BY <1>1, <1>2, <1>3, <1>4, <1>5, Fields DEF StateAt, Starting, Writing,
    Verified, Publishing, Replacing, Finishing, Cleaning, Working, A, SameJob,
    JobIs, Entered, ProcIs
<1>7. BuildAt' /\ CleanAt' /\ StagingAt' /\ PlaceAt'
  BY <1>4 DEF BuildAt, CleanAt, StagingAt, PlaceAt, Starting, Writing,
    Verified, Publishing, Replacing, Cleaning, Ending, Entered, ProcIs
<1>8. CountInv'
  <2>1. Debt' <= Debt
    BY <1>1, <1>2, <1>3, <1>4, <1>5, Fields DEF Debt, Paid, Writing,
      ActiveStates, SameJob, JobIs, Entered, ProcIs
  <2>2. Later
    BY <1>2, NoEvent
  <2>. QED  BY <1>1, <1>2, <1>3, <1>4, <1>5, <2>1, <2>2, CountKeeps DEF
              SameJob, JobIs
<1>9. Later /\ SameJob /\ SameRows /\ UNCHANGED <<fs, world>> /\ proc' \in Procs
  BY <1>1, <1>2, <1>3, <1>4, <1>5, NoEvent, SameJobEffect, Fields DEF Counted,
    SameRows, fs, world, Entered, ProcIs
<1>. QED  BY <1>6, <1>7, <1>8, <1>9, MoveKeeps

-----------------------------------------------------------------------------
(* The cleanup of what has ended. *)

LEMMA CleanReadyKeeps ==
  ASSUME AttInv, CleanReady, Unlink(Ready), Goto("ready_row"), UNCHANGED job
  PROVE  AttInv'
<1>1. /\ AttemptsInv /\ JobInv /\ RowsInv /\ ArchiveInv /\ QuarantineInv
      /\ DiskInv /\ ArchiveHolds /\ PlaceInv /\ StateAt /\ BuildAt /\ CleanAt
      /\ StagingAt /\ PlaceAt /\ CountInv
  BY DEF AttInv, Resting
<1>2. /\ proc.pc = "idle" /\ job' = job /\ zip' = zip /\ included' = included
      /\ allowed' = allowed /\ owner' = owner /\ att' = att /\ rec' = rec
      /\ dirs' = dirs /\ file' = file /\ events' = events
  BY DEF CleanReady, At, Unlink, rows, fs, world
<1>3. /\ job.state = "expired" /\ job.ready = "pending"
      /\ A(job.gen).state # "ready_candidate"
  BY <1>1, <1>2, Fields DEF StateAt, BuildAt, Starting, Writing, Verified,
    Publishing, Replacing, Finishing, Cleaning, CleanReady, ReadyWork, JobInv,
    RowsInv, Left, A
<1>4. Moved("ready_row")
  BY Fields, GotoEffect DEF ProgramCounters
<1>5. Removed(Ready)
  BY Fields, PathsApart, UnlinkEffect
<1>6. AttemptsInv'
  BY <1>1, <1>2 DEF AttemptsInv, Live
<1>7. JobInv'
  BY <1>1, <1>2 DEF JobInv, Clear, ActiveStates
<1>8. RowsInv'
  BY <1>1, <1>2 DEF RowsInv, Left, Live, A, Q
<1>9. ArchiveInv'
  BY <1>1, <1>2 DEF ArchiveInv, A
<1>10. QuarantineInv'
  BY <1>1, <1>2 DEF QuarantineInv, A, Q
<1>11. DiskInv'
  BY <1>1, <1>2, <1>3, <1>4, <1>5, Fields, Numbers, PathsApart DEF DiskInv, A,
    Q, Moved, ProcIs, Removed
<1>12. ArchiveHolds'
  BY <1>1, <1>2, <1>3, <1>4, <1>5, Fields DEF ArchiveHolds,
    CompleteArchiveMatches, Retained, Matches, SameInode, A, Moved, ProcIs,
    Removed
<1>13. PlaceInv'
  BY <1>1, <1>2, <1>3, <1>4, <1>5, Fields, Numbers, PathsApart DEF PlaceInv,
    Left, A, Q, Moved, ProcIs, Removed
<1>14. StateAt'
  BY <1>1, <1>2, <1>3, <1>4, <1>5, Fields, PathsApart DEF StateAt, Starting,
    Writing, Verified, Publishing, Replacing, Finishing, Cleaning, Working, A,
    Moved, ProcIs, Removed
<1>15. BuildAt' /\ CleanAt' /\ StagingAt' /\ PlaceAt'
  BY <1>4 DEF BuildAt, CleanAt, StagingAt, PlaceAt, Starting, Writing,
    Verified, Publishing, Replacing, Cleaning, Ending, Moved, ProcIs
<1>16. CountInv'
  <2>1. Debt' <= Debt
    BY <1>1, <1>2, <1>3, <1>4, <1>5, Fields DEF Debt, Paid, Writing,
      ActiveStates, Moved, ProcIs, Removed
  <2>2. Later
    BY <1>2, NoEvent
  <2>. QED  BY <1>1, <1>2, <1>3, <1>4, <1>5, <2>1, <2>2, CountKeeps
<1>17. TypeOK'
  BY <1>1, <1>2, <1>3, <1>4, <1>5, Fields, Types, TypesNext DEF AttInv, Moved,
    ProcIs, Removed
<1>. QED  BY <1>6, <1>7, <1>8, <1>9, <1>10, <1>11, <1>12, <1>13, <1>14, <1>15,
            <1>16, <1>17 DEF AttInv, Resting

LEMMA ReadyBlockedKeeps ==
  ASSUME AttInv, CleanReady, job' = [job EXCEPT !.ready = "blocked"],
         Goto("staging"), UNCHANGED <<disk, file>>
  PROVE  AttInv'
<1>1. /\ AttemptsInv /\ JobInv /\ RowsInv /\ ArchiveInv /\ QuarantineInv
      /\ DiskInv /\ ArchiveHolds /\ PlaceInv /\ StateAt /\ BuildAt /\ CleanAt
      /\ StagingAt /\ PlaceAt /\ CountInv
  BY DEF AttInv, Resting
<1>2. /\ proc.pc = "idle" /\ zip' = zip /\ included' = included
      /\ allowed' = allowed /\ owner' = owner /\ att' = att /\ rec' = rec
      /\ dirs' = dirs /\ disk' = disk /\ file' = file /\ events' = events
  BY DEF CleanReady, At, rows, fs, world
<1>3. /\ job.state = "expired" /\ job.ready = "pending"
  BY <1>1, <1>2, Fields DEF StateAt, BuildAt, Starting, Writing, Verified,
    Publishing, Replacing, Finishing, Cleaning, CleanReady, ReadyWork
<1>4. Moved("staging")
  BY Fields, GotoEffect DEF ProgramCounters
<1>5. JobIs(job.state, job.gen, job.staging, "blocked")
  BY Fields DEF JobIs, Jobs, Readies
<1>6. AttemptsInv'
  BY <1>1, <1>2, <1>3, <1>4, <1>5, Fields DEF AttemptsInv, Live, JobIs, Moved,
    ProcIs
<1>7. JobInv'
  BY <1>1, <1>2, <1>3, <1>4, <1>5, Fields DEF JobInv, Clear, ActiveStates,
    JobIs, Moved, ProcIs
<1>8. RowsInv'
  BY <1>1, <1>2 DEF RowsInv, Left, Live, A, Q
<1>9. ArchiveInv'
  BY <1>1, <1>2 DEF ArchiveInv, A
<1>10. QuarantineInv'
  BY <1>1, <1>2, <1>3, <1>4, <1>5, Fields, Numbers, PathsApart DEF
    QuarantineInv, A, Q, JobIs, Moved, ProcIs
<1>11. DiskInv'
  BY <1>1, <1>2 DEF DiskInv, A, Q
<1>12. ArchiveHolds'
  BY <1>1, <1>2, <1>3, <1>4, <1>5, Fields DEF ArchiveHolds,
    CompleteArchiveMatches, Retained, Matches, SameInode, A, JobIs, Moved,
    ProcIs
<1>13. PlaceInv'
  BY <1>1, <1>2, <1>3, <1>4, <1>5, Fields, Numbers, PathsApart DEF PlaceInv,
    Left, A, Q, JobIs, Moved, ProcIs
<1>14. StateAt'
  BY <1>1, <1>2, <1>3, <1>4, <1>5, Fields DEF StateAt, Starting, Writing,
    Verified, Publishing, Replacing, Finishing, Cleaning, Working, A, JobIs,
    Moved, ProcIs
<1>15. BuildAt' /\ CleanAt' /\ StagingAt' /\ PlaceAt'
  BY <1>4 DEF BuildAt, CleanAt, StagingAt, PlaceAt, Starting, Writing,
    Verified, Publishing, Replacing, Cleaning, Ending, Moved, ProcIs
<1>16. CountInv'
  <2>1. Debt' <= Debt
    BY <1>1, <1>2, <1>3, <1>4, <1>5, Fields DEF Debt, Paid, Writing,
      ActiveStates, JobIs, Moved, ProcIs
  <2>2. Later
    BY <1>2, NoEvent
  <2>. QED  BY <1>1, <1>2, <1>3, <1>4, <1>5, <2>1, <2>2, CountKeeps DEF JobIs
<1>17. TypeOK'
  BY <1>1, <1>2, <1>3, <1>4, <1>5, Fields, Types, TypesNext DEF AttInv, JobIs,
    Moved, ProcIs
<1>. QED  BY <1>6, <1>7, <1>8, <1>9, <1>10, <1>11, <1>12, <1>13, <1>14, <1>15,
            <1>16, <1>17 DEF AttInv, Resting

LEMMA ReadyCleanedKeeps ==
  ASSUME AttInv, ReadyCleaned
  PROVE  AttInv'
<1>1. /\ AttemptsInv /\ JobInv /\ RowsInv /\ ArchiveInv /\ QuarantineInv
      /\ DiskInv /\ ArchiveHolds /\ PlaceInv /\ StateAt /\ BuildAt /\ CleanAt
      /\ StagingAt /\ PlaceAt /\ CountInv
  BY DEF AttInv, Resting
<1>2. /\ proc.pc = "ready_row" /\ included' = included /\ allowed' = allowed
      /\ owner' = owner /\ att' = att /\ rec' = rec /\ dirs' = dirs
      /\ disk' = disk /\ file' = file /\ events' = events
  BY DEF ReadyCleaned, At, rows, fs, world
<1>3. /\ job.state = "expired" /\ job.ready = "pending"
      /\ disk[Ready] = NoFile /\ A(job.gen).state # "ready_candidate"
  BY <1>1, <1>2, Fields DEF StateAt, BuildAt, Starting, Writing, Verified,
    Publishing, Replacing, Finishing, Cleaning, JobInv, RowsInv, Left, A
<1>4. Moved("staging")
  BY Fields, GotoEffect DEF ReadyCleaned, ProgramCounters
<1>5. JobIs(job.state, job.gen, job.staging, "cleaned")
  BY Fields DEF ReadyCleaned, JobIs, Jobs, Readies
<1>6. zip' = NoReceipt /\ zip' \in Receipts
  BY  DEF ReadyCleaned, NoReceipt, Receipts, Stamps
<1>7. AttemptsInv'
  BY <1>1, <1>2, <1>3, <1>4, <1>5, <1>6, Fields DEF AttemptsInv, Live, JobIs,
    Moved, ProcIs
<1>8. JobInv'
  BY <1>1, <1>2, <1>3, <1>4, <1>5, <1>6, Fields DEF JobInv, Clear,
    ActiveStates, JobIs, Moved, ProcIs
<1>9. RowsInv'
  BY <1>1, <1>2 DEF RowsInv, Left, Live, A, Q
<1>10. ArchiveInv'
  BY <1>1, <1>2 DEF ArchiveInv, A
<1>11. QuarantineInv'
  BY <1>1, <1>2, <1>3, <1>4, <1>5, <1>6, Fields, Numbers, PathsApart DEF
    QuarantineInv, A, Q, JobIs, Moved, ProcIs
<1>12. DiskInv'
  BY <1>1, <1>2 DEF DiskInv, A, Q
<1>13. ArchiveHolds'
  BY <1>1, <1>2, <1>3, <1>4, <1>5, <1>6, Fields DEF ArchiveHolds,
    CompleteArchiveMatches, Retained, Matches, SameInode, A, JobIs, Moved,
    ProcIs
<1>14. PlaceInv'
  BY <1>1, <1>2, <1>3, <1>4, <1>5, <1>6, Fields, Numbers, PathsApart DEF
    PlaceInv, Left, A, Q, JobIs, Moved, ProcIs
<1>15. StateAt'
  BY <1>1, <1>2, <1>3, <1>4, <1>5, <1>6, Fields DEF StateAt, Starting, Writing,
    Verified, Publishing, Replacing, Finishing, Cleaning, Working, A, JobIs,
    Moved, ProcIs
<1>16. BuildAt' /\ CleanAt' /\ StagingAt' /\ PlaceAt'
  BY <1>4 DEF BuildAt, CleanAt, StagingAt, PlaceAt, Starting, Writing,
    Verified, Publishing, Replacing, Cleaning, Ending, Moved, ProcIs
<1>17. CountInv'
  <2>1. Debt' <= Debt
    BY <1>1, <1>2, <1>3, <1>4, <1>5, <1>6, Fields DEF Debt, Paid, Writing,
      ActiveStates, JobIs, Moved, ProcIs
  <2>2. Later
    BY <1>2, NoEvent
  <2>. QED  BY <1>1, <1>2, <1>3, <1>4, <1>5, <1>6, <2>1, <2>2, CountKeeps DEF
              JobIs
<1>18. TypeOK'
  BY <1>1, <1>2, <1>3, <1>4, <1>5, <1>6, Fields, Types, TypesNext DEF AttInv,
    JobIs, Moved, ProcIs
<1>. QED  BY <1>7, <1>8, <1>9, <1>10, <1>11, <1>12, <1>13, <1>14, <1>15, <1>16,
            <1>17, <1>18 DEF AttInv, Resting

LEMMA StagingSkippedKeeps ==
  ASSUME AttInv, StagingSkipped
  PROVE  AttInv'
<1>1. /\ AttemptsInv /\ JobInv /\ RowsInv /\ ArchiveInv /\ QuarantineInv
      /\ DiskInv /\ ArchiveHolds /\ PlaceInv /\ StateAt /\ BuildAt /\ CleanAt
      /\ StagingAt /\ PlaceAt /\ CountInv
  BY DEF AttInv, Resting
<1>2. /\ proc.pc = "staging" /\ job' = job /\ zip' = zip
      /\ included' = included /\ allowed' = allowed /\ owner' = owner
      /\ att' = att /\ rec' = rec /\ dirs' = dirs /\ disk' = disk
      /\ file' = file /\ events' = events
  BY DEF StagingSkipped, At, rows, fs, world
<1>3. Moved("idle")
  BY Fields, GotoEffect DEF StagingSkipped, ProgramCounters
<1>4. StateAt' /\ BuildAt' /\ CleanAt' /\ StagingAt' /\ PlaceAt'
  BY <1>1, <1>2, <1>3, NowhereAt DEF StateAt, Finishing, Moved, ProcIs
<1>5. CountInv'
  <2>1. Debt' <= Debt
    BY <1>1, <1>2, <1>3, Fields DEF Debt, Paid, Writing, ActiveStates, Moved,
      ProcIs
  <2>2. Later
    BY <1>2, NoEvent
  <2>. QED  BY <1>1, <1>2, <1>3, <2>1, <2>2, CountKeeps
<1>6. Later /\ SameJob /\ SameRows /\ UNCHANGED <<fs, world>> /\ proc' \in Procs
  BY <1>1, <1>2, <1>3, NoEvent, SameJobEffect, Fields DEF Counted, SameRows,
    fs, world, Moved, ProcIs
<1>. QED  BY <1>4, <1>5, <1>6, MoveKeeps

(* A pass of the cleanup is over what a job that has ended left.             *)
Swept == proc.pc \in {"idle", "staging"} /\ StagingWork

LEMMA WhileSweeping ==
  ASSUME AttInv, StagingWork
  PROVE  /\ job.state \in {"failed", "expired"} /\ job.staging = "pending"
         /\ \A g \in Gens : A(g).state \notin {"publishing", "ready_candidate"}
         /\ \A g \in Gens : att[g] \in {"none", "retiring", "published", "cleaned"}
         /\ \A g \in Gens : Q(g).state = "writing" => job.state = "failed"
         /\ \A g \in Gens : A(g).state = "published" =>
              g = job.gen /\ (zip # NoReceipt => zip.ino = g)
<1>1. AttemptsInv /\ JobInv /\ RowsInv
  BY DEF AttInv, Resting
<1>2. job.state \in {"failed", "expired"} /\ job.staging = "pending"
  BY DEF StagingWork
<1>3. \A g \in Gens : g # job.gen => att[g] \in {"none", "retiring", "cleaned"}
  BY <1>1, Fields, Numbers DEF AttemptsInv
<1>4. \A g \in Gens : att[g] \in {"none", "retiring", "published", "cleaned"}
  BY <1>1, <1>2, <1>3, Fields DEF JobInv
<1>5. \A g \in Gens : A(g).state \notin {"publishing", "ready_candidate"}
  BY <1>1, <1>4 DEF RowsInv, Left
<1>6. ASSUME NEW g \in Gens, A(g).state = "published"
      PROVE  g = job.gen /\ (zip # NoReceipt => zip.ino = g)
  <2>1. att[g] = "published"
    BY <1>1, <1>4, <1>6 DEF RowsInv, Left
  <2>. QED  BY <1>1, <1>3, <2>1 DEF JobInv
<1>7. ASSUME NEW g \in Gens, Q(g).state = "writing"
      PROVE  job.state = "failed"
  <2>1. att[g] = "retiring"
    BY <1>1, <1>4, <1>7 DEF RowsInv, Left
  <2>2. job.state = "expired" => att[job.gen] \in {"published", "cleaned"}
    BY <1>1 DEF JobInv
  <2>3. job.state # "expired"
    BY <1>1, <2>1, <2>2, Fields, Numbers DEF AttemptsInv
  <2>. QED  BY <1>2, <2>3
<1>. QED  BY <1>2, <1>4, <1>5, <1>6, <1>7

LEMMA OldestIsFirst ==
  ASSUME AttInv, UncleanAttempts # {}
  PROVE  /\ Oldest(UncleanAttempts) \in Gens /\ First(Oldest(UncleanAttempts)) /\ ~Clear
         /\ \A g \in Gens : First(g) => g = Oldest(UncleanAttempts)
<1>1. /\ Oldest(UncleanAttempts) \in UncleanAttempts
      /\ \A h \in UncleanAttempts : Oldest(UncleanAttempts) <= h
  BY OldestIn DEF UncleanAttempts
<1>2. Oldest(UncleanAttempts) \in Gens /\ First(Oldest(UncleanAttempts)) /\ ~Clear
  BY <1>1 DEF UncleanAttempts, First, Clear
<1>. QED  BY <1>1, <1>2, Numbers DEF First, UncleanAttempts

LEMMA NothingFoundKeeps ==
  ASSUME AttInv, NEW g \in Gens, First(g), \A h \in Gens : First(h) => h = g,
         ~Clear, Swept, Goto("staging_row"),
         UNCHANGED <<rows, fs, world, events>>, Left(A(g)) \/ Left(Q(g)),
         Left(A(g)) =>
           \/ A(g).state = "published" /\ zip # NoReceipt
           \/ \A p \in {A(g).path, A(g).intent} \ {NoPath} : disk[p] = NoFile
  PROVE  AttInv'
<1>1. /\ AttemptsInv /\ JobInv /\ RowsInv /\ ArchiveInv /\ QuarantineInv
      /\ DiskInv /\ ArchiveHolds /\ PlaceInv /\ StateAt /\ BuildAt /\ CleanAt
      /\ StagingAt /\ PlaceAt /\ CountInv
  BY DEF AttInv, Resting
<1>2. /\ job' = job /\ zip' = zip /\ included' = included
      /\ allowed' = allowed /\ owner' = owner /\ att' = att /\ rec' = rec
      /\ dirs' = dirs /\ disk' = disk /\ file' = file /\ events' = events
  BY DEF rows, fs, world
<1>3. /\ job.state \in {"failed", "expired"} /\ job.staging = "pending"
      /\ proc.mode # "complete"
      /\ A(g).state \notin {"publishing", "ready_candidate"}
      /\ A(g).state = "published" => (zip # NoReceipt => zip.ino = g)
  BY <1>1, <1>2, Fields, WhileSweeping, IdleMode DEF StateAt, BuildAt,
    Starting, Writing, Verified, Publishing, Replacing, Finishing, Cleaning,
    Swept
<1>4. Moved("staging_row")
  BY Fields, GotoEffect DEF ProgramCounters
<1>5. StateAt'
  BY <1>1, <1>2, <1>3, <1>4, Fields DEF StateAt, Starting, Writing, Verified,
    Publishing, Replacing, Finishing, Cleaning, Working, A, Moved, ProcIs
<1>6. StagingAt'
  BY <1>1, <1>2, <1>3, <1>4, Fields DEF StagingAt, Ending, First, StagingWork,
    Clear, Left, A, Q, Moved, ProcIs
<1>7. PlaceAt'
  BY <1>1, <1>2, <1>3, <1>4, Fields, PathsApart, Numbers DEF PlaceAt, First,
    Left, A, Moved, ProcIs, PlaceInv, DiskInv
<1>8. BuildAt' /\ CleanAt'
  BY <1>4 DEF BuildAt, CleanAt, Starting, Writing, Verified, Publishing,
    Replacing, Cleaning, Moved, ProcIs
<1>9. CountInv'
  <2>1. Debt' <= Debt
    BY <1>1, <1>2, <1>3, <1>4, Fields DEF Debt, Paid, Writing, ActiveStates,
      Moved, ProcIs
  <2>2. Later
    BY <1>2, NoEvent
  <2>. QED  BY <1>1, <1>2, <1>3, <1>4, <2>1, <2>2, CountKeeps
<1>10. Later /\ SameJob /\ SameRows /\ UNCHANGED <<fs, world>> /\ proc' \in Procs
  BY <1>1, <1>2, <1>3, <1>4, NoEvent, SameJobEffect, Fields DEF Counted,
    SameRows, fs, world, Moved, ProcIs
<1>. QED  BY <1>5, <1>8, <1>6, <1>7, <1>9, <1>10, MoveKeeps

LEMMA RemovedKeeps ==
  ASSUME AttInv, NEW g \in Gens, First(g), \A h \in Gens : First(h) => h = g,
         ~Clear, Swept, NEW p \in Paths, Unlink(p), Goto("staging_row"),
         UNCHANGED <<rows, dirs, world, events>>, Left(A(g)) \/ Left(Q(g)),
         Left(A(g)) =>
           \A q \in {A(g).path, A(g).intent} \ {NoPath} : q = p \/ disk[q] = NoFile
  PROVE  AttInv'
<1>1. /\ AttemptsInv /\ JobInv /\ RowsInv /\ ArchiveInv /\ QuarantineInv
      /\ DiskInv /\ ArchiveHolds /\ PlaceInv /\ StateAt /\ BuildAt /\ CleanAt
      /\ StagingAt /\ PlaceAt /\ CountInv
  BY DEF AttInv, Resting
<1>2. /\ job' = job /\ zip' = zip /\ included' = included
      /\ allowed' = allowed /\ owner' = owner /\ att' = att /\ rec' = rec
      /\ dirs' = dirs /\ file' = file /\ events' = events
  BY DEF Unlink, rows, fs, world
<1>3. /\ job.state \in {"failed", "expired"} /\ job.staging = "pending"
      /\ proc.mode # "complete"
      /\ \A h \in Gens : A(h).state \notin {"publishing", "ready_candidate"}
      /\ A(g).state = "published" => (zip # NoReceipt => zip.ino = g)
  BY <1>1, <1>2, Fields, WhileSweeping, IdleMode DEF StateAt, BuildAt,
    Starting, Writing, Verified, Publishing, Replacing, Finishing, Cleaning,
    Swept
<1>4. Moved("staging_row")
  BY Fields, GotoEffect DEF ProgramCounters
<1>5. Removed(p)
  BY Fields, UnlinkEffect
<1>6. \A q \in Paths : disk'[q] \in {NoFile, disk[q]}
  BY <1>5 DEF Removed
<1>7. AttemptsInv'
  BY <1>1, <1>2 DEF AttemptsInv, Live
<1>8. JobInv'
  BY <1>1, <1>2 DEF JobInv, Clear, ActiveStates
<1>9. RowsInv'
  BY <1>1, <1>2 DEF RowsInv, Left, Live, A, Q
<1>10. ArchiveInv'
  BY <1>1, <1>2 DEF ArchiveInv, A
<1>11. QuarantineInv'
  BY <1>1, <1>2 DEF QuarantineInv, A, Q
<1>12. DiskInv'
  BY <1>1, <1>2, <1>3, <1>4, <1>5, <1>6, Fields, Numbers, PathsApart DEF
    DiskInv, A, Q, Moved, ProcIs, Removed
<1>13. ArchiveHolds'
  BY <1>1, <1>2, <1>3, <1>4, <1>5, <1>6, Fields DEF ArchiveHolds,
    CompleteArchiveMatches, Retained, Matches, SameInode, A, Moved, ProcIs,
    Removed
<1>14. PlaceInv'
  BY <1>1, <1>2, <1>3, <1>4, <1>5, <1>6, Fields, Numbers, PathsApart DEF
    PlaceInv, Left, A, Q, Moved, ProcIs, Removed
<1>15. StateAt'
  BY <1>1, <1>2, <1>3, <1>4, <1>5, <1>6, Fields DEF StateAt, Starting, Writing,
    Verified, Publishing, Replacing, Finishing, Cleaning, Working, A, Moved,
    ProcIs, Removed
<1>16. StagingAt'
  BY <1>1, <1>2, <1>3, <1>4, <1>5, <1>6, Fields DEF StagingAt, Ending, First,
    StagingWork, Clear, Left, A, Q, Moved, ProcIs, Removed
<1>17. PlaceAt'
  BY <1>1, <1>2, <1>3, <1>4, <1>5, <1>6, Fields, PathsApart, Numbers DEF
    PlaceAt, First, Left, A, Moved, ProcIs, Removed, PlaceInv, DiskInv
<1>18. BuildAt' /\ CleanAt'
  BY <1>4 DEF BuildAt, CleanAt, Starting, Writing, Verified, Publishing,
    Replacing, Cleaning, Moved, ProcIs
<1>19. CountInv'
  <2>1. Debt' <= Debt
    BY <1>1, <1>2, <1>3, <1>4, <1>5, <1>6, Fields DEF Debt, Paid, Writing,
      ActiveStates, Moved, ProcIs, Removed
  <2>2. Later
    BY <1>2, NoEvent
  <2>. QED  BY <1>1, <1>2, <1>3, <1>4, <1>5, <1>6, <2>1, <2>2, CountKeeps
<1>20. TypeOK'
  BY <1>1, <1>2, <1>3, <1>4, <1>5, <1>6, Fields, Types, TypesNext DEF AttInv,
    Moved, ProcIs, Removed
<1>. QED  BY <1>7, <1>8, <1>9, <1>10, <1>11, <1>12, <1>13, <1>14, <1>15, <1>18,
            <1>16, <1>17, <1>19, <1>20 DEF AttInv, Resting

LEMMA SettledKeeps ==
  ASSUME AttInv, NEW g \in Gens, Swept, Q(g).state = "writing",
         NEW p \in {Ready, Quar(g)},
         SetRow("quarantine", g, [Q(g) EXCEPT !.state = "closed", !.path = p,
                                     !.intent = NoPath,
                                     !.stamp = file[Q(g).ino].ctime]),
         Goto("idle"),
         UNCHANGED <<job, zip, included, att, fs, world, events>>
  PROVE  AttInv'
<1>1. /\ AttemptsInv /\ JobInv /\ RowsInv /\ ArchiveInv /\ QuarantineInv
      /\ DiskInv /\ ArchiveHolds /\ PlaceInv /\ StateAt /\ BuildAt /\ CleanAt
      /\ StagingAt /\ PlaceAt /\ CountInv
  BY DEF AttInv, Resting
<1>2. /\ job' = job /\ zip' = zip /\ included' = included
      /\ allowed' = allowed /\ owner' = owner /\ att' = att /\ dirs' = dirs
      /\ disk' = disk /\ file' = file /\ events' = events
  BY DEF rows, fs, world
<1>3. /\ job.state = "failed" /\ Q(g).ino \in Inodes
      /\ file[Q(g).ino].ctime \in 0..2 /\ Q(g).path = Ready
      /\ proc.pc \in {"idle", "staging"} /\ proc.mode # "complete"
  <2>1. job.state = "failed"
    BY WhileSweeping DEF Swept
  <2>2. Q(g).ino \in Inodes /\ Q(g).path = Ready
    BY <1>1 DEF QuarantineInv
  <2>3. file[Q(g).ino].ctime \in 0..2
    BY <2>2, DiskFields
  <2>. QED  BY <2>1, <2>2, <2>3, IdleMode DEF Swept
<1>4. Moved("idle")
  BY Fields, GotoEffect DEF ProgramCounters
<1>5. RowIs("quarantine", g, "closed", p, NoPath, Q(g).ino, file[Q(g).ino].ctime)
  <2>1. Q(g) \in FileRows
    BY RowFields
  <2>2. [Q(g) EXCEPT !.state = "closed", !.path = p, !.intent = NoPath,
                     !.stamp = file[Q(g).ino].ctime] \in FileRows
    BY <1>3, <2>1, PathsApart DEF FileRows, FileStates, AttemptStates, Stamps
  <2>. QED  BY <2>1, <2>2, Fields, RowEffect DEF Kinds, FileRows
<1>6. AttemptsInv'
  BY <1>1, <1>2 DEF AttemptsInv, Live
<1>7. JobInv'
  BY <1>1, <1>2 DEF JobInv, Clear, ActiveStates
<1>8. RowsInv'
  BY <1>1, <1>2, <1>3, <1>4, <1>5, Fields, WhileSweeping, SMTT(30) DEF RowsInv,
    Left, Live, A, Q, Moved, ProcIs, RowIs, Kinds, Swept
<1>9. ArchiveInv'
  BY <1>1, <1>2, <1>3, <1>4, <1>5, Fields, Numbers, PathsApart DEF ArchiveInv,
    A, Moved, ProcIs, RowIs, Kinds
<1>10. QuarantineInv'
  BY <1>1, <1>2, <1>3, <1>4, <1>5, Fields, Numbers, PathsApart, SMTT(30) DEF
    QuarantineInv, A, Q, Moved, ProcIs, RowIs, Kinds, Open
<1>11. DiskInv'
  BY <1>1, <1>2, <1>3, <1>4, <1>5, Fields, Numbers, PathsApart, SMTT(30) DEF
    DiskInv, A, Q, Moved, ProcIs, RowIs, Kinds
<1>12. ArchiveHolds'
  BY <1>1, <1>2, <1>3, <1>4, <1>5, Fields DEF ArchiveHolds,
    CompleteArchiveMatches, Retained, Matches, SameInode, A, Moved, ProcIs,
    RowIs, Kinds
<1>13. PlaceInv'
  BY <1>1, <1>2, <1>3, <1>4, <1>5, Fields, Numbers, PathsApart, SMTT(30) DEF
    PlaceInv, Left, A, Q, Moved, ProcIs, RowIs, Kinds
<1>14. StateAt' /\ BuildAt' /\ CleanAt' /\ StagingAt' /\ PlaceAt'
  BY <1>3, <1>4, NowhereAt DEF Moved, ProcIs
<1>15. CountInv'
  <2>1. Debt' <= Debt
    BY <1>1, <1>2, <1>3, <1>4, <1>5, Fields DEF Debt, Paid, Writing,
      ActiveStates, Moved, ProcIs, RowIs, Kinds
  <2>2. Later
    BY <1>2, NoEvent
  <2>. QED  BY <1>1, <1>2, <1>3, <1>4, <1>5, <2>1, <2>2, CountKeeps
<1>16. TypeOK'
  BY <1>1, <1>2, <1>3, <1>4, <1>5, Fields, Types, TypesNext DEF AttInv, Moved,
    ProcIs, RowIs, Kinds
<1>. QED  BY <1>6, <1>7, <1>8, <1>9, <1>10, <1>11, <1>12, <1>13, <1>14, <1>15,
            <1>16 DEF AttInv, Resting

LEMMA SweepDirectoryKeeps ==
  ASSUME AttInv, NEW g \in Gens, First(g), \A h \in Gens : First(h) => h = g,
         ~Clear, Swept, CleanableDirectory(g), RemoveDirectory(g),
         Goto("staging_attempt"), UNCHANGED <<rows, world, events>>,
         ~Left(A(g)) /\ ~Left(Q(g))
  PROVE  AttInv'
<1>1. /\ AttemptsInv /\ JobInv /\ RowsInv /\ ArchiveInv /\ QuarantineInv
      /\ DiskInv /\ ArchiveHolds /\ PlaceInv /\ StateAt /\ BuildAt /\ CleanAt
      /\ StagingAt /\ PlaceAt /\ CountInv
  BY DEF AttInv, Resting
<1>2. /\ job' = job /\ zip' = zip /\ included' = included
      /\ allowed' = allowed /\ owner' = owner /\ att' = att /\ rec' = rec
      /\ disk' = disk /\ file' = file /\ events' = events
  BY DEF RemoveDirectory, rows, fs, world
<1>3. /\ job.state \in {"failed", "expired"} /\ job.staging = "pending"
      /\ proc.mode # "complete"
      /\ \A h \in Gens : att[h] \in {"none", "retiring", "published", "cleaned"}
      /\ dirs' = dirs \ {g}
      /\ disk[Part(g)] = NoFile /\ disk[Quar(g)] = NoFile
  BY <1>1, <1>2, Fields, WhileSweeping, IdleMode DEF StateAt, BuildAt,
    Starting, Writing, Verified, Publishing, Replacing, Finishing, Cleaning,
    Swept, RemoveDirectory, CleanableDirectory, Empty, DiskInv
<1>4. Moved("staging_attempt")
  BY Fields, GotoEffect DEF ProgramCounters
<1>5. AttemptsInv'
  BY <1>1, <1>2, <1>3, <1>4, Fields DEF AttemptsInv, Live, Moved, ProcIs
<1>6. JobInv'
  BY <1>1, <1>2 DEF JobInv, Clear, ActiveStates
<1>7. RowsInv'
  BY <1>1, <1>2 DEF RowsInv, Left, Live, A, Q
<1>8. ArchiveInv'
  BY <1>1, <1>2 DEF ArchiveInv, A
<1>9. QuarantineInv'
  BY <1>1, <1>2 DEF QuarantineInv, A, Q
<1>10. DiskInv'
  BY <1>1, <1>2, <1>3, <1>4, Fields, Numbers, PathsApart DEF DiskInv, A, Q,
    Moved, ProcIs
<1>11. ArchiveHolds'
  BY <1>1, <1>2 DEF ArchiveHolds, CompleteArchiveMatches, Retained, Matches,
    SameInode, A
<1>12. PlaceInv'
  BY <1>1, <1>2 DEF PlaceInv, Left, A, Q
<1>13. StateAt'
  BY <1>1, <1>2, <1>3, <1>4, Fields DEF StateAt, Starting, Writing, Verified,
    Publishing, Replacing, Finishing, Cleaning, Working, A, Moved, ProcIs
<1>14. StagingAt'
  BY <1>1, <1>2, <1>3, <1>4, Fields DEF StagingAt, Ending, First, StagingWork,
    Clear, Left, A, Q, Moved, ProcIs
<1>15. BuildAt' /\ CleanAt' /\ PlaceAt'
  BY <1>4 DEF BuildAt, CleanAt, PlaceAt, Starting, Writing, Verified,
    Publishing, Replacing, Cleaning, Moved, ProcIs
<1>16. CountInv'
  <2>1. Debt' <= Debt
    BY <1>1, <1>2, <1>3, <1>4, Fields DEF Debt, Paid, Writing, ActiveStates,
      Moved, ProcIs
  <2>2. Later
    BY <1>2, NoEvent
  <2>. QED  BY <1>1, <1>2, <1>3, <1>4, <2>1, <2>2, CountKeeps
<1>17. TypeOK'
  BY <1>1, <1>2, <1>3, <1>4, Fields, Types, TypesNext DEF AttInv, Moved, ProcIs
<1>. QED  BY <1>5, <1>6, <1>7, <1>8, <1>9, <1>10, <1>11, <1>12, <1>13, <1>15,
            <1>14, <1>16, <1>17 DEF AttInv, Resting

LEMMA BlockedKeeps ==
  ASSUME AttInv, Swept, Blocked, UNCHANGED events
  PROVE  AttInv'
<1>1. /\ AttemptsInv /\ JobInv /\ RowsInv /\ ArchiveInv /\ QuarantineInv
      /\ DiskInv /\ ArchiveHolds /\ PlaceInv /\ StateAt /\ BuildAt /\ CleanAt
      /\ StagingAt /\ PlaceAt /\ CountInv
  BY DEF AttInv, Resting
<1>2. /\ zip' = zip /\ included' = included /\ allowed' = allowed
      /\ owner' = owner /\ att' = att /\ rec' = rec /\ dirs' = dirs
      /\ disk' = disk /\ file' = file /\ events' = events
  BY DEF Blocked, rows, fs, world
<1>3. /\ job.state \in {"failed", "expired"} /\ proc.mode # "complete"
  BY <1>1, <1>2, Fields, WhileSweeping, IdleMode DEF StateAt, BuildAt,
    Starting, Writing, Verified, Publishing, Replacing, Finishing, Cleaning,
    Swept
<1>4. Moved("idle")
  BY Fields, GotoEffect DEF Blocked, ProgramCounters
<1>5. JobIs(job.state, job.gen, "blocked", job.ready)
  BY Fields DEF Blocked, JobIs, Jobs, Stagings
<1>6. AttemptsInv'
  BY <1>1, <1>2, <1>3, <1>4, <1>5, Fields DEF AttemptsInv, Live, JobIs, Moved,
    ProcIs
<1>7. JobInv'
  BY <1>1, <1>2, <1>3, <1>4, <1>5, Fields DEF JobInv, Clear, ActiveStates,
    JobIs, Moved, ProcIs
<1>8. RowsInv'
  BY <1>1, <1>2 DEF RowsInv, Left, Live, A, Q
<1>9. ArchiveInv'
  BY <1>1, <1>2 DEF ArchiveInv, A
<1>10. QuarantineInv'
  BY <1>1, <1>2, <1>3, <1>4, <1>5, Fields, Numbers, PathsApart DEF
    QuarantineInv, A, Q, JobIs, Moved, ProcIs
<1>11. DiskInv'
  BY <1>1, <1>2 DEF DiskInv, A, Q
<1>12. ArchiveHolds'
  BY <1>1, <1>2, <1>3, <1>4, <1>5, Fields DEF ArchiveHolds,
    CompleteArchiveMatches, Retained, Matches, SameInode, A, JobIs, Moved,
    ProcIs
<1>13. PlaceInv'
  BY <1>1, <1>2, <1>3, <1>4, <1>5, Fields, Numbers, PathsApart DEF PlaceInv,
    Left, A, Q, JobIs, Moved, ProcIs
<1>14. StateAt' /\ BuildAt' /\ CleanAt' /\ StagingAt' /\ PlaceAt'
  BY <1>3, <1>4, NowhereAt DEF Moved, ProcIs
<1>15. CountInv'
  <2>1. Debt' <= Debt
    BY <1>1, <1>2, <1>3, <1>4, <1>5, Fields DEF Debt, Paid, Writing,
      ActiveStates, JobIs, Moved, ProcIs
  <2>2. Later
    BY <1>2, NoEvent
  <2>. QED  BY <1>1, <1>2, <1>3, <1>4, <1>5, <2>1, <2>2, CountKeeps DEF JobIs
<1>16. TypeOK'
  BY <1>1, <1>2, <1>3, <1>4, <1>5, Fields, Types, TypesNext DEF AttInv, JobIs,
    Moved, ProcIs
<1>. QED  BY <1>6, <1>7, <1>8, <1>9, <1>10, <1>11, <1>12, <1>13, <1>14, <1>15,
            <1>16 DEF AttInv, Resting

LEMMA StagingCleanedKeeps ==
  ASSUME AttInv, StagingCleaned
  PROVE  AttInv'
<1>1. /\ AttemptsInv /\ JobInv /\ RowsInv /\ ArchiveInv /\ QuarantineInv
      /\ DiskInv /\ ArchiveHolds /\ PlaceInv /\ StateAt /\ BuildAt /\ CleanAt
      /\ StagingAt /\ PlaceAt /\ CountInv
  BY DEF AttInv, Resting
<1>2. /\ zip' = zip /\ included' = included /\ allowed' = allowed
      /\ owner' = owner /\ att' = att /\ rec' = rec /\ dirs' = dirs
      /\ disk' = disk /\ file' = file /\ events' = events
  BY DEF StagingCleaned, rows, fs, world
<1>3. /\ job.state \in {"failed", "expired"} /\ proc.mode # "complete"
      /\ Clear
  BY <1>1, <1>2, Fields, WhileSweeping, IdleMode DEF StateAt, BuildAt,
    Starting, Writing, Verified, Publishing, Replacing, Finishing, Cleaning,
    StagingCleaned, StagingStep, StagingTurn, At, Clear, UncleanAttempts
<1>4. Moved("idle")
  BY Fields, GotoEffect DEF StagingCleaned, ProgramCounters
<1>5. JobIs(job.state, job.gen, "cleaned", job.ready)
  BY Fields DEF StagingCleaned, JobIs, Jobs, Stagings
<1>6. AttemptsInv'
  BY <1>1, <1>2, <1>3, <1>4, <1>5, Fields DEF AttemptsInv, Live, JobIs, Moved,
    ProcIs
<1>7. JobInv'
  BY <1>1, <1>2, <1>3, <1>4, <1>5, Fields DEF JobInv, Clear, ActiveStates,
    JobIs, Moved, ProcIs
<1>8. RowsInv'
  BY <1>1, <1>2 DEF RowsInv, Left, Live, A, Q
<1>9. ArchiveInv'
  BY <1>1, <1>2 DEF ArchiveInv, A
<1>10. QuarantineInv'
  BY <1>1, <1>2, <1>3, <1>4, <1>5, Fields, Numbers, PathsApart DEF
    QuarantineInv, A, Q, JobIs, Moved, ProcIs
<1>11. DiskInv'
  BY <1>1, <1>2 DEF DiskInv, A, Q
<1>12. ArchiveHolds'
  BY <1>1, <1>2, <1>3, <1>4, <1>5, Fields DEF ArchiveHolds,
    CompleteArchiveMatches, Retained, Matches, SameInode, A, JobIs, Moved,
    ProcIs
<1>13. PlaceInv'
  BY <1>1, <1>2, <1>3, <1>4, <1>5, Fields, Numbers, PathsApart DEF PlaceInv,
    Left, A, Q, JobIs, Moved, ProcIs
<1>14. StateAt' /\ BuildAt' /\ CleanAt' /\ StagingAt' /\ PlaceAt'
  BY <1>3, <1>4, NowhereAt DEF Moved, ProcIs
<1>15. CountInv'
  <2>1. Debt' <= Debt
    BY <1>1, <1>2, <1>3, <1>4, <1>5, Fields DEF Debt, Paid, Writing,
      ActiveStates, JobIs, Moved, ProcIs
  <2>2. Later
    BY <1>2, NoEvent
  <2>. QED  BY <1>1, <1>2, <1>3, <1>4, <1>5, <2>1, <2>2, CountKeeps DEF JobIs
<1>16. TypeOK'
  BY <1>1, <1>2, <1>3, <1>4, <1>5, Fields, Types, TypesNext DEF AttInv, JobIs,
    Moved, ProcIs
<1>. QED  BY <1>6, <1>7, <1>8, <1>9, <1>10, <1>11, <1>12, <1>13, <1>14, <1>15,
            <1>16 DEF AttInv, Resting

LEMMA TerminalCleanupKeeps ==
  ASSUME AttInv, TerminalCleanup
  PROVE  AttInv'
<1>. DEFINE g == Oldest(UncleanAttempts)
            k == FirstKind(g)
            r == rec[k][g]
<1>1. Swept /\ UncleanAttempts # {} /\ UNCHANGED events
  BY DEF TerminalCleanup, Swept, StagingStep, StagingTurn, At
<1>2. /\ g \in Gens /\ First(g) /\ ~Clear
      /\ \A h \in Gens : First(h) => h = g
  BY <1>1, OldestIsFirst
<1>3. /\ UncleanKinds(g) # {} <=> Left(A(g)) \/ Left(Q(g))
      /\ k = "archive" <=> Left(A(g))
      /\ k \in Kinds
  BY DEF UncleanKinds, FirstKind, Kinds, Left, A, Q
<1>4. Left(A(g)) => r = A(g)
  BY <1>3 DEF A
<1>5. ~Left(A(g)) => r = Q(g) /\ k = "quarantine"
  BY <1>3 DEF Q, Kinds
<1>6. /\ DiskInv /\ QuarantineInv
      /\ r.path \in Paths \cup {NoPath} /\ r.intent \in Paths \cup {NoPath}
  BY <1>2, <1>4, <1>5, RowFields DEF AttInv, Resting
<1>7. Found(r) \subseteq Named(r) /\ Named(r) \subseteq Paths
  BY <1>6 DEF Found, Named
<1>8. /\ Cardinality(Found(r)) = 1 => Found(r) # {}
      /\ Strangers(r) = {} /\ Found(r) = {} => \A p \in Named(r) : disk[p] = NoFile
      /\ Strangers(r) = {} =>
           \A p \in Found(r) : \A q \in Named(r) : q = p \/ disk[q] = NoFile
  <2>1. Cardinality(Found(r)) = 1 => Found(r) # {}
    BY FS_EmptySet
  <2>2. Strangers(r) = {} =>
          \A p \in Named(r) : disk[p] = NoFile \/ Matches(disk[p], r)
    BY DEF Strangers
  <2>3. \A p \in Found(r) : disk[p] = r.ino /\ disk[p] # NoFile
    BY DEF Found, Matches, SameInode
  <2>4. \A p \in Named(r) : Matches(disk[p], r) => p \in Found(r)
    BY DEF Found
  <2>. QED  BY <1>6, <1>7, <2>1, <2>2, <2>3, <2>4 DEF DiskInv
<1>9. CASE Blocked
  BY <1>1, <1>9, BlockedKeeps
<1>10. CASE /\ k = "quarantine" /\ UncleanKinds(g) # {} /\ r.state = "writing"
            /\ Cardinality(Found(r)) = 1
            /\ SetRow(k, g, [r EXCEPT !.state = "closed",
                              !.path = CHOOSE p \in Found(r) : TRUE,
                              !.intent = NoPath, !.stamp = file[r.ino].ctime])
            /\ Goto("idle")
            /\ UNCHANGED <<job, zip, included, att, fs, world>>
  <2>1. r = Q(g)
    BY <1>4, <1>5, <1>3, <1>10
  <2>2. Named(r) \subseteq {Ready, Quar(g)}
    BY <1>2, <1>6, <1>10, <2>1 DEF QuarantineInv, Named
  <2>3. PICK p \in Found(r) : p = CHOOSE q \in Found(r) : TRUE
    BY <1>8, <1>10
  <2>4. p \in {Ready, Quar(g)}
    BY <1>7, <2>2, <2>3
  <2>. HIDE DEF g, k, r
  <2>. QED  BY <1>1, <1>2, <1>10, <2>1, <2>3, <2>4, SettledKeeps
<1>11. CASE /\ UncleanKinds(g) # {} /\ Goto("staging_row") /\ UNCHANGED <<rows, fs, world>>
            /\ HandedOver(r) \/ (Strangers(r) = {} /\ Found(r) = {})
  <2>1. Left(A(g)) => \/ A(g).state = "published" /\ zip # NoReceipt
                      \/ \A p \in {A(g).path, A(g).intent} \ {NoPath} : disk[p] = NoFile
    BY <1>4, <1>8, <1>11 DEF HandedOver, Named
  <2>. HIDE DEF g, k, r
  <2>. QED  BY <1>1, <1>2, <1>3, <1>11, <2>1, NothingFoundKeeps
<1>12. CASE /\ UncleanKinds(g) # {} /\ Strangers(r) = {} /\ Cardinality(Found(r)) = 1
            /\ Unlink(CHOOSE p \in Found(r) : TRUE)
            /\ Goto("staging_row") /\ UNCHANGED <<rows, dirs, world>>
  <2>1. PICK p \in Found(r) : p = CHOOSE q \in Found(r) : TRUE
    BY <1>8, <1>12
  <2>2. Left(A(g)) =>
          \A q \in {A(g).path, A(g).intent} \ {NoPath} : q = p \/ disk[q] = NoFile
    BY <1>4, <1>8, <1>12, <2>1 DEF Named
  <2>3. p \in Paths
    BY <1>7, <2>1
  <2>. HIDE DEF g, k, r
  <2>. QED  BY <1>1, <1>2, <1>3, <1>12, <2>1, <2>2, <2>3, RemovedKeeps
<1>13. CASE /\ UncleanKinds(g) = {} /\ CleanableDirectory(g) /\ RemoveDirectory(g)
            /\ Goto("staging_attempt") /\ UNCHANGED <<rows, world>>
  <2>. HIDE DEF g, k, r
  <2>. QED  BY <1>1, <1>2, <1>3, <1>13, SweepDirectoryKeeps
<1>. QED  BY <1>9, <1>10, <1>11, <1>12, <1>13 DEF TerminalCleanup

LEMMA SweptRowKeeps ==
  ASSUME AttInv, NEW g \in Gens, First(g), At("staging_row"), NEW k \in Kinds,
         k = FirstKind(g), SetRow(k, g, Cleaned(rec[k][g])), Goto("idle"),
         UNCHANGED <<job, zip, included, att, fs, world, events>>
  PROVE  AttInv'
<1>1. /\ AttemptsInv /\ JobInv /\ RowsInv /\ ArchiveInv /\ QuarantineInv
      /\ DiskInv /\ ArchiveHolds /\ PlaceInv /\ StateAt /\ BuildAt /\ CleanAt
      /\ StagingAt /\ PlaceAt /\ CountInv
  BY DEF AttInv, Resting
<1>2. /\ proc.pc = "staging_row" /\ job' = job /\ zip' = zip
      /\ included' = included /\ allowed' = allowed /\ owner' = owner
      /\ att' = att /\ dirs' = dirs /\ disk' = disk /\ file' = file
      /\ events' = events
  BY DEF At, rows, fs, world
<1>3. /\ job.state \in {"failed", "expired"} /\ proc.mode # "complete"
      /\ \A h \in Gens : A(h).state \notin {"publishing", "ready_candidate"}
      /\ Left(A(g)) \/ Left(Q(g))
      /\ att[g] \in {"retiring", "published"}
  BY <1>1, <1>2, Fields, WhileSweeping, IdleMode DEF StateAt, BuildAt,
    Starting, Writing, Verified, Publishing, Replacing, Finishing, Cleaning,
    StagingAt, Ending, First
<1>4. zip.ino = g /\ Left(A(g)) => A(g).path = Ready
  <2>1. zip.ino = g => g = job.gen /\ job.state = "expired"
    BY <1>1, <1>3, Fields, Numbers DEF JobInv, NoReceipt, ActiveStates
  <2>2. job.state = "expired" => att[job.gen] \in {"published", "cleaned"}
    BY <1>1 DEF JobInv
  <2>. QED  BY <1>1, <2>1, <2>2, Fields DEF RowsInv, ArchiveInv, Left
<1>5. Moved("idle")
  BY Fields, GotoEffect DEF ProgramCounters
<1>6. \/ /\ Left(A(g))
         /\ RowIs("archive", g, "cleaned", A(g).path, NoPath, A(g).ino, A(g).stamp)
      \/ /\ ~Left(A(g)) /\ Left(Q(g))
         /\ RowIs("quarantine", g, "cleaned", Q(g).path, NoPath, Q(g).ino, Q(g).stamp)
  <2>1. \A r \in FileRows : /\ Cleaned(r) \in FileRows /\ Cleaned(r).state = "cleaned"
                            /\ Cleaned(r).path = r.path /\ Cleaned(r).intent = NoPath
                            /\ Cleaned(r).ino = r.ino /\ Cleaned(r).stamp = r.stamp
    BY DEF Cleaned, FileRows, FileStates, AttemptStates
  <2>2. A(g) \in FileRows /\ Q(g) \in FileRows
    BY RowFields
  <2>3. CASE Left(A(g))
    <3>1. k = "archive" /\ rec[k][g] = A(g)
      BY <2>3 DEF FirstKind, UncleanKinds, Kinds, Left, A
    <3>. QED  BY <2>1, <2>2, <2>3, <3>1, Fields, RowEffect DEF Kinds
  <2>4. CASE ~Left(A(g))
    <3>1. k = "quarantine" /\ rec[k][g] = Q(g)
      BY <2>4 DEF FirstKind, UncleanKinds, Kinds, Left, A, Q
    <3>. QED  BY <1>3, <2>1, <2>2, <2>4, <3>1, Fields, RowEffect DEF Kinds
  <2>. QED  BY <2>3, <2>4
<1>7. AttemptsInv'
  BY <1>1, <1>2 DEF AttemptsInv, Live
<1>8. JobInv'
  BY <1>1, <1>2 DEF JobInv, Clear, ActiveStates
<1>9. RowsInv'
  BY <1>1, <1>2, <1>3, <1>4, <1>5, <1>6, Fields DEF RowsInv, Left, Live, A, Q,
    Moved, ProcIs, RowIs, Kinds
<1>10. ArchiveInv'
  BY <1>1, <1>2, <1>3, <1>4, <1>5, <1>6, Fields, Numbers, PathsApart DEF
    ArchiveInv, A, Moved, ProcIs, RowIs, Kinds, Left
<1>11. QuarantineInv'
  BY <1>1, <1>2, <1>3, <1>4, <1>5, <1>6, Fields, Numbers, PathsApart DEF
    QuarantineInv, A, Q, Moved, ProcIs, RowIs, Kinds, Left
<1>12. DiskInv'
  BY <1>1, <1>2, <1>3, <1>4, <1>5, <1>6, Fields, Numbers, PathsApart DEF
    DiskInv, A, Q, Moved, ProcIs, RowIs, Kinds
<1>13. ArchiveHolds'
  BY <1>1, <1>2, <1>3, <1>4, <1>5, <1>6, Fields DEF ArchiveHolds,
    CompleteArchiveMatches, Retained, Matches, SameInode, A, Moved, ProcIs,
    RowIs, Kinds
<1>14. PlaceInv'
  BY <1>1, <1>2, <1>3, <1>4, <1>5, <1>6, Fields, Numbers, PathsApart DEF
    PlaceInv, Left, A, Q, Moved, ProcIs, RowIs, Kinds, PlaceAt
<1>15. StateAt' /\ BuildAt' /\ CleanAt' /\ StagingAt' /\ PlaceAt'
  BY <1>3, <1>5, NowhereAt DEF Moved, ProcIs
<1>16. CountInv'
  <2>1. Debt' <= Debt
    BY <1>1, <1>2, <1>3, <1>4, <1>5, <1>6, Fields DEF Debt, Paid, Writing,
      ActiveStates, Moved, ProcIs, RowIs, Kinds
  <2>2. Later
    BY <1>2, NoEvent
  <2>. QED  BY <1>1, <1>2, <1>3, <1>4, <1>5, <1>6, <2>1, <2>2, CountKeeps
<1>17. TypeOK'
  BY <1>1, <1>2, <1>3, <1>4, <1>5, <1>6, Fields, Types, TypesNext DEF AttInv,
    Moved, ProcIs, RowIs, Kinds
<1>. QED  BY <1>7, <1>8, <1>9, <1>10, <1>11, <1>12, <1>13, <1>14, <1>15, <1>16,
            <1>17 DEF AttInv, Resting

LEMMA SweptAttemptKeeps ==
  ASSUME AttInv, NEW g \in Gens, First(g), At("staging_attempt"),
         att' = [att EXCEPT ![g] = "cleaned"], Goto("idle"),
         UNCHANGED <<job, zip, included, rec, fs, world, events>>
  PROVE  AttInv'
<1>1. /\ AttemptsInv /\ JobInv /\ RowsInv /\ ArchiveInv /\ QuarantineInv
      /\ DiskInv /\ ArchiveHolds /\ PlaceInv /\ StateAt /\ BuildAt /\ CleanAt
      /\ StagingAt /\ PlaceAt /\ CountInv
  BY DEF AttInv, Resting
<1>2. /\ proc.pc = "staging_attempt" /\ job' = job /\ zip' = zip
      /\ included' = included /\ allowed' = allowed /\ owner' = owner
      /\ rec' = rec /\ dirs' = dirs /\ disk' = disk /\ file' = file
      /\ events' = events
  BY DEF At, rows, fs, world
<1>3. /\ job.state \in {"failed", "expired"} /\ proc.mode # "complete"
      /\ \A h \in Gens : A(h).state \notin {"publishing", "ready_candidate"}
      /\ ~Left(A(g)) /\ ~Left(Q(g)) /\ g \notin dirs
      /\ att[g] \in {"retiring", "published"}
  BY <1>1, <1>2, Fields, WhileSweeping, IdleMode DEF StateAt, BuildAt,
    Starting, Writing, Verified, Publishing, Replacing, Finishing, Cleaning,
    StagingAt, Ending, First
<1>4. Moved("idle")
  BY Fields, GotoEffect DEF ProgramCounters
<1>5. AttIs(g, "cleaned")
  BY Fields, AttEffect DEF AttemptStates
<1>6. AttemptsInv'
  BY <1>1, <1>2, <1>3, <1>4, <1>5, Fields DEF AttemptsInv, Live, Moved, ProcIs,
    AttIs
<1>7. JobInv'
  BY <1>1, <1>2, <1>3, <1>4, <1>5, Fields DEF JobInv, Clear, ActiveStates,
    Moved, ProcIs, AttIs
<1>8. RowsInv'
  BY <1>1, <1>2, <1>3, <1>4, <1>5, Fields DEF RowsInv, Left, Live, A, Q, Moved,
    ProcIs, AttIs
<1>9. ArchiveInv'
  BY <1>1, <1>2 DEF ArchiveInv, A
<1>10. QuarantineInv'
  BY <1>1, <1>2 DEF QuarantineInv, A, Q
<1>11. DiskInv'
  BY <1>1, <1>2, <1>3, <1>4, <1>5, Fields, Numbers, PathsApart DEF DiskInv, A,
    Q, Moved, ProcIs, AttIs
<1>12. ArchiveHolds'
  BY <1>1, <1>2, <1>3, <1>4, <1>5, Fields DEF ArchiveHolds,
    CompleteArchiveMatches, Retained, Matches, SameInode, A, Moved, ProcIs,
    AttIs
<1>13. PlaceInv'
  BY <1>1, <1>2, <1>3, <1>4, <1>5, Fields, Numbers, PathsApart DEF PlaceInv,
    Left, A, Q, Moved, ProcIs, AttIs, DiskInv
<1>14. StateAt' /\ BuildAt' /\ CleanAt' /\ StagingAt' /\ PlaceAt'
  BY <1>3, <1>4, NowhereAt DEF Moved, ProcIs
<1>15. CountInv'
  <2>1. Debt' <= Debt
    BY <1>1, <1>2, <1>3, <1>4, <1>5, Fields DEF Debt, Paid, Writing,
      ActiveStates, Moved, ProcIs, AttIs
  <2>2. Later
    BY <1>2, NoEvent
  <2>. QED  BY <1>1, <1>2, <1>3, <1>4, <1>5, <2>1, <2>2, CountKeeps
<1>16. TypeOK'
  BY <1>1, <1>2, <1>3, <1>4, <1>5, Fields, Types, TypesNext DEF AttInv, Moved,
    ProcIs, AttIs
<1>. QED  BY <1>6, <1>7, <1>8, <1>9, <1>10, <1>11, <1>12, <1>13, <1>14, <1>15,
            <1>16 DEF AttInv, Resting

LEMMA TerminalRowKeeps ==
  ASSUME AttInv, TerminalRow
  PROVE  AttInv'
<1>. DEFINE g == Oldest(UncleanAttempts)
            k == FirstKind(g)
<1>1. proc.pc \in Ending
  BY DEF TerminalRow, At, Ending
<1>2. UncleanAttempts # {}
  BY <1>1, Fields DEF AttInv, StagingAt, Clear, UncleanAttempts
<1>3. g \in Gens /\ First(g)
  BY <1>2, OldestIsFirst
<1>4. k \in Kinds
  BY DEF FirstKind, Kinds
<1>5. CASE At("staging_row") /\ SetRow(k, g, Cleaned(rec[k][g])) /\ UNCHANGED att
  <2>1. Goto("idle") /\ UNCHANGED <<job, zip, included, fs, world, events>>
    BY DEF TerminalRow
  <2>2. k = FirstKind(g)
    OBVIOUS
  <2>. HIDE DEF g, k
  <2>. QED  BY <1>3, <1>4, <1>5, <2>1, <2>2, SweptRowKeeps
<1>6. CASE /\ At("staging_attempt") /\ att' = [att EXCEPT ![g] = "cleaned"]
           /\ UNCHANGED rec
  <2>1. Goto("idle") /\ UNCHANGED <<job, zip, included, fs, world, events>>
    BY DEF TerminalRow
  <2>. HIDE DEF g, k
  <2>. QED  BY <1>3, <1>6, <2>1, SweptAttemptKeeps
<1>. QED  BY <1>5, <1>6 DEF TerminalRow

-----------------------------------------------------------------------------
(* What happens around the worker. *)

LEMMA SomeEvent ==
  ASSUME AttInv, NEW kind, Event(kind)
  PROVE  /\ Counted /\ Later
         /\ kind \in {"capture", "damage"} => events'.worst = "unread"
<1>1. kind \in FaultKinds
  BY AttemptsAssumption DEF Event
<1>. QED  BY <1>1, EventEffect DEF Counted

LEMMA RevokeKeeps ==
  ASSUME AttInv, NEW i \in Items, Revoke(i)
  PROVE  AttInv'
<1>1. /\ AttemptsInv /\ JobInv /\ RowsInv /\ ArchiveInv /\ QuarantineInv
      /\ DiskInv /\ ArchiveHolds /\ PlaceInv /\ StateAt /\ BuildAt /\ CleanAt
      /\ StagingAt /\ PlaceAt /\ CountInv
  BY DEF AttInv, Resting
<1>2. /\ job' = job /\ zip' = zip /\ included' = included /\ owner' = owner
      /\ att' = att /\ rec' = rec /\ dirs' = dirs /\ disk' = disk
      /\ file' = file
  BY DEF Revoke, rows, fs, world
<1>3. proc' = proc /\ proc' \in Procs
  BY Fields DEF Revoke
<1>4. Counted /\ Later
  BY SomeEvent DEF Revoke
<1>5. allowed' = allowed \ {i} /\ allowed' \subseteq Items
  BY Fields, Types DEF Revoke, AttInv
<1>6. AttemptsInv'
  BY <1>1, <1>2 DEF AttemptsInv, Live
<1>7. JobInv'
  BY <1>1, <1>2 DEF JobInv, Clear, ActiveStates
<1>8. RowsInv'
  BY <1>1, <1>2 DEF RowsInv, Left, Live, A, Q
<1>9. ArchiveInv'
  BY <1>1, <1>2 DEF ArchiveInv, A
<1>10. QuarantineInv'
  BY <1>1, <1>2 DEF QuarantineInv, A, Q
<1>11. DiskInv'
  BY <1>1, <1>2 DEF DiskInv, A, Q
<1>12. ArchiveHolds'
  BY <1>1, <1>2 DEF ArchiveHolds, CompleteArchiveMatches, Retained, Matches,
    SameInode, A
<1>13. PlaceInv'
  BY <1>1, <1>2, <1>3, <1>4, <1>5, Fields, Numbers, PathsApart DEF PlaceInv,
    Left, A, Q, Later, Counted
<1>14. StateAt'
  BY <1>1, <1>2, <1>3, <1>4, <1>5, Fields DEF StateAt, Starting, Writing,
    Verified, Publishing, Replacing, Finishing, Cleaning, Working, A, Later,
    Counted
<1>15. BuildAt'
  BY <1>1, <1>2, <1>3, <1>4, <1>5, Fields DEF BuildAt, Starting, Writing,
    Verified, Publishing, Replacing, A, Q, Later, Counted
<1>16. CleanAt'
  BY <1>1, <1>2, <1>3, <1>4, <1>5, Fields DEF CleanAt, Cleaning, Left, A, Q,
    Later, Counted
<1>17. StagingAt'
  BY <1>1, <1>2, <1>3, <1>4, <1>5, Fields DEF StagingAt, Ending, First,
    StagingWork, Clear, Left, A, Q, Later, Counted
<1>18. PlaceAt'
  BY <1>1, <1>2, <1>3, <1>4, <1>5, Fields DEF PlaceAt, First, Left, A, Later,
    Counted
<1>19. CountInv'
  <2>1. Debt' = Debt
    BY <1>2, <1>3 DEF Debt, Paid
  <2>2. Cardinality((included \ allowed)') <= Cardinality(included \ allowed) + 1
    <3>1. /\ IsFiniteSet((included \ allowed) \cup {i})
          /\ Cardinality((included \ allowed) \cup {i}) <= Cardinality(included \ allowed) + 1
      <4>. DEFINE S == included \ allowed
      <4>1. IsFiniteSet(S) /\ Cardinality(S) \in Nat
        BY CostIsNat
      <4>. HIDE DEF S
      <4>2. /\ IsFiniteSet(S \cup {i})
            /\ Cardinality(S \cup {i}) = IF i \in S THEN Cardinality(S) ELSE Cardinality(S) + 1
        BY <4>1, FS_AddElement
      <4>3. Cardinality(S \cup {i}) <= Cardinality(S) + 1
        BY <4>1, <4>2
      <4>. QED  BY <4>2, <4>3 DEF S
    <3>2. (included \ allowed)' \subseteq (included \ allowed) \cup {i}
      BY <1>2, <1>5
    <3>3. /\ IsFiniteSet((included \ allowed)')
          /\ Cardinality((included \ allowed)') \in Nat
          /\ Cardinality((included \ allowed)') <= Cardinality((included \ allowed) \cup {i})
      BY <3>1, <3>2, FS_Subset, FS_CardinalityType
    <3>. QED  BY <3>1, <3>3, CostIsNat, FS_CardinalityType
  <2>3. Cardinality((included \ allowed)') \in Nat
    BY <1>2, CostIsNat, FS_Subset, FS_CardinalityType
  <2>. QED  BY <1>1, <1>2, <1>4, <2>1, <2>2, <2>3, CostIsNat, Fields
            DEF CountInv, Counted, Later
<1>20. TypeOK'
  BY <1>1, <1>2, <1>3, <1>4, <1>5, Fields, Types, TypesNext DEF AttInv, Later,
    Counted
<1>. QED  BY <1>6, <1>7, <1>8, <1>9, <1>10, <1>11, <1>12, <1>13, <1>14, <1>15,
            <1>16, <1>17, <1>18, <1>19, <1>20 DEF AttInv, Resting

LEMMA DeleteOwnerKeeps ==
  ASSUME AttInv, DeleteOwner
  PROVE  AttInv'
<1>1. /\ AttemptsInv /\ JobInv /\ RowsInv /\ ArchiveInv /\ QuarantineInv
      /\ DiskInv /\ ArchiveHolds /\ PlaceInv /\ StateAt /\ BuildAt /\ CleanAt
      /\ StagingAt /\ PlaceAt /\ CountInv
  BY DEF AttInv, Resting
<1>2. /\ job' = job /\ zip' = zip /\ included' = included
      /\ allowed' = allowed /\ att' = att /\ rec' = rec /\ dirs' = dirs
      /\ disk' = disk /\ file' = file
  BY DEF DeleteOwner, rows, fs, world
<1>3. proc' = proc /\ proc' \in Procs
  BY Fields DEF DeleteOwner
<1>4. Counted /\ Later
  BY SomeEvent DEF DeleteOwner
<1>5. owner' \in BOOLEAN
  BY  DEF DeleteOwner
<1>6. AttemptsInv'
  BY <1>1, <1>2 DEF AttemptsInv, Live
<1>7. JobInv'
  BY <1>1, <1>2 DEF JobInv, Clear, ActiveStates
<1>8. RowsInv'
  BY <1>1, <1>2 DEF RowsInv, Left, Live, A, Q
<1>9. ArchiveInv'
  BY <1>1, <1>2 DEF ArchiveInv, A
<1>10. QuarantineInv'
  BY <1>1, <1>2 DEF QuarantineInv, A, Q
<1>11. DiskInv'
  BY <1>1, <1>2 DEF DiskInv, A, Q
<1>12. ArchiveHolds'
  BY <1>1, <1>2 DEF ArchiveHolds, CompleteArchiveMatches, Retained, Matches,
    SameInode, A
<1>13. PlaceInv'
  BY <1>1, <1>2, <1>3, <1>4, <1>5, Fields, Numbers, PathsApart DEF PlaceInv,
    Left, A, Q, Later, Counted
<1>14. StateAt'
  BY <1>1, <1>2, <1>3, <1>4, <1>5, Fields DEF StateAt, Starting, Writing,
    Verified, Publishing, Replacing, Finishing, Cleaning, Working, A, Later,
    Counted
<1>15. BuildAt'
  BY <1>1, <1>2, <1>3, <1>4, <1>5, Fields DEF BuildAt, Starting, Writing,
    Verified, Publishing, Replacing, A, Q, Later, Counted
<1>16. CleanAt'
  BY <1>1, <1>2, <1>3, <1>4, <1>5, Fields DEF CleanAt, Cleaning, Left, A, Q,
    Later, Counted
<1>17. StagingAt'
  BY <1>1, <1>2, <1>3, <1>4, <1>5, Fields DEF StagingAt, Ending, First,
    StagingWork, Clear, Left, A, Q, Later, Counted
<1>18. PlaceAt'
  BY <1>1, <1>2, <1>3, <1>4, <1>5, Fields DEF PlaceAt, First, Left, A, Later,
    Counted
<1>19. CountInv'
  <2>1. Debt' <= Debt \/ events'.count = events.count + 1
    BY <1>1, <1>2, <1>3, <1>4, <1>5, Fields DEF Debt, Paid, Writing,
      ActiveStates, Later, Counted
  <2>2. Later
    BY <1>1, <1>2, <1>3, <1>4, <1>5 DEF Counted
  <2>. QED  BY <1>1, <1>2, <1>3, <1>4, <1>5, <2>1, <2>2, CountKeeps
<1>20. TypeOK'
  BY <1>1, <1>2, <1>3, <1>4, <1>5, Fields, Types, TypesNext DEF AttInv, Later,
    Counted
<1>. QED  BY <1>6, <1>7, <1>8, <1>9, <1>10, <1>11, <1>12, <1>13, <1>14, <1>15,
            <1>16, <1>17, <1>18, <1>19, <1>20 DEF AttInv, Resting

LEMMA ExpireKeeps ==
  ASSUME AttInv, Expire
  PROVE  AttInv'
<1>1. /\ AttemptsInv /\ JobInv /\ RowsInv /\ ArchiveInv /\ QuarantineInv
      /\ DiskInv /\ ArchiveHolds /\ PlaceInv /\ StateAt /\ BuildAt /\ CleanAt
      /\ StagingAt /\ PlaceAt /\ CountInv
  BY DEF AttInv, Resting
<1>2. /\ zip' = zip /\ included' = included /\ allowed' = allowed
      /\ owner' = owner /\ att' = att /\ rec' = rec /\ dirs' = dirs
      /\ disk' = disk /\ file' = file /\ events' = events
  BY DEF Expire, rows, fs, world
<1>3. /\ job.state = "complete" /\ job.ready = "retained"
      /\ A(job.gen).state # "ready_candidate"
  BY <1>1, <1>2, Fields DEF StateAt, BuildAt, Starting, Writing, Verified,
    Publishing, Replacing, Finishing, Cleaning, Expire, Retained, JobInv,
    RowsInv, Left
<1>4. proc' = proc /\ proc' \in Procs
  BY Fields DEF Expire
<1>5. JobIs("expired", job.gen, job.staging, "pending")
  BY Fields DEF Expire, JobIs, Jobs, JobStates, Readies
<1>6. AttemptsInv'
  BY <1>1, <1>2, <1>3, <1>4, <1>5, Fields DEF AttemptsInv, Live, JobIs
<1>7. JobInv'
  BY <1>1, <1>2, <1>3, <1>4, <1>5, Fields DEF JobInv, Clear, ActiveStates,
    JobIs
<1>8. RowsInv'
  BY <1>1, <1>2 DEF RowsInv, Left, Live, A, Q
<1>9. ArchiveInv'
  BY <1>1, <1>2 DEF ArchiveInv, A
<1>10. QuarantineInv'
  BY <1>1, <1>2, <1>3, <1>4, <1>5, Fields, Numbers, PathsApart DEF
    QuarantineInv, A, Q, JobIs
<1>11. DiskInv'
  BY <1>1, <1>2 DEF DiskInv, A, Q
<1>12. ArchiveHolds'
  BY <1>1, <1>2, <1>3, <1>4, <1>5, Fields DEF ArchiveHolds,
    CompleteArchiveMatches, Retained, Matches, SameInode, A, JobIs
<1>13. PlaceInv'
  BY <1>1, <1>2, <1>3, <1>4, <1>5, Fields, Numbers, PathsApart DEF PlaceInv,
    Left, A, Q, JobIs
<1>14. StateAt'
  BY <1>1, <1>2, <1>3, <1>4, <1>5, Fields DEF StateAt, Starting, Writing,
    Verified, Publishing, Replacing, Finishing, Cleaning, Working, A, JobIs,
    ActiveStates
<1>15. BuildAt'
  BY <1>1, <1>2, <1>3, <1>4, <1>5, Fields DEF BuildAt, Starting, Writing,
    Verified, Publishing, Replacing, A, Q, JobIs
<1>16. CleanAt'
  BY <1>1, <1>2, <1>3, <1>4, <1>5, Fields DEF CleanAt, Cleaning, Left, A, Q,
    JobIs
<1>17. StagingAt'
  BY <1>1, <1>2, <1>3, <1>4, <1>5, Fields DEF StagingAt, Ending, First,
    StagingWork, Clear, Left, A, Q, JobIs
<1>18. PlaceAt'
  BY <1>1, <1>2, <1>3, <1>4, <1>5, Fields DEF PlaceAt, First, Left, A, JobIs
<1>19. CountInv'
  <2>1. Debt' <= Debt
    BY <1>1, <1>2, <1>3, <1>4, <1>5, Fields DEF Debt, Paid, Writing,
      ActiveStates, JobIs
  <2>2. Later
    BY <1>2, NoEvent
  <2>. QED  BY <1>1, <1>2, <1>3, <1>4, <1>5, <2>1, <2>2, CountKeeps DEF JobIs
<1>20. TypeOK'
  BY <1>1, <1>2, <1>3, <1>4, <1>5, Fields, Types, TypesNext DEF AttInv, JobIs
<1>. QED  BY <1>6, <1>7, <1>8, <1>9, <1>10, <1>11, <1>12, <1>13, <1>14, <1>15,
            <1>16, <1>17, <1>18, <1>19, <1>20 DEF AttInv, Resting

LEMMA DamageKeeps ==
  ASSUME AttInv, Damage
  PROVE  AttInv'
<1>1. /\ AttemptsInv /\ JobInv /\ RowsInv /\ ArchiveInv /\ QuarantineInv
      /\ DiskInv /\ ArchiveHolds /\ PlaceInv /\ StateAt /\ BuildAt /\ CleanAt
      /\ StagingAt /\ PlaceAt /\ CountInv
  BY DEF AttInv, Resting
<1>2. /\ job' = job /\ zip' = zip /\ included' = included
      /\ allowed' = allowed /\ owner' = owner /\ att' = att /\ rec' = rec
      /\ dirs' = dirs /\ disk' = disk
  BY DEF Damage, rows, fs, world
<1>3. A(job.gen).state \in {"closed", "verifying", "publishing"}
  BY <1>1, <1>2, Fields DEF StateAt, BuildAt, Starting, Writing, Verified,
    Publishing, Replacing, Finishing, Cleaning, Damage, Archive, A
<1>4. proc' = proc /\ proc' \in Procs
  BY Fields DEF Damage
<1>5. Counted /\ Later /\ events'.worst = "unread"
  BY SomeEvent DEF Damage
<1>6. /\ file' \in Files
      /\ \A i \in Inodes :
           /\ file'[i].ctime = file[i].ctime /\ file'[i].items = file[i].items
           /\ i # job.gen => file'[i] = file[i]
  <2>1. file' = [file EXCEPT ![job.gen].data = "damaged"]
    BY DEF Damage
  <2>2. \A i \in Inodes : file[i] \in [ctime: 0..2, data: Contents, items: SUBSET Items]
    BY Fields DEF Files
  <2>3. \A i \in Inodes :
          file'[i] = IF i = job.gen THEN [file[i] EXCEPT !.data = "damaged"] ELSE file[i]
    BY <2>1, Fields, Numbers DEF Files
  <2>4. \A i \in Inodes :
          /\ file'[i] \in [ctime: 0..2, data: Contents, items: SUBSET Items]
          /\ file'[i].ctime = file[i].ctime /\ file'[i].items = file[i].items
    BY <2>2, <2>3 DEF Contents
  <2>5. file' = [i \in Inodes |-> file'[i]]
    BY <2>1, Fields DEF Files
  <2>. QED  BY <2>3, <2>4, <2>5 DEF Files
<1>7. AttemptsInv'
  BY <1>1, <1>2 DEF AttemptsInv, Live
<1>8. JobInv'
  BY <1>1, <1>2 DEF JobInv, Clear, ActiveStates
<1>9. RowsInv'
  BY <1>1, <1>2 DEF RowsInv, Left, Live, A, Q
<1>10. ArchiveInv'
  BY <1>1, <1>2 DEF ArchiveInv, A
<1>11. QuarantineInv'
  BY <1>1, <1>2 DEF QuarantineInv, A, Q
<1>12. DiskInv'
  BY <1>1, <1>2, <1>3, <1>4, <1>5, <1>6, Fields, Numbers, PathsApart,
    DiskFields DEF DiskInv, A, Q, Later, Counted
<1>13. ArchiveHolds'
  <2>1. ~Retained /\ ~Retained'
    BY <1>1, <1>2, <1>3, Fields DEF Retained, JobInv, RowsInv, Left
  <2>2. att[job.gen] = "verifying" => file'[job.gen].items = included
    BY <1>1, <1>6, Fields, Numbers DEF ArchiveHolds
  <2>. QED  BY <1>2, <1>3, <2>1, <2>2 DEF ArchiveHolds, CompleteArchiveMatches, A
<1>14. PlaceInv'
  BY <1>1, <1>2, <1>3, <1>4, <1>5, <1>6, Fields, Numbers, PathsApart DEF
    PlaceInv, Left, A, Q, Later, Counted
<1>15. StateAt'
  BY <1>1, <1>2, <1>3, <1>4, <1>5, <1>6, Fields DEF StateAt, Starting, Writing,
    Verified, Publishing, Replacing, Finishing, Cleaning, Working, A, Later,
    Counted
<1>16. BuildAt'
  BY <1>1, <1>2, <1>3, <1>4, <1>5, <1>6, Fields, Numbers DEF BuildAt, Starting,
    Writing, Verified, Publishing, Replacing, A, Q, Later, Counted
<1>17. CleanAt'
  BY <1>1, <1>2, <1>3, <1>4, <1>5, <1>6, Fields DEF CleanAt, Cleaning, Left, A,
    Q, Later, Counted
<1>18. StagingAt'
  BY <1>1, <1>2, <1>3, <1>4, <1>5, <1>6, Fields DEF StagingAt, Ending, First,
    StagingWork, Clear, Left, A, Q, Later, Counted
<1>19. PlaceAt'
  BY <1>1, <1>2, <1>3, <1>4, <1>5, <1>6, Fields DEF PlaceAt, First, Left, A,
    Later, Counted
<1>20. CountInv'
  <2>1. Debt' <= Debt \/ events'.count = events.count + 1
    BY <1>1, <1>2, <1>3, <1>4, <1>5, <1>6, Fields DEF Debt, Paid, Writing,
      ActiveStates, Later, Counted
  <2>2. Later
    BY <1>1, <1>2, <1>3, <1>4, <1>5, <1>6 DEF Counted
  <2>. QED  BY <1>1, <1>2, <1>3, <1>4, <1>5, <1>6, <2>1, <2>2, CountKeeps
<1>21. TypeOK'
  BY <1>1, <1>2, <1>3, <1>4, <1>5, <1>6, Fields, Types, TypesNext DEF AttInv,
    Later, Counted
<1>. QED  BY <1>7, <1>8, <1>9, <1>10, <1>11, <1>12, <1>13, <1>14, <1>15, <1>16,
            <1>17, <1>18, <1>19, <1>20, <1>21 DEF AttInv, Resting

LEMMA PlaceForeignKeeps ==
  ASSUME AttInv, PlaceForeign
  PROVE  AttInv'
<1>1. /\ AttemptsInv /\ JobInv /\ RowsInv /\ ArchiveInv /\ QuarantineInv
      /\ DiskInv /\ ArchiveHolds /\ PlaceInv /\ StateAt /\ BuildAt /\ CleanAt
      /\ StagingAt /\ PlaceAt /\ CountInv
  BY DEF AttInv, Resting
<1>2. /\ job' = job /\ zip' = zip /\ included' = included
      /\ allowed' = allowed /\ owner' = owner /\ att' = att /\ rec' = rec
      /\ dirs' = dirs
  BY DEF PlaceForeign, rows, fs, world
<1>3. /\ job.state \in ActiveStates /\ disk[Ready] = NoFile /\ ~Retained
      /\ A(job.gen).state # "ready_candidate"
      /\ \A p \in Paths : disk[p] # Foreign
  BY <1>1, <1>2, Fields DEF StateAt, BuildAt, Starting, Writing, Verified,
    Publishing, Replacing, Finishing, Cleaning, PlaceForeign, Retained,
    ActiveStates, ArchiveHolds, Matches, SameInode
<1>4. proc' = proc /\ proc' \in Procs
  BY Fields DEF PlaceForeign
<1>5. Counted /\ Later
  BY SomeEvent DEF PlaceForeign
<1>6. /\ disk' \in Disks
      /\ \A p \in Paths : disk'[p] = IF p = Ready THEN Foreign ELSE disk[p]
  BY Fields, Numbers, PathsApart DEF PlaceForeign, Disks
<1>7. /\ file' \in Files /\ file'[Foreign].ctime = 0
      /\ \A i \in Inodes : i # Foreign => file'[i] = file[i]
  <2>1. file' = [file EXCEPT ![Foreign].ctime = 0]
    BY DEF PlaceForeign
  <2>2. file[Foreign] \in [ctime: 0..2, data: Contents, items: SUBSET Items]
    BY Fields, Numbers DEF Files
  <2>3. file'[Foreign] = [file[Foreign] EXCEPT !.ctime = 0]
    BY <2>1, Fields, Numbers DEF Files
  <2>4. \A i \in Inodes : i # Foreign => file'[i] = file[i]
    BY <2>1, Fields DEF Files
  <2>5. file'[Foreign] \in [ctime: 0..2, data: Contents, items: SUBSET Items]
    BY <2>2, <2>3
  <2>6. file' = [i \in Inodes |-> file'[i]]
    BY <2>1, Fields DEF Files
  <2>. QED  BY <2>2, <2>3, <2>4, <2>5, <2>6, Fields DEF Files
<1>8. AttemptsInv'
  BY <1>1, <1>2 DEF AttemptsInv, Live
<1>9. JobInv'
  BY <1>1, <1>2 DEF JobInv, Clear, ActiveStates
<1>10. RowsInv'
  BY <1>1, <1>2 DEF RowsInv, Left, Live, A, Q
<1>11. ArchiveInv'
  BY <1>1, <1>2 DEF ArchiveInv, A
<1>12. QuarantineInv'
  BY <1>1, <1>2 DEF QuarantineInv, A, Q
<1>13. DiskInv'
  BY <1>1, <1>2, <1>3, <1>4, <1>5, <1>6, <1>7, Fields, Numbers, PathsApart DEF
    DiskInv, A, Q, Later, Counted
<1>14. ArchiveHolds'
  <2>1. ~Retained'
    BY <1>2, <1>3 DEF Retained
  <2>2. att[job.gen] = "verifying" => file'[job.gen].items = included
    BY <1>1, <1>7, Fields, Numbers DEF ArchiveHolds
  <2>. QED  BY <1>2, <1>3, <2>1, <2>2 DEF ArchiveHolds, CompleteArchiveMatches, A
<1>15. PlaceInv'
  BY <1>1, <1>2, <1>3, <1>4, <1>5, <1>6, <1>7, Fields, Numbers, PathsApart DEF
    PlaceInv, Left, A, Q, Later, Counted
<1>16. StateAt'
  BY <1>1, <1>2, <1>3, <1>4, <1>5, <1>6, <1>7, Fields, Numbers, PathsApart DEF
    StateAt, Starting, Writing, Verified, Publishing, Replacing, Finishing,
    Cleaning, Working, A, Later, Counted, ActiveStates
<1>17. BuildAt'
  BY <1>1, <1>2, <1>3, <1>4, <1>5, <1>6, <1>7, Fields, Numbers, PathsApart DEF
    BuildAt, Starting, Writing, Verified, Publishing, Replacing, A, Q, Later,
    Counted
<1>18. CleanAt'
  BY <1>1, <1>2, <1>3, <1>4, <1>5, <1>6, <1>7, Fields DEF CleanAt, Cleaning,
    Left, A, Q, Later, Counted
<1>19. StagingAt'
  BY <1>1, <1>2, <1>3, <1>4, <1>5, <1>6, <1>7, Fields DEF StagingAt, Ending,
    First, StagingWork, Clear, Left, A, Q, Later, Counted
<1>20. PlaceAt'
  BY <1>1, <1>2, <1>3, <1>4, <1>5, <1>6, <1>7, Fields, Numbers, PathsApart DEF
    PlaceAt, First, Left, A, Later, Counted
<1>21. CountInv'
  <2>1. Debt' <= Debt \/ events'.count = events.count + 1
    BY <1>1, <1>2, <1>3, <1>4, <1>5, <1>6, <1>7, Fields DEF Debt, Paid,
      Writing, ActiveStates, Later, Counted
  <2>2. Later
    BY <1>1, <1>2, <1>3, <1>4, <1>5, <1>6, <1>7 DEF Counted
  <2>. QED  BY <1>1, <1>2, <1>3, <1>4, <1>5, <1>6, <1>7, <2>1, <2>2, CountKeeps
<1>22. TypeOK'
  BY <1>1, <1>2, <1>3, <1>4, <1>5, <1>6, <1>7, Fields, Types, TypesNext DEF
    AttInv, Later, Counted
<1>. QED  BY <1>8, <1>9, <1>10, <1>11, <1>12, <1>13, <1>14, <1>15, <1>16,
            <1>17, <1>18, <1>19, <1>20, <1>21, <1>22 DEF AttInv, Resting

LEMMA CrashKeeps ==
  ASSUME AttInv, Crash
  PROVE  AttInv'
  BY SomeEvent, ExitKeeps, Fields DEF Crash, Counted, Later, SameRows

(* A storage error of a build.                                               *)
BuildPoints == {"mkdir", "mkfile", "stream", "close", "validate", "quarantine",
                "quarantine_move", "rename"}
LEMMA BuildFails ==
  ASSUME AttInv, proc.pc \in BuildPoints, RaiseStorageError, Later,
         Paid => events'.count = events.count + 1
  PROVE  AttInv'
<1>1. StateAt /\ BuildAt /\ RowsInv
  BY DEF AttInv, Resting
<1>2. job.state \in Working
  BY <1>1 DEF BuildPoints, StateAt, Starting, Writing, Verified, Publishing, Replacing,
    Working
<1>3. Unmoved
  <2>1. CASE proc.pc \in Replacing
    BY <1>1, <2>1 DEF BuildAt, Unmoved
  <2>2. CASE proc.pc \notin Replacing
    <3>1. att[job.gen] \in {"none", "writing", "closed"}
      BY <1>1, <2>2 DEF BuildPoints, BuildAt, Starting, Writing, Replacing
    <3>. QED  BY <1>1, <3>1, Fields DEF RowsInv, Unmoved
  <2>. QED  BY <2>1, <2>2
<1>. QED  BY <1>2, <1>3, RaiseStorageKeeps

LEMMA StorageFaultKeeps ==
  ASSUME AttInv, StorageFault
  PROVE  AttInv'
<1>1. CASE proc.pc \in StoragePoints /\ Event("storage") /\ RaiseStorageError
  <2>1. Counted /\ Later
    BY <1>1, SomeEvent
  <2>2. CASE proc.pc \in BuildPoints
    BY <1>1, <2>1, <2>2, BuildFails DEF Counted
  <2>3. CASE proc.pc \in Cleaning
    BY <1>1, <2>1, <2>3, CleaningFails
  <2>4. CASE proc.pc \in Finishing
    BY <1>1, <2>1, <2>4, FinishingFails
  <2>. QED  BY <1>1, <2>2, <2>3, <2>4 DEF StoragePoints, BuildPoints, Cleaning,
            Finishing
<1>2. CASE At("candidate") /\ Event("capture") /\ RaiseExportError
  <2>1. Later /\ events'.worst = "unread"
    BY <1>2, SomeEvent
  <2>2. job.state \in Working /\ proc.mode # "complete"
    BY <1>2 DEF AttInv, StateAt, At, Publishing, Working, Finishing
  <2>. QED  BY <1>2, <2>1, <2>2, RaiseExportKeeps DEF Unmoved
<1>. QED  BY <1>1, <1>2 DEF StorageFault

(* A normal stop.                                                            *)
LEMMA StopKeeps ==
  ASSUME AttInv, Stop
  PROVE  AttInv'
<1>1. Counted /\ Later
  BY SomeEvent DEF Stop
<1>2. ProcIs("down", "none", 0, "down", {}, {})
  BY DownEffect DEF Stop
<1>3. StateAt' /\ BuildAt' /\ CleanAt' /\ StagingAt' /\ PlaceAt'
  BY <1>2, NowhereAt DEF ProcIs
<1>4. UNCHANGED <<zip, included, fs, world>> /\ proc' \in Procs
  BY <1>2 DEF Stop, ProcIs
<1>5. CASE /\ job.state = "archiving"
           /\ job' = [job EXCEPT !.staging = "pending", !.lease = "none"]
           /\ att' = RetiredAttempts(Gens) /\ rec' = RetiredFiles(Gens)
  <2>1. GaveUp(Gens)
    BY <1>5, Fields, RetireEffect
  <2>2. /\ job.ready = "absent" /\ A(job.gen).state # "publishing"
    BY <1>5, Fields DEF AttInv, Resting, JobInv, RowsInv, ActiveStates, AttemptStates,
      Left
  <2>3. JobIs("archiving", job.gen, "pending", "absent")
    BY <1>5, <2>2, Fields DEF JobIs, Jobs, Stagings
  <2>4. Resting'
    BY <1>1, <1>4, <1>5, <2>1, <2>2, <2>3, Fields, GiveUpKeeps DEF ActiveStates
  <2>5. CountInv'
    BY <1>1, <1>4, <2>3, CountKeeps DEF Counted, JobIs, world
  <2>6. TypeOK'
    BY <1>1, <1>4, <2>1, <2>3, Fields, Types, TypesNext
       DEF AttInv, JobIs, GaveUp, Later, fs, world
  <2>. QED  BY <1>3, <2>4, <2>5, <2>6 DEF AttInv
<1>6. CASE /\ job.state = "archiving" /\ UncleanAttempts = {}
           /\ job' = [job EXCEPT !.state = "queued", !.lease = "none",
                                !.gen = IF att[job.gen] = "cleaned" THEN @ + 1 ELSE @]
           /\ UNCHANGED <<att, rec>>
  <2>1. Clear
    BY <1>6 DEF Clear, UncleanAttempts
  <2>2. NextGen \in Gens
    BY <1>1, <1>6, NextGeneration, Fields DEF NextGen, ActiveStates, Counted
  <2>3. job' = [job EXCEPT !.state = "queued", !.lease = "none", !.gen = NextGen]
    BY <1>6, Fields DEF NextGen, Jobs
  <2>4. JobIs("queued", NextGen, job.staging, job.ready)
    BY <2>2, <2>3, Fields DEF JobIs, Jobs, JobStates
  <2>5. SameRows
    BY <1>4, <1>6 DEF SameRows
  <2>. QED  BY <1>1, <1>2, <1>4, <1>6, <2>1, <2>4, <2>5, RequeueRows DEF Counted, ProcIs
<1>7. CASE job' = [job EXCEPT !.lease = "none"] /\ UNCHANGED <<att, rec>>
  <2>1. SameJob /\ SameRows
    BY <1>4, <1>7, Fields, LeaseEffect DEF SameRows
  <2>2. CountInv'
    BY <1>1, <1>4, <2>1, CountKeeps DEF Counted, SameJob, JobIs, world
  <2>. QED  BY <1>1, <1>3, <1>4, <2>1, <2>2, MoveKeeps
<1>. QED  BY <1>5, <1>6, <1>7 DEF Stop, Handoff

LEMMA EnvironmentKeeps ==
  ASSUME AttInv, Environment
  PROVE  AttInv'
  BY CrashKeeps, StopKeeps, RevokeKeeps, DeleteOwnerKeeps, ExpireKeeps,
     StorageFaultKeeps, DamageKeeps, PlaceForeignKeeps DEF Environment

-----------------------------------------------------------------------------
(* The invariant holds. *)

LEMMA InitKeeps ==
  ASSUME Init
  PROVE  AttInv
<1>1. TypeOK
  <2>1. NoRow \in FileRows
    BY DEF NoRow, FileRows, FileStates, AttemptStates, NoPath, Stamps
  <2>2. /\ job \in Jobs /\ zip \in Receipts /\ att \in [Gens -> AttemptStates]
        /\ rec \in Recs /\ disk \in Disks /\ file \in Files /\ events \in Counts
    BY <2>1, Numbers, AttemptsAssumption DEF Init, Jobs, JobStates, Stagings, Readies,
      Receipts, NoReceipt, Stamps, AttemptStates, Recs, Disks, Files, Contents, Counts
  <2>3. proc \in Procs
    BY Numbers DEF Init, Down, Procs, ProgramCounters, Modes
  <2>. QED  BY <2>2, <2>3, Types DEF Init
<1>2. /\ job.state = "queued" /\ job.gen = 0 /\ job.staging = "pending"
      /\ job.ready = "absent" /\ zip = NoReceipt
      /\ included = Items /\ allowed = Items /\ dirs = {}
      /\ proc.pc = "down" /\ proc.mode = "none" /\ events.count = 0
      /\ \A g \in Gens : att[g] = "none" /\ A(g) = NoRow /\ Q(g) = NoRow
      /\ \A p \in Paths : disk[p] = NoFile
      /\ \A i \in Inodes : file[i].ctime = 0
  BY DEF Init, Down, A, Q, Kinds
<1>3. /\ NoRow.state = "none" /\ NoRow.path = NoPath /\ NoRow.intent = NoPath
      /\ NoRow.ino = NoFile /\ NoRow.stamp = Open
  BY DEF NoRow
<1>4. AttemptsInv /\ JobInv
  BY <1>2, Numbers DEF AttemptsInv, JobInv, Clear, Live, ActiveStates
<1>5. RowsInv /\ ArchiveInv /\ QuarantineInv
  BY <1>2, <1>3, PathsApart DEF RowsInv, ArchiveInv, QuarantineInv
<1>6. DiskInv
  BY <1>2, <1>3, Numbers, PathsApart DEF DiskInv
<1>7. ArchiveHolds
  BY <1>2, <1>3, Numbers DEF ArchiveHolds, CompleteArchiveMatches, Retained
<1>8. PlaceInv
  BY <1>2, <1>3, Numbers, PathsApart DEF PlaceInv
<1>9. StateAt
  BY <1>2 DEF StateAt, Starting, Writing, Verified, Publishing, Replacing, Finishing,
    Cleaning
<1>10. BuildAt
  BY <1>2 DEF BuildAt, Starting, Writing, Verified, Publishing, Replacing
<1>11. CleanAt /\ StagingAt /\ PlaceAt
  BY <1>2 DEF CleanAt, StagingAt, PlaceAt, Cleaning, Ending
<1>12. CountInv
  <2>1. Debt = 0
    BY <1>2, Numbers DEF Debt
  <2>2. included \ allowed = {}
    BY <1>2
  <2>. QED  BY <1>2, <2>1, <2>2, FS_EmptySet DEF CountInv
<1>. QED  BY <1>1, <1>4, <1>5, <1>6, <1>7, <1>8, <1>9, <1>10, <1>11, <1>12
          DEF AttInv, Resting

LEMMA MakeDirectoryAllKeeps ==
  ASSUME AttInv, MakeDirectory
  PROVE  AttInv'
<1>1. CASE job.gen \in dirs
  <2>1. RaiseStorageError /\ proc.pc = "mkdir" /\ UNCHANGED events
    BY <1>1 DEF MakeDirectory, At
  <2>2. ~Paid
    BY <2>1 DEF Paid, Writing
  <2>. QED  BY <2>1, <2>2, NoEvent, BuildFails DEF BuildPoints
<1>. QED  BY <1>1, MakeDirectoryKeeps

LEMMA CollisionKeeps ==
  ASSUME AttInv, FindCollision \/ MoveCollision
  PROVE  AttInv'
<1>1. CASE FindCollision
  BY <1>1, NoCollisionKeeps, FindCollisionKeeps, CollisionFoundKeeps
<1>2. CASE MoveCollision
  <2>1. /\ Matches(disk[Ready], Quarantine) \in BOOLEAN
        /\ Matches(disk[Quar(job.gen)], Quarantine) \in BOOLEAN
    BY DEF Matches, SameInode
  <2>. QED  BY <1>2, <2>1, MoveCollisionKeeps, CollisionMovedKeeps, CollisionLostKeeps
<1>. QED  BY <1>1, <1>2

LEMMA BuildKeeps ==
  ASSUME AttInv, Build
  PROVE  AttInv'
<1>1. CASE InitialCheck \/ ApplyRevocations \/ RevocationsApplied \/ MakeDirectory
  BY <1>1, InitialCheckKeeps, ApplyRevocationsKeeps, RevocationsAppliedKeeps,
     AllRevokedKeeps, MakeDirectoryAllKeeps
<1>2. CASE RecordDirectory \/ MakeFile \/ RecordOpenFile \/ Stream \/ RecordClosed
  BY <1>2, RecordDirectoryKeeps, MakeFileKeeps, RecordOpenFileKeeps, StreamKeeps,
     RecordClosedKeeps
<1>3. CASE Validate \/ PostBuild \/ Rotate \/ PublishIntent
  BY <1>3, ValidateKeeps, InvalidKeeps, PostBuildKeeps, PostBuildRevokedKeeps,
     RotateKeeps, PublishIntentKeeps
<1>4. CASE FindCollision \/ MoveCollision \/ CloseQuarantine \/ Publish
  BY <1>4, CollisionKeeps, CloseQuarantineKeeps, PublishAllKeeps
<1>5. CASE CaptureCandidate \/ FinalFence
  BY <1>5, CaptureCandidateKeeps, CaptureFailsKeeps, FinalFenceKeeps
<1>. QED  BY <1>1, <1>2, <1>3, <1>4, <1>5 DEF Build

LEMMA CleanFileAllKeeps ==
  ASSUME AttInv, CleanFile
  PROVE  AttInv'
<1>. DEFINE g == proc.at
            k == FirstKind(g)
            r == rec[k][g]
            path == RetiredPath(k, g)
<1>1. proc.pc \in Cleaning /\ UNCHANGED events
  BY DEF CleanFile, At, Cleaning
<1>2. CASE RaiseStorageError
  BY <1>1, <1>2, NoEvent, CleaningFails
<1>3. CASE /\ r.state = (IF k = "archive" THEN "retiring" ELSE "closed")
           /\ r.path \in (IF k = "archive" THEN {Ready, Part(g)} ELSE {Quar(g)})
           /\ disk[path] = NoFile \/ Matches(disk[path], r)
           /\ Unlink(path) /\ Goto("clean_row") /\ UNCHANGED <<rows, dirs, world>>
  <2>1. path = r.path
    BY DEF RetiredPath
  <2>2. k = "archive" => rec["archive"][g].state = "retiring"
    BY <1>3
  <2>3. UNCHANGED file
    BY <1>3 DEF Unlink
  <2>. QED  BY <1>1, <1>3, <2>1, <2>2, <2>3, CleanFileKeeps
<1>. QED  BY <1>2, <1>3 DEF CleanFile

LEMMA CleanDirectoryAllKeeps ==
  ASSUME AttInv, CleanDirectory
  PROVE  AttInv'
<1>1. proc.pc \in Cleaning /\ UNCHANGED events
  BY DEF CleanDirectory, At, Cleaning
<1>. QED  BY <1>1, NoEvent, CleaningFails, CleanDirectoryKeeps DEF CleanDirectory

LEMMA RecoverKeeps ==
  ASSUME AttInv, Recover
  PROVE  AttInv'
<1>1. CASE CleanFile \/ CleanRow \/ CleanDirectory \/ CleanAttempt \/ CleanDone
  BY <1>1, CleanFileAllKeeps, CleanRowKeeps, CleanDirectoryAllKeeps, CleanAttemptKeeps,
     CleanDoneKeeps
<1>2. CASE RecoverRetiring \/ RecoverArchiving \/ RotateRecovered
  BY <1>2, RecoverRetiringKeeps, RecoverArchivingKeeps, RotateRecoveredKeeps
<1>3. CASE RecoverVerifying
  BY <1>3, SweepVerifyingKeeps, UnrecordedKeeps, ResumeKeeps DEF RecoverVerifying
<1>. QED  BY <1>1, <1>2, <1>3 DEF Recover

LEMMA CompleteKeeps ==
  ASSUME AttInv,
         CompleteQuarantine \/ CompleteDirectory \/ CompleteAttempt \/ CompleteDone
  PROVE  AttInv'
<1>1. proc.pc \in Finishing /\ Later
  BY NoEvent DEF CompleteQuarantine, CompleteDirectory, CompleteAttempt, CompleteDone,
    At, Finishing
<1>2. CASE RaiseStorageError
  BY <1>1, <1>2, FinishingFails
<1>3. CASE CompleteQuarantine /\ ~RaiseStorageError
  <2>1. CASE Quarantine.state \in {"none", "cleaned"}
    BY <1>3, <2>1, NoQuarantineKeeps DEF CompleteQuarantine
  <2>2. CASE Quarantine.state \notin {"none", "cleaned"}
    BY <1>3, <2>2, CompleteQuarantineKeeps DEF CompleteQuarantine
  <2>. QED  BY <2>1, <2>2
<1>4. CASE CompleteDirectory /\ ~RaiseStorageError
  BY <1>4, CompleteDirectoryKeeps DEF CompleteDirectory
<1>5. CASE CompleteAttempt /\ ~RaiseStorageError
  BY <1>5, CompleteAttemptKeeps DEF CompleteAttempt
<1>6. CASE CompleteDone /\ ~RaiseStorageError
  BY <1>6, CompleteDoneKeeps DEF CompleteDone
<1>. QED  BY <1>2, <1>3, <1>4, <1>5, <1>6

LEMMA FinishKeeps ==
  ASSUME AttInv, Finish
  PROVE  AttInv'
<1>1. CASE HandoffArchive
  BY <1>1, HandoffExpiredKeeps, HandoffDoneKeeps, HandoffArchiveKeeps
<1>. QED  BY <1>1, CompleteKeeps, CompleteRowKeeps, ReleaseKeeps, MarkRetiringKeeps,
          FailJobKeeps DEF Finish

LEMMA MaintainKeeps ==
  ASSUME AttInv, Maintain
  PROVE  AttInv'
<1>1. CASE TerminalizeOwnerless \/ ClaimComplete \/ ClaimRecovery \/ Requeue \/ ClaimNext
  BY <1>1, TerminalizeOwnerlessKeeps, ClaimCompleteKeeps, ClaimRecoveryKeeps,
     RequeueKeeps, ClaimNextKeeps
<1>2. CASE CleanReady
  <2>1. CASE Unlink(Ready) /\ Goto("ready_row") /\ UNCHANGED job
    BY <1>2, <2>1, CleanReadyKeeps
  <2>2. CASE /\ job' = [job EXCEPT !.ready = "blocked"] /\ Goto("staging")
             /\ UNCHANGED <<disk, file>>
    BY <1>2, <2>2, ReadyBlockedKeeps
  <2>. QED  BY <1>2, <2>1, <2>2 DEF CleanReady
<1>3. CASE ReadyCleaned \/ StagingSkipped \/ TerminalCleanup \/ TerminalRow
             \/ StagingCleaned
  BY <1>3, ReadyCleanedKeeps, StagingSkippedKeeps, TerminalCleanupKeeps,
     TerminalRowKeeps, StagingCleanedKeeps
<1>. QED  BY <1>1, <1>2, <1>3 DEF Maintain

LEMMA NextKeeps ==
  ASSUME AttInv, [Next]_vars
  PROVE  AttInv'
<1>1. CASE Next
  BY <1>1, StartKeeps, BuildKeeps, RecoverKeeps, FinishKeeps, MaintainKeeps,
     EnvironmentKeeps DEF Next, WorkerStep
<1>2. CASE UNCHANGED vars
  <2>1. /\ SameJob /\ SameRows /\ UNCHANGED <<fs, world>> /\ Later /\ proc' = proc
        /\ proc' \in Procs
    BY <1>2, SameJobEffect, NoEvent, Fields DEF vars, SameRows, fs, world
  <2>2. /\ StateAt' /\ BuildAt' /\ CleanAt' /\ StagingAt' /\ PlaceAt' /\ CountInv'
    BY <1>2, SMTT(30) DEF vars, AttInv, StateAt, BuildAt, CleanAt, StagingAt,
      PlaceAt, CountInv, Debt, Paid, First, Clear, StagingWork, Left, A, Q
  <2>. QED  BY <2>1, <2>2, MoveKeeps
<1>. QED  BY <1>1, <1>2

(* The invariant of every theorem below: what the rows, the disk and the     *)
(* worker's place in its program say of each other, after every step.        *)
LEMMA AttInvHolds ==
  Spec => []AttInv
<1>1. Init => AttInv
  BY InitKeeps
<1>2. AttInv /\ [Next]_vars => AttInv'
  BY NextKeeps
<1>. QED  BY <1>1, <1>2, PTL DEF Spec

-----------------------------------------------------------------------------
(* What is safe. *)

(* The rows of an export's attempts and files, what is on its disk and what  *)
(* the worker remembers are always of the shapes the code declares, and no   *)
(* generation passes the bound the events set.                               *)
THEOREM AttemptsTypeOK ==
  Spec => []TypeOK
<1>1. AttInv => TypeOK
  BY DEF AttInv
<1>. QED  BY <1>1, AttInvHolds, PTL

(* No step of a build, of a recovery or of a cleanup writes a row that the   *)
(* check constraints of ExportAttemptFile would refuse, whatever was         *)
(* interrupted before it.                                                    *)
THEOREM RowsMeetConstraints ==
  Spec => []RowConstraints
<1>1. ASSUME AttInv  PROVE RowConstraints
  <2>1. ArchiveInv /\ QuarantineInv
    BY <1>1 DEF AttInv, Resting
  <2>2. ASSUME NEW g \in Gens
        PROVE  /\ A(g).state = "publishing" => A(g).intent # NoPath
               /\ A(g).state \in {"ready_candidate", "published", "cleaned"} =>
                    A(g).intent = NoPath
               /\ A(g).state \in {"closed", "verifying", "publishing",
                                  "ready_candidate", "published"} => A(g).stamp # Open
               /\ A(g).path \in {NoPath, Ready, Part(g)}
    BY <2>1, <2>2, PathsApart DEF ArchiveInv, NoRow
  <2>3. ASSUME NEW g \in Gens
        PROVE  /\ Q(g).state = "writing" => Q(g).intent # NoPath
               /\ Q(g).state \in {"closed", "ready_candidate", "published", "cleaned"} =>
                    Q(g).intent = NoPath
               /\ Q(g).state \in {"closed", "verifying", "publishing",
                                  "ready_candidate", "published"} => Q(g).stamp # Open
               /\ Q(g).path \in {NoPath, Ready, Quar(g)}
    BY <2>1, <2>3, PathsApart DEF QuarantineInv, NoRow
  <2>4. ASSUME NEW g \in Gens, A(g).path = Q(g).path
        PROVE  A(g).path = NoPath
    BY <2>1, <2>2, <2>3, <2>4, PathsApart DEF QuarantineInv
  <2>5. ASSUME NEW g \in Gens, NEW k \in Kinds
        PROVE  LET r == rec[k][g]
               IN  /\ <<k, r.state>> \in Moving => r.intent # NoPath
                   /\ <<k, r.state>> \in Settled => r.intent = NoPath
                   /\ r.state \in {"closed", "verifying", "publishing",
                                   "ready_candidate", "published"} => r.stamp # Open
    <3>1. CASE k = "archive"
      BY <2>2, <3>1 DEF A, Moving, Settled
    <3>2. CASE k = "quarantine"
      BY <2>3, <3>2 DEF Q, Moving, Settled
    <3>. QED  BY <3>1, <3>2 DEF Kinds
  <2>6. ASSUME NEW g \in Gens, NEW k \in Kinds, NEW l \in Kinds, k # l,
               rec[k][g].path = rec[l][g].path
        PROVE  rec[k][g].path = NoPath
    BY <2>4, <2>6 DEF A, Q, Kinds
  <2>. QED  BY <2>5, <2>6 DEF RowConstraints
<1>. QED  BY <1>1, AttInvHolds, PTL

(* The ZIP of a completed export is the whole archive of exactly the items   *)
(* its rows count as included, in place under the receipt that was stored,   *)
(* whatever interrupted its build and whatever its recovery resumed.         *)
THEOREM PublishedArchiveHolds ==
  Spec => []CompleteArchiveMatches
<1>1. AttInv => CompleteArchiveMatches
  BY DEF AttInv, Resting, ArchiveHolds
<1>. QED  BY <1>1, AttInvHolds, PTL

(* From the record of its inode until it is removed, a file of the job is    *)
(* named by some row, and when the cleanup is recorded as done none is left. *)
LEMMA DiskIsCovered ==
  ASSUME AttInv, events.worst # "unread"
  PROVE  RowsCoverDisk
<1>1. /\ ArchiveInv /\ DiskInv /\ PlaceInv
  BY DEF AttInv, Resting
<1>2. ASSUME NEW p \in Paths, disk[p] \in Gens, NEW g \in Gens, disk[p] = g,
             A(g).state \notin {"none", "cleaned"}
      PROVE  Tracked(g)
  <2>1. A(g).ino = g
    BY <1>1, <1>2 DEF ArchiveInv
  <2>. QED  BY <1>2, <2>1 DEF Tracked, A, Kinds
<1>3. ASSUME NEW p \in Paths, disk[p] \in Gens
      PROVE  \/ Tracked(disk[p])
             \/ zip.ino = disk[p]
             \/ p = Part(disk[p]) /\ att[disk[p]] \in {"writing", "retiring"}
  <2>. DEFINE g == disk[p]
  <2>1. g \in Gens /\ g # NoFile /\ g # Foreign
    BY <1>3, Numbers
  <2>2. CASE p = Ready
    BY <1>1, <1>2, <1>3, <2>1, <2>2 DEF PlaceInv, Left
  <2>3. ASSUME NEW h \in Gens, p = Part(h)
        PROVE  \/ Tracked(g)
               \/ p = Part(g) /\ att[g] \in {"writing", "retiring"}
    <3>1. h = g
      BY <1>1, <2>1, <2>3 DEF DiskInv
    <3>. QED  BY <1>1, <1>2, <1>3, <2>1, <2>3, <3>1 DEF PlaceInv, Left
  <2>4. ASSUME NEW h \in Gens, p = Quar(h)
        PROVE  FALSE
    BY <1>1, <2>1, <2>4 DEF PlaceInv
  <2>. QED  BY <2>2, <2>3, <2>4, PathsApart
<1>. QED  BY <1>3 DEF RowsCoverDisk

(* Nothing is left behind: while no ZIP has become unreadable after its      *)
(* rename, every file of the job is led to by a row, and a job whose cleanup *)
(* is recorded as done has none on disk.                                     *)
THEOREM NothingLeftBehind ==
  Spec => []NothingForgotten
<1>1. ASSUME AttInv, events.worst # "unread", CleanedUp, NEW p \in Paths, disk[p] \in Gens
      PROVE  FALSE
  <2>. DEFINE g == disk[p]
  <2>1. JobInv /\ RowsInv /\ RowsCoverDisk
    BY <1>1, DiskIsCovered DEF AttInv, Resting
  <2>2. Clear /\ zip.ino = NoFile
    BY <1>1, <2>1 DEF CleanedUp, JobInv, NoReceipt
  <2>3. g \in Gens /\ g # NoFile /\ att[g] \in {"none", "cleaned"}
    BY <1>1, <2>2, Numbers DEF Clear
  <2>4. \A h \in Gens : ~Left(A(h)) /\ ~Left(Q(h))
    BY <2>1, <2>2 DEF RowsInv, Clear, Left
  <2>5. ~Tracked(g)
    BY <2>4 DEF Tracked, Left, A, Q, Kinds
  <2>. QED  BY <1>1, <2>1, <2>2, <2>3, <2>5 DEF RowsCoverDisk
<1>2. AttInv => NothingForgotten
  BY <1>1, DiskIsCovered DEF NothingForgotten
<1>. QED  BY <1>2, AttInvHolds, PTL

(* An attempt that was given up stays so, in whatever step.                  *)
StayGivenUp ==
    \A g \in Gens : /\ att[g] = "retiring" => att'[g] \in {"retiring", "cleaned"}
                    /\ att[g] = "cleaned" => att'[g] = "cleaned"

LEMMA SetStaysGivenUp ==
  ASSUME AttInv, NEW g \in Gens, NEW state, att' = [att EXCEPT ![g] = state],
         \/ att[g] \notin {"retiring", "cleaned"}
         \/ state = "cleaned"
         \/ state = "retiring" /\ att[g] = "retiring"
  PROVE  StayGivenUp
  BY Fields DEF StayGivenUp

LEMMA RetireStaysGivenUp ==
  ASSUME AttInv, NEW S, att' = RetiredAttempts(S)
  PROVE  StayGivenUp
  BY DEF RetiredAttempts, StayGivenUp

LEMMA BuildStaysGivenUp ==
  ASSUME AttInv, Build
  PROVE  StayGivenUp
<1>1. /\ StateAt /\ BuildAt /\ RowsInv /\ JobInv /\ job.gen \in Gens
      /\ att[job.gen] \in AttemptStates
  BY Fields DEF AttInv, Resting
<1>2. CASE UNCHANGED att
  BY <1>2 DEF StayGivenUp
<1>3. CASE RecordDirectory
  <2>1. att[job.gen] = "none"
    BY <1>1, <1>3 DEF RecordDirectory, At, BuildAt, Starting
  <2>. QED  BY <1>1, <1>3, <2>1, SetStaysGivenUp DEF RecordDirectory
<1>4. CASE RecordClosed
  <2>1. att[job.gen] = "writing"
    BY <1>1, <1>4 DEF RecordClosed, At, BuildAt, Writing
  <2>. QED  BY <1>1, <1>4, <2>1, SetStaysGivenUp DEF RecordClosed
<1>5. CASE Validate /\ att' = [att EXCEPT ![job.gen] = "verifying"]
  <2>1. att[job.gen] = "closed"
    BY <1>1, <1>5 DEF Validate, At, BuildAt
  <2>. QED  BY <1>1, <1>5, <2>1, SetStaysGivenUp
<1>6. CASE PostBuild /\ att' = [att EXCEPT ![job.gen] = "retiring"]
  <2>1. att[job.gen] = "verifying"
    BY <1>1, <1>6 DEF PostBuild, At, BuildAt, Verified
  <2>. QED  BY <1>1, <1>6, <2>1, SetStaysGivenUp
<1>7. CASE Rotate
  <2>1. att[job.gen] = "retiring"
    BY <1>1, <1>7 DEF Rotate, At, BuildAt
  <2>. QED  BY <1>1, <1>7, <2>1, SetStaysGivenUp DEF Rotate, RotateLocked
<1>8. CASE FinalFence
  <2>1. att[job.gen] = "verifying"
    <3>1. A(job.gen).state = "ready_candidate" /\ job.state = "verifying"
      BY <1>1, <1>8 DEF FinalFence, At, BuildAt, StateAt
    <3>. QED  BY <1>1, <3>1 DEF RowsInv, JobInv, Left
  <2>2. CASE FailLocked
    BY <2>2, RetireStaysGivenUp DEF FailLocked
  <2>3. CASE RotateLocked
    BY <1>1, <2>1, <2>3, SetStaysGivenUp DEF RotateLocked
  <2>4. CASE CompleteLocked
    BY <1>1, <2>1, <2>4, SetStaysGivenUp DEF CompleteLocked
  <2>. QED  BY <1>8, <2>2, <2>3, <2>4 DEF FinalFence
<1>. QED  BY <1>2, <1>3, <1>4, <1>5, <1>6, <1>7, <1>8
          DEF Build, InitialCheck, ApplyRevocations, ApplyBatch, RevocationsApplied,
              MakeDirectory, MakeFile, RecordOpenFile, Stream, Validate, PostBuild,
              PublishIntent, FindCollision, MoveCollision, CloseQuarantine, Publish,
              CaptureCandidate, RaiseExportError, RaiseStorageError, rows

LEMMA RecoverStaysGivenUp ==
  ASSUME AttInv, Recover
  PROVE  StayGivenUp
<1>1. CASE UNCHANGED att
  BY <1>1 DEF StayGivenUp
<1>2. CASE CleanAttempt
  BY <1>2, Fields, SetStaysGivenUp DEF CleanAttempt
<1>3. CASE RecoverArchiving
  BY <1>1, <1>3, RetireStaysGivenUp DEF RecoverArchiving, RaiseStorageError,
    RaiseExportError, rows
<1>. QED  BY <1>1, <1>2, <1>3
          DEF Recover, CleanFile, CleanRow, CleanDirectory, CleanDone, RecoverRetiring,
              RotateRecovered, RecoverVerifying, RaiseStorageError, rows

LEMMA FinishStaysGivenUp ==
  ASSUME AttInv, Finish
  PROVE  StayGivenUp
<1>1. CASE UNCHANGED att
  BY <1>1 DEF StayGivenUp
<1>2. CASE att' = [att EXCEPT ![job.gen] = "cleaned"]
  BY <1>2, Fields, SetStaysGivenUp
<1>3. CASE MarkRetiring \/ FailJob
  BY <1>3, RetireStaysGivenUp DEF MarkRetiring, FailJob, FailLocked
<1>. QED  BY <1>1, <1>2, <1>3
          DEF Finish, HandoffArchive, CompleteQuarantine, CompleteRow,
              CompleteDirectory, CompleteAttempt, CompleteDone, Release,
              RaiseStorageError, rows

LEMMA MaintainStaysGivenUp ==
  ASSUME AttInv, Maintain
  PROVE  StayGivenUp
<1>1. CASE UNCHANGED att
  BY <1>1 DEF StayGivenUp
<1>2. CASE FailLocked
  BY <1>2, RetireStaysGivenUp DEF FailLocked
<1>3. CASE TerminalRow
  <2>1. CASE UNCHANGED att
    BY <2>1, <1>1
  <2>2. CASE /\ At("staging_attempt")
             /\ att' = [att EXCEPT ![Oldest(UncleanAttempts)] = "cleaned"]
    <3>1. UncleanAttempts # {}
      BY <2>2, Fields DEF At, AttInv, StagingAt, Ending, Clear, UncleanAttempts
    <3>2. Oldest(UncleanAttempts) \in Gens
      BY <3>1, OldestIsFirst
    <3>. QED  BY <2>2, <3>2, SetStaysGivenUp
  <2>. QED  BY <1>3, <2>1, <2>2 DEF TerminalRow
<1>4. CASE TerminalCleanup
  BY <1>4, <1>1 DEF TerminalCleanup, Blocked, rows
<1>. QED  BY <1>1, <1>2, <1>3, <1>4
          DEF Maintain, TerminalizeOwnerless, ClaimComplete, ClaimRecovery, TakeOver,
              Requeue, ClaimNext, CleanReady, ReadyCleaned, StagingSkipped,
              StagingCleaned, rows

LEMMA EnvironmentStaysGivenUp ==
  ASSUME AttInv, Environment
  PROVE  StayGivenUp
<1>1. CASE UNCHANGED att
  BY <1>1 DEF StayGivenUp
<1>2. CASE Stop
  BY <1>1, <1>2, RetireStaysGivenUp DEF Stop, Handoff
<1>. QED  BY <1>1, <1>2 DEF Environment, Crash, Revoke, DeleteOwner, Expire,
          StorageFault, RaiseStorageError, RaiseExportError, Damage, PlaceForeign,
          rows

(* An attempt that was given up is never verified or published, by whatever  *)
(* process finds it and however far its file had got.                        *)
THEOREM GivenUpStays ==
  Spec => GivenUpIsFinal
<1>1. ASSUME AttInv, [Next]_vars  PROVE [StayGivenUp]_vars
  <2>1. CASE Next
    <3>1. CASE Start
      BY <3>1 DEF Start, StayGivenUp, rows
    <3>. QED  BY <1>1, <2>1, <3>1, BuildStaysGivenUp, RecoverStaysGivenUp,
              FinishStaysGivenUp, MaintainStaysGivenUp, EnvironmentStaysGivenUp
              DEF Next, WorkerStep
  <2>. QED  BY <1>1, <2>1
<1>2. Spec => [][StayGivenUp]_vars
  BY <1>1, AttInvHolds, PTL DEF Spec
<1>. QED  BY <1>2 DEF GivenUpIsFinal, StayGivenUp

(* Only the final fence completes an export.                                 *)
LEMMA OnlyFenceCompletes ==
  ASSUME AttInv, Next, job.state # "complete", job'.state = "complete"
  PROVE  At("final") /\ owner /\ Revoked = {} /\ CompleteLocked
<1>1. job \in Jobs
  BY Fields
<1>2. UNCHANGED job => FALSE
  BY <1>1
<1>3. \A s, r : job' = [job EXCEPT !.staging = s] \/ job' = [job EXCEPT !.lease = r]
                 \/ job' = [job EXCEPT !.staging = s, !.lease = r]
                 \/ job' = [job EXCEPT !.ready = s] => FALSE
  BY <1>1 DEF Jobs
<1>4. ~FailLocked
  BY <1>1 DEF FailLocked, Jobs
<1>5. ~Exit
  BY <1>3 DEF Exit
<1>6. ~RaiseStorageError /\ ~RaiseExportError
  BY <1>2, <1>3, <1>5 DEF RaiseStorageError, RaiseExportError, rows
<1>7. job' # Rotated
  BY <1>1 DEF Rotated, Jobs
<1>8. Build => At("final") /\ owner /\ Revoked = {} /\ CompleteLocked
  <2>1. Validate => job' = [job EXCEPT !.state = "verifying"] \/ RaiseExportError
    BY DEF Validate
  <2>2. ~Validate
    BY <1>1, <1>6, <2>1 DEF Jobs
  <2>. QED  BY <1>2, <1>4, <1>5, <1>6, <1>7, <2>2
            DEF Build, InitialCheck, ApplyRevocations, ApplyBatch, RevocationsApplied,
                MakeDirectory, RecordDirectory, MakeFile, RecordOpenFile, Stream,
                RecordClosed, PostBuild, Rotate, RotateLocked, PublishIntent,
                FindCollision, MoveCollision, CloseQuarantine, Publish,
                CaptureCandidate, FinalFence, rows
<1>9. ~Recover
  BY <1>2, <1>5, <1>6, <1>7
     DEF Recover, CleanFile, CleanRow, CleanDirectory, CleanAttempt, CleanDone,
         RecoverRetiring, RecoverArchiving, RotateRecovered, RecoverVerifying, rows
<1>10. ~Finish
  BY <1>2, <1>3, <1>4, <1>5, <1>6
     DEF Finish, HandoffArchive, CompleteQuarantine, CompleteRow, CompleteDirectory,
         CompleteAttempt, CompleteDone, Release, MarkRetiring, FailJob, rows
<1>11. ~Maintain
  <2>1. \A r : job' # Claimed(r)
    BY <1>1 DEF Claimed, Jobs
  <2>2. ~Requeue
    BY <1>1, <1>4 DEF Requeue, Jobs
  <2>3. ~ClaimNext
    BY <1>1 DEF ClaimNext, Jobs
  <2>. QED  BY <1>2, <1>3, <1>4, <2>1, <2>2, <2>3
            DEF Maintain, TerminalizeOwnerless, ClaimComplete, ClaimRecovery, TakeOver,
                CleanReady, ReadyCleaned, StagingSkipped, TerminalCleanup, Blocked,
                TerminalRow, StagingCleaned, rows
<1>12. ~Environment
  <2>1. ~Stop
    BY <1>1, <1>3 DEF Stop, Handoff, Jobs
  <2>2. ~Expire
    BY <1>1 DEF Expire, Jobs
  <2>. QED  BY <1>2, <1>5, <1>6, <2>1, <2>2
            DEF Environment, Crash, Revoke, DeleteOwner, StorageFault, Damage,
                PlaceForeign, rows
<1>13. ~Start
  BY <1>2 DEF Start, rows
<1>. QED  BY <1>8, <1>9, <1>10, <1>11, <1>12, <1>13 DEF Next, WorkerStep

(* An export completes only while its owner still exists and may see every   *)
(* item that is in the ZIP, however often the build was interrupted and the  *)
(* permissions changed meanwhile.                                            *)
THEOREM OnlyAllowedCompletes ==
  Spec => OnlyAllowedPublished
<1>1. ASSUME AttInv, Next, job.state # "complete", job'.state = "complete"
      PROVE  owner /\ file[zip'.ino].items \subseteq allowed
  <2>1. At("final") /\ owner /\ Revoked = {} /\ CompleteLocked
    BY <1>1, OnlyFenceCompletes
  <2>2. /\ StateAt /\ BuildAt /\ RowsInv /\ JobInv /\ ArchiveInv /\ ArchiveHolds
        /\ job.gen \in Gens
    BY <1>1, Fields DEF AttInv, Resting
  <2>3. A(job.gen).state = "ready_candidate" /\ job.state = "verifying"
    BY <2>1, <2>2 DEF At, BuildAt, StateAt
  <2>4. att[job.gen] = "verifying" /\ A(job.gen).ino = job.gen
    BY <2>2, <2>3 DEF RowsInv, JobInv, ArchiveInv, Left
  <2>5. zip'.ino = job.gen
    BY <2>1, <2>4 DEF CompleteLocked, Archive, A
  <2>6. file[zip'.ino].items = included
    BY <2>2, <2>4, <2>5 DEF ArchiveHolds
  <2>. QED  BY <2>1, <2>6 DEF Revoked
<1>. DEFINE Allowed == job.state # "complete" /\ job'.state = "complete"
                        => owner /\ file[zip'.ino].items \subseteq allowed
<1>2. AttInv /\ [Next]_vars => [Allowed]_vars
  BY <1>1
<1>. HIDE DEF Allowed
<1>3. Spec => [][Allowed]_vars
  BY <1>2, AttInvHolds, PTL DEF Spec
<1>. QED  BY <1>3 DEF OnlyAllowedPublished, Allowed

(* A file is only ever taken off the disk by an assignment to its own path,  *)
(* and each of those is preceded by a comparison with a receipt.             *)
KnownOnly == \A i \in Inodes : OnDisk(i) /\ ~OnDisk(i)' => Known(i)

LEMMA SetKnownOnly ==
  ASSUME AttInv, NEW p \in Paths, NEW i, disk' = [disk EXCEPT ![p] = i],
         disk[p] = NoFile \/ Known(disk[p])
  PROVE  KnownOnly
<1>1. \A q \in Paths : q # p => disk'[q] = disk[q]
  BY Fields DEF Disks
<1>. QED  BY <1>1, Numbers DEF KnownOnly, OnDisk

LEMMA MoveKnownOnly ==
  ASSUME AttInv, NEW p \in Paths, NEW q \in Paths, p # q, Rename(p, q),
         disk[q] = NoFile \/ Known(disk[q])
  PROVE  KnownOnly
<1>1. /\ disk'[q] = disk[p]
      /\ \A s \in Paths : s # p /\ s # q => disk'[s] = disk[s]
  BY Fields DEF Disks, Rename
<1>. QED  BY <1>1, Numbers DEF KnownOnly, OnDisk

LEMMA MatchKnown ==
  ASSUME NEW k \in Kinds, NEW g \in Gens, NEW i, Matches(i, rec[k][g])
  PROVE  Known(i)
  BY DEF Matches, SameInode, Known

LEMMA BuildKnownOnly ==
  ASSUME AttInv, Build
  PROVE  KnownOnly
<1>1. StateAt /\ BuildAt /\ QuarantineInv /\ DiskInv /\ job.gen \in Gens
  BY Fields DEF AttInv, Resting
<1>2. CASE UNCHANGED disk
  BY <1>2 DEF KnownOnly, OnDisk
<1>3. CASE MakeFile
  <2>1. disk[Part(job.gen)] = NoFile
    BY <1>1, <1>3, PathsApart DEF MakeFile, At, BuildAt, DiskInv
  <2>. QED  BY <1>1, <1>3, <2>1, PathsApart, SetKnownOnly DEF MakeFile
<1>4. CASE MoveCollision /\ Rename(Ready, Quar(job.gen))
  <2>1. disk[Quar(job.gen)] \in {NoFile, Q(job.gen).ino}
    BY <1>1 DEF DiskInv
  <2>2. disk[Quar(job.gen)] = NoFile \/ Known(disk[Quar(job.gen)])
    BY <1>1, <2>1 DEF Known, Q, Kinds
  <2>. QED  BY <1>1, <1>4, <2>2, PathsApart, MoveKnownOnly
<1>5. CASE Rename(Part(job.gen), Ready) /\ disk[Ready] = NoFile
  BY <1>1, <1>5, PathsApart, MoveKnownOnly
<1>. QED  BY <1>2, <1>3, <1>4, <1>5
          DEF Build, InitialCheck, ApplyRevocations, ApplyBatch, RevocationsApplied,
              MakeDirectory, RecordDirectory, RecordOpenFile, Stream, RecordClosed,
              Validate, PostBuild, Rotate, PublishIntent, FindCollision, MoveCollision,
              CloseQuarantine, Publish, CaptureCandidate, FinalFence,
              RaiseExportError, RaiseStorageError, fs

LEMMA RecoverKnownOnly ==
  ASSUME AttInv, Recover
  PROVE  KnownOnly
<1>1. CASE UNCHANGED disk
  BY <1>1 DEF KnownOnly, OnDisk
<1>2. CASE CleanFile
  <2>. DEFINE g == proc.at
              k == FirstKind(g)
              r == rec[k][g]
              path == RetiredPath(k, g)
  <2>1. CASE RaiseStorageError
    BY <1>1, <2>1 DEF RaiseStorageError, fs
  <2>2. CASE /\ r.path \in (IF k = "archive" THEN {Ready, Part(g)} ELSE {Quar(g)})
             /\ disk[path] = NoFile \/ Matches(disk[path], r)
             /\ Unlink(path)
    <3>1. g \in Gens /\ k \in Kinds
      BY Fields DEF FirstKind, Kinds
    <3>2. path = r.path
      BY DEF RetiredPath
    <3>3. path \in Paths
      BY <2>2, <3>1, <3>2, PathsApart
    <3>4. disk[path] = NoFile \/ Known(disk[path])
      BY <2>2, <3>1, MatchKnown
    <3>. QED  BY <2>2, <3>3, <3>4, SetKnownOnly DEF Unlink
  <2>. QED  BY <1>2, <2>1, <2>2 DEF CleanFile
<1>. QED  BY <1>1, <1>2 DEF Recover, CleanRow, CleanDirectory, CleanAttempt,
          CleanDone, RemoveDirectory, RecoverRetiring, RecoverArchiving,
          RotateRecovered, RecoverVerifying, RaiseExportError, RaiseStorageError,
          fs

LEMMA FinishKnownOnly ==
  ASSUME AttInv, Finish
  PROVE  KnownOnly
<1>1. CASE UNCHANGED disk
  BY <1>1 DEF KnownOnly, OnDisk
<1>2. CASE /\ CompleteQuarantine /\ Quarantine.state = "closed" /\ Unlink(Quarantine.path)
           /\ disk[Quarantine.path] = NoFile \/ Matches(disk[Quarantine.path], Quarantine)
  <2>1. job.gen \in Gens /\ Quarantine = rec["quarantine"][job.gen] /\ QuarantineInv
    BY Fields DEF AttInv, Resting, Quarantine
  <2>2. Quarantine.path \in Paths
    BY <1>2, <2>1, PathsApart DEF QuarantineInv, Q
  <2>3. disk[Quarantine.path] = NoFile \/ Known(disk[Quarantine.path])
    BY <1>2, <2>1, MatchKnown DEF Kinds
  <2>. QED  BY <1>2, <2>2, <2>3, SetKnownOnly DEF Unlink
<1>. QED  BY <1>1, <1>2 DEF Finish, HandoffArchive, CompleteQuarantine,
          CompleteRow, CompleteDirectory, RemoveDirectory, CompleteAttempt,
          CompleteDone, Release, MarkRetiring, FailJob, RaiseStorageError, fs

LEMMA MaintainKnownOnly ==
  ASSUME AttInv, Maintain
  PROVE  KnownOnly
<1>1. CASE UNCHANGED disk
  BY <1>1 DEF KnownOnly, OnDisk
<1>2. CASE Unlink(Ready) /\ (disk[Ready] = NoFile \/ Matches(disk[Ready], zip))
  <2>1. disk[Ready] = NoFile \/ Known(disk[Ready])
    BY <1>2 DEF Matches, SameInode, Known
  <2>. QED  BY <1>2, <2>1, PathsApart, SetKnownOnly DEF Unlink
<1>3. CASE TerminalCleanup
  <2>. DEFINE g == Oldest(UncleanAttempts)
              k == FirstKind(g)
              r == rec[k][g]
  <2>1. g \in Gens /\ k \in Kinds
    BY <1>3, OldestIsFirst DEF TerminalCleanup, FirstKind, Kinds
  <2>2. r.path \in Paths \cup {NoPath} /\ r.intent \in Paths \cup {NoPath}
    BY <2>1, RowFields DEF Kinds, A, Q
  <2>3. CASE Cardinality(Found(r)) = 1 /\ Unlink(CHOOSE p \in Found(r) : TRUE)
    <3>1. Found(r) # {}
      BY <2>3, FS_EmptySet
    <3>2. PICK p \in Found(r) : p = CHOOSE q \in Found(r) : TRUE
      BY <3>1
    <3>3. p \in Paths /\ Matches(disk[p], r)
      BY <2>2, <3>2 DEF Found, Named
    <3>4. Known(disk[p])
      BY <2>1, <3>3, MatchKnown
    <3>. QED  BY <2>3, <3>2, <3>3, <3>4, SetKnownOnly DEF Unlink
  <2>. QED  BY <1>1, <1>3, <2>3 DEF TerminalCleanup, Blocked, RemoveDirectory, fs
<1>. QED  BY <1>1, <1>2, <1>3
          DEF Maintain, TerminalizeOwnerless, ClaimComplete, ClaimRecovery, Requeue,
              ClaimNext, CleanReady, ReadyCleaned, StagingSkipped, TerminalRow,
              StagingCleaned, fs

LEMMA EnvironmentKnownOnly ==
  ASSUME AttInv, Environment
  PROVE  KnownOnly
<1>1. CASE UNCHANGED disk
  BY <1>1 DEF KnownOnly, OnDisk
<1>2. CASE PlaceForeign
  BY <1>2, PathsApart, SetKnownOnly DEF PlaceForeign
<1>. QED  BY <1>1, <1>2 DEF Environment, Crash, Stop, Revoke, DeleteOwner, Expire,
              StorageFault, RaiseStorageError, RaiseExportError, Damage, fs

(* No recovery and no cleanup removes a file that no row had named by its    *)
(* inode, and none replaces one by a rename.                                 *)
THEOREM StrangersStay ==
  Spec => NoStrangerRemoved
<1>1. ASSUME AttInv, [Next]_vars  PROVE [KnownOnly]_vars
  <2>1. CASE Next
    <3>1. CASE Start
      BY <3>1 DEF Start, KnownOnly, OnDisk, fs
    <3>. QED  BY <1>1, <2>1, <3>1, BuildKnownOnly, RecoverKnownOnly, FinishKnownOnly,
              MaintainKnownOnly, EnvironmentKnownOnly DEF Next, WorkerStep
  <2>. QED  BY <1>1, <2>1
<1>2. Spec => [][KnownOnly]_vars
  BY <1>1, AttInvHolds, PTL DEF Spec
<1>. QED  BY <1>2 DEF NoStrangerRemoved, KnownOnly
=============================================================================
