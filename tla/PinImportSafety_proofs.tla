------------------------ MODULE PinImportSafety_proofs ------------------------
(***************************************************************************)
(* Theorems of PinImport about images: their files, their pins, and what   *)
(* is left on the disk.  First the invariant SafeInv and the lemmas about  *)
(* what a step does to ids, locks, rows and the disk; then SafeInv is      *)
(* shown to be inductive, part by part.                                    *)
(***************************************************************************)
EXTENDS PinImport_proofs

Uncommitted == {"fetch", "prepared", "deduped", "locked", "fenced", "ready",
                "rollback"}
RemoveSteps == {"remove", "removing", "removed"}

\* The ids that handlers were given so far; an id is never given twice.
Issued(a) ==
    \/ a[1] \in Items /\ a[2] <= item[a[1]].gen
    \/ a[1] \in begun

\* The ids of pins and images that were committed and are still in some hands.
HeldBy(g, a) ==
    \/ proc[g].pc \in PinSteps /\ a \in {proc[g].pin, proc[g].image}
    \/ proc[g].pc \in RemoveSteps /\ a = proc[g].image

Used(a) ==
    \/ a \in images \cup pending \cup DOMAIN pins
    \/ \E g \in Handlers : HeldBy(g, a)

Unclaimed(i) == item[i].state = "absent" => item[i].gen = 0

IssuedInv ==
    /\ \A a \in Ids : Used(a) => Issued(a)
    /\ \A f \in disk : Issued(f[2])
    /\ \A h \in Handlers : proc[h].pc \in ImportSteps => Issued(Own(h))
    /\ \A i \in Items : Unclaimed(i)

Distinct(g, h) ==
    proc[g].pc \in ImportSteps /\ proc[h].pc \in ImportSteps => Own(g) # Own(h)

\* Until it is committed, an import's id is its own.
OwnInv ==
    /\ \A g, h \in Handlers : g # h => Distinct(g, h)
    /\ \A h \in Handlers : proc[h].pc \in Uncommitted => ~Used(Own(h))

Locked(h) ==
    /\ proc[h].pc \in {"deduped", "locked", "fenced", "ready"}
         => proc[h].dedup = Digest[proc[h].job]
    /\ proc[h].pc \in {"locked", "fenced", "ready"} => proc[h].media = "shared"
    /\ proc[h].pc = "removing" => proc[h].media = "exclusive"

Exclusion(g, h) ==
    /\ proc[g].dedup = proc[h].dedup => proc[g].dedup = None
    /\ proc[g].media = "exclusive" => proc[h].media = "free"

LockInv ==
    /\ \A h \in Handlers : Locked(h)
    /\ \A g, h \in Handlers : g # h => Exclusion(g, h)

\* What an import about to commit has looked up is still true.
Ready(h) ==
    proc[h].pc = "ready" =>
    /\ ContentOf(proc[h].image) = Digest[proc[h].job]
    /\ Final(proc[h].image) \in disk
    /\ proc[h].image \in images \/ (proc[h].image = Own(h) /\ Stored(h) = {})

Deletes(h) ==
    /\ proc[h].pc \in PinSteps /\ proc[h].pin \in DOMAIN pins
         => pins[proc[h].pin] = proc[h].image
    /\ proc[h].pc \in RemoveSteps => proc[h].image \notin images
    /\ proc[h].pc = "removed" => Final(proc[h].image) \notin disk

Leaves(h) ==
    /\ proc[h].pc = "fetch" => Staging(Own(h)) \notin disk
    /\ proc[h].pc \in {"fetch", "prepared", "deduped", "locked", "fenced"}
         => Final(Own(h)) \notin disk
    /\ proc[h].pc \in {"ready", "rollback"} /\ Final(Own(h)) \in disk
         => proc[h].image = Own(h)
    /\ proc[h].pc = "finish" /\ Final(Own(h)) \in disk
         => Own(h) \in images \cup pending

Journal == images \cap pending = {}

SafeInv ==
    /\ TypeInv /\ IssuedInv /\ OwnInv /\ LockInv
    /\ \A h \in Handlers : Ready(h) /\ Deletes(h) /\ Leaves(h)
    /\ Journal
    /\ OnlyOwnFailures /\ ReferencedFilesPresent /\ ImagesMatchPins
    /\ NothingForgotten

-----------------------------------------------------------------------------
(* Ids are given once.                                                     *)

GenMoves(i) ==
    \/ /\ item'[i].gen = item[i].gen
       /\ item'[i].state = "absent" => item[i].state = "absent"
    \/ item'[i].gen > item[i].gen /\ item'[i].state = "pending"

LEMMA GenQuiet ==
    ASSUME NEW i \in Items, UNCHANGED item
    PROVE  GenMoves(i)
  BY DEF GenMoves

LEMMA AskGen ==
    ASSUME TypeOK, IssuedInv, NEW h \in Handlers, NEW j \in Items, Ask(h, j),
           NEW i \in Items
    PROVE  GenMoves(i)
<1>1. CASE UNCHANGED item
  BY <1>1, GenQuiet
<1>2. CASE item[j].state = "absent" /\ item' = [item EXCEPT ![j] = Leased(1)]
  <2>1. CASE i = j
    <3>1. item[i].gen = 0
      BY <1>2, <2>1 DEF IssuedInv, Unclaimed
    <3>2. item'[i] = Leased(1)
      BY <1>2, <2>1 DEF TypeOK
    <3> QED BY <3>1, <3>2 DEF GenMoves, Leased
  <2>2. CASE i # j
    BY <1>2, <2>2 DEF GenMoves, TypeOK
  <2> QED BY <2>1, <2>2
<1> QED BY <1>1, <1>2 DEF Ask

LEMMA ReclaimGen ==
    ASSUME TypeOK, NEW h \in Handlers, Reclaim(h), NEW i \in Items
    PROVE  GenMoves(i)
<1>1. CASE UNCHANGED item
  BY <1>1, GenQuiet
<1>2. CASE /\ AsSeen(h)
           /\ item' = [item EXCEPT ![proc[h].job] = Leased(proc[h].gen + 1)]
  <2>1. CASE i = proc[h].job
    <3>1. item[i].gen = proc[h].gen /\ item[i].gen \in Nat
      BY <1>2, <2>1, RowType DEF AsSeen
    <3>2. item'[i] = Leased(proc[h].gen + 1)
      BY <1>2, <2>1 DEF TypeOK
    <3> QED BY <3>1, <3>2 DEF GenMoves, Leased
  <2>2. CASE i # proc[h].job
    BY <1>2, <2>2 DEF GenMoves, TypeOK
  <2> QED BY <2>1, <2>2
<1> QED BY <1>1, <1>2 DEF Reclaim

LEMMA SettleGen ==
    ASSUME TypeOK, NEW i \in Items, NEW h \in Handlers,
           Commit(h) \/ RecordFailure(h) \/ DeletePin(h)
    PROVE  GenMoves(i)
<1>1. item[i] \in Rows
  BY DEF TypeOK
<1>2. CASE Commit(h)
  <2>1. item'[i] = item[i] \/ item'[i] = Succeeded(item[i], Own(h))
    BY <1>2 DEF Commit, TypeOK
  <2> QED BY <1>1, <2>1 DEF Succeeded, GenMoves, Rows
<1>3. CASE RecordFailure(h)
  <2>1. item'[i] = item[i] \/ item'[i] = Failed(item[i], proc[h].error)
    BY <1>3 DEF RecordFailure, TypeOK
  <2> QED BY <1>1, <2>1 DEF Failed, GenMoves, Rows
<1>4. CASE DeletePin(h)
  <2>1. item' = Forget(proc[h].pin)
    BY <1>4 DEF DeletePin
  <2>2. item'[i].gen = item[i].gen /\ item'[i].state = item[i].state
    BY <1>1, <2>1 DEF Forget, Rows
  <2> QED BY <2>2 DEF GenMoves
<1> QED BY <1>2, <1>3, <1>4

LEMMA StepGen ==
    ASSUME TypeInv, IssuedInv, [Next]_vars, NEW i \in Items
    PROVE  GenMoves(i)
<1> USE DEF TypeInv
<1>1. CASE UNCHANGED item
  BY <1>1, GenQuiet
<1>2. ASSUME NEW h \in Handlers, HandlerStep(h), ~UNCHANGED item
      PROVE  GenMoves(i)
  <2>1. CASE ImportStep(h)
    <3>1. Reclaim(h) \/ Commit(h) \/ RecordFailure(h)
      BY <1>2, <2>1 DEF ImportStep, Prepare, TakeDedup, TakeLifecycle,
         Fence, Reuse, Publish, CommitFails, Finish, Compensate, rows
    <3> QED BY <3>1, ReclaimGen, SettleGen
  <2>2. CASE DeleteStep(h)
    <3>1. DeletePin(h)
      BY <1>2, <2>2 DEF DeleteStep, DeleteDedup, DeletePinFails, Remove,
         RemoveFile, ForgetPending, Sweep, rows
    <3> QED BY <3>1, SettleGen
  <2>3. CASE Request(h)
    <3>1. PICK j \in Items : Ask(h, j)
      BY <1>2, <2>3 DEF Request, BeginSingle, BeginDelete, rows
    <3> QED BY <3>1, AskGen
  <2>4. ~Failure(h)
    BY <1>2 DEF Failure, ClaimBusy, FetchFails, ImportError, CompensateFails,
       RecordBusy, RemoveFails, Crash, rows
  <2>5. ~Maintenance(h)
    BY <1>2 DEF Maintenance, Retry, BeginSweep, SweepStaging, rows
  <2> QED BY <1>2, <2>1, <2>2, <2>3, <2>4, <2>5 DEF HandlerStep
<1>3. ASSUME NEW j \in Items, Expire(j) PROVE GenMoves(i)
  <2>1. item[i] \in Rows
    BY DEF TypeOK
  <2> QED BY <1>3, <2>1 DEF Expire, GenMoves, TypeOK, Rows
<1> QED BY <1>1, <1>2, <1>3 DEF Next, HandlerStep, vars

LEMMA BegunGrows ==
    ASSUME [Next]_vars
    PROVE  begun \subseteq begun'
<1>1. ASSUME NEW h \in Handlers, HandlerStep(h) PROVE begun \subseteq begun'
  <2>1. CASE ImportStep(h)
    BY <2>1 DEF ImportStep, Reclaim, Prepare, TakeDedup, TakeLifecycle, Fence,
       Reuse, Publish, Commit, CommitFails, Finish, Compensate, RecordFailure,
       rows
  <2>2. CASE DeleteStep(h)
    BY <2>2 DEF DeleteStep, DeleteDedup, DeletePinFails, DeletePin, Remove,
       RemoveFile, ForgetPending, Sweep, rows
  <2>3. CASE Failure(h)
    BY <2>3 DEF Failure, ClaimBusy, FetchFails, ImportError, CompensateFails,
       RecordBusy, RemoveFails, Crash, rows
  <2>4. CASE Request(h) \/ Maintenance(h)
    BY <2>4 DEF Request, Ask, BeginSingle, BeginDelete, Maintenance, Retry,
       BeginSweep, SweepStaging, rows
  <2> QED BY <1>1, <2>1, <2>2, <2>3, <2>4 DEF HandlerStep
<1> QED BY <1>1 DEF Next, HandlerStep, Expire, vars

LEMMA IssuedGrows ==
    ASSUME TypeInv, IssuedInv, [Next]_vars, NEW a \in Ids, Issued(a)
    PROVE  Issued(a)'
<1>1. CASE a[1] \in Items /\ a[2] <= item[a[1]].gen
  <2>1. GenMoves(a[1])
    BY <1>1, StepGen
  <2>2. item[a[1]].gen \in Nat /\ item'[a[1]].gen \in Nat /\ a[2] \in Nat
    <3>1. TypeOK /\ TypeOK'
      BY NextTypeInv DEF TypeInv
    <3> QED BY <1>1, <3>1 DEF TypeOK, Rows, Ids
  <2> QED BY <1>1, <2>1, <2>2 DEF GenMoves, Issued
<1>2. CASE a[1] \in begun
  BY <1>2, BegunGrows DEF Issued
<1> QED BY <1>1, <1>2 DEF Issued

\* A handler takes up an import under a new id, or goes on with the one it has.
Enters(h) ==
    /\ proc[h].pc \notin ImportSteps
    /\ \E m \in Imports, g \in Nat :
          /\ proc'[h] = Fetching(m, g)
          /\ ~Issued(<<m, g>>)
          /\ m \in Items => item'[m].gen = g
          /\ m \in Singles => m \in begun'
    /\ UNCHANGED <<images, pins, pending, disk, abandoned>>

GoesOn(h) ==
    proc'[h].pc \in ImportSteps =>
    /\ proc[h].pc \in ImportSteps
    /\ proc'[h].job = proc[h].job /\ proc'[h].gen = proc[h].gen
    /\ proc'[h].pc \in Uncommitted
         => proc[h].pc \in Uncommitted /\ UNCHANGED <<images, pins, pending>>

LEMMA LeavesGoesOn ==
    ASSUME NEW h \in Handlers, proc'[h].pc \notin ImportSteps
    PROVE  GoesOn(h)
  BY DEF GoesOn

LEMMA IdleGoesOn ==
    ASSUME TypeOK, NEW h \in Handlers, proc' = [proc EXCEPT ![h] = Idle]
    PROVE  GoesOn(h)
  BY DEF TypeOK, GoesOn, Idle, ImportSteps

LEMMA FailWithGoesOn ==
    ASSUME TypeOK, NEW h \in Handlers, NEW e, FailWith(h, e)
    PROVE  GoesOn(h)
<1>1. CASE proc' = [proc EXCEPT ![h].pc = "failing", ![h].image = None,
                                ![h].error = e]
  <2>1. proc[h] \in Processes
    BY DEF TypeOK
  <2>2. proc'[h].pc = "failing"
    BY <1>1, <2>1 DEF TypeOK, Processes
  <2> QED BY <2>2 DEF GoesOn, ImportSteps
<1> QED BY <1>1, IdleGoesOn DEF FailWith

LEMMA RollbackGoesOn ==
    ASSUME TypeOK, NEW h \in Handlers, NEW e, Rollback(h, e),
           proc[h].pc \in Uncommitted, UNCHANGED rows
    PROVE  GoesOn(h)
<1>1. proc[h] \in Processes
  BY DEF TypeOK
<1>2. /\ proc'[h].pc = "rollback" /\ proc'[h].job = proc[h].job
      /\ proc'[h].gen = proc[h].gen
  BY <1>1 DEF Rollback, TypeOK, Processes
<1> QED BY <1>2 DEF GoesOn, ImportSteps, Uncommitted, rows

LEMMA AskEnters ==
    ASSUME TypeInv, IssuedInv, NEW h \in Handlers, NEW i \in Items, Ask(h, i)
    PROVE  Enters(h) \/ GoesOn(h)
<1>1. CASE proc' = [proc EXCEPT ![h] = Reclaiming(i, 1)]
  <2>1. proc'[h].pc = "reclaim"
    BY <1>1 DEF TypeInv, TypeOK, Reclaiming, Idle
  <2> QED BY <2>1 DEF GoesOn, ImportSteps
<1>2. CASE /\ item[i].state = "absent"
           /\ item' = [item EXCEPT ![i] = Leased(1)]
           /\ proc' = [proc EXCEPT ![h] = Fetching(i, 1)]
  <2>1. proc'[h] = Fetching(i, 1) /\ item'[i].gen = 1
    BY <1>2 DEF TypeInv, TypeOK, Leased
  <2>2. ~Issued(<<i, 1>>)
    <3>1. item[i].gen = 0
      BY <1>2 DEF IssuedInv, Unclaimed
    <3>2. i \notin begun
      BY ImportAssumption DEF TypeInv, TypeOK
    <3> QED BY <3>1, <3>2 DEF Issued
  <2>3. i \in Imports /\ i \notin Singles
    BY ImportAssumption DEF Imports
  <2>4. proc[h].pc \notin ImportSteps
    BY DEF Ask, ImportSteps
  <2> QED BY <2>1, <2>2, <2>3, <2>4 DEF Enters, Ask
<1> QED BY <1>1, <1>2 DEF Ask

LEMMA ReclaimEnters ==
    ASSUME TypeInv, IssuedInv, NEW h \in Handlers, Reclaim(h)
    PROVE  Enters(h) \/ GoesOn(h)
<1> DEFINE i == proc[h].job
           g == proc[h].gen + 1
<1>1. TypeOK /\ i \in Items
  BY DEF TypeInv, Reclaim, Shape, ItemSteps
<1>2. CASE proc' = [proc EXCEPT ![h] = Idle]
  BY <1>1, <1>2, IdleGoesOn
<1>3. ASSUME NEW n, proc' = [proc EXCEPT ![h] = Reclaiming(i, n)]
      PROVE  GoesOn(h)
  <2>1. proc'[h].pc = "reclaim"
    BY <1>1, <1>3 DEF TypeOK, Reclaiming, Idle
  <2> QED BY <2>1 DEF GoesOn, ImportSteps
<1>4. CASE /\ AsSeen(h)
           /\ item' = [item EXCEPT ![i] = Leased(g)]
           /\ proc' = [proc EXCEPT ![h] = Fetching(i, g)]
  <2>1. proc'[h] = Fetching(i, g) /\ item'[i].gen = g
    BY <1>1, <1>4 DEF TypeOK, Leased
  <2>2. g \in Nat /\ item[i].gen \in Nat /\ g > item[i].gen
    <3>1. proc[h] \in Processes
      BY <1>1 DEF TypeOK
    <3>2. proc[h].gen \in Nat
      BY <3>1 DEF Processes
    <3>3. item[i].gen = proc[h].gen
      BY <1>4 DEF AsSeen
    <3> QED BY <3>2, <3>3
  <2>3. i \in Imports /\ i \notin Singles /\ i \notin begun
    BY <1>1, ImportAssumption DEF Imports, TypeOK
  <2>4. ~Issued(<<i, g>>)
    BY <2>2, <2>3 DEF Issued
  <2>5. proc[h].pc \notin ImportSteps
    BY DEF Reclaim, ImportSteps
  <2>6. UNCHANGED <<images, pins, pending, disk, abandoned>>
    BY DEF Reclaim
  <2> HIDE DEF i, g
  <2> QED BY <2>1, <2>2, <2>3, <2>4, <2>5, <2>6 DEF Enters
<1> QED BY <1>2, <1>3, <1>4 DEF Reclaim

LEMMA BeginSingleEnters ==
    ASSUME TypeInv, IssuedInv, NEW h \in Handlers, NEW s \in Singles,
           BeginSingle(h, s)
    PROVE  Enters(h)
<1>1. proc'[h] = Fetching(s, 1) /\ s \in begun'
  BY DEF BeginSingle, TypeInv, TypeOK
<1>2. s \in Imports /\ s \notin Items /\ s \notin begun
  BY ImportAssumption DEF Imports, BeginSingle
<1>3. ~Issued(<<s, 1>>)
  BY <1>2 DEF Issued
<1>4. proc[h].pc \notin ImportSteps
  BY DEF BeginSingle, ImportSteps
<1> QED BY <1>1, <1>2, <1>3, <1>4 DEF Enters, BeginSingle

LEMMA ImportStepOwn ==
    ASSUME TypeInv, IssuedInv, NEW h \in Handlers, ImportStep(h)
    PROVE  Enters(h) \/ GoesOn(h)
<1>1. TypeOK /\ proc[h] \in Processes
  BY DEF TypeInv, TypeOK
<1>2. CASE Reclaim(h)
  BY <1>2, ReclaimEnters
<1>3. CASE Prepare(h) \/ TakeDedup(h) \/ TakeLifecycle(h) \/ Publish(h)
  <2>1. /\ proc[h].pc \in Uncommitted
        /\ proc'[h].job = proc[h].job /\ proc'[h].gen = proc[h].gen
        /\ UNCHANGED rows
    BY <1>1, <1>3 DEF Prepare, TakeDedup, TakeLifecycle, Publish, Goto, TypeOK,
       Processes, Uncommitted
  <2> QED BY <2>1 DEF GoesOn, Uncommitted, ImportSteps, rows
<1>4. CASE Fence(h)
  <2>1. CASE Rollback(h, "lost")
    BY <1>1, <1>4, <2>1, RollbackGoesOn DEF Fence, Uncommitted
  <2>2. CASE proc' = Goto(h, "fenced")
    <3>1. proc'[h].job = proc[h].job /\ proc'[h].gen = proc[h].gen
      BY <1>1, <2>2 DEF Goto, TypeOK, Processes
    <3> QED BY <1>4, <3>1 DEF Fence, GoesOn, Uncommitted, ImportSteps, rows
  <2> QED BY <1>4, <2>1, <2>2 DEF Fence
<1>5. CASE Reuse(h)
  <2>1. CASE Rollback(h, "conflict")
    BY <1>1, <1>5, <2>1, RollbackGoesOn DEF Reuse, Uncommitted
  <2>2. ASSUME NEW a, proc' = [proc EXCEPT ![h].pc = "ready", ![h].image = a]
        PROVE  GoesOn(h)
    <3>1. proc'[h].job = proc[h].job /\ proc'[h].gen = proc[h].gen
      BY <1>1, <2>2 DEF TypeOK, Processes
    <3> QED BY <1>5, <3>1 DEF Reuse, GoesOn, Uncommitted, ImportSteps, rows
  <2> QED BY <1>5, <2>1, <2>2 DEF Reuse
<1>6. CASE Commit(h)
  <2>1. /\ proc'[h].pc = "finish" /\ proc'[h].job = proc[h].job
        /\ proc'[h].gen = proc[h].gen
    BY <1>1, <1>6 DEF Commit, TypeOK, Processes
  <2> QED BY <1>6, <2>1 DEF Commit, GoesOn, Uncommitted, ImportSteps
<1>7. CASE CommitFails(h)
  BY <1>1, <1>7, RollbackGoesOn DEF CommitFails, Uncommitted
<1>8. CASE Finish(h) \/ RecordFailure(h)
  BY <1>1, <1>8, IdleGoesOn DEF Finish, RecordFailure
<1>9. CASE Compensate(h)
  BY <1>1, <1>9, FailWithGoesOn DEF Compensate
<1> QED BY <1>2, <1>3, <1>4, <1>5, <1>6, <1>7, <1>8, <1>9 DEF ImportStep

LEMMA StepOwn ==
    ASSUME TypeInv, IssuedInv, NEW h \in Handlers, HandlerStep(h)
    PROVE  Enters(h) \/ GoesOn(h)
<1>1. TypeOK /\ proc[h] \in Processes
  BY DEF TypeInv, TypeOK
<1>2. CASE ImportStep(h)
  BY <1>2, ImportStepOwn
<1>3. CASE DeleteStep(h)
  <2>1. CASE proc' = [proc EXCEPT ![h] = Idle]
    BY <1>1, <2>1, IdleGoesOn
  <2>2. CASE proc' # [proc EXCEPT ![h] = Idle]
    <3>1. proc'[h].pc \in {"deleting", "remove", "removing", "removed"}
      BY <1>1, <1>3, <2>2 DEF DeleteStep, DeleteDedup, DeletePinFails,
         DeletePin, Remove, RemoveFile, ForgetPending, Sweep, Goto, TypeOK,
         Processes
    <3> QED BY <3>1 DEF GoesOn, ImportSteps
  <2> QED BY <2>1, <2>2
<1>4. CASE Failure(h)
  <2>1. CASE ClaimBusy(h) \/ RecordBusy(h) \/ RemoveFails(h) \/ Crash(h)
    BY <1>1, <2>1, IdleGoesOn DEF ClaimBusy, RecordBusy, RemoveFails, Crash
  <2>2. ASSUME NEW e, FetchFails(h, e) \/ CompensateFails(h) PROVE GoesOn(h)
    BY <1>1, <2>2, FailWithGoesOn DEF CompensateFails, FetchFails
  <2>3. ASSUME NEW e, ImportError(h, e) PROVE GoesOn(h)
    <3>1. proc[h].pc \in Uncommitted
      BY <2>3 DEF ImportError, Uncommitted
    <3> QED BY <1>1, <2>3, <3>1, RollbackGoesOn DEF ImportError
  <2> QED BY <1>4, <2>1, <2>2, <2>3 DEF Failure
<1>5. CASE Request(h)
  <2>1. ASSUME NEW p \in DOMAIN pins, BeginDelete(h, p) PROVE GoesOn(h)
    <3>1. proc'[h].pc = "delete"
      BY <1>1, <2>1 DEF BeginDelete, TypeOK, Idle
    <3> QED BY <3>1 DEF GoesOn, ImportSteps
  <2> QED BY <1>5, <2>1, AskEnters, BeginSingleEnters DEF Request
<1>6. CASE Maintenance(h)
  <2>1. PICK a \in Assets : Retry(h, a) \/ BeginSweep(h, a) \/ SweepStaging(h, a)
    BY <1>6 DEF Maintenance
  <2>2. CASE Retry(h, a)
    <3>1. proc'[h].pc = "remove"
      BY <1>1, <2>2 DEF Retry, TypeOK, Idle
    <3> QED BY <3>1 DEF GoesOn, ImportSteps
  <2>3. CASE BeginSweep(h, a)
    <3>1. proc'[h].pc = "sweep"
      BY <1>1, <2>3 DEF BeginSweep, TypeOK, Idle
    <3> QED BY <3>1 DEF GoesOn, ImportSteps
  <2>4. CASE SweepStaging(h, a)
    BY <2>4 DEF SweepStaging, GoesOn, rows
  <2> QED BY <2>1, <2>2, <2>3, <2>4
<1> QED BY <1>2, <1>3, <1>4, <1>5, <1>6 DEF HandlerStep

\* What the ids in use become in one step.
UsedStep(h) ==
    \A a \in Ids :
        Used(a)' => Used(a) \/ (proc[h].pc \in ImportSteps /\ Commit(h) /\ a = Own(h))

LEMMA OthersHeld ==
    ASSUME TypeInv, NEW h \in Handlers, HandlerStep(h), NEW a \in Ids,
           NEW g \in Handlers, g # h, HeldBy(g, a)'
    PROVE  HeldBy(g, a)
<1>1. proc'[g] = proc[g]
  BY OthersUnchanged DEF TypeInv
<1> QED BY <1>1 DEF HeldBy

\* It is enough to look at the rows and at the handler itself.
LEMMA UsedSplit ==
    ASSUME TypeInv, NEW h \in Handlers, HandlerStep(h),
           \A a \in Ids : HeldBy(h, a)' => Used(a),
           \A a \in Ids : a \in (images \cup pending \cup DOMAIN pins)' =>
               Used(a) \/ (proc[h].pc \in ImportSteps /\ Commit(h) /\ a = Own(h))
    PROVE  UsedStep(h)
<1> SUFFICES ASSUME NEW a \in Ids, Used(a)'
             PROVE  \/ Used(a)
                    \/ proc[h].pc \in ImportSteps /\ Commit(h) /\ a = Own(h)
  BY DEF UsedStep
<1>1. CASE a \in (images \cup pending \cup DOMAIN pins)'
  BY <1>1
<1>2. ASSUME NEW g \in Handlers, HeldBy(g, a)' PROVE Used(a)
  BY <1>2, OthersHeld DEF Used
<1> QED BY <1>1, <1>2 DEF Used

LEMMA FreeHolds ==
    ASSUME NEW h \in Handlers, NEW a,
           proc'[h].pc \notin PinSteps \cup RemoveSteps
    PROVE  ~HeldBy(h, a)'
  BY DEF HeldBy

LEMMA ImportStepUsed ==
    ASSUME TypeInv, IssuedInv, NEW h \in Handlers, Ready(h), ImportStep(h)
    PROVE  UsedStep(h)
<1>1. TypeOK /\ proc[h] \in Processes
  BY DEF TypeInv, TypeOK
<1>2. HandlerStep(h)
  BY DEF HandlerStep
<1>3. proc'[h].pc \notin PinSteps \cup RemoveSteps
  <2>1. proc'[h].pc \in ImportSteps \cup ItemSteps \cup {"idle"}
    <3>1. CASE Reclaim(h)
      <4>1. ASSUME NEW m, NEW g, proc' = [proc EXCEPT ![h] = Fetching(m, g)]
            PROVE  proc'[h].pc = "fetch"
        BY <1>1, <4>1 DEF TypeOK, Fetching, Idle
      <4>2. ASSUME NEW m, NEW n, proc' = [proc EXCEPT ![h] = Reclaiming(m, n)]
            PROVE  proc'[h].pc = "reclaim"
        BY <1>1, <4>2 DEF TypeOK, Reclaiming, Idle
      <4>3. ASSUME proc' = [proc EXCEPT ![h] = Idle]
            PROVE  proc'[h].pc = "idle"
        BY <1>1, <4>3 DEF TypeOK, Idle
      <4> QED BY <3>1, <4>1, <4>2, <4>3 DEF Reclaim, ImportSteps, ItemSteps
    <3>2. CASE Prepare(h) \/ TakeDedup(h) \/ TakeLifecycle(h) \/ Publish(h)
      BY <1>1, <3>2 DEF Prepare, TakeDedup, TakeLifecycle, Publish, Goto,
         TypeOK, Processes, ImportSteps
    <3>3. ASSUME NEW e, Rollback(h, e) PROVE proc'[h].pc \in ImportSteps
      BY <1>1, <3>3 DEF Rollback, TypeOK, Processes, ImportSteps
    <3>4. CASE Fence(h) \/ Reuse(h)
      BY <1>1, <3>3, <3>4 DEF Fence, Reuse, Goto, TypeOK, Processes, ImportSteps
    <3>5. CASE Commit(h)
      BY <1>1, <3>5 DEF Commit, TypeOK, Processes, ImportSteps
    <3>6. CASE CommitFails(h)
      BY <3>3, <3>6 DEF CommitFails
    <3>7. CASE Finish(h) \/ RecordFailure(h)
      BY <1>1, <3>7 DEF Finish, RecordFailure, TypeOK, Idle
    <3>8. CASE Compensate(h)
      BY <1>1, <3>8 DEF Compensate, FailWith, TypeOK, Idle, Processes, ItemSteps
    <3> QED BY <3>1, <3>2, <3>4, <3>5, <3>6, <3>7, <3>8 DEF ImportStep
  <2> QED BY <2>1 DEF ImportSteps, ItemSteps, PinSteps, RemoveSteps
<1>4. ASSUME NEW a \in Ids, a \in (images \cup pending \cup DOMAIN pins)'
      PROVE  Used(a) \/ (proc[h].pc \in ImportSteps /\ Commit(h) /\ a = Own(h))
  <2>1. CASE Commit(h)
    <3>1. proc[h].pc = "ready" /\ proc[h].pc \in ImportSteps
      BY <2>1 DEF Commit, ImportSteps
    <3>2. proc[h].image \in images \/ proc[h].image = Own(h)
      BY <3>1 DEF Ready
    <3> QED BY <1>4, <2>1, <3>1, <3>2 DEF Commit, AddPin, Used
  <2>2. CASE ~Commit(h)
    <3>1. UNCHANGED <<images, pins, pending>>
      BY <2>2 DEF ImportStep, Reclaim, Prepare, TakeDedup, TakeLifecycle, Fence,
         Reuse, Publish, CommitFails, Finish, Compensate, RecordFailure, rows
    <3> QED BY <1>4, <3>1 DEF Used
  <2> QED BY <2>1, <2>2
<1> QED BY <1>2, <1>3, <1>4, FreeHolds, UsedSplit

LEMMA DeleteStepUsed ==
    ASSUME TypeInv, NEW h \in Handlers, DeleteStep(h)
    PROVE  UsedStep(h)
<1>1. TypeOK /\ proc[h] \in Processes
  BY DEF TypeInv, TypeOK
<1>2. HandlerStep(h)
  BY DEF HandlerStep
<1>3. ASSUME NEW a \in Ids, HeldBy(h, a)' PROVE Used(a)
  <2>1. CASE proc' = [proc EXCEPT ![h] = Idle]
    BY <1>1, <1>3, <2>1 DEF HeldBy, TypeOK, Idle, PinSteps, RemoveSteps
  <2>2. CASE proc' # [proc EXCEPT ![h] = Idle]
    <3>1. /\ proc[h].pc \in PinSteps \cup RemoveSteps
          /\ proc'[h].pc \in {"deleting", "remove", "removing", "removed"}
          /\ proc'[h].pc = "deleting" => proc[h].pc = "delete"
          /\ proc'[h].pin = proc[h].pin /\ proc'[h].image = proc[h].image
      BY <1>1, <2>2 DEF DeleteStep, DeleteDedup, DeletePinFails, DeletePin,
         Remove, RemoveFile, ForgetPending, Sweep, Goto, TypeOK, Processes,
         PinSteps, RemoveSteps
    <3>2. HeldBy(h, a)
      BY <1>3, <3>1 DEF HeldBy, PinSteps, RemoveSteps
    <3> QED BY <3>2 DEF Used
  <2> QED BY <2>1, <2>2
<1>4. ASSUME NEW a \in Ids, a \in (images \cup pending \cup DOMAIN pins)'
      PROVE  Used(a)
  <2>1. CASE DeletePin(h)
    <3>1. HeldBy(h, proc[h].image)
      BY <2>1 DEF DeletePin, HeldBy, PinSteps
    <3> QED BY <1>4, <2>1, <3>1 DEF DeletePin, Used
  <2>2. CASE ForgetPending(h)
    BY <1>4, <2>2 DEF ForgetPending, Used
  <2>3. CASE ~DeletePin(h) /\ ~ForgetPending(h)
    <3>1. UNCHANGED <<images, pins, pending>>
      BY <2>3 DEF DeleteStep, DeleteDedup, DeletePinFails, Remove,
         RemoveFile, Sweep, rows
    <3> QED BY <1>4, <3>1 DEF Used
  <2> QED BY <2>1, <2>2, <2>3
<1> QED BY <1>2, <1>3, <1>4, UsedSplit

LEMMA StepUsed ==
    ASSUME TypeInv, IssuedInv, ImagesMatchPins, NEW h \in Handlers, Ready(h),
           HandlerStep(h)
    PROVE  UsedStep(h)
<1>1. TypeOK /\ proc[h] \in Processes
  BY DEF TypeInv, TypeOK
<1>2. CASE ImportStep(h)
  BY <1>2, ImportStepUsed
<1>3. CASE DeleteStep(h)
  BY <1>3, DeleteStepUsed
<1>4. CASE Failure(h)
  <2>1. UNCHANGED <<images, pins, pending>>
    BY <1>4 DEF Failure, ClaimBusy, FetchFails, ImportError, CompensateFails,
       RecordBusy, RemoveFails, Crash, rows
  <2>2. proc'[h].pc \in {"idle", "failing", "rollback"}
    <3>1. CASE ClaimBusy(h) \/ RecordBusy(h) \/ RemoveFails(h) \/ Crash(h)
      BY <1>1, <3>1 DEF ClaimBusy, RecordBusy, RemoveFails, Crash, TypeOK, Idle
    <3>2. ASSUME NEW e, FailWith(h, e) PROVE proc'[h].pc \in {"idle", "failing"}
      BY <1>1, <3>2 DEF FailWith, TypeOK, Idle, Processes
    <3>3. ASSUME NEW e, ImportError(h, e) PROVE proc'[h].pc = "rollback"
      BY <1>1, <3>3 DEF ImportError, Rollback, TypeOK, Processes
    <3> QED BY <1>4, <3>1, <3>2, <3>3 DEF Failure, CompensateFails, FetchFails
  <2> QED BY <1>4, <2>1, <2>2, FreeHolds, UsedSplit
          DEF HandlerStep, PinSteps, RemoveSteps, Used
<1>5. CASE Request(h)
  <2>1. UNCHANGED <<images, pins, pending>>
    BY <1>5 DEF Request, Ask, BeginSingle, BeginDelete, rows
  <2>2. ASSUME NEW a \in Ids, HeldBy(h, a)' PROVE Used(a)
    <3>1. PICK p \in DOMAIN pins : BeginDelete(h, p)
      <4>1. ASSUME NEW i \in Items, Ask(h, i) PROVE FALSE
        <5>1. proc'[h].pc \in {"fetch", "reclaim"}
          <6>1. CASE proc' = [proc EXCEPT ![h] = Fetching(i, 1)]
            BY <1>1, <6>1 DEF TypeOK, Fetching, Idle
          <6>2. CASE proc' = [proc EXCEPT ![h] = Reclaiming(i, 1)]
            BY <1>1, <6>2 DEF TypeOK, Reclaiming, Idle
          <6> QED BY <4>1, <6>1, <6>2 DEF Ask
        <5> QED BY <2>2, <5>1 DEF HeldBy, PinSteps, RemoveSteps
      <4>2. ASSUME NEW s \in Singles, BeginSingle(h, s) PROVE FALSE
        <5>1. proc'[h].pc = "fetch"
          BY <1>1, <4>2 DEF BeginSingle, TypeOK, Fetching, Idle
        <5> QED BY <2>2, <5>1 DEF HeldBy, PinSteps, RemoveSteps
      <4> QED BY <1>5, <4>1, <4>2 DEF Request
    <3>2. /\ proc'[h].pc = "delete" /\ proc'[h].pin = p
          /\ proc'[h].image = pins[p]
      BY <1>1, <3>1 DEF BeginDelete, TypeOK, Idle
    <3>3. pins[p] \in images
      BY DEF ImagesMatchPins
    <3> QED BY <2>2, <3>2, <3>3 DEF HeldBy, PinSteps, RemoveSteps, Used
  <2> QED BY <1>5, <2>1, <2>2, UsedSplit DEF HandlerStep, Used
<1>6. CASE Maintenance(h)
  <2>1. UNCHANGED <<images, pins, pending>>
    BY <1>6 DEF Maintenance, Retry, BeginSweep, SweepStaging, rows
  <2>2. ASSUME NEW a \in Ids, HeldBy(h, a)' PROVE Used(a)
    <3>1. PICK b \in Assets :
             Retry(h, b) \/ BeginSweep(h, b) \/ SweepStaging(h, b)
      BY <1>6 DEF Maintenance
    <3>2. CASE Retry(h, b)
      <4>1. proc'[h].pc = "remove" /\ proc'[h].image = b /\ b \in pending
        BY <1>1, <3>2 DEF Retry, TypeOK, Idle
      <4> QED BY <2>2, <4>1 DEF HeldBy, PinSteps, RemoveSteps, Used
    <3>3. CASE BeginSweep(h, b)
      <4>1. proc'[h].pc = "sweep"
        BY <1>1, <3>3 DEF BeginSweep, TypeOK, Idle
      <4> QED BY <2>2, <4>1 DEF HeldBy, PinSteps, RemoveSteps
    <3>4. CASE SweepStaging(h, b)
      <4>1. proc' = proc
        BY <3>4 DEF SweepStaging
      <4> QED BY <2>2, <4>1 DEF HeldBy, Used
    <3> QED BY <3>1, <3>2, <3>3, <3>4
  <2> QED BY <1>6, <2>1, <2>2, UsedSplit DEF HandlerStep, Used
<1> QED BY <1>2, <1>3, <1>4, <1>5, <1>6 DEF HandlerStep

\* The disk gains only files of an import at work, and loses a published file
\* only in one of three ways.
DiskGains(h) ==
    \A f \in disk' : f \in disk \/ (proc[h].pc \in Uncommitted /\ f[2] = Own(h))

DiskLoses(h) ==
    \A a \in Ids : Final(a) \in disk /\ Final(a) \notin disk' =>
        \/ proc[h].pc = "rollback" /\ a = Own(h)
        \/ proc[h].pc = "removing" /\ a \notin images
        \/ LifecycleFree /\ a \notin images

LEMMA StepDisk ==
    ASSUME TypeInv, NEW h \in Handlers, HandlerStep(h)
    PROVE  DiskGains(h) /\ DiskLoses(h)
<1>1. CASE UNCHANGED disk
  BY <1>1 DEF DiskGains, DiskLoses
<1>2. CASE Prepare(h) \/ Publish(h)
  <2>1. proc[h].pc \in Uncommitted
    BY <1>2 DEF Prepare, Publish, Uncommitted
  <2>2. disk' = disk \cup {Staging(Own(h))} \/ disk' = disk \cup {Final(Own(h))}
    BY <1>2 DEF Prepare, Publish
  <2>3. \A f \in disk' : f \in disk \/ f[2] = Own(h)
    BY <2>2 DEF Staging, Final
  <2> QED BY <2>1, <2>2, <2>3 DEF DiskGains, DiskLoses
<1>3. CASE Finish(h) \/ CompensateFails(h)
  BY <1>3 DEF Finish, CompensateFails, DiskGains, DiskLoses, Staging, Final
<1>4. CASE Compensate(h)
  <2>1. disk' \subseteq disk /\ proc[h].pc = "rollback"
    BY <1>4 DEF Compensate
  <2>2. ASSUME NEW a \in Ids, Final(a) \in disk, Final(a) \notin disk'
        PROVE  a = Own(h)
    BY <1>4, <2>2 DEF Compensate, Created, Staging, Final
  <2> QED BY <2>1, <2>2 DEF DiskGains, DiskLoses
<1>5. CASE RemoveFile(h)
  <2>1. /\ disk' \subseteq disk /\ proc[h].pc = "removing"
        /\ disk' = disk \/ (/\ proc[h].image \notin images
                            /\ disk' = disk \ {Final(proc[h].image)})
    BY <1>5 DEF RemoveFile
  <2>2. ASSUME NEW a \in Ids, Final(a) \in disk, Final(a) \notin disk'
        PROVE  a \notin images
    BY <2>1, <2>2 DEF Final
  <2> QED BY <2>1, <2>2 DEF DiskGains, DiskLoses
<1>6. CASE Sweep(h)
  <2>1. \/ disk' = disk
        \/ /\ LifecycleFree /\ proc[h].image \notin images
           /\ disk' = disk \ {Final(proc[h].image)}
    BY <1>6 DEF Sweep, StillOrphan
  <2>2. ASSUME NEW a \in Ids, Final(a) \in disk, Final(a) \notin disk'
        PROVE  a \notin images /\ LifecycleFree
    BY <2>1, <2>2 DEF Final
  <2> QED BY <2>1, <2>2 DEF DiskGains, DiskLoses
<1>7. ASSUME NEW a, SweepStaging(h, a) PROVE DiskGains(h) /\ DiskLoses(h)
  BY <1>7 DEF SweepStaging, DiskGains, DiskLoses, Staging, Final
<1>8. CASE ImportStep(h)
  <2>1. \/ UNCHANGED disk \/ Prepare(h) \/ Publish(h) \/ Finish(h)
        \/ Compensate(h)
    BY <1>8 DEF ImportStep, Reclaim, TakeDedup, TakeLifecycle, Fence, Reuse,
       Commit, CommitFails, RecordFailure
  <2> QED BY <2>1, <1>1, <1>2, <1>3, <1>4
<1>9. CASE DeleteStep(h)
  <2>1. UNCHANGED disk \/ RemoveFile(h) \/ Sweep(h)
    BY <1>9 DEF DeleteStep, DeleteDedup, DeletePinFails, DeletePin, Remove,
       ForgetPending
  <2> QED BY <2>1, <1>1, <1>5, <1>6
<1>10. CASE Failure(h)
  <2>1. UNCHANGED disk \/ CompensateFails(h)
    BY <1>10 DEF Failure, ClaimBusy, FetchFails, ImportError, RecordBusy,
       RemoveFails, Crash
  <2> QED BY <2>1, <1>1, <1>3
<1>11. CASE Request(h) \/ Maintenance(h)
  <2>1. UNCHANGED disk \/ \E a \in Assets : SweepStaging(h, a)
    BY <1>11 DEF Request, Ask, BeginSingle, BeginDelete, Maintenance, Retry,
       BeginSweep
  <2> QED BY <2>1, <1>1, <1>7
<1> QED BY <1>8, <1>9, <1>10, <1>11 DEF HandlerStep

LEMMA HandlerStepIsNext ==
    ASSUME NEW h \in Handlers, HandlerStep(h)
    PROVE  [Next]_vars
  BY DEF HandlerStep, Next

LEMMA OwnIds ==
    ASSUME TypeInv, NEW h \in Handlers, proc[h].pc \in ImportSteps
    PROVE  Own(h) \in Ids
  BY OwnType DEF TypeInv, Shape

LEMMA StepIssued ==
    ASSUME TypeInv, IssuedInv, ImagesMatchPins, NEW h \in Handlers, Ready(h),
           HandlerStep(h)
    PROVE  IssuedInv'
<1>1. [Next]_vars /\ TypeOK /\ TypeOK'
  BY HandlerStepIsNext, StepType DEF TypeInv
<1>2. ASSUME NEW a \in Ids, Used(a)' PROVE Issued(a)'
  <2>1. Issued(a)
    <3>1. CASE Used(a)
      BY <3>1 DEF IssuedInv
    <3>2. CASE proc[h].pc \in ImportSteps /\ a = Own(h)
      BY <3>2 DEF IssuedInv
    <3> QED BY <1>2, <3>1, <3>2, StepUsed DEF UsedStep
  <2> QED BY <1>1, <2>1, IssuedGrows
<1>3. ASSUME NEW f \in disk' PROVE Issued(f[2])'
  <2>1. Issued(f[2])
    <3>1. CASE f \in disk
      BY <3>1 DEF IssuedInv
    <3>2. CASE proc[h].pc \in Uncommitted /\ f[2] = Own(h)
      BY <3>2 DEF IssuedInv, Uncommitted, ImportSteps
    <3> QED BY <3>1, <3>2, StepDisk DEF DiskGains
  <2>2. f[2] \in Ids
    BY <1>1 DEF TypeOK
  <2>3. PICK a \in Ids : a = f[2]
    BY <2>2
  <2> QED BY <1>1, <2>1, <2>3, IssuedGrows
<1>4. ASSUME NEW g \in Handlers, proc'[g].pc \in ImportSteps
      PROVE  Issued(Own(g))'
  <2>1. CASE /\ proc[g].pc \in ImportSteps
             /\ proc'[g].job = proc[g].job /\ proc'[g].gen = proc[g].gen
    <3>1. PICK a \in Ids : a = Own(g)
      BY <2>1, OwnIds
    <3>2. Issued(a)'
      BY <1>1, <2>1, <3>1, IssuedGrows DEF IssuedInv
    <3>3. Own(g)' = a
      BY <2>1, <3>1 DEF Own
    <3> QED BY <3>2, <3>3
  <2>2. CASE g = h /\ Enters(h)
    <3>1. PICK m \in Imports, n \in Nat :
             /\ proc'[h] = Fetching(m, n)
             /\ m \in Items => item'[m].gen = n
             /\ m \in Singles => m \in begun'
      BY <2>2 DEF Enters
    <3>2. Own(h)' = <<m, n>>
      BY <3>1 DEF Own, Fetching, Idle
    <3>3. m \in Items \/ m \in Singles
      BY DEF Imports
    <3>4. n <= n
      OBVIOUS
    <3> QED BY <2>2, <3>1, <3>2, <3>3, <3>4 DEF Issued
  <2>3. CASE g # h
    <3>1. proc'[g] = proc[g]
      BY <1>1, <2>3, OthersUnchanged
    <3> QED BY <1>4, <3>1, <2>1
  <2> QED BY <1>4, <2>1, <2>2, <2>3, StepOwn DEF GoesOn
<1>5. ASSUME NEW i \in Items PROVE Unclaimed(i)'
  <2>1. GenMoves(i)
    BY <1>1, StepGen
  <2> QED BY <2>1 DEF GenMoves, IssuedInv, Unclaimed
<1> QED BY <1>2, <1>3, <1>4, <1>5 DEF IssuedInv

LEMMA StepOwnInv ==
    ASSUME TypeInv, IssuedInv, OwnInv, ImagesMatchPins, NEW h \in Handlers,
           Ready(h), HandlerStep(h)
    PROVE  OwnInv'
<1>1. TypeOK /\ UsedStep(h) /\ (Enters(h) \/ GoesOn(h))
  BY StepUsed, StepOwn DEF TypeInv
<1>2. \A g \in Handlers : g # h => proc'[g] = proc[g]
  BY <1>1, OthersUnchanged
<1>3. ASSUME Enters(h), proc'[h].pc \in ImportSteps
      PROVE  Own(h)' \in Ids /\ ~Issued(Own(h)') /\ proc[h].pc \notin ImportSteps
  <2>1. PICK m \in Imports, n \in Nat :
           proc'[h] = Fetching(m, n) /\ ~Issued(<<m, n>>)
    BY <1>3 DEF Enters
  <2>2. Own(h)' = <<m, n>>
    BY <2>1 DEF Own, Fetching, Idle
  <2> QED BY <1>3, <2>1, <2>2 DEF Enters, Ids
<1>4. ASSUME NEW g \in Handlers, g # h,
             proc'[g].pc \in ImportSteps, proc'[h].pc \in ImportSteps
      PROVE  Own(g)' # Own(h)'
  <2>1. Own(g)' = Own(g) /\ proc[g].pc \in ImportSteps
    BY <1>2, <1>4 DEF Own
  <2>2. CASE Enters(h)
    BY <1>3, <1>4, <2>1, <2>2 DEF IssuedInv
  <2>3. CASE GoesOn(h)
    <3>1. proc[h].pc \in ImportSteps /\ Own(h)' = Own(h)
      BY <1>4, <2>3 DEF GoesOn, Own
    <3> QED BY <1>4, <2>1, <3>1 DEF OwnInv, Distinct
  <2> QED BY <1>1, <2>2, <2>3
<1>5. ASSUME NEW g \in Handlers, proc'[g].pc \in Uncommitted
      PROVE  ~Used(Own(g))'
  <2>1. CASE g # h
    <3>1. Own(g)' = Own(g) /\ proc[g].pc \in Uncommitted
      BY <1>2, <1>5, <2>1 DEF Own
    <3>2. Own(g) \in Ids /\ proc[g].pc \in ImportSteps
      BY <3>1, OwnIds DEF Uncommitted, ImportSteps
    <3>3. PICK a \in Ids : a = Own(g)
      BY <3>2
    <3>4. ~Used(a)
      BY <3>1, <3>3 DEF OwnInv
    <3>5. proc[h].pc \in ImportSteps => a # Own(h)
      BY <2>1, <3>2, <3>3 DEF OwnInv, Distinct
    <3>6. ~Used(a)'
      BY <1>1, <3>4, <3>5 DEF UsedStep
    <3> QED BY <3>1, <3>3, <3>6
  <2>2. CASE g = h /\ Enters(h)
    <3>1. /\ Own(h)' \in Ids /\ ~Issued(Own(h)')
          /\ proc[h].pc \notin ImportSteps
      BY <1>3, <1>5, <2>2 DEF Uncommitted, ImportSteps
    <3>2. PICK a \in Ids : a = Own(h)'
      BY <3>1
    <3>3. ~Used(a)
      BY <3>1, <3>2 DEF IssuedInv
    <3>4. ~Used(a)'
      BY <1>1, <3>1, <3>3 DEF UsedStep
    <3> QED BY <2>2, <3>2, <3>4
  <2>3. CASE g = h /\ GoesOn(h)
    <3>1. /\ proc[h].pc \in Uncommitted /\ proc[h].pc \in ImportSteps
          /\ Own(h)' = Own(h)
      BY <1>5, <2>3 DEF GoesOn, Own, Uncommitted, ImportSteps
    <3>2. PICK a \in Ids : a = Own(h)
      BY <3>1, OwnIds
    <3>3. ~Used(a)
      BY <3>1, <3>2 DEF OwnInv
    <3>4. ~Commit(h)
      <4> SUFFICES ASSUME Commit(h) PROVE FALSE
        OBVIOUS
      <4>1. proc[h] \in Processes
        BY <1>1 DEF TypeOK
      <4>2. proc'[h].pc = "finish"
        BY <1>1, <4>1 DEF Commit, TypeOK, Processes
      <4> QED BY <1>5, <2>3, <4>2 DEF Uncommitted
    <3>5. ~Used(a)'
      BY <1>1, <3>3, <3>4 DEF UsedStep
    <3> QED BY <2>3, <3>1, <3>2, <3>5
  <2> QED BY <1>1, <2>1, <2>2, <2>3
<1>6. ASSUME NEW f \in Handlers, NEW g \in Handlers, f # g
      PROVE  Distinct(f, g)'
  <2>1. CASE f # h /\ g # h
    <3>1. proc'[f] = proc[f] /\ proc'[g] = proc[g]
      BY <1>2, <2>1
    <3> QED BY <1>6, <3>1 DEF OwnInv, Distinct, Own
  <2>2. CASE f = h \/ g = h
    BY <1>4, <1>6, <2>2 DEF Distinct
  <2> QED BY <2>1, <2>2
<1> QED BY <1>5, <1>6 DEF OwnInv

-----------------------------------------------------------------------------
(* Locks.                                                                  *)

DedupMoves(h) ==
    \/ proc'[h].dedup \in {None, proc[h].dedup}
    \/ proc'[h].dedup # None /\ DedupFree(proc'[h].dedup)

MediaMoves(h) ==
    \/ proc'[h].media \in {"free", proc[h].media}
    \/ proc'[h].media = "shared" /\ NoExclusive
    \/ proc'[h].media = "exclusive" /\ LifecycleFree

LockMoves(h) == DedupMoves(h) /\ MediaMoves(h) /\ Locked(h)'

LEMMA FreeLocks ==
    ASSUME TypeOK, NEW h \in Handlers,
           proc'[h].dedup = None, proc'[h].media = "free",
           proc'[h].pc \notin {"deduped", "locked", "fenced", "ready", "removing"}
    PROVE  LockMoves(h)
  BY DEF LockMoves, DedupMoves, MediaMoves, Locked

LEMMA IdleLocks ==
    ASSUME TypeOK, NEW h \in Handlers, proc' = [proc EXCEPT ![h] = Idle]
    PROVE  LockMoves(h)
<1>1. /\ proc'[h].dedup = None /\ proc'[h].media = "free"
      /\ proc'[h].pc = "idle"
  BY DEF TypeOK, Idle
<1> QED BY <1>1, FreeLocks

LEMMA RollbackLocks ==
    ASSUME TypeOK, NEW h \in Handlers, NEW e, Rollback(h, e)
    PROVE  LockMoves(h)
<1>1. proc[h] \in Processes
  BY DEF TypeOK
<1>2. /\ proc'[h].dedup = None /\ proc'[h].media = "free"
      /\ proc'[h].pc = "rollback"
  BY <1>1 DEF Rollback, TypeOK, Processes
<1> QED BY <1>2, FreeLocks

LEMMA FailWithLocks ==
    ASSUME TypeOK, NEW h \in Handlers, NEW e, FailWith(h, e)
    PROVE  LockMoves(h)
<1>1. CASE proc' = [proc EXCEPT ![h].pc = "failing", ![h].image = None,
                                ![h].error = e]
  <2>1. proc[h] \in Processes
    BY DEF TypeOK
  <2>2. /\ proc'[h].dedup = proc[h].dedup /\ proc'[h].media = proc[h].media
        /\ proc'[h].pc = "failing"
    BY <1>1, <2>1 DEF TypeOK, Processes
  <2> QED BY <2>2 DEF LockMoves, DedupMoves, MediaMoves, Locked
<1> QED BY <1>1, IdleLocks DEF FailWith

LEMMA FetchingLocks ==
    ASSUME TypeOK, NEW h \in Handlers, NEW m, NEW g,
           \/ proc' = [proc EXCEPT ![h] = Fetching(m, g)]
           \/ proc' = [proc EXCEPT ![h] = Reclaiming(m, g)]
    PROVE  LockMoves(h)
<1>1. CASE proc' = [proc EXCEPT ![h] = Fetching(m, g)]
  <2>1. /\ proc'[h].dedup = None /\ proc'[h].media = "free"
        /\ proc'[h].pc = "fetch"
    BY <1>1 DEF TypeOK, Idle, Fetching
  <2> QED BY <2>1, FreeLocks
<1>2. CASE proc' = [proc EXCEPT ![h] = Reclaiming(m, g)]
  <2>1. /\ proc'[h].dedup = None /\ proc'[h].media = "free"
        /\ proc'[h].pc = "reclaim"
    BY <1>2 DEF TypeOK, Idle, Reclaiming
  <2> QED BY <2>1, FreeLocks
<1> QED BY <1>1, <1>2

LEMMA ImportStepLocks ==
    ASSUME TypeInv, NEW h \in Handlers, Locked(h), ImportStep(h)
    PROVE  LockMoves(h)
<1>1. TypeOK /\ proc[h] \in Processes
  BY DEF TypeInv, TypeOK
<1>2. CASE Reclaim(h)
  BY <1>1, <1>2, IdleLocks, FetchingLocks DEF Reclaim
<1>3. CASE Prepare(h)
  <2>1. /\ proc'[h].dedup = proc[h].dedup /\ proc'[h].media = proc[h].media
        /\ proc'[h].pc = "prepared"
    BY <1>1, <1>3 DEF Prepare, Goto, TypeOK, Processes
  <2> QED BY <2>1 DEF LockMoves, DedupMoves, MediaMoves, Locked
<1>4. CASE TakeDedup(h)
  <2>1. /\ proc'[h].dedup = Digest[proc[h].job] /\ proc'[h].pc = "deduped"
        /\ proc'[h].job = proc[h].job /\ proc'[h].media = proc[h].media
    BY <1>1, <1>4 DEF TakeDedup, TypeOK, Processes
  <2>2. proc'[h].dedup # None /\ DedupFree(proc'[h].dedup)
    <3>1. proc[h].job \in Imports
      BY <1>4 DEF TypeInv, Shape, TakeDedup, ImportSteps
    <3> QED BY <1>4, <2>1, <3>1, ContentType, NoneAssumption DEF TakeDedup
  <2> QED BY <2>1, <2>2 DEF LockMoves, DedupMoves, MediaMoves, Locked
<1>5. CASE TakeLifecycle(h)
  <2>1. /\ proc'[h].dedup = proc[h].dedup /\ proc'[h].pc = "locked"
        /\ proc'[h].job = proc[h].job /\ proc'[h].media = "shared"
    BY <1>1, <1>5 DEF TakeLifecycle, TypeOK, Processes
  <2> QED BY <1>5, <2>1
          DEF TakeLifecycle, LockMoves, DedupMoves, MediaMoves, Locked
<1>6. ASSUME proc[h].pc \in {"locked", "fenced"},
             proc'[h].pc \in {"fenced", "ready"},
             proc'[h].job = proc[h].job, proc'[h].dedup = proc[h].dedup,
             proc'[h].media = proc[h].media
      PROVE  LockMoves(h)
  BY <1>6 DEF LockMoves, DedupMoves, MediaMoves, Locked
<1>7. CASE Fence(h)
  <2>1. CASE proc' = Goto(h, "fenced")
    BY <1>1, <1>6, <1>7, <2>1 DEF Fence, Goto, TypeOK, Processes
  <2> QED BY <1>1, <1>7, <2>1, RollbackLocks DEF Fence
<1>8. CASE Reuse(h)
  <2>1. ASSUME NEW a, proc' = [proc EXCEPT ![h].pc = "ready", ![h].image = a]
        PROVE  LockMoves(h)
    BY <1>1, <1>6, <1>8, <2>1 DEF Reuse, TypeOK, Processes
  <2> QED BY <1>1, <1>8, <2>1, RollbackLocks DEF Reuse
<1>9. CASE Publish(h)
  BY <1>1, <1>6, <1>9 DEF Publish, TypeOK, Processes
<1>10. CASE Commit(h)
  <2>1. /\ proc'[h].dedup = None /\ proc'[h].media = "free"
        /\ proc'[h].pc = "finish"
    BY <1>1, <1>10 DEF Commit, TypeOK, Processes
  <2> QED BY <1>1, <2>1, FreeLocks
<1>11. CASE CommitFails(h)
  BY <1>1, <1>11, RollbackLocks DEF CommitFails
<1>12. CASE Finish(h) \/ RecordFailure(h)
  BY <1>1, <1>12, IdleLocks DEF Finish, RecordFailure
<1>13. CASE Compensate(h)
  BY <1>1, <1>13, FailWithLocks DEF Compensate
<1> QED BY <1>2, <1>3, <1>4, <1>5, <1>7, <1>8, <1>9, <1>10, <1>11, <1>12, <1>13
        DEF ImportStep

LEMMA DeleteStepLocks ==
    ASSUME TypeInv, NEW h \in Handlers, Locked(h), DeleteStep(h)
    PROVE  LockMoves(h)
<1>1. TypeOK /\ proc[h] \in Processes
  BY DEF TypeInv, TypeOK
<1>2. CASE proc' = [proc EXCEPT ![h] = Idle]
  BY <1>1, <1>2, IdleLocks
<1>3. CASE /\ proc[h].pc = "delete"
           /\ DedupFree(ContentOf(proc[h].image))
           /\ proc' = [proc EXCEPT ![h].pc = "deleting",
                                   ![h].dedup = ContentOf(proc[h].image)]
  <2>1. /\ proc'[h].dedup = ContentOf(proc[h].image) /\ proc'[h].pc = "deleting"
        /\ proc'[h].media = proc[h].media
    BY <1>1, <1>3 DEF TypeOK, Processes
  <2>2. proc'[h].dedup # None
    <3>1. proc[h].image \in Ids
      BY <1>3 DEF TypeInv, Shape, PinSteps
    <3> QED BY <2>1, <3>1, ContentType, NoneAssumption
  <2> QED BY <1>3, <2>1, <2>2 DEF LockMoves, DedupMoves, MediaMoves, Locked
<1>4. ASSUME NEW pc \in {"remove", "removed"}, proc' = Goto(h, pc)
      PROVE  LockMoves(h)
  <2>1. /\ proc'[h].dedup = proc[h].dedup /\ proc'[h].media = proc[h].media
        /\ proc'[h].pc = pc
    BY <1>1, <1>4 DEF Goto, TypeOK, Processes
  <2> QED BY <2>1 DEF LockMoves, DedupMoves, MediaMoves, Locked
<1>5. CASE /\ LifecycleFree
           /\ proc' = [proc EXCEPT ![h].pc = "removing",
                                   ![h].media = "exclusive"]
  <2>1. /\ proc'[h].dedup = proc[h].dedup /\ proc'[h].media = "exclusive"
        /\ proc'[h].pc = "removing"
    BY <1>1, <1>5 DEF TypeOK, Processes
  <2> QED BY <1>5, <2>1 DEF LockMoves, DedupMoves, MediaMoves, Locked
<1>6. CASE proc' = [proc EXCEPT ![h].pc = "removed", ![h].media = "free"]
  <2>1. /\ proc'[h].dedup = proc[h].dedup /\ proc'[h].media = "free"
        /\ proc'[h].pc = "removed"
    BY <1>1, <1>6 DEF TypeOK, Processes
  <2> QED BY <2>1 DEF LockMoves, DedupMoves, MediaMoves, Locked
<1> QED BY <1>2, <1>3, <1>4, <1>5, <1>6 DEF DeleteStep, DeleteDedup,
        DeletePinFails, DeletePin, Remove, RemoveFile, ForgetPending, Sweep

LEMMA StepLocks ==
    ASSUME TypeInv, NEW h \in Handlers, Locked(h), HandlerStep(h)
    PROVE  LockMoves(h)
<1>1. TypeOK
  BY DEF TypeInv
<1>2. CASE Failure(h)
  <2>1. CASE ClaimBusy(h) \/ RecordBusy(h) \/ RemoveFails(h) \/ Crash(h)
    BY <1>1, <2>1, IdleLocks DEF ClaimBusy, RecordBusy, RemoveFails, Crash
  <2>2. ASSUME NEW e, FetchFails(h, e) \/ CompensateFails(h)
        PROVE  LockMoves(h)
    BY <1>1, <2>2, FailWithLocks DEF FetchFails, CompensateFails
  <2>3. ASSUME NEW e, ImportError(h, e) PROVE LockMoves(h)
    BY <1>1, <2>3, RollbackLocks DEF ImportError
  <2> QED BY <1>2, <2>1, <2>2, <2>3 DEF Failure
<1>3. CASE Request(h)
  <2>1. ASSUME NEW i \in Items, Ask(h, i) PROVE LockMoves(h)
    BY <1>1, <2>1, FetchingLocks DEF Ask
  <2>2. ASSUME NEW s \in Singles, BeginSingle(h, s) PROVE LockMoves(h)
    BY <1>1, <2>2, FetchingLocks DEF BeginSingle
  <2>3. ASSUME NEW p \in DOMAIN pins, BeginDelete(h, p) PROVE LockMoves(h)
    <3>1. /\ proc'[h].dedup = None /\ proc'[h].media = "free"
          /\ proc'[h].pc = "delete"
      BY <1>1, <2>3 DEF BeginDelete, TypeOK, Idle
    <3> QED BY <1>1, <3>1, FreeLocks
  <2> QED BY <1>3, <2>1, <2>2, <2>3 DEF Request
<1>4. CASE Maintenance(h)
  <2>1. PICK a \in Assets : Retry(h, a) \/ BeginSweep(h, a) \/ SweepStaging(h, a)
    BY <1>4 DEF Maintenance
  <2>2. ASSUME NEW pc \in {"remove", "sweep"},
               proc' = [proc EXCEPT ![h] = [Idle EXCEPT !.pc = pc, !.image = a]]
        PROVE  LockMoves(h)
    <3>1. /\ proc'[h].dedup = None /\ proc'[h].media = "free"
          /\ proc'[h].pc = pc
      BY <1>1, <2>2 DEF TypeOK, Idle
    <3> QED BY <1>1, <3>1, FreeLocks
  <2>3. CASE SweepStaging(h, a)
    BY <2>3 DEF SweepStaging, LockMoves, DedupMoves, MediaMoves, Locked
  <2> QED BY <2>1, <2>2, <2>3 DEF Retry, BeginSweep
<1> QED BY <1>2, <1>3, <1>4, ImportStepLocks, DeleteStepLocks DEF HandlerStep

LEMMA StepLockInv ==
    ASSUME TypeInv, LockInv, NEW h \in Handlers, HandlerStep(h)
    PROVE  LockInv'
<1>1. LockMoves(h)
  BY StepLocks DEF LockInv
<1>2. \A g \in Handlers : g # h => proc'[g] = proc[g]
  BY OthersUnchanged DEF TypeInv
<1>3. ASSUME NEW g \in Handlers PROVE Locked(g)'
  <2>1. CASE g = h
    BY <1>1, <2>1 DEF LockMoves
  <2>2. CASE g # h
    BY <1>2, <2>2 DEF LockInv, Locked
  <2> QED BY <2>1, <2>2
<1>4. ASSUME NEW g \in Handlers, g # h
      PROVE  Exclusion(g, h)' /\ Exclusion(h, g)'
  <2>1. proc'[g] = proc[g] /\ Exclusion(g, h) /\ Exclusion(h, g)
    BY <1>2, <1>4 DEF LockInv
  <2>2. /\ proc'[g].dedup = proc'[h].dedup => proc'[g].dedup = None
        /\ proc'[h].dedup = proc'[g].dedup => proc'[h].dedup = None
    BY <1>1, <2>1 DEF LockMoves, DedupMoves, DedupFree, Exclusion
  <2>3. /\ proc'[g].media = "exclusive" => proc'[h].media = "free"
        /\ proc'[h].media = "exclusive" => proc'[g].media = "free"
    BY <1>1, <2>1 DEF LockMoves, MediaMoves, NoExclusive, LifecycleFree, Exclusion
  <2> QED BY <2>2, <2>3 DEF Exclusion
<1>5. ASSUME NEW f \in Handlers, NEW g \in Handlers, f # g
      PROVE  Exclusion(f, g)'
  <2>1. CASE f = h \/ g = h
    BY <1>4, <1>5, <2>1
  <2>2. CASE f # h /\ g # h
    <3>1. proc'[f] = proc[f] /\ proc'[g] = proc[g] /\ Exclusion(f, g)
      BY <1>2, <1>5, <2>2 DEF LockInv
    <3> QED BY <3>1 DEF Exclusion
  <2> QED BY <2>1, <2>2
<1> QED BY <1>3, <1>5 DEF LockInv

-----------------------------------------------------------------------------
(* Which action has which effect.                                          *)

LEMMA StepRows ==
    ASSUME NEW h \in Handlers, HandlerStep(h)
    PROVE  \/ UNCHANGED <<images, pins, pending>>
           \/ Commit(h) \/ DeletePin(h) \/ ForgetPending(h)
<1>1. CASE ImportStep(h)
  BY <1>1 DEF ImportStep, Reclaim, Prepare, TakeDedup, TakeLifecycle, Fence,
     Reuse, Publish, CommitFails, Finish, Compensate, RecordFailure, rows
<1>2. CASE DeleteStep(h)
  BY <1>2 DEF DeleteStep, DeleteDedup, DeletePinFails, Remove, RemoveFile,
     Sweep, rows
<1>3. CASE Failure(h)
  BY <1>3 DEF Failure, ClaimBusy, FetchFails, ImportError, CompensateFails,
     RecordBusy, RemoveFails, Crash, rows
<1>4. CASE Request(h) \/ Maintenance(h)
  BY <1>4 DEF Request, Ask, BeginSingle, BeginDelete, Maintenance, Retry,
     BeginSweep, SweepStaging, rows
<1> QED BY <1>1, <1>2, <1>3, <1>4 DEF HandlerStep

\* The steps that hold nothing, where an import or a deletion ends.
RestSteps == {"idle", "reclaim", "failing", "sweep"}

RollsBack(h) ==
    /\ proc[h].pc \in {"prepared", "deduped", "locked", "fenced", "ready"}
    /\ UNCHANGED <<rows, disk, abandoned>>
    /\ \E e : Rollback(h, e)

ImportArrival(h) ==
    \/ Prepare(h) \/ TakeDedup(h) \/ TakeLifecycle(h)
    \/ Fence(h) /\ proc' = Goto(h, "fenced")
    \/ /\ Reuse(h)
       /\ \E a \in Stored(h) : /\ Final(a) \in disk
                               /\ proc' = [proc EXCEPT ![h].pc = "ready",
                                                       ![h].image = a]
    \/ Publish(h) \/ Commit(h) \/ RollsBack(h)

DeleteArrival(h) ==
    \/ \E p \in DOMAIN pins : BeginDelete(h, p)
    \/ DeleteDedup(h) \/ DeletePin(h)
    \/ \E a \in pending : Retry(h, a)
    \/ Remove(h) \/ RemoveFile(h)

Arrives(h) ==
    \/ proc'[h].pc \in RestSteps
    \/ proc' = proc /\ UNCHANGED rows /\ DiskGains(h) /\ disk' \subseteq disk
    \/ Enters(h) \/ ImportArrival(h) \/ DeleteArrival(h)

LEMMA IdleRests ==
    ASSUME TypeOK, NEW h \in Handlers, proc' = [proc EXCEPT ![h] = Idle]
    PROVE  proc'[h].pc \in RestSteps
  BY DEF TypeOK, Idle, RestSteps

LEMMA FailWithRests ==
    ASSUME TypeOK, NEW h \in Handlers, NEW e, FailWith(h, e)
    PROVE  proc'[h].pc \in RestSteps
<1>1. CASE proc' = [proc EXCEPT ![h].pc = "failing", ![h].image = None,
                                ![h].error = e]
  <2>1. proc[h] \in Processes
    BY DEF TypeOK
  <2> QED BY <1>1, <2>1 DEF TypeOK, Processes, RestSteps
<1> QED BY <1>1, IdleRests DEF FailWith

LEMMA EntersOrRests ==
    ASSUME TypeInv, IssuedInv, NEW h \in Handlers,
           Reclaim(h) \/ \E i \in Items : Ask(h, i)
    PROVE  proc'[h].pc \in RestSteps \/ Enters(h)
<1>1. TypeOK
  BY DEF TypeInv
<1>2. Enters(h) \/ GoesOn(h)
  BY ReclaimEnters, AskEnters
<1>3. proc[h].pc \notin ImportSteps
  BY DEF Reclaim, Ask, ImportSteps
<1>4. ASSUME NEW m, NEW n, proc' = [proc EXCEPT ![h] = Reclaiming(m, n)]
      PROVE  proc'[h].pc \in RestSteps
  BY <1>1, <1>4 DEF TypeOK, Reclaiming, Idle, RestSteps
<1>5. ASSUME NEW m, NEW n, proc' = [proc EXCEPT ![h] = Fetching(m, n)]
      PROVE  Enters(h)
  <2>1. proc'[h].pc = "fetch"
    BY <1>1, <1>5 DEF TypeOK, Fetching, Idle
  <2> QED BY <1>2, <1>3, <2>1 DEF GoesOn, ImportSteps
<1> QED BY <1>1, <1>4, <1>5, IdleRests DEF Reclaim, Ask

LEMMA StepArrives ==
    ASSUME TypeInv, IssuedInv, NEW h \in Handlers, HandlerStep(h)
    PROVE  Arrives(h)
<1>1. TypeOK
  BY DEF TypeInv
<1>2. CASE ImportStep(h)
  <2>1. CASE Reclaim(h)
    BY <2>1, EntersOrRests DEF Arrives
  <2>2. CASE Prepare(h) \/ TakeDedup(h) \/ TakeLifecycle(h) \/ Publish(h)
             \/ Commit(h)
    BY <2>2 DEF Arrives, ImportArrival
  <2>3. CASE Fence(h)
    <3>1. CASE Rollback(h, "lost")
      BY <2>3, <3>1 DEF Fence, Arrives, ImportArrival, RollsBack
    <3> QED BY <2>3, <3>1 DEF Fence, Arrives, ImportArrival
  <2>4. CASE Reuse(h)
    <3>1. CASE Rollback(h, "conflict")
      BY <2>4, <3>1 DEF Reuse, Arrives, ImportArrival, RollsBack
    <3>2. CASE ~Rollback(h, "conflict")
      <4>1. \E a \in Stored(h) : /\ Final(a) \in disk
                                 /\ proc' = [proc EXCEPT ![h].pc = "ready",
                                                         ![h].image = a]
        BY <2>4, <3>2 DEF Reuse
      <4> QED BY <2>4, <4>1 DEF Arrives, ImportArrival
    <3> QED BY <3>1, <3>2
  <2>5. CASE CommitFails(h)
    BY <2>5 DEF CommitFails, Arrives, ImportArrival, RollsBack
  <2>6. CASE Finish(h) \/ RecordFailure(h)
    BY <1>1, <2>6, IdleRests DEF Finish, RecordFailure, Arrives
  <2>7. CASE Compensate(h)
    BY <1>1, <2>7, FailWithRests DEF Compensate, Arrives
  <2> QED BY <1>2, <2>1, <2>2, <2>3, <2>4, <2>5, <2>6, <2>7 DEF ImportStep
<1>3. CASE DeleteStep(h)
  <2>1. CASE DeletePinFails(h) \/ ForgetPending(h) \/ Sweep(h)
    BY <1>1, <2>1, IdleRests DEF DeletePinFails, ForgetPending, Sweep, Arrives
  <2> QED BY <1>3, <2>1 DEF DeleteStep, Arrives, DeleteArrival
<1>4. CASE Failure(h)
  <2>1. CASE ClaimBusy(h) \/ RecordBusy(h) \/ RemoveFails(h) \/ Crash(h)
    BY <1>1, <2>1, IdleRests DEF ClaimBusy, RecordBusy, RemoveFails, Crash,
       Arrives
  <2>2. ASSUME NEW e, FetchFails(h, e) \/ CompensateFails(h) PROVE Arrives(h)
    BY <1>1, <2>2, FailWithRests DEF CompensateFails, FetchFails, Arrives
  <2>3. ASSUME NEW e, ImportError(h, e) PROVE Arrives(h)
    BY <2>3 DEF ImportError, Arrives, ImportArrival, RollsBack
  <2> QED BY <1>4, <2>1, <2>2, <2>3 DEF Failure
<1>5. CASE Request(h)
  <2>1. CASE \E i \in Items : Ask(h, i)
    BY <2>1, EntersOrRests DEF Arrives
  <2>2. CASE \E s \in Singles : BeginSingle(h, s)
    BY <2>2, BeginSingleEnters DEF Arrives
  <2> QED BY <1>5, <2>1, <2>2 DEF Request, Arrives, DeleteArrival
<1>6. CASE Maintenance(h)
  <2>1. PICK a \in Assets : Retry(h, a) \/ BeginSweep(h, a) \/ SweepStaging(h, a)
    BY <1>6 DEF Maintenance
  <2>2. CASE Retry(h, a)
    BY <2>2 DEF Retry, Arrives, DeleteArrival
  <2>3. CASE BeginSweep(h, a)
    <3>1. proc'[h].pc = "sweep"
      BY <1>1, <2>3 DEF BeginSweep, TypeOK, Idle
    <3> QED BY <3>1 DEF Arrives, RestSteps
  <2>4. CASE SweepStaging(h, a)
    BY <2>4 DEF SweepStaging, Arrives, DiskGains
  <2> QED BY <2>1, <2>2, <2>3, <2>4
<1> QED BY <1>2, <1>3, <1>4, <1>5, <1>6 DEF HandlerStep

\* The actions by which an import ends.
LEMMA ImportEnds ==
    ASSUME TypeInv, IssuedInv, NEW h \in Handlers, HandlerStep(h),
           proc[h].pc \in ImportSteps, proc'[h].pc \notin ImportSteps
    PROVE  \/ Finish(h) \/ Compensate(h) \/ CompensateFails(h)
           \/ (\E e : FetchFails(h, e)) \/ Crash(h)
<1>1. TypeOK /\ proc[h] \in Processes
  BY DEF TypeInv, TypeOK
<1>2. ASSUME NEW e, Rollback(h, e) PROVE FALSE
  BY <1>1, <1>2 DEF Rollback, TypeOK, Processes, ImportSteps
<1>3. CASE ImportStep(h)
  <2>1. CASE Prepare(h) \/ TakeDedup(h) \/ TakeLifecycle(h) \/ Publish(h)
             \/ Commit(h)
    BY <1>1, <2>1 DEF Prepare, TakeDedup, TakeLifecycle, Publish, Commit, Goto,
       TypeOK, Processes, ImportSteps
  <2>2. CASE Fence(h) \/ Reuse(h)
    BY <1>1, <1>2, <2>2 DEF Fence, Reuse, Goto, TypeOK, Processes, ImportSteps
  <2>3. CASE CommitFails(h)
    BY <1>2, <2>3 DEF CommitFails
  <2>4. CASE Reclaim(h) \/ RecordFailure(h)
    BY <2>4 DEF Reclaim, RecordFailure, ImportSteps
  <2> QED BY <1>3, <2>1, <2>2, <2>3, <2>4 DEF ImportStep
<1>4. CASE DeleteStep(h)
  BY <1>4 DEF DeleteStep, DeleteDedup, DeletePinFails, DeletePin, Remove,
     RemoveFile, ForgetPending, Sweep, ImportSteps
<1>5. CASE Failure(h)
  BY <1>2, <1>5 DEF Failure, ClaimBusy, ImportError, RecordBusy, RemoveFails,
     ImportSteps
<1>6. CASE Request(h) \/ Maintenance(h)
  <2>1. proc[h].pc = "idle"
    BY <1>6 DEF Request, Ask, BeginSingle, BeginDelete, Maintenance, Retry,
       BeginSweep, SweepStaging
  <2> QED BY <2>1 DEF ImportSteps
<1> QED BY <1>3, <1>4, <1>5, <1>6 DEF HandlerStep

-----------------------------------------------------------------------------
(* The invariant is inductive.                                             *)

LEMMA SafeTypes ==
    ASSUME SafeInv, NEW h \in Handlers, HandlerStep(h)
    PROVE  /\ TypeInv /\ TypeOK /\ proc[h] \in Processes
           /\ TypeOK' /\ proc'[h] \in Processes
           /\ \A g \in Handlers : g # h => proc'[g] = proc[g]
<1>1. TypeInv /\ TypeOK
  BY DEF SafeInv, TypeInv
<1>2. TypeOK'
  BY <1>1, StepType DEF TypeInv
<1>3. \A g \in Handlers : g # h => proc'[g] = proc[g]
  BY <1>1, OthersUnchanged
<1> QED BY <1>1, <1>2, <1>3 DEF TypeOK

\* An id that is not committed yet is no image, is not journalled, is no pin.
LEMMA OwnUnused ==
    ASSUME SafeInv, NEW h \in Handlers, proc[h].pc \in Uncommitted
    PROVE  /\ Own(h) \in Ids /\ ~Used(Own(h))
           /\ Own(h) \notin images \cup pending \cup DOMAIN pins
<1>1. Own(h) \in Ids
  BY OwnIds DEF SafeInv, Uncommitted, ImportSteps
<1>2. ~Used(Own(h))
  BY DEF SafeInv, OwnInv
<1> QED BY <1>1, <1>2 DEF Used

LEMMA OwnDiffers ==
    ASSUME SafeInv, NEW g \in Handlers, NEW h \in Handlers, g # h,
           proc[g].pc \in ImportSteps, proc[h].pc \in ImportSteps
    PROVE  Own(g) # Own(h)
  BY DEF SafeInv, OwnInv, Distinct

-----------------------------------------------------------------------------
(* Images and their files and pins.                                        *)

LEMMA CommitImage ==
    ASSUME SafeInv, NEW h \in Handlers, Commit(h)
    PROVE  /\ proc[h].pc = "ready" /\ proc[h].image \in Ids
           /\ proc[h].image \in images \/ proc[h].image = Own(h)
           /\ ContentOf(proc[h].image) = Digest[proc[h].job]
           /\ Final(proc[h].image) \in disk
<1>1. proc[h].pc = "ready"
  BY DEF Commit
<1>2. proc[h].image \in Ids
  BY <1>1 DEF SafeInv, TypeInv, Shape
<1> QED BY <1>1, <1>2 DEF SafeInv, Ready

LEMMA ImagesShrink ==
    ASSUME NEW h \in Handlers, HandlerStep(h), ~Commit(h)
    PROVE  images' \subseteq images
  BY StepRows DEF DeletePin, ForgetPending

LEMMA StepPresent ==
    ASSUME SafeInv, NEW h \in Handlers, HandlerStep(h)
    PROVE  ReferencedFilesPresent'
<1> SUFFICES ASSUME NEW a \in images' PROVE Final(a) \in disk'
  BY DEF ReferencedFilesPresent, Final
<1>1. CASE Commit(h)
  BY <1>1, CommitImage DEF Commit, SafeInv, ReferencedFilesPresent
<1>2. CASE ~Commit(h)
  <2>1. a \in images
    BY <1>2, ImagesShrink
  <2>2. a \in Ids /\ Final(a) \in disk /\ TypeInv
    BY <2>1, SafeTypes DEF SafeInv, ReferencedFilesPresent, TypeOK
  <2>3. ~(proc[h].pc = "rollback" /\ a = Own(h))
    BY <2>1, OwnUnused DEF Uncommitted
  <2> QED BY <2>1, <2>2, <2>3, StepDisk DEF DiskLoses
<1> QED BY <1>1, <1>2

LEMMA StepPins ==
    ASSUME SafeInv, NEW h \in Handlers, HandlerStep(h)
    PROVE  ImagesMatchPins'
<1>1. images = {pins[p] : p \in DOMAIN pins}
  BY DEF SafeInv, ImagesMatchPins
<1>2. CASE Commit(h)
  <2>1. Own(h) \notin DOMAIN pins
    BY <1>2, OwnUnused DEF Commit, Uncommitted
  <2>2. /\ DOMAIN pins' = DOMAIN pins \cup {Own(h)}
        /\ pins'[Own(h)] = proc[h].image
        /\ \A q \in DOMAIN pins : pins'[q] = pins[q]
    BY <1>2, <2>1 DEF Commit, AddPin
  <2> QED BY <1>1, <1>2, <2>2 DEF Commit, ImagesMatchPins
<1>3. CASE DeletePin(h)
  <2> DEFINE p == proc[h].pin
             a == proc[h].image
  <2>1. p \in DOMAIN pins /\ pins[p] = a
    BY <1>3 DEF DeletePin, Known, SafeInv, Deletes, PinSteps
  <2>2. /\ DOMAIN pins' = DOMAIN pins \ {p}
        /\ \A q \in DOMAIN pins' : pins'[q] = pins[q]
    BY <1>3 DEF DeletePin
  <2>3. CASE LastPin(h)
    <3>1. images' = images \ {a}
      BY <1>3, <2>3 DEF DeletePin
    <3>2. \A q \in DOMAIN pins : q # p => pins[q] # a
      BY <2>3 DEF LastPin, PinsOf
    <3> QED BY <1>1, <2>1, <2>2, <3>1, <3>2 DEF ImagesMatchPins
  <2>4. CASE ~LastPin(h)
    <3>1. PICK q \in DOMAIN pins : q # p /\ pins[q] = a
      BY <2>1, <2>4 DEF LastPin, PinsOf
    <3>2. images' = images
      BY <1>3, <2>4 DEF DeletePin
    <3> QED BY <1>1, <2>1, <2>2, <3>1, <3>2 DEF ImagesMatchPins
  <2> QED BY <2>3, <2>4
<1>4. CASE UNCHANGED <<images, pins>>
  BY <1>1, <1>4 DEF ImagesMatchPins
<1> QED BY <1>2, <1>3, <1>4, StepRows DEF ForgetPending

LEMMA StepJournal ==
    ASSUME SafeInv, NEW h \in Handlers, HandlerStep(h)
    PROVE  Journal'
<1>1. images \cap pending = {}
  BY DEF SafeInv, Journal
<1>2. CASE Commit(h)
  <2>1. proc[h].image \notin pending
    BY <1>1, <1>2, CommitImage, OwnUnused DEF Uncommitted
  <2> QED BY <1>1, <1>2, <2>1 DEF Commit, Journal
<1>3. CASE DeletePin(h) \/ ForgetPending(h)
  BY <1>1, <1>3 DEF DeletePin, ForgetPending, Journal
<1> QED BY <1>1, <1>2, <1>3, StepRows DEF Journal

-----------------------------------------------------------------------------
(* What a handler remembers where it arrives.                              *)

LEMMA ImportArrives ==
    ASSUME TypeInv, NEW h \in Handlers, proc'[h] \in Processes
    PROVE  /\ Prepare(h) => proc'[h].pc = "prepared"
           /\ TakeDedup(h) => proc'[h].pc = "deduped"
           /\ TakeLifecycle(h) => proc'[h].pc = "locked"
           /\ proc' = Goto(h, "fenced") => proc'[h].pc = "fenced"
           /\ Commit(h) => proc'[h].pc = "finish"
           /\ RollsBack(h) => proc'[h].pc = "rollback"
<1>1. proc[h] \in Processes
  BY DEF TypeInv, TypeOK
<1>2. Prepare(h) => proc'[h].pc = "prepared"
  BY <1>1 DEF TypeInv, TypeOK, Processes, Prepare, Goto
<1>3. TakeDedup(h) => proc'[h].pc = "deduped"
  BY <1>1 DEF TypeInv, TypeOK, Processes, TakeDedup
<1>4. TakeLifecycle(h) => proc'[h].pc = "locked"
  BY <1>1 DEF TypeInv, TypeOK, Processes, TakeLifecycle
<1>5. proc' = Goto(h, "fenced") => proc'[h].pc = "fenced"
  BY <1>1 DEF TypeInv, TypeOK, Processes, Goto
<1>6. Commit(h) => proc'[h].pc = "finish"
  BY <1>1 DEF TypeInv, TypeOK, Processes, Commit
<1>7. RollsBack(h) => proc'[h].pc = "rollback"
  BY <1>1 DEF TypeInv, TypeOK, Processes, RollsBack, Rollback
<1> QED BY <1>2, <1>3, <1>4, <1>5, <1>6, <1>7

LEMMA KeepsOwn ==
    ASSUME TypeInv, NEW h \in Handlers, ImportArrival(h)
    PROVE  /\ proc'[h].job = proc[h].job /\ proc'[h].gen = proc[h].gen
           /\ Own(h)' = Own(h)
<1>1. TypeOK /\ proc[h] \in Processes
  BY DEF TypeInv, TypeOK
<1>2. proc'[h].job = proc[h].job /\ proc'[h].gen = proc[h].gen
  <2>1. CASE Prepare(h) \/ TakeDedup(h) \/ TakeLifecycle(h) \/ Publish(h)
             \/ Commit(h)
    BY <1>1, <2>1 DEF Prepare, TakeDedup, TakeLifecycle, Publish, Commit, Goto,
       TypeOK, Processes
  <2>2. CASE RollsBack(h)
    BY <1>1, <2>2 DEF RollsBack, Rollback, TypeOK, Processes
  <2>3. CASE proc' = Goto(h, "fenced")
    BY <1>1, <2>3 DEF Goto, TypeOK, Processes
  <2>4. ASSUME NEW a, proc' = [proc EXCEPT ![h].pc = "ready", ![h].image = a]
        PROVE  proc'[h].job = proc[h].job /\ proc'[h].gen = proc[h].gen
    BY <1>1, <2>4 DEF TypeOK, Processes
  <2> QED BY <2>1, <2>2, <2>3, <2>4 DEF ImportArrival
<1> QED BY <1>2 DEF Own

LEMMA DeleteArrives ==
    ASSUME TypeInv, NEW h \in Handlers
    PROVE  /\ \A p \in DOMAIN pins : BeginDelete(h, p) =>
                 /\ proc'[h].pc = "delete" /\ proc'[h].pin = p
                 /\ proc'[h].image = pins[p]
           /\ \A a : Retry(h, a) => proc'[h].pc = "remove" /\ proc'[h].image = a
           /\ DeleteDedup(h) \/ DeletePin(h) \/ Remove(h) \/ RemoveFile(h) =>
                 \/ proc'[h].pc = "idle"
                 \/ /\ proc'[h].pin = proc[h].pin
                    /\ proc'[h].image = proc[h].image
           /\ DeleteDedup(h) => proc'[h].pc \in {"idle", "deleting"}
           /\ DeletePin(h) => proc'[h].pc \in {"idle", "remove"}
           /\ proc'[h].pc = "remove" /\ DeletePin(h) =>
                 images' = images \ {proc[h].image}
           /\ Remove(h) => proc'[h].pc \in {"idle", "removing", "removed"}
           /\ proc'[h].pc = "removed" /\ Remove(h) => proc[h].image \in images
           /\ RemoveFile(h) => proc'[h].pc = "removed"
<1>1. TypeOK /\ proc[h] \in Processes
  BY DEF TypeInv, TypeOK
<1>2. proc' = [proc EXCEPT ![h] = Idle] => proc'[h].pc = "idle"
  BY <1>1 DEF TypeOK, Idle
<1>3. \A p \in DOMAIN pins : BeginDelete(h, p) =>
         /\ proc'[h].pc = "delete" /\ proc'[h].pin = p
         /\ proc'[h].image = pins[p]
  BY <1>1 DEF BeginDelete, TypeOK, Idle
<1>4. \A a : Retry(h, a) => proc'[h].pc = "remove" /\ proc'[h].image = a
  BY <1>1 DEF Retry, TypeOK, Idle
<1>5. DeleteDedup(h) => \/ proc'[h].pc = "idle"
                        \/ /\ proc'[h].pc = "deleting"
                           /\ proc'[h].pin = proc[h].pin
                           /\ proc'[h].image = proc[h].image
  BY <1>1, <1>2 DEF DeleteDedup, TypeOK, Processes
<1>6. DeletePin(h) => \/ proc'[h].pc = "idle"
                      \/ /\ proc'[h].pc = "remove"
                         /\ proc'[h].pin = proc[h].pin
                         /\ proc'[h].image = proc[h].image
                         /\ images' = images \ {proc[h].image}
  BY <1>1, <1>2 DEF DeletePin, Goto, TypeOK, Processes
<1>7. Remove(h) => \/ proc'[h].pc = "idle"
                   \/ /\ \/ proc'[h].pc = "removed" /\ proc[h].image \in images
                         \/ proc'[h].pc = "removing"
                      /\ proc'[h].pin = proc[h].pin
                      /\ proc'[h].image = proc[h].image
  BY <1>1, <1>2 DEF Remove, Goto, TypeOK, Processes
<1>8. RemoveFile(h) => /\ proc'[h].pc = "removed"
                       /\ proc'[h].pin = proc[h].pin
                       /\ proc'[h].image = proc[h].image
  BY <1>1 DEF RemoveFile, TypeOK, Processes
<1> QED BY <1>3, <1>4, <1>5, <1>6, <1>7, <1>8

-----------------------------------------------------------------------------
(* What an import about to commit has looked up stays true: a deletion is  *)
(* kept away by the locked row, another import by the dedup lock, a        *)
(* removal of files by the lifecycle lock.                                 *)

LEMMA OthersStayReady ==
    ASSUME SafeInv, NEW h \in Handlers, HandlerStep(h),
           NEW g \in Handlers, g # h
    PROVE  Ready(g)'
<1> SUFFICES ASSUME proc[g].pc = "ready", proc'[g] = proc[g] PROVE Ready(g)'
  BY SafeTypes DEF Ready
<1> DEFINE a == proc[g].image
<1>1. /\ a \in Ids /\ Final(a) \in disk /\ ContentOf(a) = Digest[proc[g].job]
      /\ a \in images \/ (a = Own(g) /\ Stored(g) = {})
  BY DEF SafeInv, TypeInv, Shape, Ready
<1>2. /\ proc[g].media = "shared" /\ proc[g].dedup = Digest[proc[g].job]
      /\ Exclusion(g, h) /\ Exclusion(h, g) /\ Locked(h)
  BY DEF SafeInv, LockInv, Locked
<1>3. TypeInv /\ proc[g].job \in Imports
  BY DEF SafeInv, TypeInv, Shape, ImportSteps
<1>4. Final(a) \in disk'
  <2>1. ~(proc[h].pc = "rollback" /\ a = Own(h))
    <3>1. proc[h].pc = "rollback" => Own(h) # Own(g) /\ Own(h) \notin images
      BY OwnUnused, OwnDiffers DEF Uncommitted, ImportSteps
    <3> QED BY <1>1, <3>1
  <2>2. proc[h].pc # "removing"
    BY <1>2 DEF Locked, Exclusion
  <2>3. ~LifecycleFree
    BY <1>2 DEF LifecycleFree
  <2> QED BY <1>1, <1>3, <2>1, <2>2, <2>3, StepDisk DEF DiskLoses
<1>5. CASE a \in images
  <2>1. a \in images'
    <3>1. CASE DeletePin(h)
      <4>1. ~AssetLocked(proc[h].image)
        BY <3>1 DEF DeletePin
      <4>2. a # proc[h].image
        BY <4>1 DEF AssetLocked
      <4> QED BY <1>5, <3>1, <4>2 DEF DeletePin
    <3>2. CASE ~DeletePin(h)
      BY <1>5, <3>2, StepRows DEF Commit, ForgetPending
    <3> QED BY <3>1, <3>2
  <2> QED BY <1>1, <1>4, <2>1 DEF Ready
<1>6. CASE a = Own(g) /\ Stored(g) = {}
  <2>1. \A b \in images' : ContentOf(b) # Digest[proc[g].job]
    <3>1. CASE Commit(h)
      <4>1. ContentOf(proc[h].image) = proc[h].dedup
        BY <3>1, CommitImage, <1>2 DEF Locked
      <4>2. proc[g].dedup # None
        BY <1>2, <1>3, ContentType, NoneAssumption
      <4>3. proc[g].dedup # proc[h].dedup
        BY <1>2, <4>2 DEF Exclusion
      <4> QED BY <1>2, <1>6, <3>1, <4>1, <4>3 DEF Commit, Stored
    <3>2. CASE ~Commit(h)
      BY <1>6, <3>2, ImagesShrink DEF Stored
    <3> QED BY <3>1, <3>2
  <2>2. Stored(g)' = {}
    BY <2>1 DEF Stored, ContentOf
  <2>3. a = Own(g)'
    BY <1>6 DEF Own
  <2> QED BY <1>1, <1>4, <2>2, <2>3 DEF Ready
<1> QED BY <1>1, <1>5, <1>6

LEMMA BecomesReady ==
    ASSUME SafeInv, NEW h \in Handlers, HandlerStep(h)
    PROVE  Ready(h)'
<1> SUFFICES ASSUME proc'[h].pc = "ready" PROVE Ready(h)'
  BY DEF Ready
<1>1. TypeInv /\ TypeOK /\ proc[h] \in Processes /\ proc'[h] \in Processes
  BY SafeTypes
<1>2. Arrives(h)
  BY StepArrives DEF SafeInv
<1>3. CASE proc' = proc /\ UNCHANGED rows
  <2>1. Ready(h) /\ proc[h].image \in Ids /\ proc[h].media = "shared"
    BY <1>3 DEF SafeInv, TypeInv, Shape, LockInv, Locked
  <2>2. Final(proc[h].image) \in disk'
    BY <1>1, <1>3, <2>1, StepDisk DEF DiskLoses, LifecycleFree, Ready
  <2> QED BY <1>3, <2>1, <2>2 DEF Ready, Stored, Own, rows
<1>4. CASE Enters(h)
  BY <1>4 DEF Enters, Fetching, Idle
<1>5. CASE Publish(h)
  <2>1. /\ proc'[h].image = Own(h) /\ Own(h)' = Own(h)
        /\ proc'[h].job = proc[h].job
    BY <1>1, <1>5 DEF Publish, TypeOK, Processes, Own
  <2>2. ContentOf(Own(h)) = Digest[proc[h].job]
    BY DEF ContentOf, Own
  <2>3. Stored(h)' = {}
    BY <1>5, <2>1 DEF Publish, Stored, rows
  <2>4. Final(Own(h)) \in disk'
    BY <1>5 DEF Publish
  <2> QED BY <2>1, <2>2, <2>3, <2>4 DEF Ready
<1>6. ASSUME Reuse(h), NEW a \in Stored(h), Final(a) \in disk,
             proc' = [proc EXCEPT ![h].pc = "ready", ![h].image = a]
      PROVE  Ready(h)'
  <2>1. proc'[h].image = a /\ proc'[h].job = proc[h].job
    BY <1>1, <1>6 DEF TypeOK, Processes
  <2> QED BY <1>6, <2>1 DEF Reuse, Ready, Stored, rows
<1>7. CASE DeleteArrival(h)
  BY <1>1, <1>7, DeleteArrives DEF DeleteArrival
<1>8. CASE ImportArrival(h)
  BY <1>1, <1>5, <1>6, <1>8, ImportArrives DEF ImportArrival
<1> QED BY <1>2, <1>3, <1>4, <1>7, <1>8 DEF Arrives, RestSteps

-----------------------------------------------------------------------------
(* Deletions: their pin is the one they looked at, their image has no row, *)
(* its file is gone before the journal forgets it.                         *)

\* What a handler holds stays apart from the id of an import.
LEMMA HeldApart ==
    ASSUME SafeInv, NEW g \in Handlers, NEW a, HeldBy(g, a),
           NEW h \in Handlers, proc[h].pc \in Uncommitted
    PROVE  a # Own(h)
  BY OwnUnused DEF Used

LEMMA OthersStayDeleting ==
    ASSUME SafeInv, NEW h \in Handlers, HandlerStep(h),
           NEW g \in Handlers, g # h
    PROVE  Deletes(g)'
<1>1. proc'[g] = proc[g] /\ Deletes(g) /\ TypeInv
  BY SafeTypes DEF SafeInv
<1>2. ASSUME proc[g].pc \in PinSteps, proc[g].pin \in DOMAIN pins'
      PROVE  pins'[proc[g].pin] = proc[g].image
  <2>1. HeldBy(g, proc[g].pin)
    BY <1>2 DEF HeldBy
  <2>2. CASE Commit(h)
    <3>1. proc[g].pin # Own(h)
      BY <2>1, <2>2, HeldApart DEF Commit, Uncommitted
    <3> QED BY <1>1, <1>2, <2>2, <3>1 DEF Commit, AddPin, Deletes
  <2>3. CASE ~Commit(h)
    BY <1>1, <1>2, <2>3, StepRows DEF DeletePin, ForgetPending, Deletes
  <2> QED BY <2>2, <2>3
<1>3. ASSUME proc[g].pc \in RemoveSteps
      PROVE  proc[g].image \notin images'
  <2>1. HeldBy(g, proc[g].image) /\ proc[g].image \notin images
    BY <1>1, <1>3 DEF HeldBy, Deletes
  <2>2. CASE Commit(h)
    <3>1. proc[g].image # Own(h)
      BY <2>1, <2>2, HeldApart DEF Commit, Uncommitted
    <3> QED BY <2>1, <2>2, <3>1, CommitImage DEF Commit
  <2> QED BY <2>1, <2>2, ImagesShrink
<1>4. ASSUME proc[g].pc = "removed"
      PROVE  Final(proc[g].image) \notin disk'
  <2>1. HeldBy(g, proc[g].image) /\ Final(proc[g].image) \notin disk
    BY <1>1, <1>4 DEF HeldBy, Deletes, RemoveSteps
  <2>2. proc[h].pc \in Uncommitted => proc[g].image # Own(h)
    BY <2>1, HeldApart
  <2>3. Final(proc[g].image)[2] = proc[g].image
    BY DEF Final
  <2> QED BY <1>1, <2>1, <2>2, <2>3, StepDisk DEF DiskGains
<1> QED BY <1>1, <1>2, <1>3, <1>4 DEF Deletes

LEMMA GoesOnDeleting ==
    ASSUME SafeInv, NEW h \in Handlers, HandlerStep(h)
    PROVE  Deletes(h)'
<1>1. /\ TypeInv /\ TypeOK /\ proc[h] \in Processes /\ proc'[h] \in Processes
      /\ Deletes(h)
  BY SafeTypes DEF SafeInv
<1>2. Arrives(h)
  BY StepArrives DEF SafeInv
<1>3. CASE proc'[h].pc \notin PinSteps \cup RemoveSteps
  BY <1>3 DEF Deletes, RemoveSteps
<1>4. CASE proc' = proc /\ UNCHANGED rows /\ disk' \subseteq disk
  BY <1>1, <1>4 DEF Deletes, rows
<1>5. ASSUME NEW p \in DOMAIN pins, BeginDelete(h, p) PROVE Deletes(h)'
  <2>1. /\ proc'[h].pc = "delete" /\ proc'[h].pin = p
        /\ proc'[h].image = pins[p] /\ pins' = pins
    BY <1>1, <1>5, DeleteArrives DEF BeginDelete, rows
  <2> QED BY <2>1 DEF Deletes, RemoveSteps
<1>6. CASE DeleteDedup(h) /\ proc'[h].pc = "deleting"
  <2>1. /\ proc'[h].pin = proc[h].pin /\ proc'[h].image = proc[h].image
        /\ pins' = pins
    BY <1>1, <1>6, DeleteArrives DEF DeleteDedup, rows
  <2>2. proc[h].pc \in PinSteps
    BY <1>6 DEF DeleteDedup, PinSteps
  <2> QED BY <1>1, <1>6, <2>1, <2>2 DEF Deletes, RemoveSteps
<1>7. CASE DeletePin(h) /\ proc'[h].pc = "remove"
  <2>1. /\ proc'[h].image = proc[h].image
        /\ images' = images \ {proc[h].image}
    BY <1>1, <1>7, DeleteArrives
  <2> QED BY <1>7, <2>1 DEF Deletes, PinSteps
<1>8. ASSUME NEW a \in pending, Retry(h, a) PROVE Deletes(h)'
  <2>1. proc'[h].pc = "remove" /\ proc'[h].image = a /\ images' = images
    BY <1>1, <1>8, DeleteArrives DEF Retry, rows
  <2> QED BY <2>1 DEF Deletes, PinSteps, SafeInv, Journal
<1>9. CASE Remove(h) /\ proc'[h].pc # "idle"
  <2>1. /\ proc'[h].pc \in {"removing", "removed"} /\ images' = images
        /\ proc'[h].pc = "removed" => proc[h].image \in images
        /\ proc'[h].image = proc[h].image
    BY <1>1, <1>9, DeleteArrives DEF Remove, rows
  <2>2. proc[h].image \notin images
    BY <1>1, <1>9 DEF Deletes, Remove, RemoveSteps
  <2> QED BY <2>1, <2>2 DEF Deletes, PinSteps
<1>10. CASE RemoveFile(h)
  <2>1. /\ proc'[h].pc = "removed" /\ proc'[h].image = proc[h].image
        /\ images' = images
    BY <1>1, <1>10, DeleteArrives DEF RemoveFile, rows
  <2>2. proc[h].image \notin images
    BY <1>1, <1>10 DEF Deletes, RemoveFile, RemoveSteps
  <2>3. Final(proc[h].image) \notin disk'
    BY <1>10, <2>2 DEF RemoveFile
  <2> QED BY <2>1, <2>2, <2>3 DEF Deletes, PinSteps
<1>11. CASE DeleteArrival(h)
  <2>1. proc'[h].pc = "idle" => Deletes(h)'
    BY <1>3 DEF PinSteps, RemoveSteps
  <2> QED BY <1>1, <1>5, <1>6, <1>7, <1>8, <1>9, <1>10, <1>11, <2>1,
             DeleteArrives DEF DeleteArrival
<1>12. CASE ImportArrival(h)
  <2>1. proc'[h].pc \in {"prepared", "deduped", "locked", "fenced", "ready",
                         "finish", "rollback"}
    <3>1. CASE Publish(h)
      BY <1>1, <3>1 DEF Publish, TypeOK, Processes
    <3>2. ASSUME NEW a, proc' = [proc EXCEPT ![h].pc = "ready", ![h].image = a]
          PROVE  proc'[h].pc = "ready"
      BY <1>1, <3>2 DEF TypeOK, Processes
    <3> QED BY <1>1, <1>12, <3>1, <3>2, ImportArrives DEF ImportArrival
  <2> QED BY <1>3, <2>1 DEF PinSteps, RemoveSteps
<1>13. CASE Enters(h)
  <2>1. proc'[h].pc = "fetch"
    BY <1>13 DEF Enters, Fetching, Idle
  <2> QED BY <1>3, <2>1 DEF PinSteps, RemoveSteps
<1>14. CASE proc'[h].pc \in RestSteps
  BY <1>3, <1>14 DEF RestSteps, PinSteps, RemoveSteps
<1> QED BY <1>2, <1>4, <1>11, <1>12, <1>13, <1>14 DEF Arrives

-----------------------------------------------------------------------------
(* What an import leaves on the disk while it works, and when it is done.  *)

\* What has a published file stays an image or in the journal.
LEMMA KeepsFile ==
    ASSUME SafeInv, NEW h \in Handlers, HandlerStep(h),
           NEW a \in images \cup pending, Final(a) \in disk
    PROVE  a \in images' \cup pending'
<1>1. CASE ForgetPending(h)
  <2>1. Final(proc[h].image) \notin disk
    BY <1>1 DEF ForgetPending, SafeInv, Deletes
  <2> QED BY <1>1, <2>1 DEF ForgetPending
<1>2. CASE ~ForgetPending(h)
  BY <1>2, StepRows DEF Commit, DeletePin
<1> QED BY <1>1, <1>2

LEMMA OthersLeave ==
    ASSUME SafeInv, NEW h \in Handlers, HandlerStep(h),
           NEW g \in Handlers, g # h
    PROVE  Leaves(g)'
<1>1. proc'[g] = proc[g] /\ Leaves(g) /\ TypeInv
  BY SafeTypes DEF SafeInv
<1> SUFFICES ASSUME proc[g].pc \in ImportSteps PROVE Leaves(g)'
  BY <1>1 DEF Leaves, ImportSteps
<1>2. PICK a \in Ids : a = Own(g)
  BY <1>1, OwnIds
<1>3. Own(g)' = a
  BY <1>1, <1>2 DEF Own
<1>4. proc[h].pc \in Uncommitted => Own(h) # a
  BY <1>2, OwnDiffers DEF Uncommitted, ImportSteps
<1>5. \A f \in disk' : f[2] = a => f \in disk
  BY <1>1, <1>4, StepDisk DEF DiskGains
<1>6. /\ Staging(a) \in disk' => Staging(a) \in disk
      /\ Final(a) \in disk' => Final(a) \in disk
  BY <1>5 DEF Staging, Final
<1>7. ASSUME proc[g].pc = "finish", Final(a) \in disk'
      PROVE  a \in images' \cup pending'
  BY <1>1, <1>2, <1>6, <1>7, KeepsFile DEF Leaves
<1> QED BY <1>1, <1>2, <1>3, <1>6, <1>7 DEF Leaves

LEMMA GoesOnLeaving ==
    ASSUME SafeInv, NEW h \in Handlers, HandlerStep(h)
    PROVE  Leaves(h)'
<1>1. /\ TypeInv /\ TypeOK /\ proc[h] \in Processes /\ proc'[h] \in Processes
      /\ Leaves(h)
  BY SafeTypes DEF SafeInv
<1>2. Arrives(h)
  BY StepArrives DEF SafeInv
<1>3. CASE proc'[h].pc \notin ImportSteps
  BY <1>3 DEF Leaves, ImportSteps
<1>4. CASE proc' = proc /\ UNCHANGED rows /\ disk' \subseteq disk
  BY <1>1, <1>4 DEF Leaves, Own, rows
<1>5. CASE Enters(h)
  <2>1. PICK m \in Imports, n \in Nat :
           proc'[h] = Fetching(m, n) /\ ~Issued(<<m, n>>)
    BY <1>5 DEF Enters
  <2>2. proc'[h].pc = "fetch" /\ Own(h)' = <<m, n>>
    BY <2>1 DEF Fetching, Idle, Own
  <2>3. \A f \in disk : f[2] # <<m, n>>
    BY <2>1 DEF SafeInv, IssuedInv
  <2>4. Staging(<<m, n>>) \notin disk /\ Final(<<m, n>>) \notin disk
    BY <2>3 DEF Staging, Final
  <2>5. disk' = disk
    BY <1>5 DEF Enters
  <2> QED BY <2>2, <2>4, <2>5 DEF Leaves
<1>6. CASE ImportArrival(h)
  <2>1. Own(h)' = Own(h) /\ proc'[h].job = proc[h].job
    BY <1>1, <1>6, KeepsOwn
  <2>2. ASSUME proc[h].pc \in {"fetch", "prepared", "deduped", "locked", "fenced"},
               proc'[h].pc \in {"prepared", "deduped", "locked", "fenced"},
               Final(Own(h)) \in disk' => Final(Own(h)) \in disk
        PROVE  Leaves(h)'
    BY <1>1, <2>1, <2>2 DEF Leaves
  <2>3. CASE Prepare(h)
    <3>1. proc[h].pc = "fetch" /\ disk' = disk \cup {Staging(Own(h))}
      BY <2>3 DEF Prepare
    <3>2. Final(Own(h)) # Staging(Own(h))
      BY DEF Final, Staging
    <3> QED BY <1>1, <2>2, <2>3, <3>1, <3>2, ImportArrives
  <2>4. CASE TakeDedup(h) \/ TakeLifecycle(h)
    <3>1. proc[h].pc \in {"prepared", "deduped"} /\ disk' = disk
      BY <2>4 DEF TakeDedup, TakeLifecycle
    <3> QED BY <1>1, <2>2, <2>4, <3>1, ImportArrives
  <2>5. CASE Fence(h) /\ proc' = Goto(h, "fenced")
    <3>1. proc[h].pc = "locked" /\ disk' = disk
      BY <2>5 DEF Fence
    <3> QED BY <1>1, <2>2, <2>5, <3>1, ImportArrives
  <2>6. ASSUME Reuse(h), NEW a,
               proc' = [proc EXCEPT ![h].pc = "ready", ![h].image = a]
        PROVE  Leaves(h)'
    <3>1. proc[h].pc = "fenced" /\ disk' = disk /\ proc'[h].pc = "ready"
      BY <1>1, <2>6 DEF Reuse, TypeOK, Processes
    <3> QED BY <1>1, <2>1, <3>1 DEF Leaves
  <2>7. CASE Publish(h)
    <3>1. proc'[h].pc = "ready" /\ proc'[h].image = Own(h)
      BY <1>1, <2>7 DEF Publish, TypeOK, Processes
    <3> QED BY <2>1, <3>1 DEF Leaves
  <2>8. CASE Commit(h)
    <3>1. /\ proc'[h].pc = "finish" /\ proc[h].pc = "ready" /\ disk' = disk
          /\ images' = images \cup {proc[h].image}
      BY <1>1, <2>8, ImportArrives DEF Commit
    <3> QED BY <1>1, <2>1, <3>1 DEF Leaves
  <2>9. CASE RollsBack(h)
    <3>1. /\ proc'[h].pc = "rollback" /\ disk' = disk
          /\ proc[h].pc \in {"prepared", "deduped", "locked", "fenced", "ready"}
      BY <1>1, <2>9, ImportArrives DEF RollsBack
    <3>2. proc'[h].image = proc[h].image
      BY <1>1, <2>9 DEF RollsBack, Rollback, TypeOK, Processes
    <3> QED BY <1>1, <2>1, <3>1, <3>2 DEF Leaves
  <2> QED BY <1>6, <2>3, <2>4, <2>5, <2>6, <2>7, <2>8, <2>9 DEF ImportArrival
<1>7. CASE DeleteArrival(h)
  BY <1>1, <1>3, <1>7, DeleteArrives DEF DeleteArrival, ImportSteps
<1>8. CASE proc'[h].pc \in RestSteps
  BY <1>3, <1>8 DEF RestSteps, ImportSteps
<1> QED BY <1>2, <1>4, <1>5, <1>6, <1>7, <1>8 DEF Arrives

-----------------------------------------------------------------------------
(* Failures.                                                               *)

LEMMA RollbackError ==
    ASSUME TypeOK, NEW h \in Handlers, NEW e, Rollback(h, e)
    PROVE  proc'[h].error = e
<1>1. proc[h] \in Processes
  BY DEF TypeOK
<1> QED BY <1>1 DEF Rollback, TypeOK, Processes

LEMMA FailWithError ==
    ASSUME TypeOK, NEW h \in Handlers, NEW e, FailWith(h, e)
    PROVE  proc'[h].error \in {"none", e}
<1>1. CASE proc' = [proc EXCEPT ![h] = Idle]
  BY <1>1 DEF TypeOK, Idle
<1>2. CASE proc' = [proc EXCEPT ![h].pc = "failing", ![h].image = None,
                                ![h].error = e]
  <2>1. proc[h] \in Processes
    BY DEF TypeOK
  <2> QED BY <1>2, <2>1 DEF TypeOK, Processes
<1> QED BY <1>1, <1>2 DEF FailWith

LEMMA FreshError ==
    ASSUME TypeOK, NEW h \in Handlers, NEW m, NEW n,
           \/ proc' = [proc EXCEPT ![h] = Idle]
           \/ proc' = [proc EXCEPT ![h] = Fetching(m, n)]
           \/ proc' = [proc EXCEPT ![h] = Reclaiming(m, n)]
    PROVE  proc'[h].error = "none"
<1>1. CASE proc' = [proc EXCEPT ![h] = Idle]
  BY <1>1 DEF TypeOK, Idle
<1>2. CASE proc' = [proc EXCEPT ![h] = Fetching(m, n)]
  BY <1>2 DEF TypeOK, Idle, Fetching
<1>3. CASE proc' = [proc EXCEPT ![h] = Reclaiming(m, n)]
  BY <1>3 DEF TypeOK, Idle, Reclaiming
<1> QED BY <1>1, <1>2, <1>3

\* An import never finds the image of its content changed by others.
LEMMA ImportStepError ==
    ASSUME SafeInv, NEW h \in Handlers, ImportStep(h)
    PROVE  proc'[h].error # "conflict"
<1>1. TypeOK /\ proc[h] \in Processes /\ proc[h].error # "conflict"
  BY DEF SafeInv, TypeInv, TypeOK, OnlyOwnFailures
<1>2. CASE Reclaim(h) \/ Finish(h) \/ RecordFailure(h)
  BY <1>1, <1>2, FreshError DEF Reclaim, Finish, RecordFailure
<1>3. CASE Prepare(h) \/ TakeDedup(h) \/ TakeLifecycle(h) \/ Publish(h)
           \/ Commit(h)
  <2>1. proc'[h].error = proc[h].error
    BY <1>1, <1>3 DEF Prepare, TakeDedup, TakeLifecycle, Publish, Commit, Goto,
       TypeOK, Processes
  <2> QED BY <1>1, <2>1
<1>4. CASE Fence(h)
  <2>1. CASE proc' = Goto(h, "fenced")
    BY <1>1, <2>1 DEF Goto, TypeOK, Processes
  <2> QED BY <1>1, <1>4, <2>1, RollbackError DEF Fence
<1>5. CASE Reuse(h)
  <2>1. ASSUME NEW a, proc' = [proc EXCEPT ![h].pc = "ready", ![h].image = a]
        PROVE  proc'[h].error = proc[h].error
    BY <1>1, <2>1 DEF TypeOK, Processes
  <2>2. \A a \in Stored(h) : Final(a) \in disk
    BY DEF Stored, SafeInv, ReferencedFilesPresent
  <2> QED BY <1>1, <1>5, <2>1, <2>2 DEF Reuse
<1>6. CASE CommitFails(h)
  <2>1. Ready(h) /\ proc[h].pc = "ready" /\ Own(h) \notin images
    BY <1>6, OwnUnused DEF SafeInv, CommitFails, Uncommitted
  <2>2. ~Duplicate(h) /\ Verified(h)
    BY <2>1 DEF Ready, Duplicate, Verified
  <2> QED BY <1>1, <1>6, <2>2, RollbackError DEF CommitFails
<1>7. CASE Compensate(h)
  BY <1>1, <1>7, FailWithError DEF Compensate
<1> QED BY <1>2, <1>3, <1>4, <1>5, <1>6, <1>7 DEF ImportStep

LEMMA StepErrors ==
    ASSUME SafeInv, NEW h \in Handlers, HandlerStep(h)
    PROVE  OnlyOwnFailures'
<1>1. TypeOK /\ proc[h] \in Processes /\ proc[h].error # "conflict"
  BY DEF SafeInv, TypeInv, TypeOK, OnlyOwnFailures
<1>2. proc'[h].error # "conflict"
  <2>1. CASE DeleteStep(h)
    <3>1. CASE proc' = [proc EXCEPT ![h] = Idle]
      BY <1>1, <3>1, FreshError
    <3>2. CASE proc' # [proc EXCEPT ![h] = Idle]
      <4>1. proc'[h].error = proc[h].error
        BY <1>1, <2>1, <3>2 DEF DeleteStep, DeleteDedup, DeletePinFails,
           DeletePin, Remove, RemoveFile, ForgetPending, Sweep, Goto, TypeOK,
           Processes
      <4> QED BY <1>1, <4>1
    <3> QED BY <3>1, <3>2
  <2>2. CASE Failure(h)
    <3>1. CASE ClaimBusy(h) \/ RecordBusy(h) \/ RemoveFails(h) \/ Crash(h)
      BY <1>1, <3>1, FreshError DEF ClaimBusy, RecordBusy, RemoveFails, Crash
    <3>2. CASE CompensateFails(h)
      BY <1>1, <3>2, FailWithError DEF CompensateFails
    <3>3. ASSUME NEW e \in {"retry", "final"}, FetchFails(h, e) \/ ImportError(h, e)
          PROVE  proc'[h].error # "conflict"
      BY <1>1, <3>3, FailWithError, RollbackError DEF FetchFails, ImportError
    <3> QED BY <2>2, <3>1, <3>2, <3>3 DEF Failure
  <2>3. CASE Request(h)
    <3>1. ASSUME NEW i \in Items, Ask(h, i) PROVE proc'[h].error = "none"
      BY <1>1, <3>1, FreshError DEF Ask
    <3>2. ASSUME NEW s \in Singles, BeginSingle(h, s)
          PROVE  proc'[h].error = "none"
      BY <1>1, <3>2, FreshError DEF BeginSingle
    <3>3. ASSUME NEW p \in DOMAIN pins, BeginDelete(h, p)
          PROVE  proc'[h].error = "none"
      BY <1>1, <3>3 DEF BeginDelete, TypeOK, Idle
    <3> QED BY <2>3, <3>1, <3>2, <3>3 DEF Request
  <2>4. CASE Maintenance(h)
    <3>1. PICK a \in Assets : Retry(h, a) \/ BeginSweep(h, a) \/ SweepStaging(h, a)
      BY <2>4 DEF Maintenance
    <3>2. CASE SweepStaging(h, a)
      BY <1>1, <3>2 DEF SweepStaging
    <3>3. ASSUME NEW pc,
                 proc' = [proc EXCEPT ![h] = [Idle EXCEPT !.pc = pc, !.image = a]]
          PROVE  proc'[h].error = "none"
      BY <1>1, <3>3 DEF TypeOK, Idle
    <3> QED BY <3>1, <3>2, <3>3 DEF Retry, BeginSweep
  <2> QED BY <2>1, <2>2, <2>3, <2>4, ImportStepError DEF HandlerStep
<1>3. ASSUME NEW g \in Handlers, g # h PROVE proc'[g].error # "conflict"
  BY <1>3, SafeTypes DEF SafeInv, OnlyOwnFailures
<1> QED BY <1>2, <1>3 DEF OnlyOwnFailures

-----------------------------------------------------------------------------
(* Nothing is forgotten on the disk.                                       *)

LEMMA AbandonedGrows ==
    ASSUME NEW h \in Handlers, HandlerStep(h)
    PROVE  abandoned \subseteq abandoned'
<1>1. CASE ImportStep(h)
  BY <1>1 DEF ImportStep, Reclaim, Prepare, TakeDedup, TakeLifecycle, Fence,
     Reuse, Publish, Commit, CommitFails, Finish, Compensate, RecordFailure
<1>2. CASE DeleteStep(h)
  BY <1>2 DEF DeleteStep, DeleteDedup, DeletePinFails, DeletePin, Remove,
     RemoveFile, ForgetPending, Sweep
<1>3. CASE Failure(h)
  BY <1>3 DEF Failure, ClaimBusy, FetchFails, ImportError, CompensateFails,
     RecordBusy, RemoveFails, Crash
<1>4. CASE Request(h) \/ Maintenance(h)
  BY <1>4 DEF Request, Ask, BeginSingle, BeginDelete, Maintenance, Retry,
     BeginSweep, SweepStaging
<1> QED BY <1>1, <1>2, <1>3, <1>4 DEF HandlerStep

\* An import that goes on keeps its files in hand.
LEMMA StaysInHand ==
    ASSUME SafeInv, NEW h \in Handlers, HandlerStep(h),
           proc[h].pc \in ImportSteps, proc'[h].pc \in ImportSteps,
           NEW a, a = Own(h)
    PROVE  InHand(a)'
<1>1. proc'[h].job = proc[h].job /\ Own(h)' = Own(h)
  BY StepOwn DEF SafeInv, Enters, GoesOn, Own
<1>2. proc[h].job # None
  BY NoneAssumption DEF SafeInv, TypeInv, Shape
<1> QED BY <1>1, <1>2 DEF InHand, ImportSteps

\* An import that ends hands its files over, removes or abandons them.
LEMMA EndsAccounted ==
    ASSUME SafeInv, NEW h \in Handlers, HandlerStep(h),
           proc[h].pc \in ImportSteps, proc'[h].pc \notin ImportSteps,
           NEW f \in disk', f[2] = Own(h)
    PROVE  f[2] \in abandoned' \/ (f[1] = "final" /\ f[2] \in images' \cup pending')
<1>1. TypeInv /\ TypeOK /\ IssuedInv /\ Leaves(h)
  BY DEF SafeInv, TypeInv
<1>2. f \in disk
  <2>1. DiskGains(h)
    BY <1>1, StepDisk
  <2>2. \/ UNCHANGED disk \/ disk' \subseteq disk
    BY <1>1, ImportEnds DEF Finish, Compensate, CompensateFails, FetchFails, Crash
  <2> QED BY <2>2
<1>3. f = Staging(Own(h)) \/ f = Final(Own(h))
  BY <1>1, <1>2 DEF TypeOK, Staging, Final
<1>4. CASE Finish(h)
  <2>1. f = Final(Own(h)) /\ proc[h].pc = "finish"
    BY <1>3, <1>4 DEF Finish
  <2>2. Own(h) \in images \cup pending
    BY <1>1, <1>2, <2>1 DEF Leaves
  <2> QED BY <1>4, <2>1, <2>2 DEF Finish, Final, rows
<1>5. CASE Compensate(h)
  <2>1. f = Final(Own(h)) /\ proc[h].pc = "rollback"
    BY <1>3, <1>5 DEF Compensate
  <2>2. Own(h) \in Created(h)
    BY <1>1, <1>2, <2>1 DEF Leaves, Created
  <2> QED BY <1>5, <2>1, <2>2 DEF Compensate
<1>6. CASE CompensateFails(h)
  BY <1>6 DEF CompensateFails
<1>7. ASSUME NEW e, FetchFails(h, e) PROVE FALSE
  BY <1>1, <1>2, <1>3, <1>7 DEF FetchFails, Leaves
<1>8. CASE Crash(h)
  <2>1. InHand(Own(h))
    BY NoneAssumption DEF SafeInv, TypeInv, Shape, InHand, ImportSteps
  <2> QED BY <1>8, <2>1 DEF Crash
<1> QED BY <1>1, <1>4, <1>5, <1>6, <1>7, <1>8, ImportEnds

LEMMA StepAccounted ==
    ASSUME SafeInv, NEW h \in Handlers, HandlerStep(h)
    PROVE  NothingForgotten'
<1> SUFFICES ASSUME NEW f \in disk'
             PROVE  \/ f[2] \in abandoned'
                    \/ InHand(f[2])'
                    \/ f[1] = "final" /\ f[2] \in images' \cup pending'
  BY DEF NothingForgotten, InHand, Own
<1>1. TypeInv /\ TypeOK /\ TypeOK' /\ IssuedInv
      /\ \A g \in Handlers : g # h => proc'[g] = proc[g]
  BY SafeTypes DEF SafeInv
<1>2. CASE f[2] = Own(h) /\ proc[h].pc \in ImportSteps
  <2>1. PICK a : a = f[2]
    OBVIOUS
  <2>2. proc'[h].pc \in ImportSteps => InHand(a)'
    BY <1>2, <2>1, StaysInHand
  <2> QED BY <1>2, <2>1, <2>2, EndsAccounted
<1>3. CASE f \in disk /\ ~(f[2] = Own(h) /\ proc[h].pc \in ImportSteps)
  <2>1. CASE f[2] \in abandoned
    BY <2>1, AbandonedGrows
  <2>2. CASE f[1] = "final" /\ f[2] \in images \cup pending
    <3>1. f = Final(f[2])
      BY <1>1, <1>3, <2>2 DEF TypeOK, Final
    <3> QED BY <1>3, <2>2, <3>1, KeepsFile
  <2>3. CASE InHand(f[2])
    <3>1. PICK g \in Handlers :
             /\ proc[g].job # None /\ Own(g) = f[2]
             /\ proc[g].pc \notin {"reclaim", "failing"}
      BY <2>3 DEF InHand
    <3>2. proc[g].pc \in ImportSteps
      BY <1>1, <3>1 DEF TypeInv, Shape, ItemSteps
    <3>3. g # h
      BY <1>3, <3>1, <3>2
    <3>4. proc'[g] = proc[g]
      BY <1>1, <3>3
    <3> QED BY <3>1, <3>4 DEF InHand, Own
  <2> QED BY <1>3, <2>1, <2>2, <2>3 DEF SafeInv, NothingForgotten
<1>4. CASE f \notin disk
  <2>1. f[2] = Own(h) /\ proc[h].pc \in ImportSteps
    BY <1>1, <1>4, StepDisk DEF DiskGains, Uncommitted, ImportSteps
  <2> QED BY <1>2, <2>1
<1> QED BY <1>2, <1>3, <1>4

-----------------------------------------------------------------------------
(* The inductive invariant and what follows from it.                       *)

LEMMA InitSafe ==
    ASSUME Init PROVE SafeInv
<1>1. TypeInv
  BY InitTypeInv
<1>2. \A h \in Handlers : proc[h] = Idle
  BY DEF Init
<1>3. IssuedInv
  BY <1>2 DEF Init, IssuedInv, Used, HeldBy, Idle, PinSteps, RemoveSteps,
     ImportSteps, Unclaimed, Absent
<1>4. OwnInv
  BY <1>2 DEF OwnInv, Distinct, Idle, ImportSteps, Uncommitted
<1>5. LockInv
  BY <1>2 DEF LockInv, Locked, Exclusion, Idle
<1>6. \A h \in Handlers : Ready(h) /\ Deletes(h) /\ Leaves(h)
  BY <1>2 DEF Ready, Deletes, Leaves, Idle, PinSteps, RemoveSteps
<1>7. /\ Journal /\ OnlyOwnFailures /\ ReferencedFilesPresent
      /\ ImagesMatchPins /\ NothingForgotten
  BY <1>2 DEF Init, Journal, OnlyOwnFailures, ReferencedFilesPresent,
     ImagesMatchPins, NothingForgotten, Idle
<1> QED BY <1>1, <1>3, <1>4, <1>5, <1>6, <1>7 DEF SafeInv

\* A lease that runs out touches none of what the parts speak of.
LEMMA QuietSafe ==
    ASSUME SafeInv, TypeInv', IssuedInv',
           UNCHANGED <<images, pins, pending, disk, proc, abandoned>>
    PROVE  SafeInv'
<1>1. OwnInv'
  <2>1. \A a \in {Own(h) : h \in Handlers} : Used(a)' => Used(a)
    BY DEF Used, HeldBy
  <2>2. \A h \in Handlers : Own(h)' = Own(h)
    BY DEF Own
  <2>3. ASSUME NEW h \in Handlers, proc[h].pc \in Uncommitted
        PROVE  ~Used(Own(h))'
    <3>1. PICK a \in {Own(g) : g \in Handlers} : a = Own(h)
      OBVIOUS
    <3>2. ~Used(a)'
      BY <2>1, <2>3, <3>1 DEF SafeInv, OwnInv
    <3> QED BY <2>2, <3>1, <3>2
  <2>4. \A g, h \in Handlers : Distinct(g, h) => Distinct(g, h)'
    BY DEF Distinct, Own
  <2> QED BY <2>3, <2>4 DEF SafeInv, OwnInv
<1>2. LockInv'
  BY DEF SafeInv, LockInv, Locked, Exclusion
<1>3. \A h \in Handlers : Ready(h)' /\ Deletes(h)' /\ Leaves(h)'
  BY DEF SafeInv, Ready, Deletes, Leaves, Own, Stored
<1>4. Journal' /\ OnlyOwnFailures' /\ ReferencedFilesPresent' /\ ImagesMatchPins'
  BY DEF SafeInv, Journal, OnlyOwnFailures, ReferencedFilesPresent,
     ImagesMatchPins
<1>5. NothingForgotten'
  BY DEF SafeInv, NothingForgotten, InHand, Own
<1> QED BY <1>1, <1>2, <1>3, <1>4, <1>5 DEF SafeInv

LEMMA StepSafe ==
    ASSUME SafeInv, NEW h \in Handlers, HandlerStep(h)
    PROVE  SafeInv'
<1>1. TypeInv'
  BY HandlerStepIsNext, NextTypeInv DEF SafeInv
<1>2. IssuedInv' /\ OwnInv' /\ LockInv'
  BY StepIssued, StepOwnInv, StepLockInv DEF SafeInv
<1>3. ASSUME NEW g \in Handlers PROVE Ready(g)' /\ Deletes(g)' /\ Leaves(g)'
  <2>1. CASE g = h
    BY <2>1, BecomesReady, GoesOnDeleting, GoesOnLeaving
  <2>2. CASE g # h
    BY <2>2, OthersStayReady, OthersStayDeleting, OthersLeave
  <2> QED BY <2>1, <2>2
<1>4. /\ Journal' /\ OnlyOwnFailures' /\ ReferencedFilesPresent'
      /\ ImagesMatchPins' /\ NothingForgotten'
  BY StepJournal, StepErrors, StepPresent, StepPins, StepAccounted
<1> QED BY <1>1, <1>2, <1>3, <1>4 DEF SafeInv

LEMMA NextSafe ==
    ASSUME SafeInv, [Next]_vars PROVE SafeInv'
<1>1. TypeInv /\ IssuedInv /\ TypeInv'
  BY NextTypeInv DEF SafeInv
<1>2. ASSUME NEW h \in Handlers, HandlerStep(h) PROVE SafeInv'
  BY <1>2, StepSafe
<1>3. CASE UNCHANGED <<begun, images, pins, pending, disk, proc, abandoned>>
  <2>1. \A a \in Ids : Used(a)' => Used(a)
    BY <1>3 DEF Used, HeldBy
  <2>2. \A a \in Ids : Used(a)' => Issued(a)'
    BY <1>1, <2>1, IssuedGrows DEF IssuedInv
  <2>3. \A f \in disk' : Issued(f[2])'
    <3>1. \A f \in disk : f[2] \in Ids /\ Issued(f[2])
      BY <1>1 DEF TypeInv, TypeOK, IssuedInv
    <3>2. \A a \in Ids : Issued(a) => Issued(a)'
      BY <1>1, IssuedGrows
    <3> QED BY <1>3, <3>1, <3>2 DEF Issued
  <2>4. ASSUME NEW h \in Handlers, proc[h].pc \in ImportSteps
        PROVE  Issued(Own(h))'
    <3>1. PICK a \in Ids : a = Own(h)
      BY <1>1, <2>4, OwnIds
    <3>2. Issued(a)' /\ Own(h)' = a
      BY <1>1, <1>3, <2>4, <3>1, IssuedGrows DEF IssuedInv, Own
    <3> QED BY <3>1, <3>2
  <2>5. ASSUME NEW i \in Items PROVE Unclaimed(i)'
    <3>1. GenMoves(i)
      BY <1>1, StepGen
    <3> QED BY <1>1, <3>1 DEF GenMoves, IssuedInv, Unclaimed
  <2>6. IssuedInv'
    BY <1>3, <2>2, <2>3, <2>4, <2>5 DEF IssuedInv
  <2> QED BY <1>1, <1>3, <2>6, QuietSafe
<1> QED BY <1>2, <1>3 DEF Next, HandlerStep, Expire, vars

LEMMA SafeAlways == Spec => []SafeInv
<1> QED BY InitSafe, NextSafe, PTL DEF Spec

\* Whatever imports, deletions, sweeps, faults and crashes do at the same
\* time, every image has its files on the disk (ReferencedFilesPresent).
THEOREM FilesPresent == Spec => []ReferencedFilesPresent
<1>1. SafeInv => ReferencedFilesPresent
  BY DEF SafeInv
<1> QED BY <1>1, SafeAlways, PTL

\* No pin loses its image and no image is left without a pin
\* (ImagesMatchPins).
THEOREM ImagesAndPins == Spec => []ImagesMatchPins
<1>1. SafeInv => ImagesMatchPins
  BY DEF SafeInv
<1> QED BY <1>1, SafeAlways, PTL

\* No import is refused because of what other handlers do (OnlyOwnFailures).
THEOREM NoConflicts == Spec => []OnlyOwnFailures
<1>1. SafeInv => OnlyOwnFailures
  BY DEF SafeInv
<1> QED BY <1>1, SafeAlways, PTL

\* Every file on the disk belongs to an image, to the journal, to an import at
\* work, or was left by a crash or a failed unlink (NothingForgotten).
THEOREM FilesAccounted == Spec => []NothingForgotten
<1>1. SafeInv => NothingForgotten
  BY DEF SafeInv
<1> QED BY <1>1, SafeAlways, PTL

=============================================================================
