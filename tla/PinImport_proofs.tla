--------------------------- MODULE PinImport_proofs ---------------------------
(* Theorems of PinImport, for every number of handlers, items and contents. *)
EXTENDS PinImport, FiniteSetTheorems, TLAPS

-----------------------------------------------------------------------------
(* Types.                                                                  *)

Files == {"staging", "final"} \X Ids

ImportSteps == {"fetch", "prepared", "deduped", "locked", "fenced", "ready",
                "finish", "rollback"}
ItemSteps == {"reclaim", "failing"}
PinSteps == {"delete", "deleting"}
FileSteps == {"remove", "removing", "removed", "sweep"}

\* What a handler remembers at each step.
Shape(h) ==
    /\ proc[h].pc \in ImportSteps => proc[h].job \in Imports
    /\ proc[h].pc \in ItemSteps => proc[h].job \in Items
    /\ proc[h].job # None => proc[h].pc \in ImportSteps \cup ItemSteps
    /\ proc[h].pc \in PinSteps => proc[h].pin \in Ids
    /\ proc[h].pc \in PinSteps \cup FileSteps \cup {"ready"}
          => proc[h].image \in Ids

TypeInv == TypeOK /\ \A h \in Handlers : Shape(h)

LEMMA IdleType == Idle \in Processes
  BY LimitAssumption DEF Idle, Processes, Steps, ItemStates

\* Every import knows its content.
LEMMA ContentType ==
    /\ \A m \in Imports : Digest[m] \in Digests
    /\ \A a \in Ids : ContentOf(a) \in Digests
  BY DigestAssumption DEF Ids, ContentOf

LEMMA FaultType ==
    ASSUME TypeOK, NEW f, Fault(f)
    PROVE  events' \in 0 .. MaxEvents
  BY LimitAssumption DEF TypeOK, Fault

\* A step that leaves the rows alone keeps the types if it keeps those of the
\* disk and of the processes.
LEMMA FilesType ==
    ASSUME TypeOK, UNCHANGED rows, proc' \in [Handlers -> Processes],
           disk' \subseteq Files, abandoned' \subseteq Ids,
           events' \in 0 .. MaxEvents
    PROVE  TypeOK'
  BY DEF TypeOK, rows, Files

\* A step of one handler that touches neither rows nor files.
LEMMA QuietType ==
    ASSUME TypeOK, NEW h \in Handlers, NEW p \in Processes,
           proc' = [proc EXCEPT ![h] = p],
           UNCHANGED <<rows, disk, abandoned>>, events' \in 0 .. MaxEvents
    PROVE  TypeOK'
<1>1. proc' \in [Handlers -> Processes]
  BY DEF TypeOK
<1>2. disk' \subseteq Files /\ abandoned' \subseteq Ids
  BY DEF TypeOK, Files
<1> QED BY <1>1, <1>2, FilesType

LEMMA MediaType ==
    ASSUME NEW p \in Processes, NEW pc \in Steps,
           NEW m \in {"free", "shared", "exclusive"}
    PROVE  [p EXCEPT !.pc = pc, !.media = m] \in Processes
  BY DEF Processes

LEMMA StepsType == {"removing", "removed", "remove", "locked"} \subseteq Steps
  BY DEF Steps

LEMMA GotoType ==
    ASSUME TypeOK, NEW h \in Handlers, NEW pc \in Steps
    PROVE  /\ [proc[h] EXCEPT !.pc = pc] \in Processes
           /\ Goto(h, pc) = [proc EXCEPT ![h] = [proc[h] EXCEPT !.pc = pc]]
           /\ Goto(h, pc) \in [Handlers -> Processes]
<1>1. proc[h] \in Processes
  BY DEF TypeOK
<1>2. [proc[h] EXCEPT !.pc = pc] \in Processes
  BY <1>1 DEF Processes
<1> QED BY <1>2 DEF Goto, TypeOK

LEMMA OwnType ==
    ASSUME TypeOK, NEW h \in Handlers, proc[h].job \in Imports
    PROVE  Own(h) \in Ids
<1>1. proc[h] \in Processes
  BY DEF TypeOK
<1>2. proc[h].gen \in Nat
  BY <1>1 DEF Processes
<1> QED BY <1>2 DEF Own, Ids

LEMMA FetchingType ==
    ASSUME NEW m \in Imports, NEW g \in Nat
    PROVE  Fetching(m, g) \in Processes
  BY IdleType DEF Fetching, Processes, Steps

LEMMA RowType ==
    ASSUME TypeOK, NEW i \in Items
    PROVE  /\ item[i] \in Rows /\ item[i].state \in ItemStates
           /\ item[i].gen \in Nat
<1>1. item[i] \in Rows
  BY DEF TypeOK
<1> QED BY <1>1 DEF Rows

LEMMA ReclaimingType ==
    ASSUME TypeOK, NEW i \in Items, NEW n \in 0 .. CasReevaluationLimit
    PROVE  Reclaiming(i, n) \in Processes
<1>1. item[i].state \in ItemStates /\ item[i].gen \in Nat
  BY RowType
<1>2. i \in Imports
  BY DEF Imports
<1> QED BY <1>1, <1>2, IdleType DEF Reclaiming, Processes, Steps

LEMMA LeasedType ==
    ASSUME NEW g \in Nat
    PROVE  Leased(g) \in Rows
  BY DEF Leased, Rows, ItemStates

LEMMA RollbackType ==
    ASSUME TypeOK, NEW h \in Handlers,
           NEW e \in {"none", "retry", "final", "lost", "conflict"},
           Rollback(h, e)
    PROVE  \E p \in Processes : proc' = [proc EXCEPT ![h] = p]
<1>1. proc[h] \in Processes
  BY DEF TypeOK
<1>2. [proc[h] EXCEPT !.pc = "rollback"] \in Processes
  BY <1>1 DEF Processes, Steps
<1>3. [proc[h] EXCEPT !.pc = "rollback", !.dedup = None, !.media = "free",
                      !.error = e] \in Processes
  BY <1>2 DEF Processes
<1> QED BY <1>3 DEF Rollback

LEMMA FailWithType ==
    ASSUME TypeOK, NEW h \in Handlers,
           NEW e \in {"none", "retry", "final", "lost", "conflict"},
           FailWith(h, e)
    PROVE  \E p \in Processes : proc' = [proc EXCEPT ![h] = p]
<1>1. proc[h] \in Processes
  BY DEF TypeOK
<1>2. [proc[h] EXCEPT !.pc = "failing", !.image = None, !.error = e]
        \in Processes
  BY <1>1 DEF Processes, Steps
<1>3. CASE proc' = [proc EXCEPT ![h] = Idle]
  BY <1>3, IdleType
<1>4. CASE proc' = [proc EXCEPT ![h].pc = "failing", ![h].image = None,
                                ![h].error = e]
  BY <1>2, <1>4
<1> QED BY <1>3, <1>4 DEF FailWith

LEMMA RequestType ==
    ASSUME TypeOK, NEW h \in Handlers, Request(h)
    PROVE  TypeOK'
<1>1. ASSUME NEW i \in Items, Ask(h, i) PROVE TypeOK'
  <2>1. i \in Imports
    BY DEF Imports
  <2>2. proc' \in [Handlers -> Processes]
    BY <1>1, <2>1, FetchingType, ReclaimingType, LimitAssumption
       DEF Ask, TypeOK
  <2>3. item' \in [Items -> Rows]
    BY <1>1, LeasedType DEF Ask, TypeOK
  <2> QED BY <1>1, <2>2, <2>3 DEF Ask, TypeOK
<1>2. ASSUME NEW s \in Singles, BeginSingle(h, s) PROVE TypeOK'
  <2>1. s \in Imports
    BY DEF Imports
  <2>2. proc' \in [Handlers -> Processes]
    BY <1>2, <2>1, FetchingType DEF BeginSingle, TypeOK
  <2>3. begun' \subseteq Singles
    BY <1>2 DEF BeginSingle, TypeOK
  <2> QED BY <1>2, <2>2, <2>3 DEF BeginSingle, TypeOK
<1>3. ASSUME NEW p \in DOMAIN pins, BeginDelete(h, p) PROVE TypeOK'
  <2>1. p \in Ids /\ pins[p] \in Ids
    BY DEF TypeOK
  <2>2. [Idle EXCEPT !.pc = "delete", !.pin = p, !.image = pins[p]] \in Processes
    BY <2>1, IdleType DEF Processes, Steps
  <2>3. events' \in 0 .. MaxEvents
    BY <1>3 DEF BeginDelete, TypeOK
  <2> QED BY <1>3, <2>2, <2>3, QuietType DEF BeginDelete
<1> QED BY <1>1, <1>2, <1>3 DEF Request

LEMMA ReclaimType ==
    ASSUME TypeOK, NEW h \in Handlers, proc[h].job \in Items, Reclaim(h)
    PROVE  TypeOK'
<1> DEFINE i == proc[h].job
           g == proc[h].gen + 1
<1>1. i \in Imports
  BY DEF Imports
<1>2. proc[h] \in Processes
  BY DEF TypeOK
<1>3. g \in Nat /\ proc[h].tries \in 0 .. CasReevaluationLimit
  BY <1>2 DEF Processes
<1>4. MayTryAgain(h) => proc[h].tries + 1 \in 0 .. CasReevaluationLimit
  BY <1>3, LimitAssumption DEF MayTryAgain
<1>5. proc' \in [Handlers -> Processes]
  <2>1. Fetching(i, g) \in Processes
    BY <1>1, <1>3, FetchingType
  <2>2. MayTryAgain(h) => Reclaiming(i, proc[h].tries + 1) \in Processes
    BY <1>4, ReclaimingType
  <2> QED BY <2>1, <2>2, IdleType DEF Reclaim, TypeOK
<1>6. item' \in [Items -> Rows]
  <2>1. Leased(g) \in Rows
    BY <1>3, LeasedType
  <2> QED BY <2>1 DEF Reclaim, TypeOK
<1> QED BY <1>5, <1>6 DEF Reclaim, TypeOK

LEMMA PrepareType ==
    ASSUME TypeOK, NEW h \in Handlers, proc[h].job \in Imports, Prepare(h)
    PROVE  TypeOK'
<1>1. Own(h) \in Ids
  BY OwnType
<1>2. disk' \subseteq Files
  BY <1>1 DEF Prepare, TypeOK, Files, Staging
<1>3. proc' \in [Handlers -> Processes]
  <2>1. "prepared" \in Steps
    BY DEF Steps
  <2> QED BY <2>1, GotoType DEF Prepare
<1> QED BY <1>2, <1>3, FilesType DEF Prepare, TypeOK

LEMMA LocksType ==
    ASSUME TypeOK, NEW h \in Handlers, proc[h].job \in Imports,
           TakeDedup(h) \/ TakeLifecycle(h)
    PROVE  TypeOK'
<1>1. proc[h] \in Processes
  BY DEF TypeOK
<1>2. [proc[h] EXCEPT !.pc = "deduped", !.dedup = Digest[proc[h].job]]
        \in Processes
  BY <1>1, ContentType DEF Processes, Steps
<1>3. [proc[h] EXCEPT !.pc = "locked", !.media = "shared"] \in Processes
  BY <1>1, StepsType, MediaType
<1>4. \E p \in Processes : proc' = [proc EXCEPT ![h] = p]
  <2>1. CASE TakeDedup(h)
    BY <1>2, <2>1 DEF TakeDedup
  <2>2. CASE TakeLifecycle(h)
    BY <1>3, <2>2 DEF TakeLifecycle
  <2> QED BY <2>1, <2>2
<1>5. UNCHANGED <<rows, disk, abandoned>> /\ events' \in 0 .. MaxEvents
  BY DEF TakeDedup, TakeLifecycle, TypeOK
<1> QED BY <1>4, <1>5, QuietType

LEMMA FenceType ==
    ASSUME TypeOK, NEW h \in Handlers, Fence(h)
    PROVE  TypeOK'
<1>1. \E p \in Processes : proc' = [proc EXCEPT ![h] = p]
  <2>1. CASE proc' = Goto(h, "fenced")
    <3>1. "fenced" \in Steps
      BY DEF Steps
    <3> QED BY <2>1, <3>1, GotoType
  <2>2. CASE Rollback(h, "lost")
    BY <2>2, RollbackType
  <2> QED BY <2>1, <2>2 DEF Fence
<1>2. UNCHANGED <<rows, disk, abandoned>> /\ events' \in 0 .. MaxEvents
  BY DEF Fence, TypeOK
<1> QED BY <1>1, <1>2, QuietType

LEMMA ReuseType ==
    ASSUME TypeOK, NEW h \in Handlers, Reuse(h)
    PROVE  TypeOK'
<1>1. \E p \in Processes : proc' = [proc EXCEPT ![h] = p]
  <2>1. proc[h] \in Processes
    BY DEF TypeOK
  <2>2. PICK a \in Stored(h) :
           \/ proc' = [proc EXCEPT ![h].pc = "ready", ![h].image = a]
           \/ Rollback(h, "conflict")
    BY DEF Reuse
  <2>3. CASE Rollback(h, "conflict")
    BY <2>3, RollbackType
  <2>4. CASE proc' = [proc EXCEPT ![h].pc = "ready", ![h].image = a]
    <3>1. a \in Ids
      BY <2>2 DEF Stored, TypeOK
    <3>2. [proc[h] EXCEPT !.pc = "ready", !.image = a] \in Processes
      BY <2>1, <3>1 DEF Processes, Steps
    <3> QED BY <2>4, <3>2
  <2> QED BY <2>2, <2>3, <2>4
<1>2. UNCHANGED <<rows, disk, abandoned>> /\ events' \in 0 .. MaxEvents
  BY DEF Reuse, TypeOK
<1> QED BY <1>1, <1>2, QuietType

LEMMA PublishType ==
    ASSUME TypeOK, NEW h \in Handlers, proc[h].job \in Imports, Publish(h)
    PROVE  TypeOK'
<1>1. Own(h) \in Ids /\ proc[h] \in Processes
  BY OwnType DEF TypeOK
<1>2. disk' \subseteq Files
  BY <1>1 DEF Publish, TypeOK, Files, Final
<1>3. [proc[h] EXCEPT !.pc = "ready", !.image = Own(h)] \in Processes
  BY <1>1 DEF Processes, Steps
<1>4. proc' \in [Handlers -> Processes]
  BY <1>3 DEF Publish, TypeOK
<1> QED BY <1>2, <1>4, FilesType DEF Publish, TypeOK

LEMMA CommitType ==
    ASSUME TypeOK, NEW h \in Handlers, proc[h].job \in Imports,
           proc[h].image \in Ids, Commit(h)
    PROVE  TypeOK'
<1>1. Own(h) \in Ids /\ proc[h] \in Processes
  BY OwnType DEF TypeOK
<1>2. images' \subseteq Ids
  BY DEF Commit, TypeOK
<1>3. DOMAIN pins' \subseteq Ids /\ \A p \in DOMAIN pins' : pins'[p] \in Ids
  BY <1>1 DEF Commit, AddPin, TypeOK
<1>4. item' \in [Items -> Rows]
  <2>1. CASE proc[h].job \in Items
    <3>1. item[proc[h].job] \in Rows
      BY <2>1, RowType
    <3>2. Succeeded(item[proc[h].job], Own(h)) \in Rows
      BY <1>1, <3>1 DEF Succeeded, Rows, ItemStates
    <3> QED BY <3>2 DEF Commit, TypeOK
  <2> QED BY <2>1 DEF Commit, TypeOK
<1>5. made' \in [Items -> SUBSET Ids]
  BY <1>1 DEF Commit, TypeOK
<1>6. proc' \in [Handlers -> Processes]
  <2>1. [proc[h] EXCEPT !.pc = "finish"] \in Processes
    BY <1>1 DEF Processes, Steps
  <2>2. [proc[h] EXCEPT !.pc = "finish", !.dedup = None, !.media = "free"]
          \in Processes
    BY <2>1 DEF Processes
  <2> QED BY <2>2 DEF Commit, TypeOK
<1> QED BY <1>2, <1>3, <1>4, <1>5, <1>6 DEF Commit, TypeOK


LEMMA CommitFailsType ==
    ASSUME TypeOK, NEW h \in Handlers, CommitFails(h)
    PROVE  TypeOK'
<1>1. \E p \in Processes : proc' = [proc EXCEPT ![h] = p]
  BY RollbackType DEF CommitFails
<1>2. UNCHANGED <<rows, disk, abandoned>> /\ events' \in 0 .. MaxEvents
  BY DEF CommitFails, TypeOK
<1> QED BY <1>1, <1>2, QuietType

LEMMA FinishType ==
    ASSUME TypeOK, NEW h \in Handlers, Finish(h)
    PROVE  TypeOK'
<1>1. proc' \in [Handlers -> Processes]
  BY IdleType DEF Finish, TypeOK
<1>2. disk' \subseteq Files
  BY DEF Finish, TypeOK, Files
<1> QED BY <1>1, <1>2, FilesType DEF Finish, TypeOK

LEMMA ErrorType ==
    ASSUME TypeOK, NEW h \in Handlers
    PROVE  proc[h].error \in {"none", "retry", "final", "lost", "conflict"}
<1>1. proc[h] \in Processes
  BY DEF TypeOK
<1> QED BY <1>1 DEF Processes

LEMMA CompensateType ==
    ASSUME TypeOK, NEW h \in Handlers, proc[h].job \in Imports,
           Compensate(h) \/ CompensateFails(h)
    PROVE  TypeOK'
<1>1. FailWith(h, proc[h].error)
  BY DEF Compensate, CompensateFails
<1>2. proc' \in [Handlers -> Processes]
  <2>1. \E p \in Processes : proc' = [proc EXCEPT ![h] = p]
    BY <1>1, ErrorType, FailWithType
  <2> QED BY <2>1 DEF TypeOK
<1>3. disk' \subseteq Files
  BY DEF Compensate, CompensateFails, TypeOK, Files
<1>4. abandoned' \subseteq Ids
  <2>1. Own(h) \in Ids
    BY OwnType
  <2> QED BY <2>1 DEF Compensate, CompensateFails, TypeOK
<1>5. events' \in 0 .. MaxEvents
  BY FaultType DEF Compensate, CompensateFails, TypeOK
<1>6. UNCHANGED rows
  BY DEF Compensate, CompensateFails, rows
<1> QED BY <1>2, <1>3, <1>4, <1>5, <1>6, FilesType

LEMMA RecordFailureType ==
    ASSUME TypeOK, NEW h \in Handlers, proc[h].job \in Items, RecordFailure(h)
    PROVE  TypeOK'
<1>1. item' \in [Items -> Rows]
  <2>1. item[proc[h].job] \in Rows
    BY RowType
  <2>2. Failed(item[proc[h].job], proc[h].error) \in Rows
    <3>1. PICK b \in BOOLEAN : b = (proc[h].error = "retry")
      OBVIOUS
    <3>2. [item[proc[h].job] EXCEPT !.state = "failed", !.expired = FALSE,
                                    !.retryable = b] \in Rows
      BY <2>1 DEF Rows, ItemStates
    <3> QED BY <3>1, <3>2 DEF Failed
  <2> QED BY <2>2 DEF RecordFailure, TypeOK
<1>2. proc' \in [Handlers -> Processes]
  BY IdleType DEF RecordFailure, TypeOK
<1> QED BY <1>1, <1>2 DEF RecordFailure, TypeOK

\* Faults that only end what a handler does.
LEMMA FailureType ==
    ASSUME TypeOK, NEW h \in Handlers, Shape(h), Failure(h)
    PROVE  TypeOK'
<1>1. CASE ClaimBusy(h) \/ RecordBusy(h) \/ RemoveFails(h)
  BY <1>1, IdleType, FaultType, QuietType
     DEF ClaimBusy, RecordBusy, RemoveFails
<1>2. CASE CompensateFails(h)
  BY <1>2, CompensateType DEF CompensateFails, Shape, ImportSteps
<1>3. ASSUME NEW e \in {"retry", "final"}, FetchFails(h, e) PROVE TypeOK'
  <2>1. \E p \in Processes : proc' = [proc EXCEPT ![h] = p]
    BY <1>3, FailWithType DEF FetchFails
  <2> QED BY <1>3, <2>1, FaultType, QuietType DEF FetchFails
<1>4. ASSUME NEW e \in {"retry", "final"}, ImportError(h, e) PROVE TypeOK'
  <2>1. \E p \in Processes : proc' = [proc EXCEPT ![h] = p]
    BY <1>4, RollbackType DEF ImportError
  <2> QED BY <1>4, <2>1, FaultType, QuietType DEF ImportError
<1>5. CASE Crash(h)
  <2>1. proc' \in [Handlers -> Processes]
    BY <1>5, IdleType DEF Crash, TypeOK
  <2>2. abandoned' \subseteq Ids
    <3>1. proc[h].job # None => proc[h].job \in Imports
      BY DEF Shape, Imports
    <3>2. proc[h].job # None => Own(h) \in Ids
      BY <3>1, OwnType
    <3>3. \A a \in {Own(h)} : InHand(a) => a \in Ids
      <4> SUFFICES ASSUME InHand(Own(h)) PROVE Own(h) \in Ids
        OBVIOUS
      <4>1. PICK g \in Handlers : proc[g].job # None /\ Own(g) = Own(h)
        BY DEF InHand
      <4>2. proc[h].job = proc[g].job
        BY <4>1 DEF Own
      <4> QED BY <4>1, <4>2, <3>2
    <3> QED BY <1>5, <3>3 DEF Crash, TypeOK
  <2>3. disk' \subseteq Files
    BY <1>5 DEF Crash, TypeOK, Files
  <2> QED BY <1>5, <2>1, <2>2, <2>3, FaultType, FilesType DEF Crash
<1> QED BY <1>1, <1>2, <1>3, <1>4, <1>5 DEF Failure

LEMMA DeletePinType ==
    ASSUME TypeOK, NEW h \in Handlers, proc[h].image \in Ids, DeletePin(h)
    PROVE  TypeOK'
<1>1. images' \subseteq Ids /\ pending' \subseteq Ids
  BY DEF DeletePin, TypeOK
<1>2. DOMAIN pins' \subseteq Ids /\ \A p \in DOMAIN pins' : pins'[p] \in Ids
  BY DEF DeletePin, TypeOK
<1>3. item' \in [Items -> Rows]
  <2>1. ASSUME NEW i \in Items, NEW p
        PROVE  [item[i] EXCEPT !.pin = IF @ = p THEN None ELSE @] \in Rows
    <3>1. item[i] \in Rows /\ item[i].pin \in Ids \cup {None}
      BY RowType DEF Rows
    <3>2. PICK q \in Ids \cup {None} :
             q = IF item[i].pin = p THEN None ELSE item[i].pin
      BY <3>1
    <3>3. [item[i] EXCEPT !.pin = q] \in Rows
      BY <3>1 DEF Rows
    <3> QED BY <3>2, <3>3
  <2> QED BY <2>1 DEF DeletePin, Forget
<1>4. proc' \in [Handlers -> Processes]
  <2>1. "remove" \in Steps
    BY DEF Steps
  <2>2. Goto(h, "remove") \in [Handlers -> Processes]
    BY <2>1, GotoType
  <2> QED BY <2>2, IdleType DEF DeletePin, TypeOK
<1> QED BY <1>1, <1>2, <1>3, <1>4 DEF DeletePin, TypeOK

\* The steps of a deletion, of a removal and of a sweep.
LEMMA DeleteStepType ==
    ASSUME TypeOK, NEW h \in Handlers, Shape(h), DeleteStep(h)
    PROVE  TypeOK'
<1>1. proc[h] \in Processes
  BY DEF TypeOK
<1>2. CASE DeleteDedup(h)
  <2>1. proc[h].image \in Ids
    BY <1>2 DEF DeleteDedup, Shape, PinSteps
  <2>2. [proc[h] EXCEPT !.pc = "deleting", !.dedup = ContentOf(proc[h].image)]
          \in Processes
    <3>1. ContentOf(proc[h].image) \in Digests
      BY <2>1, ContentType
    <3> QED BY <1>1, <3>1 DEF Processes, Steps
  <2>3. \E p \in Processes : proc' = [proc EXCEPT ![h] = p]
    BY <1>2, <2>2, IdleType DEF DeleteDedup
  <2> QED BY <1>2, <2>3, QuietType DEF DeleteDedup, TypeOK
<1>3. CASE DeletePinFails(h)
  BY <1>3, IdleType, QuietType DEF DeletePinFails, TypeOK
<1>4. CASE DeletePin(h)
  <2>1. proc[h].image \in Ids
    BY <1>4 DEF DeletePin, Shape, PinSteps
  <2> QED BY <1>4, <2>1, DeletePinType
<1>5. CASE Remove(h)
  <2>1. [proc[h] EXCEPT !.pc = "removing", !.media = "exclusive"] \in Processes
    BY <1>1, StepsType, MediaType
  <2>2. /\ [proc[h] EXCEPT !.pc = "removed"] \in Processes
        /\ Goto(h, "removed")
             = [proc EXCEPT ![h] = [proc[h] EXCEPT !.pc = "removed"]]
    BY StepsType, GotoType
  <2>3. \E p \in Processes : proc' = [proc EXCEPT ![h] = p]
    <3>1. CASE proc' = Goto(h, "removed")
      BY <3>1, <2>2
    <3>2. CASE proc' = [proc EXCEPT ![h].pc = "removing",
                                    ![h].media = "exclusive"]
      BY <3>2, <2>1
    <3>3. CASE proc' = [proc EXCEPT ![h] = Idle]
      BY <3>3, IdleType
    <3> QED BY <1>5, <3>1, <3>2, <3>3 DEF Remove
  <2> QED BY <1>5, <2>3, QuietType DEF Remove, TypeOK
<1>6. CASE RemoveFile(h)
  <2>1. [proc[h] EXCEPT !.pc = "removed", !.media = "free"] \in Processes
    BY <1>1, StepsType, MediaType
  <2>2. proc' \in [Handlers -> Processes]
    BY <1>6, <2>1 DEF RemoveFile, TypeOK
  <2>3. disk' \subseteq Files
    BY <1>6 DEF RemoveFile, TypeOK, Files
  <2> QED BY <1>6, <2>2, <2>3, FilesType DEF RemoveFile, TypeOK
<1>7. CASE ForgetPending(h)
  <2>1. proc' \in [Handlers -> Processes]
    BY <1>7, IdleType DEF ForgetPending, TypeOK
  <2>2. pending' \subseteq Ids
    BY <1>7 DEF ForgetPending, TypeOK
  <2> QED BY <1>7, <2>1, <2>2 DEF ForgetPending, TypeOK
<1>8. CASE Sweep(h)
  <2>1. proc' \in [Handlers -> Processes]
    BY <1>8, IdleType DEF Sweep, TypeOK
  <2>2. disk' \subseteq Files
    BY <1>8 DEF Sweep, TypeOK, Files
  <2> QED BY <1>8, <2>1, <2>2, FilesType DEF Sweep, TypeOK
<1> QED BY <1>2, <1>3, <1>4, <1>5, <1>6, <1>7, <1>8 DEF DeleteStep

LEMMA AssetsType ==
    ASSUME TypeOK
    PROVE  Assets \subseteq Ids
<1>1. \A f \in disk : f[2] \in Ids
  BY DEF TypeOK
<1> QED BY <1>1 DEF Assets, TypeOK

LEMMA MaintenanceType ==
    ASSUME TypeOK, NEW h \in Handlers, Maintenance(h)
    PROVE  TypeOK'
<1>1. PICK a \in Ids : Retry(h, a) \/ BeginSweep(h, a) \/ SweepStaging(h, a)
  BY AssetsType DEF Maintenance
<1>2. CASE Retry(h, a) \/ BeginSweep(h, a)
  <2>1. [Idle EXCEPT !.pc = "remove", !.image = a] \in Processes
    BY IdleType DEF Processes, Steps
  <2>2. [Idle EXCEPT !.pc = "sweep", !.image = a] \in Processes
    BY IdleType DEF Processes, Steps
  <2> QED BY <1>2, <2>1, <2>2, QuietType DEF Retry, BeginSweep, TypeOK
<1>3. CASE SweepStaging(h, a)
  <2>1. disk' \subseteq Files
    BY <1>3 DEF SweepStaging, TypeOK, Files
  <2> QED BY <1>3, <2>1, FilesType DEF SweepStaging, TypeOK
<1> QED BY <1>1, <1>2, <1>3

LEMMA ExpireType ==
    ASSUME TypeOK, NEW i \in Items, Expire(i)
    PROVE  TypeOK'
<1>1. item' \in [Items -> Rows]
  <2>1. [item[i] EXCEPT !.expired = TRUE] \in Rows
    BY RowType DEF Rows
  <2> QED BY <2>1 DEF Expire, TypeOK
<1>2. events' \in 0 .. MaxEvents
  BY FaultType DEF Expire, TypeOK
<1> QED BY <1>1, <1>2 DEF Expire, TypeOK

LEMMA ImportStepType ==
    ASSUME TypeOK, NEW h \in Handlers, Shape(h), ImportStep(h)
    PROVE  TypeOK'
<1>1. CASE Reclaim(h)
  BY <1>1, ReclaimType DEF Reclaim, Shape, ItemSteps
<1>2. CASE Prepare(h)
  BY <1>2, PrepareType DEF Prepare, Shape, ImportSteps
<1>3. CASE TakeDedup(h) \/ TakeLifecycle(h)
  BY <1>3, LocksType DEF TakeDedup, TakeLifecycle, Shape, ImportSteps
<1>4. CASE Fence(h)
  BY <1>4, FenceType
<1>5. CASE Reuse(h)
  BY <1>5, ReuseType
<1>6. CASE Publish(h)
  BY <1>6, PublishType DEF Publish, Shape, ImportSteps
<1>7. CASE Commit(h)
  BY <1>7, CommitType DEF Commit, Shape, ImportSteps
<1>8. CASE CommitFails(h)
  BY <1>8, CommitFailsType
<1>9. CASE Finish(h)
  BY <1>9, FinishType
<1>10. CASE Compensate(h)
  BY <1>10, CompensateType DEF Compensate, Shape, ImportSteps
<1>11. CASE RecordFailure(h)
  BY <1>11, RecordFailureType DEF RecordFailure, Shape, ItemSteps
<1> QED BY <1>1, <1>2, <1>3, <1>4, <1>5, <1>6, <1>7, <1>8, <1>9, <1>10, <1>11
        DEF ImportStep

-----------------------------------------------------------------------------
(* A step of one handler.                                                  *)

HandlerStep(h) ==
    \/ ImportStep(h) \/ DeleteStep(h) \/ Failure(h)
    \/ Request(h) \/ Maintenance(h)

LEMMA StepType ==
    ASSUME TypeInv, NEW h \in Handlers, HandlerStep(h)
    PROVE  TypeOK'
  BY ImportStepType, DeleteStepType, FailureType, RequestType, MaintenanceType
     DEF TypeInv, HandlerStep

LEMMA OthersUnchanged ==
    ASSUME TypeOK, NEW h \in Handlers, HandlerStep(h),
           NEW g \in Handlers, g # h
    PROVE  proc'[g] = proc[g]
<1>1. CASE ImportStep(h)
  <2>1. CASE Reclaim(h) \/ Prepare(h) \/ TakeDedup(h) \/ TakeLifecycle(h)
    BY <2>1 DEF Reclaim, Prepare, TakeDedup, TakeLifecycle, Goto, TypeOK
  <2>2. CASE Fence(h) \/ Reuse(h) \/ Publish(h)
    BY <2>2 DEF Fence, Reuse, Publish, Rollback, Goto, TypeOK
  <2>3. CASE Commit(h)
    BY <2>3 DEF Commit, TypeOK
  <2>4. CASE CommitFails(h) \/ Finish(h)
    BY <2>4 DEF CommitFails, Rollback, Finish, TypeOK
  <2>5. CASE Compensate(h) \/ RecordFailure(h)
    BY <2>5 DEF Compensate, FailWith, RecordFailure, TypeOK
  <2> QED BY <1>1, <2>1, <2>2, <2>3, <2>4, <2>5 DEF ImportStep
<1>2. CASE DeleteStep(h)
  BY <1>2 DEF DeleteStep, DeleteDedup, DeletePinFails, DeletePin, Remove,
     RemoveFile, ForgetPending, Sweep, Goto, TypeOK
<1>3. CASE Failure(h)
  <2>1. CASE ClaimBusy(h) \/ RecordBusy(h) \/ RemoveFails(h) \/ Crash(h)
    BY <2>1 DEF ClaimBusy, RecordBusy, RemoveFails, Crash, TypeOK
  <2>2. CASE CompensateFails(h)
    BY <2>2 DEF CompensateFails, FailWith, TypeOK
  <2>3. ASSUME NEW e, FetchFails(h, e) \/ ImportError(h, e)
        PROVE  proc'[g] = proc[g]
    BY <2>3 DEF FetchFails, FailWith, ImportError, Rollback, TypeOK
  <2> QED BY <1>3, <2>1, <2>2, <2>3 DEF Failure
<1>4. CASE Request(h) \/ Maintenance(h)
  BY <1>4 DEF Request, Ask, BeginSingle, BeginDelete, Maintenance, Retry,
     BeginSweep, SweepStaging, TypeOK
<1> QED BY <1>1, <1>2, <1>3, <1>4 DEF HandlerStep

LEMMA IdleShape ==
    ASSUME TypeOK, NEW h \in Handlers, proc' = [proc EXCEPT ![h] = Idle]
    PROVE  Shape(h)'
  BY DEF TypeOK, Shape, Idle, ImportSteps, ItemSteps, PinSteps, FileSteps

LEMMA FailWithShape ==
    ASSUME TypeOK, NEW h \in Handlers, NEW e, FailWith(h, e)
    PROVE  Shape(h)'
<1>1. CASE proc' = [proc EXCEPT ![h] = Idle]
  BY <1>1, IdleShape
<1>2. CASE /\ proc[h].job \in Items
           /\ proc' = [proc EXCEPT ![h].pc = "failing", ![h].image = None,
                                   ![h].error = e]
  <2>1. proc[h] \in Processes
    BY DEF TypeOK
  <2>2. proc'[h].pc = "failing" /\ proc'[h].job = proc[h].job
    BY <1>2, <2>1 DEF TypeOK, Processes
  <2> QED BY <1>2, <2>2
          DEF Shape, ImportSteps, ItemSteps, PinSteps, FileSteps
<1> QED BY <1>1, <1>2 DEF FailWith

\* A step inside the import, and one inside a deletion.
LEMMA ImportingShape ==
    ASSUME NEW h \in Handlers, Shape(h), proc[h].pc \in ImportSteps,
           proc'[h].pc \in ImportSteps, proc'[h].job = proc[h].job,
           proc'[h].pc = "ready" => proc'[h].image \in Ids
    PROVE  Shape(h)'
  BY DEF Shape, ImportSteps, ItemSteps, PinSteps, FileSteps

LEMMA DeletingShape ==
    ASSUME NEW h \in Handlers, Shape(h),
           proc'[h].pc \in PinSteps \cup FileSteps,
           proc'[h].job = None,
           proc'[h].pc \in PinSteps => proc'[h].pin \in Ids,
           proc'[h].image \in Ids
    PROVE  Shape(h)'
  BY DEF Shape, ImportSteps, ItemSteps, PinSteps, FileSteps

LEMMA RollbackShape ==
    ASSUME TypeOK, NEW h \in Handlers, Shape(h), NEW e, Rollback(h, e),
           proc[h].pc \in ImportSteps
    PROVE  Shape(h)'
<1>1. proc[h] \in Processes
  BY DEF TypeOK
<1>2. proc'[h].pc = "rollback" /\ proc'[h].job = proc[h].job
  BY <1>1 DEF Rollback, TypeOK, Processes
<1> QED BY <1>2, ImportingShape DEF ImportSteps

LEMMA RequestShape ==
    ASSUME TypeOK, NEW h \in Handlers, Request(h)
    PROVE  Shape(h)'
<1>1. ASSUME NEW i \in Items, Ask(h, i) PROVE Shape(h)'
  <2>1. /\ proc'[h].pc \in {"fetch", "reclaim"} /\ proc'[h].job = i
    <3>1. CASE proc' = [proc EXCEPT ![h] = Fetching(i, 1)]
      BY <3>1 DEF TypeOK, Fetching, Idle
    <3>2. CASE proc' = [proc EXCEPT ![h] = Reclaiming(i, 1)]
      BY <3>2 DEF TypeOK, Reclaiming, Idle
    <3> QED BY <1>1, <3>1, <3>2 DEF Ask
  <2>2. i \in Imports
    BY DEF Imports
  <2> QED BY <2>1, <2>2 DEF Shape, ImportSteps, ItemSteps, PinSteps, FileSteps
<1>2. ASSUME NEW s \in Singles, BeginSingle(h, s) PROVE Shape(h)'
  <2>1. /\ proc'[h].pc = "fetch" /\ proc'[h].job = s
    BY <1>2 DEF BeginSingle, TypeOK, Fetching, Idle
  <2>2. s \in Imports
    BY DEF Imports
  <2> QED BY <2>1, <2>2 DEF Shape, ImportSteps, ItemSteps, PinSteps, FileSteps
<1>3. ASSUME NEW p \in DOMAIN pins, BeginDelete(h, p) PROVE Shape(h)'
  <2>1. /\ proc'[h].pc = "delete" /\ proc'[h].job = None
        /\ proc'[h].pin = p /\ proc'[h].image = pins[p]
    BY <1>3 DEF BeginDelete, TypeOK, Idle
  <2>2. p \in Ids /\ pins[p] \in Ids
    BY DEF TypeOK
  <2> QED BY <2>1, <2>2 DEF Shape, ImportSteps, ItemSteps, PinSteps, FileSteps
<1> QED BY <1>1, <1>2, <1>3 DEF Request

LEMMA MaintenanceShape ==
    ASSUME TypeOK, NEW h \in Handlers, Shape(h), Maintenance(h)
    PROVE  Shape(h)'
<1>1. PICK a \in Ids : Retry(h, a) \/ BeginSweep(h, a) \/ SweepStaging(h, a)
  BY AssetsType DEF Maintenance
<1>2. CASE Retry(h, a) \/ BeginSweep(h, a)
  <2>1. /\ proc'[h].pc \in {"remove", "sweep"} /\ proc'[h].job = None
        /\ proc'[h].image = a
    <3>1. CASE Retry(h, a)
      BY <3>1 DEF Retry, TypeOK, Idle
    <3>2. CASE BeginSweep(h, a)
      BY <3>2 DEF BeginSweep, TypeOK, Idle
    <3> QED BY <1>2, <3>1, <3>2
  <2> QED BY <2>1, DeletingShape DEF PinSteps, FileSteps
<1>3. CASE SweepStaging(h, a)
  BY <1>3 DEF SweepStaging, Shape
<1> QED BY <1>1, <1>2, <1>3

LEMMA ImportStepShape ==
    ASSUME TypeOK, NEW h \in Handlers, Shape(h), ImportStep(h)
    PROVE  Shape(h)'
<1>1. proc[h] \in Processes
  BY DEF TypeOK
<1>2. CASE Reclaim(h)
  <2>1. proc[h].job \in Items /\ proc[h].job \in Imports
    BY <1>2 DEF Reclaim, Shape, ItemSteps, Imports
  <2>2. CASE proc' = [proc EXCEPT ![h] = Idle]
    BY <2>2, IdleShape
  <2>3. ASSUME NEW g, proc' = [proc EXCEPT ![h] = Fetching(proc[h].job, g)]
        PROVE  Shape(h)'
    <3>1. proc'[h].pc = "fetch" /\ proc'[h].job = proc[h].job
      BY <2>3 DEF TypeOK, Fetching, Idle
    <3> QED BY <2>1, <3>1
            DEF Shape, ImportSteps, ItemSteps, PinSteps, FileSteps
  <2>4. ASSUME NEW n, proc' = [proc EXCEPT ![h] = Reclaiming(proc[h].job, n)]
        PROVE  Shape(h)'
    <3>1. proc'[h].pc = "reclaim" /\ proc'[h].job = proc[h].job
      BY <2>4 DEF TypeOK, Reclaiming, Idle
    <3> QED BY <2>1, <3>1
            DEF Shape, ImportSteps, ItemSteps, PinSteps, FileSteps
  <2> QED BY <1>2, <2>2, <2>3, <2>4 DEF Reclaim
<1>3. CASE Prepare(h) \/ TakeDedup(h) \/ TakeLifecycle(h)
  <2>1. /\ proc[h].pc \in ImportSteps
        /\ proc'[h].pc \in {"prepared", "deduped", "locked"}
        /\ proc'[h].job = proc[h].job
    BY <1>1, <1>3 DEF Prepare, TakeDedup, TakeLifecycle, Goto, TypeOK,
       Processes, ImportSteps
  <2> QED BY <2>1, ImportingShape DEF ImportSteps
<1>4. CASE Fence(h)
  <2>1. CASE Rollback(h, "lost")
    BY <1>4, <2>1, RollbackShape DEF Fence, ImportSteps
  <2>2. CASE proc' = Goto(h, "fenced")
    <3>1. proc'[h].pc = "fenced" /\ proc'[h].job = proc[h].job
      BY <1>1, <2>2 DEF Goto, TypeOK, Processes
    <3> QED BY <1>4, <3>1, ImportingShape DEF Fence, ImportSteps
  <2> QED BY <1>4, <2>1, <2>2 DEF Fence
<1>5. CASE Reuse(h)
  <2>1. PICK a \in Stored(h) :
           \/ proc' = [proc EXCEPT ![h].pc = "ready", ![h].image = a]
           \/ Rollback(h, "conflict")
    BY <1>5 DEF Reuse
  <2>2. CASE Rollback(h, "conflict")
    BY <1>5, <2>2, RollbackShape DEF Reuse, ImportSteps
  <2>3. CASE proc' = [proc EXCEPT ![h].pc = "ready", ![h].image = a]
    <3>1. a \in Ids
      BY <2>1 DEF Stored, TypeOK
    <3>2. /\ proc'[h].pc = "ready" /\ proc'[h].job = proc[h].job
          /\ proc'[h].image = a
      BY <1>1, <2>3 DEF TypeOK, Processes
    <3> QED BY <1>5, <3>1, <3>2, ImportingShape DEF Reuse, ImportSteps
  <2> QED BY <2>1, <2>2, <2>3
<1>6. CASE Publish(h)
  <2>1. Own(h) \in Ids
    BY <1>6, OwnType DEF Publish, Shape, ImportSteps
  <2>2. /\ proc'[h].pc = "ready" /\ proc'[h].job = proc[h].job
        /\ proc'[h].image = Own(h)
    BY <1>1, <1>6 DEF Publish, TypeOK, Processes
  <2> QED BY <1>6, <2>1, <2>2, ImportingShape DEF Publish, ImportSteps
<1>7. CASE Commit(h)
  <2>1. proc'[h].pc = "finish" /\ proc'[h].job = proc[h].job
    BY <1>1, <1>7 DEF Commit, TypeOK, Processes
  <2> QED BY <1>7, <2>1, ImportingShape DEF Commit, ImportSteps
<1>8. CASE CommitFails(h)
  BY <1>8, RollbackShape DEF CommitFails, ImportSteps
<1>9. CASE Finish(h) \/ RecordFailure(h)
  BY <1>9, IdleShape DEF Finish, RecordFailure
<1>10. CASE Compensate(h)
  BY <1>10, FailWithShape DEF Compensate
<1> QED BY <1>2, <1>3, <1>4, <1>5, <1>6, <1>7, <1>8, <1>9, <1>10
        DEF ImportStep

LEMMA DeleteStepShape ==
    ASSUME TypeOK, NEW h \in Handlers, Shape(h), DeleteStep(h)
    PROVE  Shape(h)'
<1>1. proc[h] \in Processes
  BY DEF TypeOK
<1>2. CASE proc' = [proc EXCEPT ![h] = Idle]
  BY <1>2, IdleShape
<1>3. CASE proc' # [proc EXCEPT ![h] = Idle]
  <2>1. /\ proc[h].pc \in PinSteps \cup FileSteps
        /\ proc'[h].pc \in {"deleting", "remove", "removing", "removed"}
        /\ proc'[h].job = proc[h].job
        /\ proc'[h].pc = "deleting" => proc'[h].pin = proc[h].pin
                                       /\ proc[h].pc = "delete"
        /\ proc'[h].image = proc[h].image
    BY <1>1, <1>3 DEF DeleteStep, DeleteDedup, DeletePinFails, DeletePin, Remove,
       RemoveFile, ForgetPending, Sweep, Goto, TypeOK, Processes, PinSteps, FileSteps
  <2>2. proc[h].job = None
    BY <2>1 DEF Shape, ImportSteps, ItemSteps, PinSteps, FileSteps
  <2> QED BY <2>1, <2>2, DeletingShape DEF Shape, PinSteps, FileSteps
<1> QED BY <1>2, <1>3

LEMMA FailureShape ==
    ASSUME TypeOK, NEW h \in Handlers, Shape(h), Failure(h)
    PROVE  Shape(h)'
<1>1. CASE ClaimBusy(h) \/ RecordBusy(h) \/ RemoveFails(h) \/ Crash(h)
  BY <1>1, IdleShape DEF ClaimBusy, RecordBusy, RemoveFails, Crash
<1>2. CASE CompensateFails(h)
  BY <1>2, FailWithShape DEF CompensateFails
<1>3. ASSUME NEW e, FetchFails(h, e) PROVE Shape(h)'
  BY <1>3, FailWithShape DEF FetchFails
<1>4. ASSUME NEW e, ImportError(h, e) PROVE Shape(h)'
  <2>1. proc[h].pc \in ImportSteps
    BY <1>4 DEF ImportError, ImportSteps
  <2> QED BY <1>4, <2>1, RollbackShape DEF ImportError
<1> QED BY <1>1, <1>2, <1>3, <1>4 DEF Failure

LEMMA StepShape ==
    ASSUME TypeInv, NEW h \in Handlers, HandlerStep(h)
    PROVE  \A g \in Handlers : Shape(g)'
<1>1. Shape(h)'
  BY ImportStepShape, DeleteStepShape, FailureShape, RequestShape,
     MaintenanceShape DEF TypeInv, HandlerStep
<1>2. ASSUME NEW g \in Handlers, g # h PROVE Shape(g)'
  <2>1. proc'[g] = proc[g] /\ Shape(g)
    BY <1>2, OthersUnchanged DEF TypeInv
  <2> QED BY <2>1 DEF Shape
<1> QED BY <1>1, <1>2

LEMMA InitTypeInv ==
    ASSUME Init PROVE TypeInv
<1>1. TypeOK
  BY IdleType, LimitAssumption DEF Init, TypeOK, Absent, Rows, ItemStates
<1>2. ASSUME NEW h \in Handlers PROVE Shape(h)
  BY DEF Init, Shape, Idle, ImportSteps, ItemSteps, PinSteps, FileSteps
<1> QED BY <1>1, <1>2 DEF TypeInv

LEMMA NextTypeInv ==
    ASSUME TypeInv, [Next]_vars PROVE TypeInv'
<1>1. CASE UNCHANGED vars
  BY <1>1 DEF TypeInv, TypeOK, Shape, vars
<1>2. ASSUME NEW h \in Handlers, HandlerStep(h) PROVE TypeInv'
  BY <1>2, StepType, StepShape DEF TypeInv
<1>3. ASSUME NEW i \in Items, Expire(i) PROVE TypeInv'
  <2>1. TypeOK'
    BY <1>3, ExpireType DEF TypeInv
  <2>2. \A h \in Handlers : Shape(h)'
    BY <1>3 DEF Expire, TypeInv, Shape
  <2> QED BY <2>1, <2>2 DEF TypeInv
<1> QED BY <1>1, <1>2, <1>3 DEF Next, HandlerStep

\* The types hold, whatever the number of handlers and imports (TypeOK).
THEOREM TypeCorrect == Spec => []TypeOK
<1>1. Spec => []TypeInv
  BY InitTypeInv, NextTypeInv, PTL DEF Spec
<1>2. TypeInv => TypeOK
  BY DEF TypeInv
<1> QED BY <1>1, <1>2, PTL

-----------------------------------------------------------------------------
(* How an item's row may change.                                           *)

Kept(i) == item'[i].state = item[i].state /\ made'[i] = made[i]

Claimed(i) ==
    /\ item[i].state # "succeeded" /\ item'[i].state = "pending"
    /\ made'[i] = made[i]

SettledBy(i, h) ==
    /\ proc[h].pc \in {"ready", "failing"} /\ proc[h].job = i
    /\ Owned(h)
    /\ proc'[h].pc # proc[h].pc
    /\ \/ item'[i].state = "succeeded" /\ made'[i] = made[i] \cup {Own(h)}
       \/ item'[i].state = "failed" /\ made'[i] = made[i]

ItemMoves(i) == Kept(i) \/ Claimed(i) \/ \E h \in Handlers : SettledBy(i, h)

LEMMA AskMoves ==
    ASSUME TypeOK, NEW h \in Handlers, NEW j \in Items, Ask(h, j),
           NEW i \in Items
    PROVE  ItemMoves(i)
<1>1. CASE UNCHANGED item
  BY <1>1 DEF Ask, ItemMoves, Kept
<1>2. CASE item[j].state = "absent" /\ item' = [item EXCEPT ![j] = Leased(1)]
  <2>1. CASE i = j
    BY <1>2, <2>1 DEF Ask, ItemMoves, Claimed, Leased, TypeOK
  <2>2. CASE i # j
    BY <1>2, <2>2 DEF Ask, ItemMoves, Kept, TypeOK
  <2> QED BY <2>1, <2>2
<1> QED BY <1>1, <1>2 DEF Ask

LEMMA ReclaimMoves ==
    ASSUME TypeOK, NEW h \in Handlers, Shape(h), Reclaim(h), NEW i \in Items
    PROVE  ItemMoves(i)
<1>1. CASE UNCHANGED item
  BY <1>1 DEF Reclaim, ItemMoves, Kept
<1>2. CASE /\ AsSeen(h)
           /\ item' = [item EXCEPT ![proc[h].job] = Leased(proc[h].gen + 1)]
  <2>1. item[proc[h].job].state # "succeeded"
    BY <1>2 DEF AsSeen, Reclaimable
  <2>2. CASE i = proc[h].job
    BY <1>2, <2>1, <2>2 DEF Reclaim, ItemMoves, Claimed, Leased, TypeOK
  <2>3. CASE i # proc[h].job
    BY <1>2, <2>3 DEF Reclaim, ItemMoves, Kept, TypeOK
  <2> QED BY <2>2, <2>3
<1> QED BY <1>1, <1>2 DEF Reclaim

LEMMA CommitMoves ==
    ASSUME TypeOK, NEW h \in Handlers, Commit(h), NEW i \in Items
    PROVE  ItemMoves(i)
<1>1. CASE proc[h].job = i
  <2>1. item[i] \in Rows /\ proc[h] \in Processes
    BY DEF TypeOK
  <2>2. i \notin Singles
    BY ImportAssumption
  <2>3. item'[i].state = "succeeded" /\ made'[i] = made[i] \cup {Own(h)}
    <3>1. /\ item' = [item EXCEPT ![i] = Succeeded(item[i], Own(h))]
          /\ made' = [made EXCEPT ![i] = made[i] \cup {Own(h)}]
      BY <1>1, <2>2 DEF Commit
    <3>2. item'[i] = Succeeded(item[i], Own(h))
      BY <3>1 DEF TypeOK
    <3>3. Succeeded(item[i], Own(h)).state = "succeeded"
      BY <2>1 DEF Succeeded, Rows
    <3> QED BY <3>1, <3>2, <3>3 DEF TypeOK
  <2>4. proc[h].pc = "ready" /\ Owned(h) /\ proc'[h].pc = "finish"
    BY <1>1, <2>1 DEF Commit, Fenced, TypeOK, Processes
  <2>5. SettledBy(i, h)
    BY <1>1, <2>3, <2>4 DEF SettledBy
  <2> QED BY <2>5 DEF ItemMoves
<1>2. CASE proc[h].job # i
  BY <1>2 DEF Commit, ItemMoves, Kept, TypeOK
<1> QED BY <1>1, <1>2

LEMMA RecordFailureMoves ==
    ASSUME TypeOK, NEW h \in Handlers, RecordFailure(h), NEW i \in Items
    PROVE  ItemMoves(i)
<1>1. CASE proc[h].job = i /\ Owned(h)
           /\ item' = [item EXCEPT ![i] = Failed(item[i], proc[h].error)]
  <2>1. item[i] \in Rows
    BY DEF TypeOK
  <2>2. item'[i].state = "failed" /\ made'[i] = made[i]
    BY <1>1, <2>1 DEF RecordFailure, Failed, TypeOK, Rows
  <2>3. proc[h].pc = "failing" /\ proc'[h].pc = "idle"
    BY DEF RecordFailure, TypeOK, Idle
  <2>4. SettledBy(i, h)
    BY <1>1, <2>2, <2>3 DEF SettledBy
  <2> QED BY <2>4 DEF ItemMoves
<1>2. CASE proc[h].job # i \/ UNCHANGED item
  BY <1>2 DEF RecordFailure, ItemMoves, Kept, TypeOK
<1> QED BY <1>1, <1>2 DEF RecordFailure

LEMMA DeletePinMoves ==
    ASSUME TypeOK, NEW h \in Handlers, DeletePin(h), NEW i \in Items
    PROVE  ItemMoves(i)
<1>1. item[i] \in Rows
  BY DEF TypeOK
<1>2. item'[i].state = item[i].state
  <2>1. item' = Forget(proc[h].pin)
    BY DEF DeletePin
  <2> QED BY <1>1, <2>1 DEF Forget, Rows
<1> QED BY <1>2 DEF DeletePin, ItemMoves, Kept

LEMMA ExpireMoves ==
    ASSUME TypeOK, NEW j \in Items, Expire(j), NEW i \in Items
    PROVE  ItemMoves(i)
<1>1. item[i] \in Rows
  BY DEF TypeOK
<1> QED BY <1>1 DEF Expire, ItemMoves, Kept, TypeOK, Rows

LEMMA QuietMoves ==
    ASSUME NEW i \in Items, UNCHANGED <<item, made>>
    PROVE  ItemMoves(i)
  BY DEF ItemMoves, Kept

LEMMA StepMoves ==
    ASSUME TypeInv, [Next]_vars, NEW i \in Items
    PROVE  ItemMoves(i)
<1>1. CASE UNCHANGED vars
  BY <1>1, QuietMoves DEF vars
<1>2. ASSUME NEW h \in Handlers, HandlerStep(h) PROVE ItemMoves(i)
  <2>1. Shape(h) /\ TypeOK
    BY DEF TypeInv
  <2>2. CASE UNCHANGED <<item, made>>
    BY <2>2, QuietMoves
  <2>3. CASE ~UNCHANGED <<item, made>>
    <3>1. CASE ImportStep(h)
      <4>1. Reclaim(h) \/ Commit(h) \/ RecordFailure(h)
        BY <2>3, <3>1 DEF ImportStep, Prepare, TakeDedup, TakeLifecycle,
           Fence, Reuse, Publish, CommitFails, Finish, Compensate, rows
      <4> QED BY <2>1, <4>1, ReclaimMoves, CommitMoves, RecordFailureMoves
    <3>2. CASE DeleteStep(h)
      <4>1. DeletePin(h)
        BY <2>3, <3>2 DEF DeleteStep, DeleteDedup, DeletePinFails, Remove,
           RemoveFile, ForgetPending, Sweep, rows
      <4> QED BY <2>1, <4>1, DeletePinMoves
    <3>3. CASE Request(h)
      <4>1. PICK j \in Items : Ask(h, j)
        BY <2>3, <3>3 DEF Request, BeginSingle, BeginDelete, rows
      <4> QED BY <2>1, <4>1, AskMoves
    <3>4. ~Failure(h)
      BY <2>3 DEF Failure, ClaimBusy, FetchFails, ImportError, CompensateFails,
         RecordBusy, RemoveFails, Crash, rows
    <3>5. ~Maintenance(h)
      BY <2>3 DEF Maintenance, Retry, BeginSweep, SweepStaging, rows
    <3> QED BY <1>2, <3>1, <3>2, <3>3, <3>4, <3>5 DEF HandlerStep
  <2> QED BY <2>2, <2>3
<1>3. ASSUME NEW j \in Items, Expire(j) PROVE ItemMoves(i)
  BY <1>3, ExpireMoves DEF TypeInv
<1> QED BY <1>1, <1>2, <1>3 DEF Next, HandlerStep

OneForm(i) ==
    /\ made[i] = {} \/ \E p : made[i] = {p}
    /\ made[i] # {} => item[i].state = "succeeded"

OnceInv == TypeInv /\ \A i \in Items : OneForm(i)

LEMMA NextOnce ==
    ASSUME OnceInv, [Next]_vars PROVE OnceInv'
<1>1. TypeInv'
  BY NextTypeInv DEF OnceInv
<1>2. ASSUME NEW i \in Items PROVE OneForm(i)'
  <2>1. OneForm(i)
    BY DEF OnceInv
  <2>2. ItemMoves(i)
    BY StepMoves DEF OnceInv
  <2>3. CASE Kept(i)
    BY <2>1, <2>3 DEF Kept, OneForm
  <2>4. CASE Claimed(i)
    BY <2>1, <2>4 DEF Claimed, OneForm
  <2>5. ASSUME NEW h \in Handlers, SettledBy(i, h) PROVE OneForm(i)'
    <3>1. made[i] = {}
      BY <2>1, <2>5 DEF SettledBy, Owned, OneForm
    <3> QED BY <2>5, <3>1 DEF SettledBy, OneForm
  <2> QED BY <2>2, <2>3, <2>4, <2>5 DEF ItemMoves
<1> QED BY <1>1, <1>2 DEF OnceInv

\* An item makes at most one pin, however many handlers work on it and
\* however often its lease runs out (AtMostOncePerItem).
THEOREM OncePerItem == Spec => []AtMostOncePerItem
<1>1. Init => OnceInv
  BY InitTypeInv DEF Init, OnceInv, OneForm
<1>2. OnceInv => AtMostOncePerItem
  <2> SUFFICES ASSUME OnceInv, NEW i \in Items
               PROVE  /\ Cardinality(made[i]) <= 1
                      /\ made[i] # {} => item[i].state = "succeeded"
    BY DEF AtMostOncePerItem
  <2>1. OneForm(i)
    BY DEF OnceInv
  <2>2. Cardinality(made[i]) <= 1
    <3>1. CASE made[i] = {}
      <4>1. Cardinality(made[i]) = 0
        BY <3>1, FS_EmptySet
      <4> QED BY <4>1
    <3>2. ASSUME NEW p, made[i] = {p} PROVE Cardinality(made[i]) <= 1
      <4>1. Cardinality(made[i]) = 1
        BY <3>2, FS_Singleton
      <4> QED BY <4>1
    <3> QED BY <2>1, <3>1, <3>2 DEF OneForm
  <2> QED BY <2>1, <2>2 DEF OneForm
<1> QED BY <1>1, <1>2, NextOnce, PTL DEF Spec

\* No handler settles an item after its lease ran out or went to another
\* (SettledByLeaseHolder).
THEOREM LeaseHolderSettles == Spec => SettledByLeaseHolder
<1> DEFINE A == \A i \in Items :
          item[i].state = "pending" /\ item'[i].state \in {"succeeded", "failed"}
          => /\ ~item[i].expired
             /\ \E h \in Handlers :
                   /\ Holder(i, h) /\ proc[h].pc \in {"ready", "failing"}
                   /\ proc'[h] # proc[h]
<1>1. TypeInv /\ [Next]_vars => [A]_vars
  <2> SUFFICES ASSUME TypeInv, [Next]_vars, NEW i \in Items,
                      item[i].state = "pending",
                      item'[i].state \in {"succeeded", "failed"}
               PROVE  /\ ~item[i].expired
                      /\ \E h \in Handlers :
                            /\ Holder(i, h) /\ proc[h].pc \in {"ready", "failing"}
                            /\ proc'[h] # proc[h]
    OBVIOUS
  <2>1. ItemMoves(i)
    BY StepMoves
  <2>2. PICK h \in Handlers : SettledBy(i, h)
    BY <2>1 DEF ItemMoves, Kept, Claimed
  <2> QED BY <2>2 DEF SettledBy, Owned, Holder
<1>2. Spec => []TypeInv
  BY InitTypeInv, NextTypeInv, PTL DEF Spec
<1> QED BY <1>1, <1>2, PTL DEF Spec, SettledByLeaseHolder

=============================================================================
