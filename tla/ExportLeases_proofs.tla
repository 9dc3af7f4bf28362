------------------------- MODULE ExportLeases_proofs -------------------------
(* Theorems of ExportLeases, for every number of workers, owners and jobs. *)
EXTENDS ExportLeases, FiniteSetTheorems, TLAPS

USE DEF ActiveStates, TerminalStates, JobStates,
        InProgress, AttemptStates, MaintenanceSteps,
        ClaimSteps, ServiceSteps, ProgramCounters

LEMMA NoLeaseType == NoLease \in LeaseTokens
  BY DEF NoLease, LeaseTokens

LEMMA DeadType ==
    ASSUME ConstantsAssumption
    PROVE  Dead \in Processes
  BY NoLeaseType DEF Dead, Processes, ConstantsAssumption

LEMMA InitTypeOK ==
    ASSUME Init PROVE TypeOK
  BY ConstantsAssumption, DeadType
     DEF Init, TypeOK, ConstantsAssumption, NoAttempts, NoJob, Fences

LEMMA LostType ==
    ASSUME TypeOK, NEW S \in SUBSET Workers, LeasesLost(S)
    PROVE  losses' \in [Jobs -> Nat]
<1> DEFINE Count(j) == Cardinality({v \in S : Writes(v, j)})
<1>1. ASSUME NEW j \in Jobs PROVE Count(j) \in Nat
  BY ConstantsAssumption, FS_Subset, FS_CardinalityType, Z3 DEF
     ConstantsAssumption
<1>2. losses' = [j \in Jobs |-> losses[j] + Count(j)]
  BY DEF LeasesLost
<1>3. losses \in [Jobs -> Nat]
  BY DEF TypeOK
<1> HIDE DEF Count
<1> QED BY <1>1, <1>2, <1>3

LEMMA BecomesType ==
    ASSUME TypeOK, NEW w \in Workers, NEW p \in Processes, Becomes(w, p)
    PROVE  proc' \in [Workers -> Processes]
  BY DEF Becomes, TypeOK

LEMMA SetFenceType ==
    ASSUME TypeOK, NEW j \in Jobs, NEW f \in Fences, SetFence(j, f)
    PROVE  fence' \in [Jobs -> Fences]
  BY DEF SetFence, TypeOK

LEMMA GotoType ==
    ASSUME TypeOK, NEW w \in Workers, NEW pc \in ProgramCounters, Goto(w, pc)
    PROVE  proc' \in [Workers -> Processes]
<1>1. proc[w] \in Processes
  BY DEF TypeOK
<1>2. [proc[w] EXCEPT !.pc = pc] \in Processes
  BY <1>1 DEF Processes
<1> QED BY <1>2, BecomesType DEF Goto

LEMMA ReleasedType ==
    ASSUME TypeOK, NEW j \in Jobs
    PROVE  Released(j) \in Fences
<1>1. fence[j] \in Fences
  BY DEF TypeOK
<1> QED BY <1>1 DEF Released, Fences

LEMMA LeaseOfType ==
    ASSUME TypeOK, NEW j \in Jobs
    PROVE  LeaseOf(j) \in LeaseTokens
<1>1. fence[j] \in Fences
  BY DEF TypeOK
<1> QED BY <1>1 DEF LeaseOf, LeaseTokens, Fences

LEMMA NewLeaseType ==
    ASSUME TypeOK, NEW j \in Jobs
    PROVE  NewLease(j) \in LeaseTokens /\ NewLease(j).job = j
<1>1. fence[j] \in Fences /\ issued[j] \in Nat
  BY DEF TypeOK
<1> QED BY <1>1 DEF NewLease, LeaseTokens, Fences

LEMMA TakeLeaseType ==
    ASSUME TypeOK, NEW w \in Workers, NEW l \in LeaseTokens, l.job \in Jobs,
           NEW pc \in ProgramCounters, NEW publish \in BOOLEAN,
           TakeLease(w, l, pc, publish)
    PROVE  /\ proc' \in [Workers -> Processes]
           /\ fence' \in [Jobs -> Fences]
           /\ issued' \in [Jobs -> Nat]
<1>1. proc[w] \in Processes /\ fence[l.job] \in Fences /\ issued \in [Jobs -> Nat]
  BY DEF TypeOK
<1>2. [proc[w] EXCEPT !.pc = pc, !.held = l,
                      !.token = IF publish THEN l ELSE NoLease,
                      !.building = FALSE] \in Processes
  <2>1. PICK t \in LeaseTokens : t = IF publish THEN l ELSE NoLease
    BY NoLeaseType
  <2>2. [proc[w] EXCEPT !.pc = pc, !.held = l, !.token = t, !.building = FALSE]
          \in Processes
    BY <1>1 DEF Processes
  <2> QED BY <2>1, <2>2
<1>3. [fence[l.job] EXCEPT !.worker = proc[w].generation, !.lease = l.lease]
        \in Fences
  BY <1>1 DEF Processes, LeaseTokens, Fences
<1>4. issued' \in [Jobs -> Nat]
  BY <1>1 DEF TakeLease, LeaseTokens
<1> QED BY <1>2, <1>3, <1>4, BecomesType, SetFenceType DEF TakeLease

LEMMA ForgetType ==
    ASSUME TypeOK, NEW w \in Workers, NEW pc \in ProgramCounters, Forget(w, pc)
    PROVE  proc' \in [Workers -> Processes]
<1>1. proc[w] \in Processes
  BY DEF TypeOK
<1>2. [proc[w] EXCEPT !.pc = pc, !.held = NoLease, !.token = NoLease,
                      !.building = FALSE] \in Processes
  BY <1>1, NoLeaseType DEF Processes
<1> QED BY <1>2, BecomesType DEF Forget

LEMMA FailLockedType ==
    ASSUME TypeOK, NEW j \in Jobs, FailLocked(j)
    PROVE  /\ state' \in [Jobs -> JobStates]
           /\ staging' \in [Jobs -> {"pending", "cleaned", "blocked"}]
           /\ fence' \in [Jobs -> Fences]
           /\ attempt' \in [Jobs -> [Attempts -> AttemptStates]]
           /\ slot' \in [Owners -> Jobs \cup {NoJob}]
           /\ UNCHANGED <<owner, resume, snap, ready, due>>
<1>1. Retired(j) \in [Attempts -> AttemptStates]
  <2>1. attempt[j] \in [Attempts -> AttemptStates]
    BY DEF TypeOK
  <2> QED BY <2>1 DEF Retired
<1>2. slot' \in [Owners -> Jobs \cup {NoJob}]
  <2>1. slot \in [Owners -> Jobs \cup {NoJob}]
    BY DEF TypeOK
  <2> QED BY <2>1 DEF FailLocked, ReleaseSlot
<1>3. attempt' \in [Jobs -> [Attempts -> AttemptStates]]
  BY <1>1 DEF FailLocked, TypeOK
<1>4. fence' \in [Jobs -> Fences]
  BY ReleasedType, SetFenceType DEF FailLocked
<1>5. state' \in [Jobs -> JobStates]
  BY DEF FailLocked, TypeOK
<1>6. staging' \in [Jobs -> {"pending", "cleaned", "blocked"}]
  BY DEF FailLocked, TypeOK
<1> QED BY <1>2, <1>3, <1>4, <1>5, <1>6 DEF FailLocked

LEMMA SetAttemptType ==
    ASSUME TypeOK, NEW j, NEW g, NEW s \in AttemptStates, SetAttempt(j, g, s)
    PROVE  attempt' \in [Jobs -> [Attempts -> AttemptStates]]
<1>1. attempt \in [Jobs -> [Attempts -> AttemptStates]]
  BY DEF TypeOK
<1>2. CASE j \notin Jobs
  BY <1>1, <1>2 DEF SetAttempt
<1>3. CASE j \in Jobs
  <2>1. [attempt[j] EXCEPT ![g] = s] \in [Attempts -> AttemptStates]
    BY <1>1, <1>3
  <2> QED BY <1>1, <2>1 DEF SetAttempt
<1> QED BY <1>2, <1>3

LEMMA HeldType ==
    ASSUME TypeOK, NEW w \in Workers
    PROVE  /\ proc[w] \in Processes /\ proc[w].held \in LeaseTokens
           /\ Current(w, proc[w].held) => proc[w].held.job \in Jobs
<1>1. proc[w] \in Processes
  BY DEF TypeOK
<1>2. proc[w].held \in LeaseTokens
  BY <1>1 DEF Processes
<1> QED BY <1>1, <1>2 DEF Current, FenceMatches, LeaseTokens

LEMMA RotateType ==
    ASSUME TypeOK, NEW w \in Workers, NEW j \in Jobs, Rotate(w, j)
    PROVE  /\ proc' \in [Workers -> Processes]
           /\ fence' \in [Jobs -> Fences]
           /\ state' \in [Jobs -> JobStates]
<1> DEFINE next == [proc[w].held EXCEPT !.attempt = @ + 1]
<1>1. proc[w] \in Processes /\ next \in LeaseTokens
  BY HeldType DEF LeaseTokens
<1>2. [proc[w] EXCEPT !.held = next, !.token = next, !.building = FALSE]
        \in Processes
  BY <1>1 DEF Processes
<1>3. fence[j] \in Fences /\ next.attempt \in Nat
  BY <1>1 DEF TypeOK, LeaseTokens
<1>4. [fence[j] EXCEPT !.attempt = next.attempt] \in Fences
  BY <1>3 DEF Fences
<1>5. state' \in [Jobs -> JobStates]
  BY DEF Rotate, TypeOK
<1> QED BY <1>2, <1>4, <1>5, BecomesType, SetFenceType DEF Rotate

LEMMA CreateJobType ==
    ASSUME TypeOK, NEW o \in Owners, CreateJob(o)
    PROVE  TypeOK'
<1>1. UNCHANGED <<row, proc, fence, resume, snap, staging, ready, attempt,
                  users, due, issued, losses>>
  BY DEF CreateJob, jobVars
<1>2. slot' \in [Owners -> Jobs \cup {NoJob}]
  BY ConstantsAssumption DEF CreateJob, TypeOK, Jobs, ConstantsAssumption
<1>3. state' \in [Jobs -> JobStates]
  BY DEF CreateJob, TypeOK
<1>4. owner' \in [Jobs -> Owners \cup {NoOwner}]
  BY DEF CreateJob, TypeOK
<1>5. created' \in 0..MaxJobs
  BY ConstantsAssumption DEF CreateJob, TypeOK, ConstantsAssumption
<1> QED BY <1>1, <1>2, <1>3, <1>4, <1>5 DEF TypeOK

LEMMA DeleteOwnerType ==
    ASSUME TypeOK, NEW o \in Owners, DeleteOwner(o)
    PROVE  TypeOK'
<1>1. UNCHANGED <<row, proc, state, fence, resume, snap, staging, ready,
                  attempt, due, created, issued, losses>>
  BY DEF DeleteOwner, jobVars
<1>2. users' \in SUBSET Owners
  BY DEF DeleteOwner, TypeOK
<1>3. owner' \in [Jobs -> Owners \cup {NoOwner}]
  BY DEF DeleteOwner, TypeOK
<1>4. slot' \in [Owners -> Jobs \cup {NoJob}]
  BY DEF DeleteOwner, TypeOK
<1> QED BY <1>1, <1>2, <1>3, <1>4 DEF TypeOK

LEMMA TimePassesType ==
    ASSUME TypeOK, NEW j \in Jobs, TimePasses(j)
    PROVE  TypeOK'
<1>1. UNCHANGED <<row, proc, state, owner, fence, resume, snap, staging, ready,
                  attempt, slot, users, created, issued, losses>>
  BY DEF TimePasses, jobVars
<1>2. due' \in SUBSET Jobs
  BY DEF TimePasses, TypeOK
<1> QED BY <1>1, <1>2 DEF TypeOK

LEMMA DownloadExpiresType ==
    ASSUME TypeOK, NEW j \in Jobs, NEW c \in {"pending", "blocked"}, DownloadExpires(j, c)
    PROVE  TypeOK'
<1>1. UNCHANGED <<row, proc, owner, fence, resume, snap, staging, attempt, slot,
                  users, due, created, issued, losses>>
  BY DEF DownloadExpires, jobVars
<1>2. state' \in [Jobs -> JobStates]
  BY DEF DownloadExpires, TypeOK
<1>3. ready' \in [Jobs -> {"absent", "retained", "pending", "cleaned", "blocked"}]
  BY DEF DownloadExpires, TypeOK
<1> QED BY <1>1, <1>2, <1>3 DEF TypeOK

LEMMA AcquireWorkerLeaseType ==
    ASSUME TypeOK, NEW w \in Workers, AcquireWorkerLease(w)
    PROVE  TypeOK'
<1>p. NextGeneration \in 0..MaxGeneration
  BY ConstantsAssumption
  DEF AcquireWorkerLease, NextGeneration, TypeOK, ConstantsAssumption
<1>q. [Dead EXCEPT !.pc = "idle", !.generation = NextGeneration] \in Processes
  BY <1>p, DeadType, ConstantsAssumption DEF Processes
<1>1. UNCHANGED <<state, owner, fence, resume, snap, staging, ready, attempt,
                  slot, users, due, created, issued>>
  BY DEF AcquireWorkerLease, jobVars
<1>2. row' \in [generation: 0..MaxGeneration, held: BOOLEAN,
                    health: {"stopped", "ready", "failed"}]
  BY ConstantsAssumption DEF AcquireWorkerLease, NextGeneration, TypeOK,
     ConstantsAssumption
<1>3. proc' \in [Workers -> Processes]
  BY <1>q, BecomesType DEF AcquireWorkerLease
<1>4. losses' \in [Jobs -> Nat]
  BY LostType DEF AcquireWorkerLease
<1> QED BY <1>1, <1>2, <1>3, <1>4 DEF TypeOK

LEMMA CrashType ==
    ASSUME TypeOK, NEW w \in Workers, Crash(w)
    PROVE  TypeOK'
<1>1. UNCHANGED <<row, state, owner, fence, resume, snap, staging, ready,
                  attempt, slot, users, due, created, issued>>
  BY DEF Crash, jobVars
<1>2. proc' \in [Workers -> Processes]
  BY DeadType, BecomesType, ConstantsAssumption DEF Crash
<1>3. losses' \in [Jobs -> Nat]
  BY LostType DEF Crash
<1> QED BY <1>1, <1>2, <1>3 DEF TypeOK

LEMMA ExitLostType ==
    ASSUME TypeOK, NEW w \in Workers, ExitLost(w)
    PROVE  TypeOK'
<1>1. UNCHANGED <<row, state, owner, fence, resume, snap, staging, ready,
                  attempt, slot, users, due, created, issued, losses>>
  BY DEF ExitLost, jobVars
<1>2. proc' \in [Workers -> Processes]
  BY DeadType, BecomesType, ConstantsAssumption DEF ExitLost
<1> QED BY <1>1, <1>2 DEF TypeOK

LEMMA StorageFailureType ==
    ASSUME TypeOK, NEW w \in Workers, StorageFailure(w)
    PROVE  TypeOK'
<1>1. UNCHANGED <<state, owner, fence, resume, snap, staging, ready, attempt,
                  slot, users, due, created, issued>>
  BY DEF StorageFailure, jobVars
<1>2. row' \in [generation: 0..MaxGeneration, held: BOOLEAN,
                    health: {"stopped", "ready", "failed"}]
  BY DEF StorageFailure, TypeOK
<1>3. proc' \in [Workers -> Processes]
  BY DeadType, BecomesType, ConstantsAssumption DEF StorageFailure
<1>4. losses' \in [Jobs -> Nat]
  BY LostType DEF StorageFailure
<1> QED BY <1>1, <1>2, <1>3, <1>4 DEF TypeOK

LEMMA StopIdleType ==
    ASSUME TypeOK, NEW w \in Workers, StopIdle(w)
    PROVE  TypeOK'
<1>1. UNCHANGED <<row, state, owner, fence, resume, snap, staging, ready,
                  attempt, slot, users, due, created, issued, losses>>
  BY DEF StopIdle, jobVars
<1>2. proc' \in [Workers -> Processes]
  BY GotoType DEF StopIdle
<1> QED BY <1>1, <1>2 DEF TypeOK

LEMMA ReleaseWorkerLeaseType ==
    ASSUME TypeOK, NEW w \in Workers, ReleaseWorkerLease(w)
    PROVE  TypeOK'
<1>1. UNCHANGED <<state, owner, fence, resume, snap, staging, ready, attempt,
                  slot, users, due, created, issued, losses>>
  BY DEF ReleaseWorkerLease, jobVars
<1>2. row' \in [generation: 0..MaxGeneration, held: BOOLEAN,
                    health: {"stopped", "ready", "failed"}]
  BY DEF ReleaseWorkerLease, TypeOK
<1>3. proc' \in [Workers -> Processes]
  BY DeadType, BecomesType, ConstantsAssumption DEF ReleaseWorkerLease
<1> QED BY <1>1, <1>2, <1>3 DEF TypeOK

LEMMA WakeUpType ==
    ASSUME TypeOK, NEW w \in Workers, WakeUp(w)
    PROVE  TypeOK'
<1>1. UNCHANGED <<row, state, owner, fence, resume, snap, staging, ready,
                  attempt, slot, users, due, created, issued, losses>>
  BY DEF WakeUp, jobVars
<1>2. proc' \in [Workers -> Processes]
  <2>1. [proc[w] EXCEPT !.pc = "ownerless", !.worked = FALSE]
          \in Processes
    BY NoLeaseType, HeldType DEF Processes
  <2> QED BY <2>1, BecomesType DEF WakeUp
<1> QED BY <1>1, <1>2 DEF TypeOK

LEMMA ExpireCompleteType ==
    ASSUME TypeOK, NEW w \in Workers, ExpireComplete(w)
    PROVE  TypeOK'
<1>1. UNCHANGED <<row, owner, fence, resume, snap, staging, attempt, slot,
                  users, due, created, issued, losses>>
  BY DEF ExpireComplete, jobVars
<1>2. state' \in [Jobs -> JobStates]
  BY DEF ExpireComplete, TypeOK
<1>3. ready' \in [Jobs -> {"absent", "retained", "pending", "cleaned", "blocked"}]
  BY DEF ExpireComplete, TypeOK
<1>4. proc' \in [Workers -> Processes]
  <2>1. [proc[w] EXCEPT !.pc = "ready", !.worked = Expirable # {}]
          \in Processes
    BY NoLeaseType, HeldType DEF Processes
  <2> QED BY <2>1, BecomesType DEF ExpireComplete
<1> QED BY <1>1, <1>2, <1>3, <1>4 DEF TypeOK

LEMMA CleanupOneReadyType ==
    ASSUME TypeOK, NEW w \in Workers, CleanupOneReady(w)
    PROVE  TypeOK'
<1>p. [proc[w] EXCEPT !.pc = "staging", !.worked = TRUE] \in Processes
  BY HeldType DEF Processes
<1>1. UNCHANGED <<row, state, owner, fence, resume, snap, staging, attempt,
                  slot, users, due, created, issued, losses>>
  BY DEF CleanupOneReady, jobVars
<1>2. ready' \in [Jobs -> {"absent", "retained", "pending", "cleaned", "blocked"}]
  BY DEF CleanupOneReady, TypeOK
<1>3. proc' \in [Workers -> Processes]
  BY <1>p, GotoType, BecomesType DEF CleanupOneReady
<1> QED BY <1>1, <1>2, <1>3 DEF TypeOK

LEMMA CleanupPutOffType ==
    ASSUME TypeOK, NEW w \in Workers, CleanupPutOff(w)
    PROVE  TypeOK'
<1>1. UNCHANGED <<row, jobVars, slot, users, created, issued, losses>>
  BY DEF CleanupPutOff
<1>2. \A pc \in {"staging", "orphans"} :
          [proc[w] EXCEPT !.pc = pc, !.worked = TRUE] \in Processes
  BY HeldType DEF Processes
<1>3. proc' \in [Workers -> Processes]
  BY <1>2, BecomesType DEF CleanupPutOff
<1> QED BY <1>1, <1>3 DEF TypeOK, jobVars

LEMMA CleanupTerminalStagingType ==
    ASSUME TypeOK, NEW w \in Workers, CleanupTerminalStaging(w)
    PROVE  TypeOK'
<1>p. [proc[w] EXCEPT !.pc = "orphans", !.worked = TRUE] \in Processes
  BY HeldType DEF Processes
<1>1. UNCHANGED <<row, state, owner, fence, resume, ready, slot, users, due,
                  created, issued, losses>>
  BY DEF CleanupTerminalStaging, jobVars
<1>2. attempt' \in [Jobs -> [Attempts -> AttemptStates]]
  <2>1. attempt \in [Jobs -> [Attempts -> AttemptStates]]
    BY DEF TypeOK
  <2> QED BY <2>1, SetAttemptType DEF CleanupTerminalStaging
<1>3. snap' \in [Jobs -> {"none", "candidate", "confirmed"}]
  BY DEF CleanupTerminalStaging, TypeOK
<1>4. staging' \in [Jobs -> {"pending", "cleaned", "blocked"}]
  BY DEF CleanupTerminalStaging, TypeOK
<1>5. proc' \in [Workers -> Processes]
  BY <1>p, GotoType, BecomesType DEF CleanupTerminalStaging
<1> QED BY <1>1, <1>2, <1>3, <1>4, <1>5 DEF TypeOK

LEMMA DeleteCleanOrphansType ==
    ASSUME TypeOK, NEW w \in Workers, DeleteCleanOrphans(w)
    PROVE  TypeOK'
<1>p. [proc[w] EXCEPT !.pc = "allowed", !.worked = TRUE] \in Processes
  BY HeldType DEF Processes
<1>1. UNCHANGED <<row, owner, fence, resume, snap, staging, ready, attempt,
                  slot, users, due, created, issued, losses>>
  BY DEF DeleteCleanOrphans, jobVars
<1>2. state' \in [Jobs -> JobStates]
  BY DEF DeleteCleanOrphans, TypeOK
<1>3. proc' \in [Workers -> Processes]
  BY <1>p, GotoType, BecomesType DEF DeleteCleanOrphans
<1> QED BY <1>1, <1>2, <1>3 DEF TypeOK

LEMMA MaintenanceClaimAllowedType ==
    ASSUME TypeOK, NEW w \in Workers, MaintenanceClaimAllowed(w)
    PROVE  TypeOK'
<1>1. UNCHANGED <<row, state, owner, fence, resume, snap, staging, ready,
                  attempt, slot, users, due, created, issued, losses>>
  BY DEF MaintenanceClaimAllowed, jobVars
<1>2. proc' \in [Workers -> Processes]
  BY GotoType DEF MaintenanceClaimAllowed
<1> QED BY <1>1, <1>2 DEF TypeOK

LEMMA PlanCandidateType ==
    ASSUME TypeOK, NEW w \in Workers, PlanCandidate(w)
    PROVE  TypeOK'
<1>1. UNCHANGED <<row, state, owner, fence, resume, ready, attempt, slot, users,
                  due, created, issued, losses>>
  BY DEF PlanCandidate, jobVars
<1>2. snap' \in [Jobs -> {"none", "candidate", "confirmed"}]
  BY DEF PlanCandidate, TypeOK
<1>3. staging' \in [Jobs -> {"pending", "cleaned", "blocked"}]
  BY DEF PlanCandidate, TypeOK
<1>4. proc' \in [Workers -> Processes]
  <2>1. [proc[w] EXCEPT !.building = TRUE]
          \in Processes
    BY NoLeaseType, HeldType DEF Processes
  <2> QED BY <2>1, BecomesType DEF PlanCandidate
<1> QED BY <1>1, <1>2, <1>3, <1>4 DEF TypeOK

LEMMA CleanupCandidateType ==
    ASSUME TypeOK, NEW w \in Workers, CleanupCandidate(w)
    PROVE  TypeOK'
<1>1. UNCHANGED <<row, proc, state, owner, fence, resume, ready, attempt, slot,
                  users, due, created, issued, losses>>
  BY DEF CleanupCandidate, jobVars
<1>2. snap' \in [Jobs -> {"none", "candidate", "confirmed"}]
  BY DEF CleanupCandidate, TypeOK
<1>3. staging' \in [Jobs -> {"pending", "cleaned", "blocked"}]
  BY DEF CleanupCandidate, TypeOK
<1> QED BY <1>1, <1>2, <1>3 DEF TypeOK

LEMMA FinalizeSnapshotType ==
    ASSUME TypeOK, NEW w \in Workers, FinalizeSnapshot(w)
    PROVE  TypeOK'
<1>1. UNCHANGED <<row, owner, fence, resume, staging, ready, attempt, slot,
                  users, due, created, issued, losses>>
  BY DEF FinalizeSnapshot, jobVars
<1>2. snap' \in [Jobs -> {"none", "candidate", "confirmed"}]
  BY DEF FinalizeSnapshot, TypeOK
<1>3. state' \in [Jobs -> JobStates]
  BY DEF FinalizeSnapshot, TypeOK
<1>4. proc' \in [Workers -> Processes]
  <2>1. [proc[w] EXCEPT !.building = FALSE]
          \in Processes
    BY NoLeaseType, HeldType DEF Processes
  <2> QED BY <2>1, BecomesType DEF FinalizeSnapshot
<1> QED BY <1>1, <1>2, <1>3, <1>4 DEF TypeOK

LEMMA RecordDirectoryType ==
    ASSUME TypeOK, NEW w \in Workers, RecordDirectory(w)
    PROVE  TypeOK'
<1>1. UNCHANGED <<row, state, owner, fence, resume, snap, staging, ready, slot,
                  users, due, created, issued, losses>>
  BY DEF RecordDirectory, jobVars
<1>2. attempt' \in [Jobs -> [Attempts -> AttemptStates]]
  BY SetAttemptType, HeldType DEF RecordDirectory, Working
<1>3. proc' \in [Workers -> Processes]
  <2>1. [proc[w] EXCEPT !.building = TRUE]
          \in Processes
    BY NoLeaseType, HeldType DEF Processes
  <2> QED BY <2>1, BecomesType DEF RecordDirectory
<1> QED BY <1>1, <1>2, <1>3 DEF TypeOK

LEMMA AdvanceAttemptType ==
    ASSUME TypeOK, NEW w \in Workers, AdvanceAttempt(w)
    PROVE  TypeOK'
<1>1. UNCHANGED <<row, proc, owner, fence, resume, snap, staging, ready, slot,
                  users, due, created, issued, losses>>
  BY DEF AdvanceAttempt, jobVars
<1>2. attempt' \in [Jobs -> [Attempts -> AttemptStates]]
  <2>1. attempt \in [Jobs -> [Attempts -> AttemptStates]]
    BY DEF TypeOK
  <2> QED BY <2>1, SetAttemptType DEF AdvanceAttempt
<1>3. state' \in [Jobs -> JobStates]
  BY DEF AdvanceAttempt, TypeOK
<1> QED BY <1>1, <1>2, <1>3 DEF TypeOK

LEMMA MarkRetiringIntentType ==
    ASSUME TypeOK, NEW w \in Workers, MarkRetiringIntent(w)
    PROVE  TypeOK'
<1>1. UNCHANGED <<row, proc, state, owner, fence, resume, snap, staging, ready,
                  slot, users, due, created, issued, losses>>
  BY DEF MarkRetiringIntent, jobVars
<1>2. attempt' \in [Jobs -> [Attempts -> AttemptStates]]
  BY SetAttemptType, HeldType DEF MarkRetiringIntent, Working
<1> QED BY <1>1, <1>2 DEF TypeOK

LEMMA RetireAbandonedType ==
    ASSUME TypeOK, NEW w \in Workers, RetireAbandoned(w)
    PROVE  TypeOK'
<1>1. UNCHANGED <<row, proc, state, owner, fence, resume, snap, staging, ready,
                  slot, users, due, created, issued, losses>>
  BY DEF RetireAbandoned, jobVars
<1>2. attempt' \in [Jobs -> [Attempts -> AttemptStates]]
  BY SetAttemptType, HeldType DEF RetireAbandoned, Working
<1> QED BY <1>1, <1>2 DEF TypeOK

LEMMA CleanupRetiringType ==
    ASSUME TypeOK, NEW w \in Workers, CleanupRetiring(w)
    PROVE  TypeOK'
<1>1. UNCHANGED <<row, proc, state, owner, fence, resume, snap, staging, ready,
                  slot, users, due, created, issued, losses>>
  BY DEF CleanupRetiring, jobVars
<1>2. attempt' \in [Jobs -> [Attempts -> AttemptStates]]
  BY SetAttemptType, HeldType DEF CleanupRetiring, Working
<1> QED BY <1>1, <1>2 DEF TypeOK

LEMMA RotateRevokedType ==
    ASSUME TypeOK, NEW w \in Workers, RotateRevoked(w)
    PROVE  TypeOK'
<1>1. UNCHANGED <<row, owner, resume, snap, staging, ready, slot, users, due,
                  created, issued, losses>>
  BY DEF RotateRevoked, jobVars
<1>2. attempt' \in [Jobs -> [Attempts -> AttemptStates]]
  BY SetAttemptType, HeldType DEF RotateRevoked, Working
<1>3. fence' \in [Jobs -> Fences]
  BY RotateType, HeldType DEF RotateRevoked, Working
<1>4. state' \in [Jobs -> JobStates]
  BY RotateType, HeldType DEF RotateRevoked, Working
<1>5. proc' \in [Workers -> Processes]
  BY RotateType, HeldType DEF RotateRevoked, Working
<1> QED BY <1>1, <1>2, <1>3, <1>4, <1>5 DEF TypeOK

LEMMA RotateRecoveredType ==
    ASSUME TypeOK, NEW w \in Workers, RotateRecovered(w)
    PROVE  TypeOK'
<1>1. UNCHANGED <<row, owner, resume, snap, staging, ready, attempt, slot,
                  users, due, created, issued, losses>>
  BY DEF RotateRecovered, jobVars
<1>2. fence' \in [Jobs -> Fences]
  BY RotateType, HeldType DEF RotateRecovered, Working
<1>3. state' \in [Jobs -> JobStates]
  BY RotateType, HeldType DEF RotateRecovered, Working
<1>4. proc' \in [Workers -> Processes]
  BY RotateType, HeldType DEF RotateRecovered, Working
<1> QED BY <1>1, <1>2, <1>3, <1>4 DEF TypeOK

LEMMA CompleteLockedType ==
    ASSUME TypeOK, NEW w \in Workers, CompleteLocked(w)
    PROVE  TypeOK'
<1>1. UNCHANGED <<row, owner, fence, resume, snap, staging, users, due, created,
                  issued, losses>>
  BY DEF CompleteLocked, jobVars
<1>2. state' \in [Jobs -> JobStates]
  BY DEF CompleteLocked, TypeOK
<1>3. ready' \in [Jobs -> {"absent", "retained", "pending", "cleaned", "blocked"}]
  BY DEF CompleteLocked, TypeOK
<1>4. attempt' \in [Jobs -> [Attempts -> AttemptStates]]
  BY SetAttemptType, HeldType DEF CompleteLocked, Working
<1>5. slot' \in [Owners -> Jobs \cup {NoJob}]
  BY DEF CompleteLocked, ReleaseSlot, TypeOK
<1>6. proc' \in [Workers -> Processes]
  <2>1. [proc[w] EXCEPT !.pc = "finishing", !.token = NoLease,
                        !.building = FALSE]
          \in Processes
    BY NoLeaseType, HeldType DEF Processes
  <2> QED BY <2>1, BecomesType DEF CompleteLocked
<1> QED BY <1>1, <1>2, <1>3, <1>4, <1>5, <1>6 DEF TypeOK

LEMMA CleanupTerminalRetiringType ==
    ASSUME TypeOK, NEW w \in Workers, CleanupTerminalRetiring(w)
    PROVE  TypeOK'
<1>1. UNCHANGED <<row, state, owner, fence, resume, snap, staging, ready, slot,
                  users, due, created, issued, losses>>
  BY DEF CleanupTerminalRetiring, jobVars
<1>2. attempt' \in [Jobs -> [Attempts -> AttemptStates]]
  <2>1. attempt \in [Jobs -> [Attempts -> AttemptStates]]
    BY DEF TypeOK
  <2> QED BY <2>1, SetAttemptType DEF CleanupTerminalRetiring
<1>3. proc' \in [Workers -> Processes]
  BY GotoType DEF CleanupTerminalRetiring
<1> QED BY <1>1, <1>2, <1>3 DEF TypeOK

LEMMA ExportErrorRaisedType ==
    ASSUME TypeOK, NEW w \in Workers, ExportErrorRaised(w)
    PROVE  TypeOK'
<1>1. UNCHANGED <<row, state, owner, fence, resume, snap, staging, ready, slot,
                  users, due, created, issued, losses>>
  BY DEF ExportErrorRaised, jobVars
<1>2. attempt' \in [Jobs -> [Attempts -> AttemptStates]]
  <2>1. attempt \in [Jobs -> [Attempts -> AttemptStates]]
    BY DEF TypeOK
  <2> QED BY <2>1, SetAttemptType DEF ExportErrorRaised
<1>3. proc' \in [Workers -> Processes]
  BY GotoType DEF ExportErrorRaised
<1> QED BY <1>1, <1>2, <1>3 DEF TypeOK

LEMMA PermissionChangedType ==
    ASSUME TypeOK, NEW w \in Workers, PermissionChanged(w)
    PROVE  TypeOK'
<1>1. UNCHANGED <<row, state, owner, fence, resume, snap, staging, ready,
                  attempt, slot, users, due, created, issued, losses>>
  BY DEF PermissionChanged, jobVars
<1>2. proc' \in [Workers -> Processes]
  BY GotoType DEF PermissionChanged
<1> QED BY <1>1, <1>2 DEF TypeOK

LEMMA CleanupCompleteType ==
    ASSUME TypeOK, NEW w \in Workers, CleanupComplete(w)
    PROVE  TypeOK'
<1>1. UNCHANGED <<row, state, owner, fence, resume, ready, slot, users, due,
                  created, issued, losses>>
  BY DEF CleanupComplete, jobVars
<1>2. snap' \in [Jobs -> {"none", "candidate", "confirmed"}]
  BY DEF CleanupComplete, TypeOK
<1>3. attempt' \in [Jobs -> [Attempts -> AttemptStates]]
  <2>1. attempt \in [Jobs -> [Attempts -> AttemptStates]]
    BY DEF TypeOK
  <2> QED BY <2>1, SetAttemptType DEF CleanupComplete
<1>4. staging' \in [Jobs -> {"pending", "cleaned", "blocked"}]
  BY DEF CleanupComplete, TypeOK
<1>5. proc' \in [Workers -> Processes]
  BY GotoType DEF CleanupComplete, TypeOK
<1> QED BY <1>1, <1>2, <1>3, <1>4, <1>5 DEF TypeOK

LEMMA TerminalizeOwnerlessType ==
    ASSUME TypeOK, NEW w \in Workers, TerminalizeOwnerless(w)
    PROVE  TypeOK'
<1>1. UNCHANGED <<row, users, created, issued, losses>>
  BY DEF TerminalizeOwnerless
<1>2. proc' \in [Workers -> Processes]
  BY GotoType DEF TerminalizeOwnerless
<1>3. CASE UNCHANGED <<jobVars, slot>>
  BY <1>1, <1>2, <1>3 DEF TypeOK, jobVars
<1>4. CASE \E j \in Jobs : FailLocked(j)
  BY <1>1, <1>2, <1>4, FailLockedType DEF TypeOK
<1> QED BY <1>3, <1>4 DEF TerminalizeOwnerless

LEMMA ClaimCompleteMaintenanceType ==
    ASSUME TypeOK, NEW w \in Workers, ClaimCompleteMaintenance(w)
    PROVE  TypeOK'
<1>1. UNCHANGED <<row, state, owner, resume, snap, staging, ready, attempt, slot,
                  users, created, due, losses>>
  BY DEF ClaimCompleteMaintenance
<1> DEFINE Typed == /\ proc' \in [Workers -> Processes]
                    /\ fence' \in [Jobs -> Fences]
                    /\ issued' \in [Jobs -> Nat]
<1>2. Typed
  <2>1. CASE Goto(w, "expire") /\ UNCHANGED <<fence, issued>>
    BY <2>1, GotoType DEF TypeOK
  <2>2. ASSUME NEW j \in Jobs, UNCHANGED <<fence, issued>>,
               Becomes(w, [proc[w] EXCEPT !.pc = "finishing", !.held = LeaseOf(j)])
        PROVE  Typed
    <3>1. [proc[w] EXCEPT !.pc = "finishing", !.held = LeaseOf(j)] \in Processes
      BY HeldType, LeaseOfType DEF Processes
    <3> QED BY <2>2, <3>1, BecomesType DEF TypeOK
  <2>3. ASSUME NEW j \in Jobs, TakeLease(w, NewLease(j), "finishing", FALSE)
        PROVE  Typed
    BY <2>3, NewLeaseType, TakeLeaseType
  <2> QED BY <2>1, <2>2, <2>3 DEF ClaimCompleteMaintenance
<1> QED BY <1>1, <1>2 DEF TypeOK

LEMMA CountResumeType ==
    ASSUME TypeOK, NEW w \in Workers, NEW j \in Jobs,
           ~TakeoverFails(w, j), CountResume(w, j)
    PROVE  resume' \in [Jobs -> 0..MaxAbnormalResumes]
<1>1. resume \in [Jobs -> 0..MaxAbnormalResumes]
  BY DEF TypeOK
<1>2. CASE AbnormalTakeover(w, j)
  <2>1. resume[j] + 1 \in 0..MaxAbnormalResumes
    BY <1>1, <1>2, ConstantsAssumption DEF TakeoverFails, ConstantsAssumption
  <2> QED BY <1>1, <1>2, <2>1 DEF CountResume
<1>3. CASE ~AbnormalTakeover(w, j)
  BY <1>1, <1>3 DEF CountResume
<1> QED BY <1>2, <1>3

LEMMA ClaimRecoveryType ==
    ASSUME TypeOK, NEW w \in Workers, NEW S, NEW next \in ProgramCounters,
           ClaimRecovery(w, S, next)
    PROVE  TypeOK'
<1>1. UNCHANGED <<row, users, created, losses>>
  BY DEF ClaimRecovery
<1>2. CASE Goto(w, next) /\ UNCHANGED <<jobVars, slot, issued>>
  BY <1>1, <1>2, GotoType DEF TypeOK, jobVars
<1>3. ASSUME NEW j \in Jobs, FailLocked(j), Goto(w, "idle"), UNCHANGED issued
      PROVE  TypeOK'
  <2>1. proc' \in [Workers -> Processes]
    BY <1>3, GotoType
  <2> QED BY <1>1, <1>3, <2>1, FailLockedType DEF TypeOK
<1>4. ASSUME NEW j \in Jobs, ~TakeoverFails(w, j), CountResume(w, j),
             TakeLease(w, NewLease(j), "work", TRUE),
             UNCHANGED <<state, owner, snap, staging, ready, attempt, slot,
                         due>>
      PROVE  TypeOK'
  <2>1. /\ proc' \in [Workers -> Processes]
        /\ fence' \in [Jobs -> Fences]
        /\ issued' \in [Jobs -> Nat]
    BY <1>4, NewLeaseType, TakeLeaseType
  <2> QED BY <1>1, <1>4, <2>1, CountResumeType DEF TypeOK
<1> QED BY <1>2, <1>3, <1>4 DEF ClaimRecovery

LEMMA RequeueExpiredType ==
    ASSUME TypeOK, NEW w \in Workers, RequeueExpired(w)
    PROVE  TypeOK'
<1>1. UNCHANGED <<row, users, created, issued, losses>>
  BY DEF RequeueExpired
<1>2. proc' \in [Workers -> Processes]
  BY GotoType DEF RequeueExpired
<1>3. CASE UNCHANGED <<jobVars, slot>>
  BY <1>1, <1>2, <1>3 DEF TypeOK, jobVars
<1>4. CASE \E j \in Jobs : FailLocked(j)
  BY <1>1, <1>2, <1>4, FailLockedType DEF TypeOK
<1>5. ASSUME NEW j \in Jobs, ~TakeoverFails(w, j), CountResume(w, j),
             state' = [state EXCEPT ![j] = "queued"],
             SetFence(j, RequeuedFence(w, j)),
             UNCHANGED <<owner, snap, staging, ready, attempt, slot, due>>
      PROVE  TypeOK'
  <2>1. fence[j] \in Fences /\ proc[w].generation \in 0..MaxGeneration
    BY HeldType DEF TypeOK, Processes
  <2>2. RequeuedFence(w, j) \in Fences
    BY <2>1 DEF RequeuedFence, Fences
  <2>3. state' \in [Jobs -> JobStates]
    BY <1>5 DEF TypeOK
  <2> QED BY <1>1, <1>2, <1>5, <2>2, <2>3, SetFenceType, CountResumeType DEF TypeOK
<1> QED BY <1>3, <1>4, <1>5 DEF RequeueExpired

LEMMA ClaimNextJobType ==
    ASSUME TypeOK, NEW w \in Workers, ClaimNextJob(w)
    PROVE  TypeOK'
<1>1. UNCHANGED <<row, owner, resume, snap, staging, ready, attempt, slot, users,
                  created, due, losses>>
  BY DEF ClaimNextJob
<1>2. CASE Goto(w, "idle") /\ UNCHANGED <<state, fence, issued>>
  BY <1>1, <1>2, GotoType DEF TypeOK
<1>3. ASSUME NEW j \in Jobs, TakeLease(w, NewLease(j), "work", TRUE),
             state' = [state EXCEPT ![j] = IF snap[j] = "confirmed"
                                           THEN "archiving" ELSE "snapshotting"]
      PROVE  TypeOK'
  <2>1. state' \in [Jobs -> JobStates]
    BY <1>3 DEF TypeOK
  <2>2. /\ proc' \in [Workers -> Processes]
        /\ fence' \in [Jobs -> Fences]
        /\ issued' \in [Jobs -> Nat]
    BY <1>3, NewLeaseType, TakeLeaseType
  <2> QED BY <1>1, <2>1, <2>2 DEF TypeOK
<1> QED BY <1>2, <1>3 DEF ClaimNextJob

LEMMA RecordOwnerDeletedType ==
    ASSUME TypeOK, NEW w \in Workers, RecordOwnerDeleted(w)
    PROVE  TypeOK'
<1>1. [proc[w] EXCEPT !.pc = "ownerclean", !.token = NoLease, !.building = FALSE]
        \in Processes
  BY HeldType, NoLeaseType DEF Processes
<1>2. FailLocked(proc[w].held.job) /\ proc[w].held.job \in Jobs
  BY HeldType DEF RecordOwnerDeleted, Working
<1>3. proc' \in [Workers -> Processes]
  BY <1>1, BecomesType DEF RecordOwnerDeleted
<1>4. UNCHANGED <<row, users, created, issued, losses>>
  BY DEF RecordOwnerDeleted
<1> QED BY <1>2, <1>3, <1>4, FailLockedType DEF TypeOK

LEMMA FailJobType ==
    ASSUME TypeOK, NEW w \in Workers, FailJob(w)
    PROVE  TypeOK'
<1>1. FailLocked(proc[w].held.job) /\ proc[w].held.job \in Jobs
  BY HeldType DEF FailJob
<1>2. proc' \in [Workers -> Processes]
  BY ForgetType DEF FailJob
<1>3. UNCHANGED <<row, users, created, issued, losses>>
  BY DEF FailJob
<1> QED BY <1>1, <1>2, <1>3, FailLockedType DEF TypeOK

LEMMA HandoffType ==
    ASSUME TypeOK, NEW w \in Workers, Handoff(w)
    PROVE  TypeOK'
<1> DEFINE j == proc[w].held.job
<1>1. j \in Jobs
  BY HeldType DEF Handoff, Working
<1>2. UNCHANGED <<row, owner, resume, snap, ready, slot, users, created, due,
                  issued, losses>>
  BY DEF Handoff
<1>3. proc' \in [Workers -> Processes]
  BY ForgetType DEF Handoff
<1>4. fence' \in [Jobs -> Fences]
  <2>1. fence[j] \in Fences
    BY <1>1 DEF TypeOK
  <2>2. \E a \in {fence[j].attempt, fence[j].attempt + 1} :
            HandoffFence(j) = [fence[j] EXCEPT !.lease = 0, !.attempt = a]
    BY <2>1 DEF HandoffFence, Fences
  <2>3. ASSUME NEW f \in Fences, NEW a \in {f.attempt, f.attempt + 1}
        PROVE  [f EXCEPT !.lease = 0, !.attempt = a] \in Fences
    <3>1. f.attempt \in Nat
      BY DEF Fences
    <3>2. a \in Nat
      BY <3>1
    <3>3. [f EXCEPT !.lease = 0] \in Fences
      BY DEF Fences
    <3>4. [[f EXCEPT !.lease = 0] EXCEPT !.attempt = a] \in Fences
      BY <3>2, <3>3 DEF Fences
    <3> QED BY <3>4
  <2>4. HandoffFence(j) \in Fences
    BY <2>1, <2>2, <2>3
  <2> QED BY <1>1, <2>4, SetFenceType DEF Handoff
<1>5. state' \in [Jobs -> JobStates]
  BY DEF Handoff, TypeOK
<1>6. attempt' \in [Jobs -> [Attempts -> AttemptStates]]
  <2>1. attempt \in [Jobs -> [Attempts -> AttemptStates]]
    BY DEF TypeOK
  <2>2. Retired(j) \in [Attempts -> AttemptStates]
    BY <1>1, <2>1 DEF Retired
  <2> QED BY <2>1, <2>2 DEF Handoff
<1>7. staging' \in [Jobs -> {"pending", "cleaned", "blocked"}]
  BY DEF Handoff, TypeOK
<1> QED BY <1>2, <1>3, <1>4, <1>5, <1>6, <1>7 DEF TypeOK

LEMMA FinishLostType ==
    ASSUME TypeOK, NEW w \in Workers, FinishLost(w)
    PROVE  TypeOK'
<1>1. proc[w].held.job \in Jobs
  BY HeldType DEF FinishLost
<1>2. fence' \in [Jobs -> Fences]
  BY <1>1, ReleasedType, SetFenceType DEF FinishLost, TypeOK
<1>3. proc' \in [Workers -> Processes]
  BY DeadType, BecomesType, ConstantsAssumption DEF FinishLost
<1>4. UNCHANGED <<row, state, owner, resume, snap, staging, ready, attempt, slot,
                  users, created, due, issued, losses>>
  BY DEF FinishLost
<1> QED BY <1>2, <1>3, <1>4 DEF TypeOK

LEMMA ReleaseJobLeaseType ==
    ASSUME TypeOK, NEW w \in Workers, ReleaseJobLease(w)
    PROVE  TypeOK'
<1> DEFINE j == proc[w].held.job
<1>1. FenceMatches(w, proc[w].held) => j \in Jobs
  BY HeldType DEF FenceMatches, LeaseTokens
<1>2. fence' \in [Jobs -> Fences]
  BY <1>1, ReleasedType, SetFenceType DEF ReleaseJobLease, TypeOK
<1>3. proc' \in [Workers -> Processes]
  BY ForgetType DEF ReleaseJobLease
<1>4. UNCHANGED <<row, state, owner, resume, snap, staging, ready, attempt, slot,
                  users, created, due, issued, losses>>
  BY DEF ReleaseJobLease
<1> QED BY <1>2, <1>3, <1>4 DEF TypeOK

LEMMA StepTypeOK ==
    ASSUME TypeOK, [Next]_vars PROVE TypeOK'
<1>1. CASE UNCHANGED vars
  BY <1>1 DEF TypeOK, vars
<1>2. CASE Environment
  BY <1>2, CreateJobType, DeleteOwnerType, TimePassesType, DownloadExpiresType
     DEF Environment
<1>3. ASSUME NEW w \in Workers, Maintenance(w) PROVE TypeOK'
  BY <1>3, TerminalizeOwnerlessType, ClaimCompleteMaintenanceType,
     ExpireCompleteType, CleanupOneReadyType, CleanupTerminalStagingType,
     DeleteCleanOrphansType, MaintenanceClaimAllowedType
     DEF Maintenance
<1>4. ASSUME NEW w \in Workers, Claims(w) PROVE TypeOK'
  BY <1>4, ClaimRecoveryType, RequeueExpiredType, ClaimNextJobType
     DEF Claims, ClaimRetiringRecovery, ClaimVerifyingRecovery
<1>5. ASSUME NEW w \in Workers, Services(w) PROVE TypeOK'
  BY <1>5, PlanCandidateType, CleanupCandidateType, FinalizeSnapshotType,
     RecordDirectoryType, AdvanceAttemptType, MarkRetiringIntentType,
     RotateRevokedType, RetireAbandonedType, CleanupRetiringType,
     RotateRecoveredType, CompleteLockedType, RecordOwnerDeletedType,
     CleanupTerminalRetiringType, PermissionChangedType, FailJobType,
     CleanupCompleteType, FinishLostType, ReleaseJobLeaseType
     DEF Services
<1>6. ASSUME NEW w \in Workers, WorkerStep(w) PROVE TypeOK'
  BY <1>3, <1>4, <1>5, <1>6, AcquireWorkerLeaseType, ExitLostType,
     ReleaseWorkerLeaseType, WakeUpType
     DEF WorkerStep
<1>7. ASSUME NEW w \in Workers, WorkerFault(w) PROVE TypeOK'
  BY <1>7, CrashType, StorageFailureType, StopIdleType, HandoffType,
     ExportErrorRaisedType, CleanupPutOffType
     DEF WorkerFault
<1> QED BY <1>1, <1>2, <1>6, <1>7 DEF Next

\* Every reachable state has the shape TypeOK gives: in particular no job is
\* resumed after more than MaxAbnormalResumes lost leases.
THEOREM TypeCorrect == Spec => []TypeOK
<1>1. Init => TypeOK
  BY InitTypeOK
<1>2. TypeOK /\ [Next]_vars => TypeOK'
  BY StepTypeOK
<1> QED BY <1>1, <1>2, PTL DEF Spec

-----------------------------------------------------------------------------
(* The fencing argument.  A worker generation belongs to one process for     *)
(* ever, so at most one live process passes lock_current_worker_lease; and   *)
(* that process writes the fence of a job only together with its own token.  *)

\* A process remembers a token exactly while it works on the job it holds.
TokenShape(p) == IF p.pc \in {"work", "failing"}
                 THEN p.token = p.held /\ p.held # NoLease
                 ELSE p.token = NoLease

\* The strengthening that makes HeartbeatAgreesWithRow inductive.
FencingInv ==
    /\ TypeOK
    /\ \A w \in Workers :
          /\ proc[w].pc = "down" => proc[w] = Dead
          /\ proc[w].pc # "down" => proc[w].generation <= row.generation
          /\ TokenShape(proc[w])
    /\ \A v, w \in Workers :
          /\ proc[v].pc # "down" /\ proc[w].pc # "down"
          /\ proc[v].generation = proc[w].generation
          => v = w
    /\ \A k \in Jobs : k > created => state[k] = "absent"
    /\ HeartbeatAgreesWithRow

\* How one step may change the state of a job.
StateStep ==
    \A k \in Jobs :
        \/ state'[k] = state[k]
        \/ state[k] \in ActiveStates /\ state'[k] # "absent"
        \/ state[k] = "complete" /\ state'[k] = "expired"
        \/ state[k] \in {"failed", "expired"} /\ state'[k] = "absent"
        \/ k = created' /\ k > created

LEMMA OneCurrent ==
    ASSUME FencingInv, NEW v \in Workers, NEW w \in Workers,
           proc[v].pc # "down", proc[w].pc # "down",
           WorkerCurrent(v), WorkerCurrent(w)
    PROVE  v = w
  BY DEF FencingInv, WorkerCurrent

LEMMA StillUncreated ==
    ASSUME FencingInv, TypeOK', StateStep, created' >= created
    PROVE  \A k \in Jobs : k > created' => state'[k] = "absent"
<1> SUFFICES ASSUME NEW k \in Jobs, k > created' PROVE state'[k] = "absent"
  OBVIOUS
<1>1. k \in Nat /\ created \in Nat /\ created' \in Nat
  BY ConstantsAssumption DEF FencingInv, TypeOK, Jobs, ConstantsAssumption
<1>2. state[k] = "absent" /\ k # created'
  BY <1>1 DEF FencingInv
<1> QED BY <1>2 DEF StateStep

\* A step of the environment, or of a worker that changes no process or fence.
LEMMA QuietStep ==
    ASSUME FencingInv, TypeOK', StateStep, UNCHANGED <<row, proc, fence>>,
           created' >= created,
           \A k \in Jobs : state[k] \in ActiveStates => state'[k] \in ActiveStates
    PROVE  FencingInv'
<1>1. HeartbeatAgreesWithRow'
  <2> SUFFICES ASSUME NEW w \in Workers, WorkerCurrent(w), proc[w].pc # "down",
                      proc[w].token # NoLease
               PROVE  /\ FenceMatches(w, proc[w].token)'
                      /\ state'[proc[w].token.job] \in ActiveStates
    BY DEF HeartbeatAgreesWithRow, WorkerCurrent
  <2>1. /\ FenceMatches(w, proc[w].token)
        /\ state[proc[w].token.job] \in ActiveStates
    BY DEF FencingInv, HeartbeatAgreesWithRow
  <2>2. proc[w].token.job \in Jobs
    <3>1. proc[w].token \in LeaseTokens
      BY DEF FencingInv, TypeOK, Processes
    <3> QED BY <2>1, <3>1 DEF FenceMatches, LeaseTokens
  <2> QED BY <2>1, <2>2 DEF FenceMatches
<1>2. \A k \in Jobs : k > created' => state'[k] = "absent"
  BY StillUncreated
<1> QED BY <1>1, <1>2 DEF FencingInv, TokenShape

\* A step after which process w is p: it keeps its generation, and nobody else
\* is current when it writes.
LEMMA WorkerMoves ==
    ASSUME FencingInv, TypeOK', StateStep, NEW w \in Workers, NEW p \in Processes,
           Becomes(w, p), UNCHANGED <<row, created>>,
           proc[w].pc # "down", p.pc # "down",
           p.generation = proc[w].generation, TokenShape(p),
           UNCHANGED <<state, fence>> \/ WorkerCurrent(w),
           WorkerCurrent(w) /\ p.token # NoLease =>
               /\ FenceMatches(w, p.token)'
               /\ state'[p.token.job] \in ActiveStates
    PROVE  FencingInv'
<1>1. proc'[w] = p /\ \A v \in Workers \ {w} : proc'[v] = proc[v]
  BY DEF Becomes, FencingInv, TypeOK
<1>2. HeartbeatAgreesWithRow'
  <2> SUFFICES ASSUME NEW v \in Workers, WorkerCurrent(v)', proc'[v].pc # "down",
                      proc'[v].token # NoLease
               PROVE  /\ FenceMatches(v, proc[v].token)'
                      /\ state'[proc'[v].token.job] \in ActiveStates
    BY DEF HeartbeatAgreesWithRow
  <2>1. CASE v = w
    BY <1>1, <2>1 DEF WorkerCurrent, FenceMatches
  <2>2. CASE v # w
    <3>1. WorkerCurrent(v) /\ proc[v].pc # "down" /\ proc[v].token # NoLease
      BY <1>1, <2>2 DEF WorkerCurrent
    <3>2. UNCHANGED <<state, fence>>
      BY <2>2, <3>1, OneCurrent
    <3> QED BY <1>1, <2>2, <3>1, <3>2 DEF FencingInv, HeartbeatAgreesWithRow, FenceMatches
  <2> QED BY <2>1, <2>2
<1>3. \A v \in Workers :
        /\ proc'[v].pc = "down" => proc'[v] = Dead
        /\ proc'[v].pc # "down" => proc'[v].generation <= row'.generation
        /\ TokenShape(proc'[v])
  BY <1>1 DEF FencingInv
<1>4. \A u, v \in Workers :
        /\ proc'[u].pc # "down" /\ proc'[v].pc # "down"
        /\ proc'[u].generation = proc'[v].generation
        => u = v
  BY <1>1 DEF FencingInv
<1>5. \A k \in Jobs : k > created' => state'[k] = "absent"
  <2>1. created \in Nat
    BY ConstantsAssumption DEF FencingInv, TypeOK, ConstantsAssumption
  <2> QED BY <2>1, StillUncreated
<1> QED BY <1>2, <1>3, <1>4, <1>5 DEF FencingInv

\* A process ends; the worker row may be given back.
LEMMA WorkerEnds ==
    ASSUME FencingInv, TypeOK', NEW w \in Workers, Becomes(w, Dead),
           proc[w].pc # "down", UNCHANGED <<state, created>>,
           row'.generation = row.generation, row'.held => row.held,
           UNCHANGED fence \/ WorkerCurrent(w)
    PROVE  FencingInv'
<1>1. proc'[w] = Dead /\ \A v \in Workers \ {w} : proc'[v] = proc[v]
  BY DEF Becomes, FencingInv, TypeOK
<1>2. Dead.pc = "down" /\ TokenShape(Dead)
  BY DEF Dead, TokenShape
<1>3. HeartbeatAgreesWithRow'
  <2> SUFFICES ASSUME NEW v \in Workers, WorkerCurrent(v)', proc'[v].pc # "down",
                      proc'[v].token # NoLease
               PROVE  /\ FenceMatches(v, proc[v].token)'
                      /\ state'[proc'[v].token.job] \in ActiveStates
    BY DEF HeartbeatAgreesWithRow
  <2>1. v # w /\ WorkerCurrent(v) /\ proc[v].pc # "down" /\ proc[v].token # NoLease
    BY <1>1, <1>2 DEF WorkerCurrent
  <2>2. UNCHANGED fence
    BY <2>1, OneCurrent
  <2> QED BY <1>1, <2>1, <2>2 DEF FencingInv, HeartbeatAgreesWithRow, FenceMatches
<1> QED BY <1>1, <1>2, <1>3 DEF FencingInv

LEMMA HeldActive ==
    ASSUME FencingInv, NEW w \in Workers, proc[w].pc \in {"work", "failing"},
           Current(w, proc[w].held)
    PROVE  /\ proc[w].token = proc[w].held /\ proc[w].token # NoLease
           /\ proc[w].held.job \in Jobs
           /\ state[proc[w].held.job] \in ActiveStates
<1>1. proc[w].token = proc[w].held /\ proc[w].token # NoLease
  BY DEF FencingInv, TokenShape
<1>2. proc[w].held.job \in Jobs
  BY HeldType DEF FencingInv
<1>3. state[proc[w].held.job] \in ActiveStates
  BY <1>1 DEF FencingInv, HeartbeatAgreesWithRow, Current
<1> QED BY <1>1, <1>2, <1>3

\* A worker goes from a step without a token to another one.
LEMMA WorkerWalks ==
    ASSUME FencingInv, TypeOK', StateStep, NEW w \in Workers, NEW p \in Processes,
           Becomes(w, p), UNCHANGED <<row, created>>,
           proc[w].pc # "down", p.pc \notin {"down", "work", "failing"},
           p.generation = proc[w].generation, p.token = NoLease,
           UNCHANGED <<state, fence>> \/ WorkerCurrent(w)
    PROVE  FencingInv'
<1>1. TokenShape(p)
  BY DEF TokenShape
<1> QED BY <1>1, WorkerMoves

LEMMA GotoWalks ==
    ASSUME FencingInv, TypeOK', StateStep, NEW w \in Workers,
           NEW pc \in ProgramCounters, Goto(w, pc), UNCHANGED <<row, created>>,
           proc[w].pc \notin {"down", "work", "failing"},
           pc \notin {"down", "work", "failing"},
           UNCHANGED <<state, fence>> \/ WorkerCurrent(w)
    PROVE  FencingInv'
<1> DEFINE p == [proc[w] EXCEPT !.pc = pc]
<1>1. proc[w] \in Processes /\ proc[w].token = NoLease
  BY HeldType DEF FencingInv, TokenShape
<1>2. p \in Processes /\ p.pc = pc /\ p.generation = proc[w].generation
      /\ p.token = NoLease
  BY <1>1 DEF Processes
<1>3. Becomes(w, p)
  BY DEF Goto
<1> HIDE DEF p
<1> QED BY <1>2, <1>3, WorkerWalks

LEMMA ForgetWalks ==
    ASSUME FencingInv, TypeOK', StateStep, NEW w \in Workers,
           NEW pc \in {"idle", "exiting"}, Forget(w, pc), UNCHANGED <<row, created>>,
           proc[w].pc # "down", WorkerCurrent(w)
    PROVE  FencingInv'
<1> DEFINE p == [proc[w] EXCEPT !.pc = pc, !.held = NoLease, !.token = NoLease,
                                !.building = FALSE]
<1>1. proc[w] \in Processes
  BY HeldType DEF FencingInv
<1>2. p \in Processes /\ p.pc = pc /\ p.generation = proc[w].generation
      /\ p.token = NoLease
  BY <1>1, NoLeaseType DEF Processes
<1>3. Becomes(w, p)
  BY DEF Forget
<1> HIDE DEF p
<1> QED BY <1>2, <1>3, WorkerWalks

\* A worker goes on with the job it holds, under the same lease.
LEMMA WorkerWorks ==
    ASSUME FencingInv, TypeOK', NEW w \in Workers, NEW p \in Processes,
           Working(w), p.pc \in {"work", "failing"},
           p.generation = proc[w].generation, p.held = proc[w].held,
           p.token = proc[w].token,
           Becomes(w, p), UNCHANGED <<row, created, fence>>,
           \A k \in Jobs : \/ state'[k] = state[k]
                           \/ k = proc[w].held.job /\ state'[k] \in ActiveStates
    PROVE  StateStep /\ FencingInv'
<1>1. /\ proc[w].token = proc[w].held /\ proc[w].token # NoLease
      /\ proc[w].held.job \in Jobs /\ state[proc[w].held.job] \in ActiveStates
      /\ proc[w].pc = "work" /\ WorkerCurrent(w) /\ FenceMatches(w, proc[w].held)
  BY HeldActive DEF Working, Current
<1>2. state'[proc[w].held.job] \in ActiveStates
  BY <1>1
<1>3. StateStep
  BY <1>1 DEF StateStep
<1>4. proc'[w] = p
  BY DEF Becomes, FencingInv, TypeOK
<1>5. FenceMatches(w, p.token)' /\ TokenShape(p)
  BY <1>1, <1>2, <1>4 DEF FenceMatches, TokenShape
<1> QED BY <1>1, <1>2, <1>3, <1>5, WorkerMoves

LEMMA WorkerWorksOn ==
    ASSUME FencingInv, TypeOK', NEW w \in Workers, Working(w),
           UNCHANGED <<row, created, fence, proc>>,
           \A k \in Jobs : \/ state'[k] = state[k]
                           \/ k = proc[w].held.job /\ state'[k] \in ActiveStates
    PROVE  StateStep /\ FencingInv'
<1>1. Becomes(w, proc[w])
  BY DEF Becomes, FencingInv, TypeOK
<1>2. proc[w] \in Processes /\ proc[w].pc = "work"
  BY HeldType DEF FencingInv, Working
<1> QED BY <1>1, <1>2, WorkerWorks

-----------------------------------------------------------------------------
(* The steps, one lemma for each action.                                     *)

LEMMA CreateJobFencing ==
    ASSUME FencingInv, TypeOK', NEW o \in Owners, CreateJob(o)
    PROVE  StateStep /\ FencingInv'
<1>1. created \in Nat /\ created' = created + 1
  BY ConstantsAssumption DEF CreateJob, FencingInv, TypeOK, ConstantsAssumption
<1>2. /\ UNCHANGED <<row, proc, fence>>
      /\ \A k \in Jobs :
            \/ state'[k] = state[k]
            \/ state[k] \in {"failed", "expired"} /\ state'[k] = "absent"
            \/ k = created' /\ state'[k] = "queued"
  BY <1>1 DEF CreateJob, Deletable
<1>3. created' \in Jobs /\ created' > created
  BY <1>1, ConstantsAssumption DEF CreateJob, Jobs, ConstantsAssumption
<1>4. StateStep
  BY <1>2, <1>3 DEF StateStep
<1>5. \A k \in Jobs : state[k] \in ActiveStates => state'[k] \in ActiveStates
  BY <1>2
<1> QED BY <1>1, <1>2, <1>4, <1>5, QuietStep

LEMMA EnvironmentFencing ==
    ASSUME FencingInv, TypeOK', Environment
    PROVE  StateStep /\ FencingInv'
<1>1. created \in Nat
  BY ConstantsAssumption DEF FencingInv, TypeOK, ConstantsAssumption
<1>2. ASSUME NEW o \in Owners, DeleteOwner(o) PROVE StateStep /\ FencingInv'
  <2>1. UNCHANGED <<row, proc, fence, state, created>>
    BY <1>2 DEF DeleteOwner
  <2>2. StateStep
    BY <2>1 DEF StateStep
  <2> QED BY <1>1, <2>1, <2>2, QuietStep
<1>3. ASSUME NEW j \in Jobs, TimePasses(j) PROVE StateStep /\ FencingInv'
  <2>1. UNCHANGED <<row, proc, fence, state, created>>
    BY <1>3 DEF TimePasses
  <2>2. StateStep
    BY <2>1 DEF StateStep
  <2> QED BY <1>1, <2>1, <2>2, QuietStep
<1>4. ASSUME NEW j \in Jobs, NEW c, DownloadExpires(j, c)
      PROVE  StateStep /\ FencingInv'
  <2>1. /\ UNCHANGED <<row, proc, fence, created>>
        /\ \A k \in Jobs : \/ state'[k] = state[k]
                           \/ state[k] = "complete" /\ state'[k] = "expired"
    BY <1>4 DEF DownloadExpires, FencingInv, TypeOK
  <2>2. StateStep
    BY <2>1 DEF StateStep
  <2> QED BY <1>1, <2>1, <2>2, QuietStep
<1> QED BY <1>2, <1>3, <1>4, CreateJobFencing DEF Environment

\* The new generation is above every generation in use, and no process but the
\* new one passes the worker fence afterwards.
LEMMA AcquireWorkerLeaseFencing ==
    ASSUME FencingInv, TypeOK', NEW w \in Workers, AcquireWorkerLease(w)
    PROVE  StateStep /\ FencingInv'
<1> DEFINE p == [Dead EXCEPT !.pc = "idle", !.generation = NextGeneration]
<1>1. /\ proc'[w] = p /\ \A v \in Workers \ {w} : proc'[v] = proc[v]
      /\ p.pc = "idle" /\ p.token = NoLease /\ p.generation = row'.generation
      /\ UNCHANGED <<state, fence, created>>
  BY DEF AcquireWorkerLease, Becomes, FencingInv, TypeOK, Dead, jobVars
<1> HIDE DEF p
<1>2. StateStep
  BY <1>1 DEF StateStep
<1>3. row.generation \in Nat /\ row'.generation = row.generation + 1
  BY ConstantsAssumption
  DEF AcquireWorkerLease, NextGeneration, FencingInv, TypeOK, ConstantsAssumption
<1>4. \A v \in Workers : proc[v].generation \in Nat
  <2>1. \A v \in Workers : proc[v] \in Processes
    BY HeldType DEF FencingInv
  <2> QED BY <2>1, ConstantsAssumption DEF Processes, ConstantsAssumption
<1>5. \A v \in Workers :
        /\ proc'[v].pc = "down" => proc'[v] = Dead
        /\ proc'[v].pc # "down" => proc'[v].generation <= row'.generation
        /\ TokenShape(proc'[v])
  BY <1>1, <1>3, <1>4 DEF FencingInv, TokenShape
<1>6. \A u, v \in Workers :
        /\ proc'[u].pc # "down" /\ proc'[v].pc # "down"
        /\ proc'[u].generation = proc'[v].generation
        => u = v
  <2>1. \A v \in Workers \ {w} :
          proc'[v].pc # "down" => proc'[v].generation < row'.generation
    BY <1>1, <1>3, <1>4 DEF FencingInv
  <2> QED BY <1>1, <1>3, <2>1 DEF FencingInv
<1>7. HeartbeatAgreesWithRow'
  <2>1. \A v \in Workers : WorkerCurrent(v)' /\ proc'[v].pc # "down" => v = w
    BY <1>1, <1>3, <1>4 DEF FencingInv, WorkerCurrent
  <2> QED BY <1>1, <2>1 DEF HeartbeatAgreesWithRow
<1>8. \A k \in Jobs : k > created' => state'[k] = "absent"
  BY <1>1 DEF FencingInv
<1> QED BY <1>2, <1>5, <1>6, <1>7, <1>8 DEF FencingInv

LEMMA LifeFencing ==
    ASSUME FencingInv, TypeOK', NEW w \in Workers,
           \/ Crash(w) \/ ExitLost(w) \/ StorageFailure(w) \/ StopIdle(w)
           \/ ReleaseWorkerLease(w) \/ WakeUp(w)
    PROVE  StateStep /\ FencingInv'
<1>1. UNCHANGED <<state, fence, created>>
  BY DEF Crash, ExitLost, StorageFailure, StopIdle, ReleaseWorkerLease, WakeUp,
     jobVars
<1>2. StateStep
  BY <1>1 DEF StateStep
<1>3. row'.generation = row.generation /\ (row'.held => row.held)
  <2>1. row \in [generation: 0..MaxGeneration, held: BOOLEAN,
                 health: {"stopped", "ready", "failed"}]
    BY DEF FencingInv, TypeOK
  <2>2. \/ row' = row
        \/ \E h : row' = [row EXCEPT !.held = FALSE, !.health = h]
    BY DEF Crash, ExitLost, StorageFailure, StopIdle, ReleaseWorkerLease, WakeUp
  <2> QED BY <2>1, <2>2
<1>4. CASE Crash(w) \/ ExitLost(w) \/ StorageFailure(w) \/ ReleaseWorkerLease(w)
  <2>1. Becomes(w, Dead) /\ proc[w].pc # "down"
    BY <1>4 DEF Crash, ExitLost, StorageFailure, ReleaseWorkerLease
  <2> QED BY <1>1, <1>2, <1>3, <2>1, WorkerEnds
<1>5. CASE StopIdle(w)
  BY <1>1, <1>2, <1>5, GotoWalks DEF StopIdle
<1>6. CASE WakeUp(w)
  <2> DEFINE p == [proc[w] EXCEPT !.pc = "ownerless", !.worked = FALSE]
  <2>1. proc[w] \in Processes /\ proc[w].token = NoLease /\ proc[w].pc = "idle"
    BY <1>6, HeldType DEF FencingInv, TokenShape, WakeUp
  <2>2. p \in Processes /\ p.pc = "ownerless" /\ p.token = NoLease
        /\ p.generation = proc[w].generation
    BY <2>1 DEF Processes
  <2>3. Becomes(w, p) /\ UNCHANGED row
    BY <1>6 DEF WakeUp
  <2> HIDE DEF p
  <2> QED BY <1>1, <1>2, <2>1, <2>2, <2>3, WorkerWalks
<1> QED BY <1>4, <1>5, <1>6

\* _fail_locked under the worker fence, by a process that keeps no token.
LEMMA FailLockedStep ==
    ASSUME FencingInv, NEW j \in Jobs, state[j] \in ActiveStates, FailLocked(j)
    PROVE  StateStep
  BY DEF FailLocked, StateStep, FencingInv, TypeOK

LEMMA FirstIsMember ==
    ASSUME NEW S, NEW j, IsFirst(j, S) \/ IsOldest(j, S)
    PROVE  j \in S
  BY DEF IsFirst, IsOldest

LEMMA MaintenanceFencing ==
    ASSUME FencingInv, TypeOK', NEW w \in Workers,
           Maintenance(w) \/ CleanupPutOff(w)
    PROVE  StateStep /\ FencingInv'
<1>1. CASE TerminalizeOwnerless(w)
  <2>1. UNCHANGED <<row, created>> /\ WorkerCurrent(w) /\ proc[w].pc = "ownerless"
    BY <1>1 DEF TerminalizeOwnerless
  <2>2. StateStep
    <3>1. CASE UNCHANGED state
      BY <3>1 DEF StateStep
    <3>2. ASSUME NEW j \in Jobs, IsFirst(j, Ownerless), FailLocked(j)
          PROVE  StateStep
      BY <3>2, FirstIsMember, FailLockedStep DEF Ownerless
    <3> QED BY <1>1, <3>1, <3>2 DEF TerminalizeOwnerless, jobVars
  <2>3. Goto(w, "complete") \/ Goto(w, "idle")
    BY <1>1 DEF TerminalizeOwnerless
  <2> QED BY <2>1, <2>2, <2>3, GotoWalks
<1>2. CASE ClaimCompleteMaintenance(w)
  <2>1. /\ UNCHANGED <<row, created, state>> /\ WorkerCurrent(w)
        /\ proc[w].pc = "complete" /\ proc[w].token = NoLease
    BY <1>2 DEF ClaimCompleteMaintenance, FencingInv, TokenShape
  <2>2. StateStep
    BY <2>1 DEF StateStep
  <2>3. CASE Goto(w, "expire")
    BY <2>1, <2>2, <2>3, GotoWalks
  <2>4. ASSUME NEW l \in LeaseTokens, TakeLease(w, l, "finishing", FALSE)
        PROVE  FencingInv'
    <3> DEFINE p == [proc[w] EXCEPT !.pc = "finishing", !.held = l,
                                    !.token = NoLease, !.building = FALSE]
    <3>1. Becomes(w, p)
      BY <2>4 DEF TakeLease
    <3>2. p \in Processes /\ p.pc = "finishing" /\ p.token = NoLease
          /\ p.generation = proc[w].generation
      <4>1. proc[w] \in Processes
        BY HeldType DEF FencingInv
      <4> QED BY <4>1, NoLeaseType DEF Processes
    <3> HIDE DEF p
    <3> QED BY <2>1, <2>2, <3>1, <3>2, WorkerWalks
  <2>5. ASSUME NEW l \in LeaseTokens,
               Becomes(w, [proc[w] EXCEPT !.pc = "finishing", !.held = l])
        PROVE  FencingInv'
    <3> DEFINE p == [proc[w] EXCEPT !.pc = "finishing", !.held = l]
    <3>1. proc[w] \in Processes
      BY HeldType DEF FencingInv
    <3>2. p \in Processes /\ p.pc = "finishing" /\ p.token = NoLease
          /\ p.generation = proc[w].generation
      BY <2>1, <3>1 DEF Processes
    <3> HIDE DEF p
    <3> QED BY <2>1, <2>2, <2>5, <3>2, WorkerWalks DEF p
  <2> QED BY <1>2, <2>2, <2>3, <2>4, <2>5, NewLeaseType, LeaseOfType
          DEF ClaimCompleteMaintenance, FencingInv
<1>3. CASE ExpireComplete(w)
  <2>1. /\ UNCHANGED <<row, created, fence>> /\ WorkerCurrent(w)
        /\ proc[w].pc = "expire" /\ proc[w].token = NoLease
    BY <1>3 DEF ExpireComplete, FencingInv, TokenShape
  <2>2. StateStep
    BY <1>3 DEF ExpireComplete, Expirable, StateStep
  <2> DEFINE p == [proc[w] EXCEPT !.pc = "ready", !.worked = Expirable # {}]
  <2>3. p \in Processes /\ p.pc = "ready" /\ p.token = NoLease
        /\ p.generation = proc[w].generation
    BY <2>1, HeldType DEF Processes, FencingInv
  <2>4. Becomes(w, p)
    BY <1>3 DEF ExpireComplete
  <2> HIDE DEF p
  <2> QED BY <2>1, <2>2, <2>3, <2>4, WorkerWalks
<1>4. ASSUME NEW pc \in {"staging", "orphans", "allowed"},
             UNCHANGED <<row, created, fence>>, WorkerCurrent(w), StateStep,
             proc[w].pc \in {"ready", "staging", "orphans"},
             \/ Goto(w, pc)
             \/ Becomes(w, [proc[w] EXCEPT !.pc = pc, !.worked = TRUE])
      PROVE  FencingInv'
  <2> DEFINE p == [proc[w] EXCEPT !.pc = pc, !.worked = TRUE]
  <2>1. proc[w] \in Processes /\ proc[w].token = NoLease
    BY <1>4, HeldType DEF FencingInv, TokenShape
  <2>2. p \in Processes /\ p.pc = pc /\ p.token = NoLease
        /\ p.generation = proc[w].generation
    BY <2>1 DEF Processes
  <2>3. CASE Becomes(w, p)
    <3> HIDE DEF p
    <3> QED BY <1>4, <2>2, <2>3, WorkerWalks
  <2> QED BY <1>4, <2>3, GotoWalks
<1>5. CASE CleanupOneReady(w) \/ CleanupTerminalStaging(w) \/ DeleteCleanOrphans(w)
  <2>1. StateStep
    <3>1. CASE UNCHANGED state
      BY <3>1 DEF StateStep
    <3>2. ASSUME NEW j \in Jobs, IsOldest(j, Orphans),
                 state' = [state EXCEPT ![j] = "absent"]
          PROVE  StateStep
      <4>1. state[j] \in {"failed", "expired"}
        BY <3>2, FirstIsMember DEF Orphans, Deletable
      <4> QED BY <3>2, <4>1 DEF StateStep, FencingInv, TypeOK
    <3> QED BY <1>5, <3>1, <3>2 DEF CleanupOneReady, CleanupTerminalStaging,
               DeleteCleanOrphans
  <2> QED BY <1>4, <1>5, <2>1 DEF CleanupOneReady, CleanupTerminalStaging,
             DeleteCleanOrphans
<1>6. CASE MaintenanceClaimAllowed(w)
  <2>1. UNCHANGED <<state, fence, row, created>>
    BY <1>6 DEF MaintenanceClaimAllowed, jobVars
  <2>2. StateStep
    BY <2>1 DEF StateStep
  <2> QED BY <1>6, <2>1, <2>2, GotoWalks DEF MaintenanceClaimAllowed
<1>7. CASE CleanupPutOff(w)
  <2>1. UNCHANGED <<row, created, fence, state>> /\ WorkerCurrent(w)
    BY <1>7 DEF CleanupPutOff, jobVars
  <2>2. StateStep
    BY <2>1 DEF StateStep
  <2> QED BY <1>4, <1>7, <2>1, <2>2 DEF CleanupPutOff
<1> QED BY <1>1, <1>2, <1>3, <1>5, <1>6, <1>7 DEF Maintenance

\* A claim writes the new token on the job row and, before the next heartbeat,
\* in the process.
LEMMA ClaimWalks ==
    ASSUME FencingInv, TypeOK', NEW w \in Workers, NEW j \in Jobs,
           NEW l \in LeaseTokens, l.job = j, l.attempt = fence[j].attempt,
           TakeLease(w, l, "work", TRUE), UNCHANGED <<row, created>>,
           proc[w].pc # "down", WorkerCurrent(w), state[j] \in ActiveStates,
           \A k \in Jobs : \/ state'[k] = state[k]
                           \/ k = j /\ state'[k] \in ActiveStates
    PROVE  StateStep /\ FencingInv'
<1>1. StateStep
  BY DEF StateStep
<1>2. proc[w] \in Processes
  BY HeldType DEF FencingInv
<1>3. [proc[w] EXCEPT !.pc = "work", !.held = l, !.token = l, !.building = FALSE]
        \in Processes
  BY <1>2 DEF Processes
<1>4. PICK p \in Processes :
         p = [proc[w] EXCEPT !.pc = "work", !.held = l, !.token = l, !.building = FALSE]
  BY <1>3
<1>5. p.pc = "work" /\ p.token = l /\ p.held = l /\ p.generation = proc[w].generation
  BY <1>2, <1>4 DEF Processes
<1>6. l # NoLease /\ j # NoJob
  BY ConstantsAssumption DEF NoLease, NoJob, Jobs, ConstantsAssumption
<1>7. fence'[j] = [worker |-> proc[w].generation, lease |-> l.lease,
                   attempt |-> l.attempt]
  <2>1. fence[j] \in Fences /\ fence \in [Jobs -> Fences]
    BY DEF FencingInv, TypeOK
  <2>2. fence'[j] = [fence[j] EXCEPT !.worker = proc[w].generation,
                                     !.lease = l.lease]
    BY <2>1 DEF TakeLease, SetFence
  <2> QED BY <2>1, <2>2 DEF Fences
<1>8. Becomes(w, p) /\ proc'[w] = p
  BY <1>4 DEF TakeLease, Becomes, FencingInv, TypeOK
<1>9. FenceMatches(w, p.token)' /\ state'[p.token.job] \in ActiveStates
  BY <1>5, <1>6, <1>7, <1>8 DEF FenceMatches
<1>10. TokenShape(p)
  BY <1>5, <1>6 DEF TokenShape
<1> QED BY <1>1, <1>5, <1>8, <1>9, <1>10, WorkerMoves

LEMMA ClaimsFencing ==
    ASSUME FencingInv, TypeOK', NEW w \in Workers, Claims(w)
    PROVE  StateStep /\ FencingInv'
<1>1. ASSUME NEW candidates \in SUBSET Jobs,
             \A k \in candidates : state[k] \in ActiveStates,
             proc[w].pc \in ClaimSteps,
             NEW next \in ClaimSteps, ClaimRecovery(w, candidates, next)
      PROVE  StateStep /\ FencingInv'
  <2>1. UNCHANGED <<row, created>> /\ WorkerCurrent(w)
    BY <1>1 DEF ClaimRecovery
  <2>2. CASE Goto(w, next) /\ UNCHANGED jobVars
    <3>1. StateStep
      BY <2>2 DEF StateStep, jobVars
    <3> QED BY <1>1, <2>1, <2>2, <3>1, GotoWalks
  <2>3. ASSUME NEW j \in candidates, FailLocked(j), Goto(w, "idle")
        PROVE  StateStep /\ FencingInv'
    <3>1. StateStep
      BY <1>1, <2>3, FailLockedStep
    <3> QED BY <1>1, <2>1, <2>3, <3>1, GotoWalks
  <2>4. ASSUME NEW j \in candidates, TakeLease(w, NewLease(j), "work", TRUE),
               UNCHANGED state
        PROVE  StateStep /\ FencingInv'
    <3>1. NewLease(j) \in LeaseTokens /\ NewLease(j).job = j
          /\ NewLease(j).attempt = fence[j].attempt
      BY <1>1, NewLeaseType DEF NewLease, FencingInv
    <3> QED BY <1>1, <2>1, <2>4, <3>1, ClaimWalks
  <2> QED BY <1>1, <2>2, <2>3, <2>4, FirstIsMember DEF ClaimRecovery
<1>2. CASE ClaimRetiringRecovery(w)
  <2>1. RetiringWork(w) \in SUBSET Jobs
        /\ \A k \in RetiringWork(w) : state[k] \in ActiveStates
    BY DEF RetiringWork
  <2> QED BY <1>1, <1>2, <2>1 DEF ClaimRetiringRecovery
<1>3. CASE ClaimVerifyingRecovery(w)
  <2>1. VerifyingWork(w) \in SUBSET Jobs
        /\ \A k \in VerifyingWork(w) : state[k] \in ActiveStates
    BY DEF VerifyingWork
  <2> QED BY <1>1, <1>3, <2>1 DEF ClaimVerifyingRecovery
<1>4. CASE RequeueExpired(w)
  <2>1. /\ UNCHANGED <<row, created>> /\ WorkerCurrent(w)
        /\ proc[w].pc = "requeue" /\ (Goto(w, "retiring2") \/ Goto(w, "idle"))
    BY <1>4 DEF RequeueExpired
  <2>2. \A k \in RequeueWork(w) : state[k] \in ActiveStates
    BY DEF RequeueWork
  <2>3. StateStep
    <3>1. CASE UNCHANGED state
      BY <3>1 DEF StateStep
    <3>2. ASSUME NEW j \in Jobs, IsFirst(j, RequeueWork(w)), FailLocked(j)
          PROVE  StateStep
      BY <2>2, <3>2, FirstIsMember, FailLockedStep
    <3>3. ASSUME NEW j \in Jobs, IsFirst(j, RequeueWork(w)),
                 state' = [state EXCEPT ![j] = "queued"]
          PROVE  StateStep
      <4>1. state[j] \in ActiveStates
        BY <2>2, <3>3, FirstIsMember
      <4> QED BY <3>3, <4>1 DEF StateStep, FencingInv, TypeOK
    <3> QED BY <1>4, <3>1, <3>2, <3>3 DEF RequeueExpired, jobVars
  <2> QED BY <2>1, <2>3, GotoWalks
<1>5. CASE ClaimNextJob(w)
  <2>1. UNCHANGED <<row, created>> /\ WorkerCurrent(w) /\ proc[w].pc = "queued"
    BY <1>5 DEF ClaimNextJob
  <2>2. CASE Goto(w, "idle") /\ UNCHANGED <<state, fence>>
    <3>1. StateStep
      BY <2>2 DEF StateStep
    <3> QED BY <2>1, <2>2, <3>1, GotoWalks
  <2>3. ASSUME NEW j \in Jobs, IsOldest(j, QueuedWork),
               state' = [state EXCEPT ![j] = IF snap[j] = "confirmed"
                                             THEN "archiving" ELSE "snapshotting"],
               TakeLease(w, NewLease(j), "work", TRUE)
        PROVE  StateStep /\ FencingInv'
    <3>1. state[j] \in ActiveStates
      BY <2>3, FirstIsMember DEF QueuedWork
    <3>2. \A k \in Jobs : \/ state'[k] = state[k]
                          \/ k = j /\ state'[k] \in ActiveStates
      BY <2>3 DEF FencingInv, TypeOK
    <3> QED BY <2>1, <2>3, <3>1, <3>2, NewLeaseType, ClaimWalks DEF NewLease, FencingInv
  <2> QED BY <1>5, <2>2, <2>3 DEF ClaimNextJob
<1> QED BY <1>2, <1>3, <1>4, <1>5 DEF Claims

\* What a step that writes one job's state leaves alone.
LEMMA OneState ==
    ASSUME TypeOK, NEW j \in Jobs, NEW s \in JobStates,
           state' = [state EXCEPT ![j] = s]
    PROVE  \A k \in Jobs : state'[k] = state[k] \/ (k = j /\ state'[k] = s)
<1>1. state \in [Jobs -> JobStates]
  BY DEF TypeOK
<1> QED BY <1>1

LEMMA WorksFencing ==
    ASSUME FencingInv, TypeOK', NEW w \in Workers,
           \/ PlanCandidate(w) \/ CleanupCandidate(w) \/ FinalizeSnapshot(w)
           \/ RecordDirectory(w) \/ AdvanceAttempt(w) \/ MarkRetiringIntent(w)
           \/ RetireAbandoned(w) \/ CleanupRetiring(w) \/ PermissionChanged(w)
           \/ ExportErrorRaised(w)
    PROVE  StateStep /\ FencingInv'
<1> DEFINE j == proc[w].held.job
<1>1. proc[w] \in Processes /\ state \in [Jobs -> JobStates]
  BY HeldType DEF FencingInv, TypeOK
<1>2. CASE CleanupCandidate(w) \/ RetireAbandoned(w) \/ CleanupRetiring(w)
           \/ MarkRetiringIntent(w)
  BY <1>2, WorkerWorksOn
     DEF CleanupCandidate, RetireAbandoned, CleanupRetiring, MarkRetiringIntent
<1>3. CASE AdvanceAttempt(w)
  <2>1. Working(w) /\ UNCHANGED <<row, created, fence, proc>>
        /\ (UNCHANGED state \/ state' = [state EXCEPT ![j] = "verifying"])
    BY <1>3 DEF AdvanceAttempt
  <2>2. \A k \in Jobs : state'[k] = state[k] \/ (k = j /\ state'[k] \in ActiveStates)
    BY <2>1, OneState, HeldType DEF FencingInv, Working
  <2> QED BY <2>1, <2>2, WorkerWorksOn
<1>4. CASE PlanCandidate(w) \/ FinalizeSnapshot(w) \/ RecordDirectory(w)
  <2>1. Working(w) /\ UNCHANGED <<row, created, fence>>
        /\ (UNCHANGED state \/ state' = [state EXCEPT ![j] = "archiving"])
    BY <1>4 DEF PlanCandidate, FinalizeSnapshot, RecordDirectory
  <2>2. \A k \in Jobs : state'[k] = state[k] \/ (k = j /\ state'[k] \in ActiveStates)
    BY <2>1, OneState, HeldType DEF FencingInv, Working
  <2>3. PICK b \in BOOLEAN : Becomes(w, [proc[w] EXCEPT !.building = b])
    BY <1>4 DEF PlanCandidate, FinalizeSnapshot, RecordDirectory
  <2>4. PICK p : p = [proc[w] EXCEPT !.building = b]
    OBVIOUS
  <2>5. p \in Processes /\ p.pc = "work" /\ p.held = proc[w].held
        /\ p.token = proc[w].token /\ p.generation = proc[w].generation
    BY <1>1, <2>1, <2>4 DEF Processes, Working
  <2> QED BY <2>1, <2>2, <2>3, <2>4, <2>5, WorkerWorks
<1>5. CASE PermissionChanged(w) \/ ExportErrorRaised(w)
  <2>1. Working(w) /\ UNCHANGED <<row, created, fence, state>>
        /\ Goto(w, "failing")
    BY <1>5 DEF PermissionChanged, ExportErrorRaised, jobVars
  <2>2. PICK p : p = [proc[w] EXCEPT !.pc = "failing"]
    OBVIOUS
  <2>3. p \in Processes /\ p.pc = "failing" /\ p.held = proc[w].held
        /\ p.token = proc[w].token /\ p.generation = proc[w].generation
    BY <1>1, <2>2 DEF Processes
  <2>4. Becomes(w, p)
    BY <2>1, <2>2 DEF Goto
  <2> QED BY <2>1, <2>3, <2>4, WorkerWorks
<1> QED BY <1>2, <1>3, <1>4, <1>5

\* The rotation moves the attempt in the row and in the token together.
LEMMA RotateFencing ==
    ASSUME FencingInv, TypeOK', NEW w \in Workers, RotateRevoked(w) \/ RotateRecovered(w)
    PROVE  StateStep /\ FencingInv'
<1>1. Working(w) /\ Rotate(w, proc[w].held.job) /\ UNCHANGED <<row, created>>
  BY DEF RotateRevoked, RotateRecovered
<1>2. PICK j : j = proc[w].held.job
  OBVIOUS
<1>3. /\ proc[w].token = proc[w].held /\ j \in Jobs /\ state[j] \in ActiveStates
      /\ proc[w].pc = "work" /\ WorkerCurrent(w) /\ FenceMatches(w, proc[w].held)
  BY <1>1, <1>2, HeldActive DEF Working, Current
<1>4. proc[w] \in Processes /\ proc[w].held \in LeaseTokens
  BY HeldType DEF FencingInv
<1>5. PICK l : l = [proc[w].held EXCEPT !.attempt = @ + 1]
  OBVIOUS
<1>6. l \in LeaseTokens /\ l.job = j /\ l.lease = proc[w].held.lease
  BY <1>2, <1>4, <1>5 DEF LeaseTokens
<1>7. PICK p : p = [proc[w] EXCEPT !.held = l, !.token = l, !.building = FALSE]
  OBVIOUS
<1>8. p \in Processes /\ p.pc = "work" /\ p.held = l /\ p.token = l
      /\ p.generation = proc[w].generation
  BY <1>3, <1>4, <1>6, <1>7 DEF Processes
<1>9. Becomes(w, p) /\ proc'[w] = p
  BY <1>1, <1>5, <1>7 DEF Rotate, Becomes, FencingInv, TypeOK
<1>10. \A k \in Jobs : state'[k] = state[k] \/ (k = j /\ state'[k] = "archiving")
  BY <1>1, <1>2, <1>3, OneState DEF Rotate, FencingInv
<1>11. StateStep
  BY <1>3, <1>10 DEF StateStep
<1>12. state'[j] \in ActiveStates
  BY <1>3, <1>10
<1>13. fence'[j] = [worker |-> proc[w].generation, lease |-> l.lease,
                    attempt |-> l.attempt]
  <2>1. fence[j] = [worker |-> proc[w].generation, lease |-> proc[w].held.lease,
                    attempt |-> proc[w].held.attempt]
    BY <1>2, <1>3 DEF FenceMatches
  <2>2. fence \in [Jobs -> Fences]
    BY DEF FencingInv, TypeOK
  <2>3. SetFence(j, [fence[j] EXCEPT !.attempt = l.attempt])
    BY <1>1, <1>2, <1>5 DEF Rotate
  <2>4. fence'[j] = [fence[j] EXCEPT !.attempt = l.attempt]
    BY <1>3, <2>2, <2>3 DEF SetFence
  <2> QED BY <1>6, <2>1, <2>4
<1>14. l # NoLease /\ j # NoJob
  BY <1>3, <1>6, ConstantsAssumption DEF NoLease, NoJob, Jobs,
     ConstantsAssumption
<1>15. FenceMatches(w, p.token)'
  BY <1>6, <1>8, <1>9, <1>12, <1>13, <1>14 DEF FenceMatches
<1>16. TokenShape(p)
  BY <1>8, <1>14 DEF TokenShape
<1> QED BY <1>1, <1>3, <1>6, <1>8, <1>9, <1>11, <1>12, <1>15, <1>16, WorkerMoves

LEMMA EndsFencing ==
    ASSUME FencingInv, TypeOK', NEW w \in Workers,
           \/ CompleteLocked(w) \/ RecordOwnerDeleted(w) \/ FailJob(w) \/ Handoff(w)
    PROVE  StateStep /\ FencingInv'
<1>1. PICK j : j = proc[w].held.job
  OBVIOUS
<1>2. /\ UNCHANGED <<row, created>> /\ Current(w, proc[w].held)
      /\ proc[w].pc \in {"work", "failing"}
  BY DEF CompleteLocked, RecordOwnerDeleted, FailJob, Handoff, Working
<1>3. j \in Jobs /\ state[j] \in ActiveStates /\ WorkerCurrent(w)
  BY <1>1, <1>2, HeldActive DEF Current
<1>4. StateStep
  <2>1. CASE FailLocked(j)
    BY <1>3, <2>1, FailLockedStep
  <2>2. CASE CompleteLocked(w)
    BY <1>1, <1>3, <2>2 DEF CompleteLocked, Previous, StateStep
  <2>3. CASE Handoff(w)
    <3>1. UNCHANGED state \/ state' = [state EXCEPT ![j] = "queued"]
      BY <1>1, <2>3 DEF Handoff
    <3>2. \A k \in Jobs : state'[k] = state[k] \/ (k = j /\ state'[k] = "queued")
      BY <1>3, <3>1, OneState DEF FencingInv
    <3> QED BY <1>3, <3>2 DEF StateStep
  <2> QED BY <1>1, <2>1, <2>2, <2>3 DEF RecordOwnerDeleted, FailJob
<1>5. CASE FailJob(w) \/ Handoff(w)
  BY <1>2, <1>3, <1>4, <1>5, ForgetWalks DEF FailJob, Handoff
<1>6. CASE CompleteLocked(w) \/ RecordOwnerDeleted(w)
  <2>1. PICK pc \in {"finishing", "ownerclean"} :
          Becomes(w, [proc[w] EXCEPT !.pc = pc, !.token = NoLease, !.building = FALSE])
    BY <1>6 DEF CompleteLocked, RecordOwnerDeleted
  <2>2. PICK p : p = [proc[w] EXCEPT !.pc = pc, !.token = NoLease, !.building = FALSE]
    OBVIOUS
  <2>3. p \in Processes /\ p.pc = pc /\ p.token = NoLease
        /\ p.generation = proc[w].generation
    <3>1. proc[w] \in Processes
      BY HeldType DEF FencingInv
    <3> QED BY <2>2, <3>1, NoLeaseType DEF Processes
  <2> QED BY <1>2, <1>3, <1>4, <2>1, <2>2, <2>3, WorkerWalks
<1> QED BY <1>5, <1>6

LEMMA FinishesFencing ==
    ASSUME FencingInv, TypeOK', NEW w \in Workers,
           \/ CleanupTerminalRetiring(w) \/ CleanupComplete(w) \/ FinishLost(w)
           \/ ReleaseJobLease(w)
    PROVE  StateStep /\ FencingInv'
<1>1. /\ UNCHANGED <<row, created, state>> /\ WorkerCurrent(w)
      /\ proc[w].pc \in {"finishing", "ownerclean", "releasing"}
  BY DEF CleanupTerminalRetiring, CleanupComplete, FinishLost, ReleaseJobLease,
     Current
<1>2. StateStep
  BY <1>1 DEF StateStep
<1>3. CASE CleanupTerminalRetiring(w)
  BY <1>1, <1>2, <1>3, GotoWalks DEF CleanupTerminalRetiring
<1>4. CASE CleanupComplete(w)
  <2>1. UNCHANGED fence /\ (Goto(w, "releasing") \/ UNCHANGED proc)
    BY <1>4 DEF CleanupComplete
  <2>2. CASE UNCHANGED proc
    <3>1. created \in Nat
      BY ConstantsAssumption DEF FencingInv, TypeOK, ConstantsAssumption
    <3> QED BY <1>1, <1>2, <2>1, <2>2, <3>1, QuietStep
  <2> QED BY <1>1, <1>2, <2>1, <2>2, GotoWalks
<1>5. CASE FinishLost(w)
  <2>1. Becomes(w, Dead) /\ row'.generation = row.generation
        /\ (row'.held => row.held) /\ proc[w].pc # "down"
    BY <1>1, <1>5 DEF FinishLost
  <2> QED BY <1>1, <1>2, <2>1, WorkerEnds
<1>6. CASE ReleaseJobLease(w)
  BY <1>1, <1>2, <1>6, ForgetWalks DEF ReleaseJobLease
<1> QED BY <1>3, <1>4, <1>5, <1>6

LEMMA StepFencing ==
    ASSUME FencingInv, [Next]_vars
    PROVE  StateStep /\ FencingInv'
<1>1. TypeOK'
  BY StepTypeOK DEF FencingInv
<1>2. CASE UNCHANGED vars
  <2>1. StateStep /\ UNCHANGED <<row, proc, fence, state, created>>
    BY <1>2 DEF StateStep, vars
  <2>2. created \in Nat
    BY ConstantsAssumption DEF FencingInv, TypeOK, ConstantsAssumption
  <2> QED BY <1>1, <2>1, <2>2, QuietStep
<1>3. ASSUME NEW w \in Workers, Services(w) PROVE StateStep /\ FencingInv'
  BY <1>1, <1>3, WorksFencing, RotateFencing, EndsFencing, FinishesFencing
     DEF Services
<1>4. ASSUME NEW w \in Workers, WorkerStep(w) PROVE StateStep /\ FencingInv'
  BY <1>1, <1>3, <1>4, AcquireWorkerLeaseFencing, LifeFencing, MaintenanceFencing,
     ClaimsFencing
     DEF WorkerStep
<1>5. ASSUME NEW w \in Workers, WorkerFault(w) PROVE StateStep /\ FencingInv'
  BY <1>1, <1>5, LifeFencing, EndsFencing, WorksFencing, MaintenanceFencing
     DEF WorkerFault
<1> QED BY <1>1, <1>2, <1>4, <1>5, EnvironmentFencing DEF Next

LEMMA InitFencing ==
    ASSUME Init PROVE FencingInv
<1>1. TypeOK
  BY InitTypeOK
<1>2. \A w \in Workers : proc[w] = Dead
  BY DEF Init
<1>3. Dead.pc = "down" /\ TokenShape(Dead)
  BY DEF Dead, TokenShape
<1>4. \A k \in Jobs : state[k] = "absent"
  BY DEF Init
<1> QED BY <1>1, <1>2, <1>3, <1>4 DEF FencingInv, HeartbeatAgreesWithRow

\* The strengthening is an invariant.
THEOREM Fencing == Spec => []FencingInv
<1>1. Init => FencingInv
  BY InitFencing
<1>2. FencingInv /\ [Next]_vars => FencingInv'
  BY StepFencing
<1> QED BY <1>1, <1>2, PTL DEF Spec

\* A worker that still owns the worker row never remembers a job lease the job
\* row does not carry, so the heartbeat never kills a worker for a lease that
\* nobody took from it.
THEOREM HeartbeatAgrees == Spec => []HeartbeatAgreesWithRow
<1>1. FencingInv => HeartbeatAgreesWithRow
  BY DEF FencingInv
<1> QED BY <1>1, Fencing, PTL

\* However many workers of older generations still run, at most one process can
\* write under the lease of a job.
THEOREM OneWriter == Spec => []AtMostOneWriter
<1>1. ASSUME FencingInv PROVE AtMostOneWriter
  <2> SUFFICES ASSUME NEW j \in Jobs, NEW v \in Workers, NEW w \in Workers,
                      Writes(v, j), Writes(w, j)
               PROVE  v = w
    BY DEF AtMostOneWriter
  <2>1. \A u \in Workers : Writes(u, j) => proc[u].pc # "down"
    BY <1>1 DEF FencingInv, Writes, Current, FenceMatches, Dead, NoLease
  <2> QED BY <1>1, <2>1, OneCurrent DEF Writes, Current
<1> QED BY <1>1, Fencing, PTL

\* No worker of an older generation brings a finished export back.
THEOREM TerminalFinal == Spec => TerminalIsFinal
<1> DEFINE Final ==
             \A j \in Jobs :
                /\ state[j] \in {"failed", "expired"} => state'[j] \in {state[j], "absent"}
                /\ state[j] = "complete" => state'[j] \in {"complete", "expired"}
<1>1. ASSUME FencingInv, [Next]_vars PROVE Final
  <2>1. \A j \in Jobs : j > created => state[j] = "absent"
    BY <1>1 DEF FencingInv
  <2> QED BY <1>1, <2>1, StepFencing DEF StateStep
<1>2. FencingInv /\ [Next]_vars => [Final]_vars
  BY <1>1
<1> HIDE DEF Final
<1>3. Spec => [][Final]_vars
  BY <1>2, Fencing, PTL DEF Spec
<1> QED BY <1>3 DEF TerminalIsFinal, Final

-----------------------------------------------------------------------------
(* The slot of an account follows its active job.                            *)

SameActive == \A k \in Jobs : state'[k] \in ActiveStates <=> state[k] \in ActiveStates

LEMMA SlotKept ==
    ASSUME SlotMatchesActive, UNCHANGED <<owner, slot, users>>, SameActive
    PROVE  SlotMatchesActive'
  BY DEF SlotMatchesActive, SameActive

LEMMA SlotReleased ==
    ASSUME TypeOK, SlotMatchesActive, NEW j \in Jobs, ReleaseSlot(j),
           UNCHANGED <<owner, users>>, state'[j] \notin ActiveStates,
           \A k \in Jobs \ {j} :
               state'[k] \in ActiveStates <=> state[k] \in ActiveStates
    PROVE  SlotMatchesActive'
<1> SUFFICES ASSUME NEW o \in users
             PROVE  {k \in Jobs : owner[k] = o /\ state'[k] \in ActiveStates}
                      = IF slot'[o] = NoJob THEN {} ELSE {slot'[o]}
  BY DEF SlotMatchesActive
<1> DEFINE Active == {k \in Jobs : owner[k] = o /\ state[k] \in ActiveStates}
<1>1. {k \in Jobs : owner[k] = o /\ state'[k] \in ActiveStates} = Active \ {j}
  OBVIOUS
<1>2. Active = IF slot[o] = NoJob THEN {} ELSE {slot[o]}
  BY DEF SlotMatchesActive
<1>3. slot'[o] = IF slot[o] = j THEN NoJob ELSE slot[o]
  BY DEF ReleaseSlot, TypeOK
<1> HIDE DEF Active
<1> QED BY <1>1, <1>2, <1>3

LEMMA FailLockedSlot ==
    ASSUME TypeOK, SlotMatchesActive, NEW j \in Jobs, FailLocked(j), UNCHANGED users
    PROVE  SlotMatchesActive'
<1>1. \A k \in Jobs : state'[k] = state[k] \/ (k = j /\ state'[k] = "failed")
  BY OneState DEF FailLocked
<1>2. state'[j] = "failed"
  BY DEF FailLocked, TypeOK
<1> QED BY <1>1, <1>2, SlotReleased DEF FailLocked

\* A step that moves one active job to another active state.
LEMMA ActiveMoves ==
    ASSUME TypeOK, NEW j \in Jobs, state[j] \in ActiveStates,
           NEW s \in ActiveStates, state' = [state EXCEPT ![j] = s]
    PROVE  SameActive
<1>1. \A k \in Jobs : state'[k] = state[k] \/ (k = j /\ state'[k] = s)
  BY OneState
<1> QED BY <1>1 DEF SameActive

LEMMA CreateJobSlot ==
    ASSUME FencingInv, SlotMatchesActive, NEW o \in Owners, CreateJob(o)
    PROVE  SlotMatchesActive'
<1>1. PICK j : j = created + 1
  OBVIOUS
<1>2. j \in Jobs /\ state[j] = "absent" /\ j # NoJob
  BY <1>1, ConstantsAssumption
  DEF CreateJob, FencingInv, TypeOK, Jobs, NoJob, ConstantsAssumption
<1>3. /\ \A k \in Jobs \ {j} :
            state'[k] \in ActiveStates <=> state[k] \in ActiveStates
      /\ state'[j] = "queued"
  BY <1>1, <1>2 DEF CreateJob, Deletable
<1>4. /\ slot[o] = NoJob /\ o \in users /\ users' = users
      /\ slot'[o] = j /\ \A p \in Owners \ {o} : slot'[p] = slot[p]
      /\ owner'[j] = o /\ \A k \in Jobs \ {j} : owner'[k] = owner[k]
  BY <1>1, <1>2 DEF CreateJob, FencingInv, TypeOK
<1> SUFFICES ASSUME NEW p \in users
             PROVE  {k \in Jobs : owner'[k] = p /\ state'[k] \in ActiveStates}
                      = IF slot'[p] = NoJob THEN {} ELSE {slot'[p]}
  BY <1>4 DEF SlotMatchesActive
<1>5. p \in Owners
  BY DEF FencingInv, TypeOK
<1>6. {k \in Jobs : owner[k] = p /\ state[k] \in ActiveStates}
        = IF slot[p] = NoJob THEN {} ELSE {slot[p]}
  BY DEF SlotMatchesActive
<1>7. CASE p = o
  <2>1. \A k \in Jobs : ~(owner[k] = o /\ state[k] \in ActiveStates)
    BY <1>4, <1>6, <1>7
  <2> QED BY <1>2, <1>3, <1>4, <1>7, <2>1
<1>8. CASE p # o
  <2>1. {k \in Jobs : owner'[k] = p /\ state'[k] \in ActiveStates}
          = {k \in Jobs : owner[k] = p /\ state[k] \in ActiveStates}
    BY <1>2, <1>3, <1>4, <1>8
  <2> QED BY <1>4, <1>5, <1>6, <1>8, <2>1
<1> QED BY <1>7, <1>8

LEMMA DeleteOwnerSlot ==
    ASSUME TypeOK, SlotMatchesActive, NEW o \in Owners, DeleteOwner(o)
    PROVE  SlotMatchesActive'
<1> SUFFICES ASSUME NEW p \in users'
             PROVE  {k \in Jobs : owner'[k] = p /\ state'[k] \in ActiveStates}
                      = IF slot'[p] = NoJob THEN {} ELSE {slot'[p]}
  BY DEF SlotMatchesActive
<1>1. p \in users /\ p # o /\ p \in Owners /\ p # NoOwner /\ UNCHANGED state
  BY ConstantsAssumption DEF DeleteOwner, TypeOK, ConstantsAssumption
<1>2. \A k \in Jobs : owner'[k] = p <=> owner[k] = p
  BY <1>1 DEF DeleteOwner, TypeOK
<1>3. slot'[p] = slot[p]
  BY <1>1 DEF DeleteOwner, TypeOK
<1> QED BY <1>1, <1>2, <1>3 DEF SlotMatchesActive

LEMMA StepSlot ==
    ASSUME FencingInv, SlotMatchesActive, [Next]_vars
    PROVE  SlotMatchesActive'
<1>t. TypeOK
  BY DEF FencingInv
<1>a. ASSUME UNCHANGED <<state, owner, slot, users>> PROVE SlotMatchesActive'
  BY <1>a, SlotKept DEF SameActive
<1>1. CASE UNCHANGED vars
  BY <1>1, <1>a DEF vars
<1>2. CASE Environment
  <2>1. ASSUME NEW j \in Jobs, TimePasses(j) PROVE SlotMatchesActive'
    BY <1>a, <2>1 DEF TimePasses
  <2>2. ASSUME NEW j \in Jobs, NEW c, DownloadExpires(j, c) PROVE SlotMatchesActive'
    <3>1. state[j] = "complete" /\ state' = [state EXCEPT ![j] = "expired"]
          /\ UNCHANGED <<owner, slot, users>>
      BY <2>2 DEF DownloadExpires
    <3>2. SameActive
      BY <1>t, <3>1, OneState DEF SameActive
    <3> QED BY <3>1, <3>2, SlotKept
  <2> QED BY <1>2, <1>t, <2>1, <2>2, CreateJobSlot, DeleteOwnerSlot DEF Environment
<1>3. ASSUME NEW w \in Workers, Maintenance(w) PROVE SlotMatchesActive'
  <2>1. CASE TerminalizeOwnerless(w)
    BY <1>a, <1>t, <2>1, FailLockedSlot DEF TerminalizeOwnerless, jobVars
  <2>2. CASE ExpireComplete(w)
    <3>1. SameActive /\ UNCHANGED <<owner, slot, users>>
      BY <2>2 DEF ExpireComplete, Expirable, SameActive
    <3> QED BY <3>1, SlotKept
  <2>3. CASE DeleteCleanOrphans(w)
    <3>1. ASSUME NEW j \in Jobs, IsOldest(j, Orphans),
                 state' = [state EXCEPT ![j] = "absent"]
          PROVE  SameActive
      <4>1. state[j] \in {"failed", "expired"}
        BY <3>1, FirstIsMember DEF Orphans, Deletable
      <4> QED BY <1>t, <3>1, <4>1, OneState DEF SameActive
    <3>2. UNCHANGED <<owner, slot, users>>
      BY <2>3 DEF DeleteCleanOrphans
    <3> QED BY <2>3, <1>a, <3>1, <3>2, SlotKept DEF DeleteCleanOrphans
  <2>4. CASE \/ ClaimCompleteMaintenance(w) \/ CleanupOneReady(w)
             \/ CleanupTerminalStaging(w) \/ MaintenanceClaimAllowed(w)
    BY <1>a, <2>4 DEF ClaimCompleteMaintenance, CleanupOneReady,
       CleanupTerminalStaging, MaintenanceClaimAllowed, jobVars
  <2> QED BY <1>3, <2>1, <2>2, <2>3, <2>4 DEF Maintenance
<1>4. ASSUME NEW w \in Workers, Claims(w) PROVE SlotMatchesActive'
  <2>1. ASSUME NEW S, NEW next, ClaimRecovery(w, S, next) PROVE SlotMatchesActive'
    BY <1>a, <1>t, <2>1, FailLockedSlot DEF ClaimRecovery, jobVars
  <2>2. CASE RequeueExpired(w)
    <3>1. ASSUME NEW j \in Jobs, IsFirst(j, RequeueWork(w)),
                 state' = [state EXCEPT ![j] = "queued"],
                 UNCHANGED <<owner, slot, users>>
          PROVE  SlotMatchesActive'
      <4>1. state[j] \in ActiveStates
        BY <3>1, FirstIsMember DEF RequeueWork
      <4> QED BY <1>t, <3>1, <4>1, ActiveMoves, SlotKept
    <3> QED BY <1>a, <1>t, <2>2, <3>1, FailLockedSlot DEF RequeueExpired, jobVars
  <2>3. CASE ClaimNextJob(w)
    <3>1. UNCHANGED <<owner, slot, users>>
      BY <2>3 DEF ClaimNextJob
    <3>2. ASSUME NEW j \in Jobs, IsOldest(j, QueuedWork), NEW s \in ActiveStates,
                 state' = [state EXCEPT ![j] = s]
          PROVE  SlotMatchesActive'
      <4>1. state[j] \in ActiveStates
        BY <3>2, FirstIsMember DEF QueuedWork
      <4> QED BY <1>t, <3>1, <3>2, <4>1, ActiveMoves, SlotKept
    <3> QED BY <1>a, <2>3, <3>1, <3>2 DEF ClaimNextJob
  <2> QED BY <1>4, <2>1, <2>2, <2>3
          DEF Claims, ClaimRetiringRecovery, ClaimVerifyingRecovery
<1>5. ASSUME NEW w \in Workers, Services(w) \/ WorkerFault(w)
      PROVE  SlotMatchesActive'
  <2>1. CASE \/ CleanupCandidate(w) \/ PlanCandidate(w) \/ RecordDirectory(w)
             \/ MarkRetiringIntent(w) \/ RetireAbandoned(w) \/ CleanupRetiring(w)
             \/ CleanupTerminalRetiring(w) \/ PermissionChanged(w)
             \/ CleanupComplete(w) \/ FinishLost(w) \/ ReleaseJobLease(w)
             \/ Crash(w) \/ StorageFailure(w) \/ StopIdle(w) \/ ExportErrorRaised(w)
             \/ CleanupPutOff(w)
    BY <1>a, <2>1 DEF CleanupCandidate, PlanCandidate, RecordDirectory,
       MarkRetiringIntent, RetireAbandoned, CleanupRetiring, CleanupTerminalRetiring,
       PermissionChanged, CleanupComplete, FinishLost, ReleaseJobLease, Crash,
       StorageFailure, StopIdle, ExportErrorRaised, CleanupPutOff, jobVars
  <2>2. PICK j : j = proc[w].held.job
    OBVIOUS
  <2>3. CASE FailJob(w) \/ RecordOwnerDeleted(w)
    <3>1. FailLocked(j) /\ j \in Jobs /\ UNCHANGED users
      BY <1>t, <2>2, <2>3, HeldType DEF FailJob, RecordOwnerDeleted, Working
    <3> QED BY <1>t, <3>1, FailLockedSlot
  <2>4. CASE \/ FinalizeSnapshot(w) \/ AdvanceAttempt(w) \/ RotateRevoked(w)
             \/ RotateRecovered(w) \/ Handoff(w)
    <3>1. j \in Jobs /\ state[j] \in ActiveStates
      <4>1. proc[w].pc = "work" /\ Current(w, proc[w].held)
        BY <2>4 DEF FinalizeSnapshot, AdvanceAttempt, RotateRevoked,
           RotateRecovered,
           Handoff, Working
      <4> QED BY <2>2, <4>1, HeldActive
    <3>2. UNCHANGED <<owner, slot, users>>
      BY <2>4 DEF FinalizeSnapshot, AdvanceAttempt, RotateRevoked,
         RotateRecovered, Handoff
    <3>3. \/ UNCHANGED state
          \/ \E s \in ActiveStates : state' = [state EXCEPT ![j] = s]
      BY <2>2, <2>4 DEF FinalizeSnapshot, AdvanceAttempt, RotateRevoked,
         RotateRecovered, Rotate, Handoff
    <3> QED BY <1>a, <1>t, <3>1, <3>2, <3>3, ActiveMoves, SlotKept
  <2>5. CASE CompleteLocked(w)
    <3>1. j \in Jobs /\ ReleaseSlot(j) /\ UNCHANGED <<owner, users>>
      BY <1>t, <2>2, <2>5, HeldType DEF CompleteLocked, Working
    <3>2. state'[j] = "complete"
          /\ \A k \in Jobs \ {j} :
                state'[k] \in ActiveStates <=> state[k] \in ActiveStates
      BY <2>2, <2>5, <3>1 DEF CompleteLocked, Previous
    <3> QED BY <1>t, <3>1, <3>2, SlotReleased
  <2> QED BY <1>5, <2>1, <2>3, <2>4, <2>5 DEF Services, WorkerFault
<1>6. ASSUME NEW w \in Workers, WorkerStep(w) PROVE SlotMatchesActive'
  <2>1. CASE \/ AcquireWorkerLease(w) \/ ExitLost(w) \/ ReleaseWorkerLease(w)
             \/ WakeUp(w)
    BY <1>a, <2>1 DEF AcquireWorkerLease, ExitLost, ReleaseWorkerLease, WakeUp,
       jobVars
  <2> QED BY <1>3, <1>4, <1>5, <1>6, <2>1 DEF WorkerStep
<1> QED BY <1>1, <1>2, <1>5, <1>6 DEF Next

\* The slot of an account always names its one active export: no crash, takeover,
\* failure or account deletion leaves a slot taken for ever or a job without one.
THEOREM SlotCorrect == Spec => []SlotMatchesActive
<1>1. Init => SlotMatchesActive
  BY DEF Init, SlotMatchesActive
<1>2. FencingInv /\ SlotMatchesActive /\ [Next]_vars => SlotMatchesActive'
  BY StepSlot
<1> QED BY <1>1, <1>2, Fencing, PTL DEF Spec

-----------------------------------------------------------------------------
(* What a takeover relies on: the invariant.                                 *)

\* Steps at which a process holds no job, and steps at which its job has ended.
Unbound == {"down", "idle", "exiting"} \cup MaintenanceSteps \cup ClaimSteps
Ended == {"finishing", "releasing", "ownerclean"}
Bound == {"work", "failing"}

Live(w) == proc[w].pc # "down" /\ WorkerCurrent(w)
Active(j) == state[j] \in ActiveStates

\* What a process holds, by the step it is at.
HeldShape(p) ==
    /\ p.held.job <= created
    /\ p.pc \in Unbound => p.held = NoLease
    /\ p.pc \in Ended /\ p.held.job \in Jobs => ~Active(p.held.job)
    /\ p.building => p.pc \in Bound
HeldInv == \A w \in Workers : HeldShape(proc[w])

\* A lease is of a worker that was; a job not yet created has none.
FenceInv ==
    \A j \in Jobs :
        /\ fence[j].worker <= row.generation
        /\ j > created => /\ fence[j].lease = 0 /\ fence[j].attempt = 0
                          /\ attempt[j] = NoAttempts /\ snap[j] = "none"

\* An attempt that is not cleaned is the current one, or the one before it
\* while the current one is not begun.
AttemptGood(j) ==
    /\ \A g \in Attempts : g > fence[j].attempt => attempt[j][g] = "none"
    /\ \A g \in UncleanAttempts(j) :
          \/ g = fence[j].attempt
          \/ /\ g + 1 = fence[j].attempt /\ attempt[j][g] = "retiring"
             /\ CurrentAttempt(j) = "none"
    /\ state[j] = "queued" => CurrentAttempt(j) = "none" /\ ~HasCleanupWork(j)
    /\ state[j] = "snapshotting" => CurrentAttempt(j) = "none"
AttemptInv == \A j \in Jobs : AttemptGood(j)

\* Each worker generation to come keeps an attempt generation.
Spent(j) == fence[j].attempt + (MaxGeneration - row.generation)
SpentInv == \A j \in Jobs : Spent(j) <= MaxAttempt

\* A lease that nobody can use was lost and is not charged yet.
Uncharged(j) ==
    Active(j) /\ fence[j].lease # 0 /\ (\A w \in Workers : ~Writes(w, j))
        => resume[j] < losses[j]
LossInv == \A j \in Jobs : resume[j] <= losses[j] /\ Uncharged(j)

\* No lease of the newest worker is leaked.
LeakFree(w) == \A j \in Jobs : Active(j) => Stale(w, j) \/ proc[w].token.job = j

\* An attempt the newest worker is not building itself can be replaced.
Builds(w, j) == proc[w].token.job = j /\ proc[w].building
Solvent(w) ==
    /\ proc[w].pc # "exiting" =>
         \A j \in Jobs : Active(j) /\ CurrentAttempt(j) # "none" =>
            Builds(w, j) \/ Spent(j) < MaxAttempt
    /\ \A j \in Jobs : Active(j) /\ proc[w].pc = "work" /\ Builds(w, j) =>
         /\ \/ state[j] = "snapshotting"
            \/ CurrentAttempt(j) \in {"writing", "closed", "verifying", "retiring"}
         /\ state[j] = "verifying" /\ CurrentAttempt(j) = "retiring" =>
              Spent(j) < MaxAttempt

\* What its claims have found so far: an abandoned job is taken first.
Sequential(w) ==
    \A j \in Jobs : state[j] \in InProgress =>
        /\ proc[w].pc = "verifying" => state[j] = "verifying" \/ ~HasCleanupWork(j)
        /\ proc[w].pc = "requeue" => state[j] # "verifying" /\ ~HasCleanupWork(j)
        /\ proc[w].pc \notin {"retiring2", "queued"}

Sound(w) == Live(w) => LeakFree(w) /\ Solvent(w) /\ Sequential(w)
WorkerInv == \A w \in Workers : Sound(w)

OneInv ==
    /\ \A j, k \in Jobs : state[j] \in InProgress /\ state[k] \in InProgress => j = k
    /\ \A j, k \in Jobs : /\ state[j] = "complete" /\ state[k] = "complete"
                          /\ owner[j] = owner[k] /\ owner[j] # NoOwner
                          => j = k

LeaseInv ==
    /\ FencingInv /\ HeldInv /\ FenceInv /\ AttemptInv /\ SpentInv /\ LossInv
    /\ WorkerInv /\ OneInv

\* What is known of a step, from the fencing argument.
Fenced == FencingInv' /\ TypeOK' /\ StateStep

-----------------------------------------------------------------------------
(* Types. *)

LEMMA JobTypes ==
    ASSUME TypeOK, NEW j \in Jobs
    PROVE  /\ j \in Nat /\ j # NoJob /\ state[j] \in JobStates
           /\ fence[j] \in Fences /\ fence[j].worker \in Nat
           /\ fence[j].lease \in Nat /\ fence[j].attempt \in Nat
           /\ attempt[j] \in [Attempts -> AttemptStates]
           /\ resume[j] \in Nat /\ losses[j] \in Nat /\ issued[j] \in Nat
           /\ created \in Nat /\ row.generation \in Nat
           /\ row.generation <= MaxGeneration /\ row.held \in BOOLEAN
           /\ MaxGeneration \in Nat /\ MaxAttempt \in Nat
           /\ MaxGeneration <= MaxAttempt
<1>1. MaxGeneration \in Nat /\ MaxAttempt \in Nat /\ MaxJobs \in Nat
      /\ MaxGeneration <= MaxAttempt /\ MaxAbnormalResumes \in Nat
  BY ConstantsAssumption DEF ConstantsAssumption
<1>2. fence[j] \in Fences
  BY DEF TypeOK
<1>3. /\ j \in Nat /\ j # NoJob /\ state[j] \in JobStates
      /\ attempt[j] \in [Attempts -> AttemptStates]
      /\ resume[j] \in Nat /\ losses[j] \in Nat /\ issued[j] \in Nat
      /\ created \in Nat /\ row.generation \in Nat
      /\ row.generation <= MaxGeneration /\ row.held \in BOOLEAN
  BY <1>1 DEF TypeOK, Jobs, NoJob
<1> QED BY <1>1, <1>2, <1>3 DEF Fences

LEMMA ProcTypes ==
    ASSUME TypeOK, NEW w \in Workers
    PROVE  /\ proc[w] \in Processes /\ proc[w].pc \in ProgramCounters
           /\ proc[w].generation \in Nat /\ proc[w].building \in BOOLEAN
           /\ proc[w].token \in LeaseTokens /\ proc[w].held \in LeaseTokens
           /\ proc[w].token.job \in Jobs \cup {NoJob} /\ proc[w].held.job \in Nat
           /\ proc[w].held.attempt \in Nat
<1>1. proc[w] \in Processes
  BY DEF TypeOK
<1>2. proc[w].token \in LeaseTokens /\ proc[w].held \in LeaseTokens
  BY <1>1 DEF Processes
<1>3. Jobs \subseteq Nat /\ NoJob \in Nat /\ 0..MaxGeneration \subseteq Nat
  BY ConstantsAssumption DEF Jobs, NoJob, ConstantsAssumption
<1>4. /\ proc[w].pc \in ProgramCounters /\ proc[w].generation \in Nat
      /\ proc[w].building \in BOOLEAN
  BY <1>1, <1>3 DEF Processes
<1>5. /\ proc[w].token.job \in Jobs \cup {NoJob} /\ proc[w].held.job \in Nat
      /\ proc[w].held.attempt \in Nat
  BY <1>2, <1>3 DEF LeaseTokens
<1> QED BY <1>1, <1>2, <1>4, <1>5

LEMMA NoLeaseFields == NoLease.job = NoJob /\ NoLease.lease = 0 /\ NoLease.attempt = 0
  BY DEF NoLease

\* A process at a step without a job has no token and no claim to write.
LEMMA UnboundWrites ==
    ASSUME LeaseInv, NEW w \in Workers, proc[w].pc \in Unbound, NEW j \in Jobs
    PROVE  ~Writes(w, j)
<1>1. proc[w].held = NoLease
  BY DEF LeaseInv, HeldInv, HeldShape
<1>2. j # NoJob
  BY JobTypes DEF LeaseInv, FencingInv
<1> QED BY <1>1, <1>2, NoLeaseFields DEF Writes

LEMMA NoToken ==
    ASSUME LeaseInv, NEW w \in Workers, proc[w].pc \notin Bound
    PROVE  /\ proc[w].token = NoLease /\ proc[w].building = FALSE
           /\ \A j \in Jobs : proc[w].token.job # j /\ ~Builds(w, j)
<1>1. proc[w].token = NoLease /\ ~proc[w].building /\ proc[w].building \in BOOLEAN
  BY ProcTypes DEF LeaseInv, FencingInv, TokenShape, Bound, HeldInv, HeldShape
<1>2. \A j \in Jobs : j # NoJob
  BY JobTypes DEF LeaseInv, FencingInv
<1> QED BY <1>1, <1>2, NoLeaseFields DEF Builds

\* The holder of a lease of the newest worker, with its job.
LEMMA HeldWrites ==
    ASSUME FencingInv, NEW w \in Workers, proc[w].pc \in Bound, WorkerCurrent(w)
    PROVE  /\ proc[w].token = proc[w].held /\ proc[w].held.job \in Jobs
           /\ Writes(w, proc[w].held.job)
           /\ proc[w].held.attempt = fence[proc[w].held.job].attempt
           /\ Active(proc[w].held.job)
<1>1. /\ proc[w].token = proc[w].held /\ proc[w].held # NoLease
      /\ proc[w].pc # "down"
  BY DEF FencingInv, TokenShape, Bound
<1>2. FenceMatches(w, proc[w].held) /\ Active(proc[w].held.job)
  BY <1>1 DEF FencingInv, HeartbeatAgreesWithRow, Active
<1>3. proc[w].held.job \in Jobs
  BY <1>2, ProcTypes DEF FencingInv, LeaseTokens, FenceMatches
<1>4. fence[proc[w].held.job].attempt = proc[w].held.attempt
  BY <1>2 DEF FenceMatches
<1> QED BY <1>1, <1>2, <1>3, <1>4 DEF Writes, Current

LEMMA WriterLive ==
    ASSUME FencingInv, NEW w \in Workers, NEW j \in Jobs, Writes(w, j)
    PROVE  Live(w)
  BY DEF FencingInv, Writes, Current, FenceMatches, Dead, NoLease, Live, NoJob

-----------------------------------------------------------------------------
(* What keeps each part of the invariant.                                    *)

SameRow(k) == fence'[k] = fence[k] /\ attempt'[k] = attempt[k] /\ snap'[k] = snap[k]
SameJob(k) == SameRow(k) /\ state'[k] = state[k]
Elsewhere(w) == \A v \in Workers \ {w} : proc'[v] = proc[v]

\* A job that is back in the queue, or new there.
Fresh(k) == state'[k] = "queued" /\ fence'[k].lease = 0 /\ CurrentAttempt(k)' = "none"

\* Steps that rely on what the claims before them did not find.
Finding == {"verifying", "requeue", "retiring2", "queued"}

\* A worker that goes on without a new job.
LEMMA WalkSound ==
    ASSUME LeaseInv, NEW w \in Workers, Live(w), row'.generation = row.generation,
           proc'[w].generation = proc[w].generation,
           \A j \in Jobs : Active(j)' =>
              \/ /\ SameJob(j) /\ (proc'[w].token.job = j <=> proc[w].token.job = j)
                 /\ proc'[w].token.job = j => proc'[w].building = proc[w].building
              \/ Fresh(j) /\ proc'[w].token.job # j,
           \/ proc'[w].pc = proc[w].pc
           \/ proc[w].pc # "exiting" /\ proc'[w].pc # "work"
    PROVE  /\ LeakFree(w)' /\ Solvent(w)'
           /\ proc'[w].pc = proc[w].pc \/ proc'[w].pc \notin Finding => Sequential(w)'
<1>1. LeakFree(w) /\ Solvent(w) /\ Sequential(w)
  BY DEF LeaseInv, WorkerInv, Sound
<1>2. LeakFree(w)'
  BY <1>1 DEF LeakFree, Stale, SameJob, SameRow, Fresh, Active
<1>3. Solvent(w)'
  <2>1. ASSUME NEW j \in Jobs, proc'[w].pc # "exiting", Active(j)',
               CurrentAttempt(j)' # "none"
        PROVE  Builds(w, j)' \/ Spent(j)' < MaxAttempt
    <3>1. SameJob(j) /\ (Builds(w, j)' <=> Builds(w, j))
      BY <2>1 DEF Fresh, Builds
    <3>2. Active(j) /\ CurrentAttempt(j) # "none" /\ Spent(j)' = Spent(j)
      BY <2>1, <3>1 DEF SameJob, SameRow, Active, CurrentAttempt, Spent
    <3> QED BY <1>1, <2>1, <3>1, <3>2 DEF Solvent
  <2>2. ASSUME NEW j \in Jobs, Active(j)', proc'[w].pc = "work", Builds(w, j)'
        PROVE  /\ \/ state'[j] = "snapshotting"
                  \/ CurrentAttempt(j)' \in {"writing", "closed", "verifying", "retiring"}
               /\ state'[j] = "verifying" /\ CurrentAttempt(j)' = "retiring" =>
                    Spent(j)' < MaxAttempt
    <3>1. proc[w].pc = "work" /\ SameJob(j) /\ (Builds(w, j)' <=> Builds(w, j))
      BY <2>2 DEF Builds
    <3> QED BY <1>1, <2>2, <3>1 DEF Solvent, SameJob, SameRow, CurrentAttempt,
               Spent, Active
  <2> QED BY <2>1, <2>2 DEF Solvent
<1>4. proc'[w].pc = proc[w].pc \/ proc'[w].pc \notin Finding => Sequential(w)'
  BY <1>1 DEF Sequential, SameJob, SameRow, Fresh, Active, HasCleanupWork,
     UncleanAttempts, Finding
<1> QED BY <1>2, <1>3, <1>4

\* A worker that takes a job, or goes on with the one it has: what has to be
\* shown is about this job only.
LEMMA WorkSound ==
    ASSUME LeaseInv, NEW w \in Workers, Live(w), NEW j \in Jobs,
           row'.generation = row.generation,
           proc'[w].generation = proc[w].generation,
           proc[w].pc # "exiting", proc'[w].pc \in Bound, proc'[w].token.job = j,
           \A k \in Jobs \ {j} :
              /\ Active(k)' => SameJob(k)
              /\ proc[w].token.job # k,
           CurrentAttempt(j)' # "none" =>
              proc'[w].building \/ Spent(j)' < MaxAttempt,
           proc'[w].pc = "work" /\ proc'[w].building =>
              /\ \/ state'[j] = "snapshotting"
                 \/ CurrentAttempt(j)' \in {"writing", "closed", "verifying", "retiring"}
              /\ state'[j] = "verifying" /\ CurrentAttempt(j)' = "retiring" =>
                   Spent(j)' < MaxAttempt
    PROVE  LeakFree(w)' /\ Solvent(w)' /\ Sequential(w)'
<1>1. LeakFree(w) /\ Solvent(w) /\ Sequential(w)
  BY DEF LeaseInv, WorkerInv, Sound
<1>2. LeakFree(w)'
  BY <1>1 DEF LeakFree, Stale, SameJob, SameRow, Active
<1>3. Solvent(w)'
  <2>1. ASSUME NEW k \in Jobs, k # j, Active(k)'
        PROVE  /\ Builds(w, k)' = FALSE
               /\ CurrentAttempt(k)' # "none" => Spent(k)' < MaxAttempt
    <3>1. ~Builds(w, k) /\ ~Builds(w, k)' /\ SameJob(k)
      BY <2>1 DEF Builds
    <3>2. CurrentAttempt(k)' # "none" => Spent(k)' < MaxAttempt
      BY <1>1, <2>1, <3>1 DEF Solvent, SameJob, SameRow, CurrentAttempt, Spent, Active
    <3> QED BY <3>1, <3>2
  <2>2. Builds(w, j)' <=> proc'[w].building
    BY DEF Builds
  <2> QED BY <2>1, <2>2 DEF Solvent
<1>4. Sequential(w)'
  BY DEF Sequential, Bound
<1> QED BY <1>2, <1>3, <1>4

\* The workers that do not take the step.
LEMMA OthersSound ==
    ASSUME LeaseInv, NEW w \in Workers, NEW v \in Workers \ {w},
           proc'[v] = proc[v], row'.generation = row.generation,
           row'.held => row.held,
           \/ Live(w)
           \/ \A j \in Jobs : SameJob(j)
    PROVE  Sound(v)'
<1> SUFFICES ASSUME Live(v)' PROVE LeakFree(v)' /\ Solvent(v)' /\ Sequential(v)'
  BY DEF Sound
<1>1. Live(v)
  BY DEF Live, WorkerCurrent
<1>2. \A j \in Jobs : SameJob(j)
  BY <1>1, OneCurrent DEF Live, LeaseInv
<1> QED BY <1>1, <1>2, WalkSound

LEMMA AllSound ==
    ASSUME LeaseInv, NEW w \in Workers, Elsewhere(w), row'.generation = row.generation,
           row'.held => row.held,
           \/ Live(w)
           \/ \A j \in Jobs : SameJob(j),
           Live(w)' => LeakFree(w)' /\ Solvent(w)' /\ Sequential(w)'
    PROVE  WorkerInv'
<1>1. Sound(w)'
  BY DEF Sound
<1>2. ASSUME NEW v \in Workers \ {w} PROVE Sound(v)'
  BY <1>2, OthersSound DEF Elsewhere
<1> QED BY <1>1, <1>2 DEF WorkerInv

\* Losses.
LEMMA LossKept ==
    ASSUME LeaseInv, NEW w \in Workers, Elsewhere(w), UNCHANGED losses,
           row'.generation = row.generation, row' = row \/ Live(w),
           \A j \in Jobs : resume'[j] <= losses[j],
           \A j \in Jobs : Active(j)' /\ fence'[j].lease # 0 =>
              \/ Writes(w, j)'
              \/ /\ Active(j) /\ fence'[j] = fence[j] /\ resume'[j] = resume[j]
                 /\ ~Writes(w, j)
              \/ /\ Active(j) /\ fence'[j] = fence[j] /\ resume'[j] = resume[j]
                 /\ row' = row /\ proc'[w].held = proc[w].held
                 /\ proc'[w].generation = proc[w].generation
    PROVE  LossInv'
<1>1. ASSUME NEW j \in Jobs, Active(j)', fence'[j].lease # 0,
             \A v \in Workers : ~Writes(v, j)'
      PROVE  resume'[j] < losses'[j]
  <2>1. /\ Active(j) /\ fence'[j] = fence[j] /\ resume'[j] = resume[j]
        /\ \/ ~Writes(w, j)
           \/ /\ row' = row /\ proc'[w].held = proc[w].held
              /\ proc'[w].generation = proc[w].generation
    BY <1>1
  <2>2. ASSUME NEW v \in Workers, Writes(v, j)
        PROVE  FALSE
    <3>1. /\ proc'[v].held = proc[v].held /\ proc'[v].generation = proc[v].generation
          /\ row' = row
      <4>1. v # w => row' = row
        BY <2>2, WriterLive, OneCurrent DEF Live, LeaseInv
      <4> QED BY <2>1, <2>2, <4>1 DEF Elsewhere
    <3>2. Writes(v, j)'
      BY <1>1, <2>1, <2>2, <3>1 DEF Writes, Current, WorkerCurrent, FenceMatches, Active
    <3> QED BY <1>1, <3>2
  <2> QED BY <1>1, <2>1, <2>2 DEF LeaseInv, LossInv, Uncharged
<1> QED BY <1>1 DEF LossInv, Uncharged

\* Each lease is charged after it was lost, and once.
LEMMA Charge ==
    ASSUME LeaseInv, NEW w \in Workers, Live(w), NEW j \in Jobs, Active(j),
           AbnormalTakeover(w, j)
    PROVE  resume[j] + 1 <= losses[j]
<1>1. ASSUME NEW v \in Workers, Writes(v, j) PROVE FALSE
  <2>1. v = w
    BY <1>1, WriterLive, OneCurrent DEF Live, LeaseInv
  <2>2. fence[j].worker = proc[w].generation
    BY <1>1, <2>1 DEF Writes, Current, FenceMatches
  <2> QED BY <2>2 DEF AbnormalTakeover
<1>2. resume[j] < losses[j] /\ resume[j] \in Nat /\ losses[j] \in Nat
  BY <1>1, JobTypes DEF LeaseInv, LossInv, Uncharged, AbnormalTakeover, FencingInv
<1> QED BY <1>2

LEMMA LostCounts ==
    ASSUME TypeOK, NEW S \in SUBSET Workers, LeasesLost(S), NEW j \in Jobs
    PROVE  /\ losses'[j] \in Nat /\ losses'[j] >= losses[j]
           /\ \A v \in S : Writes(v, j) => losses'[j] > losses[j]
<1> DEFINE W == {v \in S : Writes(v, j)}
<1>1. W \subseteq Workers /\ IsFiniteSet(Workers)
  BY ConstantsAssumption DEF ConstantsAssumption
<1>2. IsFiniteSet(W)
  BY <1>1, FS_Subset
<1>3. Cardinality(W) \in Nat
  BY <1>2, FS_CardinalityType
<1>4. \A v \in S : Writes(v, j) => Cardinality(W) # 0
  <2>1. W # {} => Cardinality(W) # 0
    BY <1>2, FS_EmptySet
  <2> QED BY <2>1
<1>5. losses'[j] = losses[j] + Cardinality(W) /\ losses[j] \in Nat
  BY JobTypes DEF LeasesLost
<1> HIDE DEF W
<1> QED BY <1>3, <1>4, <1>5

\* A process of S ends, or the worker row gets a new generation.
LEMMA LossCounted ==
    ASSUME LeaseInv, NEW S \in SUBSET Workers, LeasesLost(S),
           UNCHANGED <<state, fence, resume>>,
           \A v \in Workers, j \in Jobs : Writes(v, j) => Writes(v, j)' \/ v \in S
    PROVE  LossInv'
<1> SUFFICES ASSUME NEW j \in Jobs PROVE (resume[j] <= losses[j] /\ Uncharged(j))'
  BY DEF LossInv
<1>1. /\ losses'[j] \in Nat /\ losses'[j] >= losses[j]
      /\ \A v \in S : Writes(v, j) => losses'[j] > losses[j]
      /\ losses[j] \in Nat /\ resume[j] \in Nat /\ resume'[j] = resume[j]
  BY LostCounts, JobTypes DEF LeaseInv, FencingInv
<1>2. resume[j] <= losses[j] /\ Uncharged(j)
  BY DEF LeaseInv, LossInv
<1>3. ASSUME Active(j)', fence'[j].lease # 0, \A v \in Workers : ~Writes(v, j)'
      PROVE  resume'[j] < losses'[j]
  <2>1. CASE \E v \in Workers : Writes(v, j)
    BY <1>1, <1>2, <1>3, <2>1
  <2>2. CASE \A v \in Workers : ~Writes(v, j)
    BY <1>1, <1>2, <1>3, <2>2 DEF Uncharged, Active
  <2> QED BY <2>1, <2>2
<1> QED BY <1>1, <1>2, <1>3 DEF Uncharged

\* What the others hold; a job that has ended stays so.
LEMMA HeldKept ==
    ASSUME LeaseInv, Fenced, NEW w \in Workers, Elsewhere(w), created' >= created,
           HeldShape(proc[w])'
    PROVE  HeldInv'
<1> SUFFICES ASSUME NEW v \in Workers, v # w PROVE HeldShape(proc[v])'
  BY DEF HeldInv
<1>1. proc'[v] = proc[v] /\ HeldShape(proc[v])
  BY DEF Elsewhere, LeaseInv, HeldInv
<1>2. proc[v].held.job \in Nat /\ created \in Nat /\ created' \in Nat
  BY ProcTypes, ConstantsAssumption
     DEF LeaseInv, FencingInv, Fenced, TypeOK, ConstantsAssumption
<1>3. ASSUME proc[v].held.job \in Jobs, ~Active(proc[v].held.job)
      PROVE  ~Active(proc[v].held.job)'
  BY <1>1, <1>2, <1>3 DEF Fenced, StateStep, Active, HeldShape
<1> QED BY <1>1, <1>2, <1>3 DEF HeldShape

\* The step at which a process keeps what it holds.
LEMMA HeldStays ==
    ASSUME LeaseInv, Fenced, NEW w \in Workers, created' >= created,
           proc'[w].held = proc[w].held,
           proc'[w].building => proc'[w].pc \in Bound,
           \/ proc[w].pc \in Unbound
           \/ proc[w].pc \in Ended /\ proc'[w].pc \in Ended
           \/ proc'[w].pc \in Bound
    PROVE  HeldShape(proc[w])'
<1>1. HeldShape(proc[w]) /\ NoLease.job \notin Jobs
  BY NoLeaseFields, ConstantsAssumption
     DEF LeaseInv, HeldInv, NoJob, Jobs, ConstantsAssumption
<1>2. proc[w].held.job \in Nat /\ created \in Nat /\ created' \in Nat
  BY ProcTypes, ConstantsAssumption
     DEF LeaseInv, FencingInv, Fenced, TypeOK, ConstantsAssumption
<1>3. ASSUME proc[w].held.job \in Jobs, ~Active(proc[w].held.job)
      PROVE  ~Active(proc[w].held.job)'
  BY <1>1, <1>2, <1>3 DEF Fenced, StateStep, Active, HeldShape
<1>4. Unbound \cap Bound = {} /\ Ended \cap Bound = {} /\ Unbound \cap Ended = {}
  BY DEF Unbound, Bound, Ended
<1> QED BY <1>1, <1>2, <1>3, <1>4 DEF HeldShape

LEMMA FreeHeld ==
    ASSUME Fenced, NEW p, p.held = NoLease, ~p.building
    PROVE  HeldShape(p)'
<1>1. NoLease.job = 0 /\ NoLease.job \notin Jobs /\ created' \in Nat
  BY NoLeaseFields, ConstantsAssumption
     DEF NoJob, Jobs, Fenced, FencingInv, TypeOK, ConstantsAssumption
<1> QED BY <1>1 DEF HeldShape

LEMMA FenceKept ==
    ASSUME LeaseInv, Fenced, created' >= created,
           row'.generation >= row.generation,
           \A k \in Jobs : \/ fence'[k].worker = fence[k].worker
                           \/ fence'[k].worker <= row'.generation,
           \A k \in Jobs : SameRow(k) \/ state[k] # "absent"
    PROVE  FenceInv'
<1> SUFFICES ASSUME NEW j \in Jobs
             PROVE  /\ fence'[j].worker <= row'.generation
                    /\ j > created' => /\ fence'[j].lease = 0 /\ fence'[j].attempt = 0
                                       /\ attempt'[j] = NoAttempts /\ snap'[j] = "none"
  BY DEF FenceInv
<1>1. fence[j].worker \in Nat /\ row.generation \in Nat /\ row'.generation \in Nat
      /\ created \in Nat /\ created' \in Nat /\ j \in Nat
  <2>1. row'.generation \in Nat /\ created' \in Nat
    BY ConstantsAssumption DEF Fenced, TypeOK, ConstantsAssumption
  <2> QED BY <2>1, JobTypes DEF LeaseInv, FencingInv
<1>2. fence'[j].worker <= row'.generation
  BY <1>1 DEF LeaseInv, FenceInv
<1>3. ASSUME j > created'
      PROVE  /\ fence'[j].lease = 0 /\ fence'[j].attempt = 0
             /\ attempt'[j] = NoAttempts /\ snap'[j] = "none"
  <2>1. j > created
    BY <1>1, <1>3
  <2>2. SameRow(j)
    BY <2>1 DEF LeaseInv, FencingInv
  <2> QED BY <2>1, <2>2 DEF LeaseInv, FenceInv, SameRow
<1> QED BY <1>2, <1>3

LEMMA SpentKept ==
    ASSUME LeaseInv, row'.generation = row.generation,
           \A k \in Jobs : \/ fence'[k].attempt = fence[k].attempt
                           \/ Spent(k)' <= MaxAttempt
    PROVE  SpentInv'
  BY DEF LeaseInv, SpentInv, Spent

\* The attempts of one job: nothing changes,
LEMMA AttemptStays ==
    ASSUME LeaseInv, NEW k \in Jobs, fence'[k].attempt = fence[k].attempt,
           attempt'[k] = attempt[k],
           \/ state'[k] \notin {"queued", "snapshotting"}
           \/ state'[k] = state[k] /\ snap'[k] = snap[k]
           \/ state'[k] = "snapshotting" /\ CurrentAttempt(k) = "none"
    PROVE  AttemptGood(k)'
  BY DEF LeaseInv, AttemptInv, AttemptGood, UncleanAttempts, CurrentAttempt,
     HasCleanupWork

\* one that is left is cleaned,
LEMMA AttemptCleaned ==
    ASSUME LeaseInv, NEW k \in Jobs, fence'[k].attempt = fence[k].attempt,
           NEW g \in Nat, attempt[k][g] \notin {"none", "cleaned"},
           attempt'[k] = [attempt[k] EXCEPT ![g] = "cleaned"],
           state'[k] = state[k], snap'[k] = snap[k]
    PROVE  AttemptGood(k)'
<1>1. /\ AttemptGood(k) /\ fence[k].attempt \in Nat
      /\ attempt[k] \in [Attempts -> AttemptStates] /\ Attempts \subseteq Nat
      /\ fence[k].attempt \in Attempts
  <2>1. Spent(k) <= MaxAttempt
    BY DEF LeaseInv, SpentInv
  <2>2. AttemptGood(k) /\ TypeOK
    BY DEF LeaseInv, AttemptInv, FencingInv
  <2> QED BY <2>1, <2>2, JobTypes DEF Spent, Attempts
<1>2. \A h \in Attempts : attempt'[k][h] = IF h = g THEN "cleaned" ELSE attempt[k][h]
  BY <1>1
<1>3. \A h \in UncleanAttempts(k)' : h \in UncleanAttempts(k) /\ h # g
  BY <1>1, <1>2 DEF UncleanAttempts
<1>4. CurrentAttempt(k)' = "none" <=> CurrentAttempt(k) = "none"
  BY <1>1, <1>2 DEF CurrentAttempt
<1>5. \A h \in Attempts : h > fence[k].attempt => attempt'[k][h] = "none"
  <2>1. \A h \in Attempts : h > fence[k].attempt => h # g
    BY <1>1 DEF AttemptGood
  <2> QED BY <1>1, <1>2, <2>1 DEF AttemptGood
<1>6. state'[k] = "queued" => ~HasCleanupWork(k)'
  BY <1>1, <1>3 DEF AttemptGood, HasCleanupWork, UncleanAttempts
<1> QED BY <1>1, <1>2, <1>3, <1>4, <1>5, <1>6 DEF AttemptGood

\* the current one is taken further,
LEMMA AttemptMoves ==
    ASSUME LeaseInv, NEW k \in Jobs, fence'[k].attempt = fence[k].attempt,
           CurrentAttempt(k) # "none" \/ UncleanAttempts(k) = {},
           NEW s \in AttemptStates \ {"none"},
           attempt'[k] = [attempt[k] EXCEPT ![fence[k].attempt] = s],
           state'[k] \notin {"queued", "snapshotting"}
    PROVE  AttemptGood(k)' /\ CurrentAttempt(k)' = s
<1>1. /\ AttemptGood(k) /\ fence[k].attempt \in Nat
      /\ attempt[k] \in [Attempts -> AttemptStates] /\ Attempts \subseteq Nat
      /\ fence[k].attempt \in Attempts
  <2>1. Spent(k) <= MaxAttempt
    BY DEF LeaseInv, SpentInv
  <2>2. AttemptGood(k) /\ TypeOK
    BY DEF LeaseInv, AttemptInv, FencingInv
  <2> QED BY <2>1, <2>2, JobTypes DEF Spent, Attempts
<1>2. \A h \in Attempts :
         attempt'[k][h] = IF h = fence[k].attempt THEN s ELSE attempt[k][h]
  BY <1>1
<1>3. \A h \in UncleanAttempts(k)' : h = fence[k].attempt
  BY <1>1, <1>2 DEF UncleanAttempts, AttemptGood
<1> QED BY <1>1, <1>2, <1>3 DEF AttemptGood, CurrentAttempt

\* all are marked,
LEMMA AttemptRetired ==
    ASSUME LeaseInv, NEW k \in Jobs, fence'[k].attempt = fence[k].attempt,
           attempt'[k] = Retired(k), state'[k] # "queued",
           state'[k] = "snapshotting" => state[k] = "snapshotting"
    PROVE  AttemptGood(k)'
<1>1. /\ AttemptGood(k) /\ fence[k].attempt \in Nat
      /\ attempt[k] \in [Attempts -> AttemptStates] /\ Attempts \subseteq Nat
      /\ fence[k].attempt \in Attempts
  <2>1. Spent(k) <= MaxAttempt
    BY DEF LeaseInv, SpentInv
  <2>2. AttemptGood(k) /\ TypeOK
    BY DEF LeaseInv, AttemptInv, FencingInv
  <2> QED BY <2>1, <2>2, JobTypes DEF Spent, Attempts
<1>2. \A h \in Attempts :
         attempt'[k][h] = IF attempt[k][h] \in {"writing", "closed", "verifying"}
                          THEN "retiring" ELSE attempt[k][h]
  BY <1>1 DEF Retired
<1>3. \A h \in UncleanAttempts(k)' : h \in UncleanAttempts(k)
  BY <1>2 DEF UncleanAttempts
<1>4. CurrentAttempt(k)' = "none" <=> CurrentAttempt(k) = "none"
  BY <1>1, <1>2 DEF CurrentAttempt
<1>5. \A h \in Attempts : h > fence'[k].attempt => attempt'[k][h] = "none"
  BY <1>1, <1>2 DEF AttemptGood
<1>6. \A h \in UncleanAttempts(k)' :
        \/ h = fence'[k].attempt
        \/ /\ h + 1 = fence'[k].attempt /\ attempt'[k][h] = "retiring"
           /\ CurrentAttempt(k)' = "none"
  BY <1>1, <1>2, <1>3, <1>4 DEF AttemptGood, UncleanAttempts
<1>7. state'[k] = "snapshotting" => CurrentAttempt(k)' = "none"
  BY <1>1, <1>4 DEF AttemptGood
<1> QED BY <1>5, <1>6, <1>7 DEF AttemptGood

\* or the job goes on with the next one.
LEMMA AttemptNext ==
    ASSUME LeaseInv, NEW k \in Jobs, fence'[k].attempt = fence[k].attempt + 1,
           CurrentAttempt(k) # "none", Spent(k) < MaxAttempt,
           row'.generation = row.generation,
           \/ /\ attempt'[k] = [attempt[k] EXCEPT ![fence[k].attempt] = "retiring"]
              /\ state'[k] # "queued"
           \/ /\ attempt'[k] = attempt[k] /\ CurrentAttempt(k) = "cleaned"
              /\ state'[k] = "queued" => snap'[k] # "candidate"
    PROVE  /\ AttemptGood(k)' /\ CurrentAttempt(k)' = "none" /\ Spent(k)' <= MaxAttempt
           /\ CurrentAttempt(k) = "cleaned" /\ attempt'[k] = attempt[k]
                => UncleanAttempts(k)' = {}
<1> DEFINE f == fence[k].attempt
<1>1. /\ AttemptGood(k) /\ f \in Nat /\ f + 1 \in Attempts
      /\ attempt[k] \in [Attempts -> AttemptStates] /\ Attempts \subseteq Nat
      /\ f \in Attempts /\ Spent(k)' <= MaxAttempt
  <2>1. AttemptGood(k) /\ TypeOK
    BY DEF LeaseInv, AttemptInv, FencingInv
  <2>2. /\ f \in Nat /\ attempt[k] \in [Attempts -> AttemptStates]
        /\ MaxAttempt \in Nat /\ MaxGeneration \in Nat /\ row.generation \in Nat
        /\ row.generation <= MaxGeneration
    BY <2>1, JobTypes
  <2>3. f + (MaxGeneration - row.generation) < MaxAttempt
    BY DEF Spent
  <2>4. Spent(k)' = f + 1 + (MaxGeneration - row.generation)
    BY <2>2 DEF Spent
  <2>5. f \in 0..MaxAttempt /\ f + 1 \in 0..MaxAttempt /\ Spent(k)' <= MaxAttempt
    BY <2>2, <2>3, <2>4
  <2> QED BY <2>1, <2>2, <2>5 DEF Attempts
<1>2. \A h \in Attempts : h # f => attempt'[k][h] = attempt[k][h]
  BY <1>1
<1>3. \A h \in UncleanAttempts(k)' : h = f /\ attempt'[k][h] = "retiring"
  <2>1. \A h \in UncleanAttempts(k) : h = f
    BY <1>1 DEF AttemptGood
  <2>2. attempt'[k][f] \in {"retiring", "cleaned"}
    BY <1>1 DEF CurrentAttempt
  <2> QED BY <1>2, <2>1, <2>2 DEF UncleanAttempts
<1>4. CurrentAttempt(k)' = "none"
  BY <1>1, <1>2 DEF CurrentAttempt, AttemptGood
<1>5. CurrentAttempt(k) = "cleaned" /\ attempt'[k] = attempt[k]
        => UncleanAttempts(k)' = {}
  BY <1>3 DEF CurrentAttempt, UncleanAttempts
<1>6. ASSUME NEW h \in Attempts, h > f + 1 PROVE attempt'[k][h] = "none"
  <2>1. h > f /\ h # f
    BY <1>1, <1>6
  <2> QED BY <1>1, <1>2, <1>6, <2>1 DEF AttemptGood
<1>7. state'[k] = "queued" => ~HasCleanupWork(k)'
  BY <1>5 DEF HasCleanupWork
<1> HIDE DEF f
<1>8. fence'[k].attempt = f + 1
  BY DEF f
<1> QED BY <1>1, <1>3, <1>4, <1>5, <1>6, <1>7, <1>8 DEF AttemptGood

\* One export in progress, one complete for each account.
LEMMA OneKept ==
    ASSUME LeaseInv,
           \A k \in Jobs : /\ state'[k] \in InProgress => state[k] \in InProgress
                           /\ state'[k] = "complete" =>
                                /\ state[k] = "complete"
                                /\ owner'[k] \in {owner[k], NoOwner}
    PROVE  OneInv'
  BY DEF LeaseInv, OneInv

-----------------------------------------------------------------------------
(* Steps of one kind.                                                        *)

\* A worker goes on without a job, or its job ends.
LEMMA WalkStep ==
    ASSUME LeaseInv, Fenced, NEW w \in Workers, Elsewhere(w),
           Live(w) \/ \A k \in Jobs : SameJob(k),
           proc[w].pc \notin {"down", "exiting"},
           proc[w].pc \in Bound => state'[proc[w].held.job] \notin ActiveStates,
           proc'[w].pc \notin Bound,
           proc'[w].pc \in Finding => Sequential(w)',
           proc'[w].generation = proc[w].generation, HeldShape(proc[w])',
           UNCHANGED <<row, created, resume, losses>>,
           \A k \in Jobs : Active(k)' => SameJob(k),
           \A k \in Jobs : SameRow(k) \/ state[k] # "absent",
           \A k \in Jobs : /\ fence'[k].attempt = fence[k].attempt
                           /\ \/ fence'[k].worker = fence[k].worker
                              \/ fence'[k].worker <= row.generation
                           /\ AttemptGood(k)',
           OneInv'
    PROVE  LeaseInv'
<1>1. /\ created \in Nat /\ row.generation \in Nat
      /\ \A k \in Jobs : resume[k] <= losses[k] /\ k # NoJob
  <2>1. created \in Nat /\ row.generation \in Nat
    BY ConstantsAssumption DEF LeaseInv, FencingInv, TypeOK, ConstantsAssumption
  <2> QED BY <2>1, JobTypes DEF LeaseInv, LossInv, FencingInv
<1>2. proc'[w].token = NoLease
  BY DEF Fenced, FencingInv, TokenShape, Bound
<1>3. \A k \in Jobs : Active(k)' => proc[w].token.job # k /\ ~Writes(w, k)
  <2>1. CASE proc[w].pc \in Bound
    <3>1. proc[w].token = proc[w].held
      BY <2>1 DEF LeaseInv, FencingInv, TokenShape, Bound
    <3> QED BY <2>1, <3>1 DEF Writes, Active
  <2>2. CASE proc[w].pc \in Unbound
    BY <2>2, NoToken, UnboundWrites DEF Unbound, Bound
  <2>3. CASE proc[w].pc \in Ended
    <3>1. \A k \in Jobs : Active(k)' => Active(k)
      BY DEF SameJob, Active
    <3> QED BY <2>3, <3>1, NoToken DEF Ended, Bound, Writes, LeaseInv, HeldInv, HeldShape
  <2> QED BY <2>1, <2>2, <2>3, ProcTypes DEF Unbound, Ended, Bound, LeaseInv, FencingInv
<1>4. HeldInv'
  BY <1>1, HeldKept
<1>5. FenceInv'
  BY <1>1, FenceKept
<1>6. AttemptInv' /\ SpentInv'
  BY SpentKept DEF AttemptInv
<1>7. LossInv'
  <2>1. \A j \in Jobs : Active(j)' => /\ Active(j) /\ fence'[j] = fence[j]
                                      /\ ~Writes(w, j)
    BY <1>3 DEF SameJob, SameRow, Active
  <2> QED BY <1>1, <2>1, LossKept
<1>8. WorkerInv'
  <2>1. ASSUME Live(w)' PROVE LeakFree(w)' /\ Solvent(w)' /\ Sequential(w)'
    <3>1. Live(w)
      BY <2>1 DEF Live, WorkerCurrent
    <3>2. \A j \in Jobs : proc'[w].token.job # j
      BY <1>1, <1>2, NoLeaseFields
    <3>3. proc'[w].pc # "work"
      BY DEF Bound
    <3> QED BY <1>3, <3>1, <3>2, <3>3, WalkSound
  <2> QED BY <2>1, AllSound
<1> QED BY <1>4, <1>5, <1>6, <1>7, <1>8 DEF LeaseInv, Fenced

\* A process ends, for whatever reason.
LEMMA DownStep ==
    ASSUME LeaseInv, Fenced, NEW w \in Workers, Becomes(w, Dead),
           proc[w].pc # "down",
           UNCHANGED <<state, owner, attempt, snap, resume, created>>,
           \/ UNCHANGED fence
           \/ /\ Live(w) /\ proc[w].pc \in Ended
              /\ \A k \in Jobs : /\ k # proc[w].held.job => fence'[k] = fence[k]
                                 /\ state[k] = "absent" => fence'[k] = fence[k]
                                 /\ fence'[k].attempt = fence[k].attempt
                                 /\ fence'[k].worker = fence[k].worker,
           row'.generation = row.generation, row'.held => row.held,
           row' = row \/ Live(w),
           \/ LeasesLost({w}) /\ UNCHANGED fence
           \/ UNCHANGED losses /\ \A k \in Jobs : Active(k) => ~Writes(w, k)
    PROVE  LeaseInv'
<1>1. proc'[w] = Dead /\ Elsewhere(w)
  BY DEF Becomes, LeaseInv, FencingInv, TypeOK, Elsewhere
<1>2. Dead.pc = "down" /\ Dead.held = NoLease /\ ~Dead.building
  BY DEF Dead
<1>3. /\ created \in Nat /\ row.generation \in Nat
      /\ \A k \in Jobs : resume[k] <= losses[k]
  <2>1. created \in Nat /\ row.generation \in Nat
    BY ConstantsAssumption DEF LeaseInv, FencingInv, TypeOK, ConstantsAssumption
  <2> QED BY <2>1 DEF LeaseInv, LossInv
<1>4. HeldInv'
  BY <1>1, <1>2, <1>3, HeldKept, FreeHeld
<1>5. \A k \in Jobs : /\ fence'[k].attempt = fence[k].attempt
                      /\ fence'[k].worker = fence[k].worker
                      /\ Active(k) => fence'[k] = fence[k]
  BY DEF LeaseInv, HeldInv, HeldShape
<1>6. FenceInv'
  BY <1>3, <1>5, FenceKept DEF SameRow
<1>7. AttemptInv' /\ SpentInv'
  BY <1>5, SpentKept, AttemptStays DEF AttemptInv
<1>8. LossInv'
  <2>1. CASE LeasesLost({w}) /\ UNCHANGED fence
    <3>1. ASSUME NEW v \in Workers, NEW j \in Jobs, Writes(v, j), v # w
          PROVE  Writes(v, j)'
      <4>1. row' = row
        BY <3>1, WriterLive, OneCurrent DEF Live, LeaseInv
      <4> QED BY <1>1, <2>1, <3>1, <4>1 DEF Writes, Current, WorkerCurrent, FenceMatches,
                 Elsewhere
    <3> QED BY <2>1, <3>1, LossCounted
  <2>2. CASE UNCHANGED losses /\ \A k \in Jobs : Active(k) => ~Writes(w, k)
    <3>1. \A j \in Jobs : Active(j)' => /\ Active(j) /\ fence'[j] = fence[j]
                                        /\ ~Writes(w, j)
      BY <1>5, <2>2 DEF Active
    <3> QED BY <1>1, <1>3, <2>2, <3>1, LossKept
  <2> QED BY <2>1, <2>2
<1>9. WorkerInv'
  <2>1. ~Live(w)'
    BY <1>1, <1>2 DEF Live
  <2>2. Live(w) \/ \A j \in Jobs : SameJob(j)
    BY DEF SameJob, SameRow
  <2> QED BY <1>1, <2>1, <2>2, AllSound
<1>10. OneInv'
  BY OneKept
<1> QED BY <1>4, <1>6, <1>7, <1>8, <1>9, <1>10 DEF LeaseInv, Fenced

\* A worker goes on with the job it holds.
LEMMA WorkStep ==
    ASSUME LeaseInv, Fenced, NEW w \in Workers, Elsewhere(w), Working(w),
           NEW j \in Jobs, j = proc[w].held.job,
           proc'[w].pc \in Bound, proc'[w].generation = proc[w].generation,
           proc'[w].held.job = j, proc'[w].building \in BOOLEAN,
           UNCHANGED <<row, created, resume, losses, owner>>,
           \A k \in Jobs : k # j => SameJob(k),
           state'[j] \in InProgress => state[j] \in InProgress,
           state'[j] # "complete",
           fence'[j].worker = fence[j].worker,
           AttemptGood(j)', Spent(j)' <= MaxAttempt,
           CurrentAttempt(j)' # "none" =>
              proc'[w].building \/ Spent(j)' < MaxAttempt,
           proc'[w].pc = "work" /\ proc'[w].building =>
              /\ \/ state'[j] = "snapshotting"
                 \/ CurrentAttempt(j)' \in {"writing", "closed", "verifying", "retiring"}
              /\ state'[j] = "verifying" /\ CurrentAttempt(j)' = "retiring" =>
                   Spent(j)' < MaxAttempt
    PROVE  LeaseInv'
<1>1. /\ proc[w].pc = "work" /\ WorkerCurrent(w) /\ Live(w)
      /\ proc[w].token.job = j /\ Active(j) /\ Writes(w, j)
  BY HeldWrites DEF Working, Current, Live, Bound, LeaseInv
<1>2. /\ created \in Nat /\ row.generation \in Nat /\ j <= created
      /\ \A k \in Jobs : resume[k] <= losses[k] /\ k # NoJob
  <2>1. created \in Nat /\ row.generation \in Nat /\ HeldShape(proc[w])
    BY ConstantsAssumption
       DEF LeaseInv, FencingInv, TypeOK, ConstantsAssumption, HeldInv
  <2> QED BY <2>1, JobTypes DEF LeaseInv, LossInv, FencingInv, HeldShape
<1>3. proc'[w].token = proc'[w].held /\ proc'[w].held # NoLease
  BY DEF Fenced, FencingInv, TokenShape, Bound
<1>4. Writes(w, j)'
  <2>1. WorkerCurrent(w)' /\ proc'[w].pc # "down"
    BY <1>1 DEF WorkerCurrent, Bound
  <2>2. FenceMatches(w, proc[w].held)'
    BY <1>3, <2>1 DEF Fenced, FencingInv, HeartbeatAgreesWithRow
  <2> QED BY <2>1, <2>2 DEF Writes, Current
<1>5. HeldInv'
  <2>1. HeldShape(proc[w])'
    BY <1>2 DEF HeldShape, Bound, Unbound, Ended
  <2> QED BY <1>2, <2>1, HeldKept
<1>6. FenceInv'
  <2>1. state[j] # "absent"
    BY <1>1 DEF Active
  <2> QED BY <1>2, <2>1, FenceKept DEF SameJob, SameRow
<1>7. AttemptInv' /\ SpentInv'
  BY SpentKept, AttemptStays DEF AttemptInv, SameJob, SameRow
<1>8. LossInv'
  <2>1. \A k \in Jobs : k # j => ~Writes(w, k)
    BY DEF Writes
  <2>2. \A k \in Jobs : Active(k)' => \/ Writes(w, k)'
                                      \/ /\ Active(k) /\ fence'[k] = fence[k]
                                         /\ ~Writes(w, k)
    BY <1>4, <2>1 DEF SameJob, SameRow, Active
  <2> QED BY <1>2, <2>2, LossKept
<1>9. WorkerInv'
  <2>1. \A k \in Jobs \ {j} : proc[w].token.job # k
    BY <1>1
  <2>2. LeakFree(w)' /\ Solvent(w)' /\ Sequential(w)'
    BY <1>1, <1>3, <2>1, WorkSound
  <2> QED BY <1>1, <2>2, AllSound
<1>10. OneInv'
  BY OneKept DEF SameJob
<1> QED BY <1>5, <1>6, <1>7, <1>8, <1>9, <1>10 DEF LeaseInv, Fenced

\* A worker claims a job under a new lease.
LEMMA TakeStep ==
    ASSUME LeaseInv, Fenced, NEW w \in Workers, Live(w), proc[w].pc \in ClaimSteps,
           NEW j \in Jobs, Active(j), Active(j)', TakeLease(w, NewLease(j), "work", TRUE),
           UNCHANGED <<row, created, losses, owner, attempt, snap>>,
           \A k \in Jobs : k # j => state'[k] = state[k],
           \/ UNCHANGED state
           \/ /\ CurrentAttempt(j) = "none" /\ state'[j] \in {"snapshotting", "archiving"}
              /\ \A k \in Jobs : state[k] \notin InProgress,
           \A k \in Jobs : resume'[k] <= losses[k] /\ (k # j => resume'[k] = resume[k])
    PROVE  LeaseInv'
<1> DEFINE l == NewLease(j)
           p == [proc[w] EXCEPT !.pc = "work", !.held = l, !.token = l,
                                !.building = FALSE]
<1>1. proc[w] \in Processes /\ l \in LeaseTokens /\ l.job = j
  BY ProcTypes, NewLeaseType DEF NewLease, LeaseInv, FencingInv
<1>2. /\ p.pc = "work" /\ p.held = l /\ p.token = l /\ p.building = FALSE
      /\ p.generation = proc[w].generation
  BY <1>1 DEF Processes
<1>3. proc'[w] = p /\ Elsewhere(w)
  BY DEF TakeLease, Becomes, LeaseInv, FencingInv, TypeOK, Elsewhere
<1> HIDE DEF p, l
<1>4. /\ created \in Nat /\ row.generation \in Nat /\ j <= created
      /\ proc[w].generation <= row.generation
      /\ \A k \in Jobs : proc[w].token.job # k /\ ~Builds(w, k)
  <2>1. created \in Nat /\ row.generation \in Nat
    BY ConstantsAssumption DEF LeaseInv, FencingInv, TypeOK, ConstantsAssumption
  <2>2. j <= created
    BY <2>1, JobTypes DEF LeaseInv, FencingInv, Active
  <2>3. proc[w].generation <= row.generation
    BY DEF LeaseInv, FencingInv, Live
  <2> QED BY <2>1, <2>2, <2>3, NoToken DEF Bound
<1>5. /\ \A k \in Jobs : k # j => fence'[k] = fence[k]
      /\ fence'[j].attempt = fence[j].attempt
      /\ fence'[j].worker = proc[w].generation
  <2>1. fence \in [Jobs -> Fences] /\ fence[j] \in Fences
    BY JobTypes DEF LeaseInv, FencingInv, TypeOK
  <2>2. fence' = [fence EXCEPT ![j] = [fence[j] EXCEPT !.worker = proc[w].generation,
                                                       !.lease = l.lease]]
    BY <1>1 DEF TakeLease, SetFence, l
  <2> QED BY <2>1, <2>2 DEF Fences
<1>6. Writes(w, j)'
  <2>1. WorkerCurrent(w)' /\ proc'[w].pc # "down"
    BY <1>2, <1>3 DEF WorkerCurrent, Live
  <2>2. proc'[w].token # NoLease
    BY <1>1, <1>2, <1>3, NoLeaseFields, JobTypes DEF LeaseInv, FencingInv
  <2>3. FenceMatches(w, proc[w].held)'
    BY <1>2, <1>3, <2>1, <2>2 DEF Fenced, FencingInv, HeartbeatAgreesWithRow
  <2> QED BY <1>1, <1>2, <1>3, <2>1, <2>3 DEF Writes, Current
<1>7. HeldInv'
  <2>1. HeldShape(proc[w])'
    BY <1>1, <1>2, <1>3, <1>4 DEF HeldShape, Bound, Unbound, Ended
  <2> QED BY <1>3, <1>4, <2>1, HeldKept
<1>8. FenceInv'
  <2>1. state[j] # "absent"
    BY DEF Active
  <2> QED BY <1>4, <1>5, <2>1, FenceKept DEF SameRow
<1>9. AttemptInv' /\ SpentInv'
  BY <1>5, SpentKept, AttemptStays DEF AttemptInv
<1>10. LossInv'
  <2>1. \A k \in Jobs : ~Writes(w, k)
    BY UnboundWrites DEF Unbound
  <2>2. \A k \in Jobs : Active(k)' => \/ Writes(w, k)'
                                      \/ /\ Active(k) /\ fence'[k] = fence[k]
                                         /\ resume'[k] = resume[k] /\ ~Writes(w, k)
    BY <1>5, <1>6, <2>1 DEF Active
  <2> QED BY <1>3, <2>2, LossKept
<1>11. WorkerInv'
  <2>1. CurrentAttempt(j)' # "none" => Spent(j)' < MaxAttempt
    <3>1. Solvent(w)
      BY DEF LeaseInv, WorkerInv, Sound
    <3>2. CurrentAttempt(j)' = CurrentAttempt(j) /\ Spent(j)' = Spent(j)
      BY <1>5 DEF CurrentAttempt, Spent
    <3> QED BY <1>4, <3>1, <3>2 DEF Solvent
  <2>2. \A k \in Jobs \ {j} : (Active(k)' => SameJob(k)) /\ proc[w].token.job # k
    BY <1>4, <1>5 DEF SameJob, SameRow
  <2>3. LeakFree(w)' /\ Solvent(w)' /\ Sequential(w)'
    BY <1>1, <1>2, <1>3, <2>1, <2>2, WorkSound DEF Bound
  <2> QED BY <1>3, <2>3, AllSound
<1>12. OneInv'
  <2>1. CASE UNCHANGED state
    BY <2>1, OneKept
  <2>2. CASE ~UNCHANGED state
    BY <2>2 DEF OneInv, LeaseInv
  <2> QED BY <2>1, <2>2
<1> QED BY <1>7, <1>8, <1>9, <1>10, <1>11, <1>12 DEF LeaseInv, Fenced

-----------------------------------------------------------------------------
(* The actions. *)

\* What the assignments to a process do.
Stays(w) ==
    /\ proc'[w].generation = proc[w].generation /\ proc'[w].held = proc[w].held
    /\ proc'[w].building = proc[w].building
    /\ Elsewhere(w)

LEMMA GotoEffect ==
    ASSUME TypeOK, NEW w \in Workers, NEW pc, Goto(w, pc)
    PROVE  proc'[w].pc = pc /\ proc'[w].token = proc[w].token /\ Stays(w)
<1>1. proc[w] \in Processes /\ proc \in [Workers -> Processes]
  BY DEF TypeOK
<1>2. proc'[w] = [proc[w] EXCEPT !.pc = pc] /\ Elsewhere(w)
  BY <1>1 DEF Goto, Becomes, Elsewhere
<1> QED BY <1>1, <1>2 DEF Stays, Processes

LEMMA WorkedEffect ==
    ASSUME TypeOK, NEW w \in Workers, NEW pc, NEW b,
           Becomes(w, [proc[w] EXCEPT !.pc = pc, !.worked = b])
    PROVE  proc'[w].pc = pc /\ proc'[w].token = proc[w].token /\ Stays(w)
<1>1. proc[w] \in Processes /\ proc \in [Workers -> Processes]
  BY DEF TypeOK
<1>2. proc'[w] = [proc[w] EXCEPT !.pc = pc, !.worked = b] /\ Elsewhere(w)
  BY <1>1 DEF Becomes, Elsewhere
<1> QED BY <1>1, <1>2 DEF Stays, Processes

LEMMA BuildingEffect ==
    ASSUME TypeOK, NEW w \in Workers, NEW b,
           Becomes(w, [proc[w] EXCEPT !.building = b])
    PROVE  /\ proc'[w].pc = proc[w].pc /\ proc'[w].token = proc[w].token
           /\ proc'[w].generation = proc[w].generation
           /\ proc'[w].held = proc[w].held /\ proc'[w].building = b
           /\ Elsewhere(w)
<1>1. proc[w] \in Processes /\ proc \in [Workers -> Processes]
  BY DEF TypeOK
<1>2. proc'[w] = [proc[w] EXCEPT !.building = b] /\ Elsewhere(w)
  BY <1>1 DEF Becomes, Elsewhere
<1> QED BY <1>1, <1>2 DEF Processes

LEMMA ForgetEffect ==
    ASSUME TypeOK, NEW w \in Workers, NEW pc, Forget(w, pc)
    PROVE  /\ proc'[w].pc = pc /\ proc'[w].generation = proc[w].generation
           /\ proc'[w].token = NoLease /\ proc'[w].held = NoLease
           /\ proc'[w].building = FALSE /\ Elsewhere(w)
<1>1. proc[w] \in Processes /\ proc \in [Workers -> Processes]
  BY DEF TypeOK
<1>2. /\ proc'[w] = [proc[w] EXCEPT !.pc = pc, !.held = NoLease, !.token = NoLease,
                                    !.building = FALSE]
      /\ Elsewhere(w)
  BY <1>1 DEF Forget, Becomes, Elsewhere
<1> QED BY <1>1, <1>2 DEF Processes

\* What _fail_locked leaves.
LEMMA FailLockedEffect ==
    ASSUME LeaseInv, NEW j \in Jobs, FailLocked(j)
    PROVE  /\ UNCHANGED <<owner, resume>> /\ state'[j] = "failed"
           /\ \A k \in Jobs : k # j => SameJob(k)
           /\ \A k \in Jobs : /\ fence'[k].attempt = fence[k].attempt
                              /\ fence'[k].worker = fence[k].worker
                              /\ AttemptGood(k)'
<1>1. /\ fence \in [Jobs -> Fences] /\ fence[j] \in Fences
      /\ state \in [Jobs -> JobStates]
      /\ attempt \in [Jobs -> [Attempts -> AttemptStates]]
  BY JobTypes DEF LeaseInv, FencingInv, TypeOK
<1>2. /\ state' = [state EXCEPT ![j] = "failed"]
      /\ fence' = [fence EXCEPT ![j] = [fence[j] EXCEPT !.lease = 0]]
      /\ attempt' = [attempt EXCEPT ![j] = Retired(j)]
      /\ UNCHANGED <<owner, resume, snap>>
  BY DEF FailLocked, SetFence, Released
<1>3. \A k \in Jobs : k # j => SameJob(k)
  BY <1>1, <1>2 DEF SameJob, SameRow
<1>4. /\ fence'[j].attempt = fence[j].attempt /\ fence'[j].worker = fence[j].worker
      /\ attempt'[j] = Retired(j) /\ state'[j] = "failed"
  BY <1>1, <1>2 DEF Fences
<1>5. AttemptGood(j)'
  BY <1>4, AttemptRetired
<1>6. \A k \in Jobs : AttemptGood(k)'
  BY <1>3, <1>5, AttemptStays DEF SameJob, SameRow
<1> QED BY <1>2, <1>3, <1>4, <1>6 DEF SameJob, SameRow

\* A process that holds no job fails one.
LEMMA FailStep ==
    ASSUME LeaseInv, Fenced, NEW w \in Workers, Live(w),
           proc[w].pc \in Unbound \ {"exiting"}, NEW j \in Jobs, Active(j),
           FailLocked(j), Goto(w, "idle"), UNCHANGED <<row, created, losses>>
    PROVE  LeaseInv'
<1>0. TypeOK /\ created \in Nat /\ Unbound \cap Bound = {}
  BY ConstantsAssumption
     DEF LeaseInv, FencingInv, TypeOK, ConstantsAssumption, Unbound, Bound
<1>1. proc'[w].pc = "idle" /\ Stays(w) /\ proc[w].building = FALSE
  BY <1>0, GotoEffect, NoToken
<1>2. HeldShape(proc[w])'
  BY <1>0, <1>1, HeldStays DEF Stays
<1>3. /\ UNCHANGED <<owner, resume>> /\ state'[j] = "failed"
      /\ \A k \in Jobs : k # j => SameJob(k)
      /\ \A k \in Jobs : /\ fence'[k].attempt = fence[k].attempt
                         /\ fence'[k].worker = fence[k].worker
                         /\ AttemptGood(k)'
  BY FailLockedEffect
<1>4. OneInv'
  BY <1>3, OneKept DEF SameJob
<1>5. /\ \A k \in Jobs : Active(k)' => SameJob(k)
      /\ \A k \in Jobs : SameRow(k) \/ state[k] # "absent"
  BY <1>3 DEF Active, SameJob
<1>6. /\ proc[w].pc \notin Bound /\ proc'[w].pc \notin Bound \cup Finding
      /\ proc[w].pc \notin {"down", "exiting"} /\ Elsewhere(w)
      /\ proc'[w].generation = proc[w].generation
  BY <1>0, <1>1 DEF Unbound, Bound, Finding, Stays, Live
<1> QED BY <1>2, <1>3, <1>4, <1>5, <1>6, WalkStep

\* A process that holds no job goes on and leaves the jobs alone.
LEMMA IdleStep ==
    ASSUME LeaseInv, Fenced, NEW w \in Workers,
           proc[w].pc \in (Unbound \cup Ended) \ {"down", "exiting"},
           \/ proc[w].pc \in Unbound /\ proc'[w].pc \in Unbound
           \/ proc'[w].pc \in Ended,
           Stays(w), proc'[w].pc \in Finding => Sequential(w)',
           UNCHANGED <<row, created, losses, resume, owner>>,
           Live(w) \/ \A k \in Jobs : SameJob(k),
           \A k \in Jobs :
              \/ SameJob(k)
              \/ /\ state'[k] \notin ActiveStates \cup {"complete"}
                 /\ state[k] \notin ActiveStates \cup {"absent"}
                 /\ fence'[k].attempt = fence[k].attempt
                 /\ fence'[k].worker = fence[k].worker
                 /\ AttemptGood(k)'
    PROVE  LeaseInv'
<1>0. created \in Nat /\ Unbound \cap Bound = {} /\ Ended \cap Bound = {}
  BY ConstantsAssumption
     DEF LeaseInv, FencingInv, TypeOK, ConstantsAssumption, Unbound, Bound, Ended
<1>1. proc[w].building = FALSE
  BY <1>0, NoToken
<1>2. HeldShape(proc[w])'
  BY <1>0, <1>1, HeldStays DEF Stays
<1>3. OneInv'
  BY OneKept DEF SameJob
<1>4. /\ \A k \in Jobs : Active(k)' => SameJob(k)
      /\ \A k \in Jobs : SameRow(k) \/ state[k] # "absent"
      /\ \A k \in Jobs : /\ fence'[k].attempt = fence[k].attempt
                         /\ fence'[k].worker = fence[k].worker
                         /\ AttemptGood(k)'
  BY AttemptStays DEF Active, SameJob, SameRow
<1> QED BY <1>0, <1>1, <1>2, <1>3, <1>4, WalkStep DEF Stays

\* The environment changes no process, lease or attempt.
LEMMA EnvironmentStep ==
    ASSUME LeaseInv, Fenced, created' >= created,
           UNCHANGED <<row, proc, fence, attempt, snap, resume, losses>>,
           \A k \in Jobs : Active(k)' =>
              state'[k] = state[k] \/ (state'[k] = "queued" /\ k > created /\ k <= created'),
           \A k \in Jobs : state'[k] = "complete" =>
              state[k] = "complete" /\ owner'[k] \in {owner[k], NoOwner}
    PROVE  LeaseInv'
<1>1. HeldInv'
  <2>1. ASSUME NEW w \in Workers PROVE HeldShape(proc[w])'
    <3>1. HeldShape(proc[w]) /\ proc[w].pc \in Unbound \cup Ended \cup Bound
      BY ProcTypes DEF LeaseInv, HeldInv, FencingInv, Unbound, Ended, Bound
    <3> QED BY <3>1, HeldStays DEF HeldShape
  <2> QED BY <2>1 DEF HeldInv
<1>2. FenceInv'
  <2>1. \A k \in Jobs : SameRow(k)
    BY DEF SameRow
  <2>2. row.generation \in Nat
    BY ConstantsAssumption DEF LeaseInv, FencingInv, TypeOK, ConstantsAssumption
  <2> QED BY <2>1, <2>2, FenceKept
<1>3. \A k \in Jobs :
        \/ state'[k] \notin ActiveStates
        \/ state'[k] = state[k]
        \/ /\ state'[k] = "queued" /\ fence[k].lease = 0 /\ CurrentAttempt(k) = "none"
           /\ ~HasCleanupWork(k) /\ state[k] = "absent"
           /\ \A w \in Workers : proc[w].token.job # k
  <2> SUFFICES ASSUME NEW k \in Jobs, state'[k] = "queued", k > created
               PROVE  /\ fence[k].lease = 0 /\ CurrentAttempt(k) = "none"
                      /\ ~HasCleanupWork(k) /\ state[k] = "absent"
                      /\ \A w \in Workers : proc[w].token.job # k
    BY DEF Active
  <2>1. /\ fence[k].lease = 0 /\ fence[k].attempt = 0 /\ attempt[k] = NoAttempts
        /\ snap[k] = "none" /\ state[k] = "absent"
    BY DEF LeaseInv, FenceInv, FencingInv
  <2>2. 0 \in Attempts
    BY ConstantsAssumption DEF Attempts, ConstantsAssumption
  <2>3. CurrentAttempt(k) = "none" /\ ~HasCleanupWork(k)
    BY <2>1, <2>2 DEF CurrentAttempt, HasCleanupWork, UncleanAttempts, NoAttempts
  <2>4. ASSUME NEW w \in Workers PROVE proc[w].token.job # k
    <3>1. proc[w].token = proc[w].held \/ proc[w].token = NoLease
      BY DEF LeaseInv, FencingInv, TokenShape
    <3>2. proc[w].held.job <= created /\ proc[w].held.job \in Nat /\ created \in Nat
      BY ProcTypes, JobTypes DEF LeaseInv, HeldInv, HeldShape, FencingInv
    <3> QED BY <3>1, <3>2, NoLeaseFields, JobTypes DEF LeaseInv, FencingInv
  <2> QED BY <2>1, <2>3, <2>4
<1>4. AttemptInv' /\ SpentInv'
  <2>1. ASSUME NEW k \in Jobs PROVE AttemptGood(k)'
    <3>1. CASE state'[k] = state[k] \/ state'[k] \notin ActiveStates
      BY <3>1, AttemptStays
    <3>2. CASE state'[k] = "queued" /\ CurrentAttempt(k) = "none" /\ ~HasCleanupWork(k)
      BY <3>2 DEF LeaseInv, AttemptInv, AttemptGood, CurrentAttempt, UncleanAttempts,
         HasCleanupWork
    <3> QED BY <1>3, <3>1, <3>2
  <2> QED BY <2>1, SpentKept DEF AttemptInv
<1>5. LossInv'
  <2>1. ASSUME NEW j \in Jobs, Active(j)', fence'[j].lease # 0,
               \A v \in Workers : ~Writes(v, j)'
        PROVE  resume'[j] < losses'[j]
    <3>1. state'[j] = state[j]
      BY <1>3, <2>1 DEF Active
    <3>2. \A v \in Workers : ~Writes(v, j)
      BY <2>1, <3>1 DEF Writes, Current, WorkerCurrent, FenceMatches
    <3> QED BY <2>1, <3>1, <3>2 DEF LeaseInv, LossInv, Uncharged, Active
  <2> QED BY <2>1 DEF LeaseInv, LossInv, Uncharged
<1>6. WorkerInv'
  <2> SUFFICES ASSUME NEW w \in Workers, Live(w)'
               PROVE  LeakFree(w)' /\ Solvent(w)' /\ Sequential(w)'
    BY DEF WorkerInv, Sound
  <2>1. Live(w)
    BY DEF Live, WorkerCurrent
  <2>2. \A j \in Jobs : Active(j)' =>
          SameJob(j) \/ (Fresh(j) /\ proc'[w].token.job # j)
    BY <1>3 DEF SameJob, SameRow, Fresh, Active, CurrentAttempt
  <2> QED BY <2>1, <2>2, WalkSound
<1>7. OneInv'
  <2>1. \A k \in Jobs : state'[k] \in InProgress => state[k] \in InProgress
    BY DEF Active
  <2> QED BY <2>1, OneKept
<1> QED BY <1>1, <1>2, <1>4, <1>5, <1>6, <1>7 DEF LeaseInv, Fenced

LEMMA EnvironmentLease ==
    ASSUME LeaseInv, Fenced, Environment
    PROVE  LeaseInv'
<1>1. /\ created \in Nat /\ created + 1 > created /\ created >= created
      /\ \A k \in Jobs : k \in Nat
      /\ state \in [Jobs -> JobStates] /\ owner \in [Jobs -> Owners \cup {NoOwner}]
  BY ConstantsAssumption, JobTypes
     DEF LeaseInv, FencingInv, TypeOK, ConstantsAssumption
<1>2. ASSUME NEW o \in Owners, CreateJob(o) PROVE LeaseInv'
  <2>1. /\ created' = created + 1
        /\ UNCHANGED <<row, proc, fence, attempt, snap, resume, losses>>
        /\ owner' = [owner EXCEPT ![created + 1] = o]
    BY <1>2 DEF CreateJob
  <2>2. \A k \in Jobs : \/ state'[k] = "queued" /\ k = created + 1
                        \/ state'[k] = "absent"
                        \/ state'[k] = state[k] /\ k # created + 1
    BY <1>2 DEF CreateJob
  <2>3. \A k \in Jobs : k # created + 1 => owner'[k] = owner[k]
    BY <1>1, <2>1
  <2>4. \A k \in Jobs : Active(k)' =>
           state'[k] = state[k] \/ (state'[k] = "queued" /\ k > created /\ k <= created')
    BY <1>1, <2>1, <2>2 DEF Active
  <2>5. \A k \in Jobs : state'[k] = "complete" =>
           state[k] = "complete" /\ owner'[k] \in {owner[k], NoOwner}
    BY <2>2, <2>3
  <2>6. created' >= created
    BY <1>1, <2>1
  <2> QED BY <2>1, <2>4, <2>5, <2>6, EnvironmentStep
<1>3. ASSUME UNCHANGED <<row, proc, fence, attempt, snap, resume, losses, created>>,
             \A k \in Jobs : /\ state'[k] = state[k] \/ state'[k] = "expired"
                             /\ owner'[k] \in {owner[k], NoOwner}
      PROVE  LeaseInv'
  <2>1. \A k \in Jobs : Active(k)' => state'[k] = state[k]
    BY <1>3 DEF Active
  <2>2. \A k \in Jobs : state'[k] = "complete" =>
           state[k] = "complete" /\ owner'[k] \in {owner[k], NoOwner}
    BY <1>3
  <2>3. created' >= created /\ UNCHANGED <<row, proc, fence, attempt, snap, resume, losses>>
    BY <1>1, <1>3
  <2> QED BY <2>1, <2>2, <2>3, EnvironmentStep
<1>4. ASSUME NEW o \in Owners, DeleteOwner(o) PROVE LeaseInv'
  <2>1. UNCHANGED <<row, proc, fence, attempt, snap, resume, losses, created, state>>
    BY <1>4 DEF DeleteOwner
  <2>2. \A k \in Jobs : owner'[k] \in {owner[k], NoOwner}
    BY <1>4 DEF DeleteOwner
  <2> QED BY <1>3, <2>1, <2>2
<1>5. ASSUME NEW j \in Jobs, TimePasses(j) PROVE LeaseInv'
  BY <1>3, <1>5 DEF TimePasses
<1>6. ASSUME NEW j \in Jobs, NEW c, DownloadExpires(j, c) PROVE LeaseInv'
  <2>1. /\ UNCHANGED <<row, proc, fence, attempt, snap, resume, losses, created, owner>>
        /\ state' = [state EXCEPT ![j] = "expired"]
    BY <1>6 DEF DownloadExpires
  <2>2. \A k \in Jobs : state'[k] = state[k] \/ state'[k] = "expired"
    BY <1>1, <2>1
  <2> QED BY <1>3, <2>1, <2>2
<1> QED BY <1>2, <1>4, <1>5, <1>6 DEF Environment

\* The lives of the processes.
LEMMA AcquireLease ==
    ASSUME LeaseInv, Fenced, NEW w \in Workers, AcquireWorkerLease(w)
    PROVE  LeaseInv'
<1> DEFINE p == [Dead EXCEPT !.pc = "idle", !.generation = NextGeneration]
<1>1. /\ p.pc = "idle" /\ p.token = NoLease /\ p.held = NoLease
      /\ p.generation = row.generation + 1 /\ p.building = FALSE
  BY DEF Dead, NextGeneration
<1>2. /\ proc'[w] = p /\ Elsewhere(w) /\ row'.generation = row.generation + 1
      /\ UNCHANGED <<state, owner, fence, resume, snap, attempt, created>>
      /\ LeasesLost(Workers) /\ proc[w].pc = "down"
  BY DEF AcquireWorkerLease, NextGeneration, Becomes, LeaseInv, FencingInv, TypeOK,
     Elsewhere, jobVars
<1> HIDE DEF p
<1>3. row.generation \in Nat /\ created \in Nat /\ MaxGeneration \in Nat /\ MaxAttempt \in Nat
  BY ConstantsAssumption DEF LeaseInv, FencingInv, TypeOK, ConstantsAssumption
<1>4. HeldInv'
  BY <1>1, <1>2, <1>3, HeldKept, FreeHeld
<1>5. FenceInv'
  <2>1. \A k \in Jobs : SameRow(k)
    BY <1>2 DEF SameRow
  <2> QED BY <1>2, <1>3, <2>1, FenceKept
<1>6. AttemptInv' /\ SpentInv' /\ \A k \in Jobs : Spent(k)' < MaxAttempt
  <2>1. \A k \in Jobs : Spent(k) <= MaxAttempt /\ fence[k].attempt \in Nat
    BY JobTypes DEF LeaseInv, SpentInv, FencingInv
  <2>2. \A k \in Jobs : Spent(k)' < MaxAttempt
    BY <1>2, <1>3, <2>1 DEF Spent
  <2>3. AttemptInv'
    BY <1>2, AttemptStays DEF AttemptInv
  <2>4. \A k \in Jobs : Spent(k)' \in Int
    BY <1>2, <1>3, <2>1 DEF Spent
  <2> QED BY <1>3, <2>2, <2>3, <2>4 DEF SpentInv
<1>7. LossInv'
  BY <1>2, LossCounted
<1>8. WorkerInv'
  <2> SUFFICES ASSUME NEW v \in Workers, Live(v)'
               PROVE  LeakFree(v)' /\ Solvent(v)' /\ Sequential(v)'
    BY DEF WorkerInv, Sound
  <2>1. v = w
    <3>1. CASE v # w
      <4>1. proc'[v] = proc[v] /\ proc[v].pc # "down"
        BY <1>2, <3>1 DEF Elsewhere, Live
      <4>2. TypeOK /\ proc[v].generation <= row.generation
        BY <4>1 DEF LeaseInv, FencingInv
      <4>3. proc[v].generation \in Nat
        BY <4>2, ProcTypes
      <4>4. row'.generation = proc'[v].generation
        BY DEF Live, WorkerCurrent
      <4> QED BY <1>2, <1>3, <4>1, <4>2, <4>3, <4>4
    <3> QED BY <3>1
  <2>2. LeakFree(w)'
    <3>1. \A j \in Jobs : fence[j].worker <= row.generation /\ fence[j].worker \in Nat
      BY JobTypes DEF LeaseInv, FenceInv, FencingInv
    <3>2. \A j \in Jobs : fence'[j].worker # proc'[w].generation
      BY <1>1, <1>2, <1>3, <3>1
    <3> QED BY <3>2 DEF LeakFree, Stale
  <2>3. Solvent(w)'
    BY <1>1, <1>2, <1>6 DEF Solvent, Builds
  <2>4. Sequential(w)'
    BY <1>1, <1>2 DEF Sequential
  <2> QED BY <2>1, <2>2, <2>3, <2>4
<1>9. OneInv'
  BY <1>2, OneKept
<1> QED BY <1>4, <1>5, <1>6, <1>7, <1>8, <1>9 DEF LeaseInv, Fenced

LEMMA LifeLease ==
    ASSUME LeaseInv, Fenced, NEW w \in Workers,
           \/ Crash(w) \/ ExitLost(w) \/ StorageFailure(w) \/ StopIdle(w)
           \/ ReleaseWorkerLease(w) \/ WakeUp(w)
    PROVE  LeaseInv'
<1>1. /\ UNCHANGED <<state, owner, fence, resume, snap, attempt, created>>
      /\ \A k \in Jobs : SameJob(k)
  BY DEF Crash, ExitLost, StorageFailure, StopIdle, ReleaseWorkerLease, WakeUp,
     jobVars, SameJob, SameRow
<1>2. /\ row'.generation = row.generation /\ (row'.held => row.held)
      /\ row' = row \/ WorkerCurrent(w)
  <2>1. row \in [generation: 0..MaxGeneration, held: BOOLEAN,
                 health: {"stopped", "ready", "failed"}]
    BY DEF LeaseInv, FencingInv, TypeOK
  <2>2. \/ row' = row
        \/ WorkerCurrent(w) /\ \E h : row' = [row EXCEPT !.held = FALSE, !.health = h]
    BY DEF Crash, ExitLost, StorageFailure, StopIdle, ReleaseWorkerLease, WakeUp
  <2> QED BY <2>1, <2>2
<1>3. CASE Crash(w) \/ StorageFailure(w)
  BY <1>1, <1>2, <1>3, DownStep DEF Crash, StorageFailure, Live
<1>4. CASE ExitLost(w)
  <2>1. ASSUME NEW k \in Jobs, Writes(w, k) PROVE FALSE
    <3>1. WorkerCurrent(w) /\ proc[w].token # NoLease /\ ~FenceMatches(w, proc[w].token)
          /\ proc[w].pc # "down"
      BY <1>4, <2>1 DEF ExitLost, Writes, Current
    <3> QED BY <3>1 DEF LeaseInv, FencingInv, HeartbeatAgreesWithRow
  <2> QED BY <1>1, <1>2, <1>4, <2>1, DownStep DEF ExitLost, Live
<1>5. CASE ReleaseWorkerLease(w)
  <2>1. \A k \in Jobs : ~Writes(w, k)
    BY <1>5, UnboundWrites DEF ReleaseWorkerLease, Unbound
  <2> QED BY <1>1, <1>2, <1>5, <2>1, DownStep DEF ReleaseWorkerLease, Live
<1>6. CASE StopIdle(w)
  <2>1. proc'[w].pc = "exiting" /\ Stays(w) /\ UNCHANGED <<row, losses>>
        /\ proc[w].pc \in {"idle"} \cup MaintenanceSteps \cup ClaimSteps
    BY <1>6, GotoEffect DEF StopIdle, LeaseInv, FencingInv
  <2>2. /\ proc[w].pc \in Unbound \ {"down", "exiting"}
        /\ proc'[w].pc \in Unbound /\ proc'[w].pc \notin Finding
    BY <2>1 DEF Unbound, Finding
  <2> QED BY <1>1, <2>1, <2>2, IdleStep
<1>7. CASE WakeUp(w)
  <2>1. proc'[w].pc = "ownerless" /\ Stays(w) /\ UNCHANGED <<row, losses>>
        /\ proc[w].pc = "idle"
    BY <1>7, WorkedEffect DEF WakeUp, LeaseInv, FencingInv
  <2>2. /\ proc[w].pc \in Unbound \ {"down", "exiting"}
        /\ proc'[w].pc \in Unbound /\ proc'[w].pc \notin Finding
    BY <2>1 DEF Unbound, Finding
  <2> QED BY <1>1, <2>1, <2>2, IdleStep
<1> QED BY <1>3, <1>4, <1>5, <1>6, <1>7

\* The maintenance of jobs that have ended.
LEMMA MaintenanceGoes ==
    ASSUME LeaseInv, Fenced, NEW w \in Workers, Live(w),
           proc[w].pc \in MaintenanceSteps, Stays(w),
           proc'[w].pc \in Unbound \ Finding,
           UNCHANGED <<row, created, losses, resume, owner>>,
           \A k \in Jobs :
              \/ SameJob(k)
              \/ /\ state'[k] \notin ActiveStates \cup {"complete"}
                 /\ state[k] \notin ActiveStates \cup {"absent"}
                 /\ fence'[k].attempt = fence[k].attempt
                 /\ fence'[k].worker = fence[k].worker
                 /\ AttemptGood(k)'
    PROVE  LeaseInv'
<1>1. /\ proc[w].pc \in (Unbound \cup Ended) \ {"down", "exiting"}
      /\ proc[w].pc \in Unbound /\ proc'[w].pc \in Unbound /\ proc'[w].pc \notin Finding
  BY DEF Unbound
<1> QED BY <1>1, IdleStep

LEMMA OldestIsMember ==
    ASSUME NEW S, NEW j \in Jobs, IsOldest(j, S)
    PROVE  j \in S
  BY DEF IsOldest

LEMMA MaintenanceLease ==
    ASSUME LeaseInv, Fenced, NEW w \in Workers, Maintenance(w) \/ CleanupPutOff(w)
    PROVE  LeaseInv'
<1>0. /\ TypeOK /\ created \in Nat
      /\ state \in [Jobs -> JobStates] /\ snap \in [Jobs -> {"none", "candidate", "confirmed"}]
      /\ attempt \in [Jobs -> [Attempts -> AttemptStates]] /\ Attempts \subseteq Nat
  BY ConstantsAssumption
     DEF LeaseInv, FencingInv, TypeOK, ConstantsAssumption, Attempts
<1>1. CASE TerminalizeOwnerless(w)
  <2>1. /\ Live(w) /\ proc[w].pc = "ownerless" /\ UNCHANGED <<row, created, losses>>
    BY <1>1 DEF TerminalizeOwnerless, Live
  <2>2. CASE Goto(w, "complete") /\ UNCHANGED jobVars
    <3>1. proc'[w].pc = "complete" /\ Stays(w)
      BY <1>0, <2>2, GotoEffect
    <3>2. UNCHANGED <<resume, owner>> /\ \A k \in Jobs : SameJob(k)
      BY <2>2 DEF jobVars, SameJob, SameRow
    <3> QED BY <2>1, <3>1, <3>2, MaintenanceGoes DEF Unbound, Finding
  <2>3. ASSUME NEW j \in Jobs, IsFirst(j, Ownerless), FailLocked(j), Goto(w, "idle")
        PROVE  LeaseInv'
    <3>1. Active(j)
      BY <2>3, FirstIsMember DEF Ownerless, Active
    <3> QED BY <2>1, <2>3, <3>1, FailStep DEF Unbound
  <2> QED BY <1>1, <2>2, <2>3 DEF TerminalizeOwnerless
<1>2. CASE ClaimCompleteMaintenance(w)
  <2>1. /\ Live(w) /\ proc[w].pc = "complete"
        /\ UNCHANGED <<row, created, losses, state, owner, resume, snap, attempt>>
    BY <1>2 DEF ClaimCompleteMaintenance, Live
  <2>2. CASE Goto(w, "expire") /\ UNCHANGED fence
    <3>1. proc'[w].pc = "expire" /\ Stays(w)
      BY <1>0, <2>2, GotoEffect
    <3>2. \A k \in Jobs : SameJob(k)
      BY <2>1, <2>2 DEF SameJob, SameRow
    <3> QED BY <2>1, <3>1, <3>2, MaintenanceGoes DEF Unbound, Finding
  <2>3. ASSUME NEW j \in Jobs, IsOldest(j, CompleteMaintenance),
               \/ /\ Becomes(w, [proc[w] EXCEPT !.pc = "finishing", !.held = LeaseOf(j)])
                  /\ UNCHANGED fence
               \/ TakeLease(w, NewLease(j), "finishing", FALSE)
        PROVE  LeaseInv'
    <3>1. state[j] = "complete"
      BY <2>3, OldestIsMember DEF CompleteMaintenance
    <3>2. /\ proc'[w].pc = "finishing" /\ proc'[w].held.job = j
          /\ proc'[w].generation = proc[w].generation
          /\ proc'[w].building \in {FALSE, proc[w].building} /\ Elsewhere(w)
      <4>1. proc[w] \in Processes /\ proc \in [Workers -> Processes]
        BY <1>0 DEF TypeOK
      <4>2. LeaseOf(j).job = j /\ NewLease(j).job = j
        BY DEF LeaseOf, NewLease
      <4>3. CASE Becomes(w, [proc[w] EXCEPT !.pc = "finishing", !.held = LeaseOf(j)])
        <5>1. /\ proc'[w] = [proc[w] EXCEPT !.pc = "finishing", !.held = LeaseOf(j)]
              /\ Elsewhere(w)
          BY <4>1, <4>3 DEF Becomes, Elsewhere
        <5> QED BY <4>1, <4>2, <5>1 DEF Processes
      <4>4. CASE TakeLease(w, NewLease(j), "finishing", FALSE)
        <5>1. /\ proc'[w] = [proc[w] EXCEPT !.pc = "finishing", !.held = NewLease(j),
                                            !.token = NoLease, !.building = FALSE]
              /\ Elsewhere(w)
          BY <4>1, <4>4 DEF TakeLease, Becomes, Elsewhere
        <5> QED BY <4>1, <4>2, <5>1 DEF Processes
      <4> QED BY <2>3, <4>3, <4>4
    <3>3. proc[w].building = FALSE /\ proc[w].generation <= row.generation
          /\ j <= created
      <4>1. proc[w].building = FALSE
        BY <2>1, NoToken DEF Bound
      <4>2. j <= created
        BY <1>0, <3>1, JobTypes DEF LeaseInv, FencingInv
      <4> QED BY <2>1, <4>1, <4>2 DEF LeaseInv, FencingInv
    <3>4. HeldShape(proc[w])'
      BY <2>1, <3>1, <3>2, <3>3 DEF HeldShape, Active, Unbound, Ended
    <3>5. \A k \in Jobs : /\ k # j => fence'[k] = fence[k]
                          /\ fence'[k].attempt = fence[k].attempt
                          /\ \/ fence'[k].worker = fence[k].worker
                             \/ fence'[k].worker <= row.generation
      <4>1. fence \in [Jobs -> Fences] /\ fence[j] \in Fences
        BY <1>0, JobTypes DEF TypeOK
      <4>2. CASE UNCHANGED fence
        BY <4>2
      <4>3. CASE TakeLease(w, NewLease(j), "finishing", FALSE)
        <5> DEFINE f == [fence[j] EXCEPT !.worker = proc[w].generation,
                                         !.lease = NewLease(j).lease]
        <5>1. NewLease(j).job = j
          BY DEF NewLease
        <5>2. fence' = [fence EXCEPT ![j] = f]
          BY <4>3, <5>1 DEF TakeLease, SetFence
        <5>3. f.attempt = fence[j].attempt /\ f.worker = proc[w].generation
          BY <4>1 DEF Fences
        <5> HIDE DEF f
        <5> QED BY <3>3, <4>1, <5>2, <5>3
      <4> QED BY <2>3, <4>2, <4>3
    <3>6. \A k \in Jobs : AttemptGood(k)'
      BY <2>1, <3>5, AttemptStays
    <3>7. OneInv'
      BY <2>1, OneKept
    <3>8. /\ \A k \in Jobs : Active(k)' => SameJob(k)
          /\ \A k \in Jobs : SameRow(k) \/ state[k] # "absent"
      BY <2>1, <3>1, <3>5 DEF Active, SameJob, SameRow
    <3> QED BY <2>1, <3>2, <3>4, <3>5, <3>6, <3>7, <3>8, WalkStep DEF Bound, Finding
  <2> QED BY <1>2, <2>2, <2>3 DEF ClaimCompleteMaintenance
<1>3. CASE ExpireComplete(w)
  <2>1. /\ Live(w) /\ proc[w].pc = "expire"
        /\ UNCHANGED <<row, created, losses, owner, fence, resume, snap, attempt>>
    BY <1>3 DEF ExpireComplete, Live
  <2>2. proc'[w].pc = "ready" /\ Stays(w)
    BY <1>0, <1>3, WorkedEffect DEF ExpireComplete
  <2>3. \A k \in Jobs : \/ state'[k] = state[k]
                        \/ state[k] = "complete" /\ state'[k] = "expired"
    BY <1>3 DEF ExpireComplete, Expirable
  <2>4. \A k \in Jobs : AttemptGood(k)'
    BY <2>1, <2>3, AttemptStays
  <2> QED BY <2>1, <2>2, <2>3, <2>4, MaintenanceGoes DEF Unbound, Finding, SameJob, SameRow
<1>4. CASE CleanupOneReady(w)
  <2>1. /\ Live(w) /\ proc[w].pc = "ready"
        /\ UNCHANGED <<row, created, losses, state, owner, fence, resume, snap, attempt>>
    BY <1>4 DEF CleanupOneReady, Live
  <2>2. proc'[w].pc = "staging" /\ Stays(w)
    BY <1>0, <1>4, WorkedEffect, GotoEffect DEF CleanupOneReady
  <2> QED BY <2>1, <2>2, MaintenanceGoes DEF Unbound, Finding, SameJob, SameRow
<1>5. CASE CleanupTerminalStaging(w)
  <2>1. /\ Live(w) /\ proc[w].pc = "staging"
        /\ UNCHANGED <<row, created, losses, state, owner, fence, resume>>
    BY <1>5 DEF CleanupTerminalStaging, Live
  <2>2. proc'[w].pc = "orphans" /\ Stays(w)
    BY <1>0, <1>5, WorkedEffect, GotoEffect DEF CleanupTerminalStaging
  <2>3. \/ UNCHANGED <<attempt, snap>>
        \/ \E j \in Jobs :
             /\ state[j] \in {"failed", "expired"}
             /\ \/ \E g \in UncleanAttempts(j) :
                     SetAttempt(j, g, "cleaned") /\ UNCHANGED snap
                \/ UNCHANGED attempt /\ snap' = [snap EXCEPT ![j] = "none"]
    BY <1>5, OldestIsMember DEF CleanupTerminalStaging, StagingWork
  <2>4. CASE UNCHANGED <<attempt, snap>>
    BY <2>1, <2>2, <2>4, MaintenanceGoes DEF Unbound, Finding, SameJob, SameRow
  <2>5. ASSUME NEW j \in Jobs, state[j] \in {"failed", "expired"},
               \/ \E g \in UncleanAttempts(j) :
                    SetAttempt(j, g, "cleaned") /\ UNCHANGED snap
               \/ UNCHANGED attempt /\ snap' = [snap EXCEPT ![j] = "none"]
        PROVE  LeaseInv'
    <3>1. \A k \in Jobs : k # j => SameJob(k)
      BY <1>0, <2>1, <2>5 DEF SetAttempt, SameJob, SameRow
    <3>2. AttemptGood(j)'
      <4>1. CASE UNCHANGED attempt
        BY <2>1, <2>5, <4>1, AttemptStays
      <4>2. ASSUME NEW g \in UncleanAttempts(j), SetAttempt(j, g, "cleaned"), UNCHANGED snap
            PROVE  AttemptGood(j)'
        <5>1. /\ g \in Nat /\ attempt[j][g] \notin {"none", "cleaned"}
              /\ attempt'[j] = [attempt[j] EXCEPT ![g] = "cleaned"]
          BY <1>0, <4>2 DEF SetAttempt, UncleanAttempts
        <5> QED BY <2>1, <4>2, <5>1, AttemptCleaned
      <4> QED BY <2>5, <4>1, <4>2
    <3>3. \A k \in Jobs :
              \/ SameJob(k)
              \/ /\ state'[k] \notin ActiveStates \cup {"complete"}
                 /\ state[k] \notin ActiveStates \cup {"absent"}
                 /\ fence'[k].attempt = fence[k].attempt
                 /\ fence'[k].worker = fence[k].worker
                 /\ AttemptGood(k)'
      BY <2>1, <2>5, <3>1, <3>2
    <3> QED BY <2>1, <2>2, <3>3, MaintenanceGoes DEF Unbound, Finding
  <2> QED BY <2>3, <2>4, <2>5
<1>6. CASE DeleteCleanOrphans(w)
  <2>1. /\ Live(w) /\ proc[w].pc = "orphans"
        /\ UNCHANGED <<row, created, losses, owner, fence, resume, snap, attempt>>
    BY <1>6 DEF DeleteCleanOrphans, Live
  <2>2. proc'[w].pc = "allowed" /\ Stays(w)
    BY <1>0, <1>6, WorkedEffect, GotoEffect DEF DeleteCleanOrphans
  <2>3. \A k \in Jobs : \/ state'[k] = state[k]
                        \/ state[k] \in {"failed", "expired"} /\ state'[k] = "absent"
    BY <1>0, <1>6, OldestIsMember DEF DeleteCleanOrphans, Orphans, Deletable
  <2>4. \A k \in Jobs : AttemptGood(k)'
    BY <2>1, <2>3, AttemptStays
  <2> QED BY <2>1, <2>2, <2>3, <2>4, MaintenanceGoes DEF Unbound, Finding, SameJob, SameRow
<1>7. CASE MaintenanceClaimAllowed(w)
  <2>1. /\ proc[w].pc = "allowed"
        /\ UNCHANGED <<row, created, losses, state, owner, fence, resume, snap, attempt>>
    BY <1>7 DEF MaintenanceClaimAllowed, jobVars
  <2>2. proc'[w].pc \in {"idle", "retiring"} /\ Stays(w)
    BY <1>0, <1>7, GotoEffect DEF MaintenanceClaimAllowed
  <2>3. \A k \in Jobs : SameJob(k)
    BY <2>1 DEF SameJob, SameRow
  <2>4. /\ proc[w].pc \in Unbound \ {"down", "exiting"}
        /\ proc'[w].pc \in Unbound \ Finding
    BY <2>1, <2>2 DEF Unbound, Finding
  <2> QED BY <2>1, <2>2, <2>3, <2>4, IdleStep
<1>8. CASE CleanupPutOff(w)
  <2>1. /\ Live(w) /\ proc[w].pc \in {"ready", "staging"}
        /\ UNCHANGED <<row, created, losses, state, owner, fence, resume, snap, attempt>>
    BY <1>8 DEF CleanupPutOff, Live, jobVars
  <2>2. proc'[w].pc \in {"staging", "orphans"} /\ Stays(w)
    BY <1>0, <1>8, WorkedEffect DEF CleanupPutOff
  <2> QED BY <2>1, <2>2, MaintenanceGoes DEF Unbound, Finding, SameJob, SameRow
<1> QED BY <1>1, <1>2, <1>3, <1>4, <1>5, <1>6, <1>7, <1>8 DEF Maintenance

\* The claims: a worker between two of them holds nothing.
LEMMA ClaimFacts ==
    ASSUME LeaseInv, NEW w \in Workers, Live(w), proc[w].pc \in ClaimSteps
    PROVE  /\ proc[w].pc \in Unbound \ {"down", "exiting"}
           /\ \A j \in Jobs :
                /\ Active(j) => Stale(w, j)
                /\ Active(j) /\ CurrentAttempt(j) # "none" => Spent(j) < MaxAttempt
                /\ proc[w].token.job # j
           /\ Sequential(w)
<1>1. LeakFree(w) /\ Solvent(w) /\ Sequential(w)
  BY DEF LeaseInv, WorkerInv, Sound
<1>2. proc[w].pc \in Unbound \ {"down", "exiting"} /\ proc[w].pc \notin Bound
  BY DEF Unbound, Bound
<1>3. \A j \in Jobs : proc[w].token.job # j /\ ~Builds(w, j)
  BY <1>2, NoToken
<1> QED BY <1>1, <1>2, <1>3 DEF LeakFree, Solvent

LEMMA ClaimFindsNothing ==
    ASSUME LeaseInv, Fenced, NEW w \in Workers, Live(w), proc[w].pc \in ClaimSteps,
           NEW next \in {"idle"} \cup ClaimSteps, Goto(w, next),
           \/ next = "idle"
           \/ next = "verifying" /\ proc[w].pc = "retiring" /\ RetiringWork(w) = {}
           \/ next = "requeue" /\ proc[w].pc = "verifying" /\ VerifyingWork(w) = {}
           \/ next = "retiring2" /\ proc[w].pc = "requeue" /\ RequeueWork(w) = {}
           \/ next = "queued" /\ proc[w].pc = "retiring2",
           UNCHANGED <<row, created, losses, jobVars>>
    PROVE  LeaseInv'
<1>1. /\ proc[w].pc \in Unbound \ {"down", "exiting"} /\ Sequential(w)
      /\ \A j \in Jobs : Active(j) => Stale(w, j)
  BY ClaimFacts
<1>2. proc'[w].pc = next /\ Stays(w)
  BY GotoEffect DEF LeaseInv, FencingInv
<1>3. /\ UNCHANGED <<row, created, losses, resume, owner, state, snap, attempt>>
      /\ \A k \in Jobs : SameJob(k)
  BY DEF jobVars, SameJob, SameRow
<1>4. Sequential(w)'
  <2> SUFFICES ASSUME NEW j \in Jobs, state[j] \in InProgress
               PROVE  /\ next = "verifying" => state[j] = "verifying" \/ ~HasCleanupWork(j)
                      /\ next = "requeue" => state[j] # "verifying" /\ ~HasCleanupWork(j)
                      /\ next \notin {"retiring2", "queued"}
    BY <1>2, <1>3 DEF Sequential, HasCleanupWork, UncleanAttempts
  <2>1. Stale(w, j)
    BY <1>1 DEF Active
  <2>2. CASE next = "verifying"
    BY <2>1, <2>2 DEF RetiringWork
  <2>3. CASE next = "requeue"
    BY <1>1, <2>1, <2>3 DEF VerifyingWork, Sequential
  <2>4. CASE next = "retiring2"
    BY <1>1, <2>1, <2>4 DEF RequeueWork, Sequential
  <2>5. CASE next = "queued"
    BY <1>1, <2>5 DEF Sequential
  <2> QED BY <2>2, <2>3, <2>4, <2>5
<1>5. proc'[w].pc \in Unbound
  BY <1>2 DEF Unbound
<1> QED BY <1>1, <1>2, <1>3, <1>4, <1>5, IdleStep

\* resume_count goes up only for a lease that was lost.
LEMMA CountedResume ==
    ASSUME LeaseInv, NEW w \in Workers, Live(w), NEW j \in Jobs, Active(j),
           CountResume(w, j)
    PROVE  \A k \in Jobs : resume'[k] <= losses[k] /\ (k # j => resume'[k] = resume[k])
<1>1. /\ \A k \in Jobs : resume[k] <= losses[k]
      /\ resume \in [Jobs -> 0..MaxAbnormalResumes]
  BY DEF LeaseInv, LossInv, FencingInv, TypeOK
<1>2. CASE AbnormalTakeover(w, j)
  <2>1. resume[j] + 1 <= losses[j]
    BY <1>2, Charge
  <2> QED BY <1>1, <1>2, <2>1 DEF CountResume
<1>3. CASE ~AbnormalTakeover(w, j)
  BY <1>1, <1>3 DEF CountResume
<1> QED BY <1>2, <1>3

LEMMA RecoveryLease ==
    ASSUME LeaseInv, Fenced, NEW w \in Workers, NEW S, NEW next,
           \/ proc[w].pc = "retiring" /\ next = "verifying" /\ S = RetiringWork(w)
           \/ proc[w].pc = "verifying" /\ next = "requeue" /\ S = VerifyingWork(w)
           \/ proc[w].pc = "retiring2" /\ next = "queued" /\ S = RetiringWork(w),
           ClaimRecovery(w, S, next)
    PROVE  LeaseInv'
<1>1. /\ Live(w) /\ proc[w].pc \in ClaimSteps /\ UNCHANGED <<row, created, losses>>
      /\ proc[w].pc \in Unbound \ {"exiting"} /\ next \in {"idle"} \cup ClaimSteps
  BY DEF ClaimRecovery, Live, Unbound
<1>2. CASE S = {} /\ Goto(w, next) /\ UNCHANGED jobVars
  BY <1>1, <1>2, ClaimFindsNothing
<1>3. ASSUME NEW j \in Jobs, IsFirst(j, S), FailLocked(j), Goto(w, "idle")
      PROVE  LeaseInv'
  <2>1. Active(j)
    BY <1>3, FirstIsMember DEF Active, RetiringWork, VerifyingWork
  <2> QED BY <1>1, <1>3, <2>1, FailStep
<1>4. ASSUME NEW j \in Jobs, IsFirst(j, S), CountResume(w, j),
             TakeLease(w, NewLease(j), "work", TRUE),
             UNCHANGED <<state, owner, snap, attempt>>
      PROVE  LeaseInv'
  <2>1. Active(j) /\ Active(j)'
    BY <1>4, FirstIsMember DEF Active, RetiringWork, VerifyingWork
  <2>2. \A k \in Jobs : resume'[k] <= losses[k] /\ (k # j => resume'[k] = resume[k])
    BY <1>1, <1>4, <2>1, CountedResume
  <2>3. UNCHANGED <<row, created, losses, owner, attempt, snap>> /\ UNCHANGED state
        /\ \A k \in Jobs : k # j => state'[k] = state[k]
    BY <1>1, <1>4
  <2> QED BY <1>1, <1>4, <2>1, <2>2, <2>3, TakeStep
<1> QED BY <1>2, <1>3, <1>4 DEF ClaimRecovery

\* A job that goes back to the queue takes the next attempt generation if the
\* current one was begun and cleaned.
LEMMA AttemptRequeued ==
    ASSUME LeaseInv, NEW j \in Jobs, ~HasCleanupWork(j), state'[j] = "queued",
           fence'[j].attempt = IF CurrentAttempt(j) = "cleaned"
                               THEN fence[j].attempt + 1 ELSE fence[j].attempt,
           CurrentAttempt(j) = "cleaned" => Spent(j) < MaxAttempt,
           attempt'[j] = attempt[j], snap'[j] = snap[j],
           row'.generation = row.generation
    PROVE  AttemptGood(j)' /\ Spent(j)' <= MaxAttempt /\ CurrentAttempt(j)' = "none"
<1>1. CASE CurrentAttempt(j) = "cleaned"
  <2>1. /\ Spent(j) < MaxAttempt /\ fence'[j].attempt = fence[j].attempt + 1
        /\ snap'[j] # "candidate"
    BY <1>1 DEF HasCleanupWork
  <2> QED BY <1>1, <2>1, AttemptNext
<1>2. CASE CurrentAttempt(j) # "cleaned"
  <2>1. AttemptGood(j) /\ Spent(j) <= MaxAttempt /\ TypeOK
    BY DEF LeaseInv, AttemptInv, SpentInv, FencingInv
  <2>2. fence[j].attempt \in Attempts
    BY <2>1, JobTypes DEF Spent, Attempts
  <2>3. CurrentAttempt(j) = "none"
    BY <1>2, <2>2 DEF HasCleanupWork, UncleanAttempts, CurrentAttempt
  <2>4. fence'[j].attempt = fence[j].attempt
    BY <1>2
  <2>5. CurrentAttempt(j)' = "none" /\ Spent(j)' <= MaxAttempt
    BY <2>1, <2>3, <2>4 DEF CurrentAttempt, Spent
  <2>6. UncleanAttempts(j)' = UncleanAttempts(j) /\ ~HasCleanupWork(j)'
    BY DEF HasCleanupWork, UncleanAttempts
  <2> QED BY <2>1, <2>4, <2>5, <2>6 DEF AttemptGood, HasCleanupWork
<1> QED BY <1>1, <1>2

\* An abandoned job goes back to the queue.
LEMMA RequeueLease ==
    ASSUME LeaseInv, Fenced, NEW w \in Workers, Live(w), proc[w].pc = "requeue",
           NEW j \in Jobs, j \in RequeueWork(w), CountResume(w, j),
           state' = [state EXCEPT ![j] = "queued"], SetFence(j, RequeuedFence(w, j)),
           Goto(w, "retiring2"), UNCHANGED <<row, created, losses, owner, snap, attempt>>
    PROVE  LeaseInv'
<1>1. /\ TypeOK /\ state[j] \in {"snapshotting", "archiving"} /\ ~HasCleanupWork(j)
      /\ Active(j) /\ created \in Nat /\ row.generation \in Nat
  BY ConstantsAssumption DEF RequeueWork, LeaseInv, FencingInv, TypeOK, Active,
     ConstantsAssumption
<1>2. /\ proc[w].pc \in Unbound \ {"down", "exiting"}
      /\ \A k \in Jobs :
           /\ Active(k) => Stale(w, k)
           /\ Active(k) /\ CurrentAttempt(k) # "none" => Spent(k) < MaxAttempt
           /\ proc[w].token.job # k
  BY ClaimFacts
<1>3. proc'[w].pc = "retiring2" /\ Stays(w) /\ proc'[w].token = proc[w].token
  BY <1>1, GotoEffect
<1>4. /\ fence'[j] = RequeuedFence(w, j) /\ state'[j] = "queued"
      /\ \A k \in Jobs : k # j => SameJob(k)
  BY <1>1 DEF SetFence, TypeOK, SameJob, SameRow
<1>5. /\ fence'[j].worker = proc[w].generation /\ fence'[j].lease = 0
      /\ fence'[j].attempt = IF CurrentAttempt(j) = "cleaned"
                             THEN fence[j].attempt + 1 ELSE fence[j].attempt
  BY <1>4 DEF RequeuedFence
<1>6. HeldInv'
  <2>1. proc[w].building = FALSE /\ Unbound \cap Bound = {}
    BY <1>2, NoToken DEF Unbound, Bound
  <2>2. HeldShape(proc[w])'
    BY <1>1, <1>2, <1>3, <2>1, HeldStays DEF Stays
  <2> QED BY <1>1, <1>3, <2>2, HeldKept DEF Stays
<1>7. FenceInv'
  <2>1. proc[w].generation <= row.generation
    BY DEF LeaseInv, FencingInv, Live
  <2>2. \A k \in Jobs : SameRow(k) \/ state[k] # "absent"
    BY <1>1, <1>4 DEF SameJob
  <2>3. \A k \in Jobs : \/ fence'[k].worker = fence[k].worker
                        \/ fence'[k].worker <= row'.generation
    BY <1>4, <1>5, <2>1 DEF SameJob, SameRow
  <2>4. created' >= created /\ row'.generation >= row.generation
    BY <1>1
  <2> QED BY <2>2, <2>3, <2>4, FenceKept
<1>8. AttemptGood(j)' /\ Spent(j)' <= MaxAttempt /\ CurrentAttempt(j)' = "none"
  <2>1. CurrentAttempt(j) = "cleaned" => Spent(j) < MaxAttempt
    BY <1>1, <1>2
  <2>2. /\ snap'[j] = snap[j] /\ attempt'[j] = attempt[j]
        /\ row'.generation = row.generation
    OBVIOUS
  <2> QED BY <1>1, <1>4, <1>5, <2>1, <2>2, AttemptRequeued
<1>9. AttemptInv' /\ SpentInv'
  <2>1. \A k \in Jobs : \/ fence'[k].attempt = fence[k].attempt
                        \/ Spent(k)' <= MaxAttempt
    BY <1>4, <1>8 DEF SameJob, SameRow
  <2>2. ASSUME NEW k \in Jobs, k # j PROVE AttemptGood(k)'
    BY <1>4, <2>2, AttemptStays DEF SameJob, SameRow
  <2>3. SpentInv'
    BY <2>1, SpentKept
  <2> QED BY <1>8, <2>2, <2>3 DEF AttemptInv
<1>10. LossInv'
  <2>1. \A k \in Jobs : resume'[k] <= losses[k] /\ (k # j => resume'[k] = resume[k])
    BY <1>1, CountedResume
  <2>2. \A k \in Jobs : ~Writes(w, k)
    BY <1>2, UnboundWrites
  <2>3. \A k \in Jobs : Active(k)' /\ fence'[k].lease # 0 =>
           /\ Active(k) /\ fence'[k] = fence[k] /\ resume'[k] = resume[k]
           /\ ~Writes(w, k)
    BY <1>4, <1>5, <2>1, <2>2 DEF SameJob, SameRow, Active
  <2> QED BY <1>3, <2>1, <2>3, LossKept DEF Stays
<1>11. WorkerInv'
  <2>1. \A k \in Jobs : Active(k)' =>
          \/ /\ SameJob(k) /\ (proc'[w].token.job = k <=> proc[w].token.job = k)
             /\ proc'[w].token.job = k => proc'[w].building = proc[w].building
          \/ Fresh(k) /\ proc'[w].token.job # k
    <3>1. Fresh(j)
      BY <1>4, <1>5, <1>8 DEF Fresh
    <3> QED BY <1>2, <1>3, <1>4, <3>1
  <2>2. LeakFree(w)' /\ Solvent(w)'
    BY <1>2, <1>3, <2>1, WalkSound DEF Stays
  <2>3. \A k \in Jobs : state'[k] \notin InProgress
    BY <1>1, <1>4 DEF LeaseInv, OneInv, SameJob
  <2>4. Sequential(w)'
    BY <2>3 DEF Sequential
  <2> QED BY <1>3, <2>2, <2>4, AllSound DEF Stays
<1>12. OneInv'
  BY <1>4, OneKept DEF SameJob
<1> QED BY <1>6, <1>7, <1>9, <1>10, <1>11, <1>12 DEF LeaseInv, Fenced

LEMMA ClaimsLease ==
    ASSUME LeaseInv, Fenced, NEW w \in Workers, Claims(w)
    PROVE  LeaseInv'
<1>1. CASE ClaimRetiringRecovery(w) \/ ClaimVerifyingRecovery(w)
  BY <1>1, RecoveryLease DEF ClaimRetiringRecovery, ClaimVerifyingRecovery
<1>2. CASE RequeueExpired(w)
  <2>1. /\ Live(w) /\ proc[w].pc = "requeue" /\ UNCHANGED <<row, created, losses>>
        /\ proc[w].pc \in ClaimSteps /\ proc[w].pc \in Unbound \ {"exiting"}
    BY <1>2 DEF RequeueExpired, Live, Unbound
  <2>2. CASE RequeueWork(w) = {} /\ Goto(w, "retiring2") /\ UNCHANGED jobVars
    BY <2>1, <2>2, ClaimFindsNothing
  <2>3. ASSUME NEW j \in Jobs, IsFirst(j, RequeueWork(w)), FailLocked(j), Goto(w, "idle")
        PROVE  LeaseInv'
    <3>1. Active(j)
      BY <2>3, FirstIsMember DEF Active, RequeueWork
    <3> QED BY <2>1, <2>3, <3>1, FailStep
  <2>4. ASSUME NEW j \in Jobs, IsFirst(j, RequeueWork(w)), CountResume(w, j),
               state' = [state EXCEPT ![j] = "queued"],
               SetFence(j, RequeuedFence(w, j)), Goto(w, "retiring2"),
               UNCHANGED <<owner, snap, attempt>>
        PROVE  LeaseInv'
    <3>1. j \in RequeueWork(w)
      BY <2>4, FirstIsMember
    <3> QED BY <2>1, <2>4, <3>1, RequeueLease
  <2> QED BY <1>2, <2>2, <2>3, <2>4 DEF RequeueExpired
<1>3. CASE ClaimNextJob(w)
  <2>1. /\ Live(w) /\ proc[w].pc = "queued" /\ proc[w].pc \in ClaimSteps
        /\ UNCHANGED <<row, created, losses, owner, resume, snap, attempt>>
    BY <1>3 DEF ClaimNextJob, Live
  <2>2. CASE QueuedWork = {} /\ Goto(w, "idle") /\ UNCHANGED <<state, fence>>
    <3>1. UNCHANGED <<row, created, losses, jobVars>>
      BY <1>3, <2>2 DEF ClaimNextJob, jobVars
    <3> QED BY <2>1, <2>2, <3>1, ClaimFindsNothing
  <2>3. ASSUME NEW j \in Jobs, IsOldest(j, QueuedWork),
               state' = [state EXCEPT ![j] = IF snap[j] = "confirmed"
                                             THEN "archiving" ELSE "snapshotting"],
               TakeLease(w, NewLease(j), "work", TRUE)
        PROVE  LeaseInv'
    <3>1. state[j] = "queued" /\ CurrentAttempt(j) = "none"
      BY <2>3, OldestIsMember DEF QueuedWork
    <3>2. /\ state'[j] \in {"snapshotting", "archiving"}
          /\ \A k \in Jobs : k # j => state'[k] = state[k]
      BY <2>3 DEF LeaseInv, FencingInv, TypeOK
    <3>3. \A k \in Jobs : state[k] \notin InProgress
      BY <2>1, ClaimFacts DEF Sequential
    <3>4. \A k \in Jobs : resume'[k] <= losses[k] /\ (k # j => resume'[k] = resume[k])
      BY <2>1 DEF LeaseInv, LossInv
    <3>5. Active(j) /\ Active(j)'
      BY <3>1, <3>2 DEF Active
    <3> QED BY <2>1, <2>3, <3>1, <3>2, <3>3, <3>4, <3>5, TakeStep
  <2> QED BY <1>3, <2>1, <2>2, <2>3 DEF ClaimNextJob
<1> QED BY <1>1, <1>2, <1>3 DEF Claims

\* A worker with a job: what it may rely on.
LEMMA WorkFacts ==
    ASSUME LeaseInv, NEW w \in Workers, Working(w), NEW j, j = proc[w].held.job
    PROVE  /\ j \in Jobs /\ Active(j) /\ proc[w].pc = "work"
           /\ proc[w].held.attempt = fence[j].attempt
           /\ fence[j].attempt \in Attempts /\ AttemptGood(j)
           /\ Spent(j) <= MaxAttempt
           /\ CurrentAttempt(j) # "none" => proc[w].building \/ Spent(j) < MaxAttempt
           /\ proc[w].building /\ state[j] = "verifying" /\ CurrentAttempt(j) = "retiring"
                => Spent(j) < MaxAttempt
           /\ proc[w].building =>
                \/ state[j] = "snapshotting"
                \/ CurrentAttempt(j) \in {"writing", "closed", "verifying", "retiring"}
           /\ MayRevoke(proc[w].held.attempt) => Spent(j) < MaxAttempt
<1>1. /\ proc[w].pc = "work" /\ WorkerCurrent(w) /\ Live(w)
      /\ j \in Jobs /\ Active(j) /\ proc[w].token.job = j
      /\ proc[w].held.attempt = fence[j].attempt
  BY HeldWrites DEF Working, Current, Live, Bound, LeaseInv
<1>2. Solvent(w) /\ AttemptGood(j) /\ Spent(j) <= MaxAttempt
  BY <1>1 DEF LeaseInv, WorkerInv, Sound, AttemptInv, SpentInv
<1>3. fence[j].attempt \in Attempts
  BY <1>1, <1>2, JobTypes DEF Spent, Attempts, LeaseInv, FencingInv
<1>4. MayRevoke(proc[w].held.attempt) => Spent(j) < MaxAttempt
  BY <1>1 DEF MayRevoke, Spent
<1> QED BY <1>1, <1>2, <1>3, <1>4 DEF Solvent, Builds

\* It goes on under the same lease.
LEMMA WorkOn ==
    ASSUME LeaseInv, Fenced, NEW w \in Workers, Working(w),
           NEW j, j = proc[w].held.job,
           UNCHANGED <<row, created, resume, losses, owner, fence>>,
           proc'[w].pc \in Bound, proc'[w].generation = proc[w].generation,
           proc'[w].held = proc[w].held, proc'[w].building \in BOOLEAN, Elsewhere(w),
           \A k \in Jobs : k # j =>
              state'[k] = state[k] /\ attempt'[k] = attempt[k] /\ snap'[k] = snap[k],
           state'[j] \in InProgress => state[j] \in InProgress,
           state'[j] # "complete", AttemptGood(j)',
           CurrentAttempt(j)' # "none" =>
              proc'[w].building \/ Spent(j) < MaxAttempt,
           proc'[w].pc = "work" /\ proc'[w].building =>
              /\ \/ state'[j] = "snapshotting"
                 \/ CurrentAttempt(j)' \in {"writing", "closed", "verifying", "retiring"}
              /\ state'[j] = "verifying" /\ CurrentAttempt(j)' = "retiring" =>
                   Spent(j) < MaxAttempt
    PROVE  LeaseInv'
<1>1. j \in Jobs /\ Spent(j) <= MaxAttempt
  BY WorkFacts
<1>2. Spent(j)' = Spent(j) /\ fence'[j].worker = fence[j].worker
  BY DEF Spent
<1>3. \A k \in Jobs : k # j => SameJob(k)
  BY DEF SameJob, SameRow
<1>4. UNCHANGED <<row, created, resume, losses, owner>> /\ proc'[w].held.job = j
  OBVIOUS
<1> QED BY <1>1, <1>2, <1>3, <1>4, WorkStep

\* The one place of an attempt's row that a service writes.
LEMMA SetAttemptEffect ==
    ASSUME TypeOK, NEW j \in Jobs, NEW g \in Attempts, NEW s, SetAttempt(j, g, s)
    PROVE  /\ attempt'[j] = [attempt[j] EXCEPT ![g] = s] /\ attempt'[j][g] = s
           /\ \A k \in Jobs : k # j => attempt'[k] = attempt[k]
<1>1. attempt \in [Jobs -> [Attempts -> AttemptStates]]
  BY DEF TypeOK
<1> QED BY <1>1 DEF SetAttempt

LEMMA RotateEffect ==
    ASSUME TypeOK, NEW w \in Workers, NEW j \in Jobs, Rotate(w, j),
           j = proc[w].held.job, proc[w].held.attempt = fence[j].attempt
    PROVE  /\ proc'[w].pc = proc[w].pc /\ proc'[w].generation = proc[w].generation
           /\ proc'[w].held.job = j /\ proc'[w].building = FALSE /\ Elsewhere(w)
           /\ fence'[j].worker = fence[j].worker
           /\ fence'[j].attempt = fence[j].attempt + 1
           /\ \A k \in Jobs : k # j => fence'[k] = fence[k] /\ state'[k] = state[k]
           /\ state'[j] = "archiving"
<1> DEFINE next == [proc[w].held EXCEPT !.attempt = @ + 1]
<1>1. /\ proc[w] \in Processes /\ proc \in [Workers -> Processes]
      /\ proc[w].held \in LeaseTokens /\ fence \in [Jobs -> Fences] /\ fence[j] \in Fences
      /\ state \in [Jobs -> JobStates]
  BY ProcTypes, JobTypes DEF TypeOK
<1>2. next.job = j /\ next.attempt = fence[j].attempt + 1
  BY <1>1 DEF LeaseTokens
<1>3. /\ proc' = [proc EXCEPT ![w] = [proc[w] EXCEPT !.held = next, !.token = next,
                                                     !.building = FALSE]]
      /\ fence' = [fence EXCEPT ![j] = [fence[j] EXCEPT !.attempt = next.attempt]]
      /\ state' = [state EXCEPT ![j] = "archiving"]
  BY DEF Rotate, Becomes, SetFence
<1> HIDE DEF next
<1>4. /\ proc'[w] = [proc[w] EXCEPT !.held = next, !.token = next, !.building = FALSE]
      /\ Elsewhere(w)
  BY <1>1, <1>3 DEF Elsewhere
<1>5. /\ proc'[w].pc = proc[w].pc /\ proc'[w].generation = proc[w].generation
      /\ proc'[w].held = next /\ proc'[w].building = FALSE
  BY <1>1, <1>4 DEF Processes
<1>6. /\ fence'[j].worker = fence[j].worker
      /\ fence'[j].attempt = fence[j].attempt + 1
  BY <1>1, <1>2, <1>3 DEF Fences
<1> QED BY <1>1, <1>2, <1>3, <1>4, <1>5, <1>6

\* The next attempt generation.
LEMMA RotateLease ==
    ASSUME LeaseInv, Fenced, NEW w \in Workers, Working(w),
           NEW j, j = proc[w].held.job, Rotate(w, j),
           UNCHANGED <<row, created, resume, losses, owner, snap>>,
           state[j] \in {"archiving", "verifying"},
           Spent(j) < MaxAttempt, CurrentAttempt(j) # "none",
           \/ SetAttempt(j, fence[j].attempt, "retiring")
           \/ UNCHANGED attempt /\ CurrentAttempt(j) = "cleaned"
    PROVE  LeaseInv'
<1>1. /\ j \in Jobs /\ fence[j].attempt \in Attempts /\ proc[w].pc = "work"
      /\ proc[w].held.attempt = fence[j].attempt /\ TypeOK
  BY WorkFacts DEF LeaseInv, FencingInv
<1>2. /\ proc'[w].pc = proc[w].pc /\ proc'[w].generation = proc[w].generation
      /\ proc'[w].held.job = j /\ proc'[w].building = FALSE /\ Elsewhere(w)
      /\ fence'[j].worker = fence[j].worker
      /\ fence'[j].attempt = fence[j].attempt + 1
      /\ \A k \in Jobs : k # j => fence'[k] = fence[k] /\ state'[k] = state[k]
      /\ state'[j] = "archiving"
  BY <1>1, RotateEffect
<1>3. /\ \/ attempt'[j] = [attempt[j] EXCEPT ![fence[j].attempt] = "retiring"]
         \/ attempt'[j] = attempt[j] /\ CurrentAttempt(j) = "cleaned"
      /\ \A k \in Jobs : k # j => attempt'[k] = attempt[k]
  BY <1>1, SetAttemptEffect
<1>4. AttemptGood(j)' /\ CurrentAttempt(j)' = "none" /\ Spent(j)' <= MaxAttempt
  <2>1. row'.generation = row.generation
    OBVIOUS
  <2> QED BY <1>1, <1>2, <1>3, <2>1, AttemptNext
<1>5. \A k \in Jobs : k # j => SameJob(k)
  BY <1>2, <1>3 DEF SameJob, SameRow
<1>6. UNCHANGED <<row, created, resume, losses, owner>> /\ proc'[w].building \in BOOLEAN
  BY <1>2
<1>7. /\ state'[j] \in InProgress => state[j] \in InProgress
      /\ state'[j] # "complete" /\ proc'[w].pc \in Bound
  BY <1>1, <1>2 DEF Bound
<1> QED BY <1>1, <1>2, <1>4, <1>5, <1>6, <1>7, WorkStep

LEMMA SnapshotLease ==
    ASSUME LeaseInv, Fenced, NEW w \in Workers,
           NEW j, j = proc[w].held.job,
           PlanCandidate(w) \/ CleanupCandidate(w) \/ FinalizeSnapshot(w)
    PROVE  LeaseInv'
<1>1. /\ Working(w) /\ state[j] = "snapshotting"
      /\ UNCHANGED <<row, created, resume, losses, owner, fence, attempt>>
  BY DEF PlanCandidate, CleanupCandidate, FinalizeSnapshot
<1>2. /\ j \in Jobs /\ AttemptGood(j) /\ proc[w].pc = "work" /\ TypeOK
      /\ proc[w].building \in BOOLEAN
  BY <1>1, WorkFacts, ProcTypes DEF LeaseInv, FencingInv
<1>3. CurrentAttempt(j) = "none" /\ CurrentAttempt(j)' = "none"
  BY <1>1, <1>2 DEF AttemptGood, CurrentAttempt
<1>4. /\ proc'[w].pc = proc[w].pc /\ proc'[w].generation = proc[w].generation
      /\ proc'[w].held = proc[w].held /\ proc'[w].building \in BOOLEAN /\ Elsewhere(w)
      /\ proc'[w].building => PlanCandidate(w) \/ CleanupCandidate(w)
  <2>1. CASE PlanCandidate(w)
    BY <1>2, <2>1, BuildingEffect DEF PlanCandidate
  <2>2. CASE CleanupCandidate(w)
    BY <1>2, <2>2 DEF CleanupCandidate, Elsewhere
  <2>3. CASE FinalizeSnapshot(w)
    BY <1>2, <2>3, BuildingEffect DEF FinalizeSnapshot
  <2> QED BY <2>1, <2>2, <2>3
<1>5. /\ \A k \in Jobs : k # j => state'[k] = state[k] /\ snap'[k] = snap[k]
      /\ state'[j] = IF FinalizeSnapshot(w) THEN "archiving" ELSE "snapshotting"
  <2>1. state \in [Jobs -> JobStates]
        /\ snap \in [Jobs -> {"none", "candidate", "confirmed"}]
    BY <1>2 DEF TypeOK
  <2>2. CASE FinalizeSnapshot(w)
    BY <1>2, <2>1, <2>2 DEF FinalizeSnapshot
  <2>3. CASE ~FinalizeSnapshot(w)
    BY <1>1, <1>2, <2>1, <2>3 DEF PlanCandidate, CleanupCandidate
  <2> QED BY <2>2, <2>3
<1>6. AttemptGood(j)'
  BY <1>1, <1>2, <1>3, <1>5, AttemptStays
<1>7. proc'[w].building => state'[j] = "snapshotting"
  <2>1. FinalizeSnapshot(w) => snap'[j] = "confirmed"
    BY <1>2 DEF FinalizeSnapshot, TypeOK
  <2>2. FinalizeSnapshot(w) => proc'[w].building = FALSE
    BY <1>2, BuildingEffect DEF FinalizeSnapshot
  <2> QED BY <1>5, <2>2
<1>8. proc'[w].pc \in Bound /\ UNCHANGED <<row, created, resume, losses, owner, fence>>
  BY <1>1, <1>2, <1>4 DEF Bound
<1>9. \A k \in Jobs : k # j =>
         state'[k] = state[k] /\ attempt'[k] = attempt[k] /\ snap'[k] = snap[k]
  BY <1>1, <1>5
<1>10. state[j] \in InProgress /\ state'[j] # "complete" /\ state'[j] # "verifying"
       /\ j = proc[w].held.job
  BY <1>1, <1>5
<1> QED BY <1>1, <1>3, <1>4, <1>6, <1>7, <1>8, <1>9, <1>10, WorkOn

LEMMA AttemptLease ==
    ASSUME LeaseInv, Fenced, NEW w \in Workers,
           NEW j, j = proc[w].held.job, NEW g, g = proc[w].held.attempt,
           RecordDirectory(w) \/ AdvanceAttempt(w) \/ MarkRetiringIntent(w)
    PROVE  LeaseInv'
<1>1. /\ Working(w) /\ state[j] \in {"archiving", "verifying"}
      /\ UNCHANGED <<row, created, resume, losses, owner, fence, snap>>
  BY DEF RecordDirectory, AdvanceAttempt, MarkRetiringIntent, MayStartAttempt
<1>2. /\ j \in Jobs /\ AttemptGood(j) /\ proc[w].pc = "work" /\ TypeOK
      /\ g = fence[j].attempt /\ g \in Attempts
      /\ MayRevoke(g) => Spent(j) < MaxAttempt
  BY <1>1, WorkFacts DEF LeaseInv, FencingInv
<1>3. /\ proc'[w].pc = proc[w].pc /\ proc'[w].generation = proc[w].generation
      /\ proc'[w].held = proc[w].held /\ proc'[w].building = TRUE /\ Elsewhere(w)
  <2>1. CASE RecordDirectory(w)
    BY <1>2, <2>1, BuildingEffect DEF RecordDirectory
  <2>2. CASE AdvanceAttempt(w) \/ MarkRetiringIntent(w)
    <3>1. UNCHANGED proc /\ proc[w].building /\ proc[w].building \in BOOLEAN
      BY <1>2, <2>2, ProcTypes DEF AdvanceAttempt, MarkRetiringIntent
    <3> QED BY <3>1 DEF Elsewhere
  <2> QED BY <2>1, <2>2
<1>4. PICK s \in {"writing", "closed", "verifying", "retiring"} :
         /\ SetAttempt(j, g, s)
         /\ CurrentAttempt(j) # "none" \/ UncleanAttempts(j) = {}
         /\ s = "retiring" => Spent(j) < MaxAttempt
  BY <1>2 DEF RecordDirectory, AdvanceAttempt, MarkRetiringIntent, MayStartAttempt,
     CurrentAttempt
<1>5. /\ \A k \in Jobs : k # j => state'[k] = state[k]
      /\ state'[j] \in {"archiving", "verifying"}
  <2>1. state \in [Jobs -> JobStates]
    BY <1>2 DEF TypeOK
  <2>2. UNCHANGED state \/ state' = [state EXCEPT ![j] = "verifying"]
    BY DEF RecordDirectory, AdvanceAttempt, MarkRetiringIntent
  <2> QED BY <1>1, <1>2, <2>1, <2>2
<1>6. /\ attempt'[j] = [attempt[j] EXCEPT ![g] = s]
      /\ \A k \in Jobs : k # j => attempt'[k] = attempt[k]
  BY <1>2, <1>4, SetAttemptEffect
<1>7. AttemptGood(j)' /\ CurrentAttempt(j)' = s
  <2>1. /\ j \in Jobs /\ fence'[j].attempt = fence[j].attempt
        /\ CurrentAttempt(j) # "none" \/ UncleanAttempts(j) = {}
        /\ s \in AttemptStates \ {"none"}
        /\ attempt'[j] = [attempt[j] EXCEPT ![fence[j].attempt] = s]
        /\ state'[j] \notin {"queued", "snapshotting"}
    BY <1>1, <1>2, <1>4, <1>5, <1>6
  <2> QED BY <2>1, AttemptMoves
<1>8. proc'[w].pc \in Bound /\ UNCHANGED <<row, created, resume, losses, owner, fence>>
      /\ j = proc[w].held.job
  BY <1>1, <1>2, <1>3 DEF Bound
<1>9. \A k \in Jobs : k # j =>
         state'[k] = state[k] /\ attempt'[k] = attempt[k] /\ snap'[k] = snap[k]
  BY <1>1, <1>5, <1>6
<1> QED BY <1>1, <1>3, <1>4, <1>5, <1>7, <1>8, <1>9, WorkOn

LEMMA RotationLease ==
    ASSUME LeaseInv, Fenced, NEW w \in Workers,
           NEW j, j = proc[w].held.job, NEW g, g = proc[w].held.attempt,
           RotateRevoked(w) \/ RotateRecovered(w)
    PROVE  LeaseInv'
<1>1. /\ Working(w) /\ state[j] \in {"archiving", "verifying"} /\ Rotate(w, j)
      /\ UNCHANGED <<row, created, resume, losses, owner, snap>>
  BY DEF RotateRevoked, RotateRecovered
<1>2. /\ j \in Jobs /\ g = fence[j].attempt
      /\ CurrentAttempt(j) # "none" => proc[w].building \/ Spent(j) < MaxAttempt
      /\ proc[w].building /\ state[j] = "verifying" /\ CurrentAttempt(j) = "retiring"
           => Spent(j) < MaxAttempt
      /\ MayRevoke(g) => Spent(j) < MaxAttempt
  BY <1>1, WorkFacts
<1>3. CASE RotateRevoked(w)
  <2>1. CurrentAttempt(j) # "none" /\ Spent(j) < MaxAttempt
        /\ SetAttempt(j, fence[j].attempt, "retiring")
    BY <1>2, <1>3 DEF RotateRevoked, CurrentAttempt
  <2> QED BY <1>1, <2>1, RotateLease
<1>4. CASE RotateRecovered(w)
  <2>1. /\ CurrentAttempt(j) = "cleaned" /\ Spent(j) < MaxAttempt /\ UNCHANGED attempt
    BY <1>2, <1>4 DEF RotateRecovered
  <2> QED BY <1>1, <2>1, RotateLease
<1> QED BY <1>3, <1>4

LEMMA RetiringLease ==
    ASSUME LeaseInv, Fenced, NEW w \in Workers,
           NEW j, j = proc[w].held.job,
           RetireAbandoned(w) \/ CleanupRetiring(w)
    PROVE  LeaseInv'
<1>1. /\ Working(w) /\ ~proc[w].building
      /\ UNCHANGED <<row, created, resume, losses, owner, fence, snap, state, proc>>
  BY DEF RetireAbandoned, CleanupRetiring
<1>2. /\ j \in Jobs /\ AttemptGood(j) /\ proc[w].pc = "work" /\ TypeOK
      /\ proc[w].held.attempt = fence[j].attempt /\ fence[j].attempt \in Attempts
      /\ Active(j) /\ proc[w].building \in BOOLEAN
      /\ CurrentAttempt(j) # "none" => Spent(j) < MaxAttempt
  BY <1>1, WorkFacts, ProcTypes DEF LeaseInv, FencingInv
<1>3. /\ \A k \in Jobs : k # j => attempt'[k] = attempt[k]
      /\ AttemptGood(j)'
      /\ CurrentAttempt(j)' # "none" => CurrentAttempt(j) # "none"
  <2>1. CASE RetireAbandoned(w)
    <3>1. /\ CurrentAttempt(j) # "none" /\ state'[j] = "archiving"
          /\ SetAttempt(j, fence[j].attempt, "retiring")
      BY <1>1, <1>2, <2>1 DEF RetireAbandoned, CurrentAttempt
    <3>2. /\ attempt'[j] = [attempt[j] EXCEPT ![fence[j].attempt] = "retiring"]
          /\ \A k \in Jobs : k # j => attempt'[k] = attempt[k]
      <4>1. TypeOK /\ j \in Jobs /\ fence[j].attempt \in Attempts
        BY <1>2
      <4> QED BY <3>1, <4>1, SetAttemptEffect
    <3>3. AttemptGood(j)'
      <4>1. /\ j \in Jobs /\ fence'[j].attempt = fence[j].attempt
            /\ "retiring" \in AttemptStates \ {"none"}
            /\ state'[j] \notin {"queued", "snapshotting"}
        BY <1>1, <1>2, <3>1
      <4> QED BY <3>1, <3>2, <4>1, AttemptMoves
    <3> QED BY <3>1, <3>2, <3>3
  <2>2. CASE CleanupRetiring(w)
    <3>1. PICK h \in Attempts : attempt[j][h] = "retiring" /\ SetAttempt(j, h, "cleaned")
      BY <2>2 DEF CleanupRetiring
    <3>2. /\ attempt'[j] = [attempt[j] EXCEPT ![h] = "cleaned"]
          /\ \A k \in Jobs : k # j => attempt'[k] = attempt[k]
      BY <1>2, <3>1, SetAttemptEffect
    <3>3. h \in Nat /\ fence'[j].attempt = fence[j].attempt
          /\ state'[j] = state[j] /\ snap'[j] = snap[j]
      BY <1>1, ConstantsAssumption DEF Attempts, ConstantsAssumption
    <3>4. AttemptGood(j)'
      BY <1>2, <3>1, <3>2, <3>3, AttemptCleaned
    <3>5. CurrentAttempt(j)' # "none" => CurrentAttempt(j) # "none"
      <4>1. attempt[j] \in [Attempts -> AttemptStates]
        BY <1>2 DEF TypeOK
      <4>2. attempt'[j][fence[j].attempt] # "none" => attempt[j][fence[j].attempt] # "none"
        BY <1>2, <3>1, <3>2, <4>1
      <4> QED BY <3>3, <4>2 DEF CurrentAttempt
    <3> QED BY <3>2, <3>4, <3>5
  <2> QED BY <2>1, <2>2
<1>4. proc'[w].pc \in Bound /\ UNCHANGED <<row, created, resume, losses, owner, fence>>
      /\ j = proc[w].held.job /\ Elsewhere(w) /\ proc'[w].building = FALSE
      /\ proc'[w].generation = proc[w].generation /\ proc'[w].held = proc[w].held
  BY <1>1, <1>2 DEF Bound, Elsewhere
<1>5. /\ state'[j] = state[j] /\ state'[j] # "complete"
      /\ \A k \in Jobs : k # j =>
           state'[k] = state[k] /\ attempt'[k] = attempt[k] /\ snap'[k] = snap[k]
  BY <1>1, <1>2, <1>3 DEF Active
<1> QED BY <1>1, <1>2, <1>3, <1>4, <1>5, WorkOn

LEMMA GivesUpLease ==
    ASSUME LeaseInv, Fenced, NEW w \in Workers,
           NEW j, j = proc[w].held.job,
           PermissionChanged(w) \/ ExportErrorRaised(w)
    PROVE  LeaseInv'
<1>1. /\ Working(w) /\ Goto(w, "failing")
      /\ UNCHANGED <<row, created, resume, losses, owner, fence, snap, state>>
  BY DEF PermissionChanged, ExportErrorRaised, jobVars
<1>2. /\ j \in Jobs /\ AttemptGood(j) /\ proc[w].pc = "work" /\ TypeOK
      /\ proc[w].held.attempt = fence[j].attempt /\ fence[j].attempt \in Attempts
      /\ Active(j) /\ proc[w].building \in BOOLEAN
      /\ CurrentAttempt(j) # "none" => proc[w].building \/ Spent(j) < MaxAttempt
  BY <1>1, WorkFacts, ProcTypes DEF LeaseInv, FencingInv
<1>3. proc'[w].pc = "failing" /\ Stays(w)
  BY <1>1, <1>2, GotoEffect
<1>4. /\ \A k \in Jobs : k # j => attempt'[k] = attempt[k]
      /\ AttemptGood(j)'
      /\ CurrentAttempt(j)' # "none" => CurrentAttempt(j) # "none"
  <2>1. CASE UNCHANGED attempt
    BY <1>1, <1>2, <2>1, AttemptStays DEF CurrentAttempt
  <2>2. CASE ~UNCHANGED attempt
    <3>1. /\ state[j] \in {"archiving", "verifying"} /\ CurrentAttempt(j) # "none"
          /\ SetAttempt(j, fence[j].attempt, "retiring")
      BY <1>2, <2>2 DEF PermissionChanged, ExportErrorRaised, jobVars
    <3>2. /\ attempt'[j] = [attempt[j] EXCEPT ![fence[j].attempt] = "retiring"]
          /\ \A k \in Jobs : k # j => attempt'[k] = attempt[k]
      <4>1. TypeOK /\ j \in Jobs /\ fence[j].attempt \in Attempts
        BY <1>2
      <4> QED BY <3>1, <4>1, SetAttemptEffect
    <3>3. AttemptGood(j)'
      <4>1. /\ j \in Jobs /\ fence'[j].attempt = fence[j].attempt
            /\ "retiring" \in AttemptStates \ {"none"}
            /\ state'[j] \notin {"queued", "snapshotting"}
        BY <1>1, <1>2, <3>1
      <4> QED BY <3>1, <3>2, <4>1, AttemptMoves
    <3> QED BY <3>1, <3>2, <3>3
  <2> QED BY <2>1, <2>2
<1>5. proc'[w].pc \in Bound /\ UNCHANGED <<row, created, resume, losses, owner, fence>>
      /\ j = proc[w].held.job /\ Elsewhere(w) /\ proc'[w].building = proc[w].building
      /\ proc'[w].generation = proc[w].generation /\ proc'[w].held = proc[w].held
  BY <1>1, <1>3 DEF Bound, Stays
<1>6. /\ state'[j] = state[j] /\ state'[j] # "complete"
      /\ \A k \in Jobs : k # j =>
           state'[k] = state[k] /\ attempt'[k] = attempt[k] /\ snap'[k] = snap[k]
  BY <1>1, <1>2, <1>4 DEF Active
<1> QED BY <1>1, <1>2, <1>3, <1>4, <1>5, <1>6, WorkOn

\* The job of a worker ends.
LEMMA EndStep ==
    ASSUME LeaseInv, Fenced, NEW w \in Workers, Live(w), proc[w].pc \in Bound,
           NEW j \in Jobs, j = proc[w].held.job, Active(j), Elsewhere(w),
           state'[j] \notin ActiveStates, proc'[w].generation = proc[w].generation,
           \/ proc'[w].pc \in Ended /\ proc'[w].held = proc[w].held
           \/ proc'[w].pc = "idle" /\ proc'[w].held = NoLease,
           proc'[w].building = FALSE,
           UNCHANGED <<row, created, resume, losses>>,
           \A k \in Jobs : k # j => /\ SameRow(k)
                                    /\ state'[k] = state[k] \/ state'[k] = "expired",
           fence'[j].attempt = fence[j].attempt, fence'[j].worker = fence[j].worker,
           AttemptGood(j)', OneInv'
    PROVE  LeaseInv'
<1>1. /\ HeldShape(proc[w])' /\ proc'[w].pc \notin Bound \cup Finding
  <2>1. CASE proc'[w].pc \in Ended /\ proc'[w].held = proc[w].held
    <3>1. HeldShape(proc[w])
      BY DEF LeaseInv, HeldInv
    <3> QED BY <2>1, <3>1 DEF HeldShape, Active, Ended, Unbound, Bound, Finding
  <2>2. CASE proc'[w].pc = "idle" /\ proc'[w].held = NoLease
    <3>1. NoLease.job = 0 /\ NoLease.job \notin Jobs /\ created' \in Nat
      BY NoLeaseFields, ConstantsAssumption
         DEF NoJob, Jobs, LeaseInv, FencingInv, TypeOK, ConstantsAssumption
    <3> QED BY <2>2, <3>1 DEF HeldShape, Bound, Finding, Ended
  <2> QED BY <2>1, <2>2
<1>2. \A k \in Jobs : k # j => AttemptGood(k)'
  BY AttemptStays DEF SameRow
<1>3. /\ \A k \in Jobs : Active(k)' => SameJob(k)
      /\ \A k \in Jobs : SameRow(k) \/ state[k] # "absent"
  BY DEF Active, SameJob
<1>4. \A k \in Jobs : /\ fence'[k].attempt = fence[k].attempt
                      /\ fence'[k].worker = fence[k].worker
                      /\ AttemptGood(k)'
  BY <1>2 DEF SameRow
<1>5. proc[w].pc \notin {"down", "exiting"}
  BY DEF Bound
<1> QED BY <1>1, <1>3, <1>4, <1>5, WalkStep

LEMMA CompleteLease ==
    ASSUME LeaseInv, Fenced, NEW w \in Workers, CompleteLocked(w)
    PROVE  LeaseInv'
<1> PICK j : j = proc[w].held.job
  OBVIOUS
<1>1. /\ Working(w) /\ UNCHANGED <<row, created, resume, losses, owner, fence, snap>>
      /\ state[j] = "verifying" /\ attempt[j][proc[w].held.attempt] = "verifying"
      /\ state' = [k \in Jobs |-> IF k = j THEN "complete"
                                  ELSE IF k \in Previous(j) THEN "expired" ELSE state[k]]
      /\ SetAttempt(j, proc[w].held.attempt, "published")
      /\ Becomes(w, [proc[w] EXCEPT !.pc = "finishing", !.token = NoLease,
                                    !.building = FALSE])
  BY DEF CompleteLocked
<1>2. /\ j \in Jobs /\ Active(j) /\ proc[w].pc = "work" /\ TypeOK /\ Live(w)
      /\ proc[w].held.attempt = fence[j].attempt /\ fence[j].attempt \in Attempts
  BY <1>1, WorkFacts DEF LeaseInv, FencingInv, Live, Working, Current
<1>3. /\ proc'[w].pc = "finishing" /\ proc'[w].held = proc[w].held
      /\ proc'[w].generation = proc[w].generation /\ proc'[w].building = FALSE
      /\ Elsewhere(w)
  <2>1. proc[w] \in Processes /\ proc \in [Workers -> Processes]
    BY <1>2 DEF TypeOK
  <2>2. /\ proc'[w] = [proc[w] EXCEPT !.pc = "finishing", !.token = NoLease,
                                      !.building = FALSE]
        /\ Elsewhere(w)
    BY <1>1, <2>1 DEF Becomes, Elsewhere
  <2> QED BY <2>1, <2>2 DEF Processes
<1>4. /\ attempt'[j] = [attempt[j] EXCEPT ![fence[j].attempt] = "published"]
      /\ \A k \in Jobs : k # j => attempt'[k] = attempt[k]
  <2>1. /\ TypeOK /\ j \in Jobs /\ fence[j].attempt \in Attempts
        /\ SetAttempt(j, fence[j].attempt, "published")
    BY <1>1, <1>2
  <2> QED BY <2>1, SetAttemptEffect
<1>5. /\ state'[j] = "complete"
      /\ \A k \in Jobs : k # j => state'[k] = state[k] \/ state'[k] = "expired"
      /\ \A k \in Jobs : k # j /\ state[k] = "complete" /\ owner[k] = owner[j]
           => state'[k] = "expired"
  BY <1>1, <1>2 DEF Previous
<1>6. AttemptGood(j)'
  <2>1. CurrentAttempt(j) # "none" /\ fence'[j].attempt = fence[j].attempt
    BY <1>1, <1>2 DEF CurrentAttempt
  <2>2. state'[j] \notin {"queued", "snapshotting"}
    BY <1>5
  <2>3. "published" \in AttemptStates \ {"none"} /\ j \in Jobs
        /\ attempt'[j] = [attempt[j] EXCEPT ![fence[j].attempt] = "published"]
    BY <1>2, <1>4
  <2> QED BY <2>1, <2>2, <2>3, AttemptMoves
<1>7. OneInv'
  BY <1>1, <1>5 DEF LeaseInv, OneInv
<1>8. /\ \A k \in Jobs : k # j => /\ SameRow(k)
                                  /\ state'[k] = state[k] \/ state'[k] = "expired"
      /\ fence'[j].attempt = fence[j].attempt /\ fence'[j].worker = fence[j].worker
  BY <1>1, <1>4, <1>5 DEF SameRow
<1>9. /\ proc[w].pc \in Bound /\ proc'[w].pc \in Ended /\ state'[j] \notin ActiveStates
      /\ UNCHANGED <<row, created, resume, losses>>
  BY <1>1, <1>2, <1>3, <1>5 DEF Bound, Ended
<1> QED BY <1>2, <1>3, <1>6, <1>7, <1>8, <1>9, EndStep

LEMMA FailedLease ==
    ASSUME LeaseInv, Fenced, NEW w \in Workers, FailJob(w) \/ RecordOwnerDeleted(w)
    PROVE  LeaseInv'
<1> PICK j : j = proc[w].held.job
  OBVIOUS
<1>1. /\ proc[w].pc \in Bound /\ Current(w, proc[w].held) /\ FailLocked(j)
      /\ UNCHANGED <<row, created, losses>>
  BY DEF FailJob, RecordOwnerDeleted, Working, Bound
<1>2. j \in Jobs /\ Active(j) /\ TypeOK /\ Live(w)
  BY <1>1, HeldWrites DEF LeaseInv, FencingInv, Live, Current, Bound
<1>3. /\ \/ proc'[w].pc \in Ended /\ proc'[w].held = proc[w].held
         \/ proc'[w].pc = "idle" /\ proc'[w].held = NoLease
      /\ proc'[w].generation = proc[w].generation /\ proc'[w].building = FALSE
      /\ Elsewhere(w)
  <2>1. CASE FailJob(w)
    BY <1>2, <2>1, ForgetEffect DEF FailJob
  <2>2. CASE RecordOwnerDeleted(w)
    <3>1. proc[w] \in Processes /\ proc \in [Workers -> Processes]
      BY <1>2 DEF TypeOK
    <3>2. /\ proc'[w] = [proc[w] EXCEPT !.pc = "ownerclean", !.token = NoLease,
                                        !.building = FALSE]
          /\ Elsewhere(w)
      BY <2>2, <3>1 DEF RecordOwnerDeleted, Becomes, Elsewhere
    <3> QED BY <3>1, <3>2 DEF Processes, Ended
  <2> QED BY <2>1, <2>2
<1>4. /\ UNCHANGED <<owner, resume>> /\ state'[j] = "failed"
      /\ \A k \in Jobs : k # j => SameJob(k)
      /\ \A k \in Jobs : /\ fence'[k].attempt = fence[k].attempt
                         /\ fence'[k].worker = fence[k].worker
                         /\ AttemptGood(k)'
  BY <1>1, <1>2, FailLockedEffect
<1>5. OneInv'
  BY <1>4, OneKept DEF SameJob
<1>6. \A k \in Jobs : k # j => /\ SameRow(k)
                               /\ state'[k] = state[k] \/ state'[k] = "expired"
  BY <1>4 DEF SameJob
<1>7. state'[j] \notin ActiveStates /\ UNCHANGED <<row, created, resume, losses>>
  BY <1>1, <1>4
<1> QED BY <1>1, <1>2, <1>3, <1>4, <1>5, <1>6, <1>7, EndStep

\* A hand-over: the job is free for the next worker, in any state.
LEMMA HandoffLease ==
    ASSUME LeaseInv, Fenced, NEW w \in Workers, Handoff(w)
    PROVE  LeaseInv'
<1> PICK j : j = proc[w].held.job
  OBVIOUS
<1>1. /\ Working(w) /\ UNCHANGED <<row, created, resume, losses, owner, snap>>
      /\ SetFence(j, HandoffFence(j)) /\ Forget(w, "exiting")
      /\ IF state[j] = "verifying" \/ HasCleanupWork(j)
         THEN UNCHANGED state ELSE state' = [state EXCEPT ![j] = "queued"]
      /\ IF state[j] # "verifying" /\ HasCleanupWork(j)
         THEN attempt' = [attempt EXCEPT ![j] = Retired(j)] ELSE UNCHANGED attempt
  BY DEF Handoff
<1>2. /\ j \in Jobs /\ Active(j) /\ proc[w].pc = "work" /\ TypeOK /\ Live(w)
      /\ proc[w].pc \in Bound /\ AttemptGood(j) /\ proc[w].token.job = j
      /\ created \in Nat /\ row.generation \in Nat
      /\ CurrentAttempt(j) = "cleaned" => Spent(j) < MaxAttempt
  <2>1. /\ j \in Jobs /\ Active(j) /\ proc[w].pc = "work" /\ AttemptGood(j)
        /\ CurrentAttempt(j) # "none" => proc[w].building \/ Spent(j) < MaxAttempt
        /\ proc[w].building =>
             \/ state[j] = "snapshotting"
             \/ CurrentAttempt(j) \in {"writing", "closed", "verifying", "retiring"}
    BY <1>1, WorkFacts
  <2>2. CurrentAttempt(j) = "cleaned" => Spent(j) < MaxAttempt
    BY <2>1 DEF AttemptGood
  <2>3. TypeOK /\ Live(w) /\ created \in Nat /\ row.generation \in Nat
    BY <1>1, <2>1, ConstantsAssumption
       DEF LeaseInv, FencingInv, TypeOK, ConstantsAssumption, Live, Working, Current
  <2>4. proc[w].pc \in Bound /\ proc[w].token.job = j
    BY <1>1, <2>1, HeldWrites DEF Bound, LeaseInv, Working, Current
  <2> QED BY <2>1, <2>2, <2>3, <2>4
<1>3. /\ proc'[w].pc = "exiting" /\ proc'[w].generation = proc[w].generation
      /\ proc'[w].held = NoLease /\ proc'[w].building = FALSE /\ Elsewhere(w)
  BY <1>1, <1>2, ForgetEffect
<1>4. /\ fence'[j] = HandoffFence(j)
      /\ state'[j] = IF state[j] = "verifying" \/ HasCleanupWork(j)
                     THEN state[j] ELSE "queued"
      /\ attempt'[j] = IF state[j] # "verifying" /\ HasCleanupWork(j)
                       THEN Retired(j) ELSE attempt[j]
      /\ \A k \in Jobs : k # j => SameJob(k)
  BY <1>1, <1>2 DEF SetFence, TypeOK, SameJob, SameRow
<1>5. /\ fence'[j].worker = fence[j].worker /\ fence'[j].lease = 0
      /\ fence'[j].attempt = IF /\ state[j] # "verifying" /\ ~HasCleanupWork(j)
                                /\ CurrentAttempt(j) = "cleaned"
                             THEN fence[j].attempt + 1 ELSE fence[j].attempt
  <2>1. fence[j] \in Fences
    BY <1>2, JobTypes
  <2> QED BY <1>4, <2>1 DEF HandoffFence, Fences
<1>6. AttemptGood(j)' /\ (Spent(j)' <= MaxAttempt \/ fence'[j].attempt = fence[j].attempt)
  <2>1. CASE state[j] = "verifying"
    BY <1>1, <1>2, <1>4, <1>5, <2>1, AttemptStays
  <2>2. CASE state[j] # "verifying" /\ HasCleanupWork(j)
    <3>1. state[j] # "queued"
      BY <1>2, <2>2 DEF AttemptGood
    <3> QED BY <1>2, <1>4, <1>5, <2>2, <3>1, AttemptRetired
  <2>3. CASE state[j] # "verifying" /\ ~HasCleanupWork(j)
    <3>1. /\ state'[j] = "queued" /\ attempt'[j] = attempt[j] /\ snap'[j] = snap[j]
          /\ row'.generation = row.generation
          /\ fence'[j].attempt = IF CurrentAttempt(j) = "cleaned"
                                 THEN fence[j].attempt + 1 ELSE fence[j].attempt
      BY <1>1, <1>4, <1>5, <2>3
    <3> QED BY <1>2, <2>3, <3>1, AttemptRequeued
  <2> QED BY <2>1, <2>2, <2>3
<1>7. HeldInv'
  <2>1. HeldShape(proc[w])'
    <3>1. NoLease.job = 0 /\ NoLease.job \notin Jobs /\ created' = created
      BY <1>1, NoLeaseFields, ConstantsAssumption
         DEF NoJob, Jobs, ConstantsAssumption
    <3> QED BY <1>2, <1>3, <3>1 DEF HeldShape
  <2> QED BY <1>1, <1>2, <1>3, <2>1, HeldKept
<1>8. FenceInv'
  <2>1. \A k \in Jobs : SameRow(k) \/ state[k] # "absent"
    BY <1>2, <1>4 DEF SameJob, Active
  <2>2. \A k \in Jobs : fence'[k].worker = fence[k].worker
    BY <1>4, <1>5 DEF SameJob, SameRow
  <2>3. created' >= created /\ row'.generation >= row.generation
    BY <1>1, <1>2
  <2> QED BY <2>1, <2>2, <2>3, FenceKept
<1>9. AttemptInv' /\ SpentInv'
  <2>1. \A k \in Jobs : \/ fence'[k].attempt = fence[k].attempt
                        \/ Spent(k)' <= MaxAttempt
    BY <1>4, <1>6 DEF SameJob, SameRow
  <2>2. ASSUME NEW k \in Jobs, k # j PROVE AttemptGood(k)'
    BY <1>4, <2>2, AttemptStays DEF SameJob, SameRow
  <2>3. SpentInv'
    BY <1>1, <2>1, SpentKept
  <2> QED BY <1>6, <2>2, <2>3 DEF AttemptInv
<1>10. LossInv'
  <2>1. \A k \in Jobs : k # j => ~Writes(w, k)
    BY DEF Writes
  <2>2. \A k \in Jobs : Active(k)' /\ fence'[k].lease # 0 =>
           Active(k) /\ fence'[k] = fence[k] /\ ~Writes(w, k)
    BY <1>4, <1>5, <2>1 DEF SameJob, SameRow, Active
  <2>3. \A k \in Jobs : resume'[k] <= losses[k]
    BY <1>1 DEF LeaseInv, LossInv
  <2> QED BY <1>1, <1>3, <2>2, <2>3, LossKept
<1>11. WorkerInv'
  <2>1. LeakFree(w)
    BY <1>2 DEF LeaseInv, WorkerInv, Sound
  <2>2. LeakFree(w)'
    BY <1>2, <1>3, <1>4, <1>5, <2>1 DEF LeakFree, Stale, SameJob, SameRow, Active
  <2>3. Solvent(w)' /\ Sequential(w)'
    BY <1>3 DEF Solvent, Sequential
  <2> QED BY <1>1, <1>2, <1>3, <2>2, <2>3, AllSound
<1>12. OneInv'
  <2>1. state[j] \in InProgress \/ state'[j] = "queued"
    BY <1>2, <1>4 DEF Active, AttemptGood
  <2>2. \A k \in Jobs : /\ state'[k] \in InProgress => state[k] \in InProgress
                        /\ state'[k] = "complete" => state[k] = "complete"
    BY <1>2, <1>4, <2>1 DEF SameJob, Active
  <2> QED BY <1>1, <2>2, OneKept
<1> QED BY <1>7, <1>8, <1>9, <1>10, <1>11, <1>12 DEF LeaseInv, Fenced

\* A worker on its way out of a job that has ended.
LEMMA EndedStep ==
    ASSUME LeaseInv, Fenced, NEW w \in Workers, Live(w), proc[w].pc \in Ended,
           \/ Stays(w) /\ proc'[w].pc \in Ended
           \/ /\ proc'[w].pc \in {"idle", "exiting"} /\ proc'[w].held = NoLease
              /\ proc'[w].building = FALSE /\ Elsewhere(w)
              /\ proc'[w].generation = proc[w].generation,
           UNCHANGED <<row, created, resume, losses, owner, state>>,
           \A k \in Jobs :
              \/ SameRow(k)
              \/ /\ ~Active(k) /\ state[k] # "absent" /\ AttemptGood(k)'
                 /\ fence'[k].attempt = fence[k].attempt
                 /\ fence'[k].worker = fence[k].worker
    PROVE  LeaseInv'
<1>1. /\ proc[w].pc \notin Bound /\ proc[w].pc \notin {"down", "exiting"}
      /\ proc'[w].pc \notin Bound /\ proc'[w].pc \notin Finding
      /\ Elsewhere(w) /\ proc'[w].generation = proc[w].generation
  BY DEF Ended, Bound, Finding, Stays
<1>2. HeldShape(proc[w])'
  <2>1. proc[w].building = FALSE /\ created' \in Nat /\ created' >= created
    <3>1. created \in Nat
      BY ConstantsAssumption DEF LeaseInv, FencingInv, TypeOK, ConstantsAssumption
    <3>2. created' = created /\ created \in Int
      BY <3>1
    <3>3. proc[w].building = FALSE
      BY <1>1, NoToken
    <3> QED BY <3>1, <3>2, <3>3
  <2>2. CASE Stays(w) /\ proc'[w].pc \in Ended
    BY <2>1, <2>2, HeldStays DEF Stays
  <2>3. CASE /\ proc'[w].pc \in {"idle", "exiting"} /\ proc'[w].held = NoLease
             /\ proc'[w].building = FALSE
    <3>1. NoLease.job = 0 /\ NoLease.job \notin Jobs
      BY NoLeaseFields, ConstantsAssumption DEF NoJob, Jobs, ConstantsAssumption
    <3> QED BY <2>1, <2>3, <3>1 DEF HeldShape, Ended
  <2> QED BY <2>2, <2>3
<1>3. OneInv'
  BY OneKept
<1>4. \A k \in Jobs : /\ fence'[k].attempt = fence[k].attempt
                      /\ fence'[k].worker = fence[k].worker
                      /\ AttemptGood(k)'
  BY AttemptStays DEF SameRow
<1>5. /\ \A k \in Jobs : Active(k)' => SameJob(k)
      /\ \A k \in Jobs : SameRow(k) \/ state[k] # "absent"
  BY DEF Active, SameJob
<1> QED BY <1>1, <1>2, <1>3, <1>4, <1>5, WalkStep

LEMMA FinishesLease ==
    ASSUME LeaseInv, Fenced, NEW w \in Workers,
           \/ CleanupTerminalRetiring(w) \/ CleanupComplete(w) \/ FinishLost(w)
           \/ ReleaseJobLease(w)
    PROVE  LeaseInv'
<1> PICK j : j = proc[w].held.job
  OBVIOUS
<1> PICK g : g = proc[w].held.attempt
  OBVIOUS
<1>1. /\ Live(w) /\ proc[w].pc \in Ended /\ TypeOK
      /\ UNCHANGED <<row, created, resume, losses, owner, state>>
  BY DEF CleanupTerminalRetiring, CleanupComplete, FinishLost, ReleaseJobLease, Live,
     Current, Ended, LeaseInv, FencingInv
<1>2. /\ \A k \in Jobs : k = j => ~Active(k)
      /\ \A k \in Jobs : Active(k) => ~Writes(w, k)
  <2>1. HeldShape(proc[w])
    BY DEF LeaseInv, HeldInv
  <2> QED BY <1>1, <2>1 DEF HeldShape, Writes
<1>3. /\ attempt \in [Jobs -> [Attempts -> AttemptStates]] /\ Attempts \subseteq Nat
      /\ fence \in [Jobs -> Fences] /\ \A k \in Jobs : fence[k] \in Fences
  BY <1>1, ConstantsAssumption, JobTypes DEF TypeOK, Attempts, ConstantsAssumption
<1>4. FenceMatches(w, proc[w].held) =>
        /\ j \in Jobs /\ state[j] # "absent" /\ ~Active(j)
        /\ g = fence[j].attempt /\ g \in Attempts
  <2> SUFFICES ASSUME FenceMatches(w, proc[w].held)
               PROVE  /\ j \in Jobs /\ state[j] # "absent" /\ ~Active(j)
                      /\ g = fence[j].attempt /\ g \in Attempts
    OBVIOUS
  <2>1. j \in Jobs
    BY <1>1, ProcTypes DEF FenceMatches, LeaseTokens
  <2>2. state[j] # "absent" /\ g = fence[j].attempt
    BY DEF FenceMatches
  <2>3. Spent(j) <= MaxAttempt
    BY <2>1 DEF LeaseInv, SpentInv
  <2>4. fence[j].attempt \in Attempts
    BY <1>1, <2>1, <2>3, JobTypes DEF Spent, Attempts
  <2> QED BY <1>2, <2>1, <2>2, <2>4
<1>5. CASE CleanupTerminalRetiring(w)
  <2>1. /\ state[j] = "failed" /\ Goto(w, "releasing") /\ UNCHANGED <<fence, snap>>
        /\ attempt[j][g] = "retiring" /\ SetAttempt(j, g, "cleaned")
    BY <1>5 DEF CleanupTerminalRetiring
  <2>2. proc'[w].pc \in Ended /\ Stays(w)
    BY <1>1, <2>1, GotoEffect DEF Ended
  <2>3. ASSUME NEW k \in Jobs, ~SameRow(k)
        PROVE  k = j /\ AttemptGood(k)'
    <3>1. attempt'[k] # attempt[k]
      BY <2>1, <2>3 DEF SameRow
    <3>2. k = j /\ g \in Attempts
      BY <1>3, <2>1, <3>1 DEF SetAttempt
    <3>3. attempt'[j] = [attempt[j] EXCEPT ![g] = "cleaned"] /\ g \in Nat
      <4>1. j \in Jobs /\ g \in Nat
        BY <1>3, <3>2
      <4> QED BY <1>1, <2>1, <3>2, <4>1, SetAttemptEffect
    <3>4. /\ fence'[j].attempt = fence[j].attempt /\ state'[j] = state[j]
          /\ snap'[j] = snap[j] /\ attempt[j][g] \notin {"none", "cleaned"} /\ j \in Jobs
      BY <1>1, <2>1, <3>2
    <3>5. AttemptGood(j)'
      BY <3>3, <3>4, AttemptCleaned
    <3> QED BY <3>2, <3>5
  <2>4. \A k \in Jobs :
           \/ SameRow(k)
           \/ /\ ~Active(k) /\ state[k] # "absent" /\ AttemptGood(k)'
              /\ fence'[k].attempt = fence[k].attempt
              /\ fence'[k].worker = fence[k].worker
    BY <1>2, <2>1, <2>3
  <2> QED BY <1>1, <2>2, <2>4, EndedStep
<1>6. CASE CleanupComplete(w)
  <2>1. /\ state[j] = "complete" /\ UNCHANGED fence /\ FenceMatches(w, proc[w].held)
        /\ UNCHANGED proc \/ Goto(w, "releasing")
        /\ \/ UNCHANGED attempt
           \/ attempt[j][g] = "published" /\ SetAttempt(j, g, "cleaned") /\ UNCHANGED snap
        /\ UNCHANGED snap \/ (snap' = [snap EXCEPT ![j] = "none"] /\ UNCHANGED attempt)
    BY <1>6 DEF CleanupComplete, Current
  <2>2. proc'[w].pc \in Ended /\ Stays(w)
    <3>1. CASE UNCHANGED proc
      BY <1>1, <3>1 DEF Stays, Elsewhere
    <3>2. CASE Goto(w, "releasing")
      BY <1>1, <3>2, GotoEffect DEF Ended
    <3> QED BY <2>1, <3>1, <3>2
  <2>3. j \in Jobs /\ g \in Attempts /\ ~Active(j) /\ g \in Nat
    BY <1>3, <1>4, <2>1
  <2>4. AttemptGood(j)'
    <3>1. CASE UNCHANGED attempt
      BY <1>1, <2>1, <2>3, <3>1, AttemptStays
    <3>2. CASE /\ attempt[j][g] = "published" /\ SetAttempt(j, g, "cleaned")
               /\ UNCHANGED snap
      <4>1. attempt'[j] = [attempt[j] EXCEPT ![g] = "cleaned"]
        BY <1>1, <2>3, <3>2, SetAttemptEffect
      <4>2. /\ fence'[j].attempt = fence[j].attempt /\ state'[j] = state[j]
            /\ snap'[j] = snap[j] /\ attempt[j][g] \notin {"none", "cleaned"}
        BY <1>1, <2>1, <3>2
      <4> QED BY <2>3, <4>1, <4>2, AttemptCleaned
    <3> QED BY <2>1, <3>1, <3>2
  <2>5. \A k \in Jobs : k # j => SameRow(k)
    <3>1. snap \in [Jobs -> {"none", "candidate", "confirmed"}]
      BY <1>1 DEF TypeOK
    <3>2. \A k \in Jobs : k # j => attempt'[k] = attempt[k]
      BY <1>1, <2>1, <2>3, SetAttemptEffect
    <3>3. \A k \in Jobs : k # j => snap'[k] = snap[k]
      BY <2>1, <3>1
    <3> QED BY <2>1, <3>2, <3>3 DEF SameRow
  <2>6. \A k \in Jobs :
           \/ SameRow(k)
           \/ /\ ~Active(k) /\ state[k] # "absent" /\ AttemptGood(k)'
              /\ fence'[k].attempt = fence[k].attempt
              /\ fence'[k].worker = fence[k].worker
    BY <2>1, <2>3, <2>4, <2>5
  <2> QED BY <1>1, <2>2, <2>6, EndedStep
<1>7. SetFence(j, Released(j)) /\ FenceMatches(w, proc[w].held) =>
        \A k \in Jobs : /\ k # j => fence'[k] = fence[k]
                        /\ fence'[k].attempt = fence[k].attempt
                        /\ fence'[k].worker = fence[k].worker
  <2> SUFFICES ASSUME SetFence(j, Released(j)), FenceMatches(w, proc[w].held)
               PROVE  \A k \in Jobs : /\ k # j => fence'[k] = fence[k]
                                      /\ fence'[k].attempt = fence[k].attempt
                                      /\ fence'[k].worker = fence[k].worker
    OBVIOUS
  <2>1. j \in Jobs
    BY <1>4
  <2>2. fence' = [fence EXCEPT ![j] = [fence[j] EXCEPT !.lease = 0]]
    BY DEF SetFence, Released
  <2> QED BY <1>3, <2>1, <2>2 DEF Fences
<1>8. CASE FinishLost(w)
  <2>1. /\ Becomes(w, Dead) /\ FenceMatches(w, proc[w].held)
        /\ SetFence(j, Released(j)) \/ UNCHANGED fence
        /\ UNCHANGED <<attempt, snap>>
    BY <1>8 DEF FinishLost, Current
  <2>2. \/ UNCHANGED fence
        \/ \A k \in Jobs : /\ k # proc[w].held.job => fence'[k] = fence[k]
                           /\ state[k] = "absent" => fence'[k] = fence[k]
                           /\ fence'[k].attempt = fence[k].attempt
                           /\ fence'[k].worker = fence[k].worker
    BY <1>4, <1>7, <2>1
  <2>3. /\ proc[w].pc # "down" /\ row'.generation = row.generation
        /\ row'.held => row.held /\ row' = row /\ UNCHANGED losses
        /\ UNCHANGED <<state, owner, attempt, snap, resume, created>>
    BY <1>1, <2>1 DEF Ended
  <2> QED BY <1>1, <1>2, <2>1, <2>2, <2>3, DownStep
<1>9. CASE ReleaseJobLease(w)
  <2>1. /\ \/ SetFence(j, Released(j)) /\ FenceMatches(w, proc[w].held)
           \/ UNCHANGED fence
        /\ Forget(w, "idle") \/ Forget(w, "exiting")
        /\ UNCHANGED <<attempt, snap>>
    BY <1>9 DEF ReleaseJobLease
  <2>2. /\ proc'[w].pc \in {"idle", "exiting"} /\ proc'[w].held = NoLease
        /\ proc'[w].building = FALSE /\ Elsewhere(w)
        /\ proc'[w].generation = proc[w].generation
    BY <1>1, <2>1, ForgetEffect
  <2>3. \A k \in Jobs :
           \/ SameRow(k)
           \/ /\ ~Active(k) /\ state[k] # "absent" /\ AttemptGood(k)'
              /\ fence'[k].attempt = fence[k].attempt
              /\ fence'[k].worker = fence[k].worker
    <3>1. CASE UNCHANGED fence
      BY <2>1, <3>1 DEF SameRow
    <3>2. CASE SetFence(j, Released(j)) /\ FenceMatches(w, proc[w].held)
      <4>1. /\ \A k \in Jobs : /\ k # j => fence'[k] = fence[k]
                               /\ fence'[k].attempt = fence[k].attempt
                               /\ fence'[k].worker = fence[k].worker
            /\ ~Active(j) /\ state[j] # "absent" /\ j \in Jobs
        BY <1>4, <1>7, <3>2
      <4>2. AttemptGood(j)'
        BY <1>1, <2>1, <4>1, AttemptStays
      <4> QED BY <2>1, <4>1, <4>2 DEF SameRow
    <3> QED BY <2>1, <3>1, <3>2
  <2> QED BY <1>1, <2>2, <2>3, EndedStep
<1> QED BY <1>5, <1>6, <1>8, <1>9

-----------------------------------------------------------------------------
(* The theorems.                                                             *)

LEMMA InitLease == Init => LeaseInv
<1> SUFFICES ASSUME Init PROVE LeaseInv
  OBVIOUS
<1>1. FencingInv /\ TypeOK
  BY InitFencing DEF FencingInv
<1>2. 0 \in Attempts /\ MaxAttempt \in Nat /\ MaxGeneration \in Nat
      /\ MaxGeneration <= MaxAttempt
  BY ConstantsAssumption DEF Attempts, ConstantsAssumption
<1>3. /\ row.generation = 0 /\ row.held = FALSE /\ created = 0
      /\ \A w \in Workers : proc[w] = Dead
      /\ \A j \in Jobs : /\ state[j] = "absent" /\ fence[j].worker = 0
                         /\ fence[j].lease = 0 /\ fence[j].attempt = 0
                         /\ attempt[j] = NoAttempts /\ snap[j] = "none"
                         /\ resume[j] = 0 /\ losses[j] = 0
  BY DEF Init
<1>4. HeldInv
  <2>1. Dead.held.job = 0 /\ Dead.pc = "down" /\ Dead.held = NoLease /\ ~Dead.building
    BY NoLeaseFields DEF Dead, NoJob
  <2> QED BY <1>3, <2>1 DEF HeldInv, HeldShape, Ended
<1>5. FenceInv
  BY <1>3 DEF FenceInv
<1>6. AttemptInv
  <2>1. \A j \in Jobs : UncleanAttempts(j) = {}
    BY <1>3 DEF UncleanAttempts, NoAttempts
  <2>2. \A j \in Jobs, g \in Attempts : attempt[j][g] = "none"
    BY <1>3 DEF NoAttempts
  <2> QED BY <1>3, <2>1, <2>2 DEF AttemptInv, AttemptGood
<1>7. SpentInv
  BY <1>2, <1>3 DEF SpentInv, Spent
<1>8. LossInv
  BY <1>3 DEF LossInv, Uncharged, Active
<1>9. WorkerInv
  BY <1>3 DEF WorkerInv, Sound, Live, WorkerCurrent
<1>10. OneInv
  BY <1>3 DEF OneInv
<1> QED BY <1>1, <1>4, <1>5, <1>6, <1>7, <1>8, <1>9, <1>10 DEF LeaseInv

LEMMA StutterLease ==
    ASSUME LeaseInv, Fenced, UNCHANGED vars
    PROVE  LeaseInv'
<1>1. /\ UNCHANGED <<row, proc, fence, attempt, snap, resume, losses>>
      /\ UNCHANGED <<state, owner, created>>
  BY DEF vars
<1>2. created' >= created
  BY <1>1, ConstantsAssumption DEF LeaseInv, FencingInv, TypeOK, ConstantsAssumption
<1>3. /\ \A k \in Jobs : Active(k)' => state'[k] = state[k]
      /\ \A k \in Jobs : state'[k] = "complete" =>
           state[k] = "complete" /\ owner'[k] \in {owner[k], NoOwner}
  BY <1>1
<1> QED BY <1>1, <1>2, <1>3, EnvironmentStep

LEMMA StepLease == ASSUME LeaseInv, [Next]_vars PROVE LeaseInv'
<1>1. Fenced
  BY StepTypeOK, StepFencing DEF LeaseInv, FencingInv, Fenced
<1>2. ASSUME NEW w \in Workers, WorkerStep(w) \/ WorkerFault(w) PROVE LeaseInv'
  <2>1. CASE AcquireWorkerLease(w)
    BY <1>1, <2>1, AcquireLease
  <2>2. CASE \/ Crash(w) \/ ExitLost(w) \/ StorageFailure(w) \/ StopIdle(w)
             \/ ReleaseWorkerLease(w) \/ WakeUp(w)
    BY <1>1, <2>2, LifeLease
  <2>3. CASE Maintenance(w) \/ CleanupPutOff(w)
    BY <1>1, <2>3, MaintenanceLease
  <2>4. CASE Claims(w)
    BY <1>1, <2>4, ClaimsLease
  <2>5. CASE \/ Services(w) \/ Handoff(w) \/ ExportErrorRaised(w)
    <3> PICK j : j = proc[w].held.job
      OBVIOUS
    <3> PICK g : g = proc[w].held.attempt
      OBVIOUS
    <3>1. CASE PlanCandidate(w) \/ CleanupCandidate(w) \/ FinalizeSnapshot(w)
      BY <1>1, <3>1, SnapshotLease
    <3>2. CASE RecordDirectory(w) \/ AdvanceAttempt(w) \/ MarkRetiringIntent(w)
      BY <1>1, <3>2, AttemptLease
    <3>3. CASE RotateRevoked(w) \/ RotateRecovered(w)
      BY <1>1, <3>3, RotationLease
    <3>4. CASE RetireAbandoned(w) \/ CleanupRetiring(w)
      BY <1>1, <3>4, RetiringLease
    <3>5. CASE PermissionChanged(w) \/ ExportErrorRaised(w)
      BY <1>1, <3>5, GivesUpLease
    <3>6. CASE CompleteLocked(w)
      BY <1>1, <3>6, CompleteLease
    <3>7. CASE FailJob(w) \/ RecordOwnerDeleted(w)
      BY <1>1, <3>7, FailedLease
    <3>8. CASE Handoff(w)
      BY <1>1, <3>8, HandoffLease
    <3>9. CASE \/ CleanupTerminalRetiring(w) \/ CleanupComplete(w) \/ FinishLost(w)
               \/ ReleaseJobLease(w)
      BY <1>1, <3>9, FinishesLease
    <3> QED BY <2>5, <3>1, <3>2, <3>3, <3>4, <3>5, <3>6, <3>7, <3>8, <3>9 DEF Services
  <2> QED BY <1>2, <2>1, <2>2, <2>3, <2>4, <2>5 DEF WorkerStep, WorkerFault
<1>3. CASE Environment
  BY <1>1, <1>3, EnvironmentLease
<1>4. CASE UNCHANGED vars
  BY <1>1, <1>4, StutterLease
<1> QED BY <1>2, <1>3, <1>4 DEF Next

LEMMA LeaseInvHolds == Spec => []LeaseInv
<1> QED BY InitLease, StepLease, PTL DEF Spec

\* A takeover leaves everything in order: an active job under a lease of the
\* newest worker is the job that worker goes on with, resume_count never exceeds
\* the leases that dead workers left on the job, and at most one attempt of a
\* job may have files: the current one, or the retiring one before it.
THEOREM TakeoversSound == Spec => []TakeoversAreSound
<1>1. ASSUME LeaseInv PROVE TakeoversAreSound
  <2>1. NoLeakedLease
    BY <1>1 DEF LeaseInv, WorkerInv, Sound, Live, LeakFree, Active, NoLeakedLease
  <2>2. ResumeOnlyForLostLeases
    BY <1>1 DEF LeaseInv, LossInv, ResumeOnlyForLostLeases
  <2>3. ASSUME NEW j \in Jobs, NEW g \in UncleanAttempts(j)
        PROVE  /\ UncleanAttempts(j) = {g}
               /\ \/ g = fence[j].attempt
                  \/ g + 1 = fence[j].attempt /\ attempt[j][g] = "retiring"
    <3>1. AttemptGood(j) /\ fence[j].attempt \in Nat /\ Attempts \subseteq Nat
      BY <1>1, JobTypes, ConstantsAssumption
         DEF LeaseInv, AttemptInv, FencingInv, Attempts, ConstantsAssumption
    <3>2. ASSUME NEW h \in UncleanAttempts(j) PROVE h = g
      <4>1. /\ h \in Nat /\ g \in Nat
            /\ attempt[j][h] # "none" /\ attempt[j][g] # "none"
        BY <3>1 DEF UncleanAttempts
      <4>2. /\ h = fence[j].attempt \/ (h + 1 = fence[j].attempt /\ CurrentAttempt(j) = "none")
            /\ g = fence[j].attempt \/ (g + 1 = fence[j].attempt /\ CurrentAttempt(j) = "none")
        BY <3>1 DEF AttemptGood
      <4>3. h = fence[j].attempt \/ g = fence[j].attempt => CurrentAttempt(j) # "none"
        BY <4>1 DEF CurrentAttempt
      <4> QED BY <3>1, <4>1, <4>2, <4>3
    <3> QED BY <3>1, <3>2 DEF AttemptGood
  <2> QED BY <2>1, <2>2, <2>3 DEF TakeoversAreSound, SingleLiveAttempt
<1> QED BY <1>1, LeaseInvHolds, PTL

LEMMA AtMostOne ==
    ASSUME NEW S, \A a, b \in S : a = b
    PROVE  Cardinality(S) <= 1
<1>1. CASE S = {}
  <2>1. Cardinality(S) = 0
    BY <1>1, FS_EmptySet
  <2> QED BY <2>1
<1>2. CASE S # {}
  <2>1. PICK a : a \in S
    BY <1>2
  <2>2. S = {a}
    BY <2>1
  <2>3. Cardinality(S) = 1
    BY <2>2, FS_Singleton
  <2> QED BY <2>3
<1> QED BY <1>1, <1>2

\* At most one export is being captured, archived or verified at a time, over
\* all accounts, whatever workers crash and take over; and an account has at
\* most one completed export.
THEOREM ExportsOneAtATime == Spec => []OneAtATime
<1>1. ASSUME LeaseInv PROVE OneAtATime
  <2>1. Cardinality({j \in Jobs : state[j] \in InProgress}) <= 1
    <3>1. \A a, b \in {j \in Jobs : state[j] \in InProgress} : a = b
      BY <1>1 DEF LeaseInv, OneInv
    <3> QED BY <3>1, AtMostOne
  <2>2. ASSUME NEW o \in Owners
        PROVE  Cardinality({j \in Jobs : state[j] = "complete" /\ owner[j] = o}) <= 1
    <3>1. o # NoOwner
      BY ConstantsAssumption DEF ConstantsAssumption
    <3>2. \A a, b \in {j \in Jobs : state[j] = "complete" /\ owner[j] = o} : a = b
      BY <1>1, <3>1 DEF LeaseInv, OneInv
    <3> QED BY <3>2, AtMostOne
  <2> QED BY <2>1, <2>2 DEF OneAtATime
<1> QED BY <1>1, LeaseInvHolds, PTL
=============================================================================
