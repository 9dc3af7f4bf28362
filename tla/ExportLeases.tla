---------------------------- MODULE ExportLeases ----------------------------
(***************************************************************************)
(* The lease protocol of the background export worker                      *)
(* (src/exports/services/worker.py, src/exports/contracts.py): how worker  *)
(* processes take turns, how a job is claimed, handed over after a normal  *)
(* stop, taken over after a crash, failed, completed and cleaned up, and   *)
(* how the owner's slot follows it.                                        *)
(*                                                                         *)
(* Every database transaction of the code is one action: each runs inside  *)
(* database_write_fence, so transactions are serial.  Between two of them  *)
(* any process may crash, any other worker, web request or account         *)
(* deletion may run.  What one attempt does to the file system is the      *)
(* subject of ExportAttempts; here an attempt is its row's state.          *)
(***************************************************************************)
EXTENDS Integers, FiniteSets

CONSTANTS
    Workers,            \* worker process slots; a slot runs many incarnations
    Root,               \* Root[w]: the export root whose .worker.lock w flocks
    Owners,             \* user accounts
    NoOwner,            \* owner_id IS NULL
    MaxJobs,            \* bound: export jobs ever created
    OwnerLimit,         \* rows an owner may keep (3 in jobs.py)
    MaxAbnormalResumes, \* MAX_ABNORMAL_RESUMES (3 in worker.py)
    MaxGeneration,      \* bound: worker generations
    MaxAttempt          \* bound: attempt generations of one job

ASSUME ConstantsAssumption ==
    /\ MaxJobs \in Nat /\ OwnerLimit \in Nat /\ MaxAbnormalResumes \in Nat
    /\ MaxGeneration \in Nat /\ MaxAttempt \in Nat
    /\ MaxGeneration <= MaxAttempt    \* bound: an attempt for each worker to recover with
    /\ NoOwner \notin Owners /\ IsFiniteSet(Workers)
    /\ DOMAIN Root = Workers

Jobs == 1..MaxJobs      \* numbered in the order of created_at
NoJob == 0
Attempts == 0..MaxAttempt

ActiveStates == {"queued", "snapshotting", "archiving", "verifying"}
TerminalStates == {"complete", "failed", "expired"}
JobStates == ActiveStates \cup TerminalStates \cup {"absent"}
InProgress == {"snapshotting", "archiving", "verifying"}
AttemptStates ==
    {"none", "writing", "closed", "verifying", "retiring", "published", "cleaned"}
NoAttempts == [g \in Attempts |-> "none"]

\* What ExportWorker and LeaseHeartbeat remember of a claimed job.
LeaseTokens == [job: Jobs \cup {NoJob}, lease: Nat, attempt: Nat]
NoLease == [job |-> NoJob, lease |-> 0, attempt |-> 0]

\* Program counters of run_once, in the order of its transactions.
MaintenanceSteps == {"ownerless", "complete", "expire", "ready", "staging",
                     "orphans", "allowed"}
ClaimSteps == {"retiring", "verifying", "requeue", "retiring2", "queued"}
ServiceSteps == {"work", "failing", "finishing", "releasing", "ownerclean"}
ProgramCounters == {"down", "idle", "exiting"} \cup MaintenanceSteps
                   \cup ClaimSteps \cup ServiceSteps

VARIABLES
    row,      \* ExportWorkerLease pk=1: generation, lease_uuid set?, health
    proc,     \* proc[w]: one worker process: pc, generation, tokens, flags
    state,    \* ExportJob.state ("absent": no such row)
    owner,    \* ExportJob.owner_id
    fence,    \* ExportJob.worker_generation, lease_uuid, attempt_generation
    resume,   \* ExportJob.resume_count
    snap,     \* which snapshot generation column is set
    staging,  \* ExportJob.staging_cleanup_state
    ready,    \* ExportJob.ready_cleanup_state
    attempt,  \* ExportAttempt.state by attempt_generation
    slot,     \* ExportSlot.current_job by owner
    users,    \* accounts that exist
    due,      \* jobs whose expires_at has passed
    created,  \* jobs created so far: their order is that of created_at
    issued,   \* history: lease uuids handed out for a job
    losses    \* history: leases of a job whose process died or was superseded

jobVars == <<state, owner, fence, resume, snap, staging, ready, attempt, due>>
vars == <<row, proc, state, owner, fence, resume, snap, staging, ready,
          attempt, slot, users, due, created, issued, losses>>

Processes == [pc: ProgramCounters, generation: 0..MaxGeneration,
              token: LeaseTokens, held: LeaseTokens,
              building: BOOLEAN, worked: BOOLEAN]
Fences == [worker: 0..MaxGeneration, lease: Nat, attempt: Nat]

\* The shape of the rows and of what a process remembers.
TypeOK ==
    /\ row \in [generation: 0..MaxGeneration, held: BOOLEAN,
                health: {"stopped", "ready", "failed"}]
    /\ proc \in [Workers -> Processes]
    /\ state \in [Jobs -> JobStates]
    /\ owner \in [Jobs -> Owners \cup {NoOwner}]
    /\ fence \in [Jobs -> Fences]
    /\ resume \in [Jobs -> 0..MaxAbnormalResumes]
    /\ snap \in [Jobs -> {"none", "candidate", "confirmed"}]
    /\ staging \in [Jobs -> {"pending", "cleaned", "blocked"}]
    /\ ready \in [Jobs -> {"absent", "retained", "pending", "cleaned", "blocked"}]
    /\ attempt \in [Jobs -> [Attempts -> AttemptStates]]
    /\ slot \in [Owners -> Jobs \cup {NoJob}]
    /\ users \in SUBSET Owners
    /\ due \in SUBSET Jobs
    /\ created \in 0..MaxJobs
    /\ issued \in [Jobs -> Nat]
    /\ losses \in [Jobs -> Nat]

Dead == [pc |-> "down", generation |-> 0, token |-> NoLease, held |-> NoLease,
         building |-> FALSE, worked |-> FALSE]

Init ==
    /\ row = [generation |-> 0, held |-> FALSE, health |-> "stopped"]
    /\ proc = [w \in Workers |-> Dead]
    /\ state = [j \in Jobs |-> "absent"]
    /\ owner = [j \in Jobs |-> NoOwner]
    /\ fence = [j \in Jobs |-> [worker |-> 0, lease |-> 0, attempt |-> 0]]
    /\ resume = [j \in Jobs |-> 0]
    /\ snap = [j \in Jobs |-> "none"]
    /\ staging = [j \in Jobs |-> "pending"]
    /\ ready = [j \in Jobs |-> "absent"]
    /\ attempt = [j \in Jobs |-> NoAttempts]
    /\ slot = [o \in Owners |-> NoJob]
    /\ users = Owners
    /\ due = {}
    /\ created = 0
    /\ issued = [j \in Jobs |-> 0]
    /\ losses = [j \in Jobs |-> 0]

-----------------------------------------------------------------------------
(* Fences and predicates the transactions test.                            *)

\* Bound: faults happen only while a further worker generation can start, so
\* the last worker of a behaviour runs undisturbed.
MayRestart == row.generation < MaxGeneration

\* lock_current_worker_lease: the process still owns the worker row.
WorkerCurrent(w) == row.held /\ row.generation = proc[w].generation

\* LeaseToken.job_fence: the job row still carries this lease.
FenceMatches(w, l) ==
    /\ l.job # NoJob
    /\ state[l.job] # "absent"
    /\ fence[l.job] = [worker |-> proc[w].generation, lease |-> l.lease,
                       attempt |-> l.attempt]

\* mutant: any remembered job passes
Current_Unfenced(w, l) == l.job # NoJob

\* lock_current_lease: both fences.
Current(w, l) == WorkerCurrent(w) /\ FenceMatches(w, l)

\* Process w passes the fences for job j.
Writes(w, j) == proc[w].held.job = j /\ Current(w, proc[w].held)

UncleanAttempts(j) == {g \in Attempts : attempt[j][g] \notin {"none", "cleaned"}}
HasCleanupWork(j) == snap[j] = "candidate" \/ UncleanAttempts(j) # {}
CurrentAttempt(j) == attempt[j][fence[j].attempt]

\* lease_uuid IS NULL, or a lease of another worker generation.
Stale(w, j) == fence[j].lease = 0 \/ fence[j].worker # proc[w].generation
AbnormalTakeover(w, j) ==
    fence[j].lease # 0 /\ fence[j].worker # proc[w].generation

\* ORDER BY state, created_at, with the names in alphabetical order.
StateRank(s) == CASE s = "archiving" -> 1 [] s = "queued" -> 2
                  [] s = "snapshotting" -> 3 [] OTHER -> 4
IsFirst(j, S) ==
    /\ j \in S
    /\ \A k \in S : \/ StateRank(state[j]) < StateRank(state[k])
                    \/ (StateRank(state[j]) = StateRank(state[k]) /\ j <= k)
IsOldest(j, S) == j \in S /\ \A k \in S : j <= k

Ownerless == {j \in Jobs : owner[j] = NoOwner /\ state[j] \in ActiveStates}
CompleteMaintenance ==
    {j \in Jobs : /\ state[j] = "complete" /\ staging[j] # "blocked"
                  /\ (staging[j] = "pending" \/ fence[j].lease # 0)}
Expirable == {j \in Jobs : /\ state[j] = "complete" /\ ready[j] = "retained"
                           /\ (j \in due \/ owner[j] = NoOwner)}
ReadyWork == {j \in Jobs : state[j] = "expired" /\ ready[j] = "pending"}
StagingWork ==
    {j \in Jobs : state[j] \in {"failed", "expired"} /\ staging[j] = "pending"}
Deletable(j) ==
    /\ state[j] \in {"failed", "expired"}
    /\ staging[j] = "cleaned" /\ ready[j] \in {"absent", "cleaned"}
    /\ snap[j] = "none" /\ UncleanAttempts(j) = {}
Orphans == {j \in Jobs : owner[j] = NoOwner /\ Deletable(j)}

\* _maintenance_claim_allowed: unfinished cleanup of any job stops every claim.
ClaimsBlocked ==
    \E j \in Jobs :
        \/ state[j] \in {"failed", "expired"} /\ staging[j] # "cleaned"
        \/ state[j] = "complete" /\ staging[j] = "blocked"
        \/ state[j] # "absent" /\ ready[j] \in {"pending", "blocked"}

RetiringWork(w) ==
    {j \in Jobs : state[j] \in {"snapshotting", "archiving"} /\ Stale(w, j)
                  /\ HasCleanupWork(j)}

\* mutant: jobs handed over without a lease are forgotten
VerifyingWork_LeasedOnly(w) ==
    {j \in Jobs : state[j] = "verifying" /\ AbnormalTakeover(w, j)}

VerifyingWork(w) == {j \in Jobs : state[j] = "verifying" /\ Stale(w, j)}
RequeueWork(w) ==
    {j \in Jobs : state[j] \in {"snapshotting", "archiving"} /\ Stale(w, j)
                  /\ ~HasCleanupWork(j)}
QueuedWork ==
    {j \in Jobs : /\ state[j] = "queued" /\ owner[j] # NoOwner
                  /\ fence[j].lease = 0 /\ ~HasCleanupWork(j)
                  /\ CurrentAttempt(j) = "none"}

\* mutant: the probe does not look for abandoned jobs
HasRunnableWork_QueuedOnly(w) ==
    \/ Ownerless # {} \/ CompleteMaintenance # {} \/ Expirable # {}
    \/ ReadyWork # {} \/ StagingWork # {} \/ Orphans # {}
    \/ ~ClaimsBlocked /\ QueuedWork # {}

\* ExportWorker.has_runnable_work: the probe the idle loop waits on.
HasRunnableWork(w) ==
    \/ Ownerless # {} \/ CompleteMaintenance # {} \/ Expirable # {}
    \/ ReadyWork # {} \/ StagingWork # {} \/ Orphans # {}
    \/ /\ ~ClaimsBlocked
       /\ \/ QueuedWork # {}
          \/ \E j \in Jobs : state[j] \in InProgress /\ Stale(w, j)

-----------------------------------------------------------------------------
(* State changes shared by several transactions.                           *)

Becomes(w, p) == proc' = [proc EXCEPT ![w] = p]

SetFence(j, f) == fence' = [fence EXCEPT ![j] = f]
Released(j) == [fence[j] EXCEPT !.lease = 0]

SetAttempt(j, g, s) == attempt' = [attempt EXCEPT ![j][g] = s]

Goto(w, pc) == Becomes(w, [proc[w] EXCEPT !.pc = pc])

\* The attempts _mark_attempts_retiring_locked touches.
Retired(j) == [g \in Attempts |->
                  IF attempt[j][g] \in {"writing", "closed", "verifying"}
                  THEN "retiring" ELSE attempt[j][g]]

\* mutant: the slot stays taken
ReleaseSlot_Forgotten(j) == UNCHANGED slot

ReleaseSlot(j) == slot' = [o \in Owners |-> IF slot[o] = j THEN NoJob ELSE slot[o]]

\* _fail_locked
FailLocked(j) ==
    /\ state' = [state EXCEPT ![j] = "failed"]
    /\ staging' = [staging EXCEPT ![j] = "pending"]
    /\ SetFence(j, Released(j))
    /\ attempt' = [attempt EXCEPT ![j] = Retired(j)]
    /\ ReleaseSlot(j)
    /\ UNCHANGED <<owner, resume, snap, ready, due>>

\* The lease a job row carries.
LeaseOf(j) == [job |-> j, lease |-> fence[j].lease, attempt |-> fence[j].attempt]

\* _new_job_token: a fresh uuid for job j at its current attempt.
NewLease(j) == [job |-> j, lease |-> issued[j] + 1, attempt |-> fence[j].attempt]

\* Write lease l of process w on its job row and remember it; publish it to the
\* heartbeat too when the code does (claim_complete_maintenance does not).
TakeLease(w, l, pc, publish) ==
    /\ SetFence(l.job, [fence[l.job] EXCEPT !.worker = proc[w].generation,
                                            !.lease = l.lease])
    /\ issued' = [issued EXCEPT ![l.job] = l.lease]
    /\ Becomes(w, [proc[w] EXCEPT !.pc = pc, !.held = l,
                                  !.token = IF publish THEN l ELSE NoLease,
                                  !.building = FALSE])

Forget(w, pc) ==
    Becomes(w, [proc[w] EXCEPT !.pc = pc, !.held = NoLease, !.token = NoLease,
                               !.building = FALSE])

-----------------------------------------------------------------------------
(* The web application and the accounts.                                   *)

\* JobService._commit_locked: create a job and take the owner's slot; the
\* owner's fully cleaned failed or expired rows go first.
CreateJob(o) ==
    LET j == created + 1
        kept == {k \in Jobs : state[k] # "absent" /\ owner[k] = o /\ ~Deletable(k)}
    IN  /\ o \in users
        /\ row.health = "ready"
        /\ created < MaxJobs
        /\ \A k \in kept : staging[k] # "blocked" /\ ready[k] # "blocked"
        /\ Cardinality(kept) < OwnerLimit
        /\ \A k \in kept : state[k] \notin ActiveStates
        /\ slot[o] = NoJob
        /\ slot' = [slot EXCEPT ![o] = j]
        /\ state' = [k \in Jobs |->
                        IF k = j THEN "queued"
                        ELSE IF owner[k] = o /\ Deletable(k) THEN "absent"
                        ELSE state[k]]
        /\ owner' = [owner EXCEPT ![j] = o]
        /\ created' = j
        /\ UNCHANGED <<row, proc, fence, resume, snap, staging, ready, attempt,
                       users, due, issued, losses>>

\* An account is deleted: its jobs keep a null owner, its slot row goes.
DeleteOwner(o) ==
    /\ o \in users
    /\ users' = users \ {o}
    /\ owner' = [j \in Jobs |-> IF owner[j] = o THEN NoOwner ELSE owner[j]]
    /\ slot' = [slot EXCEPT ![o] = NoJob]
    /\ UNCHANGED <<row, proc, state, fence, resume, snap, staging, ready,
                   attempt, due, created, issued, losses>>

\* expires_at passes.
TimePasses(j) ==
    /\ state[j] = "complete" /\ j \notin due
    /\ due' = due \cup {j}
    /\ UNCHANGED <<row, proc, state, owner, fence, resume, snap, staging, ready,
                   attempt, slot, users, created, issued, losses>>

\* A download request ends the retention: the ZIP expired or an item was
\* revoked (pending), or the stored receipt no longer matches (blocked).
DownloadExpires(j, cleanup) ==
    /\ MayRestart
    /\ state[j] = "complete" /\ ready[j] = "retained"
    /\ state' = [state EXCEPT ![j] = "expired"]
    /\ ready' = [ready EXCEPT ![j] = cleanup]
    /\ UNCHANGED <<row, proc, owner, fence, resume, snap, staging, attempt,
                   slot, users, created, due, issued, losses>>

-----------------------------------------------------------------------------
(* The life of a worker process.                                           *)

\* History: the processes of S lose the job leases they hold.
LeasesLost(S) ==
    losses' = [j \in Jobs |-> losses[j] + Cardinality({v \in S : Writes(v, j)})]

\* mutant: a new worker continues the generation of a row that is still held
NextGeneration_Reused == IF row.held THEN row.generation ELSE row.generation + 1

NextGeneration == row.generation + 1

\* ExportWorkerLock.acquire, then acquire_worker_lease.
AcquireWorkerLease(w) ==
    /\ proc[w].pc = "down"
    /\ \A v \in Workers : Root[v] = Root[w] => proc[v].pc = "down"
    /\ row.generation < MaxGeneration
    /\ row' = [generation |-> NextGeneration, held |-> TRUE, health |-> "ready"]
    /\ Becomes(w, [Dead EXCEPT !.pc = "idle", !.generation = NextGeneration])
    /\ LeasesLost(Workers)
    /\ UNCHANGED <<jobVars, slot, users, created, issued>>

\* The process dies: SIGKILL, power loss, an uncaught exception, or the exit
\* after a failed heartbeat, which leaves the worker row as it is.
Crash(w) ==
    /\ proc[w].pc # "down"
    /\ MayRestart
    /\ LeasesLost({w})
    /\ Becomes(w, Dead)
    /\ UNCHANGED <<row, jobVars, slot, users, created, issued>>

\* A fence test failed somewhere: LeaseLost ends run() without a release.
ExitLost(w) ==
    /\ proc[w].pc # "down"
    /\ \/ ~WorkerCurrent(w)
       \/ proc[w].token # NoLease /\ ~FenceMatches(w, proc[w].token)
    /\ Becomes(w, Dead)
    /\ UNCHANGED <<row, jobVars, slot, users, created, issued, losses>>

\* ExportStorageError leaves run_once while an older attempt is cleaned up:
\* _record_storage_failure gives the worker row back as "failed".
StorageFailure(w) ==
    /\ proc[w].pc = "work" /\ ~proc[w].building
    /\ \E g \in Attempts : attempt[proc[w].held.job][g] = "retiring"
    /\ MayRestart
    /\ row' = IF WorkerCurrent(w)
              THEN [row EXCEPT !.held = FALSE, !.health = "failed"] ELSE row
    /\ LeasesLost({w})
    /\ Becomes(w, Dead)
    /\ UNCHANGED <<jobVars, slot, users, created, issued>>

\* The loop notices the stop request between two runs of run_once.
StopIdle(w) ==
    /\ proc[w].pc \in {"idle"} \cup MaintenanceSteps \cup ClaimSteps
    /\ MayRestart
    /\ Goto(w, "exiting")
    /\ UNCHANGED <<row, jobVars, slot, users, created, issued, losses>>

\* release_worker_lease and exit; LeaseLost is swallowed.
ReleaseWorkerLease(w) ==
    /\ proc[w].pc = "exiting"
    /\ row' = IF WorkerCurrent(w)
              THEN [row EXCEPT !.held = FALSE, !.health = "stopped"] ELSE row
    /\ Becomes(w, Dead)
    /\ UNCHANGED <<jobVars, slot, users, created, issued, losses>>

\* The idle loop starts run_once when the probe finds work.
WakeUp(w) ==
    /\ proc[w].pc = "idle"
    /\ HasRunnableWork(w)
    /\ Becomes(w, [proc[w] EXCEPT !.pc = "ownerless", !.worked = FALSE])
    /\ UNCHANGED <<row, jobVars, slot, users, created, issued, losses>>

-----------------------------------------------------------------------------
(* cleanup_expired_and_stale, one transaction after the other.             *)

\* _terminalize_ownerless_active: one job, then back to the loop.
TerminalizeOwnerless(w) ==
    /\ proc[w].pc = "ownerless" /\ WorkerCurrent(w)
    /\ \/ /\ Ownerless = {}
          /\ Goto(w, "complete")
          /\ UNCHANGED <<jobVars, slot>>
       \/ \E j \in Jobs : /\ IsFirst(j, Ownerless)
                          /\ FailLocked(j)
                          /\ Goto(w, "idle")
    /\ UNCHANGED <<row, users, created, issued, losses>>

\* claim_complete_maintenance: reuse this generation's lease or take one; the
\* heartbeat is not told.
ClaimCompleteMaintenance(w) ==
    /\ proc[w].pc = "complete" /\ WorkerCurrent(w)
    /\ \/ /\ CompleteMaintenance = {}
          /\ Goto(w, "expire")
          /\ UNCHANGED <<fence, issued>>
       \/ \E j \in Jobs :
            /\ IsOldest(j, CompleteMaintenance)
            /\ IF fence[j].lease # 0 /\ fence[j].worker = proc[w].generation
               THEN /\ Becomes(w, [proc[w] EXCEPT !.pc = "finishing",
                                                  !.held = LeaseOf(j)])
                    /\ UNCHANGED <<fence, issued>>
               ELSE TakeLease(w, NewLease(j), "finishing", FALSE)
    /\ UNCHANGED <<row, state, owner, resume, snap, staging, ready, attempt,
                   slot, users, created, due, losses>>

\* _expire_complete_jobs
ExpireComplete(w) ==
    /\ proc[w].pc = "expire" /\ WorkerCurrent(w)
    /\ state' = [j \in Jobs |-> IF j \in Expirable THEN "expired" ELSE state[j]]
    /\ ready' = [j \in Jobs |-> IF j \in Expirable THEN "pending" ELSE ready[j]]
    /\ Becomes(w, [proc[w] EXCEPT !.pc = "ready", !.worked = Expirable # {}])
    /\ UNCHANGED <<row, owner, fence, resume, snap, staging, attempt, slot,
                   users, created, due, issued, losses>>

\* _cleanup_one_ready: remove the oldest expired ZIP; a foreign file blocks it.
CleanupOneReady(w) ==
    /\ proc[w].pc = "ready" /\ WorkerCurrent(w)
    /\ \/ /\ ReadyWork = {}
          /\ Goto(w, "staging")
          /\ UNCHANGED ready
       \/ \E j \in Jobs, outcome \in {"cleaned", "blocked"} :
            /\ IsOldest(j, ReadyWork)
            /\ ready' = [ready EXCEPT ![j] = outcome]
            /\ Becomes(w, [proc[w] EXCEPT !.pc = "staging", !.worked = TRUE])
    /\ UNCHANGED <<row, state, owner, fence, resume, snap, staging, attempt,
                   slot, users, created, due, issued, losses>>

\* _cleanup_one_terminal_staging: the batches of attempt files, directories and
\* snapshot blobs of the oldest terminal job, and the mark that ends them.
CleanupTerminalStaging(w) ==
    /\ proc[w].pc = "staging" /\ WorkerCurrent(w)
    /\ \/ /\ StagingWork = {}
          /\ Goto(w, "orphans")
          /\ UNCHANGED <<staging, attempt, snap>>
       \/ \E j \in Jobs :
            /\ IsOldest(j, StagingWork)
            /\ Becomes(w, [proc[w] EXCEPT !.pc = "orphans", !.worked = TRUE])
            /\ \/ \E g \in UncleanAttempts(j) :
                    /\ \A h \in UncleanAttempts(j) : g <= h
                    /\ SetAttempt(j, g, "cleaned")
                    /\ UNCHANGED <<staging, snap>>
               \/ /\ UncleanAttempts(j) = {} /\ snap[j] # "none"
                  /\ snap' = [snap EXCEPT ![j] = "none"]
                  /\ UNCHANGED <<staging, attempt>>
               \/ /\ UncleanAttempts(j) = {} /\ snap[j] = "none"
                  /\ staging' = [staging EXCEPT ![j] = "cleaned"]
                  /\ UNCHANGED <<attempt, snap>>
               \/ /\ staging' = [staging EXCEPT ![j] = "blocked"]
                  /\ UNCHANGED <<attempt, snap>>
    /\ UNCHANGED <<row, state, owner, fence, resume, ready, slot, users,
                   created, due, issued, losses>>

\* An I/O error in one of the two cleanups: it stays pending for a later run,
\* and counts as work, so that this run claims nothing.
CleanupPutOff(w) ==
    /\ WorkerCurrent(w)
    /\ \/ /\ proc[w].pc = "ready" /\ ReadyWork # {}
          /\ Becomes(w, [proc[w] EXCEPT !.pc = "staging", !.worked = TRUE])
       \/ /\ proc[w].pc = "staging" /\ StagingWork # {}
          /\ Becomes(w, [proc[w] EXCEPT !.pc = "orphans", !.worked = TRUE])
    /\ UNCHANGED <<row, jobVars, slot, users, created, issued, losses>>

\* _delete_clean_orphans
DeleteCleanOrphans(w) ==
    /\ proc[w].pc = "orphans" /\ WorkerCurrent(w)
    /\ \/ /\ Orphans = {}
          /\ Goto(w, "allowed")
          /\ UNCHANGED state
       \/ \E j \in Jobs :
            /\ IsOldest(j, Orphans)
            /\ state' = [state EXCEPT ![j] = "absent"]
            /\ Becomes(w, [proc[w] EXCEPT !.pc = "allowed", !.worked = TRUE])
    /\ UNCHANGED <<row, owner, fence, resume, snap, staging, ready, attempt,
                   slot, users, created, due, issued, losses>>

\* _maintenance_claim_allowed and the early return of _run_once_active.
MaintenanceClaimAllowed(w) ==
    /\ proc[w].pc = "allowed"
    /\ Goto(w, IF proc[w].worked \/ ClaimsBlocked THEN "idle" ELSE "retiring")
    /\ UNCHANGED <<row, jobVars, slot, users, created, issued, losses>>

-----------------------------------------------------------------------------
(* The claims of _run_once_active.                                         *)

\* mutant: the limit is tested before the count goes up
TakeoverFails_OffByOne(w, j) ==
    \/ owner[j] = NoOwner
    \/ AbnormalTakeover(w, j) /\ resume[j] > MaxAbnormalResumes

\* _takeover_kind and the checks before a takeover: an ownerless job fails, an
\* abnormal takeover is counted and fails the job above the limit.
TakeoverFails(w, j) ==
    \/ owner[j] = NoOwner
    \/ AbnormalTakeover(w, j) /\ resume[j] + 1 > MaxAbnormalResumes

CountResume(w, j) ==
    resume' = IF AbnormalTakeover(w, j) THEN [resume EXCEPT ![j] = @ + 1] ELSE resume

\* _claim_recovery over the given candidates; next is where run_once goes when
\* there is none.
ClaimRecovery(w, candidates, next) ==
    /\ WorkerCurrent(w)
    /\ \/ /\ candidates = {}
          /\ Goto(w, next)
          /\ UNCHANGED <<jobVars, slot, issued>>
       \/ \E j \in Jobs :
            /\ IsFirst(j, candidates)
            /\ \/ /\ TakeoverFails(w, j)
                  /\ FailLocked(j)
                  /\ Goto(w, "idle")
                  /\ UNCHANGED issued
               \/ /\ ~TakeoverFails(w, j)
                  /\ CountResume(w, j)
                  /\ TakeLease(w, NewLease(j), "work", TRUE)
                  /\ UNCHANGED <<state, owner, snap, staging, ready, attempt,
                                 slot, due>>
    /\ UNCHANGED <<row, users, created, losses>>

ClaimRetiringRecovery(w) ==
    \/ proc[w].pc = "retiring" /\ ClaimRecovery(w, RetiringWork(w), "verifying")
    \/ proc[w].pc = "retiring2" /\ ClaimRecovery(w, RetiringWork(w), "queued")

ClaimVerifyingRecovery(w) ==
    proc[w].pc = "verifying" /\ ClaimRecovery(w, VerifyingWork(w), "requeue")

\* mutant: the lease stays
RequeuedFence_Leased(w, j) == [fence[j] EXCEPT !.worker = proc[w].generation]

\* The fence of a requeued job: a cleaned attempt of its generation stays behind.
RequeuedFence(w, j) ==
    [worker |-> proc[w].generation, lease |-> 0,
     attempt |-> IF CurrentAttempt(j) = "cleaned"
                 THEN fence[j].attempt + 1 ELSE fence[j].attempt]

\* requeue_expired_nonverifying_jobs: an abandoned job without leftovers goes
\* back to the queue.
RequeueExpired(w) ==
    /\ proc[w].pc = "requeue" /\ WorkerCurrent(w)
    /\ \/ /\ RequeueWork(w) = {}
          /\ Goto(w, "retiring2")
          /\ UNCHANGED <<jobVars, slot>>
       \/ \E j \in Jobs :
            /\ IsFirst(j, RequeueWork(w))
            /\ \/ /\ TakeoverFails(w, j)
                  /\ FailLocked(j)
                  /\ Goto(w, "idle")
               \/ /\ ~TakeoverFails(w, j)
                  /\ CountResume(w, j)
                  /\ state' = [state EXCEPT ![j] = "queued"]
                  /\ SetFence(j, RequeuedFence(w, j))
                  /\ Goto(w, "retiring2")
                  /\ UNCHANGED <<owner, snap, staging, ready, attempt, slot,
                                 due>>
    /\ UNCHANGED <<row, users, created, issued, losses>>

\* claim_next_job: the oldest queued job of a living owner.
ClaimNextJob(w) ==
    /\ proc[w].pc = "queued" /\ WorkerCurrent(w)
    /\ \/ /\ QueuedWork = {}
          /\ Goto(w, "idle")
          /\ UNCHANGED <<state, fence, issued>>
       \/ \E j \in Jobs :
            /\ IsOldest(j, QueuedWork)
            /\ state' = [state EXCEPT ![j] = IF snap[j] = "confirmed"
                                             THEN "archiving" ELSE "snapshotting"]
            /\ TakeLease(w, NewLease(j), "work", TRUE)
    /\ UNCHANGED <<row, owner, resume, snap, staging, ready, attempt, slot,
                   users, created, due, losses>>

-----------------------------------------------------------------------------
(* The snapshot and archive services, under the claimed lease.             *)

\* Bound: a revocation takes an attempt generation only if every worker
\* generation still to come keeps one for its own recovery.
MayRevoke(g) == g + (MaxGeneration - row.generation) < MaxAttempt

Working(w) == proc[w].pc = "work" /\ Current(w, proc[w].held)

\* SnapshotService._plan_candidate
PlanCandidate(w) ==
    LET j == proc[w].held.job IN
    /\ Working(w)
    /\ state[j] = "snapshotting" /\ snap[j] = "none" /\ owner[j] # NoOwner
    /\ UncleanAttempts(j) = {}
    /\ snap' = [snap EXCEPT ![j] = "candidate"]
    /\ staging' = [staging EXCEPT ![j] = "pending"]
    /\ Becomes(w, [proc[w] EXCEPT !.building = TRUE])
    /\ UNCHANGED <<row, state, owner, fence, resume, ready, attempt, slot,
                   users, created, due, issued, losses>>

\* SnapshotService._cleanup_candidate: a candidate of an earlier run is dropped.
CleanupCandidate(w) ==
    LET j == proc[w].held.job IN
    /\ Working(w)
    /\ state[j] = "snapshotting" /\ snap[j] = "candidate" /\ ~proc[w].building
    /\ snap' = [snap EXCEPT ![j] = "none"]
    /\ staging' = [staging EXCEPT ![j] = "cleaned"]
    /\ UNCHANGED <<row, proc, state, owner, fence, resume, ready, attempt, slot,
                   users, created, due, issued, losses>>

\* SnapshotService._finalize
FinalizeSnapshot(w) ==
    LET j == proc[w].held.job IN
    /\ Working(w)
    /\ state[j] = "snapshotting" /\ snap[j] = "candidate" /\ proc[w].building
    /\ snap' = [snap EXCEPT ![j] = "confirmed"]
    /\ state' = [state EXCEPT ![j] = "archiving"]
    /\ Becomes(w, [proc[w] EXCEPT !.building = FALSE])
    /\ UNCHANGED <<row, owner, fence, resume, staging, ready, attempt, slot,
                   users, created, due, issued, losses>>

MayStartAttempt(j) ==
    state[j] = "archiving" /\ CurrentAttempt(j) = "none" /\ UncleanAttempts(j) = {}

\* AttemptService.record_directory_receipt_db_only: the build begins once no
\* older attempt is left to clean.
RecordDirectory(w) ==
    LET j == proc[w].held.job IN
    /\ Working(w)
    /\ MayStartAttempt(j)
    /\ SetAttempt(j, proc[w].held.attempt, "writing")
    /\ Becomes(w, [proc[w] EXCEPT !.building = TRUE])
    /\ UNCHANGED <<row, state, owner, fence, resume, snap, staging, ready, slot,
                   users, created, due, issued, losses>>

\* record_closed_file_receipt_db_only, then record_verifying.
AdvanceAttempt(w) ==
    LET j == proc[w].held.job
        g == proc[w].held.attempt IN
    /\ Working(w) /\ proc[w].building /\ state[j] = "archiving"
    /\ \/ /\ attempt[j][g] = "writing"
          /\ SetAttempt(j, g, "closed")
          /\ UNCHANGED state
       \/ /\ attempt[j][g] = "closed"
          /\ SetAttempt(j, g, "verifying")
          /\ state' = [state EXCEPT ![j] = "verifying"]
    /\ UNCHANGED <<row, proc, owner, fence, resume, snap, staging, ready, slot,
                   users, created, due, issued, losses>>

\* ArchiveService._mark_post_build_retiring_intent: an item was revoked.
MarkRetiringIntent(w) ==
    LET j == proc[w].held.job
        g == proc[w].held.attempt IN
    /\ Working(w) /\ proc[w].building
    /\ state[j] = "verifying" /\ attempt[j][g] = "verifying"
    /\ MayRevoke(g)
    /\ SetAttempt(j, g, "retiring")
    /\ UNCHANGED <<row, proc, state, owner, fence, resume, snap, staging, ready,
                   slot, users, created, due, issued, losses>>

\* mutant: the heartbeat keeps the old token
Rotate_KeepsToken(w, j) ==
    LET next == [proc[w].held EXCEPT !.attempt = @ + 1]
    IN  /\ SetFence(j, [fence[j] EXCEPT !.attempt = next.attempt])
        /\ state' = [state EXCEPT ![j] = "archiving"]
        /\ Becomes(w, [proc[w] EXCEPT !.held = next, !.building = FALSE])

\* The next attempt generation, in the row and, within the same heartbeat token
\* transition, in the tokens (_TokenTransition.replace).
Rotate(w, j) ==
    LET next == [proc[w].held EXCEPT !.attempt = @ + 1]
    IN  /\ SetFence(j, [fence[j] EXCEPT !.attempt = next.attempt])
        /\ state' = [state EXCEPT ![j] = "archiving"]
        /\ Becomes(w, [proc[w] EXCEPT !.held = next, !.token = next,
                                      !.building = FALSE])

\* _post_build_revocations' rotate, or _final_fence finding revoked items.
RotateRevoked(w) ==
    LET j == proc[w].held.job
        g == proc[w].held.attempt IN
    /\ Working(w)
    /\ state[j] = "verifying"
    /\ \/ proc[w].building /\ attempt[j][g] = "retiring"
       \/ /\ attempt[j][g] = "verifying"
          /\ owner[j] # NoOwner
          /\ MayRevoke(g)
    /\ SetAttempt(j, g, "retiring")
    /\ Rotate(w, j)
    /\ UNCHANGED <<row, owner, resume, snap, staging, ready, slot, users,
                   created, due, issued, losses>>

\* recover_archiving retires an attempt an earlier process was still writing.
RetireAbandoned(w) ==
    LET j == proc[w].held.job
        g == proc[w].held.attempt IN
    /\ Working(w) /\ ~proc[w].building
    /\ state[j] = "archiving" /\ attempt[j][g] \in {"writing", "closed"}
    /\ SetAttempt(j, g, "retiring")
    /\ UNCHANGED <<row, proc, state, owner, fence, resume, snap, staging, ready,
                   slot, users, created, due, issued, losses>>

\* _cleanup_retiring: the oldest retiring attempt is removed.
CleanupRetiring(w) ==
    LET j == proc[w].held.job IN
    /\ Working(w) /\ ~proc[w].building
    /\ \E g \in Attempts :
         /\ attempt[j][g] = "retiring"
         /\ \A h \in Attempts : attempt[j][h] = "retiring" => g <= h
         /\ SetAttempt(j, g, "cleaned")
    /\ UNCHANGED <<row, proc, state, owner, fence, resume, snap, staging, ready,
                   slot, users, created, due, issued, losses>>

\* _rotate_recovered_attempt and _rotate_recovered_verifying_attempt
RotateRecovered(w) ==
    LET j == proc[w].held.job IN
    /\ Working(w) /\ ~proc[w].building
    /\ state[j] \in {"archiving", "verifying"} /\ CurrentAttempt(j) = "cleaned"
    /\ Rotate(w, j)
    /\ UNCHANGED <<row, owner, resume, snap, staging, ready, attempt, slot,
                   users, created, due, issued, losses>>

\* ArchiveService._expire_previous: the owner's other completed exports.
Previous(j) == {k \in Jobs \ {j} : state[k] = "complete" /\ owner[k] = owner[j]}

\* ArchiveService._complete_locked: publish, retire the owner's older exports,
\* free the slot and, in the same token transition, clear the heartbeat's token.
CompleteLocked(w) ==
    LET j == proc[w].held.job
        g == proc[w].held.attempt
    IN  /\ Working(w)
        /\ owner[j] # NoOwner
        /\ state[j] = "verifying" /\ attempt[j][g] = "verifying"
        /\ state' = [k \in Jobs |-> IF k = j THEN "complete"
                                    ELSE IF k \in Previous(j) THEN "expired" ELSE state[k]]
        /\ ready' = [k \in Jobs |-> IF k = j THEN "retained"
                                    ELSE IF k \in Previous(j) THEN "pending" ELSE ready[k]]
        /\ SetAttempt(j, g, "published")
        /\ ReleaseSlot(j)
        /\ Becomes(w, [proc[w] EXCEPT !.pc = "finishing", !.token = NoLease,
                                      !.building = FALSE])
        /\ UNCHANGED <<row, owner, fence, resume, snap, staging, users, created,
                       due, issued, losses>>

\* ArchiveService._record_owner_deleted_locked
RecordOwnerDeleted(w) ==
    LET j == proc[w].held.job
        g == proc[w].held.attempt IN
    /\ Working(w)
    /\ owner[j] = NoOwner
    /\ state[j] = "verifying" /\ attempt[j][g] = "verifying"
    /\ FailLocked(j)
    /\ Becomes(w, [proc[w] EXCEPT !.pc = "ownerclean", !.token = NoLease,
                                  !.building = FALSE])
    /\ UNCHANGED <<row, users, created, issued, losses>>

\* _cleanup_terminal_retiring, under the worker lease alone.
CleanupTerminalRetiring(w) ==
    LET j == proc[w].held.job
        g == proc[w].held.attempt IN
    /\ proc[w].pc = "ownerclean" /\ WorkerCurrent(w)
    /\ state[j] = "failed" /\ fence[j].lease = 0 /\ attempt[j][g] = "retiring"
    /\ SetAttempt(j, g, "cleaned")
    /\ Goto(w, "releasing")
    /\ UNCHANGED <<row, state, owner, fence, resume, snap, staging, ready, slot,
                   users, created, due, issued, losses>>

-----------------------------------------------------------------------------
(* How a claimed job ends.                                                 *)

\* An ExportError: build_and_publish retires the attempt it was building.
ExportErrorRaised(w) ==
    LET j == proc[w].held.job IN
    /\ Working(w)
    /\ \/ UNCHANGED attempt
       \/ /\ state[j] \in {"archiving", "verifying"}
          /\ CurrentAttempt(j) \in {"writing", "closed", "verifying"}
          /\ SetAttempt(j, proc[w].held.attempt, "retiring")
    /\ Goto(w, "failing")
    /\ UNCHANGED <<row, state, owner, fence, resume, snap, staging, ready, slot,
                   users, created, due, issued, losses>>

\* The owner is gone: _plan_candidate and _initial_permission_check refuse to go on.
PermissionChanged(w) ==
    LET j == proc[w].held.job IN
    /\ Working(w) /\ owner[j] = NoOwner
    /\ \/ state[j] = "snapshotting" /\ snap[j] = "none"
       \/ MayStartAttempt(j)
    /\ Goto(w, "failing")
    /\ UNCHANGED <<row, jobVars, slot, users, created, issued, losses>>

\* fail_job
FailJob(w) ==
    LET j == proc[w].held.job IN
    /\ proc[w].pc = "failing" /\ Current(w, proc[w].held)
    /\ FailLocked(j)
    /\ Forget(w, "idle")
    /\ UNCHANGED <<row, users, created, issued, losses>>

\* The fence of a job that is given back: no lease, and a cleaned attempt of its
\* generation stays behind if the job goes back to the queue.
HandoffFence(j) ==
    [fence[j] EXCEPT !.lease = 0,
                     !.attempt = IF /\ state[j] # "verifying" /\ ~HasCleanupWork(j)
                                    /\ CurrentAttempt(j) = "cleaned"
                                 THEN @ + 1 ELSE @]

\* handoff_after_normal_stop: give the job back so that the next worker goes on.
Handoff(w) ==
    LET j == proc[w].held.job IN
    /\ Working(w)
    /\ MayRestart
    /\ SetFence(j, HandoffFence(j))
    /\ IF state[j] = "verifying" \/ HasCleanupWork(j)
       THEN UNCHANGED state
       ELSE state' = [state EXCEPT ![j] = "queued"]
    /\ IF state[j] # "verifying" /\ HasCleanupWork(j)
       THEN /\ attempt' = [attempt EXCEPT ![j] = Retired(j)]
            /\ staging' = [staging EXCEPT ![j] = "pending"]
       ELSE UNCHANGED <<attempt, staging>>
    /\ Forget(w, "exiting")
    /\ UNCHANGED <<row, owner, resume, snap, ready, slot, users, created, due,
                   issued, losses>>

\* recover_complete: snapshot and attempt leave the staging area.
CleanupComplete(w) ==
    LET j == proc[w].held.job
        g == proc[w].held.attempt IN
    /\ proc[w].pc = "finishing" /\ Current(w, proc[w].held)
    /\ state[j] = "complete" /\ ready[j] = "retained"
    /\ \/ /\ staging[j] # "cleaned" /\ snap[j] # "none"
          /\ snap' = [snap EXCEPT ![j] = "none"]
          /\ UNCHANGED <<attempt, staging, proc>>
       \/ /\ staging[j] # "cleaned" /\ snap[j] = "none" /\ attempt[j][g] = "published"
          /\ SetAttempt(j, g, "cleaned")
          /\ UNCHANGED <<snap, staging, proc>>
       \/ /\ snap[j] = "none" /\ attempt[j][g] = "cleaned"
          /\ staging' = [staging EXCEPT ![j] = "cleaned"]
          /\ Goto(w, "releasing")
          /\ UNCHANGED <<snap, attempt>>
       \/ /\ staging[j] # "cleaned"    \* _mark_complete_cleanup_blocked
          /\ staging' = [staging EXCEPT ![j] = "blocked"]
          /\ Goto(w, "releasing")
          /\ UNCHANGED <<snap, attempt>>
    /\ UNCHANGED <<row, state, owner, fence, resume, ready, slot, users,
                   created, due, issued, losses>>

\* recover_complete found the job no longer complete: LeaseLost.  A maintenance
\* lease is still released on the way out; the worker row is not.
FinishLost(w) ==
    LET j == proc[w].held.job IN
    /\ proc[w].pc = "finishing" /\ Current(w, proc[w].held)
    /\ state[j] # "complete" \/ ready[j] # "retained"
    /\ (SetFence(j, Released(j)) \/ UNCHANGED fence)
    /\ Becomes(w, Dead)
    /\ UNCHANGED <<row, state, owner, resume, snap, staging, ready, attempt,
                   slot, users, created, due, issued, losses>>

\* release_job_lease(allow_released=True): a stop request during recover_complete
\* comes here too, and the loop then ends.
ReleaseJobLease(w) ==
    LET j == proc[w].held.job IN
    /\ \/ proc[w].pc = "releasing"
       \/ proc[w].pc \in {"finishing", "ownerclean"} /\ MayRestart
    /\ WorkerCurrent(w)
    /\ \/ /\ FenceMatches(w, proc[w].held)
          /\ SetFence(j, Released(j))
       \/ /\ fence[j].lease = 0 /\ state[j] \in TerminalStates
          /\ UNCHANGED fence
    /\ Forget(w, IF proc[w].pc = "releasing" THEN "idle" ELSE "exiting")
    /\ UNCHANGED <<row, state, owner, resume, snap, staging, ready, attempt,
                   slot, users, created, due, issued, losses>>

-----------------------------------------------------------------------------
Maintenance(w) ==
    \/ TerminalizeOwnerless(w) \/ ClaimCompleteMaintenance(w) \/ ExpireComplete(w)
    \/ CleanupOneReady(w) \/ CleanupTerminalStaging(w) \/ DeleteCleanOrphans(w)
    \/ MaintenanceClaimAllowed(w)

Claims(w) ==
    \/ ClaimRetiringRecovery(w) \/ ClaimVerifyingRecovery(w) \/ RequeueExpired(w)
    \/ ClaimNextJob(w)

Services(w) ==
    \/ PlanCandidate(w) \/ CleanupCandidate(w) \/ FinalizeSnapshot(w)
    \/ RecordDirectory(w) \/ AdvanceAttempt(w) \/ MarkRetiringIntent(w)
    \/ RotateRevoked(w) \/ RetireAbandoned(w) \/ CleanupRetiring(w)
    \/ RotateRecovered(w) \/ CompleteLocked(w) \/ RecordOwnerDeleted(w)
    \/ CleanupTerminalRetiring(w) \/ PermissionChanged(w) \/ FailJob(w)
    \/ CleanupComplete(w) \/ FinishLost(w) \/ ReleaseJobLease(w)

\* What a running process does on its own.
WorkerStep(w) ==
    \/ AcquireWorkerLease(w) \/ ExitLost(w) \/ ReleaseWorkerLease(w) \/ WakeUp(w)
    \/ Maintenance(w) \/ Claims(w) \/ Services(w)

\* What is done to it.
WorkerFault(w) ==
    \/ Crash(w) \/ StorageFailure(w) \/ StopIdle(w) \/ Handoff(w)
    \/ ExportErrorRaised(w) \/ CleanupPutOff(w)

Environment ==
    \/ \E o \in Owners : CreateJob(o)
    \/ \E o \in Owners : DeleteOwner(o)
    \/ \E j \in Jobs : TimePasses(j)
    \/ \E j \in Jobs, cleanup \in {"pending", "blocked"} : DownloadExpires(j, cleanup)

Next == Environment \/ \E w \in Workers : WorkerStep(w) \/ WorkerFault(w)

Spec == Init /\ [][Next]_vars

\* A cleanup of a file or a directory that is carried out, not put off.
CleanupDone(w) ==
    \/ ReadyWork # {} /\ CleanupOneReady(w)
    \/ StagingWork # {} /\ CleanupTerminalStaging(w)

\* The container restarts a worker that exited, and a running worker goes on;
\* the faults of WorkerFault need not happen.  The disk does not fail for ever:
\* of the cleanups that are tried again and again some are carried out.
Fairness ==
    \A w \in Workers : WF_vars(WorkerStep(w)) /\ SF_vars(CleanupDone(w))
FairSpec == Spec /\ Fairness

-----------------------------------------------------------------------------
(* Safety.                                                                 *)

\* A worker that still owns the worker row and remembers a job lease finds that
\* lease on the job row: no transaction that moves a job's fence leaves the
\* token of LeaseHeartbeat behind, so _renew_once never loses a lease that
\* nobody took; and the job is an active one, so the branches of fail_job and
\* handoff_after_normal_stop for a job that ended meanwhile are never taken.
HeartbeatAgreesWithRow ==
    \A w \in Workers :
        WorkerCurrent(w) /\ proc[w].pc # "down" /\ proc[w].token # NoLease
            => /\ FenceMatches(w, proc[w].token)
               /\ state[proc[w].token.job] \in ActiveStates

\* At most one live process holds a lease lock_current_lease accepts for a job,
\* whatever zombies of earlier generations still run.
AtMostOneWriter ==
    \A j \in Jobs, v, w \in Workers : Writes(v, j) /\ Writes(w, j) => v = w

\* While the newest worker lives, an active job that carries a lease of its
\* generation is the job it is working on.  A leaked lease would make the job
\* invisible to every claim until the next restart.
NoLeakedLease ==
    \A w \in Workers, j \in Jobs :
        proc[w].pc # "down" /\ WorkerCurrent(w) =>
            \/ state[j] \notin ActiveStates \/ Stale(w, j)
            \/ proc[w].token.job = j

\* The slot of an account names its one active job, and every active job of an
\* account is in its slot (ExportSlot, "each account can have one active
\* request").
SlotMatchesActive ==
    \A o \in users :
        {j \in Jobs : owner[j] = o /\ state[j] \in ActiveStates}
            = IF slot[o] = NoJob THEN {} ELSE {slot[o]}

\* Exports come one at a time: at most one job is being captured, archived or
\* verified, over all accounts and through crashes and hand-overs; and an
\* account keeps at most one completed export, since a publication retires the
\* previous one in its own transaction.
OneAtATime ==
    /\ Cardinality({j \in Jobs : state[j] \in InProgress}) <= 1
    /\ \A o \in Owners :
         Cardinality({j \in Jobs : state[j] = "complete" /\ owner[j] = o}) <= 1

\* resume_count charges a job only for leases a dead worker left on it, each
\* once: a hand-over after a normal stop is free.
ResumeOnlyForLostLeases == \A j \in Jobs : resume[j] <= losses[j]

\* A job has at most one attempt whose files may exist: the current one, or the
\* one before it on its way out.
SingleLiveAttempt ==
    \A j \in Jobs : \A g \in UncleanAttempts(j) :
        /\ UncleanAttempts(j) = {g}
        /\ \/ g = fence[j].attempt
           \/ g + 1 = fence[j].attempt /\ attempt[j][g] = "retiring"

\* What a takeover must leave in order, all at once: no lease that hides the job,
\* no charge it did not cause, no second attempt beside the one it cleans up.
TakeoversAreSound == NoLeakedLease /\ ResumeOnlyForLostLeases /\ SingleLiveAttempt

\* A failed or expired export never comes back, and a completed one can only
\* expire, whatever a worker of an older generation still attempts.
TerminalIsFinal ==
    [][\A j \in Jobs :
          /\ state[j] \in {"failed", "expired"} => state'[j] \in {state[j], "absent"}
          /\ state[j] = "complete" => state'[j] \in {"complete", "expired"}]_vars

-----------------------------------------------------------------------------
(* Liveness.                                                               *)

\* Some cleanup found a file it does not know and gave up until an operator acts.
NeedsOperator ==
    \E j \in Jobs : state[j] # "absent" /\ "blocked" \in {staging[j], ready[j]}

\* Every accepted export ends, through any crashes and stops, and what a failed
\* or expired one left on disk is removed, unless a cleanup blocks the worker.
EveryExportEnds ==
    \A j \in Jobs :
        state[j] \in ActiveStates \cup {"failed", "expired"}
            ~> state[j] \in {"complete", "absent"} \/ Deletable(j) \/ NeedsOperator
=============================================================================
