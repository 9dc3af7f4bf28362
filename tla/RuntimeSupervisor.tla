------------------------- MODULE RuntimeSupervisor -------------------------
(* The container's supervisor (docker/scripts/supervisor.py): it closes the  *)
(* maintenance gate, runs the migration worker, starts the application,      *)
(* waits until it is ready, opens the gate, keeps the export worker alive    *)
(* and, when a start fails, holds the recovery page until a manual or an     *)
(* automatic retry is accepted.  The status file and the gate marker are     *)
(* MigrationStatusStore's (migration_status.py), the retry budget is         *)
(* RecoveryPolicy's (startup_recovery.py).                                   *)
(*                                                                           *)
(* Children die, linger after SIGKILL, hang or fail at any time, writes to   *)
(* the runtime directory fail, and SIGTERM arrives between any two steps.    *)
(* A step of the supervisor is one of its calls that starts, stops or probes *)
(* a process or writes the status or the marker.  Clock readings are a free  *)
(* choice between "in time" and "too late".                                  *)
EXTENDS Naturals, FiniteSets

CONSTANTS MaxAccepted,   \* MAX_ACCEPTED_ATTEMPTS: retries of one supervisor run
          MaxFaults      \* bound: failed writes to the runtime directory

ASSUME BudgetAssumption == MaxAccepted \in Nat /\ MaxFaults \in Nat

VARIABLES pc,        \* where the supervisor is
          code,      \* the failure code it is about to hold, or holds
          attempt,   \* startup attempts begun (history)
          proc,      \* the registered children
          worker,    \* the migration worker's side: what it sent, how it ended
          told,      \* what the supervisor has learned of the worker
          ready,     \* the application answered this attempt's probe
          store,     \* the status in memory and the one on disk
          marker,    \* the maintenance marker exists: the gate is closed
          policy,    \* RecoveryPolicy
          flags,     \* the supervisor's remaining fields
          faults     \* failed writes so far

vars == <<pc, code, attempt, proc, worker, told, ready, store, marker,
          policy, flags, faults>>

Roles == {"nginx", "migration", "gunicorn", "export"}
Others == Roles \ {"nginx"}

(* A child: not registered; running; stopped by SIGSTOP; its master has      *)
(* exited but its process group has not; all of it has exited, not yet       *)
(* reaped.                                                                   *)
Lives == {"none", "up", "stopped", "orphans", "dead"}

(* process.poll() is None: the master still runs.                            *)
Running(r) == proc[r] \in {"up", "stopped"}

(* _reap_record, and _refresh_records over the children rs: a record goes    *)
(* when its whole group has gone.                                            *)
Reap(p, rs) ==
  [r \in Roles |-> IF r \in rs /\ p[r] = "dead" THEN "none" ELSE p[r]]

(* _terminate_records: SIGTERM, SIGKILL at the deadline, and what has not    *)
(* gone by then is left registered, to exit late.                            *)
Terminated(p, rs) ==
  {q \in [Roles -> Lives] :
     \A r \in Roles :
       IF r \notin rs \/ p[r] = "none" THEN q[r] = p[r]
       ELSE IF p[r] = "dead" THEN q[r] = "none"
       ELSE q[r] \in {"none", "orphans"}}

Terminate(rs) == proc' \in Terminated(proc, rs)

----------------------------------------------------------------------------
(* MigrationStatusStore.  done: the phase is "complete".  dirty: the last    *)
(* state in memory is not known to be on disk.                               *)
States == {"none", "starting", "migrating", "starting_service", "ready",
           "failed"}

CanFail == faults < MaxFaults

(* _atomic_write: it succeeds, or fails and leaves the old file.             *)
Written(s) == [s EXCEPT !.dirty = FALSE, !.saved = s.state]
Unwritten(s) == [s EXCEPT !.dirty = TRUE]

(* _project_status over a store operation: a write error is remembered in    *)
(* _attempt_status_failed for the rest of the run, and retried by the ticks. *)
Publish(s) ==
  \/ store' = Written(s) /\ UNCHANGED <<flags, faults>>
  \/ /\ CanFail
     /\ store' = Unwritten(s)
     /\ flags' = [flags EXCEPT !.statusFailed = TRUE]
     /\ faults' = faults + 1

Project(state) == Publish([store EXCEPT !.state = state])

(* As a part of a larger step: the store and the flag after the attempt.     *)
Projected(s, f) ==
  {<<Written(s), f, faults>>} \cup
  IF CanFail
  THEN {<<Unwritten(s), [f EXCEPT !.statusFailed = TRUE], faults + 1>>}
  ELSE {}

Failing(s) == [s EXCEPT !.state = "failed"]

(* create_gate (_confirm_gate): the marker is there afterwards, or the write *)
(* failed.                                                                   *)
GateConfirmed(ok) ==
  \/ ok /\ marker' = TRUE
  \/ ~ok /\ CanFail /\ ~marker /\ marker' = marker

(* verify_failed_gate: a failed state, on disk, behind a closed gate.        *)
FailedGateVerified ==
  store.state = "failed" /\ ~store.dirty /\ marker

----------------------------------------------------------------------------
(* RecoveryPolicy.  auto: the automatic retry is not armed, armed, or due;   *)
(* cooled: no accepted retry within the last COOLDOWN_SECONDS.               *)
RecoverableCodes == {"worker_exit_timeout", "gunicorn_start_failed"}
Codes == RecoverableCodes \cup
  {"none", "startup_lock_failed", "worker_error", "worker_protocol_invalid",
   "runtime_supervisor_failed", "migration_status_write_failed",
   "runtime_gate_quiesce_failed", "runtime_gate_open_failed"}

EnterFailure(automatic) ==
  [policy EXCEPT !.token = TRUE, !.auto = IF automatic THEN "armed" ELSE "off"]
LeaveFailure(p) == [p EXCEPT !.token = FALSE, !.auto = "off"]

(* Mutant: the budget is compared with <=.                                   *)
Available_OffByOne ==
  code \in RecoverableCodes /\ policy.token /\ policy.cooled
  /\ policy.accepted <= MaxAccepted

Available ==
  /\ code \in RecoverableCodes
  /\ policy.token
  /\ policy.accepted < MaxAccepted
  /\ policy.cooled

Accepted(p) ==
  [p EXCEPT !.accepted = @ + 1, !.cooled = FALSE, !.token = FALSE, !.auto = "off"]

(* _recovery_blocked_reason(code) is None.                                   *)
Eligible ==
  /\ ~flags.shutdown
  /\ code \in RecoverableCodes
  /\ flags.published /\ ~flags.statusFailed
  /\ ~flags.identityFailed
  /\ told.terminal = "complete" /\ told.eof
  /\ flags.locked
  /\ Running("nginx")
  /\ \A r \in Others : proc[r] = "none"
  /\ code = "worker_exit_timeout" => told.overran
  /\ code = "gunicorn_start_failed" => told.succeeded
  /\ FailedGateVerified

----------------------------------------------------------------------------
NoWorker == [sent |-> "none", exit |-> "none"]
NothingTold == [terminal |-> "none", eof |-> FALSE, succeeded |-> FALSE,
                overran |-> FALSE]

Init ==
  /\ pc = "gate" /\ code = "none" /\ attempt = 0
  /\ proc = [r \in Roles |-> "none"]
  /\ worker = NoWorker /\ told = NothingTold /\ ready = FALSE
  /\ store = [state |-> "none", done |-> FALSE, dirty |-> FALSE, saved |-> "none"]
  /\ marker \in BOOLEAN
  /\ policy = [accepted |-> 0, token |-> FALSE, auto |-> "off", cooled |-> TRUE]
  /\ flags = [statusFailed |-> FALSE, identityFailed |-> FALSE, locked |-> FALSE,
              published |-> FALSE, timedOut |-> FALSE, shutdown |-> FALSE]
  /\ faults = 0

Goto(p) == pc' = p /\ UNCHANGED code
Fail(c) == pc' = "fail" /\ code' = c

(* The states in which _raise_if_shutdown, or a loop's test, sees the signal *)
(* before the next call: the run ends in _cleanup.                           *)
Interruptible == {"gate", "nginx", "initialize", "lock", "attempt", "drive",
                  "reap", "spawnapp", "ready", "serve", "hold", "restart"}

Interrupted ==
  /\ flags.shutdown /\ pc \in Interruptible
  /\ Goto("cleanup")
  /\ UNCHANGED <<attempt, proc, worker, told, ready, store, marker, policy,
                 flags, faults>>

At(p) == pc = p /\ ~(flags.shutdown /\ p \in Interruptible)

----------------------------------------------------------------------------
(* Until the worker has ended.                                               *)

(* prepare_runtime_gate: the gate is closed before nginx exists.             *)
PrepareGate ==
  /\ At("gate")
  /\ \E ok \in BOOLEAN :
       /\ ok \/ CanFail
       /\ marker' = (ok \/ marker)
       /\ faults' = IF ok THEN faults ELSE faults + 1
       /\ Goto(IF ok THEN "nginx" ELSE "cleanup")
  /\ UNCHANGED <<attempt, proc, worker, told, ready, store, policy, flags>>

SpawnNginx ==
  /\ At("nginx")
  /\ \E ok \in BOOLEAN :
       /\ proc' = IF ok THEN [proc EXCEPT !["nginx"] = "up"] ELSE proc
       /\ Goto(IF ok THEN "initialize" ELSE "cleanup")
  /\ UNCHANGED <<attempt, worker, told, ready, store, marker, policy, flags, faults>>

Initialize ==
  /\ At("initialize")
  /\ Project("starting")
  /\ Goto("lock")
  /\ UNCHANGED <<attempt, proc, worker, told, ready, marker, policy>>

AcquireLock ==
  /\ At("lock")
  /\ \/ Goto("attempt") /\ flags' = [flags EXCEPT !.locked = TRUE]
     \/ Fail("startup_lock_failed") /\ UNCHANGED flags
  /\ UNCHANGED <<attempt, proc, worker, told, ready, store, marker, policy, faults>>

(* _run_startup_attempt up to the worker; a child whose identity cannot be   *)
(* read is killed before it is registered (_spawn, _terminate_unregistered). *)
SpawnWorker ==
  /\ At("attempt")
  /\ IF ~Running("nginx")
     THEN Goto("cleanup") /\ UNCHANGED <<proc, worker, attempt, flags>>
     ELSE \/ /\ proc' = [proc EXCEPT !["migration"] = "up"]
             /\ worker' = NoWorker
             /\ attempt' = attempt + 1
             /\ Goto("drive") /\ UNCHANGED flags
          \/ /\ flags' = [flags EXCEPT !.identityFailed = TRUE]
             /\ Fail("runtime_supervisor_failed")
             /\ UNCHANGED <<proc, worker, attempt>>
  /\ UNCHANGED <<told, ready, store, marker, policy, faults>>

(* _status_tick in every waiting loop: the pending status, or a heartbeat.   *)
StatusTick ==
  /\ pc \in {"drive", "reap", "ready", "serve", "hold"}
  /\ Publish(store)
  /\ UNCHANGED <<pc, code, attempt, proc, worker, told, ready, marker, policy>>

(* _apply_worker_event for the last event of the worker.                     *)
ApplyWorkerEvent ==
  /\ At("drive")
  /\ worker.sent # told.terminal
  /\ told' = [told EXCEPT !.terminal = worker.sent]
  /\ IF worker.sent = "complete"
     THEN Publish([store EXCEPT !.state = "migrating", !.done = TRUE])
     ELSE Publish(Failing(store))
  /\ UNCHANGED <<pc, code, attempt, proc, worker, ready, marker, policy>>

(* A frame that cannot be read or is not allowed ends the worker.            *)
ProtocolError ==
  /\ At("drive") /\ Running("migration")
  /\ Terminate({"migration"})
  /\ Fail("worker_protocol_invalid")
  /\ UNCHANGED <<attempt, worker, told, ready, store, marker, policy, flags, faults>>

(* The pipe is at its end: the worker closed it or has exited.               *)
EndOfPipe ==
  /\ At("drive")
  /\ worker.sent = told.terminal
  /\ worker.sent # "none" \/ ~Running("migration")
  /\ told' = [told EXCEPT !.eof = TRUE]
  /\ Goto("reap")
  /\ UNCHANGED <<attempt, proc, worker, ready, store, marker, policy, flags, faults>>

(* _worker_interruption_result: without nginx there is no page to show.      *)
NginxGoneEarly ==
  /\ pc \in {"drive", "reap"} /\ ~Running("nginx")
  /\ Terminate({"nginx", "migration"})
  /\ Goto("cleanup")
  /\ UNCHANGED <<attempt, worker, told, ready, store, marker, policy, flags, faults>>

(* Mutant: the exit of the master is enough.                                 *)
WorkerReaped_MasterOnly ==
  /\ At("reap") /\ Running("nginx")
  /\ proc["migration"] \in {"dead", "orphans"}
  /\ proc' = Reap(proc, {"migration"})
  /\ told' = [told EXCEPT !.succeeded = TRUE] /\ Goto("spawnapp")
  /\ UNCHANGED <<attempt, worker, ready, store, marker, policy, flags, faults>>

(* The whole group of the worker has gone: its exit status has to agree with *)
(* what it said.                                                             *)
WorkerReaped ==
  /\ At("reap") /\ Running("nginx")
  /\ proc["migration"] = "dead"
  /\ proc' = Reap(proc, {"migration"})
  /\ IF worker.exit = "zero" /\ told.terminal = "complete"
     THEN told' = [told EXCEPT !.succeeded = TRUE] /\ Goto("spawnapp")
     ELSE /\ UNCHANGED told
          /\ Fail(IF worker.exit # "zero" /\ told.terminal = "error"
                  THEN "worker_error" ELSE "worker_protocol_invalid")
  /\ UNCHANGED <<attempt, worker, ready, store, marker, policy, flags, faults>>

(* _WORKER_EXIT_SECONDS have passed and something of its group still runs.   *)
WorkerOverruns ==
  /\ At("reap") /\ Running("nginx")
  /\ proc["migration"] \in {"up", "orphans"}
  /\ Terminate({"migration"})
  /\ told' = [told EXCEPT !.overran = told.terminal = "complete"]
  /\ Fail(IF proc'["migration"] # "none" THEN "runtime_supervisor_failed"
          ELSE IF told.terminal = "complete" THEN "worker_exit_timeout"
          ELSE "worker_error")
  /\ UNCHANGED <<attempt, worker, ready, store, marker, policy, flags, faults>>

----------------------------------------------------------------------------
(* The application, and the opening of the gate.                             *)

(* _start_application_and_serve up to the readiness wait.                    *)
SpawnGunicorn ==
  /\ At("spawnapp")
  /\ \/ /\ proc' = [proc EXCEPT !["gunicorn"] = "up"]
        /\ Goto("ready") /\ UNCHANGED flags
     \/ Fail("gunicorn_start_failed") /\ UNCHANGED <<proc, flags>>
     \/ /\ flags' = [flags EXCEPT !.identityFailed = TRUE]
        /\ Fail("runtime_supervisor_failed") /\ UNCHANGED proc
  /\ UNCHANGED <<attempt, worker, told, ready, store, marker, policy, faults>>

(* Mutant: the end of the wait is taken for readiness.                       *)
WaitForReadiness_TimeoutServes ==
  /\ At("ready") /\ Running("nginx") /\ Running("gunicorn")
  /\ ready' \in BOOLEAN /\ Goto("starting")
  /\ UNCHANGED <<attempt, proc, worker, told, store, marker, policy, flags, faults>>

(* _wait_for_readiness: nginx gone, gunicorn gone, ready, or too late.       *)
WaitForReadiness ==
  /\ At("ready")
  /\ \/ /\ ~Running("nginx")
        /\ Terminate({"gunicorn"}) /\ Goto("cleanup")
        /\ UNCHANGED <<ready, flags>>
     \/ /\ Running("nginx") /\ ~Running("gunicorn")
        /\ Terminate({"gunicorn"}) /\ Fail("gunicorn_start_failed")
        /\ UNCHANGED <<ready, flags>>
     \/ /\ Running("nginx") /\ Running("gunicorn")
        /\ ready' = TRUE /\ Goto("starting")
        /\ UNCHANGED <<proc, flags>>
     \/ /\ Running("nginx") /\ Running("gunicorn")
        /\ flags' = [flags EXCEPT !.timedOut = TRUE]
        /\ Terminate({"gunicorn"}) /\ Fail("gunicorn_start_failed")
        /\ UNCHANGED ready
  /\ UNCHANGED <<attempt, worker, told, store, marker, policy, faults>>

(* _guard_gate_transition stands before every step of the transition, except *)
(* before the retries of a status write.                                     *)
Retrying == \/ pc = "starting" /\ store.state = "starting_service"
            \/ pc = "open" /\ store.state = "ready"
Transition == {"starting", "pause", "quiesce", "open", "resume", "giveup"}

GuardHolds ==
  ~flags.shutdown /\ Running("nginx") /\ Running("gunicorn")

Resumed(p) ==
  [p EXCEPT !["nginx"] = IF @ = "stopped" THEN "up" ELSE @]

(* The gate is confirmed to be closed before anything else is done about it. *)
GuardFails ==
  /\ pc \in Transition /\ ~Retrying /\ ~GuardHolds
  /\ \E ok \in BOOLEAN :
       /\ GateConfirmed(ok)
       /\ faults' = IF ok THEN faults ELSE faults + 1
       /\ \/ /\ ~ok
             /\ Terminate({"gunicorn", "nginx"}) /\ Goto("cleanup")
          \/ /\ ok /\ flags.shutdown
             /\ UNCHANGED proc /\ Goto("cleanup")
          \/ /\ ok /\ ~flags.shutdown /\ ~Running("nginx")
             /\ Terminate({"gunicorn", "nginx"}) /\ Goto("cleanup")
          \/ /\ ok /\ ~flags.shutdown /\ Running("nginx")
             /\ proc' \in Terminated(Resumed(proc), {"gunicorn"})
             /\ Fail("gunicorn_start_failed")
  /\ UNCHANGED <<attempt, worker, told, ready, store, policy, flags>>

(* _project_until_durable(starting_service).                                 *)
StartingService ==
  /\ pc = "starting" /\ (Retrying \/ GuardHolds) /\ ~flags.shutdown
  /\ Project("starting_service")
  /\ Goto(IF store'.dirty THEN "starting" ELSE "pause")
  /\ UNCHANGED <<attempt, proc, worker, told, ready, marker, policy>>

(* Its deadline: _fail_gate_transition.                                      *)
StartingTimesOut ==
  /\ pc = "starting" /\ Retrying /\ ~flags.shutdown
  /\ Terminate({"gunicorn"})
  /\ Fail("migration_status_write_failed")
  /\ UNCHANGED <<attempt, worker, told, ready, store, marker, policy, flags, faults>>

(* SIGTERM while such a write is retried (_raise_if_shutdown).               *)
RetryInterrupted ==
  /\ pc \in Transition /\ Retrying /\ flags.shutdown
  /\ Goto("cleanup")
  /\ UNCHANGED <<attempt, proc, worker, told, ready, store, marker, policy,
                 flags, faults>>

(* SIGSTOP to nginx: no request may be half way when the gate opens.         *)
PauseNginx ==
  /\ pc = "pause" /\ GuardHolds
  /\ proc' = [proc EXCEPT !["nginx"] = "stopped"]
  /\ Goto("quiesce")
  /\ UNCHANGED <<attempt, worker, told, ready, store, marker, policy, flags, faults>>

(* _default_quiescence_probe: all of nginx has stopped, or it has not in     *)
(* time.                                                                     *)
Quiesce ==
  /\ pc = "quiesce" /\ GuardHolds
  /\ \/ Goto("open")
     \/ pc' = "giveup" /\ code' = "runtime_gate_quiesce_failed"
  /\ UNCHANGED <<attempt, proc, worker, told, ready, store, marker, policy,
                 flags, faults>>

(* open_service: "ready" is on disk before the marker goes (remove_gate).    *)
OpenService ==
  /\ pc = "open" /\ (Retrying \/ GuardHolds) /\ ~flags.shutdown
  /\ store.done
  /\ Project("ready")
  /\ IF store'.dirty
     THEN Goto("open") /\ UNCHANGED marker
     ELSE marker' = FALSE /\ Goto("resume")
  /\ UNCHANGED <<attempt, proc, worker, told, ready, policy>>

(* Its deadline.                                                             *)
OpenTimesOut ==
  /\ pc = "open" /\ Retrying /\ ~flags.shutdown
  /\ pc' = "giveup" /\ code' = "migration_status_write_failed"
  /\ UNCHANGED <<attempt, proc, worker, told, ready, store, marker, policy,
                 flags, faults>>

(* The marker cannot be removed for certain: it is written again, and when   *)
(* that fails too nginx must not go on.                                      *)
OpenFails ==
  /\ pc = "open" /\ (Retrying \/ GuardHolds) /\ ~flags.shutdown
  /\ store.done /\ CanFail
  /\ flags' = [flags EXCEPT !.statusFailed = TRUE]
  /\ faults' = faults + 1
  /\ \/ /\ marker' = TRUE
        /\ store' = Written([Failing(store) EXCEPT !.done = TRUE])
        /\ proc' \in Terminated(Resumed(proc), {"gunicorn"})
        /\ Fail("runtime_gate_open_failed")
     \/ /\ marker' \in BOOLEAN
        /\ store' = Written([store EXCEPT !.state = "ready"])
        /\ Terminate({"gunicorn", "nginx"})
        /\ Goto("cleanup")
  /\ UNCHANGED <<attempt, worker, told, ready, policy>>

(* No quiet nginx, or no durable "ready": back behind the closed gate.       *)
GiveUpOpening ==
  /\ pc = "giveup" /\ GuardHolds
  /\ \E ok \in BOOLEAN :
       /\ GateConfirmed(ok)
       /\ faults' = IF ok THEN faults ELSE faults + 1
       /\ IF ok
          THEN /\ proc' \in Terminated(Resumed(proc), {"gunicorn"})
               /\ pc' = "fail" /\ UNCHANGED code
          ELSE Terminate({"gunicorn", "nginx"}) /\ Goto("cleanup")
  /\ UNCHANGED <<attempt, worker, told, ready, store, policy, flags>>

(* SIGCONT: from here on requests reach the application.                     *)
ResumeNginx ==
  /\ pc = "resume" /\ GuardHolds
  /\ proc' = Resumed(proc)
  /\ Goto("serve")
  /\ UNCHANGED <<attempt, worker, told, ready, store, marker, policy, flags, faults>>

----------------------------------------------------------------------------
(* Serving, failing and retrying.                                            *)

(* _maintain_export_worker: a worker is started when none is registered, and *)
(* a dead one is retired first (_retire_export_worker).                      *)
MaintainExport ==
  /\ At("serve") /\ Running("nginx") /\ Running("gunicorn")
  /\ \/ /\ proc["export"] = "none"
        /\ \/ proc' = [proc EXCEPT !["export"] = "up"] /\ UNCHANGED flags
           \/ flags' = [flags EXCEPT !.identityFailed = TRUE] /\ UNCHANGED proc
     \/ /\ proc["export"] = "dead"
        /\ proc' = Reap(proc, {"export"}) /\ UNCHANGED flags
  /\ UNCHANGED <<pc, code, attempt, worker, told, ready, store, marker, policy, faults>>

(* _serve_application without nginx.                                         *)
ServeWithoutNginx ==
  /\ At("serve") /\ ~Running("nginx")
  /\ Terminate({"nginx", "gunicorn", "export"})
  /\ Goto("cleanup")
  /\ UNCHANGED <<attempt, worker, told, ready, store, marker, policy, flags, faults>>

(* Mutant: the failure is published without closing the gate.                *)
ServeWithoutApp_GateOpen ==
  /\ At("serve") /\ Running("nginx") /\ ~Running("gunicorn")
  /\ Terminate({"export", "gunicorn"}) /\ Fail("gunicorn_start_failed")
  /\ UNCHANGED <<attempt, worker, told, ready, store, marker, policy, flags, faults>>

(* _serve_application without gunicorn: the gate closes before anything else,*)
(* or nginx goes.                                                            *)
ServeWithoutApp ==
  /\ At("serve") /\ Running("nginx") /\ ~Running("gunicorn")
  /\ \E ok \in BOOLEAN :
       /\ GateConfirmed(ok)
       /\ faults' = IF ok THEN faults ELSE faults + 1
       /\ IF ok
          THEN Terminate({"export", "gunicorn"}) /\ Fail("gunicorn_start_failed")
          ELSE Terminate({"nginx"}) /\ Goto("cleanup")
  /\ UNCHANGED <<attempt, worker, told, ready, store, policy, flags>>

(* _hold_failed up to its loop.                                              *)
EnterHold ==
  /\ pc = "fail"
  /\ \E result \in Projected(Failing(store), flags) :
       /\ store' = result[1]
       /\ flags' = [result[2] EXCEPT !.published = ~result[1].dirty]
       /\ faults' = result[3]
  /\ policy' = EnterFailure(code = "gunicorn_start_failed" /\ flags.timedOut)
  /\ IF code \in RecoverableCodes
     THEN Terminate({"migration", "gunicorn", "export"})
     ELSE UNCHANGED proc
  /\ Goto("hold")
  /\ UNCHANGED <<attempt, worker, told, ready, marker>>

(* Mutant: only the worker is looked at again.                               *)
RefreshFailedChildren_WorkerOnly ==
  /\ At("hold")
  /\ proc' = Reap(proc, {"migration"}) /\ proc' # proc
  /\ UNCHANGED <<pc, code, attempt, worker, told, ready, store, marker, policy,
                 flags, faults>>

(* _refresh_failed_children: children that exited late are reaped.           *)
RefreshFailedChildren ==
  /\ At("hold")
  /\ proc' = Reap(proc, Others)
  /\ proc' # proc
  /\ UNCHANGED <<pc, code, attempt, worker, told, ready, store, marker, policy,
                 flags, faults>>

HoldWithoutNginx ==
  /\ At("hold") /\ ~Running("nginx")
  /\ Terminate({"nginx"})
  /\ policy' = LeaveFailure(policy)
  /\ Goto("cleanup")
  /\ UNCHANGED <<attempt, worker, told, ready, store, marker, flags, faults>>

(* RecoveryServer.poll_once, a POST with the token of the page; and          *)
(* accept_automatic.  Both go through accept.                                *)
Accept ==
  /\ At("hold") /\ Eligible /\ Available
  /\ policy' = LeaveFailure(Accepted(policy))
  /\ Goto("restart")
  /\ UNCHANGED <<attempt, proc, worker, told, ready, store, marker, flags, faults>>

ManualRetry == Accept
AutomaticRetry == policy.auto = "due" /\ Accept

(* verify_held, restart_startup and _reset_startup_attempt: what the failed  *)
(* attempt left is checked once more.                                        *)
Restart ==
  /\ At("restart")
  /\ IF ~FailedGateVerified
     THEN /\ Goto("cleanup")
          /\ UNCHANGED <<worker, told, ready, store, flags, faults>>
     ELSE \/ /\ CanFail
             /\ faults' = faults + 1
             /\ Goto("cleanup")
             /\ UNCHANGED <<worker, told, ready, store, flags>>
          \/ /\ store' = Written([store EXCEPT !.state = "starting", !.done = FALSE])
             /\ UNCHANGED faults
             /\ IF \E r \in Others : proc[r] # "none"
                THEN /\ Fail("runtime_supervisor_failed")
                     /\ UNCHANGED <<worker, told, ready, flags>>
                ELSE /\ worker' = NoWorker /\ told' = NothingTold
                     /\ ready' = FALSE
                     /\ flags' = [flags EXCEPT !.published = FALSE,
                                               !.timedOut = FALSE]
                     /\ pc' = "attempt" /\ code' = "none"
  /\ UNCHANGED <<attempt, proc, marker, policy>>

(* _cleanup: every registered child is terminated.                           *)
Cleanup ==
  /\ pc = "cleanup"
  /\ Terminate(Roles)
  /\ Goto("exited")
  /\ UNCHANGED <<attempt, worker, told, ready, store, marker, policy, flags, faults>>

Exited == pc = "exited" /\ UNCHANGED vars

----------------------------------------------------------------------------
(* The children, the signal and the clock.                                   *)
Alive == pc # "exited"

(* A master exits, with or without leaving members of its group behind.      *)
ChildExits(r) ==
  /\ Alive /\ Running(r)
  /\ \E life \in {"dead", "orphans"} : proc' = [proc EXCEPT ![r] = life]
  /\ IF r # "migration" THEN UNCHANGED worker
     ELSE \E e \in IF worker.sent = "complete" THEN {"zero", "nonzero"}
                   ELSE {"nonzero"} :
            worker' = [worker EXCEPT !.exit = e]
  /\ UNCHANGED <<pc, code, attempt, told, ready, store, marker, policy, flags, faults>>

(* The rest of a group exits.                                                *)
LateExit(r) ==
  /\ Alive /\ proc[r] = "orphans"
  /\ proc' = [proc EXCEPT ![r] = "dead"]
  /\ UNCHANGED <<pc, code, attempt, worker, told, ready, store, marker, policy,
                 flags, faults>>

(* migration_worker.main reports its end before it exits.                    *)
WorkerReports ==
  /\ Alive /\ Running("migration") /\ worker.sent = "none"
  /\ \E e \in {"complete", "error"} : worker' = [worker EXCEPT !.sent = e]
  /\ UNCHANGED <<pc, code, attempt, proc, told, ready, store, marker, policy,
                 flags, faults>>

(* handle_signal: the flag; its SIGTERMs to the children are exits that may  *)
(* happen anyway.                                                            *)
Signal ==
  /\ Alive /\ ~flags.shutdown
  /\ flags' = [flags EXCEPT !.shutdown = TRUE]
  /\ UNCHANGED <<pc, code, attempt, proc, worker, told, ready, store, marker,
                 policy, faults>>

(* The cooldown ends; the automatic retry becomes due.                       *)
TimePasses ==
  /\ At("hold")
  /\ policy' = [policy EXCEPT !.cooled = TRUE,
                              !.auto = IF @ = "armed" THEN "due" ELSE @]
  /\ policy' # policy
  /\ UNCHANGED <<pc, code, attempt, proc, worker, told, ready, store, marker,
                 flags, faults>>

Starting ==
  \/ Interrupted \/ PrepareGate \/ SpawnNginx \/ Initialize \/ AcquireLock
  \/ SpawnWorker \/ ApplyWorkerEvent \/ EndOfPipe \/ NginxGoneEarly
  \/ WorkerReaped \/ WorkerOverruns \/ SpawnGunicorn \/ WaitForReadiness

Opening ==
  \/ GuardFails \/ StartingService \/ StartingTimesOut \/ RetryInterrupted
  \/ PauseNginx \/ Quiesce \/ OpenService \/ OpenTimesOut \/ OpenFails
  \/ GiveUpOpening \/ ResumeNginx

Holding ==
  \/ ServeWithoutNginx \/ ServeWithoutApp \/ EnterHold
  \/ RefreshFailedChildren \/ HoldWithoutNginx \/ Restart \/ Cleanup

Environment ==
  \/ \E r \in Roles : ChildExits(r) \/ LateExit(r)
  \/ WorkerReports \/ Signal \/ TimePasses

Next ==
  \/ Starting \/ Opening \/ Holding
  \/ ProtocolError \/ StatusTick \/ MaintainExport
  \/ ManualRetry \/ AutomaticRetry
  \/ Environment \/ Exited

Spec == Init /\ [][Next]_vars

----------------------------------------------------------------------------
(* What is scheduled: the supervisor's own loop goes on, the clock runs, the *)
(* pending automatic retry is looked at every second, and a group that was   *)
(* killed exits in the end.  Nothing is assumed of the worker, of gunicorn,  *)
(* of a user at the recovery page or of SIGTERM.                             *)
Fairness ==
  /\ WF_vars(Starting) /\ WF_vars(Opening) /\ WF_vars(Holding)
  /\ WF_vars(AutomaticRetry) /\ WF_vars(TimePasses)
  /\ \A r \in Roles : WF_vars(LateExit(r))

FairSpec == Spec /\ Fairness

----------------------------------------------------------------------------
Pcs == Interruptible \cup Transition \cup {"fail", "cleanup", "exited"}

(* The shape of the state, with no more accepted retries, and no more        *)
(* attempts, than the budget of a supervisor run allows.                     *)
TypeOK ==
  /\ pc \in Pcs /\ code \in Codes
  /\ attempt \in 0 .. policy.accepted + 1
  /\ proc \in [Roles -> Lives]
  /\ worker \in [sent : {"none", "complete", "error"},
                 exit : {"none", "zero", "nonzero"}]
  /\ told \in [terminal : {"none", "complete", "error"}, eof : BOOLEAN,
               succeeded : BOOLEAN, overran : BOOLEAN]
  /\ ready \in BOOLEAN
  /\ store \in [state : States, done : BOOLEAN, dirty : BOOLEAN, saved : States]
  /\ marker \in BOOLEAN
  /\ policy \in [accepted : 0 .. MaxAccepted, token : BOOLEAN,
                 auto : {"off", "armed", "due"}, cooled : BOOLEAN]
  /\ flags \in [statusFailed : BOOLEAN, identityFailed : BOOLEAN,
                locked : BOOLEAN, published : BOOLEAN, timedOut : BOOLEAN,
                shutdown : BOOLEAN]
  /\ faults \in 0 .. MaxFaults

(* Requests pass nginx only after this attempt's migration worker finished,  *)
(* its whole process group is gone, the application answered its readiness   *)
(* probe, and the status on disk says so: the service never runs on half     *)
(* migrated data (_transition_gate, open_service, _serve_application).       *)
GateOpensOnlyWhenReady ==
  ~marker /\ proc["nginx"] = "up" =>
    /\ told.succeeded /\ ready
    /\ proc["migration"] = "none"
    /\ store.saved = "ready"

(* The migration worker and the processes that write through the application *)
(* are never there together, whatever exits late and however often the start *)
(* is retried (_reap_record, _recovery_blocked_reason).                      *)
ExclusiveWriters ==
  proc["migration"] # "none" =>
    proc["gunicorn"] = "none" /\ proc["export"] = "none"

(* A readiness timeout is retried without anybody's help as long as the      *)
(* budget lasts and the status could be written: children that exit late     *)
(* delay it, they do not prevent it (_hold_failed, README "Upgrades and      *)
(* recovery").                                                               *)
RetryHappens ==
  (/\ pc = "hold" /\ policy.auto # "off" /\ policy.accepted < MaxAccepted
   /\ ~flags.identityFailed)
    ~> (pc # "hold" \/ flags.statusFailed)

(* Nothing is served past its time: when the application dies behind an open *)
(* gate, the gate closes again or nginx goes (_serve_application), and        *)
(* SIGTERM ends the supervisor wherever it is, so that no wait, retry or gate *)
(* transition outlives it (handle_signal, _cleanup).                          *)
LossClosesGate ==
  (pc = "serve" /\ ~Running("gunicorn")) ~> (marker \/ proc["nginx"] # "up")
ShutdownEnds == flags.shutdown ~> pc = "exited"
ServingEnds == LossClosesGate /\ ShutdownEnds
============================================================================
