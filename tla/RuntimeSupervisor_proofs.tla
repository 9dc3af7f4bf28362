----------------------- MODULE RuntimeSupervisor_proofs -----------------------
(* Theorems of RuntimeSupervisor, for every budget of retries and every      *)
(* number of failed writes: what is safe about the maintenance gate and about *)
(* the processes behind it.                                                  *)
EXTENDS RuntimeSupervisor, TLAPS

----------------------------------------------------------------------------
(* Types.                                                                    *)

Children == [Roles -> Lives]
Stores == [state : States, done : BOOLEAN, dirty : BOOLEAN, saved : States]
Policies == [accepted : 0 .. MaxAccepted, token : BOOLEAN,
             auto : {"off", "armed", "due"}, cooled : BOOLEAN]
Flags == [statusFailed : BOOLEAN, identityFailed : BOOLEAN, locked : BOOLEAN,
          published : BOOLEAN, timedOut : BOOLEAN, shutdown : BOOLEAN]
WorkerSides == [sent : {"none", "complete", "error"},
                exit : {"none", "zero", "nonzero"}]
Reports == [terminal : {"none", "complete", "error"}, eof : BOOLEAN,
            succeeded : BOOLEAN, overran : BOOLEAN]

(* Nothing is registered before the worker is started, but for nginx.        *)
Before == {"gate", "nginx", "initialize", "lock", "attempt"}
EarlyInv ==
  /\ pc \in Before => \A r \in Others : proc[r] = "none"
  /\ pc \in {"gate", "nginx"} => proc["nginx"] = "none"

(* An accepted retry pays for the attempt it will begin.                     *)
AttemptInv == pc \in Before \cup {"restart"} => attempt <= policy.accepted

(* The application is started when the worker has succeeded and gone, and    *)
(* the gate is touched when the application has been ready.                  *)
Late == {"spawnapp", "ready", "serve"} \cup Transition
ServeInv ==
  /\ pc \in Late => told.succeeded /\ proc["migration"] = "none"
  /\ pc \in Transition \cup {"serve"} => ready

(* The gate is open only before nginx is first started, when the service is  *)
(* what the status says, or on the way out with nginx gone.                  *)
Served == /\ told.succeeded /\ ready /\ proc["migration"] = "none"
          /\ store.state = "ready" /\ store.saved = "ready"
GateInv ==
  ~marker =>
    \/ pc = "gate"
    \/ pc \in {"resume", "serve"} /\ Served
    \/ pc \in {"cleanup", "exited"} /\ (Running("nginx") => Served)

SupInv ==
  /\ TypeOK /\ EarlyInv /\ AttemptInv /\ ServeInv /\ ExclusiveWriters /\ GateInv

(* TypeOK over these sets.                                                   *)
LEMMA Types ==
  TypeOK <=>
    /\ pc \in Pcs /\ code \in Codes /\ attempt \in 0 .. policy.accepted + 1
    /\ proc \in Children /\ worker \in WorkerSides /\ told \in Reports
    /\ ready \in BOOLEAN /\ store \in Stores /\ marker \in BOOLEAN
    /\ policy \in Policies /\ flags \in Flags /\ faults \in 0 .. MaxFaults
  BY DEF TypeOK, Children, Stores, Policies, Flags, WorkerSides, Reports

LEMMA TypesNext ==
  TypeOK' <=>
    /\ pc' \in Pcs /\ code' \in Codes /\ attempt' \in 0 .. policy'.accepted + 1
    /\ proc' \in Children /\ worker' \in WorkerSides /\ told' \in Reports
    /\ ready' \in BOOLEAN /\ store' \in Stores /\ marker' \in BOOLEAN
    /\ policy' \in Policies /\ flags' \in Flags /\ faults' \in 0 .. MaxFaults
  BY DEF TypeOK, Children, Stores, Policies, Flags, WorkerSides, Reports

(* The fields the actions change stay in these sets.                         *)
LEMMA ChildTypes ==
  ASSUME NEW p \in Children, NEW r \in Roles, NEW life \in Lives
  PROVE  /\ [p EXCEPT ![r] = life] \in Children
         /\ \A q \in Roles :
              [p EXCEPT ![r] = life][q] = IF q = r THEN life ELSE p[q]
  BY DEF Children

LEMMA FlagTypes ==
  ASSUME NEW f \in Flags, NEW b \in BOOLEAN
  PROVE  /\ [f EXCEPT !.statusFailed = b] \in Flags
         /\ [f EXCEPT !.identityFailed = b] \in Flags
         /\ [f EXCEPT !.locked = b] \in Flags
         /\ [f EXCEPT !.published = b] \in Flags
         /\ [f EXCEPT !.timedOut = b] \in Flags
         /\ [f EXCEPT !.shutdown = b] \in Flags
         /\ [f EXCEPT !.published = b, !.timedOut = b] \in Flags
  BY DEF Flags

LEMMA ReportTypes ==
  ASSUME NEW t \in Reports, NEW b \in BOOLEAN,
         NEW e \in {"none", "complete", "error"}
  PROVE  /\ [t EXCEPT !.terminal = e] \in Reports
         /\ [t EXCEPT !.eof = b] \in Reports
         /\ [t EXCEPT !.succeeded = b] \in Reports
         /\ [t EXCEPT !.overran = b] \in Reports
         /\ NothingTold \in Reports
         /\ t.terminal \in {"none", "complete", "error"}
  BY DEF Reports, NothingTold

LEMMA WorkerTypes ==
  ASSUME NEW w \in WorkerSides, NEW e \in {"none", "complete", "error"},
         NEW x \in {"none", "zero", "nonzero"}
  PROVE  /\ [w EXCEPT !.sent = e] \in WorkerSides
         /\ [w EXCEPT !.exit = x] \in WorkerSides
         /\ NoWorker \in WorkerSides
         /\ w.sent \in {"none", "complete", "error"}
  BY DEF WorkerSides, NoWorker

LEMMA WriteTypes ==
  ASSUME NEW s \in Stores
  PROVE  /\ Written(s) \in Stores /\ Written(s).state = s.state
         /\ Written(s).saved = s.state /\ ~Written(s).dirty
         /\ Unwritten(s) \in Stores /\ Unwritten(s).state = s.state
         /\ Unwritten(s).saved = s.saved /\ Unwritten(s).dirty
         /\ Failing(s) \in Stores
<1>1. /\ Written(s) \in Stores /\ Written(s).state = s.state
      /\ Written(s).saved = s.state /\ ~Written(s).dirty
  BY DEF Stores, Written
<1>2. /\ Unwritten(s) \in Stores /\ Unwritten(s).state = s.state
      /\ Unwritten(s).saved = s.saved /\ Unwritten(s).dirty
  BY DEF Stores, Unwritten
<1>3. Failing(s) \in Stores
  BY DEF Stores, Failing, States
<1>. QED  BY <1>1, <1>2, <1>3

LEMMA StoreTypes ==
  ASSUME NEW s \in Stores, NEW st \in States, NEW b \in BOOLEAN
  PROVE  /\ [s EXCEPT !.state = st] \in Stores
         /\ [s EXCEPT !.state = st].state = st
         /\ [s EXCEPT !.state = st].saved = s.saved
         /\ [s EXCEPT !.state = st, !.done = b] \in Stores
         /\ [s EXCEPT !.state = st, !.done = b].state = st
         /\ [s EXCEPT !.state = st, !.done = b].saved = s.saved
         /\ [s EXCEPT !.done = b] \in Stores
         /\ [s EXCEPT !.done = b].state = s.state
<1>1. /\ [s EXCEPT !.state = st] \in Stores
      /\ [s EXCEPT !.state = st].state = st
      /\ [s EXCEPT !.state = st].saved = s.saved
  BY DEF Stores
<1>2. /\ [s EXCEPT !.state = st, !.done = b] \in Stores
      /\ [s EXCEPT !.state = st, !.done = b].state = st
      /\ [s EXCEPT !.state = st, !.done = b].saved = s.saved
  BY DEF Stores
<1>3. /\ [s EXCEPT !.done = b] \in Stores
      /\ [s EXCEPT !.done = b].state = s.state
  BY DEF Stores
<1>. QED  BY <1>1, <1>2, <1>3

LEMMA FaultTypes ==
  ASSUME faults \in 0 .. MaxFaults
  PROVE  CanFail => faults + 1 \in 0 .. MaxFaults
  BY BudgetAssumption DEF CanFail

LEMMA PolicyTypes ==
  ASSUME NEW p \in Policies
  PROVE  /\ p.accepted \in 0 .. MaxAccepted
         /\ LeaveFailure(p) \in Policies /\ LeaveFailure(p).accepted = p.accepted
         /\ \A c : c \in {"off", "armed", "due"} =>
              /\ [p EXCEPT !.token = TRUE, !.auto = c] \in Policies
              /\ [p EXCEPT !.token = TRUE, !.auto = c].accepted = p.accepted
              /\ [p EXCEPT !.cooled = TRUE, !.auto = c] \in Policies
              /\ [p EXCEPT !.cooled = TRUE, !.auto = c].accepted = p.accepted
         /\ p.accepted < MaxAccepted =>
              /\ Accepted(p) \in Policies /\ Accepted(p).accepted = p.accepted + 1
<1>1. p.accepted \in 0 .. MaxAccepted
  BY DEF Policies
<1>2. LeaveFailure(p) \in Policies /\ LeaveFailure(p).accepted = p.accepted
  BY DEF Policies, LeaveFailure
<1>3. ASSUME NEW c \in {"off", "armed", "due"}
      PROVE  /\ [p EXCEPT !.token = TRUE, !.auto = c] \in Policies
             /\ [p EXCEPT !.token = TRUE, !.auto = c].accepted = p.accepted
             /\ [p EXCEPT !.cooled = TRUE, !.auto = c] \in Policies
             /\ [p EXCEPT !.cooled = TRUE, !.auto = c].accepted = p.accepted
  BY DEF Policies
<1>4. ASSUME p.accepted < MaxAccepted
      PROVE  Accepted(p) \in Policies /\ Accepted(p).accepted = p.accepted + 1
  <2>1. p.accepted + 1 \in 0 .. MaxAccepted
    BY <1>1, <1>4, BudgetAssumption
  <2>. QED  BY <2>1 DEF Policies, Accepted
<1>. QED  BY <1>1, <1>2, <1>3, <1>4

(* What terminating the children rs leaves of each.                          *)
LEMMA TerminateEffect ==
  ASSUME NEW p \in Children, NEW rs \in SUBSET Roles,
         NEW q \in Terminated(p, rs)
  PROVE  /\ q \in Children
         /\ \A r \in Roles : /\ p[r] = "none" => q[r] = "none"
                             /\ r \in rs => q[r] \in {"none", "orphans"}
                             /\ r \notin rs => q[r] = p[r]
  BY DEF Terminated, Children, Lives

LEMMA ReapEffect ==
  ASSUME NEW p \in Children, NEW rs \in SUBSET Roles
  PROVE  /\ Reap(p, rs) \in Children
         /\ \A r \in Roles :
              Reap(p, rs)[r] = IF r \in rs /\ p[r] = "dead" THEN "none" ELSE p[r]
  BY DEF Reap, Children, Lives

LEMMA ResumedEffect ==
  ASSUME NEW p \in Children
  PROVE  /\ Resumed(p) \in Children
         /\ \A r \in Others : Resumed(p)[r] = p[r]
         /\ Resumed(p)["nginx"] = IF p["nginx"] = "stopped" THEN "up" ELSE p["nginx"]
  BY DEF Resumed, Children, Lives, Roles, Others

(* A write of the status, whether it succeeds or not.                        *)
LEMMA PublishEffect ==
  ASSUME NEW s \in Stores, store \in Stores, flags \in Flags,
         faults \in 0 .. MaxFaults, Publish(s)
  PROVE  /\ store' \in Stores /\ flags' \in Flags /\ faults' \in 0 .. MaxFaults
         /\ store'.state = s.state /\ store'.done = s.done
         /\ store'.saved = IF store'.dirty THEN s.saved ELSE s.state
         /\ flags'.shutdown = flags.shutdown
<1>1. /\ Written(s) \in Stores /\ Written(s).state = s.state
      /\ Written(s).done = s.done /\ ~Written(s).dirty
      /\ Written(s).saved = s.state
  BY DEF Written, Stores
<1>2. /\ Unwritten(s) \in Stores /\ Unwritten(s).state = s.state
      /\ Unwritten(s).done = s.done /\ Unwritten(s).dirty
      /\ Unwritten(s).saved = s.saved
  BY DEF Unwritten, Stores
<1>3. /\ [flags EXCEPT !.statusFailed = TRUE] \in Flags
      /\ [flags EXCEPT !.statusFailed = TRUE].shutdown = flags.shutdown
  BY DEF Flags
<1>4. CanFail => faults + 1 \in 0 .. MaxFaults
  BY BudgetAssumption DEF CanFail
<1>5. CASE store' = Written(s) /\ UNCHANGED <<flags, faults>>
  BY <1>1, <1>5
<1>6. CASE /\ CanFail /\ store' = Unwritten(s)
           /\ flags' = [flags EXCEPT !.statusFailed = TRUE]
           /\ faults' = faults + 1
  BY <1>2, <1>3, <1>4, <1>6
<1>. QED  BY <1>5, <1>6 DEF Publish

----------------------------------------------------------------------------
(* One lemma per action: it keeps every part of the invariant.               *)

LEMMA InterruptedKeeps == SupInv /\ Interrupted => SupInv'
<1> SUFFICES ASSUME SupInv, Interrupted  PROVE SupInv'
  OBVIOUS
<1>1. TypeOK'
  BY Types, TypesNext
  DEF SupInv, Interrupted, Goto, Pcs, Interruptible, Transition
<1>2. EarlyInv' /\ AttemptInv'
  BY Types
  DEF SupInv, Interrupted, Goto, EarlyInv, AttemptInv, Before
<1>3. ServeInv' /\ ExclusiveWriters'
  BY Types
  DEF SupInv, Interrupted, Goto, ServeInv, EarlyInv, ExclusiveWriters, Before,
      Late, Transition
<1>4. GateInv'
  BY Types
  DEF SupInv, Interrupted, Goto, GateInv, Served, EarlyInv, ServeInv, Before,
      Late, Transition, Running, Roles, Others
<1>. QED  BY <1>1, <1>2, <1>3, <1>4 DEF SupInv

LEMMA PrepareGateKeeps == SupInv /\ PrepareGate => SupInv'
<1> SUFFICES ASSUME SupInv, PrepareGate  PROVE SupInv'
  OBVIOUS
<1>1. TypeOK'
  BY Types, TypesNext, FaultTypes
  DEF SupInv, PrepareGate, Goto, Pcs, Interruptible, Transition
<1>2. EarlyInv' /\ AttemptInv'
  BY Types
  DEF SupInv, PrepareGate, At, Goto, EarlyInv, AttemptInv, Before
<1>3. ServeInv' /\ ExclusiveWriters'
  BY Types
  DEF SupInv, PrepareGate, At, Goto, ServeInv, EarlyInv, ExclusiveWriters,
      Before, Late, Transition
<1>4. GateInv'
  BY Types
  DEF SupInv, PrepareGate, At, Goto, GateInv, Served, EarlyInv, ServeInv,
      Before, Late, Transition, Running, Roles, Others
<1>. QED  BY <1>1, <1>2, <1>3, <1>4 DEF SupInv

LEMMA SpawnNginxKeeps == SupInv /\ SpawnNginx => SupInv'
<1> SUFFICES ASSUME SupInv, SpawnNginx  PROVE SupInv'
  OBVIOUS
<1>1. TypeOK'
  BY Types, TypesNext, ChildTypes
  DEF SupInv, SpawnNginx, Goto, Pcs, Interruptible, Transition, Lives, Roles
<1>2. EarlyInv' /\ AttemptInv'
  BY Types, ChildTypes
  DEF SupInv, SpawnNginx, At, Goto, EarlyInv, AttemptInv, Before, Roles,
      Others
<1>3. ServeInv' /\ ExclusiveWriters'
  BY Types, ChildTypes
  DEF SupInv, SpawnNginx, At, Goto, ServeInv, EarlyInv, ExclusiveWriters,
      Before, Late, Transition, Roles, Others
<1>4. GateInv'
  BY Types, ChildTypes
  DEF SupInv, SpawnNginx, At, Goto, GateInv, Served, EarlyInv, ServeInv,
      Before, Late, Transition, Running, Roles, Others
<1>. QED  BY <1>1, <1>2, <1>3, <1>4 DEF SupInv

LEMMA InitializeKeeps == SupInv /\ Initialize => SupInv'
<1> SUFFICES ASSUME SupInv, Initialize  PROVE SupInv'
  OBVIOUS
<1>1. TypeOK'
  BY Types, TypesNext, StoreTypes, PublishEffect
  DEF SupInv, Initialize, Project, Goto, Pcs, Interruptible, Transition,
      States
<1>2. EarlyInv' /\ AttemptInv'
  BY Types, PublishEffect, StoreTypes
  DEF SupInv, Initialize, Project, At, Goto, EarlyInv, AttemptInv, Before
<1>3. ServeInv' /\ ExclusiveWriters'
  BY Types, PublishEffect, StoreTypes
  DEF SupInv, Initialize, Project, At, Goto, ServeInv, EarlyInv,
      ExclusiveWriters, Before, Late, Transition
<1>4. GateInv'
  BY Types, PublishEffect, StoreTypes
  DEF SupInv, Initialize, Project, At, Goto, GateInv, Served, EarlyInv,
      ServeInv, Before, Late, Transition, Running, Roles, Others
<1>. QED  BY <1>1, <1>2, <1>3, <1>4 DEF SupInv

LEMMA AcquireLockKeeps == SupInv /\ AcquireLock => SupInv'
<1> SUFFICES ASSUME SupInv, AcquireLock  PROVE SupInv'
  OBVIOUS
<1>1. TypeOK'
  BY Types, TypesNext, FlagTypes
  DEF SupInv, AcquireLock, Goto, Fail, Pcs, Interruptible, Transition, Codes
<1>2. EarlyInv' /\ AttemptInv'
  BY Types
  DEF SupInv, AcquireLock, At, Goto, Fail, EarlyInv, AttemptInv, Before
<1>3. ServeInv' /\ ExclusiveWriters'
  BY Types
  DEF SupInv, AcquireLock, At, Goto, Fail, ServeInv, EarlyInv,
      ExclusiveWriters, Before, Late, Transition
<1>4. GateInv'
  BY Types
  DEF SupInv, AcquireLock, At, Goto, Fail, GateInv, Served, EarlyInv,
      ServeInv, Before, Late, Transition, Running, Roles, Others
<1>. QED  BY <1>1, <1>2, <1>3, <1>4 DEF SupInv

LEMMA SpawnWorkerKeeps == SupInv /\ SpawnWorker => SupInv'
<1> SUFFICES ASSUME SupInv, SpawnWorker  PROVE SupInv'
  OBVIOUS
<1>1. /\ proc \in Children /\ flags \in Flags /\ worker \in WorkerSides
      /\ {"nginx", "migration", "gunicorn", "export"} = Roles
      /\ Others = {"migration", "gunicorn", "export"}
  BY Types DEF SupInv, Roles, Others
<1>2. pc = "attempt" /\ marker /\ attempt <= policy.accepted
      /\ proc["migration"] = "none" /\ proc["gunicorn"] = "none"
      /\ proc["export"] = "none"
  BY <1>1, Types DEF SupInv, SpawnWorker, At, EarlyInv, AttemptInv, Before, GateInv
<1>3. UNCHANGED <<told, ready, store, marker, policy, faults>>
  BY DEF SpawnWorker
<1>4. CASE pc' = "cleanup" /\ UNCHANGED <<code, proc, worker, attempt, flags>>
  <2>1. TypeOK'
    BY <1>3, <1>4, Types, TypesNext DEF SupInv, Pcs
  <2>. QED
    BY <1>1, <1>2, <1>3, <1>4, <2>1
    DEF SupInv, EarlyInv, AttemptInv, ServeInv, ExclusiveWriters, GateInv,
        Before, Late, Transition
<1>5. CASE /\ proc' = [proc EXCEPT !["migration"] = "up"]
           /\ worker' = NoWorker /\ attempt' = attempt + 1
           /\ pc' = "drive" /\ UNCHANGED <<code, flags>>
  <2>1. /\ proc' \in Children /\ proc'["gunicorn"] = "none"
        /\ proc'["export"] = "none"
    BY <1>1, <1>2, <1>5 DEF Children, Lives
  <2>2. TypeOK'
    <3>1. attempt' \in 0 .. policy'.accepted + 1
      <4>1. /\ attempt \in 0 .. policy.accepted + 1
            /\ policy.accepted \in 0 .. MaxAccepted /\ policy' = policy
        BY <1>3, Types, PolicyTypes DEF SupInv
      <4>. QED  BY <1>2, <1>5, <4>1, BudgetAssumption
    <3>. QED
      BY <1>1, <1>3, <1>5, <2>1, <3>1, Types, TypesNext, WorkerTypes
      DEF SupInv, Pcs, Interruptible
  <2>. QED
    BY <1>2, <1>3, <1>5, <2>1, <2>2
    DEF SupInv, EarlyInv, AttemptInv, ServeInv, ExclusiveWriters, GateInv,
        Before, Late, Transition
<1>6. CASE /\ flags' = [flags EXCEPT !.identityFailed = TRUE]
           /\ pc' = "fail" /\ code' = "runtime_supervisor_failed"
           /\ UNCHANGED <<proc, worker, attempt>>
  <2>1. TypeOK'
    BY <1>1, <1>3, <1>6, Types, TypesNext, FlagTypes DEF SupInv, Pcs, Codes
  <2>. QED
    BY <1>1, <1>2, <1>3, <1>6, <2>1
    DEF SupInv, EarlyInv, AttemptInv, ServeInv, ExclusiveWriters, GateInv,
        Before, Late, Transition
<1>. QED  BY <1>4, <1>5, <1>6 DEF SpawnWorker, Goto, Fail

LEMMA StatusTickKeeps == SupInv /\ StatusTick => SupInv'
<1> SUFFICES ASSUME SupInv, StatusTick  PROVE SupInv'
  OBVIOUS
<1>1. TypeOK'
  BY Types, TypesNext, PublishEffect
  DEF SupInv, StatusTick
<1>2. EarlyInv' /\ AttemptInv'
  BY Types, PublishEffect
  DEF SupInv, StatusTick, EarlyInv, AttemptInv, Before
<1>3. ServeInv' /\ ExclusiveWriters'
  BY Types, PublishEffect
  DEF SupInv, StatusTick, ServeInv, EarlyInv, ExclusiveWriters, Before, Late,
      Transition
<1>4. GateInv'
  BY Types, PublishEffect
  DEF SupInv, StatusTick, GateInv, Served, EarlyInv, ServeInv, Before, Late,
      Transition, Running, Roles, Others
<1>. QED  BY <1>1, <1>2, <1>3, <1>4 DEF SupInv

LEMMA ApplyWorkerEventKeeps == SupInv /\ ApplyWorkerEvent => SupInv'
<1> SUFFICES ASSUME SupInv, ApplyWorkerEvent  PROVE SupInv'
  OBVIOUS
<1>1. /\ store \in Stores /\ flags \in Flags /\ faults \in 0 .. MaxFaults
      /\ told \in Reports /\ worker.sent \in {"none", "complete", "error"}
      /\ pc = "drive" /\ marker
  BY Types, WorkerTypes DEF SupInv, ApplyWorkerEvent, At, GateInv
<1>2. /\ [store EXCEPT !.state = "migrating", !.done = TRUE] \in Stores
      /\ Failing(store) \in Stores
  BY <1>1, WriteTypes DEF Stores, States
<1>3. store' \in Stores /\ flags' \in Flags /\ faults' \in 0 .. MaxFaults
  BY <1>1, <1>2, PublishEffect DEF ApplyWorkerEvent
<1>4. told' \in Reports
  BY <1>1, ReportTypes DEF ApplyWorkerEvent
<1>5. UNCHANGED <<pc, code, attempt, proc, worker, ready, marker, policy>>
  BY DEF ApplyWorkerEvent
<1>6. TypeOK'
  BY <1>3, <1>4, <1>5, Types, TypesNext DEF SupInv
<1>. QED
  BY <1>1, <1>5, <1>6
  DEF SupInv, EarlyInv, AttemptInv, ServeInv, ExclusiveWriters, GateInv, Before,
      Late, Transition

LEMMA ProtocolErrorKeeps == SupInv /\ ProtocolError => SupInv'
<1> SUFFICES ASSUME SupInv, ProtocolError  PROVE SupInv'
  OBVIOUS
<1>1. TypeOK'
  BY Types, TypesNext, TerminateEffect
  DEF SupInv, ProtocolError, Terminate, Fail, Pcs, Interruptible, Transition,
      Codes, Roles, Others
<1>2. EarlyInv' /\ AttemptInv'
  BY Types, TerminateEffect
  DEF SupInv, ProtocolError, Terminate, At, Fail, EarlyInv, AttemptInv,
      Before, Roles, Others
<1>3. ServeInv' /\ ExclusiveWriters'
  BY Types, TerminateEffect
  DEF SupInv, ProtocolError, Terminate, At, Fail, ServeInv, EarlyInv,
      ExclusiveWriters, Before, Late, Transition, Running, Roles, Others
<1>4. GateInv'
  BY Types, TerminateEffect
  DEF SupInv, ProtocolError, Terminate, At, Fail, GateInv, Served, EarlyInv,
      ServeInv, Before, Late, Transition, Running, Roles, Others
<1>. QED  BY <1>1, <1>2, <1>3, <1>4 DEF SupInv

LEMMA EndOfPipeKeeps == SupInv /\ EndOfPipe => SupInv'
<1> SUFFICES ASSUME SupInv, EndOfPipe  PROVE SupInv'
  OBVIOUS
<1>1. TypeOK'
  BY Types, TypesNext, ReportTypes
  DEF SupInv, EndOfPipe, Goto, Pcs, Interruptible, Transition
<1>2. EarlyInv' /\ AttemptInv'
  BY Types
  DEF SupInv, EndOfPipe, At, Goto, EarlyInv, AttemptInv, Before
<1>3. ServeInv' /\ ExclusiveWriters'
  BY Types
  DEF SupInv, EndOfPipe, At, Goto, ServeInv, EarlyInv, ExclusiveWriters,
      Before, Late, Transition, Running
<1>4. GateInv'
  BY Types
  DEF SupInv, EndOfPipe, At, Goto, GateInv, Served, EarlyInv, ServeInv,
      Before, Late, Transition, Running, Roles, Others
<1>. QED  BY <1>1, <1>2, <1>3, <1>4 DEF SupInv

LEMMA NginxGoneEarlyKeeps == SupInv /\ NginxGoneEarly => SupInv'
<1> SUFFICES ASSUME SupInv, NginxGoneEarly  PROVE SupInv'
  OBVIOUS
<1>1. TypeOK'
  BY Types, TypesNext, TerminateEffect
  DEF SupInv, NginxGoneEarly, Terminate, Goto, Pcs, Interruptible, Transition,
      Roles, Others
<1>2. EarlyInv' /\ AttemptInv'
  BY Types, TerminateEffect
  DEF SupInv, NginxGoneEarly, Terminate, Goto, EarlyInv, AttemptInv, Before,
      Roles, Others
<1>3. ServeInv' /\ ExclusiveWriters'
  BY Types, TerminateEffect
  DEF SupInv, NginxGoneEarly, Terminate, Goto, ServeInv, EarlyInv,
      ExclusiveWriters, Before, Late, Transition, Running, Roles, Others
<1>4. GateInv'
  BY Types, TerminateEffect
  DEF SupInv, NginxGoneEarly, Terminate, Goto, GateInv, Served, EarlyInv,
      ServeInv, Before, Late, Transition, Running, Roles, Others
<1>. QED  BY <1>1, <1>2, <1>3, <1>4 DEF SupInv

LEMMA WorkerReapedKeeps == SupInv /\ WorkerReaped => SupInv'
<1> SUFFICES ASSUME SupInv, WorkerReaped  PROVE SupInv'
  OBVIOUS
<1>1. /\ proc \in Children /\ {"migration"} \in SUBSET Roles
      /\ pc = "reap" /\ marker /\ proc["migration"] = "dead"
  BY Types DEF SupInv, WorkerReaped, At, GateInv, Roles
<1>2. /\ proc' \in Children /\ proc'["migration"] = "none"
      /\ pc' \in {"spawnapp", "fail"}
      /\ pc' = "spawnapp" => told'.succeeded
      /\ marker' /\ UNCHANGED <<attempt, policy>>
  <2>1. proc' \in Children /\ proc'["migration"] = "none"
    BY <1>1, ReapEffect DEF WorkerReaped, Roles
  <2>2. [told EXCEPT !.succeeded = TRUE].succeeded
    BY Types DEF SupInv, Reports
  <2>. QED  BY <1>1, <2>1, <2>2 DEF WorkerReaped, Goto, Fail
<1>3. TypeOK'
  BY <1>2, Types, TypesNext, ReportTypes
  DEF SupInv, WorkerReaped, Goto, Fail, Pcs, Interruptible, Codes
<1>. QED
  BY <1>2, <1>3
  DEF SupInv, EarlyInv, AttemptInv, ServeInv, ExclusiveWriters, GateInv, Before,
      Late, Transition

LEMMA WorkerOverrunsKeeps == SupInv /\ WorkerOverruns => SupInv'
<1> SUFFICES ASSUME SupInv, WorkerOverruns  PROVE SupInv'
  OBVIOUS
<1>1. TypeOK'
  BY Types, TypesNext, ReportTypes, TerminateEffect
  DEF SupInv, WorkerOverruns, Terminate, Fail, Pcs, Interruptible, Transition,
      Codes, RecoverableCodes, Roles, Others
<1>2. EarlyInv' /\ AttemptInv'
  BY Types, TerminateEffect
  DEF SupInv, WorkerOverruns, Terminate, At, Fail, EarlyInv, AttemptInv,
      Before, Roles, Others
<1>3. ServeInv' /\ ExclusiveWriters'
  BY Types, TerminateEffect
  DEF SupInv, WorkerOverruns, Terminate, At, Fail, ServeInv, EarlyInv,
      ExclusiveWriters, Before, Late, Transition, Running, Roles, Others
<1>4. GateInv'
  BY Types, TerminateEffect
  DEF SupInv, WorkerOverruns, Terminate, At, Fail, GateInv, Served, EarlyInv,
      ServeInv, Before, Late, Transition, Running, Roles, Others
<1>. QED  BY <1>1, <1>2, <1>3, <1>4 DEF SupInv

LEMMA SpawnGunicornKeeps == SupInv /\ SpawnGunicorn => SupInv'
<1> SUFFICES ASSUME SupInv, SpawnGunicorn  PROVE SupInv'
  OBVIOUS
<1>1. /\ proc \in Children /\ flags \in Flags /\ "gunicorn" \in Roles
      /\ pc = "spawnapp" /\ marker /\ told.succeeded /\ proc["migration"] = "none"
  BY Types
  DEF SupInv, SpawnGunicorn, At, GateInv, ServeInv, Late, Roles, Transition
<1>2. /\ proc' \in Children /\ flags' \in Flags
      /\ pc' \in {"ready", "fail"} /\ code' \in Codes
      /\ UNCHANGED <<attempt, worker, told, ready, store, marker, policy, faults>>
  <2>1. /\ [proc EXCEPT !["gunicorn"] = "up"] \in Children
        /\ [flags EXCEPT !.identityFailed = TRUE] \in Flags /\ code \in Codes
    BY <1>1, Types, ChildTypes, FlagTypes DEF SupInv, Lives
  <2>2. /\ proc' = [proc EXCEPT !["gunicorn"] = "up"] \/ proc' = proc
        /\ flags' = [flags EXCEPT !.identityFailed = TRUE] \/ flags' = flags
        /\ pc' \in {"ready", "fail"}
        /\ code' \in {code, "gunicorn_start_failed", "runtime_supervisor_failed"}
    BY DEF SpawnGunicorn, Goto, Fail
  <2>3. UNCHANGED <<attempt, worker, told, ready, store, marker, policy, faults>>
    BY DEF SpawnGunicorn
  <2>. QED  BY <1>1, <2>1, <2>2, <2>3 DEF Codes, RecoverableCodes
<1>3. proc'["migration"] = "none"
  BY <1>1 DEF SpawnGunicorn, Children, Roles
<1>4. TypeOK'
  BY <1>2, Types, TypesNext DEF SupInv, Pcs, Interruptible
<1>. QED
  BY <1>1, <1>2, <1>3, <1>4
  DEF SupInv, EarlyInv, AttemptInv, ServeInv, ExclusiveWriters, GateInv, Before,
      Late, Transition

LEMMA WaitForReadinessKeeps == SupInv /\ WaitForReadiness => SupInv'
<1> SUFFICES ASSUME SupInv, WaitForReadiness  PROVE SupInv'
  OBVIOUS
<1>1. TypeOK'
  BY Types, TypesNext, FlagTypes, TerminateEffect
  DEF SupInv, WaitForReadiness, Terminate, Goto, Fail, Pcs, Interruptible,
      Transition, Codes, RecoverableCodes, Roles, Others
<1>2. EarlyInv' /\ AttemptInv'
  BY Types, TerminateEffect
  DEF SupInv, WaitForReadiness, Terminate, At, Goto, Fail, EarlyInv,
      AttemptInv, Before, Roles, Others
<1>3. ServeInv' /\ ExclusiveWriters'
  BY Types, TerminateEffect
  DEF SupInv, WaitForReadiness, Terminate, At, Goto, Fail, ServeInv, EarlyInv,
      ExclusiveWriters, Before, Late, Transition, Running, Roles, Others
<1>4. GateInv'
  BY Types, TerminateEffect
  DEF SupInv, WaitForReadiness, Terminate, At, Goto, Fail, GateInv, Served,
      EarlyInv, ServeInv, Before, Late, Transition, Running, Roles, Others
<1>. QED  BY <1>1, <1>2, <1>3, <1>4 DEF SupInv

LEMMA GuardFailsKeeps == SupInv /\ GuardFails => SupInv'
<1> SUFFICES ASSUME SupInv, GuardFails  PROVE SupInv'
  OBVIOUS
<1>1. TypeOK'
  BY Types, TypesNext, ResumedEffect, FaultTypes, TerminateEffect
  DEF SupInv, GuardFails, GateConfirmed, GuardHolds, Retrying, Terminate,
      Goto, Fail, Pcs, Interruptible, Transition, Codes, RecoverableCodes,
      Roles, Others
<1>2. EarlyInv' /\ AttemptInv'
  BY Types, TerminateEffect, ResumedEffect
  DEF SupInv, GuardFails, GateConfirmed, GuardHolds, Retrying, Terminate,
      Goto, Fail, EarlyInv, AttemptInv, Before, Transition, Roles, Others
<1>3. ServeInv' /\ ExclusiveWriters'
  BY Types, TerminateEffect, ResumedEffect
  DEF SupInv, GuardFails, GateConfirmed, GuardHolds, Retrying, Terminate,
      Goto, Fail, ServeInv, EarlyInv, ExclusiveWriters, Before, Late,
      Transition, Running, Roles, Others
<1>4. GateInv'
  BY Types, TerminateEffect, ResumedEffect
  DEF SupInv, GuardFails, GateConfirmed, GuardHolds, Retrying, Terminate,
      Goto, Fail, GateInv, Served, EarlyInv, ServeInv, Before, Late,
      Transition, Running, Roles, Others
<1>. QED  BY <1>1, <1>2, <1>3, <1>4 DEF SupInv

LEMMA StartingServiceKeeps == SupInv /\ StartingService => SupInv'
<1> SUFFICES ASSUME SupInv, StartingService  PROVE SupInv'
  OBVIOUS
<1>1. TypeOK'
  BY Types, TypesNext, StoreTypes, PublishEffect
  DEF SupInv, StartingService, Project, Retrying, GuardHolds, Goto, Pcs,
      Interruptible, Transition, States
<1>2. EarlyInv' /\ AttemptInv'
  BY Types, PublishEffect, StoreTypes
  DEF SupInv, StartingService, Project, Retrying, GuardHolds, Goto, EarlyInv,
      AttemptInv, Before
<1>3. ServeInv' /\ ExclusiveWriters'
  BY Types, PublishEffect, StoreTypes
  DEF SupInv, StartingService, Project, Retrying, GuardHolds, Goto, ServeInv,
      EarlyInv, ExclusiveWriters, Before, Late, Transition
<1>4. GateInv'
  BY Types, PublishEffect, StoreTypes
  DEF SupInv, StartingService, Project, Retrying, GuardHolds, Goto, GateInv,
      Served, EarlyInv, ServeInv, Before, Late, Transition, Running, Roles,
      Others
<1>. QED  BY <1>1, <1>2, <1>3, <1>4 DEF SupInv

LEMMA StartingTimesOutKeeps == SupInv /\ StartingTimesOut => SupInv'
<1> SUFFICES ASSUME SupInv, StartingTimesOut  PROVE SupInv'
  OBVIOUS
<1>1. TypeOK'
  BY Types, TypesNext, TerminateEffect
  DEF SupInv, StartingTimesOut, Retrying, Terminate, Fail, Pcs, Interruptible,
      Transition, Codes, Roles, Others
<1>2. EarlyInv' /\ AttemptInv'
  BY Types, TerminateEffect
  DEF SupInv, StartingTimesOut, Retrying, Terminate, Fail, EarlyInv,
      AttemptInv, Before, Roles, Others
<1>3. ServeInv' /\ ExclusiveWriters'
  BY Types, TerminateEffect
  DEF SupInv, StartingTimesOut, Retrying, Terminate, Fail, ServeInv, EarlyInv,
      ExclusiveWriters, Before, Late, Transition, Roles, Others
<1>4. GateInv'
  BY Types, TerminateEffect
  DEF SupInv, StartingTimesOut, Retrying, Terminate, Fail, GateInv, Served,
      EarlyInv, ServeInv, Before, Late, Transition, Running, Roles, Others
<1>. QED  BY <1>1, <1>2, <1>3, <1>4 DEF SupInv

LEMMA RetryInterruptedKeeps == SupInv /\ RetryInterrupted => SupInv'
<1> SUFFICES ASSUME SupInv, RetryInterrupted  PROVE SupInv'
  OBVIOUS
<1>1. TypeOK'
  BY Types, TypesNext
  DEF SupInv, RetryInterrupted, Retrying, Goto, Pcs, Interruptible, Transition
<1>2. EarlyInv' /\ AttemptInv'
  BY Types
  DEF SupInv, RetryInterrupted, Retrying, Goto, EarlyInv, AttemptInv, Before,
      Transition
<1>3. ServeInv' /\ ExclusiveWriters'
  BY Types
  DEF SupInv, RetryInterrupted, Retrying, Goto, ServeInv, EarlyInv,
      ExclusiveWriters, Before, Late, Transition
<1>4. GateInv'
  BY Types
  DEF SupInv, RetryInterrupted, Retrying, Goto, GateInv, Served, EarlyInv,
      ServeInv, Before, Late, Transition, Running, Roles, Others
<1>. QED  BY <1>1, <1>2, <1>3, <1>4 DEF SupInv

LEMMA PauseNginxKeeps == SupInv /\ PauseNginx => SupInv'
<1> SUFFICES ASSUME SupInv, PauseNginx  PROVE SupInv'
  OBVIOUS
<1>1. TypeOK'
  BY Types, TypesNext, ChildTypes
  DEF SupInv, PauseNginx, GuardHolds, Goto, Pcs, Interruptible, Transition,
      Lives, Roles
<1>2. EarlyInv' /\ AttemptInv'
  BY Types, ChildTypes
  DEF SupInv, PauseNginx, GuardHolds, Goto, EarlyInv, AttemptInv, Before,
      Roles, Others
<1>3. ServeInv' /\ ExclusiveWriters'
  BY Types, ChildTypes
  DEF SupInv, PauseNginx, GuardHolds, Goto, ServeInv, EarlyInv,
      ExclusiveWriters, Before, Late, Transition, Roles, Others
<1>4. GateInv'
  BY Types, ChildTypes
  DEF SupInv, PauseNginx, GuardHolds, Goto, GateInv, Served, EarlyInv,
      ServeInv, Before, Late, Transition, Running, Roles, Others
<1>. QED  BY <1>1, <1>2, <1>3, <1>4 DEF SupInv

LEMMA QuiesceKeeps == SupInv /\ Quiesce => SupInv'
<1> SUFFICES ASSUME SupInv, Quiesce  PROVE SupInv'
  OBVIOUS
<1>1. TypeOK'
  BY Types, TypesNext
  DEF SupInv, Quiesce, GuardHolds, Goto, Pcs, Interruptible, Transition, Codes
<1>2. EarlyInv' /\ AttemptInv'
  BY Types
  DEF SupInv, Quiesce, GuardHolds, Goto, EarlyInv, AttemptInv, Before
<1>3. ServeInv' /\ ExclusiveWriters'
  BY Types
  DEF SupInv, Quiesce, GuardHolds, Goto, ServeInv, EarlyInv, ExclusiveWriters,
      Before, Late, Transition
<1>4. GateInv'
  BY Types
  DEF SupInv, Quiesce, GuardHolds, Goto, GateInv, Served, EarlyInv, ServeInv,
      Before, Late, Transition, Running, Roles, Others
<1>. QED  BY <1>1, <1>2, <1>3, <1>4 DEF SupInv

LEMMA OpenServiceKeeps == SupInv /\ OpenService => SupInv'
<1> SUFFICES ASSUME SupInv, OpenService  PROVE SupInv'
  OBVIOUS
<1>1. /\ proc \in Children /\ store \in Stores /\ flags \in Flags
      /\ faults \in 0 .. MaxFaults /\ pc = "open" /\ marker
      /\ told.succeeded /\ ready /\ proc["migration"] = "none"
  BY Types DEF SupInv, OpenService, GateInv, ServeInv, Late, Transition
<1>2. /\ store' \in Stores /\ flags' \in Flags /\ faults' \in 0 .. MaxFaults
      /\ store'.state = "ready" /\ (~store'.dirty => store'.saved = "ready")
  <2>1. /\ [store EXCEPT !.state = "ready"] \in Stores
        /\ [store EXCEPT !.state = "ready"].state = "ready"
    BY <1>1 DEF Stores, States
  <2>. QED  BY <1>1, <2>1, PublishEffect DEF OpenService, Project
<1>3. /\ UNCHANGED <<code, attempt, proc, worker, told, ready, policy>>
      /\ \/ store'.dirty /\ pc' = "open" /\ marker'
         \/ ~store'.dirty /\ pc' = "resume" /\ marker' = FALSE
  BY <1>1 DEF OpenService, Goto
<1>4. TypeOK'
  BY <1>2, <1>3, Types, TypesNext DEF SupInv, Pcs, Transition
<1>. QED
  BY <1>1, <1>2, <1>3, <1>4
  DEF SupInv, EarlyInv, AttemptInv, ServeInv, ExclusiveWriters, GateInv, Before,
      Late, Transition, Served

LEMMA OpenTimesOutKeeps == SupInv /\ OpenTimesOut => SupInv'
<1> SUFFICES ASSUME SupInv, OpenTimesOut  PROVE SupInv'
  OBVIOUS
<1>1. TypeOK'
  BY Types, TypesNext
  DEF SupInv, OpenTimesOut, Retrying, Pcs, Interruptible, Transition, Codes
<1>2. EarlyInv' /\ AttemptInv'
  BY Types
  DEF SupInv, OpenTimesOut, Retrying, EarlyInv, AttemptInv, Before
<1>3. ServeInv' /\ ExclusiveWriters'
  BY Types
  DEF SupInv, OpenTimesOut, Retrying, ServeInv, EarlyInv, ExclusiveWriters,
      Before, Late, Transition
<1>4. GateInv'
  BY Types
  DEF SupInv, OpenTimesOut, Retrying, GateInv, Served, EarlyInv, ServeInv,
      Before, Late, Transition, Running, Roles, Others
<1>. QED  BY <1>1, <1>2, <1>3, <1>4 DEF SupInv

LEMMA OpenFailsKeeps == SupInv /\ OpenFails => SupInv'
<1> SUFFICES ASSUME SupInv, OpenFails  PROVE SupInv'
  OBVIOUS
<1>1. /\ proc \in Children /\ store \in Stores /\ flags \in Flags
      /\ pc = "open" /\ told.succeeded /\ ready /\ proc["migration"] = "none"
      /\ proc' \in Children /\ proc'["migration"] = "none"
  <2>1. /\ pc = "open" /\ proc \in Children /\ proc["migration"] = "none"
        /\ told.succeeded /\ ready /\ "migration" \in Others
        /\ "migration" \in Roles /\ "gunicorn" \in Roles /\ "nginx" \in Roles
    BY Types DEF SupInv, OpenFails, ServeInv, Late, Transition, Others, Roles
  <2>2. /\ Resumed(proc) \in Children /\ Resumed(proc)["migration"] = "none"
    BY <2>1, ResumedEffect
  <2>3. ASSUME NEW p \in Children, p["migration"] = "none",
               NEW rs \in SUBSET Roles, proc' \in Terminated(p, rs)
        PROVE  proc' \in Children /\ proc'["migration"] = "none"
    BY <2>1, <2>3, TerminateEffect
  <2>4. proc' \in Children /\ proc'["migration"] = "none"
    BY <2>1, <2>2, <2>3 DEF OpenFails, Terminate
  <2>. QED  BY <2>1, <2>4, Types DEF SupInv
<1>2. /\ Written([Failing(store) EXCEPT !.done = TRUE]) \in Stores
      /\ Written([store EXCEPT !.state = "ready"]) \in Stores
      /\ Written([store EXCEPT !.state = "ready"]).state = "ready"
      /\ Written([store EXCEPT !.state = "ready"]).saved = "ready"
      /\ [flags EXCEPT !.statusFailed = TRUE] \in Flags
  <2>1. /\ Failing(store) \in Stores /\ [store EXCEPT !.state = "ready"] \in Stores
        /\ [store EXCEPT !.state = "ready"].state = "ready"
    BY <1>1, StoreTypes, WriteTypes DEF States
  <2>2. [Failing(store) EXCEPT !.done = TRUE] \in Stores
    BY <2>1, StoreTypes DEF States
  <2>. QED  BY <1>1, <2>1, <2>2, WriteTypes, FlagTypes
<1>3. /\ flags' \in Flags /\ faults' \in 0 .. MaxFaults /\ store' \in Stores
      /\ UNCHANGED <<attempt, worker, told, ready, policy>>
      /\ \/ marker' = TRUE /\ pc' = "fail" /\ code' = "runtime_gate_open_failed"
         \/ /\ marker' \in BOOLEAN /\ pc' = "cleanup" /\ code' = code
            /\ store'.state = "ready" /\ store'.saved = "ready"
  BY <1>2, Types, FaultTypes DEF SupInv, OpenFails, Goto, Fail
<1>4. TypeOK'
  BY <1>1, <1>3, Types, TypesNext DEF SupInv, Pcs, Codes
<1>. QED
  BY <1>1, <1>3, <1>4
  DEF SupInv, EarlyInv, AttemptInv, ServeInv, ExclusiveWriters, GateInv, Before,
      Late, Transition, Served

LEMMA GiveUpOpeningKeeps == SupInv /\ GiveUpOpening => SupInv'
<1> SUFFICES ASSUME SupInv, GiveUpOpening  PROVE SupInv'
  OBVIOUS
<1>1. TypeOK'
  BY Types, TypesNext, ResumedEffect, FaultTypes, TerminateEffect
  DEF SupInv, GiveUpOpening, GateConfirmed, GuardHolds, Terminate, Goto, Pcs,
      Interruptible, Transition, Roles, Others
<1>2. EarlyInv' /\ AttemptInv'
  BY Types, TerminateEffect, ResumedEffect
  DEF SupInv, GiveUpOpening, GateConfirmed, GuardHolds, Terminate, Goto,
      EarlyInv, AttemptInv, Before, Roles, Others
<1>3. ServeInv' /\ ExclusiveWriters'
  BY Types, TerminateEffect, ResumedEffect
  DEF SupInv, GiveUpOpening, GateConfirmed, GuardHolds, Terminate, Goto,
      ServeInv, EarlyInv, ExclusiveWriters, Before, Late, Transition, Roles,
      Others
<1>4. GateInv'
  BY Types, TerminateEffect, ResumedEffect
  DEF SupInv, GiveUpOpening, GateConfirmed, GuardHolds, Terminate, Goto,
      GateInv, Served, EarlyInv, ServeInv, Before, Late, Transition, Running,
      Roles, Others
<1>. QED  BY <1>1, <1>2, <1>3, <1>4 DEF SupInv

LEMMA ResumeNginxKeeps == SupInv /\ ResumeNginx => SupInv'
<1> SUFFICES ASSUME SupInv, ResumeNginx  PROVE SupInv'
  OBVIOUS
<1>1. TypeOK'
  BY Types, TypesNext, ResumedEffect
  DEF SupInv, ResumeNginx, GuardHolds, Goto, Pcs, Interruptible, Transition,
      Roles, Others
<1>2. EarlyInv' /\ AttemptInv'
  BY Types, ResumedEffect
  DEF SupInv, ResumeNginx, GuardHolds, Goto, EarlyInv, AttemptInv, Before,
      Roles, Others
<1>3. ServeInv' /\ ExclusiveWriters'
  BY Types, ResumedEffect
  DEF SupInv, ResumeNginx, GuardHolds, Goto, ServeInv, EarlyInv,
      ExclusiveWriters, Before, Late, Transition, Roles, Others
<1>4. GateInv'
  BY Types, ResumedEffect
  DEF SupInv, ResumeNginx, GuardHolds, Goto, GateInv, Served, EarlyInv,
      ServeInv, Before, Late, Transition, Running, Roles, Others
<1>. QED  BY <1>1, <1>2, <1>3, <1>4 DEF SupInv

LEMMA MaintainExportKeeps == SupInv /\ MaintainExport => SupInv'
<1> SUFFICES ASSUME SupInv, MaintainExport  PROVE SupInv'
  OBVIOUS
<1>1. /\ proc \in Children /\ flags \in Flags /\ pc = "serve"
      /\ "export" \in Roles /\ {"export"} \in SUBSET Roles
      /\ proc["migration"] = "none"
  BY Types DEF SupInv, MaintainExport, At, ServeInv, Late, Roles
<1>2. /\ proc' \in Children /\ proc'["migration"] = "none"
      /\ flags' \in Flags
      /\ UNCHANGED <<pc, code, attempt, worker, told, ready, store, marker, policy,
                     faults>>
  <2>1. /\ [proc EXCEPT !["export"] = "up"] \in Children
        /\ [proc EXCEPT !["export"] = "up"]["migration"] = "none"
    BY <1>1 DEF Children, Lives, Roles
  <2>2. /\ Reap(proc, {"export"}) \in Children
        /\ Reap(proc, {"export"})["migration"] = "none"
    BY <1>1, ReapEffect DEF Roles
  <2>3. [flags EXCEPT !.identityFailed = TRUE] \in Flags
    BY <1>1, FlagTypes
  <2>. QED  BY <1>1, <2>1, <2>2, <2>3 DEF MaintainExport
<1>3. TypeOK'
  BY <1>2, Types, TypesNext DEF SupInv
<1>. QED
  BY <1>1, <1>2, <1>3
  DEF SupInv, EarlyInv, AttemptInv, ServeInv, ExclusiveWriters, GateInv, Before,
      Late, Transition, Served

LEMMA ServeWithoutNginxKeeps == SupInv /\ ServeWithoutNginx => SupInv'
<1> SUFFICES ASSUME SupInv, ServeWithoutNginx  PROVE SupInv'
  OBVIOUS
<1>1. TypeOK'
  BY Types, TypesNext, TerminateEffect
  DEF SupInv, ServeWithoutNginx, Terminate, Goto, Pcs, Interruptible,
      Transition, Roles, Others
<1>2. EarlyInv' /\ AttemptInv'
  BY Types, TerminateEffect
  DEF SupInv, ServeWithoutNginx, Terminate, At, Goto, EarlyInv, AttemptInv,
      Before, Roles, Others
<1>3. ServeInv' /\ ExclusiveWriters'
  BY Types, TerminateEffect
  DEF SupInv, ServeWithoutNginx, Terminate, At, Goto, ServeInv, EarlyInv,
      ExclusiveWriters, Before, Late, Transition, Running, Roles, Others
<1>4. GateInv'
  BY Types, TerminateEffect
  DEF SupInv, ServeWithoutNginx, Terminate, At, Goto, GateInv, Served,
      EarlyInv, ServeInv, Before, Late, Transition, Running, Roles, Others
<1>. QED  BY <1>1, <1>2, <1>3, <1>4 DEF SupInv

LEMMA ServeWithoutAppKeeps == SupInv /\ ServeWithoutApp => SupInv'
<1> SUFFICES ASSUME SupInv, ServeWithoutApp  PROVE SupInv'
  OBVIOUS
<1>1. TypeOK'
  BY Types, TypesNext, FaultTypes, TerminateEffect
  DEF SupInv, ServeWithoutApp, GateConfirmed, Terminate, Goto, Fail, Pcs,
      Interruptible, Transition, Codes, RecoverableCodes, Roles, Others
<1>2. EarlyInv' /\ AttemptInv'
  BY Types, TerminateEffect
  DEF SupInv, ServeWithoutApp, GateConfirmed, Terminate, At, Goto, Fail,
      EarlyInv, AttemptInv, Before, Roles, Others
<1>3. ServeInv' /\ ExclusiveWriters'
  BY Types, TerminateEffect
  DEF SupInv, ServeWithoutApp, GateConfirmed, Terminate, At, Goto, Fail,
      ServeInv, EarlyInv, ExclusiveWriters, Before, Late, Transition, Running,
      Roles, Others
<1>4. GateInv'
  BY Types, TerminateEffect
  DEF SupInv, ServeWithoutApp, GateConfirmed, Terminate, At, Goto, Fail,
      GateInv, Served, EarlyInv, ServeInv, Before, Late, Transition, Running,
      Roles, Others
<1>. QED  BY <1>1, <1>2, <1>3, <1>4 DEF SupInv

LEMMA EnterHoldKeeps == SupInv /\ EnterHold => SupInv'
<1> SUFFICES ASSUME SupInv, EnterHold  PROVE SupInv'
  OBVIOUS
<1>1. /\ proc \in Children /\ store \in Stores /\ flags \in Flags
      /\ policy \in Policies /\ faults \in 0 .. MaxFaults /\ pc = "fail" /\ marker
      /\ {"migration", "gunicorn", "export"} \in SUBSET Roles
  BY Types DEF SupInv, EnterHold, GateInv, Roles
<1>2. /\ store' \in Stores /\ flags' \in Flags /\ faults' \in 0 .. MaxFaults
  <2>1. PICK result \in Projected(Failing(store), flags) :
          /\ store' = result[1]
          /\ flags' = [result[2] EXCEPT !.published = ~result[1].dirty]
          /\ faults' = result[3]
    BY DEF EnterHold
  <2>2. /\ Failing(store) \in Stores /\ Written(Failing(store)) \in Stores
        /\ Unwritten(Failing(store)) \in Stores
        /\ Written(Failing(store)).dirty \in BOOLEAN
        /\ Unwritten(Failing(store)).dirty \in BOOLEAN
    <3>1. Failing(store) \in Stores
      BY <1>1, WriteTypes
    <3>2. Written(Failing(store)) \in Stores /\ Unwritten(Failing(store)) \in Stores
      BY <3>1, WriteTypes
    <3>. QED  BY <3>1, <3>2 DEF Stores
  <2>3. [flags EXCEPT !.statusFailed = TRUE] \in Flags
    BY <1>1, FlagTypes
  <2>4. \/ result = <<Written(Failing(store)), flags, faults>>
        \/ /\ CanFail
           /\ result = <<Unwritten(Failing(store)),
                         [flags EXCEPT !.statusFailed = TRUE], faults + 1>>
    BY DEF Projected
  <2>5. /\ result[1] \in Stores /\ result[1].dirty \in BOOLEAN
        /\ result[2] \in Flags /\ result[3] \in 0 .. MaxFaults
    <3>1. CASE result = <<Written(Failing(store)), flags, faults>>
      BY <1>1, <2>2, <3>1
    <3>2. CASE /\ CanFail
               /\ result = <<Unwritten(Failing(store)),
                             [flags EXCEPT !.statusFailed = TRUE], faults + 1>>
      BY <1>1, <2>2, <2>3, <3>2, FaultTypes
    <3>. QED  BY <2>4, <3>1, <3>2
  <2>. QED  BY <2>1, <2>5, FlagTypes
<1>3. policy' \in Policies /\ policy'.accepted = policy.accepted
  BY <1>1, PolicyTypes DEF EnterHold, EnterFailure
<1>4. /\ proc' \in Children
      /\ \A r \in Roles : proc[r] = "none" => proc'[r] = "none"
  BY <1>1, TerminateEffect DEF EnterHold, Terminate
<1>5. /\ pc' = "hold" /\ code' = code
      /\ UNCHANGED <<attempt, worker, told, ready, marker>>
  BY DEF EnterHold, Goto
<1>6. TypeOK'
  BY <1>2, <1>3, <1>4, <1>5, Types, TypesNext DEF SupInv, Pcs, Interruptible
<1>. QED
  BY <1>1, <1>4, <1>5, <1>6
  DEF SupInv, EarlyInv, AttemptInv, ServeInv, ExclusiveWriters, GateInv, Before,
      Late, Transition, Roles

LEMMA RefreshFailedChildrenKeeps == SupInv /\ RefreshFailedChildren => SupInv'
<1> SUFFICES ASSUME SupInv, RefreshFailedChildren  PROVE SupInv'
  OBVIOUS
<1>1. TypeOK'
  BY Types, TypesNext, ReapEffect
  DEF SupInv, RefreshFailedChildren, Roles, Others
<1>2. EarlyInv' /\ AttemptInv'
  BY Types, ReapEffect
  DEF SupInv, RefreshFailedChildren, At, EarlyInv, AttemptInv, Before, Roles,
      Others
<1>3. ServeInv' /\ ExclusiveWriters'
  BY Types, ReapEffect
  DEF SupInv, RefreshFailedChildren, At, ServeInv, EarlyInv, ExclusiveWriters,
      Before, Late, Transition, Roles, Others
<1>4. GateInv'
  BY Types, ReapEffect
  DEF SupInv, RefreshFailedChildren, At, GateInv, Served, EarlyInv, ServeInv,
      Before, Late, Transition, Running, Roles, Others
<1>. QED  BY <1>1, <1>2, <1>3, <1>4 DEF SupInv

LEMMA HoldWithoutNginxKeeps == SupInv /\ HoldWithoutNginx => SupInv'
<1> SUFFICES ASSUME SupInv, HoldWithoutNginx  PROVE SupInv'
  OBVIOUS
<1>1. TypeOK'
  BY Types, TypesNext, PolicyTypes, TerminateEffect
  DEF SupInv, HoldWithoutNginx, Terminate, Goto, Pcs, Interruptible,
      Transition, Roles, Others
<1>2. EarlyInv' /\ AttemptInv'
  BY Types, TerminateEffect, PolicyTypes
  DEF SupInv, HoldWithoutNginx, Terminate, At, Goto, EarlyInv, AttemptInv,
      Before, Roles, Others
<1>3. ServeInv' /\ ExclusiveWriters'
  BY Types, TerminateEffect, PolicyTypes
  DEF SupInv, HoldWithoutNginx, Terminate, At, Goto, ServeInv, EarlyInv,
      ExclusiveWriters, Before, Late, Transition, Running, Roles, Others
<1>4. GateInv'
  BY Types, TerminateEffect, PolicyTypes
  DEF SupInv, HoldWithoutNginx, Terminate, At, Goto, GateInv, Served,
      EarlyInv, ServeInv, Before, Late, Transition, Running, Roles, Others
<1>. QED  BY <1>1, <1>2, <1>3, <1>4 DEF SupInv

LEMMA AcceptKeeps == SupInv /\ Accept => SupInv'
<1> SUFFICES ASSUME SupInv, Accept  PROVE SupInv'
  OBVIOUS
<1>1. /\ policy \in Policies /\ policy.accepted < MaxAccepted /\ pc = "hold" /\ marker
      /\ attempt \in 0 .. policy.accepted + 1
  BY Types DEF SupInv, Accept, At, Available, GateInv
<1>2. /\ policy' \in Policies /\ policy'.accepted = policy.accepted + 1
  <2>1. Accepted(policy) \in Policies /\ Accepted(policy).accepted = policy.accepted + 1
    BY <1>1, PolicyTypes
  <2>. QED  BY <2>1, PolicyTypes DEF Accept
<1>3. /\ pc' = "restart" /\ code' = code
      /\ UNCHANGED <<attempt, proc, worker, told, ready, store, marker, flags, faults>>
  BY DEF Accept, Goto
<1>4. /\ policy.accepted \in 0 .. MaxAccepted
  BY <1>1, PolicyTypes
<1>5. attempt' \in 0 .. policy'.accepted + 1 /\ attempt' <= policy'.accepted
  BY <1>1, <1>2, <1>3, <1>4, BudgetAssumption
<1>6. TypeOK'
  BY <1>2, <1>3, <1>5, Types, TypesNext DEF SupInv, Pcs, Interruptible
<1>. QED
  BY <1>1, <1>3, <1>5, <1>6
  DEF SupInv, EarlyInv, AttemptInv, ServeInv, ExclusiveWriters, GateInv, Before,
      Late, Transition

LEMMA RestartKeeps == SupInv /\ Restart => SupInv'
<1> SUFFICES ASSUME SupInv, Restart  PROVE SupInv'
  OBVIOUS
<1>1. /\ proc \in Children /\ store \in Stores /\ flags \in Flags
      /\ pc = "restart" /\ marker /\ attempt <= policy.accepted
  BY Types DEF SupInv, Restart, At, GateInv, AttemptInv
<1>2. /\ UNCHANGED <<attempt, proc, policy>> /\ marker' = marker
  BY <1>1 DEF Restart
<1>3. /\ worker' \in WorkerSides /\ told' \in Reports /\ ready' \in BOOLEAN
      /\ flags' \in Flags /\ code' \in Codes
  BY Types, WorkerTypes, ReportTypes, FlagTypes
  DEF SupInv, Restart, Goto, Fail, Codes
<1>4. store' \in Stores /\ faults' \in 0 .. MaxFaults
  <2>1. [store EXCEPT !.state = "starting", !.done = FALSE] \in Stores
    BY <1>1, StoreTypes DEF States
  <2>2. Written([store EXCEPT !.state = "starting", !.done = FALSE]) \in Stores
    BY <2>1, WriteTypes
  <2>. QED  BY <2>2, Types, FaultTypes DEF SupInv, Restart
<1>5. /\ pc' \in {"cleanup", "fail", "attempt"}
      /\ pc' = "attempt" => \A r \in Others : proc[r] = "none"
  BY DEF Restart, Goto, Fail
<1>6. TypeOK'
  BY <1>2, <1>3, <1>4, <1>5, Types, TypesNext DEF SupInv, Pcs, Interruptible
<1>. QED
  BY <1>1, <1>2, <1>5, <1>6
  DEF SupInv, EarlyInv, AttemptInv, ServeInv, ExclusiveWriters, GateInv, Before,
      Late, Transition

LEMMA CleanupKeeps == SupInv /\ Cleanup => SupInv'
<1> SUFFICES ASSUME SupInv, Cleanup  PROVE SupInv'
  OBVIOUS
<1>1. TypeOK'
  BY Types, TypesNext, TerminateEffect
  DEF SupInv, Cleanup, Terminate, Goto, Pcs, Interruptible, Transition, Roles,
      Others
<1>2. EarlyInv' /\ AttemptInv'
  BY Types, TerminateEffect
  DEF SupInv, Cleanup, Terminate, Goto, EarlyInv, AttemptInv, Before, Roles,
      Others
<1>3. ServeInv' /\ ExclusiveWriters'
  BY Types, TerminateEffect
  DEF SupInv, Cleanup, Terminate, Goto, ServeInv, EarlyInv, ExclusiveWriters,
      Before, Late, Transition, Roles, Others
<1>4. GateInv'
  BY Types, TerminateEffect
  DEF SupInv, Cleanup, Terminate, Goto, GateInv, Served, EarlyInv, ServeInv,
      Before, Late, Transition, Running, Roles, Others
<1>. QED  BY <1>1, <1>2, <1>3, <1>4 DEF SupInv

LEMMA WorkerReportsKeeps == SupInv /\ WorkerReports => SupInv'
<1> SUFFICES ASSUME SupInv, WorkerReports  PROVE SupInv'
  OBVIOUS
<1>1. TypeOK'
  BY Types, TypesNext, WorkerTypes
  DEF SupInv, WorkerReports
<1>2. EarlyInv' /\ AttemptInv'
  BY Types
  DEF SupInv, WorkerReports, EarlyInv, AttemptInv, Before
<1>3. ServeInv' /\ ExclusiveWriters'
  BY Types
  DEF SupInv, WorkerReports, ServeInv, EarlyInv, ExclusiveWriters, Before,
      Late, Transition, Running
<1>4. GateInv'
  BY Types
  DEF SupInv, WorkerReports, GateInv, Served, EarlyInv, ServeInv, Before,
      Late, Transition, Running, Roles, Others
<1>. QED  BY <1>1, <1>2, <1>3, <1>4 DEF SupInv

LEMMA SignalKeeps == SupInv /\ Signal => SupInv'
<1> SUFFICES ASSUME SupInv, Signal  PROVE SupInv'
  OBVIOUS
<1>1. TypeOK'
  BY Types, TypesNext, FlagTypes
  DEF SupInv, Signal
<1>2. EarlyInv' /\ AttemptInv'
  BY Types
  DEF SupInv, Signal, EarlyInv, AttemptInv, Before
<1>3. ServeInv' /\ ExclusiveWriters'
  BY Types
  DEF SupInv, Signal, ServeInv, EarlyInv, ExclusiveWriters, Before, Late,
      Transition
<1>4. GateInv'
  BY Types
  DEF SupInv, Signal, GateInv, Served, EarlyInv, ServeInv, Before, Late,
      Transition, Running, Roles, Others
<1>. QED  BY <1>1, <1>2, <1>3, <1>4 DEF SupInv

LEMMA TimePassesKeeps == SupInv /\ TimePasses => SupInv'
<1> SUFFICES ASSUME SupInv, TimePasses  PROVE SupInv'
  OBVIOUS
<1>1. policy \in Policies /\ policy.auto \in {"off", "armed", "due"}
  BY Types DEF SupInv, Policies
<1>2. /\ policy' \in Policies /\ policy'.accepted = policy.accepted
  BY <1>1, PolicyTypes DEF TimePasses
<1>3. UNCHANGED <<pc, code, attempt, proc, worker, told, ready, store, marker,
                  flags, faults>>
  BY DEF TimePasses
<1>4. TypeOK'
  BY <1>2, <1>3, Types, TypesNext DEF SupInv
<1>. QED
  BY <1>2, <1>3, <1>4
  DEF SupInv, EarlyInv, AttemptInv, ServeInv, ExclusiveWriters, GateInv, Served,
      Running

LEMMA ChildExitsKeeps ==
  ASSUME SupInv, NEW r \in Roles, ChildExits(r)
  PROVE  SupInv'
<1>1. /\ proc \in Children /\ worker \in WorkerSides /\ Running(r) /\ pc # "exited"
  BY Types DEF SupInv, ChildExits, Alive
<1>2. PICK life \in {"dead", "orphans"} : proc' = [proc EXCEPT ![r] = life]
  BY DEF ChildExits
<1>3. /\ proc' \in Children
      /\ \A q \in Roles : proc[q] = "none" <=> proc'[q] = "none"
      /\ \A q \in Roles : proc'[q] \in {"up", "stopped"} => proc[q] \in {"up", "stopped"}
  <2>1. life \in Lives /\ proc[r] \in {"up", "stopped"}
    BY <1>1 DEF Lives, Running
  <2>2. life \notin {"none", "up", "stopped"}
    BY <1>2
  <2>3. /\ proc' \in Children
        /\ \A q \in Roles : proc'[q] = IF q = r THEN life ELSE proc[q]
    BY <1>1, <1>2, <2>1 DEF Children
  <2>. QED  BY <2>1, <2>2, <2>3
<1>4. worker' \in WorkerSides
  <2>1. ASSUME NEW x \in {"none", "zero", "nonzero"}
        PROVE  [worker EXCEPT !.exit = x] \in WorkerSides
    BY <1>1, WorkerTypes
  <2>. QED  BY <1>1, <2>1 DEF ChildExits
<1>5. UNCHANGED <<pc, code, attempt, told, ready, store, marker, policy, flags, faults>>
  BY DEF ChildExits
<1>6. TypeOK'
  BY <1>3, <1>4, <1>5, Types, TypesNext DEF SupInv
<1>. QED
  BY <1>3, <1>5, <1>6
  DEF SupInv, EarlyInv, AttemptInv, ServeInv, ExclusiveWriters, GateInv, Served,
      Roles, Others, Running

LEMMA LateExitKeeps ==
  ASSUME SupInv, NEW r \in Roles, LateExit(r)
  PROVE  SupInv'
<1>1. proc \in Children /\ proc[r] = "orphans" /\ "dead" \in Lives
  BY Types DEF SupInv, LateExit, Lives
<1>2. /\ proc' \in Children
      /\ \A q \in Roles : proc[q] = "none" <=> proc'[q] = "none"
      /\ \A q \in Roles : proc'[q] \in {"up", "stopped"} => proc[q] \in {"up", "stopped"}
  <2>1. /\ proc' \in Children
        /\ \A q \in Roles : proc'[q] = IF q = r THEN "dead" ELSE proc[q]
    BY <1>1 DEF LateExit, Children
  <2>. QED  BY <1>1, <2>1
<1>3. UNCHANGED <<pc, code, attempt, worker, told, ready, store, marker, policy, flags, faults>>
  BY DEF LateExit
<1>4. TypeOK'
  BY <1>2, <1>3, Types, TypesNext DEF SupInv
<1>. QED
  BY <1>2, <1>3, <1>4
  DEF SupInv, EarlyInv, AttemptInv, ServeInv, ExclusiveWriters, GateInv, Served,
      Roles, Others, Running

LEMMA StutterKeeps == SupInv /\ UNCHANGED vars => SupInv'
  BY DEF SupInv, vars, TypeOK, EarlyInv, AttemptInv, ServeInv, ExclusiveWriters,
         GateInv, Served, Running

----------------------------------------------------------------------------
(* The theorems.                                                             *)

LEMMA InitInv == Init => SupInv
<1> SUFFICES ASSUME Init  PROVE SupInv
  OBVIOUS
<1>1. TypeOK
  <2>1. proc \in Children /\ store \in Stores
    BY DEF Init, Children, Lives, Stores, States
  <2>2. policy \in Policies /\ policy.accepted = 0
    BY BudgetAssumption DEF Init, Policies
  <2>3. flags \in Flags
    BY DEF Init, Flags
  <2>4. worker \in WorkerSides /\ told \in Reports
    BY DEF Init, WorkerSides, Reports, NoWorker, NothingTold
  <2>5. attempt \in 0 .. policy.accepted + 1 /\ faults \in 0 .. MaxFaults
    BY <2>2, BudgetAssumption DEF Init
  <2>6. pc \in Pcs /\ code \in Codes /\ ready \in BOOLEAN /\ marker \in BOOLEAN
    BY DEF Init, Pcs, Interruptible, Codes
  <2>. QED  BY <2>1, <2>2, <2>3, <2>4, <2>5, <2>6, Types
<1>. QED
  BY <1>1, BudgetAssumption
  DEF Init, SupInv, EarlyInv, AttemptInv, ServeInv, ExclusiveWriters, GateInv,
      Before, Late, Transition, Roles, Others

LEMMA NextInv == SupInv /\ [Next]_vars => SupInv'
<1> SUFFICES ASSUME SupInv, [Next]_vars  PROVE SupInv'
  OBVIOUS
<1>1. CASE Starting
  BY <1>1, InterruptedKeeps, PrepareGateKeeps, SpawnNginxKeeps, InitializeKeeps,
     AcquireLockKeeps, SpawnWorkerKeeps, ApplyWorkerEventKeeps, EndOfPipeKeeps,
     NginxGoneEarlyKeeps, WorkerReapedKeeps, WorkerOverrunsKeeps,
     SpawnGunicornKeeps, WaitForReadinessKeeps
  DEF Starting
<1>2. CASE Opening
  BY <1>2, GuardFailsKeeps, StartingServiceKeeps, StartingTimesOutKeeps,
     RetryInterruptedKeeps, PauseNginxKeeps, QuiesceKeeps, OpenServiceKeeps,
     OpenTimesOutKeeps, OpenFailsKeeps, GiveUpOpeningKeeps, ResumeNginxKeeps
  DEF Opening
<1>3. CASE Holding
  BY <1>3, ServeWithoutNginxKeeps, ServeWithoutAppKeeps, EnterHoldKeeps,
     RefreshFailedChildrenKeeps, HoldWithoutNginxKeeps, RestartKeeps, CleanupKeeps
  DEF Holding
<1>4. CASE Environment
  BY <1>4, ChildExitsKeeps, LateExitKeeps, WorkerReportsKeeps, SignalKeeps,
     TimePassesKeeps
  DEF Environment
<1>5. CASE ProtocolError \/ StatusTick \/ MaintainExport \/ ManualRetry \/ AutomaticRetry
  BY <1>5, ProtocolErrorKeeps, StatusTickKeeps, MaintainExportKeeps, AcceptKeeps
  DEF ManualRetry, AutomaticRetry
<1>6. CASE Exited \/ UNCHANGED vars
  BY <1>6, StutterKeeps DEF Exited
<1>. QED  BY <1>1, <1>2, <1>3, <1>4, <1>5, <1>6 DEF Next

(* The state keeps its shape, and the number of startup attempts and of      *)
(* accepted retries stays within the budget of a supervisor run              *)
(* (RecoveryPolicy.accept, SpawnWorker).                                     *)
THEOREM SupervisorTypeOK == Spec => []TypeOK
<1>1. SupInv => TypeOK
  BY DEF SupInv
<1>. QED  BY InitInv, NextInv, <1>1, PTL DEF Spec

(* Requests pass nginx only when this attempt's worker has finished and gone, *)
(* the application has answered its probe and the status on disk says so     *)
(* (_transition_gate, open_service).                                         *)
THEOREM GateSafety == Spec => []GateOpensOnlyWhenReady
<1>1. SupInv => GateOpensOnlyWhenReady
  BY DEF SupInv, GateOpensOnlyWhenReady, GateInv, Served, EarlyInv, Running
<1>. QED  BY InitInv, NextInv, <1>1, PTL DEF Spec

(* The migration worker and the application's processes are never there      *)
(* together (_recovery_blocked_reason, _reap_record).                        *)
THEOREM WritersExclude == Spec => []ExclusiveWriters
<1>1. SupInv => ExclusiveWriters
  BY DEF SupInv
<1>. QED  BY InitInv, NextInv, <1>1, PTL DEF Spec

=============================================================================
