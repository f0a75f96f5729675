---------------------------- MODULE ManagerProofs ----------------------------
(* Proofs about Manager, for any sections, configurations, counts and faults. *)
EXTENDS Manager, TLAPS

(* The maps of the manager and of docker, and the counters of the faults.     *)
ClientsOK(map) ==
    /\ DOMAIN map \subseteq ClientKey
    /\ \A k \in DOMAIN map : map[k] \in [up: BOOLEAN, id: ClientID]
WorkersOK(map) ==
    /\ DOMAIN map \subseteq WorkerID
    /\ \A k \in DOMAIN map : map[k] \in Record /\ map[k].id = k
DockerOK(map) ==
    /\ DOMAIN map \subseteq ID
    /\ \A id \in DOMAIN map : map[id] \in Container
BudgetOK(b) == b \in [faults: 0 .. MaxFaults, exits: 0 .. MaxExits, crashes: 0 .. MaxCrashes]

(* A client that has its section is filed under its own name.                 *)
KeyOK(map) == \A k \in DOMAIN map : k[1] # Nil => map[k].id = k

(* What a request has still to do belongs to its phase: an Up or a Down finds *)
(* its section or its record, and a docker call is under way in Start only.   *)
Loops == Phase \ {"idle", "accept"}
PlanOK == req.plan \in Seq(Loops)
TodoOK ==
    /\ req.phase = "clientsUp" => todo \subseteq ClientID
    /\ req.phase = "workersUp" => todo \subseteq WorkerID
    /\ req.phase \in {"clientsSweep", "clientsDown", "clientsClean", "clientsDelete"} =>
          todo \subseteq DOMAIN clients
    /\ req.phase \in {"workersSweep", "workersDown", "workersClean", "workersDelete"} =>
          todo \subseteq DOMAIN workers
    /\ req.phase = "kill" => todo \subseteq ID
    /\ req.phase \in {"idle", "accept", "discover", "check"} => todo = {}
CallOK ==
    call.at # "idle" => \/ req.phase = "clientsUp" /\ call.id \in ClientID
                        \/ req.phase = "workersUp" /\ call.id \in WorkerID

(* What main does first after a start is Discover.                            *)
BootOK ==
    req.op \in {"boot", "bootStart"} /\ req.phase = "accept" =>
        req.plan # <<>> /\ Head(req.plan) = "discover"

Typed ==
    /\ alive \in BOOLEAN
    /\ config \in Configs
    /\ ClientsOK(clients) /\ WorkersOK(workers) /\ DockerOK(docker)
    /\ req \in [op: Op, phase: Phase, plan: Seq(Phase), unit: Units \cup {Nil},
               inst: 0 .. MaxCount, errs: BOOLEAN]
    /\ todo \subseteq ClientKey \cup ID
    /\ call \in [at: {"idle", "inspect", "remove", "create", "start"}, id: ID \cup {Nil}]
    /\ last \in [op: Op, errs: BOOLEAN]
    /\ disturbed \in BOOLEAN
    /\ excused \subseteq ID
    /\ BudgetOK(budget)

IInv ==
    /\ Typed
    /\ KeyOK(clients)
    /\ PlanOK /\ TodoOK /\ CallOK /\ BootOK
    /\ NoSilentOrphan

-----------------------------------------------------------------------------
(* Lemmas about names, maps and docker calls. *)

(* A container is a client's or a worker's; a client's is not the nil config's. *)
LEMMA Names ==
    /\ ClientID \subseteq ID /\ WorkerID \subseteq ID /\ ClientID \subseteq ClientKey
    /\ ID = ClientID \cup WorkerID
    /\ \A id \in ClientID : id[1] \in Clients /\ id[1] # Nil /\ id = <<id[1], id[2]>>
    /\ \A id \in WorkerID : id[1] \in Workers /\ id[1] \notin Clients
    /\ \A id \in ID : id[1] \in Units /\ id[2] \in Instances
  BY ManagerAssumption DEF ClientID, WorkerID, ID, ClientKey, Units

(* Recording a client that is up. *)
LEMMA PutClient ==
    ASSUME ClientsOK(clients), KeyOK(clients), NEW id \in ClientID,
           NEW r \in [up: BOOLEAN, id: ClientID], r.id = id
    PROVE  /\ ClientsOK(Put(clients, id, r)) /\ KeyOK(Put(clients, id, r))
           /\ Named(Put(clients, id, r)) = Named(clients) \cup {id}
           /\ DOMAIN Put(clients, id, r) = DOMAIN clients \cup {id}
  <1>1. /\ DOMAIN Put(clients, id, r) = DOMAIN clients \cup {id}
        /\ Put(clients, id, r)[id] = r
        /\ \A k \in DOMAIN clients \ {id} : Put(clients, id, r)[k] = clients[k]
    BY DEF Put
  <1>2. id \in ClientKey /\ id[1] # Nil
    BY Names
  <1>3. ClientsOK(Put(clients, id, r)) /\ KeyOK(Put(clients, id, r))
    BY <1>1, <1>2 DEF ClientsOK, KeyOK
  <1>4. Named(Put(clients, id, r)) = Named(clients) \cup {id}
    <2>1. id \in DOMAIN clients => clients[id].id = id
      BY <1>2 DEF KeyOK
    <2>2. QED BY <1>1, <2>1 DEF Named
  <1>5. QED BY <1>1, <1>3, <1>4

(* Recording a worker. *)
LEMMA PutWorker ==
    ASSUME WorkersOK(workers), NEW id \in WorkerID, NEW r \in Record, r.id = id
    PROVE  /\ WorkersOK(Put(workers, id, r))
           /\ Named(Put(workers, id, r)) = Named(workers) \cup {id}
           /\ DOMAIN Put(workers, id, r) = DOMAIN workers \cup {id}
  <1>1. /\ DOMAIN Put(workers, id, r) = DOMAIN workers \cup {id}
        /\ Put(workers, id, r)[id] = r
        /\ \A k \in DOMAIN workers \ {id} : Put(workers, id, r)[k] = workers[k]
    BY DEF Put
  <1>2. WorkersOK(Put(workers, id, r))
    BY <1>1 DEF WorkersOK
  <1>3. Named(Put(workers, id, r)) = Named(workers) \cup {id}
    <2>1. id \in DOMAIN workers => workers[id].id = id
      BY DEF WorkersOK
    <2>2. QED BY <1>1, <2>1 DEF Named
  <1>4. QED BY <1>1, <1>2, <1>3

(* Marking records down changes what they are called in no way. *)
LEMMA MarkedDown ==
    ASSUME NEW S, NEW r \in [up: BOOLEAN, id: S]
    PROVE  [r EXCEPT !.up = FALSE] \in [up: BOOLEAN, id: S] /\ [r EXCEPT !.up = FALSE].id = r.id
  OBVIOUS

LEMMA AllDownClients ==
    ASSUME ClientsOK(clients), KeyOK(clients)
    PROVE  /\ ClientsOK(AllDown(clients)) /\ KeyOK(AllDown(clients))
           /\ Named(AllDown(clients)) = Named(clients)
           /\ DOMAIN AllDown(clients) = DOMAIN clients
  BY MarkedDown DEF ClientsOK, KeyOK, AllDown, Named

LEMMA AllDownWorkers ==
    ASSUME WorkersOK(workers)
    PROVE  /\ WorkersOK(AllDown(workers))
           /\ Named(AllDown(workers)) = Named(workers)
           /\ DOMAIN AllDown(workers) = DOMAIN workers
  BY MarkedDown DEF WorkersOK, AllDown, Named, Record

LEMMA DownClient ==
    ASSUME ClientsOK(clients), KeyOK(clients), NEW key \in DOMAIN clients
    PROVE  LET map == [clients EXCEPT ![key].up = FALSE]
           IN  ClientsOK(map) /\ KeyOK(map) /\ Named(map) = Named(clients)
               /\ DOMAIN map = DOMAIN clients
  BY MarkedDown DEF ClientsOK, KeyOK, Named

LEMMA DownWorker ==
    ASSUME WorkersOK(workers), NEW key \in DOMAIN workers
    PROVE  LET map == [workers EXCEPT ![key].up = FALSE]
           IN  WorkersOK(map) /\ Named(map) = Named(workers)
               /\ DOMAIN map = DOMAIN workers
  BY MarkedDown DEF WorkersOK, Named, Record

(* Forgetting a record. *)
LEMMA ForgetClient ==
    ASSUME ClientsOK(clients), KeyOK(clients), NEW key \in DOMAIN clients
    PROVE  /\ ClientsOK(Del(clients, key)) /\ KeyOK(Del(clients, key))
           /\ Named(clients) \subseteq Named(Del(clients, key)) \cup {clients[key].id}
           /\ DOMAIN Del(clients, key) = DOMAIN clients \ {key}
  BY DEF ClientsOK, KeyOK, Named, Del

LEMMA ForgetWorker ==
    ASSUME WorkersOK(workers), NEW key \in DOMAIN workers
    PROVE  /\ WorkersOK(Del(workers, key))
           /\ Named(workers) \subseteq Named(Del(workers, key)) \cup {workers[key].id}
           /\ DOMAIN Del(workers, key) = DOMAIN workers \ {key}
  BY DEF WorkersOK, Named, Del

(* Docker: a container in another state, removed, or created. *)
LEMMA InStateOK ==
    ASSUME DockerOK(docker), NEW id \in DOMAIN docker, NEW state \in {"created", "running", "exited"}
    PROVE  DockerOK(InState(id, state)) /\ DOMAIN InState(id, state) = DOMAIN docker
  <1>1. ASSUME NEW r \in Container PROVE [r EXCEPT !.state = state] \in Container
    BY <1>1 DEF Container
  <1>2. QED BY <1>1 DEF DockerOK, InState

LEMMA StoppedOK ==
    ASSUME DockerOK(docker), NEW id
    PROVE  DockerOK(Stopped(id)) /\ DOMAIN Stopped(id) = DOMAIN docker
  BY InStateOK DEF Stopped, Running

LEMMA RemovedOK ==
    ASSUME DockerOK(docker), NEW id
    PROVE  DockerOK(Removed(id)) /\ DOMAIN Removed(id) = DOMAIN docker \ {id}
  BY DEF DockerOK, Removed, Del

LEMMA CreatedOK ==
    ASSUME DockerOK(docker), config \in Configs, NEW id \in ID
    PROVE  /\ DockerOK(Created(id, WantOf(id)))
           /\ DOMAIN Created(id, WantOf(id)) = DOMAIN docker \cup {id}
  <1>1. config[id[1]] \in UnitConfig
    BY Names, ManagerAssumption DEF Config
  <1>2. QED BY <1>1 DEF DockerOK, Created, WantOf, Put, Container, UnitConfig

(* A call to docker that fails is counted. *)
LEMMA FaultCounted ==
    ASSUME BudgetOK(budget), NEW effect, Fault(effect)
    PROVE  BudgetOK(budget') /\ disturbed' = disturbed /\ docker' \in {docker, effect}
  <1>1. budget.faults + 1 \in 0 .. MaxFaults
    BY ManagerAssumption DEF Fault, BudgetOK
  <1>2. QED BY <1>1 DEF Fault, BudgetOK

(* Stopping a container leaves it there, whether it succeeds or not. *)
LEMMA StopCall ==
    ASSUME DockerOK(docker), BudgetOK(budget), NEW id, NEW failed \in BOOLEAN,
           \/ Down(id, failed)
           \/ API(Running(id), Stopped(id), failed)
    PROVE  /\ DockerOK(docker') /\ DOMAIN docker' = DOMAIN docker
           /\ BudgetOK(budget') /\ disturbed' = disturbed
  <1>1. CASE UNCHANGED <<docker, budget, disturbed>>
    BY <1>1
  <1>2. CASE Fault(docker) \/ Fault(Stopped(id))
    BY <1>2, FaultCounted, StoppedOK
  <1>3. CASE docker' = Stopped(id) /\ UNCHANGED <<budget, disturbed>>
    BY <1>3, StoppedOK
  <1>4. QED BY <1>1, <1>2, <1>3 DEF Down, API, Refused

(* Cleaning a container that exists removes it, or fails. *)
LEMMA CleanCall ==
    ASSUME DockerOK(docker), BudgetOK(budget), NEW id, NEW failed \in BOOLEAN, Clean(id, failed)
    PROVE  /\ DockerOK(docker') /\ DOMAIN docker' \subseteq DOMAIN docker
           /\ ~failed => id \notin DOMAIN docker'
           /\ BudgetOK(budget') /\ disturbed' = disturbed
  <1>1. CASE UNCHANGED <<docker, budget, disturbed>> /\ failed
    BY <1>1
  <1>2. CASE failed /\ Fault(docker)
    BY <1>2, FaultCounted
  <1>3. CASE failed /\ Fault(Removed(id))
    <2>1. BudgetOK(budget') /\ disturbed' = disturbed /\ docker' \in {docker, Removed(id)}
      BY <1>3, FaultCounted
    <2>2. QED BY <1>3, <2>1, RemovedOK
  <1>4. CASE docker' = Removed(id) /\ UNCHANGED <<budget, disturbed>>
    BY <1>4, RemovedOK
  <1>5. QED BY <1>1, <1>2, <1>3, <1>4 DEF Clean, API, Refused

-----------------------------------------------------------------------------
LEMMA InitInv == Init => IInv
  <1> SUFFICES ASSUME Init PROVE IInv
    OBVIOUS
  <1>1. Typed
    <2>1. req \in [op: Op, phase: Phase, plan: Seq(Phase), unit: Units \cup {Nil},
                   inst: 0 .. MaxCount, errs: BOOLEAN]
      BY ManagerAssumption DEF Init, NoReq, Op, Phase
    <2>2. ClientsOK(clients) /\ WorkersOK(workers) /\ DockerOK(docker)
      BY DEF Init, EmptyMap, ClientsOK, WorkersOK, DockerOK
    <2>3. /\ call \in [at: {"idle", "inspect", "remove", "create", "start"}, id: ID \cup {Nil}]
          /\ last \in [op: Op, errs: BOOLEAN]
      BY DEF Init, NoCall, Op
    <2>4. BudgetOK(budget)
      BY ManagerAssumption DEF Init, BudgetOK
    <2>5. QED BY <2>1, <2>2, <2>3, <2>4, ManagerAssumption DEF Init, Typed
  <1>2. PlanOK
    BY DEF Init, NoReq, PlanOK
  <1>3. KeyOK(clients) /\ TodoOK /\ CallOK /\ BootOK
    BY DEF Init, KeyOK, TodoOK, CallOK, BootOK, EmptyMap, NoReq, NoCall
  <1>4. NoSilentOrphan
    BY DEF Init, NoSilentOrphan
  <1>5. QED BY <1>1, <1>2, <1>3, <1>4 DEF IInv

(* A request begins while no other is served.                                 *)
LEMMA PlansTyped ==
    /\ StartPlan \in Seq(Loops) /\ BootPlan(TRUE) \in Seq(Loops) /\ BootPlan(FALSE) \in Seq(Loops)
    /\ \A op \in {"stop", "clean", "delete", "workersDelete", "clientsDelete", "panic"} :
          Plan(op) \in Seq(Loops)
  BY DEF StartPlan, BootPlan, Plan, Loops, Phase

LEMMA LoopsArePhases ==
    Seq(Loops) \subseteq Seq(Phase)
  BY DEF Loops

LEMMA BeginInv ==
    ASSUME IInv, NEW op \in Op, NEW plan \in Seq(Loops), NEW unit \in Units \cup {Nil},
           NEW inst \in 0 .. MaxCount, Begin(op, plan, unit, inst),
           config' \in Configs, alive' \in BOOLEAN,
           UNCHANGED <<clients, workers, docker, excused, budget>>,
           \/ alive
           \/ op \in {"boot", "bootStart"},
           op \in {"boot", "bootStart"} => plan # <<>> /\ Head(plan) = "discover"
    PROVE  IInv'
  <1>1. req' = [op |-> op, phase |-> "accept", plan |-> plan, unit |-> unit, inst |-> inst,
                errs |-> FALSE]
    BY DEF Begin
  <1>2. Typed'
    <2>1. req' \in [op: Op, phase: Phase, plan: Seq(Phase), unit: Units \cup {Nil},
                    inst: 0 .. MaxCount, errs: BOOLEAN]
      BY <1>1, LoopsArePhases DEF Phase
    <2>2. /\ call' \in [at: {"idle", "inspect", "remove", "create", "start"}, id: ID \cup {Nil}]
          /\ last' \in [op: Op, errs: BOOLEAN]
      BY DEF Begin, NoCall, Op
    <2>3. ClientsOK(clients') /\ WorkersOK(workers') /\ DockerOK(docker') /\ BudgetOK(budget')
      BY DEF IInv, Typed
    <2>4. QED BY <2>1, <2>2, <2>3 DEF IInv, Typed, Begin
  <1>3. KeyOK(clients)' /\ PlanOK' /\ TodoOK' /\ CallOK' /\ BootOK'
    BY <1>1 DEF IInv, KeyOK, PlanOK, TodoOK, CallOK, BootOK, Begin, NoCall
  <1>4. NoSilentOrphan'
    <2>1. SUFFICES ASSUME op \notin {"boot", "bootStart"}, NEW id \in DOMAIN docker
                   PROVE  id \in (Tracked \cup excused)'
      BY <1>1 DEF NoSilentOrphan
    <2>2. call.at = "idle"
      BY DEF IInv, CallOK, Begin
    <2>3. id \in Tracked \cup excused
      BY <2>1, <2>2 DEF IInv, NoSilentOrphan, Begin
    <2>4. QED BY <2>3 DEF Tracked, Named
  <1>5. QED BY <1>2, <1>3, <1>4 DEF IInv

(* The requests and the start of the process.                                 *)
LEMMA AskInv == IInv /\ Ask => IInv'
  <1> SUFFICES ASSUME IInv, Ask PROVE IInv'
    OBVIOUS
  <1>1. 0 \in 0 .. MaxCount
    BY ManagerAssumption
  <1>2. ASSUME NEW cfg \in Configs, Post(cfg) PROVE IInv'
    BY <1>1, <1>2, PlansTyped, BeginInv DEF Post, Op, IInv, Typed
  <1>3. ASSUME NEW cfg \in Configs, NEW start \in BOOLEAN, Boot(cfg, start) PROVE IInv'
    <2>1. CASE start
      <3>1. Begin("bootStart", BootPlan(TRUE), Nil, 0) /\ BootPlan(TRUE) # <<>> /\ Head(BootPlan(TRUE)) = "discover"
        BY <1>3, <2>1 DEF Boot, BootPlan
      <3>2. QED BY <1>1, <1>3, <3>1, PlansTyped, BeginInv DEF Boot, Op
    <2>2. CASE ~start
      <3>1. Begin("boot", BootPlan(FALSE), Nil, 0) /\ BootPlan(FALSE) # <<>> /\ Head(BootPlan(FALSE)) = "discover"
        BY <1>3, <2>2 DEF Boot, BootPlan
      <3>2. QED BY <1>1, <1>3, <3>1, PlansTyped, BeginInv DEF Boot, Op
    <2>3. QED BY <2>1, <2>2
  <1>4. ASSUME NEW op \in Op, NEW unit \in Units \cup {Nil}, NEW inst \in 0 .. MaxCount,
               Request(op, unit, inst)
        PROVE  IInv'
    BY <1>4, PlansTyped, BeginInv DEF Request, memory, IInv, Typed
  <1>5. QED BY <1>2, <1>3, <1>4 DEF Ask

(* A phase follows another: what it has to do is what its section or its map  *)
(* holds, and a record that is marked down is still a record.                 *)
LEMMA TodoTyped ==
    ASSUME Typed, NEW phase \in Loops
    PROVE  /\ phase = "clientsUp" => Todo(phase) \subseteq ClientID
           /\ phase = "workersUp" => Todo(phase) \subseteq WorkerID
           /\ phase \in {"clientsSweep", "clientsDown", "clientsClean", "clientsDelete"} =>
                 Todo(phase) \subseteq DOMAIN clients
           /\ phase \in {"workersSweep", "workersDown", "workersClean", "workersDelete"} =>
                 Todo(phase) \subseteq DOMAIN workers
           /\ phase = "kill" => Todo(phase) \subseteq ID
           /\ phase \in {"discover", "check"} => Todo(phase) = {}
  BY DEF Todo, Wanted, DownKeys, ClientID, WorkerID, Typed, DockerOK

LEMMA NextPhaseInv ==
    ASSUME IInv, NextPhase
    PROVE  IInv'
  <1> DEFINE phase == Head(req.plan)
  <1>1. phase \in Loops /\ Tail(req.plan) \in Seq(Loops)
    BY DEF IInv, PlanOK, NextPhase
  <1>2. req' = [req EXCEPT !.phase = phase, !.plan = Tail(req.plan)]
    BY DEF NextPhase
  <1>3. /\ ClientsOK(clients') /\ KeyOK(clients') /\ WorkersOK(workers')
        /\ Named(clients') = Named(clients) /\ Named(workers') = Named(workers)
        /\ DOMAIN clients' = DOMAIN clients /\ DOMAIN workers' = DOMAIN workers
    BY AllDownClients, AllDownWorkers DEF IInv, Typed, NextPhase
  <1>4. TodoOK' /\ todo' \subseteq ClientKey \cup ID
    <2>1. todo' = Todo(phase) /\ req'.phase = phase
      BY <1>2 DEF NextPhase, IInv, Typed
    <2>2. TodoOK'
      BY <1>1, <1>3, <2>1, TodoTyped DEF TodoOK, IInv, Loops
    <2>3. todo' \subseteq ClientKey \cup ID
      BY <1>1, <2>1, <2>2, <1>3, Names DEF TodoOK, ClientsOK, WorkersOK, Loops, Phase
    <2>4. QED BY <2>2, <2>3
  <1>5. Typed'
    <2>1. req' \in [op: Op, phase: Phase, plan: Seq(Phase), unit: Units \cup {Nil},
                    inst: 0 .. MaxCount, errs: BOOLEAN]
      BY <1>1, <1>2, LoopsArePhases DEF IInv, Typed, Loops
    <2>2. QED BY <1>3, <1>4, <2>1 DEF IInv, Typed, NextPhase, ghosts
  <1>6. PlanOK' /\ CallOK' /\ BootOK'
    BY <1>1, <1>2 DEF IInv, Typed, PlanOK, CallOK, BootOK, NextPhase, PhaseDone, Loops
  <1>7. NoSilentOrphan'
    <2>1. ~(req.op \in {"boot", "bootStart"} /\ req.phase = "accept")
      BY DEF IInv, BootOK, NextPhase
    <2>2. QED BY <1>3, <2>1 DEF IInv, NoSilentOrphan, NextPhase, Tracked, ghosts
  <1>8. QED BY <1>3, <1>4, <1>5, <1>6, <1>7 DEF IInv

(* A plan cut short, with an error or without.                                *)
LEMMA CutShort ==
    ASSUME IInv, NEW errs \in BOOLEAN, req' = [req EXCEPT !.plan = <<>>, !.errs = errs],
           ~(req.op \in {"boot", "bootStart"} /\ req.phase = "accept"),
           UNCHANGED <<memory, docker, todo, call, ghosts>>, BudgetOK(budget')
    PROVE  IInv'
  <1>1. Typed'
    <2>1. req' \in [op: Op, phase: Phase, plan: Seq(Phase), unit: Units \cup {Nil},
                    inst: 0 .. MaxCount, errs: BOOLEAN]
      <3>1. <<>> \in Seq(Phase)
        OBVIOUS
      <3>2. QED BY <3>1 DEF IInv, Typed
    <2>2. QED BY <2>1 DEF IInv, Typed, memory, ghosts
  <1>2. PlanOK' /\ TodoOK' /\ CallOK' /\ BootOK' /\ KeyOK(clients)'
    BY DEF IInv, Typed, PlanOK, TodoOK, CallOK, BootOK, KeyOK, memory
  <1>3. NoSilentOrphan'
    BY DEF IInv, Typed, NoSilentOrphan, Tracked, Named, memory, ghosts
  <1>4. QED BY <1>1, <1>2, <1>3 DEF IInv

LEMMA StopFailedInv ==
    ASSUME IInv, StopFailed
    PROVE  IInv'
  <1>1. req' = [req EXCEPT !.plan = <<>>, !.errs = req.errs]
    BY DEF StopFailed, IInv, Typed
  <1>2. ~(req.op \in {"boot", "bootStart"} /\ req.phase = "accept")
    BY DEF IInv, BootOK, StopFailed
  <1>3. QED BY <1>1, <1>2, CutShort DEF StopFailed, IInv, Typed

LEMMA PanicListFailsInv ==
    ASSUME IInv, PanicListFails
    PROVE  IInv'
  <1>1. req' = [req EXCEPT !.plan = <<>>, !.errs = TRUE]
    BY DEF PanicListFails
  <1>2. ~(req.op \in {"boot", "bootStart"} /\ req.phase = "accept")
    BY DEF IInv, BootOK, PanicListFails
  <1>3. BudgetOK(budget') /\ UNCHANGED <<docker, disturbed>>
    BY FaultCounted DEF PanicListFails, IInv, Typed
  <1>4. QED BY <1>1, <1>2, <1>3, CutShort DEF PanicListFails, memory, ghosts

(* The process is gone, and with it what it knew.                             *)
LEMMA CrashedInv ==
    ASSUME IInv, Crashed, UNCHANGED <<docker, disturbed, excused>>, BudgetOK(budget')
    PROVE  IInv'
  <1>1. Typed'
    <2>1. req' \in [op: Op, phase: Phase, plan: Seq(Phase), unit: Units \cup {Nil},
                    inst: 0 .. MaxCount, errs: BOOLEAN]
      BY ManagerAssumption DEF Crashed, NoReq, Op, Phase
    <2>2. ClientsOK(clients') /\ WorkersOK(workers') /\ DockerOK(docker')
      BY DEF Crashed, EmptyMap, ClientsOK, WorkersOK, IInv, Typed
    <2>3. /\ call' \in [at: {"idle", "inspect", "remove", "create", "start"}, id: ID \cup {Nil}]
          /\ last' \in [op: Op, errs: BOOLEAN]
      BY DEF Crashed, NoCall, Op
    <2>4. QED BY <2>1, <2>2, <2>3, ManagerAssumption DEF Crashed, Typed, IInv
  <1>2. PlanOK'
    BY DEF Crashed, NoReq, PlanOK
  <1>3. KeyOK(clients)' /\ TodoOK' /\ CallOK' /\ BootOK' /\ NoSilentOrphan'
    BY DEF Crashed, KeyOK, TodoOK, CallOK, BootOK, NoSilentOrphan, EmptyMap, NoReq, NoCall
  <1>4. QED BY <1>1, <1>2, <1>3 DEF IInv

LEMMA ReplyInv ==
    ASSUME IInv, Reply
    PROVE  IInv'
  <1>1. Typed'
    <2>1. req' \in [op: Op, phase: Phase, plan: Seq(Phase), unit: Units \cup {Nil},
                    inst: 0 .. MaxCount, errs: BOOLEAN]
      BY ManagerAssumption DEF Reply, NoReq, Op, Phase
    <2>2. QED BY <2>1 DEF Reply, IInv, Typed, memory
  <1>2. PlanOK'
    BY DEF Reply, NoReq, PlanOK
  <1>3. KeyOK(clients)' /\ TodoOK' /\ CallOK' /\ BootOK'
    BY DEF IInv, Reply, PhaseDone, KeyOK, TodoOK, CallOK, BootOK, NoReq, memory
  <1>4. NoSilentOrphan'
    BY DEF IInv, Reply, BootOK, NoSilentOrphan, Tracked, Named, memory
  <1>5. QED BY <1>1, <1>2, <1>3, <1>4 DEF IInv

-----------------------------------------------------------------------------
(* Discover files every container under its section, or under the nil config, *)
(* or overlooks it.                                                           *)
LEMMA DiscoveredOK ==
    ASSUME IInv, NEW map \in DiscoveredClients
    PROVE  ClientsOK(map) /\ KeyOK(map)
  <1> DEFINE found == DOMAIN docker \cap ClientID
             keys == {ClientKeyOf(id) : id \in found}
  <1>1. /\ map \in [keys -> [up: {FALSE}, id: found]]
        /\ \A k \in keys : ClientKeyOf(map[k].id) = k
    BY DEF DiscoveredClients
  <1>2. keys \subseteq ClientKey
    BY Names DEF ClientKeyOf, ClientKey, ClientID
  <1>3. ClientsOK(map)
    BY <1>1, <1>2 DEF ClientsOK
  <1>4. KeyOK(map)
    <2>1. SUFFICES ASSUME NEW k \in keys, k[1] # Nil PROVE map[k].id = k
      BY <1>1 DEF KeyOK
    <2>2. map[k].id \in ClientID /\ ClientKeyOf(map[k].id) = k
      BY <1>1
    <2>3. k = <<map[k].id[1], map[k].id[2]>>
      BY <2>1, <2>2 DEF ClientKeyOf
    <2>4. QED BY <2>2, <2>3, Names
  <1>5. QED BY <1>3, <1>4

LEMMA DiscoverInv ==
    ASSUME IInv, Discover
    PROVE  IInv'
  <1>1. ClientsOK(clients') /\ KeyOK(clients')
    BY DiscoveredOK DEF Discover
  <1>2. WorkersOK(workers')
    BY Names DEF Discover, WorkersOK, Record
  <1>3. req.plan # <<>> /\ Tail(req.plan) \in Seq(Loops)
        /\ req' = [req EXCEPT !.phase = "discover", !.plan = Tail(req.plan)]
    BY DEF Discover, IInv, PlanOK
  <1>4. req' \in [op: Op, phase: Phase, plan: Seq(Phase), unit: Units \cup {Nil},
                  inst: 0 .. MaxCount, errs: BOOLEAN]
    BY <1>3, LoopsArePhases DEF IInv, Typed, Phase
  <1>5. Typed'
    BY <1>1, <1>2, <1>4 DEF IInv, Typed, Discover, DockerOK, Overlooked
  <1>6. PlanOK' /\ TodoOK' /\ CallOK' /\ BootOK'
    BY <1>3 DEF IInv, Typed, Discover, PhaseDone, PlanOK, TodoOK, CallOK, BootOK
  <1>7. NoSilentOrphan'
    <2>1. SUFFICES ASSUME NEW id \in DOMAIN docker, id \notin Overlooked
                   PROVE  id \in Named(clients') \cup Named(workers')
      BY DEF Discover, NoSilentOrphan, Tracked
    <2>2. CASE id \in WorkerID
      <3>1. id \in DOMAIN workers' /\ workers'[id].id = id
        BY <2>1, <2>2, Names DEF Discover, Overlooked
      <3>2. QED BY <3>1 DEF Named
    <2>3. CASE id \in ClientID
      <3>1. id[1] \notin Workers /\ id[1] # Nil
        BY <2>3, Names, ManagerAssumption
      <3>2. ClientKeyOf(id) = id
        BY <2>1, <2>3, <3>1, Names DEF Overlooked, ClientKeyOf
      <3>3. id \in DOMAIN clients'
        BY <2>1, <2>3, <3>2 DEF Discover, DiscoveredClients
      <3>4. QED BY <1>1, <3>1, <3>3 DEF KeyOK, Named
    <2>4. QED BY <2>1, <2>2, <2>3, Names DEF IInv, Typed, DockerOK
  <1>8. QED BY <1>1, <1>5, <1>6, <1>7 DEF IInv

LEMMA DiscoverFailsInv ==
    ASSUME IInv, DiscoverFails
    PROVE  IInv'
  BY CrashedInv, FaultCounted DEF DiscoverFails, IInv, Typed

-----------------------------------------------------------------------------
(* When Up is done its container has a record, or an error was reported.      *)
LEMMA UpRecordedOK ==
    ASSUME IInv, NEW failed \in BOOLEAN, NEW id \in ClientID \cup WorkerID, UpRecorded(id, failed)
    PROVE  /\ ClientsOK(clients') /\ KeyOK(clients') /\ WorkersOK(workers')
           /\ excused' \subseteq ID
           /\ id \in (Tracked \cup excused)'
           /\ Tracked \cup excused \subseteq (Tracked \cup excused)'
  <1>1. CASE id \in ClientID
    <2>1. id[1] \in Clients /\ id \in ID
      BY <1>1, Names
    <2>2. CASE failed
      BY <2>1, <2>2 DEF IInv, Typed, UpRecorded, Tracked
    <2>3. CASE ~failed
      <3>1. clients' = Put(clients, id, [up |-> TRUE, id |-> id]) /\ workers' = workers
            /\ excused' = excused \ {id}
        BY <2>1, <2>3 DEF UpRecorded
      <3>2. [up |-> TRUE, id |-> id] \in [up: BOOLEAN, id: ClientID]
        BY <1>1
      <3>3. ClientsOK(clients') /\ KeyOK(clients') /\ Named(clients') = Named(clients) \cup {id}
        BY <1>1, <3>1, <3>2, PutClient DEF IInv, Typed
      <3>4. QED BY <3>1, <3>3 DEF IInv, Typed, Tracked
    <2>4. QED BY <2>2, <2>3
  <1>2. CASE id \in WorkerID
    <2>1. id[1] \notin Clients /\ id \in ID
      BY <1>2, Names
    <2>2. workers' = Put(workers, id, [up |-> TRUE, id |-> id]) /\ clients' = clients
          /\ excused' = excused \ {id}
      BY <2>1 DEF UpRecorded
    <2>3. [up |-> TRUE, id |-> id] \in Record
      BY <2>1 DEF Record
    <2>4. WorkersOK(workers') /\ Named(workers') = Named(workers) \cup {id}
      BY <1>2, <2>2, <2>3, PutWorker DEF IInv, Typed
    <2>5. QED BY <2>2, <2>4 DEF IInv, Typed, Tracked
  <1>3. QED BY <1>1, <1>2

LEMMA UpDoneInv ==
    ASSUME IInv, NEW failed \in BOOLEAN, NEW id, UpDone(id, failed),
           \/ req.phase = "clientsUp" /\ id \in ClientID
           \/ req.phase = "workersUp" /\ id \in WorkerID,
           call.at # "idle" => call.id = id,
           DockerOK(docker'), DOMAIN docker' \subseteq DOMAIN docker \cup {id},
           BudgetOK(budget'), disturbed' \in BOOLEAN, todo' \subseteq todo
    PROVE  IInv'
  <1>1. /\ ClientsOK(clients') /\ KeyOK(clients') /\ WorkersOK(workers')
        /\ excused' \subseteq ID
        /\ id \in (Tracked \cup excused)'
        /\ Tracked \cup excused \subseteq (Tracked \cup excused)'
    BY UpRecordedOK DEF UpDone
  <1> DEFINE errs == req.errs \/ failed \/ (id[1] \in Workers /\ ~config[id[1]].typed)
  <1>2. req' = [req EXCEPT !.errs = errs] /\ errs \in BOOLEAN
    BY DEF UpDone, UpRecorded
  <1> HIDE DEF errs
  <1>3. req' \in [op: Op, phase: Phase, plan: Seq(Phase), unit: Units \cup {Nil},
                  inst: 0 .. MaxCount, errs: BOOLEAN]
        /\ req'.op = req.op /\ req'.phase = req.phase /\ req'.plan = req.plan
    BY <1>2 DEF IInv, Typed
  <1>4. call' = NoCall /\ UNCHANGED <<alive, config, last>>
    BY DEF UpDone, UpRecorded
  <1>5. call' \in [at: {"idle", "inspect", "remove", "create", "start"}, id: ID \cup {Nil}]
    BY <1>4 DEF NoCall
  <1>6. Typed'
    BY <1>1, <1>3, <1>4, <1>5 DEF IInv, Typed
  <1>7. PlanOK' /\ TodoOK' /\ CallOK' /\ BootOK'
    BY <1>3, <1>4 DEF IInv, PlanOK, TodoOK, CallOK, BootOK, NoCall
  <1>8. NoSilentOrphan'
    BY <1>1, <1>3, <1>4 DEF IInv, NoSilentOrphan
  <1>9. QED BY <1>1, <1>6, <1>7, <1>8 DEF IInv

(* The loops of Start enter Up for what is left to do.                        *)
LEMMA EnterUp ==
    ASSUME IInv, NEW id \in ID,
           \/ Visit("clientsUp", id) /\ id \in ClientID
           \/ Visit("workersUp", id) /\ id \in WorkerID,
           call' = [at |-> "inspect", id |-> id],
           UNCHANGED <<memory, docker, req, ghosts, budget>>
    PROVE  IInv'
  <1>1. Typed'
    BY DEF IInv, Typed, Visit, memory, ghosts
  <1>2. PlanOK' /\ TodoOK' /\ CallOK' /\ BootOK' /\ KeyOK(clients)'
    BY DEF IInv, PlanOK, TodoOK, CallOK, BootOK, KeyOK, Visit, memory
  <1>3. NoSilentOrphan'
    BY DEF IInv, NoSilentOrphan, Tracked, Named, Visit, memory, ghosts
  <1>4. QED BY <1>1, <1>2, <1>3 DEF IInv

LEMMA EnterUpInv ==
    ASSUME IInv, NEW id \in todo, ClientUp(id) \/ WorkerUp(id) \/ WorkerUpNoClient(id)
    PROVE  IInv'
  <1>1. CASE ClientUp(id)
    <2>1. id \in ClientID /\ id \in ID
      BY <1>1, Names DEF ClientUp, Visit, IInv, TodoOK
    <2>2. QED BY <1>1, <2>1, EnterUp DEF ClientUp
  <1>2. CASE WorkerUp(id)
    <2>1. id \in WorkerID /\ id \in ID
      BY <1>2, Names DEF WorkerUp, Visit, IInv, TodoOK
    <2>2. QED BY <1>2, <2>1, EnterUp DEF WorkerUp
  <1>3. CASE WorkerUpNoClient(id)
    <2>1. req.phase = "workersUp" /\ id \in WorkerID /\ call.at = "idle" /\ todo' \subseteq todo
      BY <1>3 DEF WorkerUpNoClient, Visit, IInv, TodoOK
    <2>2. QED BY <1>3, <2>1, UpDoneInv DEF WorkerUpNoClient, IInv, Typed
  <1>4. QED BY <1>1, <1>2, <1>3

(* Up's calls go on, with the container that Up is working on or without it.  *)
LEMMA UpGoesOn ==
    ASSUME IInv, call.at # "idle", NEW at \in {"inspect", "remove", "create", "start"},
           call' = [call EXCEPT !.at = at],
           UNCHANGED <<memory, req, todo, last, excused>>,
           DockerOK(docker'), DOMAIN docker' \subseteq DOMAIN docker \cup {call.id},
           BudgetOK(budget'), disturbed' \in BOOLEAN
    PROVE  IInv'
  <1>1. call'.at # "idle" /\ call'.id = call.id
        /\ call' \in [at: {"idle", "inspect", "remove", "create", "start"}, id: ID \cup {Nil}]
    BY DEF IInv, Typed
  <1>2. Typed'
    BY <1>1 DEF IInv, Typed, memory
  <1>3. PlanOK' /\ TodoOK' /\ CallOK' /\ BootOK' /\ KeyOK(clients)'
    BY <1>1 DEF IInv, PlanOK, TodoOK, CallOK, BootOK, KeyOK, memory
  <1>4. NoSilentOrphan'
    BY <1>1 DEF IInv, NoSilentOrphan, Tracked, Named, memory
  <1>5. QED BY <1>2, <1>3, <1>4 DEF IInv

(* Where a call is under way, its container is known.                         *)
LEMMA Calling ==
    ASSUME IInv, call.at # "idle"
    PROVE  /\ call.id \in ID /\ call.id \in ClientID \cup WorkerID
           /\ \/ req.phase = "clientsUp" /\ call.id \in ClientID
              \/ req.phase = "workersUp" /\ call.id \in WorkerID
  BY Names DEF IInv, CallOK

LEMMA UpCallInv ==
    ASSUME IInv, NEW at \in {"remove", "create"}, NEW next \in {"create", "start"}, NEW effect,
           NEW possible \in BOOLEAN,
           UpCall(at, possible, effect, next),
           DockerOK(effect), DOMAIN effect \subseteq DOMAIN docker \cup {call.id}
    PROVE  IInv'
  <1>1. call.at # "idle" /\ UNCHANGED todo
    BY DEF UpCall
  <1>2. docker' \in {docker, effect} /\ BudgetOK(budget') /\ disturbed' = disturbed
    <2>1. CASE UNCHANGED <<budget, disturbed>> /\ docker' \in {docker, effect}
      BY <2>1 DEF IInv, Typed
    <2>2. CASE Fault(effect) \/ Fault(docker)
      BY <2>2, FaultCounted DEF IInv, Typed
    <2>3. QED BY <2>1, <2>2 DEF UpCall, API, Refused
  <1>3. DockerOK(docker') /\ DOMAIN docker' \subseteq DOMAIN docker \cup {call.id}
    BY <1>2 DEF IInv, Typed
  <1>4. CASE call' = [call EXCEPT !.at = next] /\ UNCHANGED <<memory, req, last, excused>>
    BY <1>1, <1>2, <1>3, <1>4, UpGoesOn DEF IInv, Typed
  <1>5. CASE UpDone(call.id, TRUE)
    BY <1>1, <1>2, <1>3, <1>5, Calling, UpDoneInv DEF IInv, Typed
  <1>6. QED BY <1>4, <1>5 DEF UpCall

LEMMA UpInv ==
    ASSUME IInv, Inspect \/ InspectUp \/ InspectFails \/ Remove \/ Create \/ Start
    PROVE  IInv'
  <1>1. CASE Inspect
    <2>1. \E at \in {"inspect", "remove", "create", "start"} : call' = [call EXCEPT !.at = at]
      BY <1>1 DEF Inspect
    <2>2. QED BY <1>1, <2>1, UpGoesOn DEF Inspect, ghosts, IInv, Typed
  <1>2. CASE InspectUp
    BY <1>2, Calling, UpDoneInv DEF InspectUp, IInv, Typed
  <1>3. CASE InspectFails
    <2>1. docker' = docker /\ BudgetOK(budget') /\ disturbed' = disturbed
      BY <1>3, FaultCounted DEF InspectFails, IInv, Typed
    <2>2. QED BY <1>3, <2>1, Calling, UpDoneInv DEF InspectFails, IInv, Typed
  <1>4. CASE Remove
    <2>1. DockerOK(Removed(call.id)) /\ DOMAIN Removed(call.id) \subseteq DOMAIN docker \cup {call.id}
      BY RemovedOK DEF IInv, Typed
    <2>2. (call.id \in DOMAIN docker) \in BOOLEAN
      OBVIOUS
    <2>3. QED BY <1>4, <2>1, <2>2, UpCallInv DEF Remove
  <1>5. CASE Create
    <2>1. call.id \in ID
      BY <1>5, Calling DEF Create, UpCall
    <2>2. QED BY <1>5, <2>1, CreatedOK, UpCallInv DEF Create, IInv, Typed
  <1>6. CASE Start
    <2>1. PICK failed \in BOOLEAN : /\ API(CanStart(call.id), Started(call.id), failed)
                                    /\ UpDone(call.id, failed)
      BY <1>6 DEF Start
    <2>2. /\ docker' = docker \/ (call.id \in DOMAIN docker /\ docker' = Started(call.id))
          /\ BudgetOK(budget') /\ disturbed' = disturbed
      <3>1. CASE ~CanStart(call.id)
        BY <2>1, <3>1, FaultCounted DEF API, Refused, IInv, Typed
      <3>2. CASE CanStart(call.id)
        BY <2>1, <3>2, FaultCounted DEF API, Refused, CanStart, IInv, Typed
      <3>3. QED BY <3>1, <3>2
    <2>3. DockerOK(docker') /\ DOMAIN docker' = DOMAIN docker
      BY <2>2, InStateOK DEF Started, IInv, Typed
    <2>4. QED BY <1>6, <2>1, <2>2, <2>3, Calling, UpDoneInv DEF Start, IInv, Typed
  <1>7. QED BY <1>1, <1>2, <1>3, <1>4, <1>5, <1>6

-----------------------------------------------------------------------------
(* An iteration of a loop over records: no container appears, and one whose   *)
(* record is forgotten is gone, or an error was reported about it.            *)
ClientLoops == {"clientsSweep", "clientsDown", "clientsClean", "clientsDelete"}
WorkerLoops == {"workersSweep", "workersDown", "workersClean", "workersDelete"}

LEMMA IterationInv ==
    ASSUME IInv, req.phase \in ClientLoops \cup WorkerLoops \cup {"kill"},
           NEW errs \in BOOLEAN, req' = [req EXCEPT !.errs = errs],
           UNCHANGED <<alive, config, call, last, disturbed>>,
           ClientsOK(clients'), KeyOK(clients'), WorkersOK(workers'),
           DockerOK(docker'), BudgetOK(budget'), excused' \subseteq ID,
           todo' \subseteq todo,
           req.phase \in ClientLoops => todo' \subseteq DOMAIN clients',
           req.phase \in WorkerLoops => todo' \subseteq DOMAIN workers',
           DOMAIN docker' \subseteq DOMAIN docker,
           (Tracked \cup excused) \cap DOMAIN docker' \subseteq (Tracked \cup excused)'
    PROVE  IInv'
  <1>1. req' \in [op: Op, phase: Phase, plan: Seq(Phase), unit: Units \cup {Nil},
                  inst: 0 .. MaxCount, errs: BOOLEAN]
        /\ req'.op = req.op /\ req'.phase = req.phase /\ req'.plan = req.plan
    BY DEF IInv, Typed
  <1>2. Typed'
    BY <1>1 DEF IInv, Typed
  <1>3. PlanOK' /\ TodoOK' /\ CallOK' /\ BootOK'
    BY <1>1 DEF IInv, PlanOK, TodoOK, CallOK, BootOK, ClientLoops, WorkerLoops
  <1>4. call.at = "idle" /\ req.phase # "accept"
    BY DEF IInv, CallOK, ClientLoops, WorkerLoops
  <1>5. NoSilentOrphan'
    BY <1>1, <1>4 DEF IInv, NoSilentOrphan
  <1>6. QED BY <1>2, <1>3, <1>5 DEF IInv

(* An iteration that only stops a container.                                  *)
LEMMA StopIteration ==
    ASSUME IInv, req.phase \in ClientLoops \cup WorkerLoops \cup {"kill"},
           NEW id, NEW failed \in BOOLEAN,
           Down(id, failed) \/ API(Running(id), Stopped(id), failed), Failed(failed),
           UNCHANGED <<alive, config, call, last, excused>>,
           ClientsOK(clients'), KeyOK(clients'), WorkersOK(workers'),
           Named(clients') = Named(clients), Named(workers') = Named(workers),
           DOMAIN clients' = DOMAIN clients, DOMAIN workers' = DOMAIN workers,
           todo' \subseteq todo
    PROVE  IInv'
  <1>1. /\ DockerOK(docker') /\ DOMAIN docker' = DOMAIN docker
        /\ BudgetOK(budget') /\ disturbed' = disturbed
    BY StopCall DEF IInv, Typed
  <1>2. req' = [req EXCEPT !.errs = req.errs \/ failed] /\ (req.errs \/ failed) \in BOOLEAN
    BY DEF Failed
  <1>3. /\ req.phase \in ClientLoops => todo' \subseteq DOMAIN clients'
        /\ req.phase \in WorkerLoops => todo' \subseteq DOMAIN workers'
    BY DEF IInv, TodoOK, ClientLoops, WorkerLoops
  <1>4. (Tracked \cup excused) \cap DOMAIN docker' \subseteq (Tracked \cup excused)'
    BY DEF Tracked
  <1>5. excused' \subseteq ID
    BY DEF IInv, Typed
  <1>6. QED BY <1>1, <1>2, <1>3, <1>4, <1>5, IterationInv

LEMMA StopLoopsInv ==
    ASSUME IInv, NEW key \in todo,
           Sweep(key) \/ StopClient(key) \/ StopWorker(key) \/ Kill(key)
    PROVE  IInv'
  <1>1. CASE Sweep(key)
    <2>1. PICK failed \in BOOLEAN :
             LET id == IF req.phase = "clientsSweep" THEN clients[key].id ELSE workers[key].id
             IN  Down(id, failed) /\ Failed(failed)
      BY <1>1 DEF Sweep
    <2>2. req.phase \in ClientLoops \cup WorkerLoops /\ todo' \subseteq todo
          /\ UNCHANGED <<alive, config, call, last, excused, clients, workers>>
      BY <1>1 DEF Sweep, Visit, ClientLoops, WorkerLoops, memory
    <2>3. QED BY <2>1, <2>2, StopIteration DEF IInv, Typed
  <1>2. CASE StopClient(key)
    <2>1. PICK failed \in BOOLEAN : Down(clients[key].id, failed) /\ Failed(failed)
      BY <1>2 DEF StopClient
    <2>2. req.phase = "clientsDown" /\ key \in DOMAIN clients /\ todo' \subseteq todo
      BY <1>2 DEF StopClient, Visit, IInv, TodoOK
    <2>3. /\ ClientsOK(clients') /\ KeyOK(clients') /\ Named(clients') = Named(clients)
          /\ DOMAIN clients' = DOMAIN clients
      BY <1>2, <2>2, DownClient DEF StopClient, IInv, Typed
    <2>4. QED BY <1>2, <2>1, <2>2, <2>3, StopIteration DEF StopClient, IInv, Typed, ClientLoops
  <1>3. CASE StopWorker(key)
    <2>1. PICK failed \in BOOLEAN : Down(workers[key].id, failed) /\ Failed(failed)
      BY <1>3 DEF StopWorker
    <2>2. req.phase = "workersDown" /\ key \in DOMAIN workers /\ todo' \subseteq todo
      BY <1>3 DEF StopWorker, Visit, IInv, TodoOK
    <2>3. /\ WorkersOK(workers') /\ Named(workers') = Named(workers)
          /\ DOMAIN workers' = DOMAIN workers
      BY <1>3, <2>2, DownWorker DEF StopWorker, IInv, Typed
    <2>4. QED BY <1>3, <2>1, <2>2, <2>3, StopIteration DEF StopWorker, IInv, Typed, WorkerLoops
  <1>4. CASE Kill(key)
    <2>1. PICK failed \in BOOLEAN : API(Running(key), Stopped(key), failed) /\ Failed(failed)
      BY <1>4 DEF Kill
    <2>2. req.phase = "kill" /\ todo' \subseteq todo
          /\ UNCHANGED <<alive, config, call, last, excused, clients, workers>>
      BY <1>4 DEF Kill, Visit, memory
    <2>3. QED BY <2>1, <2>2, StopIteration DEF IInv, Typed
  <1>5. QED BY <1>1, <1>2, <1>3, <1>4

(* An iteration that cleans a container and forgets its record, or keeps it.  *)
LEMMA CleanLoopsInv ==
    ASSUME IInv, NEW key \in todo,
           CleanClient(key) \/ CleanWorker(key) \/ DeleteClient(key) \/ DeleteWorker(key)
    PROVE  IInv'
  <1> DEFINE errs(failed) == req.errs \/ failed
  <1>1. \A failed \in BOOLEAN : errs(failed) \in BOOLEAN
    OBVIOUS
  <1>2. CASE CleanClient(key)
    <2>1. PICK failed \in BOOLEAN :
             Clean(clients[key].id, failed) /\ Failed(failed) /\ Blame(clients[key].id, failed)
      BY <1>2 DEF CleanClient
    <2>2. req.phase = "clientsClean" /\ key \in DOMAIN clients /\ todo' = todo \ {key}
          /\ todo \subseteq DOMAIN clients
      BY <1>2 DEF CleanClient, Visit, IInv, TodoOK
    <2>3. /\ ClientsOK(clients') /\ KeyOK(clients')
          /\ Named(clients) \subseteq Named(clients') \cup {clients[key].id}
          /\ DOMAIN clients' = DOMAIN clients \ {key}
      BY <1>2, <2>2, ForgetClient DEF CleanClient, IInv, Typed
    <2>4. /\ DockerOK(docker') /\ DOMAIN docker' \subseteq DOMAIN docker
          /\ ~failed => clients[key].id \notin DOMAIN docker'
          /\ BudgetOK(budget') /\ disturbed' = disturbed
      BY <2>1, CleanCall DEF IInv, Typed
    <2>5. /\ excused \subseteq excused' /\ excused' \subseteq ID
          /\ failed => clients[key].id \in excused'
      BY <2>1, <2>2, Names DEF Blame, IInv, Typed, ClientsOK
    <2>6. (Tracked \cup excused) \cap DOMAIN docker' \subseteq (Tracked \cup excused)'
      BY <1>2, <2>3, <2>4, <2>5 DEF Tracked, CleanClient
    <2>7. req' = [req EXCEPT !.errs = errs(failed)]
      BY <2>1 DEF Failed
    <2> HIDE DEF errs
    <2>8. QED
      BY <1>1, <1>2, <2>2, <2>3, <2>4, <2>5, <2>6, <2>7, IterationInv
         DEF CleanClient, IInv, Typed, ClientLoops, WorkerLoops
  <1>3. CASE CleanWorker(key)
    <2>1. PICK failed \in BOOLEAN :
             Clean(workers[key].id, failed) /\ Failed(failed) /\ Blame(workers[key].id, failed)
      BY <1>3 DEF CleanWorker
    <2>2. req.phase = "workersClean" /\ key \in DOMAIN workers /\ todo' = todo \ {key}
          /\ todo \subseteq DOMAIN workers
      BY <1>3 DEF CleanWorker, Visit, IInv, TodoOK
    <2>3. /\ WorkersOK(workers')
          /\ Named(workers) \subseteq Named(workers') \cup {workers[key].id}
          /\ DOMAIN workers' = DOMAIN workers \ {key}
      BY <1>3, <2>2, ForgetWorker DEF CleanWorker, IInv, Typed
    <2>4. /\ DockerOK(docker') /\ DOMAIN docker' \subseteq DOMAIN docker
          /\ ~failed => workers[key].id \notin DOMAIN docker'
          /\ BudgetOK(budget') /\ disturbed' = disturbed
      BY <2>1, CleanCall DEF IInv, Typed
    <2>5. /\ excused \subseteq excused' /\ excused' \subseteq ID
          /\ failed => workers[key].id \in excused'
      BY <2>1, <2>2, Names DEF Blame, IInv, Typed, WorkersOK
    <2>6. (Tracked \cup excused) \cap DOMAIN docker' \subseteq (Tracked \cup excused)'
      BY <1>3, <2>3, <2>4, <2>5 DEF Tracked, CleanWorker
    <2>7. req' = [req EXCEPT !.errs = errs(failed)]
      BY <2>1 DEF Failed
    <2> HIDE DEF errs
    <2>8. QED
      BY <1>1, <1>3, <2>2, <2>3, <2>4, <2>5, <2>6, <2>7, IterationInv
         DEF CleanWorker, IInv, Typed, ClientLoops, WorkerLoops
  <1>4. CASE DeleteClient(key)
    <2>1. PICK failed \in BOOLEAN :
             /\ Clean(clients[key].id, failed) /\ Failed(failed)
             /\ clients' = IF failed THEN clients ELSE Del(clients, key)
             /\ todo' = IF failed THEN {} ELSE todo \ {key}
      BY <1>4 DEF DeleteClient
    <2>2. req.phase = "clientsDelete" /\ key \in DOMAIN clients /\ todo \subseteq DOMAIN clients
      BY <1>4 DEF DeleteClient, IInv, TodoOK
    <2>3. /\ ClientsOK(clients') /\ KeyOK(clients') /\ todo' \subseteq DOMAIN clients'
          /\ failed => clients' = clients
          /\ Named(clients) \subseteq Named(clients') \cup {clients[key].id}
      <3>1. CASE failed
        BY <2>1, <3>1 DEF IInv, Typed
      <3>2. CASE ~failed
        <4>1. clients' = Del(clients, key) /\ todo' = todo \ {key}
          BY <2>1, <3>2
        <4>2. DOMAIN clients' = DOMAIN clients \ {key}
          BY <2>2, <4>1, ForgetClient DEF IInv, Typed
        <4>3. todo' \subseteq DOMAIN clients'
          BY <2>2, <4>1, <4>2
        <4>4. QED BY <2>2, <3>2, <4>1, <4>3, ForgetClient DEF IInv, Typed
      <3>3. QED BY <3>1, <3>2
    <2>4. /\ DockerOK(docker') /\ DOMAIN docker' \subseteq DOMAIN docker
          /\ ~failed => clients[key].id \notin DOMAIN docker'
          /\ BudgetOK(budget') /\ disturbed' = disturbed
      BY <2>1, CleanCall DEF IInv, Typed
    <2>5. (Tracked \cup excused) \cap DOMAIN docker' \subseteq (Tracked \cup excused)'
      BY <1>4, <2>3, <2>4 DEF Tracked, DeleteClient
    <2>6. req' = [req EXCEPT !.errs = errs(failed)] /\ todo' \subseteq todo
      BY <2>1 DEF Failed
    <2> HIDE DEF errs
    <2>7. QED
      BY <1>1, <1>4, <2>2, <2>3, <2>4, <2>5, <2>6, IterationInv
         DEF DeleteClient, IInv, Typed, ClientLoops, WorkerLoops
  <1>5. CASE DeleteWorker(key)
    <2>1. PICK failed \in BOOLEAN :
             /\ Clean(workers[key].id, failed) /\ Failed(failed)
             /\ workers' = IF failed THEN workers ELSE Del(workers, key)
             /\ todo' = IF failed THEN {} ELSE todo \ {key}
      BY <1>5 DEF DeleteWorker
    <2>2. req.phase = "workersDelete" /\ key \in DOMAIN workers /\ todo \subseteq DOMAIN workers
      BY <1>5 DEF DeleteWorker, IInv, TodoOK
    <2>3. /\ WorkersOK(workers') /\ todo' \subseteq DOMAIN workers'
          /\ failed => workers' = workers
          /\ Named(workers) \subseteq Named(workers') \cup {workers[key].id}
      <3>1. CASE failed
        BY <2>1, <3>1 DEF IInv, Typed
      <3>2. CASE ~failed
        <4>1. workers' = Del(workers, key) /\ todo' = todo \ {key}
          BY <2>1, <3>2
        <4>2. DOMAIN workers' = DOMAIN workers \ {key}
          BY <2>2, <4>1, ForgetWorker DEF IInv, Typed
        <4>3. todo' \subseteq DOMAIN workers'
          BY <2>2, <4>1, <4>2
        <4>4. QED BY <2>2, <3>2, <4>1, <4>3, ForgetWorker DEF IInv, Typed
      <3>3. QED BY <3>1, <3>2
    <2>4. /\ DockerOK(docker') /\ DOMAIN docker' \subseteq DOMAIN docker
          /\ ~failed => workers[key].id \notin DOMAIN docker'
          /\ BudgetOK(budget') /\ disturbed' = disturbed
      BY <2>1, CleanCall DEF IInv, Typed
    <2>5. (Tracked \cup excused) \cap DOMAIN docker' \subseteq (Tracked \cup excused)'
      BY <1>5, <2>3, <2>4 DEF Tracked, DeleteWorker
    <2>6. req' = [req EXCEPT !.errs = errs(failed)] /\ todo' \subseteq todo
      BY <2>1 DEF Failed
    <2> HIDE DEF errs
    <2>7. QED
      BY <1>1, <1>5, <2>2, <2>3, <2>4, <2>5, <2>6, IterationInv
         DEF DeleteWorker, IInv, Typed, ClientLoops, WorkerLoops
  <1>6. QED BY <1>2, <1>3, <1>4, <1>5

-----------------------------------------------------------------------------
(* What happens around the manager leaves its records as they are.            *)
LEMMA ExitInv ==
    ASSUME IInv, NEW id \in DOMAIN docker, Exit(id)
    PROVE  IInv'
  <1>1. DockerOK(docker') /\ DOMAIN docker' = DOMAIN docker
    BY StoppedOK DEF Exit, IInv, Typed
  <1>2. BudgetOK(budget')
    <2>1. budget.exits + 1 \in 0 .. MaxExits
      BY ManagerAssumption DEF Exit, IInv, Typed, BudgetOK
    <2>2. QED BY <2>1 DEF Exit, IInv, Typed, BudgetOK
  <1>3. Typed'
    BY <1>1, <1>2 DEF IInv, Typed, Exit, memory, control
  <1>4. PlanOK' /\ TodoOK' /\ CallOK' /\ BootOK' /\ KeyOK(clients)'
    BY DEF IInv, PlanOK, TodoOK, CallOK, BootOK, KeyOK, Exit, memory, control
  <1>5. NoSilentOrphan'
    BY <1>1 DEF IInv, NoSilentOrphan, Tracked, Named, Exit, memory, control
  <1>6. QED BY <1>3, <1>4, <1>5 DEF IInv

LEMMA CrashInv ==
    ASSUME IInv, Crash
    PROVE  IInv'
  <1>1. BudgetOK(budget')
    <2>1. budget.crashes + 1 \in 0 .. MaxCrashes
      BY ManagerAssumption DEF Crash, IInv, Typed, BudgetOK
    <2>2. QED BY <2>1 DEF Crash, IInv, Typed, BudgetOK
  <1>2. QED BY <1>1, CrashedInv DEF Crash

LEMMA StutterInv ==
    ASSUME IInv, UNCHANGED vars
    PROVE  IInv'
  <1>1. Typed'
    BY DEF IInv, Typed, vars, memory, control, ghosts
  <1>2. PlanOK' /\ TodoOK' /\ CallOK' /\ BootOK' /\ KeyOK(clients)'
    BY DEF IInv, PlanOK, TodoOK, CallOK, BootOK, KeyOK, vars, memory, control
  <1>3. NoSilentOrphan'
    BY DEF IInv, NoSilentOrphan, Tracked, Named, vars, memory, control, ghosts
  <1>4. QED BY <1>1, <1>2, <1>3 DEF IInv

(* Every step of the system keeps the invariant.                              *)
LEMMA NextInv == IInv /\ [Next]_vars => IInv'
  <1> SUFFICES ASSUME IInv, [Next]_vars PROVE IInv'
    OBVIOUS
  <1>1. CASE Ask
    BY <1>1, AskInv
  <1>2. CASE NextPhase \/ StopFailed \/ Reply \/ PanicListFails
    BY <1>2, NextPhaseInv, StopFailedInv, ReplyInv, PanicListFailsInv
  <1>3. CASE FatalStart
    BY <1>3, CrashedInv DEF FatalStart, IInv, Typed
  <1>4. CASE Discover \/ DiscoverFails
    BY <1>4, DiscoverInv, DiscoverFailsInv
  <1>5. CASE Inspect \/ InspectUp \/ InspectFails \/ Remove \/ Create \/ Start
    BY <1>5, UpInv
  <1>6. ASSUME NEW key \in todo,
               ClientUp(key) \/ WorkerUp(key) \/ WorkerUpNoClient(key) \/ Sweep(key)
               \/ StopClient(key) \/ StopWorker(key) \/ CleanClient(key) \/ CleanWorker(key)
               \/ DeleteClient(key) \/ DeleteWorker(key) \/ Kill(key)
        PROVE  IInv'
    BY <1>6, EnterUpInv, StopLoopsInv, CleanLoopsInv
  <1>7. CASE Crash \/ \E id \in DOMAIN docker : Exit(id)
    BY <1>7, CrashInv, ExitInv
  <1>8. CASE UNCHANGED vars
    BY <1>8, StutterInv
  <1>9. QED BY <1>1, <1>2, <1>3, <1>4, <1>5, <1>6, <1>7, <1>8 DEF Next, Serve

-----------------------------------------------------------------------------
(* What the properties remember of the past.                                  *)
HistoryOK ==
    /\ forgiven \subseteq ID /\ stranded \subseteq ID
    /\ DOMAIN reused \subseteq WorkerID /\ \A k \in DOMAIN reused : reused[k] \in BOOLEAN

(* Every step looks again at who is cut off, or leaves docker as it is.        *)
LEMMA StrandedSteps == [Next]_vars => Stranding \/ UNCHANGED <<docker, stranded>>
  <1> SUFFICES ASSUME [Next]_vars PROVE Stranding \/ UNCHANGED <<docker, stranded>>
    OBVIOUS
  <1>1. CASE Ask
    BY <1>1 DEF Ask, Post, Boot, Request
  <1>2. CASE NextPhase \/ StopFailed \/ Reply \/ FatalStart \/ Crash \/ Discover
    BY <1>2 DEF NextPhase, StopFailed, Reply, FatalStart, Crash, Discover
  <1>3. CASE DiscoverFails \/ PanicListFails \/ InspectFails
    BY <1>3 DEF DiscoverFails, PanicListFails, InspectFails, Fault
  <1>4. CASE Inspect \/ InspectUp
    BY <1>4 DEF Inspect, InspectUp
  <1>5. CASE Remove \/ Create \/ Start
    BY <1>5 DEF Remove, Create, Start, UpCall, API, Refused, Fault
  <1>6. ASSUME NEW key \in todo, ClientUp(key) \/ WorkerUp(key) \/ WorkerUpNoClient(key)
        PROVE  UNCHANGED <<docker, stranded>>
    BY <1>6 DEF ClientUp, WorkerUp, WorkerUpNoClient
  <1>7. ASSUME NEW key \in todo,
               Sweep(key) \/ StopClient(key) \/ StopWorker(key) \/ Kill(key)
        PROVE  Stranding \/ UNCHANGED <<docker, stranded>>
    BY <1>7 DEF Sweep, StopClient, StopWorker, Kill, Down, API, Refused, Fault
  <1>8. ASSUME NEW key \in todo,
               CleanClient(key) \/ CleanWorker(key) \/ DeleteClient(key) \/ DeleteWorker(key)
        PROVE  Stranding \/ UNCHANGED <<docker, stranded>>
    BY <1>8 DEF CleanClient, CleanWorker, DeleteClient, DeleteWorker, Clean, API, Refused, Fault
  <1>9. CASE (\E id \in DOMAIN docker : Exit(id)) \/ UNCHANGED vars
    BY <1>9 DEF Exit, vars
  <1>10. QED BY <1>1, <1>2, <1>3, <1>4, <1>5, <1>6, <1>7, <1>8, <1>9 DEF Next, Serve

(* A DELETE / forgives what was excused before it, a Start forgets what the   *)
(* Start before it took as it found it, and adds to it what Up finds.          *)
LEMMA ForgivenSteps ==
    [Next]_vars => \/ UNCHANGED forgiven
                   \/ forgiven' = {}
                   \/ forgiven' = excused
  BY DEF Next, Serve, Ask, Post, Boot, Request, Begin, Crash, Crashed, NextPhase, StopFailed, Reply,
         FatalStart, Discover, DiscoverFails, Inspect, InspectUp, InspectFails, Remove, Create, Start,
         PanicListFails, ClientUp, WorkerUp, WorkerUpNoClient, Sweep, StopClient, StopWorker,
         CleanClient, CleanWorker, DeleteClient, DeleteWorker, Kill, Exit, UpCall, UpDone, UpRecorded,
         ghosts, vars

LEMMA ReusedSteps ==
    [Next]_vars => \/ UNCHANGED reused
                   \/ reused' = EmptyMap /\ (req.phase = "idle" \/ ~alive')
                   \/ /\ call.at = "inspect" /\ call.id[1] \in Workers
                      /\ \E running \in BOOLEAN : reused' = Put(reused, call.id, running)
  BY DEF Next, Serve, Ask, Post, Boot, Request, Begin, Crash, Crashed, NextPhase, StopFailed, Reply,
         FatalStart, Discover, DiscoverFails, Inspect, InspectUp, InspectFails, Remove, Create, Start,
         PanicListFails, ClientUp, WorkerUp, WorkerUpNoClient, Sweep, StopClient, StopWorker,
         CleanClient, CleanWorker, DeleteClient, DeleteWorker, Kill, Exit, UpCall, UpDone, UpRecorded,
         Reuse, ghosts, vars

LEMMA HistoryInv == IInv /\ IInv' /\ HistoryOK /\ [Next]_vars => HistoryOK'
  <1> SUFFICES ASSUME IInv, IInv', HistoryOK, [Next]_vars PROVE HistoryOK'
    OBVIOUS
  <1>1. stranded' \subseteq ID
    <2>1. DOMAIN docker' \subseteq ID
      BY DEF IInv, Typed, DockerOK
    <2>2. QED BY <2>1, StrandedSteps DEF HistoryOK, Stranding, Stranded
  <1>2. forgiven' \subseteq ID
    BY ForgivenSteps DEF HistoryOK, IInv, Typed
  <1>3. DOMAIN reused' \subseteq WorkerID /\ \A k \in DOMAIN reused' : reused'[k] \in BOOLEAN
    <2>1. CASE UNCHANGED reused \/ reused' = EmptyMap
      BY <2>1 DEF HistoryOK, EmptyMap
    <2>2. CASE /\ call.at = "inspect" /\ call.id[1] \in Workers
               /\ \E running \in BOOLEAN : reused' = Put(reused, call.id, running)
      <3>1. call.id \in WorkerID
        BY <2>2, Calling, Names, ManagerAssumption
      <3>2. QED BY <2>2, <3>1 DEF HistoryOK, Put
    <2>3. QED BY <2>1, <2>2, ReusedSteps
  <1>4. QED BY <1>1, <1>2, <1>3 DEF HistoryOK

(* The manager's maps, docker's containers and the request are well typed in  *)
(* every state: a loop never visits a record that is not in its map.          *)
THEOREM TypeCorrect == Spec => []TypeOK
  <1>1. Init => HistoryOK
    BY DEF Init, HistoryOK, EmptyMap
  <1>2. IInv /\ HistoryOK => TypeOK
    <2> SUFFICES ASSUME IInv, HistoryOK PROVE TypeOK
      OBVIOUS
    <2>1. call.at # "idle" => call.id \in ID
      BY Calling
    <2>2. QED BY <2>1 DEF IInv, Typed, TypeOK, ClientsOK, WorkersOK, DockerOK, BudgetOK, HistoryOK
  <1>3. QED BY InitInv, NextInv, HistoryInv, <1>1, <1>2, PTL DEF Spec

(* However docker calls fail, containers exit and the process crashes, the    *)
(* manager loses no container without an error: it has a record of it, works  *)
(* on it, has reported an error about it, or Discover overlooked it.          *)
THEOREM NoContainerLost == Spec => []NoSilentOrphan
  <1>1. IInv => NoSilentOrphan
    BY DEF IInv
  <1>2. QED BY InitInv, NextInv, <1>1, PTL DEF Spec

-----------------------------------------------------------------------------
(* DELETE of workers or clients. *)

DOps == {"workersDelete", "clientsDelete"}
Others == Phase \ DOps

(* The path of a delete names an instance only with a section; its loop is the *)
(* whole request, belongs to no other one, and visits what the path selects.   *)
PathOK ==
    /\ req.unit = Nil => req.inst = 0
    /\ req.op \notin DOps => req.phase \notin DOps /\ req.plan \in Seq(Others)
    /\ req.op \in DOps => \/ req.phase = "accept" /\ req.plan = <<req.op>>
                          \/ req.phase = req.op /\ req.plan = <<>>
    /\ req.phase \in DOps => \A key \in todo : Selected(key)

-----------------------------------------------------------------------------
(* The steps within a phase: what is left to visit is less.                    *)
LEMMA WithinPhase ==
    ASSUME PathOK, IInv, NEW errs \in BOOLEAN, req' = [req EXCEPT !.errs = errs], todo' \subseteq todo
    PROVE  PathOK'
  <1>1. /\ req'.op = req.op /\ req'.phase = req.phase /\ req'.plan = req.plan
        /\ req'.unit = req.unit /\ req'.inst = req.inst
    BY DEF IInv, Typed
  <1>2. req'.phase \in DOps => \A key \in todo' : Selected(key)'
    BY <1>1 DEF PathOK, Selected
  <1>3. QED BY <1>1, <1>2 DEF PathOK

LEMMA SamePhase ==
    ASSUME PathOK, IInv, req' = req, todo' \subseteq todo
    PROVE  PathOK'
  <1>1. req.errs \in BOOLEAN /\ req' = [req EXCEPT !.errs = req.errs]
    BY DEF IInv, Typed
  <1>2. QED BY <1>1, WithinPhase

(* No request is served any more.                                              *)
LEMMA NoRequest ==
    ASSUME req' = NoReq
    PROVE  PathOK'
  <1>1. <<>> \in Seq(Others)
    OBVIOUS
  <1>2. QED BY <1>1 DEF PathOK, NoReq, DOps

LEMMA BeginPath ==
    ASSUME NEW op, NEW plan, NEW unit, NEW inst, Begin(op, plan, unit, inst),
           unit = Nil => inst = 0,
           op \notin DOps => plan \in Seq(Others),
           op \in DOps => plan = <<op>>
    PROVE  PathOK'
  <1>1. /\ req'.op = op /\ req'.phase = "accept" /\ req'.plan = plan
        /\ req'.unit = unit /\ req'.inst = inst
    BY DEF Begin
  <1>2. QED BY <1>1 DEF PathOK, DOps

LEMMA OtherPlans ==
    /\ StartPlan \in Seq(Others) /\ BootPlan(TRUE) \in Seq(Others) /\ BootPlan(FALSE) \in Seq(Others)
    /\ \A op \in {"stop", "clean", "delete", "panic"} : Plan(op) \in Seq(Others)
    /\ \A op \in DOps : Plan(op) = <<op>>
  BY DEF StartPlan, BootPlan, Plan, Others, Phase, DOps

LEMMA AskPath == Ask => PathOK'
  <1> SUFFICES ASSUME Ask PROVE PathOK'
    OBVIOUS
  <1>1. ASSUME NEW cfg \in Configs, Post(cfg) PROVE PathOK'
    BY <1>1, OtherPlans, BeginPath DEF Post, DOps
  <1>2. ASSUME NEW cfg \in Configs, NEW start \in BOOLEAN, Boot(cfg, start) PROVE PathOK'
    <2>1. CASE start
      <3>1. Begin("bootStart", BootPlan(TRUE), Nil, 0)
        BY <1>2, <2>1 DEF Boot, BootPlan
      <3>2. QED BY <3>1, OtherPlans, BeginPath DEF DOps
    <2>2. CASE ~start
      <3>1. Begin("boot", BootPlan(FALSE), Nil, 0)
        BY <1>2, <2>2 DEF Boot, BootPlan
      <3>2. QED BY <3>1, OtherPlans, BeginPath DEF DOps
    <2>3. QED BY <2>1, <2>2
  <1>3. ASSUME NEW op \in Op, NEW unit \in Units \cup {Nil}, NEW inst \in 0 .. MaxCount,
               Request(op, unit, inst)
        PROVE  PathOK'
    <2>1. Begin(op, Plan(op), unit, inst) /\ (unit = Nil => inst = 0)
      BY <1>3 DEF Request
    <2>2. op \in DOps \/ op \in {"stop", "clean", "delete", "panic"}
      BY <1>3 DEF Request, DOps
    <2>3. (op \notin DOps => Plan(op) \in Seq(Others)) /\ (op \in DOps => Plan(op) = <<op>>)
      BY <2>2, OtherPlans
    <2>4. QED BY <2>1, <2>3, BeginPath
  <1>4. QED BY <1>1, <1>2, <1>3 DEF Ask

(* A phase follows another, or the plan is cut short: a delete's loop follows  *)
(* its acceptance only, with what the path selects.                            *)
LEMMA DeleteEnds == PathOK /\ req.phase \in DOps => req.plan = <<>> /\ req.op = req.phase
  BY DEF PathOK, DOps

LEMMA NextPhasePath ==
    ASSUME PathOK, IInv, NextPhase
    PROVE  PathOK'
  <1> DEFINE phase == Head(req.plan)
  <1>1. /\ req'.op = req.op /\ req'.phase = phase /\ req'.plan = Tail(req.plan)
        /\ req'.unit = req.unit /\ req'.inst = req.inst
    BY DEF NextPhase, IInv, Typed
  <1>2. CASE req.op \notin DOps
    <2>1. req.plan \in Seq(Others) /\ req.plan # <<>>
      BY <1>2 DEF PathOK, NextPhase
    <2>2. phase \in Others /\ Tail(req.plan) \in Seq(Others)
      BY <2>1
    <2>3. QED BY <1>1, <1>2, <2>2 DEF PathOK, Others
  <1>3. CASE req.op \in DOps
    <2>1. req.plan = <<req.op>>
      BY <1>3 DEF PathOK, NextPhase
    <2>2. phase = req.op /\ Tail(req.plan) = <<>>
      BY <2>1
    <2>3. todo' = Todo(phase)
      BY DEF NextPhase
    <2>4. \A key \in todo' : Selected(key)
      BY <1>3, <2>2, <2>3 DEF Todo, DOps
    <2>5. \A key \in todo' : Selected(key)'
      BY <1>1, <2>4 DEF Selected
    <2>6. QED BY <1>1, <1>3, <2>2, <2>5 DEF PathOK
  <1>4. QED BY <1>2, <1>3

LEMMA CutShortPath ==
    ASSUME PathOK, IInv, StopFailed \/ PanicListFails
    PROVE  PathOK'
  <1>1. /\ req'.op = req.op /\ req'.phase = req.phase /\ req'.plan = <<>>
        /\ req'.unit = req.unit /\ req'.inst = req.inst
    BY DEF StopFailed, PanicListFails, IInv, Typed
  <1>2. req.plan # <<>> /\ Head(req.plan) \notin DOps
    BY DEF StopFailed, PanicListFails, DOps
  <1>3. req.op \notin DOps
    BY <1>2 DEF PathOK
  <1>4. <<>> \in Seq(Others)
    OBVIOUS
  <1>5. QED BY <1>1, <1>3, <1>4 DEF PathOK

LEMMA DiscoverPath ==
    ASSUME PathOK, IInv, Discover
    PROVE  PathOK'
  <1>1. /\ req'.op = req.op /\ req'.phase = "discover" /\ req'.plan = Tail(req.plan)
        /\ req'.unit = req.unit /\ req'.inst = req.inst
    BY DEF Discover, IInv, Typed
  <1>2. req.plan # <<>> /\ Head(req.plan) \notin DOps
    BY DEF Discover, DOps
  <1>3. req.op \notin DOps
    BY <1>2 DEF PathOK
  <1>4. Tail(req.plan) \in Seq(Others)
    BY <1>2, <1>3 DEF PathOK
  <1>5. QED BY <1>1, <1>3, <1>4 DEF PathOK, DOps

(* Up's calls, and the loops.                                                  *)
LEMMA UpPath ==
    ASSUME PathOK, IInv, Inspect \/ InspectUp \/ InspectFails \/ Remove \/ Create \/ Start
    PROVE  PathOK'
  <1>1. ASSUME NEW id, NEW failed \in BOOLEAN, UpRecorded(id, failed)
        PROVE  \E errs \in BOOLEAN : req' = [req EXCEPT !.errs = errs]
    BY <1>1 DEF UpRecorded, IInv, Typed
  <1>2. UNCHANGED todo
    BY DEF Inspect, InspectUp, InspectFails, Remove, Create, Start, UpCall
  <1>3. req' = req \/ \E errs \in BOOLEAN : req' = [req EXCEPT !.errs = errs]
    BY <1>1 DEF Inspect, InspectUp, InspectFails, Remove, Create, Start, UpCall, UpDone
  <1>4. QED BY <1>2, <1>3, SamePhase, WithinPhase

LEMMA LoopsPath ==
    ASSUME PathOK, IInv, NEW key \in todo,
           \/ ClientUp(key) \/ WorkerUp(key) \/ WorkerUpNoClient(key) \/ Sweep(key)
           \/ StopClient(key) \/ StopWorker(key) \/ CleanClient(key) \/ CleanWorker(key)
           \/ DeleteClient(key) \/ DeleteWorker(key) \/ Kill(key)
    PROVE  PathOK'
  <1>1. todo' \subseteq todo
    BY DEF ClientUp, WorkerUp, WorkerUpNoClient, Sweep, StopClient, StopWorker, CleanClient,
           CleanWorker, DeleteClient, DeleteWorker, Kill, Visit
  <1>2. CASE ClientUp(key) \/ WorkerUp(key)
    BY <1>1, <1>2, SamePhase DEF ClientUp, WorkerUp
  <1>3. ASSUME NEW failed \in BOOLEAN, Failed(failed)
        PROVE  PathOK'
    <2>1. (req.errs \/ failed) \in BOOLEAN /\ req' = [req EXCEPT !.errs = req.errs \/ failed]
      BY <1>3 DEF Failed
    <2>2. QED BY <1>1, <2>1, WithinPhase
  <1>4. CASE WorkerUpNoClient(key)
    <2>1. \E errs \in BOOLEAN : req' = [req EXCEPT !.errs = errs]
      BY <1>4 DEF WorkerUpNoClient, UpDone, UpRecorded, IInv, Typed
    <2>2. QED BY <1>1, <2>1, WithinPhase
  <1>5. CASE Sweep(key) \/ StopClient(key) \/ StopWorker(key) \/ CleanClient(key)
             \/ CleanWorker(key) \/ DeleteClient(key) \/ DeleteWorker(key) \/ Kill(key)
    BY <1>3, <1>5 DEF Sweep, StopClient, StopWorker, CleanClient, CleanWorker, DeleteClient,
                      DeleteWorker, Kill
  <1>6. QED BY <1>2, <1>4, <1>5

LEMMA PathInv == PathOK /\ IInv /\ [Next]_vars => PathOK'
  <1> SUFFICES ASSUME PathOK, IInv, [Next]_vars PROVE PathOK'
    OBVIOUS
  <1>1. CASE Ask
    BY <1>1, AskPath
  <1>2. CASE NextPhase \/ StopFailed \/ PanicListFails \/ Discover
    BY <1>2, NextPhasePath, CutShortPath, DiscoverPath
  <1>3. CASE Reply \/ FatalStart \/ DiscoverFails \/ Crash
    BY <1>3, NoRequest DEF Reply, FatalStart, DiscoverFails, Crash, Crashed
  <1>4. CASE Inspect \/ InspectUp \/ InspectFails \/ Remove \/ Create \/ Start
    BY <1>4, UpPath
  <1>5. ASSUME NEW key \in todo,
               ClientUp(key) \/ WorkerUp(key) \/ WorkerUpNoClient(key) \/ Sweep(key)
               \/ StopClient(key) \/ StopWorker(key) \/ CleanClient(key) \/ CleanWorker(key)
               \/ DeleteClient(key) \/ DeleteWorker(key) \/ Kill(key)
        PROVE  PathOK'
    BY <1>5, LoopsPath
  <1>6. CASE (\E id \in DOMAIN docker : Exit(id)) \/ UNCHANGED vars
    BY <1>6, SamePhase DEF Exit, control, vars
  <1>7. QED BY <1>1, <1>2, <1>3, <1>4, <1>5, <1>6 DEF Next, Serve

-----------------------------------------------------------------------------
(* What DeletesSelected says of a step.                                        *)
Kept ==
    req.phase \in DOps =>
        /\ \A id \in DOMAIN docker \ DOMAIN docker' :
              /\ req.unit \in {Nil, id[1]} /\ req.inst \in {0, id[2]}
              /\ id[1] \in IF req.phase = "workersDelete" THEN Workers ELSE Clients
        /\ \A id \in DOMAIN docker' :
              alive' /\ id \in Named(clients) \cup Named(workers)
                  => id \in Named(clients') \cup Named(workers')

(* One container fewer at the most, the selected record's, which goes with it. *)
LEMMA OneRemoved ==
    ASSUME NEW gone \in ID, NEW failed \in BOOLEAN, Clean(gone, failed)
    PROVE  /\ DOMAIN docker \ DOMAIN docker' \subseteq {gone}
           /\ ~failed => gone \notin DOMAIN docker'
  BY DEF Clean, API, Refused, Fault, Removed, Del

LEMMA DeleteClientKept ==
    ASSUME PathOK, IInv, NEW key \in todo, DeleteClient(key)
    PROVE  Kept
  <1> DEFINE gone == clients[key].id
  <1>1. PICK failed \in BOOLEAN :
           Clean(gone, failed) /\ clients' = IF failed THEN clients ELSE Del(clients, key)
    BY DEF DeleteClient
  <1>2. req.phase = "clientsDelete" /\ key \in DOMAIN clients /\ UNCHANGED workers
    BY DEF DeleteClient, IInv, TodoOK
  <1>3. gone \in ClientID /\ gone \in ID /\ gone[1] \in Clients
    BY <1>2, Names DEF IInv, Typed, ClientsOK
  <1>4. req.unit \in {Nil, gone[1]} /\ req.inst \in {0, gone[2]}
    <2>1. Selected(key)
      BY <1>2 DEF PathOK, DOps
    <2>2. CASE key[1] = Nil
      BY <2>1, <2>2 DEF Selected, PathOK
    <2>3. CASE key[1] # Nil
      BY <1>2, <2>1, <2>3 DEF Selected, IInv, KeyOK
    <2>4. QED BY <2>2, <2>3
  <1>5. DOMAIN docker \ DOMAIN docker' \subseteq {gone} /\ (~failed => gone \notin DOMAIN docker')
    BY <1>1, <1>3, OneRemoved
  <1>6. Named(clients) \subseteq Named(clients') \cup {gone} /\ (failed => clients' = clients)
    BY <1>1, <1>2, ForgetClient DEF IInv, Typed
  <1>7. QED BY <1>2, <1>3, <1>4, <1>5, <1>6 DEF Kept

LEMMA DeleteWorkerKept ==
    ASSUME PathOK, IInv, NEW key \in todo, DeleteWorker(key)
    PROVE  Kept
  <1> DEFINE gone == workers[key].id
  <1>1. PICK failed \in BOOLEAN :
           Clean(gone, failed) /\ workers' = IF failed THEN workers ELSE Del(workers, key)
    BY DEF DeleteWorker
  <1>2. req.phase = "workersDelete" /\ key \in DOMAIN workers /\ UNCHANGED clients
    BY DEF DeleteWorker, IInv, TodoOK
  <1>3. gone = key /\ gone \in ID /\ gone[1] \in Workers
    BY <1>2, Names DEF IInv, Typed, WorkersOK
  <1>4. req.unit \in {Nil, gone[1]} /\ req.inst \in {0, gone[2]}
    BY <1>2, <1>3 DEF PathOK, DOps, Selected
  <1>5. DOMAIN docker \ DOMAIN docker' \subseteq {gone} /\ (~failed => gone \notin DOMAIN docker')
    BY <1>1, <1>3, OneRemoved
  <1>6. Named(workers) \subseteq Named(workers') \cup {gone} /\ (failed => workers' = workers)
    BY <1>1, <1>2, ForgetWorker DEF IInv, Typed
  <1>7. QED BY <1>2, <1>3, <1>4, <1>5, <1>6 DEF Kept

(* Nothing else happens to docker or to the records while a delete is served,  *)
(* but that a container exits or the process dies.                             *)
LEMMA StepKept == PathOK /\ IInv /\ [Next]_vars => Kept
  <1> SUFFICES ASSUME PathOK, IInv, [Next]_vars, req.phase \in DOps PROVE Kept
    BY DEF Kept
  <1>1. req.plan = <<>> /\ req.op = req.phase /\ call.at = "idle"
    BY DeleteEnds DEF IInv, CallOK, DOps
  <1>2. ASSUME DOMAIN docker' = DOMAIN docker, UNCHANGED <<clients, workers>>
        PROVE  Kept
    BY <1>2 DEF Kept
  <1>3. ~Ask
    BY DEF Ask, Post, Boot, Request, Begin, DOps
  <1>4. ~(NextPhase \/ StopFailed \/ Discover \/ DiscoverFails \/ PanicListFails)
    BY <1>1 DEF NextPhase, StopFailed, Discover, DiscoverFails, PanicListFails
  <1>5. ~FatalStart /\ (Reply => Kept)
    BY <1>1, <1>2 DEF FatalStart, Reply, memory, DOps
  <1>6. ~(Inspect \/ InspectUp \/ InspectFails \/ Remove \/ Create \/ Start)
    BY <1>1 DEF Inspect, InspectUp, InspectFails, Remove, Create, Start, UpCall
  <1>7. ASSUME NEW key \in todo
        PROVE  ~(ClientUp(key) \/ WorkerUp(key) \/ WorkerUpNoClient(key) \/ Sweep(key)
                 \/ StopClient(key) \/ StopWorker(key) \/ CleanClient(key) \/ CleanWorker(key)
                 \/ Kill(key))
    BY DEF ClientUp, WorkerUp, WorkerUpNoClient, Sweep, StopClient, StopWorker, CleanClient,
           CleanWorker, Kill, Visit, DOps
  <1>8. ASSUME NEW key \in todo, DeleteClient(key) \/ DeleteWorker(key)
        PROVE  Kept
    BY <1>8, DeleteClientKept, DeleteWorkerKept
  <1>9. CASE Crash
    BY <1>9 DEF Crash, Crashed, Kept
  <1>10. ASSUME NEW id \in DOMAIN docker, Exit(id)
         PROVE  Kept
    BY <1>2, <1>10, StoppedOK DEF Exit, memory, IInv, Typed
  <1>11. CASE UNCHANGED vars
    BY <1>2, <1>11 DEF vars, memory
  <1>12. QED BY <1>3, <1>4, <1>5, <1>6, <1>7, <1>8, <1>9, <1>10, <1>11 DEF Next, Serve

(* DELETE of workers or clients, filtered by section and instance, removes the *)
(* containers that the path names and no other, even of clients that share the *)
(* nil config, and leaves no container without its record.                     *)
THEOREM DeletesKeepToFilter == Spec => DeletesSelected
  <1>1. Init => PathOK
    <2>1. <<>> \in Seq(Others)
      OBVIOUS
    <2>2. QED BY <2>1 DEF Init, PathOK, NoReq, DOps
  <1>2. Kept => (req.phase \in {"workersDelete", "clientsDelete"} =>
          /\ \A id \in DOMAIN docker \ DOMAIN docker' :
                /\ req.unit \in {Nil, id[1]} /\ req.inst \in {0, id[2]}
                /\ id[1] \in IF req.phase = "workersDelete" THEN Workers ELSE Clients
          /\ \A id \in DOMAIN docker' :
                alive' /\ id \in Named(clients) \cup Named(workers)
                    => id \in Named(clients') \cup Named(workers'))
    BY DEF Kept, DOps
  <1>3. PathOK /\ IInv /\ [Next]_vars => PathOK' /\ Kept
    BY PathInv, StepKept
  <1>4. QED BY InitInv, NextInv, <1>1, <1>2, <1>3, PTL DEF Spec, DeletesSelected

-----------------------------------------------------------------------------
(* POST /stop, DELETE / and POST /panic. *)

HOps == {"stop", "delete", "panic"}

(* The phases of these requests, with what is then left of their plans.        *)
RestOK ==
    /\ req.op = "stop" =>
          \/ req.phase = "accept" /\ req.plan = <<"workersDown", "clientsDown">>
          \/ req.phase = "workersDown" /\ req.plan = <<"clientsDown">>
          \/ req.phase = "clientsDown" /\ req.plan = <<>>
    /\ req.op = "delete" =>
          \/ req.phase = "accept"
             /\ req.plan = <<"workersDown", "clientsDown", "check", "workersClean", "clientsClean">>
          \/ req.phase = "workersDown" /\ req.plan = <<"clientsDown", "check", "workersClean", "clientsClean">>
          \/ req.phase = "clientsDown" /\ req.plan = <<"check", "workersClean", "clientsClean">>
          \/ req.phase = "clientsDown" /\ req.plan = <<>> /\ req.errs
          \/ req.phase = "check" /\ req.plan = <<"workersClean", "clientsClean">>
          \/ req.phase = "workersClean" /\ req.plan = <<"clientsClean">>
          \/ req.phase = "clientsClean" /\ req.plan = <<>>
    /\ req.op = "panic" =>
          \/ req.phase = "accept" /\ req.plan = <<"kill">>
          \/ req.phase = "accept" /\ req.plan = <<>> /\ req.errs
          \/ req.phase = "kill" /\ req.plan = <<>>

(* As long as there was no error, the loops have done what they are past: a    *)
(* record that Stop has visited is marked down and its container does not run, *)
(* and one that Clean has visited is gone.                                     *)
Halted(map, key) == ~map[key].up /\ ~Running(map[key].id)

WorkersHalted ==
    req.op \in {"stop", "delete"} /\ ~req.errs =>
        /\ req.phase = "workersDown" => \A k \in DOMAIN workers \ todo : Halted(workers, k)
        /\ req.phase \in {"clientsDown", "check"} => \A k \in DOMAIN workers : Halted(workers, k)
        /\ req.phase = "workersClean" => DOMAIN workers \subseteq todo
        /\ req.phase = "clientsClean" => DOMAIN workers = {}
ClientsHalted ==
    req.op \in {"stop", "delete"} /\ ~req.errs =>
        /\ req.phase = "clientsDown" => \A k \in DOMAIN clients \ todo : Halted(clients, k)
        /\ req.phase \in {"check", "workersClean"} => \A k \in DOMAIN clients : Halted(clients, k)
        /\ req.phase = "clientsClean" => DOMAIN clients \subseteq todo
Killed ==
    req.op = "panic" /\ req.phase = "kill" /\ ~req.errs => \A id \in DOMAIN docker \ todo : ~Running(id)

(* What an answer without errors promises, until the next request begins.      *)
Promise ==
    alive /\ req.phase = "idle" /\ ~last.errs =>
        /\ last.op = "stop" => \A id \in Tracked : ~Running(id)
        /\ last.op = "delete" => Tracked = {}
        /\ last.op = "panic" => \A id \in DOMAIN docker : ~Running(id)

HInv == RestOK /\ WorkersHalted /\ ClientsHalted /\ Killed /\ Promise

-----------------------------------------------------------------------------
(* Other requests, and what begins or ends one.                                *)
LEMMA OtherRequest ==
    ASSUME req'.op \notin HOps, req'.phase # "idle"
    PROVE  HInv'
  BY DEF HInv, RestOK, WorkersHalted, ClientsHalted, Killed, Promise, HOps

LEMMA ProcessGone ==
    ASSUME Crashed
    PROVE  HInv'
  BY DEF Crashed, NoReq, HInv, RestOK, WorkersHalted, ClientsHalted, Killed, Promise

(* An error excuses a request from its promise.                                *)
LEMMA WithErrors ==
    ASSUME RestOK', req'.errs, req'.phase # "idle"
    PROVE  HInv'
  BY DEF HInv, WorkersHalted, ClientsHalted, Killed, Promise

LEMMA BeginHalted ==
    ASSUME NEW op, NEW plan, NEW unit, NEW inst, Begin(op, plan, unit, inst),
           op = "stop" => plan = <<"workersDown", "clientsDown">>,
           op = "delete" =>
               plan = <<"workersDown", "clientsDown", "check", "workersClean", "clientsClean">>,
           op = "panic" => plan = <<"kill">>
    PROVE  HInv'
  <1>1. req'.op = op /\ req'.phase = "accept" /\ req'.plan = plan
    BY DEF Begin
  <1>2. RestOK'
    BY <1>1 DEF RestOK
  <1>3. QED BY <1>1, <1>2 DEF HInv, WorkersHalted, ClientsHalted, Killed, Promise

LEMMA AskHalted == Ask => HInv'
  <1> SUFFICES ASSUME Ask PROVE HInv'
    OBVIOUS
  <1>1. ASSUME NEW cfg \in Configs, Post(cfg) PROVE HInv'
    BY <1>1, BeginHalted DEF Post
  <1>2. ASSUME NEW cfg \in Configs, NEW start \in BOOLEAN, Boot(cfg, start) PROVE HInv'
    <2>1. PICK op \in {"boot", "bootStart"} : Begin(op, BootPlan(start), Nil, 0)
      BY <1>2 DEF Boot
    <2>2. QED BY <2>1, BeginHalted
  <1>3. ASSUME NEW op \in Op, NEW unit \in Units \cup {Nil}, NEW inst \in 0 .. MaxCount,
               Request(op, unit, inst)
        PROVE  HInv'
    BY <1>3, BeginHalted DEF Request, Plan
  <1>4. QED BY <1>1, <1>2, <1>3 DEF Ask

(* The plans of these requests, from their end.                               *)
LEMMA PlanEnds ==
    /\ Head(<<"kill">>) = "kill" /\ Tail(<<"kill">>) = <<>>
    /\ Head(<<"clientsDown">>) = "clientsDown" /\ Tail(<<"clientsDown">>) = <<>>
    /\ Head(<<"workersDown", "clientsDown">>) = "workersDown"
    /\ Tail(<<"workersDown", "clientsDown">>) = <<"clientsDown">>
    /\ Head(<<"clientsClean">>) = "clientsClean" /\ Tail(<<"clientsClean">>) = <<>>
    /\ Head(<<"workersClean", "clientsClean">>) = "workersClean"
    /\ Tail(<<"workersClean", "clientsClean">>) = <<"clientsClean">>
    /\ Head(<<"check", "workersClean", "clientsClean">>) = "check"
    /\ Tail(<<"check", "workersClean", "clientsClean">>) = <<"workersClean", "clientsClean">>
    /\ Head(<<"clientsDown", "check", "workersClean", "clientsClean">>) = "clientsDown"
    /\ Tail(<<"clientsDown", "check", "workersClean", "clientsClean">>) =
          <<"check", "workersClean", "clientsClean">>
    /\ Head(<<"workersDown", "clientsDown", "check", "workersClean", "clientsClean">>) = "workersDown"
    /\ Tail(<<"workersDown", "clientsDown", "check", "workersClean", "clientsClean">>) =
          <<"clientsDown", "check", "workersClean", "clientsClean">>
  OBVIOUS

(* The next phase: what the last one leaves is what this one begins with.      *)
LEMMA NextPhaseHalted ==
    ASSUME HInv, IInv, NextPhase
    PROVE  HInv'
  <1> DEFINE phase == Head(req.plan)
  <1>1. /\ req'.op = req.op /\ req'.phase = phase /\ req'.plan = Tail(req.plan)
        /\ req'.errs = req.errs
    BY DEF NextPhase, IInv, Typed
  <1>2. phase \in Loops
    BY DEF IInv, PlanOK, NextPhase
  <1>3. todo = {} /\ todo' = Todo(phase) /\ req.plan # <<>> /\ docker' = docker
    BY DEF NextPhase, PhaseDone
  <1>4. CASE req.op \notin HOps
    BY <1>1, <1>2, <1>4, OtherRequest DEF Loops
  <1>5. CASE req.op \in HOps
    <2>1. /\ phase \in {"workersDown", "clientsDown", "check", "workersClean", "clientsClean", "kill"}
          /\ RestOK'
      <3> DEFINE rest == Tail(req.plan)
      <3>1. \/ req.op = "stop" /\ phase = "workersDown" /\ rest = <<"clientsDown">>
            \/ req.op = "stop" /\ phase = "clientsDown" /\ rest = <<>>
            \/ /\ req.op = "delete" /\ phase = "workersDown"
               /\ rest = <<"clientsDown", "check", "workersClean", "clientsClean">>
            \/ /\ req.op = "delete" /\ phase = "clientsDown"
               /\ rest = <<"check", "workersClean", "clientsClean">>
            \/ req.op = "delete" /\ phase = "check" /\ rest = <<"workersClean", "clientsClean">>
            \/ req.op = "delete" /\ phase = "workersClean" /\ rest = <<"clientsClean">>
            \/ req.op = "delete" /\ phase = "clientsClean" /\ rest = <<>>
            \/ req.op = "panic" /\ phase = "kill" /\ rest = <<>>
        BY <1>3, <1>5, PlanEnds DEF HInv, RestOK, HOps
      <3> HIDE DEF phase, rest
      <3>2. req'.phase = phase /\ req'.plan = rest
        BY <1>1 DEF phase, rest
      <3>3. QED BY <1>1, <3>1, <3>2 DEF RestOK
    <2>2. UNCHANGED <<clients, workers>>
      BY <2>1 DEF NextPhase
    <2>3. WorkersHalted'
      <3>1. SUFFICES ASSUME req.op \in {"stop", "delete"}, ~req.errs
                     PROVE  WorkersHalted'
        BY <1>1 DEF WorkersHalted
      <3>2. CASE phase = "workersDown"
        BY <1>1, <1>3, <2>2, <3>2 DEF Todo, WorkersHalted
      <3>3. CASE phase \in {"clientsDown", "check"}
        <4>1. req.phase \in {"workersDown", "clientsDown"}
          BY <1>3, <3>1, <3>3 DEF HInv, RestOK
        <4>2. QED BY <1>1, <1>3, <2>2, <3>1, <3>3, <4>1 DEF HInv, WorkersHalted, Halted, Running
      <3>4. CASE phase = "workersClean"
        <4>1. req.phase = "check"
          BY <1>3, <3>1, <3>4 DEF HInv, RestOK
        <4>2. QED BY <1>1, <1>3, <2>2, <3>1, <3>4, <4>1 DEF HInv, WorkersHalted, Halted, Todo, DownKeys
      <3>5. CASE phase = "clientsClean"
        <4>1. req.phase = "workersClean"
          BY <1>3, <3>1, <3>5 DEF HInv, RestOK
        <4>2. QED BY <1>1, <1>3, <2>2, <3>1, <3>5, <4>1 DEF HInv, WorkersHalted
      <3>6. CASE phase = "kill"
        BY <1>1, <3>6 DEF WorkersHalted
      <3>7. QED BY <2>1, <3>2, <3>3, <3>4, <3>5, <3>6
    <2>4. ClientsHalted'
      <3>1. SUFFICES ASSUME req.op \in {"stop", "delete"}, ~req.errs
                     PROVE  ClientsHalted'
        BY <1>1 DEF ClientsHalted
      <3>2. CASE phase = "clientsDown"
        BY <1>1, <1>3, <2>2, <3>2 DEF Todo, ClientsHalted
      <3>3. CASE phase \in {"check", "workersClean"}
        <4>1. req.phase \in {"clientsDown", "check"}
          BY <1>3, <3>1, <3>3 DEF HInv, RestOK
        <4>2. QED BY <1>1, <1>3, <2>2, <3>1, <3>3, <4>1 DEF HInv, ClientsHalted, Halted, Running
      <3>4. CASE phase = "clientsClean"
        <4>1. req.phase = "workersClean"
          BY <1>3, <3>1, <3>4 DEF HInv, RestOK
        <4>2. QED BY <1>1, <1>3, <2>2, <3>1, <3>4, <4>1 DEF HInv, ClientsHalted, Halted, Todo, DownKeys
      <3>5. CASE phase \in {"workersDown", "kill"}
        BY <1>1, <3>5 DEF ClientsHalted
      <3>6. QED BY <2>1, <3>2, <3>3, <3>4, <3>5
    <2>5. Killed'
      BY <1>1, <1>3 DEF Killed, Todo, Running
    <2>6. Promise'
      BY <1>1, <2>1 DEF Promise
    <2>7. QED BY <2>1, <2>3, <2>4, <2>5, <2>6 DEF HInv
  <1>6. QED BY <1>4, <1>5

LEMMA CutShortHalted ==
    ASSUME HInv, IInv, StopFailed \/ PanicListFails
    PROVE  HInv'
  <1>1. req'.op = req.op /\ req'.phase = req.phase /\ req'.plan = <<>> /\ req'.errs
    BY DEF StopFailed, PanicListFails, IInv, Typed
  <1>2. req.phase # "idle" /\ req.plan # <<>> /\ Head(req.plan) \in {"check", "kill"}
    BY DEF StopFailed, PanicListFails, PhaseDone
  <1>3. RestOK'
    BY <1>1, <1>2 DEF HInv, RestOK, StopFailed, PanicListFails
  <1>4. QED BY <1>1, <1>2, <1>3, WithErrors

(* The answer. *)
LEMMA ReplyHalted ==
    ASSUME HInv, IInv, Reply
    PROVE  HInv'
  <1>1. /\ req' = NoReq /\ last' = [op |-> req.op, errs |-> req.errs]
        /\ req.plan = <<>> /\ todo = {} /\ UNCHANGED <<clients, workers, docker>>
    BY DEF Reply, PhaseDone, memory
  <1>2. (RestOK /\ WorkersHalted /\ ClientsHalted /\ Killed)'
    BY <1>1 DEF NoReq, RestOK, WorkersHalted, ClientsHalted, Killed
  <1>3. ASSUME ~req.errs, req.op = "stop"
        PROVE  \A id \in Tracked : ~Running(id)
    BY <1>1, <1>3 DEF HInv, RestOK, WorkersHalted, ClientsHalted, Halted, Tracked, Named
  <1>4. ASSUME ~req.errs, req.op = "delete"
        PROVE  Tracked = {}
    BY <1>1, <1>4 DEF HInv, RestOK, WorkersHalted, ClientsHalted, Tracked, Named
  <1>5. ASSUME ~req.errs, req.op = "panic"
        PROVE  \A id \in DOMAIN docker : ~Running(id)
    BY <1>1, <1>5 DEF HInv, RestOK, Killed
  <1>6. Promise'
    BY <1>1, <1>3, <1>4, <1>5 DEF Promise, Tracked, Named, Running
  <1>7. QED BY <1>2, <1>6 DEF HInv

(* The other requests' steps.                                                  *)
LEMMA OthersGoOn ==
    ASSUME HInv, IInv,
           \/ Discover
           \/ Inspect \/ InspectUp \/ InspectFails \/ Remove \/ Create \/ Start
           \/ \E key \in todo :
                 \/ ClientUp(key) \/ WorkerUp(key) \/ WorkerUpNoClient(key) \/ Sweep(key)
                 \/ DeleteClient(key) \/ DeleteWorker(key)
    PROVE  HInv'
  <1>1. \/ req' = req
        \/ \E errs \in BOOLEAN : req' = [req EXCEPT !.errs = errs]
        \/ Discover
    BY DEF Inspect, InspectUp, InspectFails, Remove, Create, Start, UpCall, UpDone, UpRecorded,
           ClientUp, WorkerUp, WorkerUpNoClient, Sweep, DeleteClient, DeleteWorker, Failed, IInv, Typed
  <1>2. \/ Discover
        \/ req.phase \in {"clientsUp", "workersUp", "clientsSweep", "workersSweep",
                          "clientsDelete", "workersDelete"}
    BY DEF Inspect, InspectUp, InspectFails, Remove, Create, Start, UpCall, IInv, CallOK, Visit,
           ClientUp, WorkerUp, WorkerUpNoClient, Sweep, DeleteClient, DeleteWorker
  <1>3. CASE Discover
    <2>1. req.op \notin HOps
      BY <1>3 DEF Discover, HInv, RestOK, HOps
    <2>2. req'.op = req.op /\ req'.phase = "discover"
      BY <1>3 DEF Discover, IInv, Typed
    <2>3. QED BY <2>1, <2>2, OtherRequest
  <1>4. CASE ~Discover
    <2>1. req'.op = req.op /\ req'.phase = req.phase
      BY <1>1, <1>4 DEF IInv, Typed
    <2>2. req.op \notin HOps /\ req.phase # "idle"
      BY <1>2, <1>4 DEF HInv, RestOK, HOps
    <2>3. QED BY <2>1, <2>2, OtherRequest
  <1>5. QED BY <1>3, <1>4

-----------------------------------------------------------------------------
(* The loops.  An iteration that fails excuses the request; one that does not  *)
(* has stopped or removed its container, and started none.                     *)
LEMMA Stopping ==
    ASSUME DockerOK(docker), NEW id, NEW failed \in BOOLEAN, ~failed,
           Down(id, failed) \/ API(Running(id), Stopped(id), failed)
    PROVE  ~Running(id)' /\ \A other : Running(other)' => Running(other)
  <1>1. docker' = Stopped(id)
    BY DEF Down, API
  <1>2. QED BY <1>1 DEF Stopped, Running, InState, DockerOK, Container

LEMMA Removing ==
    ASSUME NEW id, NEW failed \in BOOLEAN, ~failed, Clean(id, failed)
    PROVE  \A other : Running(other)' => Running(other)
  BY DEF Clean, API, Removed, Del, Running

LEMMA Iterating ==
    ASSUME HInv, IInv, NEW failed \in BOOLEAN, Failed(failed), req.phase # "idle"
    PROVE  /\ req'.op = req.op /\ req'.phase = req.phase /\ req'.plan = req.plan
           /\ RestOK'
           /\ failed => HInv'
           /\ ~failed => req'.errs = req.errs
           /\ Promise'
  <1>1. /\ req'.op = req.op /\ req'.phase = req.phase /\ req'.plan = req.plan
        /\ req'.errs = (req.errs \/ failed)
    BY DEF Failed, IInv, Typed
  <1>2. RestOK'
    BY <1>1 DEF HInv, RestOK
  <1>3. Promise'
    BY <1>1 DEF Promise
  <1>4. QED BY <1>1, <1>2, <1>3, WithErrors DEF IInv, Typed

LEMMA StopClientHalted ==
    ASSUME HInv, IInv, NEW key \in todo, StopClient(key)
    PROVE  HInv'
  <1>1. PICK failed \in BOOLEAN : Down(clients[key].id, failed) /\ Failed(failed)
    BY DEF StopClient
  <1>2. /\ req.phase = "clientsDown" /\ key \in DOMAIN clients /\ todo' = todo \ {key}
        /\ clients' = [clients EXCEPT ![key].up = FALSE] /\ workers' = workers
    BY DEF StopClient, Visit, IInv, TodoOK
  <1>3. CASE failed
    BY <1>1, <1>2, <1>3, Iterating
  <1>4. CASE ~failed
    <2> PICK gone : gone = clients[key].id
      OBVIOUS
    <2>1. ~Running(gone)' /\ \A other : Running(other)' => Running(other)
      BY <1>1, <1>4, Stopping DEF IInv, Typed
    <2>2. /\ req'.op = req.op /\ req'.phase = req.phase /\ req'.errs = req.errs
          /\ RestOK' /\ Promise'
      BY <1>1, <1>2, <1>4, Iterating
    <2>3. WorkersHalted'
      BY <1>2, <2>1, <2>2 DEF HInv, WorkersHalted, Halted, Running
    <2>4. ClientsHalted'
      <3>1. /\ DOMAIN clients' = DOMAIN clients
            /\ \A k \in DOMAIN clients : clients'[k].id = clients[k].id
            /\ \A k \in DOMAIN clients \ {key} : clients'[k] = clients[k]
            /\ ~clients'[key].up
        BY <1>2 DEF IInv, Typed, ClientsOK
      <3>2. ASSUME NEW k \in DOMAIN clients', k \notin todo',
                   req.op \in {"stop", "delete"}, ~req.errs
            PROVE  Halted(clients, k)'
        <4>1. CASE k = key
          BY <2>1, <3>1, <4>1, <1>2 DEF Halted, Running
        <4>2. CASE k # key
          <5>1. Halted(clients, k)
            BY <1>2, <3>1, <3>2, <4>2 DEF HInv, ClientsHalted
          <5>2. QED BY <2>1, <3>1, <3>2, <4>2, <5>1 DEF Halted, Running
        <4>3. QED BY <4>1, <4>2
      <3>3. QED BY <1>2, <2>2, <3>2 DEF ClientsHalted
    <2>5. Killed'
      BY <1>2, <2>2 DEF Killed
    <2>6. QED BY <2>2, <2>3, <2>4, <2>5 DEF HInv
  <1>5. QED BY <1>3, <1>4

LEMMA StopWorkerHalted ==
    ASSUME HInv, IInv, NEW key \in todo, StopWorker(key)
    PROVE  HInv'
  <1>1. PICK failed \in BOOLEAN : Down(workers[key].id, failed) /\ Failed(failed)
    BY DEF StopWorker
  <1>2. /\ req.phase = "workersDown" /\ key \in DOMAIN workers /\ todo' = todo \ {key}
        /\ workers' = [workers EXCEPT ![key].up = FALSE]
    BY DEF StopWorker, Visit, IInv, TodoOK
  <1>3. CASE failed
    BY <1>1, <1>2, <1>3, Iterating
  <1>4. CASE ~failed
    <2> PICK gone : gone = workers[key].id
      OBVIOUS
    <2>1. ~Running(gone)' /\ \A other : Running(other)' => Running(other)
      BY <1>1, <1>4, Stopping DEF IInv, Typed
    <2>2. /\ req'.op = req.op /\ req'.phase = req.phase /\ req'.errs = req.errs
          /\ RestOK' /\ Promise'
      BY <1>1, <1>2, <1>4, Iterating
    <2>3. WorkersHalted'
      <3>1. /\ DOMAIN workers' = DOMAIN workers
            /\ \A k \in DOMAIN workers : workers'[k].id = workers[k].id
            /\ \A k \in DOMAIN workers \ {key} : workers'[k] = workers[k]
            /\ ~workers'[key].up
        BY <1>2 DEF IInv, Typed, WorkersOK, Record
      <3>2. ASSUME NEW k \in DOMAIN workers', k \notin todo',
                   req.op \in {"stop", "delete"}, ~req.errs
            PROVE  Halted(workers, k)'
        <4>1. CASE k = key
          BY <2>1, <3>1, <4>1, <1>2 DEF Halted, Running
        <4>2. CASE k # key
          <5>1. Halted(workers, k)
            BY <1>2, <3>1, <3>2, <4>2 DEF HInv, WorkersHalted
          <5>2. QED BY <2>1, <3>1, <3>2, <4>2, <5>1 DEF Halted, Running
        <4>3. QED BY <4>1, <4>2
      <3>3. QED BY <1>2, <2>2, <3>2 DEF WorkersHalted
    <2>4. ClientsHalted' /\ Killed'
      BY <1>2, <2>2 DEF ClientsHalted, Killed
    <2>5. QED BY <2>2, <2>3, <2>4 DEF HInv
  <1>5. QED BY <1>3, <1>4

LEMMA CleanHalted ==
    ASSUME HInv, IInv, NEW key \in todo, CleanClient(key) \/ CleanWorker(key)
    PROVE  HInv'
  <1>1. PICK failed \in BOOLEAN, id \in ID : Clean(id, failed) /\ Failed(failed)
    <2>1. CASE CleanClient(key)
      <3>1. clients[key].id \in ID
        BY <2>1, Names DEF CleanClient, Visit, IInv, Typed, TodoOK, ClientsOK
      <3>2. QED BY <2>1, <3>1 DEF CleanClient
    <2>2. CASE CleanWorker(key)
      <3>1. workers[key].id \in ID
        BY <2>2, Names DEF CleanWorker, Visit, IInv, Typed, TodoOK, WorkersOK
      <3>2. QED BY <2>2, <3>1 DEF CleanWorker
    <2>3. QED BY <2>1, <2>2
  <1>2. \/ /\ req.phase = "clientsClean" /\ todo' = todo \ {key}
           /\ clients' = Del(clients, key) /\ workers' = workers
        \/ /\ req.phase = "workersClean" /\ todo' = todo \ {key}
           /\ workers' = Del(workers, key) /\ clients' = clients
    BY DEF CleanClient, CleanWorker, Visit
  <1>3. CASE failed
    BY <1>1, <1>2, <1>3, Iterating
  <1>4. CASE ~failed
    <2>1. \A other : Running(other)' => Running(other)
      BY <1>1, <1>4, Removing
    <2>2. /\ req'.op = req.op /\ req'.phase = req.phase /\ req'.errs = req.errs
          /\ RestOK' /\ Promise'
      BY <1>1, <1>2, <1>4, Iterating
    <2>3. WorkersHalted'
      BY <1>2, <2>2 DEF HInv, WorkersHalted, Del
    <2>4. ClientsHalted'
      BY <1>2, <2>1, <2>2 DEF HInv, ClientsHalted, Halted, Running, Del
    <2>5. Killed'
      BY <1>2, <2>2 DEF Killed
    <2>6. QED BY <2>2, <2>3, <2>4, <2>5 DEF HInv
  <1>5. QED BY <1>3, <1>4

LEMMA KillHalted ==
    ASSUME HInv, IInv, NEW id \in todo, Kill(id)
    PROVE  HInv'
  <1>1. PICK failed \in BOOLEAN : API(Running(id), Stopped(id), failed) /\ Failed(failed)
    BY DEF Kill
  <1>2. req.phase = "kill" /\ todo' = todo \ {id}
    BY DEF Kill, Visit
  <1>3. CASE failed
    BY <1>1, <1>2, <1>3, Iterating
  <1>4. CASE ~failed
    <2>1. ~Running(id)' /\ \A other : Running(other)' => Running(other)
      BY <1>1, <1>4, Stopping DEF IInv, Typed
    <2>2. /\ req'.op = req.op /\ req'.phase = req.phase /\ req'.errs = req.errs
          /\ RestOK' /\ Promise'
      BY <1>1, <1>2, <1>4, Iterating
    <2>3. WorkersHalted' /\ ClientsHalted'
      BY <1>2, <2>2 DEF WorkersHalted, ClientsHalted
    <2>4. Killed'
      BY <1>2, <2>1, <2>2 DEF HInv, Killed, Running
    <2>5. QED BY <2>2, <2>3, <2>4 DEF HInv
  <1>5. QED BY <1>3, <1>4

-----------------------------------------------------------------------------
(* A container that exits runs less, and nothing else happens.                 *)
LEMMA ExitHalted ==
    ASSUME HInv, IInv, (\E id \in DOMAIN docker : Exit(id)) \/ UNCHANGED vars
    PROVE  HInv'
  <1>1. UNCHANGED <<alive, clients, workers, req, todo, last>>
    BY DEF Exit, vars, memory, control, ghosts
  <1>2. \A other : Running(other)' => Running(other)
    BY DEF Exit, Stopped, InState, Running, vars, IInv, Typed, DockerOK, Container
  <1>3. RestOK' /\ WorkersHalted' /\ ClientsHalted'
    BY <1>1, <1>2 DEF HInv, RestOK, WorkersHalted, ClientsHalted, Halted, Running
  <1>4. Killed'
    BY <1>1, <1>2 DEF HInv, Killed, Running
  <1>5. Promise'
    BY <1>1, <1>2 DEF HInv, Promise, Running, Tracked, Named
  <1>6. QED BY <1>3, <1>4, <1>5 DEF HInv

LEMMA HaltedInv == HInv /\ IInv /\ [Next]_vars => HInv'
  <1> SUFFICES ASSUME HInv, IInv, [Next]_vars PROVE HInv'
    OBVIOUS
  <1>1. CASE Ask
    BY <1>1, AskHalted
  <1>2. CASE NextPhase \/ StopFailed \/ PanicListFails \/ Reply
    BY <1>2, NextPhaseHalted, CutShortHalted, ReplyHalted
  <1>3. CASE FatalStart \/ DiscoverFails \/ Crash
    BY <1>3, ProcessGone DEF FatalStart, DiscoverFails, Crash
  <1>4. CASE Discover \/ Inspect \/ InspectUp \/ InspectFails \/ Remove \/ Create \/ Start
    BY <1>4, OthersGoOn
  <1>5. ASSUME NEW key \in todo,
               ClientUp(key) \/ WorkerUp(key) \/ WorkerUpNoClient(key) \/ Sweep(key)
               \/ DeleteClient(key) \/ DeleteWorker(key)
        PROVE  HInv'
    BY <1>5, OthersGoOn
  <1>6. ASSUME NEW key \in todo,
               StopClient(key) \/ StopWorker(key) \/ CleanClient(key) \/ CleanWorker(key) \/ Kill(key)
        PROVE  HInv'
    BY <1>6, StopClientHalted, StopWorkerHalted, CleanHalted, KillHalted
  <1>7. CASE (\E id \in DOMAIN docker : Exit(id)) \/ UNCHANGED vars
    BY <1>7, ExitHalted
  <1>8. QED BY <1>1, <1>2, <1>3, <1>4, <1>5, <1>6, <1>7 DEF Next, Serve

LEMMA HaltedAlways == Spec => [](HInv /\ IInv)
  <1>1. Init => HInv
    BY DEF Init, NoReq, HInv, RestOK, WorkersHalted, ClientsHalted, Killed, Promise
  <1>2. QED BY <1>1, InitInv, NextInv, HaltedInv, PTL DEF Spec

(* POST /stop answered without errors leaves nothing running that the manager  *)
(* has a record of, even if two records share a container.                     *)
THEOREM StoppedAll == Spec => []StopStops
  <1>1. HInv => StopStops
    BY DEF HInv, Promise, StopStops, AnsweredOk
  <1>2. QED BY <1>1, HaltedAlways, PTL

(* As long as a DELETE / meets no error it gives up no container, so that what *)
(* is excused at its answer was excused when it began.                         *)
ForgivenOK ==
    /\ req.phase # "idle" => last.op = "none"
    /\ req.op = "delete" /\ ~req.errs => excused \subseteq forgiven
    /\ last.op = "delete" /\ ~last.errs => excused \subseteq forgiven

LEMMA LoopsExcuse ==
    ASSUME HInv, IInv,
           \/ NextPhase \/ StopFailed \/ Discover \/ PanicListFails
           \/ Inspect \/ InspectUp \/ InspectFails \/ Remove \/ Create \/ Start
           \/ \E key \in todo :
                 \/ ClientUp(key) \/ WorkerUp(key) \/ WorkerUpNoClient(key) \/ Sweep(key)
                 \/ StopClient(key) \/ StopWorker(key) \/ CleanClient(key) \/ CleanWorker(key)
                 \/ DeleteClient(key) \/ DeleteWorker(key) \/ Kill(key)
    PROVE  /\ UNCHANGED <<last, forgiven>> /\ req.phase # "idle"
           /\ req'.op = req.op /\ (req.errs => req'.errs)
           /\ UNCHANGED excused \/ req.op # "delete" \/ req'.errs
  <1>1. CASE NextPhase \/ StopFailed \/ PanicListFails
    BY <1>1 DEF NextPhase, StopFailed, PanicListFails, PhaseDone, ghosts, IInv, Typed
  <1>2. CASE Discover
    BY <1>2 DEF Discover, PhaseDone, HInv, RestOK, IInv, Typed
  <1>3. CASE \/ Inspect \/ InspectUp \/ InspectFails \/ Remove \/ Create \/ Start
             \/ \E key \in todo : ClientUp(key) \/ WorkerUp(key) \/ WorkerUpNoClient(key)
    <2>1. req.phase \in {"clientsUp", "workersUp"}
      BY <1>3, Calling DEF Inspect, InspectUp, InspectFails, Remove, Create, Start, UpCall,
              ClientUp, WorkerUp, WorkerUpNoClient, Visit
    <2>2. req.op # "delete"
      BY <2>1 DEF HInv, RestOK
    <2>3. /\ UNCHANGED <<last, forgiven>>
          /\ req' = req \/ \E id, failed : req' = [req EXCEPT !.errs = @ \/ failed \/ id]
      BY <1>3 DEF Inspect, InspectUp, InspectFails, Remove, Create, Start, UpCall, UpDone, UpRecorded,
              ClientUp, WorkerUp, WorkerUpNoClient, ghosts
    <2>4. QED BY <2>1, <2>2, <2>3 DEF IInv, Typed
  <1>4. ASSUME NEW key \in todo,
               \/ Sweep(key) \/ StopClient(key) \/ StopWorker(key)
               \/ DeleteClient(key) \/ DeleteWorker(key) \/ Kill(key)
        PROVE  /\ UNCHANGED <<last, forgiven, excused>> /\ req.phase # "idle"
               /\ req'.op = req.op /\ (req.errs => req'.errs)
    BY <1>4 DEF Sweep, StopClient, StopWorker, DeleteClient, DeleteWorker, Kill, Visit, Failed, IInv, Typed
  <1>5. ASSUME NEW key \in todo, CleanClient(key) \/ CleanWorker(key)
        PROVE  /\ UNCHANGED <<last, forgiven>> /\ req.phase # "idle"
               /\ req'.op = req.op /\ (req.errs => req'.errs)
               /\ UNCHANGED excused \/ req'.errs
    BY <1>5 DEF CleanClient, CleanWorker, Visit, Failed, Blame, IInv, Typed
  <1>6. QED BY <1>1, <1>2, <1>3, <1>4, <1>5

LEMMA ForgivenInv == ForgivenOK /\ HInv /\ IInv /\ [Next]_vars => ForgivenOK'
  <1> SUFFICES ASSUME ForgivenOK, HInv, IInv, [Next]_vars PROVE ForgivenOK'
    OBVIOUS
  <1>1. CASE Ask
    <2>1. /\ last'.op = "none" /\ UNCHANGED excused
          /\ req'.op = "delete" => forgiven' = excused
      BY <1>1 DEF Ask, Post, Boot, Request, Begin
    <2>2. QED BY <2>1 DEF ForgivenOK
  <1>2. CASE FatalStart \/ DiscoverFails \/ Crash
    BY <1>2 DEF FatalStart, DiscoverFails, Crash, Crashed, NoReq, ForgivenOK
  <1>3. CASE Reply
    BY <1>3 DEF Reply, NoReq, ForgivenOK
  <1>4. CASE \/ NextPhase \/ StopFailed \/ Discover \/ PanicListFails
             \/ Inspect \/ InspectUp \/ InspectFails \/ Remove \/ Create \/ Start
             \/ \E key \in todo :
                   \/ ClientUp(key) \/ WorkerUp(key) \/ WorkerUpNoClient(key) \/ Sweep(key)
                   \/ StopClient(key) \/ StopWorker(key) \/ CleanClient(key) \/ CleanWorker(key)
                   \/ DeleteClient(key) \/ DeleteWorker(key) \/ Kill(key)
    BY <1>4, LoopsExcuse DEF ForgivenOK
  <1>5. CASE (\E id \in DOMAIN docker : Exit(id)) \/ UNCHANGED vars
    BY <1>5 DEF Exit, control, ghosts, vars, ForgivenOK
  <1>6. QED BY <1>1, <1>2, <1>3, <1>4, <1>5 DEF Next, Serve

(* DELETE / answered without errors leaves no record, and no container but the *)
(* ones that were given up with an error, or overlooked, before it began: if   *)
(* one of its own steps fails, the answer says so.                             *)
THEOREM DeletedAll == Spec => []DeleteRemoves
  <1>1. Init => ForgivenOK
    BY DEF Init, NoReq, ForgivenOK
  <1>2. ForgivenOK /\ HInv /\ IInv => DeleteRemoves
    <2> SUFFICES ASSUME ForgivenOK, HInv, IInv, AnsweredOk({"delete"})
                 PROVE  Tracked = {} /\ DOMAIN docker \subseteq forgiven
      BY DEF DeleteRemoves
    <2>1. Tracked = {}
      BY DEF HInv, Promise, AnsweredOk
    <2>2. call.at = "idle"
      BY DEF IInv, CallOK, AnsweredOk
    <2>3. DOMAIN docker \subseteq excused
      BY <2>1, <2>2 DEF IInv, NoSilentOrphan, AnsweredOk
    <2>4. QED BY <2>1, <2>3 DEF ForgivenOK, AnsweredOk
  <1>3. QED BY <1>1, <1>2, HaltedAlways, ForgivenInv, PTL DEF Spec

(* POST /panic answered without errors leaves no container running at all.     *)
THEOREM KilledAll == Spec => []PanicKills
  <1>1. HInv => PanicKills
    BY DEF HInv, Promise, PanicKills, AnsweredOk
  <1>2. QED BY <1>1, HaltedAlways, PTL

-----------------------------------------------------------------------------
(* POST /, and main with --start: what the config asks for runs as it asks,    *)
(* what it does not ask for is swept, and a worker that runs as it should is   *)
(* left alone.                                                                 *)

(* The phases of a Start, with what is then left of its plan.                  *)
StartRest ==
    req.op \in StartOps =>
        \/ req.op = "start" /\ req.phase = "accept" /\ req.plan = StartPlan
        \/ req.op = "bootStart" /\ req.phase = "accept" /\ req.plan = BootPlan(TRUE)
        \/ req.phase = "discover" /\ req.plan = StartPlan
        \/ req.phase = "clientsUp" /\ req.plan = <<"clientsSweep", "workersUp", "workersSweep">>
        \/ req.phase = "clientsSweep" /\ req.plan = <<"workersUp", "workersSweep">>
        \/ req.phase = "workersUp" /\ req.plan = <<"workersSweep">>
        \/ req.phase = "workersSweep" /\ req.plan = <<>>

Starting(phase) == req.op \in StartOps /\ ~req.errs /\ req.phase = phase

(* Up records only what the config asks for, and the sweep stops the others.   *)
UpWanted(map, units) == \A k \in DOMAIN map : map[k].up => map[k].id \in Wanted(units)
Bringing(map, units) ==
    /\ UpWanted(map, units) /\ todo \subseteq Wanted(units)
    /\ call.at # "idle" => call.id \in Wanted(units)
Sweeping(map, units) ==
    /\ UpWanted(map, units)
    /\ \A k \in DOMAIN map : map[k].up \/ k \in todo \/ ~Running(map[k].id)
Swept(map, units) == \A k \in DOMAIN map : Running(map[k].id) => map[k].id \in Wanted(units)

StartPromise ==
    AnsweredOk(StartOps) => Swept(clients, Clients) /\ Swept(workers, Workers)

SInv ==
    /\ StartRest
    /\ Starting("clientsUp") => Bringing(clients, Clients)
    /\ Starting("clientsSweep") => Sweeping(clients, Clients)
    /\ Starting("workersUp") => Swept(clients, Clients) /\ Bringing(workers, Workers)
    /\ Starting("workersSweep") => Swept(clients, Clients) /\ Sweeping(workers, Workers)
    /\ StartPromise

-----------------------------------------------------------------------------
LEMMA OtherThanStart ==
    ASSUME req'.op \notin StartOps, req'.phase # "idle"
    PROVE  SInv'
  BY DEF SInv, StartRest, Starting, StartPromise, AnsweredOk

LEMMA NoStart ==
    ASSUME Crashed
    PROVE  SInv'
  BY DEF Crashed, NoReq, SInv, StartRest, Starting, StartPromise, AnsweredOk, StartOps

LEMMA StartWithErrors ==
    ASSUME StartRest', req'.errs, req'.phase # "idle"
    PROVE  SInv'
  BY DEF SInv, Starting, StartPromise, AnsweredOk

LEMMA BeginStart ==
    ASSUME NEW op, NEW plan, NEW unit, NEW inst, Begin(op, plan, unit, inst),
           op = "start" => plan = StartPlan,
           op = "bootStart" => plan = BootPlan(TRUE)
    PROVE  SInv'
  <1>1. req'.op = op /\ req'.phase = "accept" /\ req'.plan = plan
    BY DEF Begin
  <1>2. StartRest'
    BY <1>1 DEF StartRest, StartOps
  <1>3. QED BY <1>1, <1>2 DEF SInv, Starting, StartPromise, AnsweredOk

LEMMA AskStart == Ask => SInv'
  <1> SUFFICES ASSUME Ask PROVE SInv'
    OBVIOUS
  <1>1. ASSUME NEW cfg \in Configs, Post(cfg) PROVE SInv'
    BY <1>1, BeginStart DEF Post
  <1>2. ASSUME NEW cfg \in Configs, NEW start \in BOOLEAN, Boot(cfg, start) PROVE SInv'
    <2>1. CASE start
      <3>1. Begin("bootStart", BootPlan(TRUE), Nil, 0)
        BY <1>2, <2>1 DEF Boot, BootPlan
      <3>2. QED BY <3>1, BeginStart
    <2>2. CASE ~start
      <3>1. Begin("boot", BootPlan(start), Nil, 0)
        BY <1>2, <2>2 DEF Boot
      <3>2. QED BY <3>1, BeginStart
    <2>3. QED BY <2>1, <2>2
  <1>3. ASSUME NEW op \in Op, NEW unit \in Units \cup {Nil}, NEW inst \in 0 .. MaxCount,
               Request(op, unit, inst)
        PROVE  SInv'
    BY <1>3, BeginStart DEF Request
  <1>4. QED BY <1>1, <1>2, <1>3 DEF Ask

LEMMA StartEnds ==
    /\ Head(BootPlan(TRUE)) = "discover" /\ Tail(BootPlan(TRUE)) = StartPlan
    /\ BootPlan(TRUE) # <<>> /\ StartPlan # <<>>
    /\ Head(StartPlan) = "clientsUp"
    /\ Tail(StartPlan) = <<"clientsSweep", "workersUp", "workersSweep">>
    /\ Head(<<"clientsSweep", "workersUp", "workersSweep">>) = "clientsSweep"
    /\ Tail(<<"clientsSweep", "workersUp", "workersSweep">>) = <<"workersUp", "workersSweep">>
    /\ Head(<<"workersUp", "workersSweep">>) = "workersUp"
    /\ Tail(<<"workersUp", "workersSweep">>) = <<"workersSweep">>
    /\ Head(<<"workersSweep">>) = "workersSweep" /\ Tail(<<"workersSweep">>) = <<>>
    /\ <<"clientsSweep", "workersUp", "workersSweep">> # <<>>
    /\ <<"workersUp", "workersSweep">> # <<>> /\ <<"workersSweep">> # <<>>
  BY DEF StartPlan, BootPlan

(* The next phase: marking leaves no record up, and a sweep begins with those  *)
(* that are down.                                                              *)
LEMMA NextPhaseStart ==
    ASSUME SInv, IInv, NextPhase
    PROVE  SInv'
  <1> DEFINE phase == Head(req.plan)
  <1>1. /\ req'.op = req.op /\ req'.phase = phase /\ req'.plan = Tail(req.plan)
        /\ req'.errs = req.errs
    BY DEF NextPhase, IInv, Typed
  <1>2. phase \in Loops
    BY DEF IInv, PlanOK, NextPhase
  <1>3. /\ todo = {} /\ todo' = Todo(phase) /\ req.plan # <<>> /\ phase # "discover"
        /\ call'.at = "idle" /\ UNCHANGED <<docker, config>>
    BY DEF NextPhase, PhaseDone
  <1>4. CASE req.op \notin StartOps
    BY <1>1, <1>2, <1>4, OtherThanStart DEF Loops
  <1>5. CASE req.op \in StartOps
    <2> DEFINE rest == Tail(req.plan)
    <2>1. \/ phase = "clientsUp" /\ rest = <<"clientsSweep", "workersUp", "workersSweep">>
          \/ req.phase = "clientsUp" /\ phase = "clientsSweep" /\ rest = <<"workersUp", "workersSweep">>
          \/ req.phase = "clientsSweep" /\ phase = "workersUp" /\ rest = <<"workersSweep">>
          \/ req.phase = "workersUp" /\ phase = "workersSweep" /\ rest = <<>>
      BY <1>3, <1>5, StartEnds DEF SInv, StartRest
    <2> HIDE DEF phase, rest
    <2>2. req'.phase = phase /\ req'.plan = rest
      BY <1>1 DEF phase, rest
    <2>3. StartRest' /\ StartPromise'
      BY <1>1, <2>1, <2>2 DEF StartRest, StartPromise, AnsweredOk
    <2>4. CASE req.errs
      BY <1>1, <2>1, <2>2, <2>3, <2>4, StartWithErrors
    <2>5. CASE ~req.errs
      <3>1. \A units : Wanted(units)' = Wanted(units)
        BY <1>3 DEF Wanted
      <3>2. CASE phase = "clientsUp"
        <4>1. clients' = AllDown(clients) /\ todo' = Wanted(Clients)
          BY <1>3, <3>2 DEF NextPhase, phase, Todo
        <4>2. \A k \in DOMAIN clients' : ~clients'[k].up
          BY <4>1 DEF AllDown, IInv, Typed, ClientsOK
        <4>3. Bringing(clients, Clients)'
          BY <1>3, <3>1, <4>1, <4>2 DEF Bringing, UpWanted
        <4>4. QED BY <2>2, <2>3, <3>2, <4>3 DEF SInv, Starting
      <3>3. CASE phase = "clientsSweep"
        <4>1. clients' = clients /\ todo' = DownKeys(clients) /\ UpWanted(clients, Clients)
          BY <1>3, <1>5, <2>1, <2>5, <3>3 DEF NextPhase, phase, Todo, SInv, Starting, Bringing
        <4>2. Sweeping(clients, Clients)'
          BY <3>1, <4>1 DEF Sweeping, UpWanted, DownKeys
        <4>3. QED BY <2>2, <2>3, <3>3, <4>2 DEF SInv, Starting
      <3>4. CASE phase = "workersUp"
        <4>1. /\ workers' = AllDown(workers) /\ todo' = Wanted(Workers) /\ clients' = clients
              /\ Sweeping(clients, Clients)
          BY <1>3, <1>5, <2>1, <2>5, <3>4 DEF NextPhase, phase, Todo, SInv, Starting
        <4>2. \A k \in DOMAIN workers' : ~workers'[k].up
          BY <4>1 DEF AllDown, IInv, Typed, WorkersOK, Record
        <4>3. Bringing(workers, Workers)'
          BY <1>3, <3>1, <4>1, <4>2 DEF Bringing, UpWanted
        <4>4. Swept(clients, Clients)'
          BY <1>3, <3>1, <4>1 DEF Swept, Sweeping, UpWanted, Running
        <4>5. QED BY <2>2, <2>3, <3>4, <4>3, <4>4 DEF SInv, Starting
      <3>5. CASE phase = "workersSweep"
        <4>1. /\ UNCHANGED <<clients, workers>> /\ todo' = DownKeys(workers)
              /\ UpWanted(workers, Workers) /\ Swept(clients, Clients)
          BY <1>3, <1>5, <2>1, <2>5, <3>5 DEF NextPhase, phase, Todo, SInv, Starting, Bringing
        <4>2. Sweeping(workers, Workers)'
          BY <3>1, <4>1 DEF Sweeping, UpWanted, DownKeys
        <4>3. Swept(clients, Clients)'
          BY <1>3, <3>1, <4>1 DEF Swept, Running
        <4>4. QED BY <2>2, <2>3, <3>5, <4>2, <4>3 DEF SInv, Starting
      <3>6. QED BY <2>1, <3>2, <3>3, <3>4, <3>5
    <2>6. QED BY <2>4, <2>5
  <1>6. QED BY <1>4, <1>5

(* Discover comes before the first loop; no Start's plan is cut short.         *)
LEMMA DiscoverStart ==
    ASSUME SInv, IInv, Discover \/ StopFailed \/ PanicListFails
    PROVE  SInv'
  <1>1. req.plan # <<>> /\ req.phase # "idle" /\ Head(req.plan) \in {"discover", "check", "kill"}
    BY DEF Discover, StopFailed, PanicListFails, PhaseDone
  <1>2. req'.op = req.op /\ req'.phase \in {req.phase, "discover"}
    BY DEF Discover, StopFailed, PanicListFails, IInv, Typed
  <1>3. CASE req.op \notin StartOps
    BY <1>1, <1>2, <1>3, OtherThanStart
  <1>4. CASE req.op \in StartOps
    <2>1. Head(req.plan) = "discover" /\ Tail(req.plan) = StartPlan
      BY <1>1, <1>4, StartEnds DEF SInv, StartRest
    <2>2. req'.phase = "discover" /\ req'.plan = StartPlan
      BY <2>1 DEF Discover, StopFailed, PanicListFails, IInv, Typed
    <2>3. QED BY <2>2 DEF SInv, StartRest, Starting, StartPromise, AnsweredOk
  <1>5. QED BY <1>3, <1>4

LEMMA ReplyStart ==
    ASSUME SInv, IInv, Reply
    PROVE  SInv'
  <1>1. /\ req' = NoReq /\ last' = [op |-> req.op, errs |-> req.errs]
        /\ req.plan = <<>> /\ todo = {} /\ UNCHANGED <<clients, workers, docker, config>>
    BY DEF Reply, PhaseDone, memory
  <1>2. \A units : Wanted(units)' = Wanted(units)
    BY <1>1 DEF Wanted
  <1>3. ASSUME ~req.errs, req.op \in StartOps
        PROVE  Swept(clients, Clients) /\ Swept(workers, Workers)
    <2>1. Starting("workersSweep")
      BY <1>1, <1>3, StartEnds DEF SInv, StartRest, Starting
    <2>2. QED BY <1>1, <2>1 DEF SInv, Sweeping, UpWanted, Swept
  <1>4. StartPromise'
    BY <1>1, <1>2, <1>3 DEF StartPromise, AnsweredOk, Swept, Running
  <1>5. QED BY <1>1, <1>4 DEF SInv, StartRest, Starting, NoReq, StartOps

-----------------------------------------------------------------------------
(* Up touches the container it works on, and records it if it comes up.        *)
LEMMA UpTouches ==
    ASSUME IInv, Inspect \/ InspectUp \/ InspectFails \/ Remove \/ Create \/ Start
    PROVE  \A other : other # call.id => (Running(other)' => Running(other))
  <1>1. CASE docker' = docker
    BY <1>1 DEF Running
  <1>2. CASE docker' = Removed(call.id)
    BY <1>2 DEF Removed, Del, Running
  <1>3. CASE docker' = Created(call.id, WantOf(call.id))
    BY <1>3 DEF Created, Put, Running
  <1>4. CASE docker' = Started(call.id)
    BY <1>4 DEF Started, InState, Running
  <1>5. \/ docker' \in {docker, Removed(call.id), Created(call.id, WantOf(call.id))}
        \/ docker' = Started(call.id)
    BY DEF Inspect, InspectUp, InspectFails, Remove, Create, Start, UpCall, API, Refused, Fault
  <1>6. QED BY <1>1, <1>2, <1>3, <1>4, <1>5

LEMMA UpRecords ==
    ASSUME IInv, NEW id \in ID, NEW failed \in BOOLEAN, UpDone(id, failed)
    PROVE  /\ req'.op = req.op /\ req'.phase = req.phase /\ req'.plan = req.plan
           /\ ~req'.errs => ~req.errs
           /\ call'.at = "idle" /\ config' = config
           /\ \/ clients' = clients
              \/ id[1] \in Clients /\ clients' = Put(clients, id, [up |-> TRUE, id |-> id])
           /\ \/ workers' = workers
              \/ id[1] \notin Clients /\ workers' = Put(workers, id, [up |-> TRUE, id |-> id])
  BY DEF UpDone, UpRecorded, NoCall, IInv, Typed

LEMMA PutWanted ==
    ASSUME NEW map, NEW units, UpWanted(map, units), NEW id \in Wanted(units)
    PROVE  UpWanted(Put(map, id, [up |-> TRUE, id |-> id]), units)
  BY DEF UpWanted, Put

(* Within a loop of Up: the container that is worked on is a wanted one.       *)
LEMMA UpLoop ==
    ASSUME SInv, IInv, req.phase \in {"clientsUp", "workersUp"},
           req'.op = req.op, req'.phase = req.phase, req'.plan = req.plan,
           ~req'.errs => ~req.errs,
           config' = config, todo' \subseteq todo,
           NEW id \in ID,
           \/ req.phase = "clientsUp" /\ id \in ClientID
           \/ req.phase = "workersUp" /\ id \in WorkerID,
           id \in todo \/ (call.at # "idle" /\ call.id = id),
           call'.at = "idle" \/ call'.id = id,
           \A other : other # id => (Running(other)' => Running(other)),
           \/ clients' = clients
           \/ id[1] \in Clients /\ clients' = Put(clients, id, [up |-> TRUE, id |-> id]),
           \/ workers' = workers
           \/ id[1] \notin Clients /\ workers' = Put(workers, id, [up |-> TRUE, id |-> id])
    PROVE  SInv'
  <1>1. \A units : Wanted(units)' = Wanted(units)
    BY DEF Wanted
  <1>2. StartRest'
    BY DEF SInv, StartRest, StartPlan, BootPlan
  <1>3. StartPromise'
    BY DEF StartPromise, AnsweredOk
  <1>4. CASE ~(req.op \in StartOps /\ ~req'.errs)
    BY <1>2, <1>3, <1>4 DEF SInv, Starting
  <1>5. CASE req.op \in StartOps /\ ~req'.errs /\ req.phase = "clientsUp"
    <2>1. Bringing(clients, Clients) /\ id \in Wanted(Clients)
      BY <1>5 DEF SInv, Starting, Bringing
    <2>2. UpWanted(clients', Clients)
      BY <2>1, PutWanted DEF Bringing
    <2>3. UpWanted(clients, Clients)'
      BY <1>1, <2>2 DEF UpWanted
    <2>4. Bringing(clients, Clients)'
      BY <1>1, <2>1, <2>3 DEF Bringing
    <2>5. QED BY <1>2, <1>3, <1>5, <2>4 DEF SInv, Starting
  <1>6. CASE req.op \in StartOps /\ ~req'.errs /\ req.phase = "workersUp"
    <2>1. Bringing(workers, Workers) /\ id \in Wanted(Workers) /\ Swept(clients, Clients)
      BY <1>6 DEF SInv, Starting, Bringing
    <2>2. UpWanted(workers', Workers)
      BY <2>1, PutWanted DEF Bringing
    <2>3. UpWanted(workers, Workers)'
      BY <1>1, <2>2 DEF UpWanted
    <2>4. Bringing(workers, Workers)'
      BY <1>1, <2>1, <2>3 DEF Bringing
    <2>5. id[1] \notin Clients
      BY <1>6, Names
    <2>6. clients' = clients /\ \A k \in DOMAIN clients : clients[k].id # id
      BY <2>5, Names DEF IInv, Typed, ClientsOK
    <2>7. Swept(clients, Clients)'
      <3> SUFFICES ASSUME NEW k \in DOMAIN clients, Running(clients[k].id)'
                   PROVE  clients[k].id \in Wanted(Clients)
        BY <1>1, <2>6 DEF Swept
      <3> PICK other : other = clients[k].id
        OBVIOUS
      <3>1. Running(other)'
        BY <2>6 DEF Running
      <3>2. Running(other)
        BY <2>6, <3>1
      <3>3. QED BY <2>1, <3>2 DEF Swept
    <2>8. QED BY <1>2, <1>3, <1>6, <2>4, <2>7 DEF SInv, Starting
  <1>7. QED BY <1>4, <1>5, <1>6

LEMMA UpStart ==
    ASSUME SInv, IInv, Inspect \/ InspectUp \/ InspectFails \/ Remove \/ Create \/ Start
    PROVE  SInv'
  <1>1. call.at # "idle" /\ todo' = todo
    BY DEF Inspect, InspectUp, InspectFails, Remove, Create, Start, UpCall
  <1> PICK id : id = call.id
    OBVIOUS
  <1>2. /\ id \in ID
        /\ \/ req.phase = "clientsUp" /\ id \in ClientID
           \/ req.phase = "workersUp" /\ id \in WorkerID
    BY <1>1, Calling
  <1>3. \A other : other # id => (Running(other)' => Running(other))
    BY UpTouches
  <1>4. CASE \E failed \in BOOLEAN : UpDone(id, failed)
    BY <1>1, <1>2, <1>3, <1>4, UpRecords, UpLoop
  <1>5. CASE ~\E failed \in BOOLEAN : UpDone(id, failed)
    <2>1. UNCHANGED <<memory, req>> /\ call'.id = id
      BY <1>5 DEF Inspect, InspectUp, InspectFails, Remove, Create, Start, UpCall, IInv, Typed
    <2>2. QED BY <1>1, <1>2, <1>3, <2>1, UpLoop DEF memory
  <1>6. QED BY <1>4, <1>5

LEMMA EnterUpStart ==
    ASSUME SInv, IInv, NEW id \in todo, ClientUp(id) \/ WorkerUp(id) \/ WorkerUpNoClient(id)
    PROVE  SInv'
  <1>1. /\ id \in ID /\ todo' \subseteq todo /\ docker' = docker
        /\ \/ req.phase = "clientsUp" /\ id \in ClientID
           \/ req.phase = "workersUp" /\ id \in WorkerID
    BY Names DEF ClientUp, WorkerUp, WorkerUpNoClient, Visit, IInv, TodoOK
  <1>2. \A other : other # id => (Running(other)' => Running(other))
    BY <1>1 DEF Running
  <1>3. CASE ClientUp(id) \/ WorkerUp(id)
    <2>1. UNCHANGED <<memory, req>> /\ call'.id = id
      BY <1>3 DEF ClientUp, WorkerUp
    <2>2. QED BY <1>1, <1>2, <2>1, UpLoop DEF memory
  <1>4. CASE WorkerUpNoClient(id)
    <2>1. UpDone(id, TRUE)
      BY <1>4 DEF WorkerUpNoClient
    <2>2. QED BY <1>1, <1>2, <2>1, UpRecords, UpLoop
  <1>5. QED BY <1>3, <1>4

(* An iteration of a sweep stops its container, or ends in an error.           *)
LEMMA SweepStart ==
    ASSUME SInv, IInv, NEW key \in todo, Sweep(key)
    PROVE  SInv'
  <1> PICK gone : gone = IF req.phase = "clientsSweep" THEN clients[key].id ELSE workers[key].id
    OBVIOUS
  <1>1. PICK failed \in BOOLEAN : Down(gone, failed) /\ Failed(failed)
    BY DEF Sweep
  <1>2. /\ req.phase \in {"clientsSweep", "workersSweep"} /\ todo' = todo \ {key}
        /\ UNCHANGED <<clients, workers, config, call>>
    BY DEF Sweep, Visit, memory
  <1>3. /\ req'.op = req.op /\ req'.phase = req.phase /\ req'.plan = req.plan
        /\ req'.errs = (req.errs \/ failed)
    BY <1>1 DEF Failed, IInv, Typed
  <1>4. StartRest' /\ StartPromise'
    BY <1>2, <1>3 DEF SInv, StartRest, StartPlan, BootPlan, StartPromise, AnsweredOk
  <1>5. CASE req.errs \/ failed
    BY <1>2, <1>3, <1>4, <1>5, StartWithErrors
  <1>6. CASE ~req.errs /\ ~failed
    <2>1. ~Running(gone)' /\ \A other : Running(other)' => Running(other)
      BY <1>1, <1>6, Stopping DEF IInv, Typed
    <2>2. \A units : Wanted(units)' = Wanted(units)
      BY <1>2 DEF Wanted
    <2>3. CASE Starting("clientsSweep")
      <3>1. Sweeping(clients, Clients)'
        BY <1>2, <2>1, <2>2, <2>3 DEF SInv, Starting, Sweeping, UpWanted, Running
      <3>2. QED BY <1>2, <1>3, <1>4, <2>3, <3>1 DEF SInv, Starting
    <2>4. CASE Starting("workersSweep")
      <3>1. Sweeping(workers, Workers)'
        BY <1>2, <2>1, <2>2, <2>4 DEF SInv, Starting, Sweeping, UpWanted, Running
      <3>2. Swept(clients, Clients)'
        BY <1>2, <2>1, <2>2, <2>4 DEF SInv, Starting, Swept, Running
      <3>3. QED BY <1>2, <1>3, <1>4, <2>4, <3>1, <3>2 DEF SInv, Starting
    <2>5. CASE req.op \notin StartOps
      BY <1>2, <1>3, <2>5, OtherThanStart
    <2>6. QED BY <1>2, <1>6, <2>3, <2>4, <2>5 DEF Starting
  <1>7. QED BY <1>5, <1>6 DEF IInv, Typed

(* The loops of other requests.                                                *)
LEMMA OtherLoopsStart ==
    ASSUME SInv, IInv, NEW key \in todo,
           \/ StopClient(key) \/ StopWorker(key) \/ CleanClient(key) \/ CleanWorker(key)
           \/ DeleteClient(key) \/ DeleteWorker(key) \/ Kill(key)
    PROVE  SInv'
  <1>1. req.phase \in {"clientsDown", "workersDown", "clientsClean", "workersClean",
                       "clientsDelete", "workersDelete", "kill"}
    BY DEF StopClient, StopWorker, CleanClient, CleanWorker, DeleteClient, DeleteWorker, Kill, Visit
  <1>2. req.op \notin StartOps
    BY <1>1 DEF SInv, StartRest
  <1>3. req'.op = req.op /\ req'.phase = req.phase
    BY DEF StopClient, StopWorker, CleanClient, CleanWorker, DeleteClient, DeleteWorker, Kill,
           Failed, IInv, Typed
  <1>4. QED BY <1>1, <1>2, <1>3, OtherThanStart

LEMMA ExitStart ==
    ASSUME SInv, IInv, (\E id \in DOMAIN docker : Exit(id)) \/ UNCHANGED vars
    PROVE  SInv'
  <1>1. UNCHANGED <<alive, config, clients, workers, req, todo, call, last>>
    BY DEF Exit, vars, memory, control, ghosts
  <1>2. \A other : Running(other)' => Running(other)
    BY DEF Exit, Stopped, InState, Running, vars, IInv, Typed, DockerOK, Container
  <1>3. \A units : Wanted(units)' = Wanted(units)
    BY <1>1 DEF Wanted
  <1>4. /\ Bringing(clients, Clients) => Bringing(clients, Clients)'
        /\ Bringing(workers, Workers) => Bringing(workers, Workers)'
    BY <1>1, <1>3 DEF Bringing, UpWanted
  <1>5. /\ Sweeping(clients, Clients) => Sweeping(clients, Clients)'
        /\ Sweeping(workers, Workers) => Sweeping(workers, Workers)'
    BY <1>1, <1>2, <1>3 DEF Sweeping, UpWanted, Running
  <1>6. /\ Swept(clients, Clients) => Swept(clients, Clients)'
        /\ Swept(workers, Workers) => Swept(workers, Workers)'
    BY <1>1, <1>2, <1>3 DEF Swept, Running
  <1>7. StartRest' /\ StartPromise'
    BY <1>1, <1>6 DEF SInv, StartRest, StartPromise, AnsweredOk
  <1>8. QED BY <1>1, <1>4, <1>5, <1>6, <1>7 DEF SInv, Starting

LEMMA StartInv == SInv /\ IInv /\ [Next]_vars => SInv'
  <1> SUFFICES ASSUME SInv, IInv, [Next]_vars PROVE SInv'
    OBVIOUS
  <1>1. CASE Ask
    BY <1>1, AskStart
  <1>2. CASE NextPhase \/ StopFailed \/ PanicListFails \/ Reply \/ Discover
    BY <1>2, NextPhaseStart, DiscoverStart, ReplyStart
  <1>3. CASE FatalStart \/ DiscoverFails \/ Crash
    BY <1>3, NoStart DEF FatalStart, DiscoverFails, Crash
  <1>4. CASE Inspect \/ InspectUp \/ InspectFails \/ Remove \/ Create \/ Start
    BY <1>4, UpStart
  <1>5. ASSUME NEW key \in todo,
               ClientUp(key) \/ WorkerUp(key) \/ WorkerUpNoClient(key) \/ Sweep(key)
        PROVE  SInv'
    BY <1>5, EnterUpStart, SweepStart
  <1>6. ASSUME NEW key \in todo,
               StopClient(key) \/ StopWorker(key) \/ CleanClient(key) \/ CleanWorker(key)
               \/ DeleteClient(key) \/ DeleteWorker(key) \/ Kill(key)
        PROVE  SInv'
    BY <1>6, OtherLoopsStart
  <1>7. CASE (\E id \in DOMAIN docker : Exit(id)) \/ UNCHANGED vars
    BY <1>7, ExitStart
  <1>8. QED BY <1>1, <1>2, <1>3, <1>4, <1>5, <1>6, <1>7 DEF Next, Serve

(* After a POST / or an initial Start answered without errors, nothing runs    *)
(* that the manager has a record of and the config does not ask for.           *)
THEOREM SweptAll == Spec => []OthersSwept
  <1>1. Init => SInv
    BY DEF Init, NoReq, SInv, StartRest, Starting, StartPromise, AnsweredOk, StartOps
  <1>2. SInv => OthersSwept
    <2> SUFFICES ASSUME SInv, AnsweredOk(StartOps), NEW id \in Tracked, Running(id)
                 PROVE  id \in Wanted(Units)
      BY DEF OthersSwept, JustStarted
    <2>1. id \in Wanted(Clients) \cup Wanted(Workers)
      BY DEF SInv, StartPromise, Swept, Tracked, Named
    <2>2. QED BY <2>1 DEF Wanted, Units
  <1>3. QED BY <1>1, <1>2, InitInv, NextInv, StartInv, PTL DEF Spec

-----------------------------------------------------------------------------
(* What Start brings up is what the config asks for. *)

Fits(id) == /\ id \in DOMAIN docker
            /\ docker[id].image = config[id[1]].image
            /\ config[id[1]].client \in {NoClient, docker[id].net}

(* Up starts a container only if it fits, and replaces or starts a worker's    *)
(* only if it does not run as it should; no worker has a writable volume.      *)
CallInv ==
    /\ \A id \in DOMAIN docker \cap WorkerID : ~docker[id].rw
    /\ call.at = "start" => Fits(call.id)
    /\ req.phase = "workersUp" /\ call.at \in {"remove", "create", "start"} => ~Matches(call.id)

LEMMA MatchesFits == \A id : Matches(id) <=> Running(id) /\ Fits(id)
  BY DEF Matches, Fits, Running

(* What may happen to docker in a step. *)
LEMMA DockerSteps ==
    ASSUME IInv, [Next]_vars
    PROVE  \/ docker' = docker
           \/ \E id : docker' \in {Stopped(id), Removed(id)}
           \/ call.at = "create" /\ Create /\ docker' = Created(call.id, WantOf(call.id))
           \/ call.at = "start" /\ CanStart(call.id) /\ docker' = Started(call.id)
  <1>1. CASE Ask \/ Crash \/ UNCHANGED vars
    BY <1>1 DEF Ask, Post, Boot, Request, Crash, vars
  <1>2. CASE \E id \in DOMAIN docker : Exit(id)
    BY <1>2 DEF Exit
  <1>3. CASE NextPhase \/ StopFailed \/ Reply \/ FatalStart \/ Discover \/ DiscoverFails
             \/ Inspect \/ InspectUp \/ InspectFails \/ PanicListFails
    BY <1>3 DEF NextPhase, StopFailed, Reply, FatalStart, Discover, DiscoverFails, Inspect,
                InspectUp, InspectFails, PanicListFails, Fault
  <1>4. CASE Remove
    BY <1>4 DEF Remove, UpCall, API, Refused, Fault
  <1>5. CASE Create
    BY <1>5 DEF Create, UpCall, API, Refused, Fault
  <1>6. CASE Start
    BY <1>6 DEF Start, API, Refused, Fault
  <1>7. ASSUME NEW key \in todo,
               ClientUp(key) \/ WorkerUp(key) \/ WorkerUpNoClient(key) \/ Sweep(key)
               \/ StopClient(key) \/ StopWorker(key) \/ Kill(key)
        PROVE  docker' = docker \/ \E id : docker' = Stopped(id)
    BY <1>7 DEF ClientUp, WorkerUp, WorkerUpNoClient, Sweep, StopClient, StopWorker, Kill, Down,
                API, Refused, Fault
  <1>8. ASSUME NEW key \in todo,
               CleanClient(key) \/ CleanWorker(key) \/ DeleteClient(key) \/ DeleteWorker(key)
        PROVE  docker' = docker \/ \E id : docker' = Removed(id)
    BY <1>8 DEF CleanClient, CleanWorker, DeleteClient, DeleteWorker, Clean, API, Refused, Fault
  <1>9. QED BY <1>1, <1>2, <1>3, <1>4, <1>5, <1>6, <1>7, <1>8 DEF Next, Serve

LEMMA UpDoneCall == \A id, failed : UpDone(id, failed) => call' = NoCall /\ call'.at = "idle"
  BY DEF UpDone, NoCall

LEMMA InStateSettings ==
    ASSUME IInv, NEW x, NEW state, docker' = InState(x, state)
    PROVE  \A id \in DOMAIN docker :
              /\ docker'[id].image = docker[id].image /\ docker'[id].rw = docker[id].rw
              /\ docker'[id].net = docker[id].net
  <1>1. \A id \in DOMAIN docker :
           /\ [docker[id] EXCEPT !.state = state].image = docker[id].image
           /\ [docker[id] EXCEPT !.state = state].rw = docker[id].rw
           /\ [docker[id] EXCEPT !.state = state].net = docker[id].net
    BY DEF IInv, Typed, DockerOK, Container
  <1>2. QED BY <1>1 DEF InState

(* A container that stays has the settings it was created with. *)
LEMMA SettingsStay ==
    ASSUME IInv, [Next]_vars, NEW id \in DOMAIN docker'
    PROVE  \/ /\ id \in DOMAIN docker /\ docker'[id].image = docker[id].image
              /\ docker'[id].rw = docker[id].rw /\ docker'[id].net = docker[id].net
           \/ call.at = "create" /\ id = call.id /\ docker' = Created(call.id, WantOf(call.id))
  <1>2. ASSUME NEW x, NEW state, docker' = InState(x, state)
        PROVE  /\ id \in DOMAIN docker /\ docker'[id].image = docker[id].image
               /\ docker'[id].rw = docker[id].rw /\ docker'[id].net = docker[id].net
    <2>1. id \in DOMAIN docker
      BY <1>2 DEF InState
    <2>2. QED BY <1>2, <2>1, InStateSettings
  <1>3. CASE \E x : docker' = Stopped(x)
    BY <1>2, <1>3 DEF Stopped
  <1>4. CASE \E x : docker' = Removed(x)
    BY <1>4 DEF Removed, Del
  <1>5. CASE docker' = Started(call.id)
    BY <1>2, <1>5 DEF Started
  <1>6. CASE call.at = "create" /\ docker' = Created(call.id, WantOf(call.id))
    BY <1>6 DEF Created, Put
  <1>7. QED BY <1>3, <1>4, <1>5, <1>6, DockerSteps

LEMMA WorkersReadOnly ==
    ASSUME IInv, CallInv, [Next]_vars
    PROVE  \A id \in DOMAIN docker' \cap WorkerID : ~docker'[id].rw
  <1> SUFFICES ASSUME NEW id \in DOMAIN docker' \cap WorkerID PROVE ~docker'[id].rw
    OBVIOUS
  <1>1. CASE docker' = Created(id, WantOf(id))
    <2>1. docker'[id].rw = config[id[1]].rw
      BY <1>1 DEF Created, Put, WantOf
    <2>2. ~config[id[1]].rw
      BY Names, ManagerAssumption DEF IInv, Typed, Config
    <2>3. QED BY <2>1, <2>2
  <1>2. CASE id \in DOMAIN docker /\ docker'[id].rw = docker[id].rw
    BY <1>2 DEF CallInv
  <1>3. QED BY <1>1, <1>2, SettingsStay

(* A worker that runs as it should is left alone by Inspect. *)
LEMMA WorkerEquals ==
    ASSUME IInv, CallInv, NEW id \in WorkerID, Matches(id)
    PROVE  Running(id) /\ Equals(WantOf(id), docker[id])
  <1>1. ~config[id[1]].rw
    BY Names, ManagerAssumption DEF IInv, Typed, Config
  <1>2. ~docker[id].rw
    BY DEF CallInv, Matches, Running
  <1>3. QED BY <1>1, <1>2 DEF Matches, Equals, WantOf

LEMMA EqualsFits ==
    ASSUME NEW id \in DOMAIN docker, Equals(WantOf(id), docker[id])
    PROVE  Fits(id)
  BY DEF Equals, WantOf, Fits

LEMMA CallWhenIdle ==
    ASSUME call.at = "idle", [Next]_vars
    PROVE  call'.at \in {"idle", "inspect"}
  <1>1. CASE Ask \/ Crash \/ (\E id \in DOMAIN docker : Exit(id)) \/ UNCHANGED vars
    BY <1>1 DEF Ask, Post, Boot, Request, Begin, NoCall, Crash, Crashed, Exit, control, vars
  <1>2. CASE NextPhase \/ StopFailed \/ Reply \/ FatalStart \/ Discover \/ DiscoverFails
             \/ PanicListFails
    BY <1>2 DEF NextPhase, StopFailed, Reply, FatalStart, Discover, DiscoverFails, PanicListFails,
                Crashed, NoCall
  <1>3. ~(Inspect \/ InspectUp \/ InspectFails \/ Remove \/ Create \/ Start)
    BY DEF Inspect, InspectUp, InspectFails, Remove, Create, Start, UpCall
  <1>4. ASSUME NEW key \in todo,
               \/ ClientUp(key) \/ WorkerUp(key) \/ WorkerUpNoClient(key) \/ Sweep(key)
               \/ StopClient(key) \/ StopWorker(key) \/ CleanClient(key) \/ CleanWorker(key)
               \/ DeleteClient(key) \/ DeleteWorker(key) \/ Kill(key)
        PROVE  call'.at \in {"idle", "inspect"}
    <2>1. CASE ClientUp(key) \/ WorkerUp(key)
      BY <2>1 DEF ClientUp, WorkerUp
    <2>2. CASE WorkerUpNoClient(key)
      BY <2>2, UpDoneCall DEF WorkerUpNoClient
    <2>3. CASE \/ Sweep(key) \/ StopClient(key) \/ StopWorker(key) \/ CleanClient(key)
               \/ CleanWorker(key) \/ DeleteClient(key) \/ DeleteWorker(key) \/ Kill(key)
      BY <2>3 DEF Sweep, StopClient, StopWorker, CleanClient, CleanWorker, DeleteClient,
                  DeleteWorker, Kill
    <2>4. QED BY <1>4, <2>1, <2>2, <2>3
  <1>5. QED BY <1>1, <1>2, <1>3, <1>4 DEF Next, Serve

LEMMA CallInvNext == IInv /\ CallInv /\ [Next]_vars => CallInv'
  <1> SUFFICES ASSUME IInv, CallInv, [Next]_vars PROVE CallInv'
    OBVIOUS
  <1>1. CASE call'.at \in {"idle", "inspect"}
    BY <1>1, WorkersReadOnly DEF CallInv
  <1>2. CASE Inspect
    <2> PICK id : id = call.id
      OBVIOUS
    <2>1. UNCHANGED <<docker, config, req>> /\ call'.id = id
      BY <1>2 DEF Inspect, memory, IInv, Typed
    <2>2. call'.at = "start" => Fits(id)
      BY <1>2, EqualsFits DEF Inspect, IInv, Typed
    <2>3. Fits(id) => Fits(id)'
      BY <2>1 DEF Fits
    <2>4. req.phase = "workersUp" => ~Matches(id)
      <3> SUFFICES ASSUME req.phase = "workersUp" PROVE ~Matches(id)
        OBVIOUS
      <3>1. id \in WorkerID
        BY <1>2 DEF Inspect, IInv, CallOK
      <3>2. QED BY <1>2, <3>1, WorkerEquals DEF Inspect
    <2>5. ~Matches(id) => ~Matches(id)'
      BY <2>1 DEF Matches, Running
    <2>6. QED BY <2>1, <2>2, <2>3, <2>4, <2>5, WorkersReadOnly DEF CallInv, Fits, Matches, Running
  <1>3. CASE Remove /\ call'.at \notin {"idle", "inspect"}
    <2>1. /\ docker' = Removed(call.id) /\ call'.at = "create" /\ call'.id = call.id
      <3>1. API(call.id \in DOMAIN docker, Removed(call.id), FALSE)
            /\ call' = [call EXCEPT !.at = "create"]
        BY <1>3, UpDoneCall DEF Remove, UpCall
      <3>2. QED BY <3>1 DEF API, IInv, Typed
    <2>2. call.id \notin DOMAIN docker'
      BY <2>1 DEF Removed, Del
    <2>3. QED BY <2>1, <2>2, WorkersReadOnly DEF CallInv, Matches, Running
  <1>4. CASE Create /\ call'.at \notin {"idle", "inspect"}
    <2>1. /\ docker' = Created(call.id, WantOf(call.id)) /\ call'.at = "start" /\ call'.id = call.id
          /\ config' = config
      <3>1. API(call.id \notin DOMAIN docker, Created(call.id, WantOf(call.id)), FALSE)
            /\ call' = [call EXCEPT !.at = "start"] /\ UNCHANGED memory
        BY <1>4, UpDoneCall DEF Create, UpCall
      <3>2. QED BY <3>1 DEF API, memory, IInv, Typed
    <2>2. /\ call.id \in DOMAIN docker' /\ docker'[call.id].state = "created"
          /\ docker'[call.id].image = config[call.id[1]].image
          /\ docker'[call.id].net = config[call.id[1]].client
      BY <2>1 DEF Created, Put, WantOf
    <2>3. QED BY <2>1, <2>2, WorkersReadOnly DEF CallInv, Fits, Matches, Running
  <1>5. CASE (\E id \in DOMAIN docker : Exit(id)) \/ UNCHANGED vars
    <2> PICK id : id = call.id
      OBVIOUS
    <2>1. UNCHANGED <<config, req, call>> /\ DOMAIN docker' = DOMAIN docker
      BY <1>5, StoppedOK DEF Exit, vars, memory, control, IInv, Typed
    <2>2. docker' = docker \/ \E x : docker' = InState(x, "exited")
      BY <1>5 DEF Exit, Stopped, vars
    <2>3. id \in DOMAIN docker =>
             docker'[id].image = docker[id].image /\ docker'[id].net = docker[id].net
      BY <2>2, InStateSettings
    <2>4. Running(id)' => Running(id)
      BY <1>5 DEF Exit, Stopped, InState, Running, vars, IInv, Typed, DockerOK, Container
    <2>5. QED BY <2>1, <2>3, <2>4, WorkersReadOnly DEF CallInv, Fits, Matches, Running
  <1>6. CASE call.at # "idle" /\ ~(Inspect \/ Remove \/ Create)
    <2>1. call'.at = "idle" \/ (\E id \in DOMAIN docker : Exit(id)) \/ UNCHANGED vars
      <3>1. req.phase \in {"clientsUp", "workersUp"}
        BY <1>6 DEF IInv, CallOK
      <3>2. ~Ask /\ ~NextPhase /\ ~StopFailed /\ ~Reply /\ ~FatalStart /\ ~Discover
            /\ ~DiscoverFails /\ ~PanicListFails
        BY <1>6, <3>1 DEF Ask, Post, Boot, Request, Begin, NextPhase, StopFailed, Reply, FatalStart,
                         Discover, DiscoverFails, PanicListFails, PhaseDone
      <3>3. \A key \in todo :
               ~(\/ ClientUp(key) \/ WorkerUp(key) \/ WorkerUpNoClient(key) \/ Sweep(key)
                 \/ StopClient(key) \/ StopWorker(key) \/ CleanClient(key) \/ CleanWorker(key)
                 \/ DeleteClient(key) \/ DeleteWorker(key) \/ Kill(key))
        BY <1>6, <3>1 DEF ClientUp, WorkerUp, WorkerUpNoClient, Sweep, StopClient, StopWorker,
                         CleanClient, CleanWorker, DeleteClient, DeleteWorker, Kill, Visit
      <3>4. InspectUp \/ InspectFails \/ Start \/ Crash => call'.at = "idle"
        <4>1. InspectUp \/ InspectFails => call'.at = "idle"
          BY UpDoneCall DEF InspectUp, InspectFails
        <4>2. Start => call'.at = "idle"
          BY UpDoneCall DEF Start
        <4>3. Crash => call'.at = "idle"
          BY DEF Crash, Crashed, NoCall
        <4>4. QED BY <4>1, <4>2, <4>3
      <3>5. QED BY <1>6, <3>2, <3>3, <3>4 DEF Next, Serve
    <2>2. QED BY <1>1, <1>5, <2>1
  <1>7. CASE call.at = "idle"
    <2>1. call'.at \in {"idle", "inspect"}
      BY <1>7, CallWhenIdle
    <2>2. QED BY <1>1, <2>1
  <1>8. QED BY <1>1, <1>2, <1>3, <1>4, <1>6, <1>7

-----------------------------------------------------------------------------
(* What Start has brought up is there when it answers. *)

Busy(id) == call.at # "idle" /\ call.id = id
UpNow(map, id) == id \in DOMAIN map /\ map[id].up
Within(phase) == req.op \in StartOps /\ req.phase = phase
Calm(phase) == Within(phase) /\ ~req.errs /\ ~disturbed

ClientsThere == \A id \in Wanted(Clients) : Shadowed(id) \/ Matches(id)
WorkersThere == \A id \in Wanted(Workers) : Matches(id)

(* A wanted worker is recorded up even if it could not be started, so that the *)
(* sweep passes over it; a wanted client only if it could.                     *)
WorkersRecorded ==
    /\ Within("workersUp") =>
          \A id \in Wanted(Workers) : id \in todo \/ Busy(id) \/ UpNow(workers, id)
    /\ Within("workersSweep") => /\ \A id \in Wanted(Workers) : UpNow(workers, id)
                                 /\ todo \subseteq DownKeys(workers)
Brought ==
    /\ Calm("clientsUp") =>
          \A id \in Wanted(Clients) : id \in todo \/ Busy(id) \/ (UpNow(clients, id) /\ Matches(id))
    /\ Calm("clientsSweep") => /\ \A id \in Wanted(Clients) : UpNow(clients, id)
                               /\ ClientsThere /\ todo \subseteq DownKeys(clients)
    /\ Calm("workersUp") =>
          ClientsThere /\ \A id \in Wanted(Workers) : id \in todo \/ Busy(id) \/ Matches(id)
    /\ Calm("workersSweep") => ClientsThere /\ WorkersThere
    /\ JustStarted => ClientsThere /\ WorkersThere

TInv == WorkersRecorded /\ Brought

LEMMA OtherThere ==
    ASSUME \/ req'.op \notin StartOps /\ req'.phase # "idle"
           \/ req'.phase \in {"accept", "discover"}
           \/ Crashed
    PROVE  TInv'
  BY DEF TInv, WorkersRecorded, Brought, Within, Calm, JustStarted, AnsweredOk, Crashed, NoReq, StartOps

LEMMA AskThere == Ask => TInv'
  <1>1. Ask => req'.phase = "accept"
    BY DEF Ask, Post, Boot, Request, Begin
  <1>2. QED BY <1>1, OtherThere

LEMMA DiscoverThere ==
    ASSUME SInv, IInv, Discover \/ StopFailed \/ PanicListFails
    PROVE  TInv'
  <1>1. req.plan # <<>> /\ req.phase # "idle" /\ Head(req.plan) \in {"discover", "check", "kill"}
    BY DEF Discover, StopFailed, PanicListFails, PhaseDone
  <1>2. req'.op = req.op /\ req'.phase \in {req.phase, "discover"}
    BY DEF Discover, StopFailed, PanicListFails, IInv, Typed
  <1>3. CASE req.op \in StartOps
    <2>1. Head(req.plan) = "discover"
      BY <1>1, <1>3, StartEnds DEF SInv, StartRest
    <2>2. req'.phase = "discover"
      BY <2>1 DEF Discover, StopFailed, PanicListFails, IInv, Typed
    <2>3. QED BY <2>2, OtherThere
  <1>4. QED BY <1>1, <1>2, <1>3, OtherThere

(* Containers that a step leaves alone go on matching. *)
LEMMA KeepsMatching ==
    ASSUME config' = config, NEW id,
           id \in DOMAIN docker => id \in DOMAIN docker' /\ docker'[id] = docker[id]
    PROVE  Matches(id) => Matches(id)'
  BY DEF Matches, Running

LEMMA StillThere ==
    ASSUME config' = config, clients' = clients, docker' = docker
    PROVE  (ClientsThere => ClientsThere') /\ (WorkersThere => WorkersThere')
  BY DEF ClientsThere, WorkersThere, Wanted, Shadowed, Matches, Running

LEMMA NextPhaseThere ==
    ASSUME SInv, IInv, TInv, NextPhase
    PROVE  TInv'
  <1> DEFINE phase == Head(req.plan)
  <1>1. /\ req'.op = req.op /\ req'.phase = phase /\ req'.errs = req.errs
        /\ call' = call /\ disturbed' = disturbed /\ call.at = "idle" /\ ~req'.phase = "idle"
    BY DEF NextPhase, PhaseDone, IInv, Typed, PlanOK, Loops, ghosts
  <1>2. /\ todo = {} /\ todo' = Todo(phase) /\ req.plan # <<>> /\ phase # "discover"
        /\ UNCHANGED <<docker, config>>
    BY DEF NextPhase, PhaseDone
  <1>3. CASE req.op \notin StartOps
    BY <1>1, <1>3, OtherThere
  <1>4. CASE req.op \in StartOps
    <2>1. \/ phase = "clientsUp"
          \/ req.phase = "clientsUp" /\ phase = "clientsSweep"
          \/ req.phase = "clientsSweep" /\ phase = "workersUp"
          \/ req.phase = "workersUp" /\ phase = "workersSweep"
      BY <1>2, <1>4, StartEnds DEF SInv, StartRest
    <2> HIDE DEF phase
    <2>2. \A units : Wanted(units)' = Wanted(units)
      BY <1>2 DEF Wanted
    <2>3. \A id : Matches(id)' <=> Matches(id)
      BY <1>2 DEF Matches, Running
    <2>4. CASE phase = "clientsUp"
      <3>1. todo' = Wanted(Clients)
        BY <1>2, <2>4 DEF Todo
      <3>2. QED BY <1>1, <2>2, <2>4, <3>1
                DEF TInv, WorkersRecorded, Brought, Within, Calm, JustStarted, AnsweredOk
    <2>5. CASE phase = "clientsSweep"
      <3>1. todo' = DownKeys(clients) /\ clients' = clients /\ req.phase = "clientsUp"
        BY <1>2, <2>1, <2>5 DEF Todo, NextPhase, phase
      <3>2. Calm("clientsUp") => \A id \in Wanted(Clients) : UpNow(clients, id) /\ Matches(id)
        BY <1>1, <1>2 DEF TInv, Brought, Busy
      <3>3. Calm("clientsSweep")' => Calm("clientsUp")
        BY <1>1, <3>1 DEF Calm, Within
      <3>4. Calm("clientsSweep")' => /\ \A id \in Wanted(Clients)' : UpNow(clients, id)'
                                     /\ ClientsThere' /\ todo' \subseteq DownKeys(clients)'
        BY <2>2, <2>3, <3>1, <3>2, <3>3 DEF UpNow, ClientsThere, DownKeys
      <3>5. QED BY <1>1, <2>5, <3>4
                DEF TInv, WorkersRecorded, Brought, Within, Calm, JustStarted, AnsweredOk
    <2>6. CASE phase = "workersUp"
      <3>1. todo' = Wanted(Workers) /\ clients' = clients /\ req.phase = "clientsSweep"
        BY <1>2, <2>1, <2>6 DEF Todo, NextPhase, phase
      <3>2. Calm("workersUp")' => ClientsThere
        BY <1>1, <3>1 DEF TInv, Brought, Calm, Within
      <3>3. ClientsThere => ClientsThere'
        BY <1>2, <3>1, StillThere
      <3>4. QED BY <1>1, <2>2, <2>6, <3>1, <3>2, <3>3
                DEF TInv, WorkersRecorded, Brought, Within, Calm, JustStarted, AnsweredOk
    <2>7. CASE phase = "workersSweep"
      <3>1. /\ todo' = DownKeys(workers) /\ UNCHANGED <<clients, workers>> /\ req.phase = "workersUp"
        BY <1>2, <2>1, <2>7 DEF Todo, NextPhase, phase
      <3>2. \A id \in Wanted(Workers) : UpNow(workers, id)
        BY <1>1, <1>2, <1>4, <3>1 DEF TInv, WorkersRecorded, Within, Busy
      <3>3. WorkersRecorded'
        BY <1>1, <2>2, <2>7, <3>1, <3>2 DEF WorkersRecorded, Within, UpNow, DownKeys
      <3>4. Calm("workersSweep")' => ClientsThere /\ WorkersThere
        BY <1>1, <1>2, <3>1 DEF TInv, Brought, Calm, Within, Busy, WorkersThere
      <3>5. Calm("workersSweep")' => ClientsThere' /\ WorkersThere'
        BY <1>2, <3>1, <3>4, StillThere
      <3>6. QED BY <1>1, <2>7, <3>3, <3>5 DEF TInv, Brought, Within, Calm, JustStarted, AnsweredOk
    <2>8. QED BY <2>1, <2>4, <2>5, <2>6, <2>7
  <1>5. QED BY <1>3, <1>4

LEMMA ReplyThere ==
    ASSUME SInv, IInv, TInv, Reply
    PROVE  TInv'
  <1>1. /\ req' = NoReq /\ last' = [op |-> req.op, errs |-> req.errs] /\ disturbed' = disturbed
        /\ req.plan = <<>> /\ UNCHANGED <<clients, docker, config>>
    BY DEF Reply, memory
  <1>2. ASSUME ~req.errs, ~disturbed, req.op \in StartOps
        PROVE  ClientsThere /\ WorkersThere
    <2>1. req.phase = "workersSweep"
      BY <1>1, <1>2, StartEnds DEF SInv, StartRest
    <2>2. QED BY <1>2, <2>1 DEF TInv, Brought, Calm, Within
  <1>3. JustStarted' => ClientsThere' /\ WorkersThere'
    <2>1. JustStarted' => ~req.errs /\ ~disturbed /\ req.op \in StartOps
      BY <1>1 DEF JustStarted, AnsweredOk
    <2>2. QED BY <1>1, <1>2, <2>1, StillThere
  <1>4. QED BY <1>1, <1>3 DEF TInv, WorkersRecorded, Brought, Within, Calm, NoReq, StartOps

-----------------------------------------------------------------------------
(* The loops of Up. *)

LEMMA PutUp ==
    ASSUME NEW map, NEW id, NEW k, UpNow(map, k)
    PROVE  UpNow(Put(map, id, [up |-> TRUE, id |-> id]), k)
  BY DEF UpNow, Put

(* The container that is worked on, and then its record, if there is no error. *)
LEMMA UpLoopThere ==
    ASSUME IInv, TInv, req.phase \in {"clientsUp", "workersUp"},
           req'.op = req.op, req'.phase = req.phase, ~req'.errs => ~req.errs,
           config' = config, disturbed' = disturbed, NEW id \in ID,
           \/ req.phase = "clientsUp" /\ id \in ClientID
           \/ req.phase = "workersUp" /\ id \in WorkerID,
           todo \ {id} \subseteq todo', call.at = "idle" \/ call.id = id,
           \/ Busy(id)'
           \/ /\ req.phase = "workersUp" => UpNow(workers', id)
              /\ ~req'.errs => Matches(id)' /\ (req.phase = "clientsUp" => UpNow(clients', id)),
           \A other : other # id /\ other \in DOMAIN docker =>
                         other \in DOMAIN docker' /\ docker'[other] = docker[other],
           \/ clients' = clients
           \/ id[1] \in Clients /\ clients' = Put(clients, id, [up |-> TRUE, id |-> id]),
           \/ workers' = workers
           \/ id[1] \notin Clients /\ workers' = Put(workers, id, [up |-> TRUE, id |-> id])
    PROVE  TInv'
  <1>1. \A units : Wanted(units)' = Wanted(units)
    BY DEF Wanted
  <1>2. \A k : k # id /\ Matches(k) => Matches(k)'
    BY DEF Matches, Running
  <1>3. \A k : /\ UpNow(clients, k) => UpNow(clients', k)
               /\ UpNow(workers, k) => UpNow(workers', k)
    BY PutUp
  <1>4. \A k : k \in todo \/ Busy(k) => k \in todo' \/ k = id
    BY DEF Busy
  <1>5. WorkersRecorded'
    <2> SUFFICES ASSUME Within("workersUp"), NEW k \in Wanted(Workers)
                 PROVE  k \in todo' \/ Busy(k)' \/ UpNow(workers', k)
      BY <1>1 DEF WorkersRecorded, Within, UpNow
    <2>1. k \in todo \/ Busy(k) \/ UpNow(workers, k)
      BY DEF TInv, WorkersRecorded
    <2>2. CASE k = id
      BY <2>2 DEF Within
    <2>3. CASE k # id
      BY <1>3, <1>4, <2>1, <2>3
    <2>4. QED BY <2>2, <2>3
  <1>6. CASE req.phase = "clientsUp"
    <2> SUFFICES ASSUME Calm("clientsUp")', NEW k \in Wanted(Clients)
                 PROVE  k \in todo' \/ Busy(k)' \/ (UpNow(clients', k) /\ Matches(k)')
      BY <1>1, <1>5, <1>6 DEF TInv, Brought, Calm, Within, JustStarted, AnsweredOk, UpNow
    <2>1. Calm("clientsUp") /\ ~req'.errs
      BY DEF Calm, Within
    <2>2. k \in todo \/ Busy(k) \/ (UpNow(clients, k) /\ Matches(k))
      BY <2>1 DEF TInv, Brought
    <2>3. CASE k = id
      BY <1>6, <2>1, <2>3
    <2>4. CASE k # id
      BY <1>2, <1>3, <1>4, <2>2, <2>4
    <2>5. QED BY <2>3, <2>4
  <1>7. CASE req.phase = "workersUp"
    <2>1. id[1] \notin Clients /\ clients' = clients
      BY <1>7, Names
    <2> SUFFICES ASSUME Calm("workersUp")'
                 PROVE  /\ ClientsThere'
                        /\ \A k \in Wanted(Workers) : k \in todo' \/ Busy(k)' \/ Matches(k)'
      BY <1>1, <1>5, <1>7 DEF TInv, Brought, Calm, Within, JustStarted, AnsweredOk
    <2>2. Calm("workersUp") /\ ~req'.errs
      BY DEF Calm, Within
    <2>3. ClientsThere'
      <3> SUFFICES ASSUME NEW k \in Wanted(Clients) PROVE Shadowed(k)' \/ Matches(k)'
        BY <1>1 DEF ClientsThere
      <3>1. k # id
        BY <2>1 DEF Wanted
      <3>2. Shadowed(k) => Shadowed(k)'
        BY <2>1 DEF Shadowed
      <3>3. QED BY <1>2, <2>2, <3>1, <3>2 DEF TInv, Brought, ClientsThere
    <2>4. ASSUME NEW k \in Wanted(Workers)
          PROVE  k \in todo' \/ Busy(k)' \/ Matches(k)'
      <3>1. k \in todo \/ Busy(k) \/ Matches(k)
        BY <2>2 DEF TInv, Brought
      <3>2. CASE k = id
        BY <2>2, <3>2
      <3>3. CASE k # id
        BY <1>2, <1>4, <3>1, <3>3
      <3>4. QED BY <3>2, <3>3
    <2>5. QED BY <2>3, <2>4
  <1>8. QED BY <1>6, <1>7

LEMMA UpOthers ==
    ASSUME IInv, Inspect \/ InspectUp \/ InspectFails \/ Remove \/ Create \/ Start
    PROVE  \A other : other # call.id /\ other \in DOMAIN docker =>
                        other \in DOMAIN docker' /\ docker'[other] = docker[other]
  <1>1. CASE docker' = docker
    BY <1>1
  <1>2. CASE docker' = Removed(call.id)
    BY <1>2 DEF Removed, Del
  <1>3. CASE docker' = Created(call.id, WantOf(call.id))
    BY <1>3 DEF Created, Put
  <1>4. CASE docker' = Started(call.id)
    BY <1>4 DEF Started, InState
  <1>5. \/ docker' \in {docker, Removed(call.id), Created(call.id, WantOf(call.id))}
        \/ docker' = Started(call.id)
    BY DEF Inspect, InspectUp, InspectFails, Remove, Create, Start, UpCall, API, Refused, Fault
  <1>6. QED BY <1>1, <1>2, <1>3, <1>4, <1>5

LEMMA UpRecordsUp ==
    ASSUME IInv, NEW id \in ID, NEW failed \in BOOLEAN, UpDone(id, failed)
    PROVE  /\ id[1] \notin Clients => UpNow(workers', id)
           /\ ~req'.errs => ~failed
           /\ id[1] \in Clients /\ ~failed => UpNow(clients', id)
  <1>1. \A map : UpNow(Put(map, id, [up |-> TRUE, id |-> id]), id)
    BY DEF UpNow, Put
  <1>2. req'.errs = (req.errs \/ failed \/ (id[1] \in Workers /\ ~config[id[1]].typed))
    BY DEF UpDone, UpRecorded, IInv, Typed
  <1>3. id[1] \notin Clients => workers' = Put(workers, id, [up |-> TRUE, id |-> id])
    BY DEF UpDone, UpRecorded
  <1>4. id[1] \in Clients /\ ~failed => clients' = Put(clients, id, [up |-> TRUE, id |-> id])
    BY DEF UpDone, UpRecorded
  <1>5. ~req'.errs => ~failed
    BY <1>2
  <1>6. QED BY <1>1, <1>3, <1>4, <1>5

(* Up without an error: the container runs as it should. *)
LEMMA UpMatches ==
    ASSUME IInv, CallInv, NEW id, id = call.id, call.at # "idle",
           \/ InspectUp
           \/ Start /\ API(CanStart(id), Started(id), FALSE)
    PROVE  Matches(id)'
  <1>1. config' = config
    BY DEF InspectUp, Start, UpDone, UpRecorded
  <1>2. CASE InspectUp
    <2>1. Running(id) /\ Equals(WantOf(id), docker[id]) /\ docker' = docker
      BY <1>2 DEF InspectUp
    <2>2. QED BY <1>1, <2>1, EqualsFits, MatchesFits DEF Running, Matches
  <1>3. CASE Start /\ API(CanStart(id), Started(id), FALSE)
    <2>1. docker' = InState(id, "running") /\ id \in DOMAIN docker /\ Fits(id)
      BY <1>3 DEF API, Started, CanStart, CallInv, Start
    <2>2. /\ docker'[id].image = docker[id].image /\ docker'[id].net = docker[id].net
          /\ id \in DOMAIN docker' /\ docker'[id].state = "running"
      BY <2>1, InStateSettings DEF InState, IInv, Typed, DockerOK, Container
    <2>3. QED BY <1>1, <2>1, <2>2 DEF Fits, Matches, Running
  <1>4. QED BY <1>2, <1>3

LEMMA UpThere ==
    ASSUME IInv, CallInv, TInv, Inspect \/ InspectUp \/ InspectFails \/ Remove \/ Create \/ Start
    PROVE  TInv'
  <1>1. call.at # "idle" /\ todo' = todo /\ disturbed' = disturbed
    BY DEF Inspect, InspectUp, InspectFails, Remove, Create, Start, UpCall, API, Refused, Fault, ghosts
  <1> PICK id : id = call.id
    OBVIOUS
  <1>2. /\ id \in ID
        /\ \/ req.phase = "clientsUp" /\ id \in ClientID
           \/ req.phase = "workersUp" /\ id \in WorkerID
    BY <1>1, Calling
  <1>3. \A other : other # id /\ other \in DOMAIN docker =>
                     other \in DOMAIN docker' /\ docker'[other] = docker[other]
    BY UpOthers
  <1>4. ASSUME NEW failed \in BOOLEAN, UpDone(id, failed), ~failed => Matches(id)'
        PROVE  TInv'
    <2>1. /\ req.phase = "workersUp" => id[1] \notin Clients
          /\ req.phase = "clientsUp" => id[1] \in Clients
      BY <1>2, Names
    <2>2. /\ req.phase = "workersUp" => UpNow(workers', id)
          /\ ~req'.errs => Matches(id)' /\ (req.phase = "clientsUp" => UpNow(clients', id))
      BY <1>2, <1>4, <2>1, UpRecordsUp
    <2>3. /\ req'.op = req.op /\ req'.phase = req.phase /\ (~req'.errs => ~req.errs)
          /\ config' = config
          /\ \/ clients' = clients
             \/ id[1] \in Clients /\ clients' = Put(clients, id, [up |-> TRUE, id |-> id])
          /\ \/ workers' = workers
             \/ id[1] \notin Clients /\ workers' = Put(workers, id, [up |-> TRUE, id |-> id])
      BY <1>2, <1>4, UpRecords
    <2>4. QED BY <1>1, <1>2, <1>3, <2>2, <2>3, UpLoopThere
  <1>5. CASE UpDone(id, TRUE)
    BY <1>4, <1>5
  <1>6. CASE InspectUp
    <2>1. Matches(id)' /\ UpDone(id, FALSE)
      BY <1>1, <1>6, UpMatches DEF InspectUp
    <2>2. QED BY <1>4, <2>1
  <1>7. CASE Start
    <2>1. PICK failed \in BOOLEAN : API(CanStart(id), Started(id), failed) /\ UpDone(id, failed)
      BY <1>7 DEF Start
    <2>2. ~failed => Matches(id)'
      BY <1>1, <1>7, <2>1, UpMatches
    <2>3. QED BY <1>4, <2>1, <2>2
  <1>8. CASE UNCHANGED <<memory, req>> /\ \E at \in {"create", "start", "remove"} : call' = [call EXCEPT !.at = at]
    <2>1. Busy(id)'
      BY <1>8 DEF Busy, IInv, Typed
    <2>2. QED BY <1>1, <1>2, <1>3, <1>8, <2>1, UpLoopThere DEF memory
  <1>9. \/ UpDone(id, TRUE) \/ InspectUp \/ Start
        \/ UNCHANGED <<memory, req>> /\ \E at \in {"create", "start", "remove"} : call' = [call EXCEPT !.at = at]
    BY DEF Inspect, InspectFails, Remove, Create, UpCall
  <1>10. QED BY <1>5, <1>6, <1>7, <1>8, <1>9

LEMMA EnterUpThere ==
    ASSUME IInv, TInv, NEW id \in todo, ClientUp(id) \/ WorkerUp(id) \/ WorkerUpNoClient(id)
    PROVE  TInv'
  <1>1. /\ id \in ID /\ todo' = todo \ {id} /\ UNCHANGED <<docker, disturbed>> /\ call.at = "idle"
        /\ \/ req.phase = "clientsUp" /\ id \in ClientID
           \/ req.phase = "workersUp" /\ id \in WorkerID
    BY Names DEF ClientUp, WorkerUp, WorkerUpNoClient, Visit, IInv, TodoOK, ghosts
  <1>2. CASE ClientUp(id) \/ WorkerUp(id)
    <2>1. UNCHANGED <<memory, req>> /\ Busy(id)'
      BY <1>2 DEF ClientUp, WorkerUp, Busy
    <2>2. QED BY <1>1, <2>1, UpLoopThere DEF memory
  <1>3. CASE WorkerUpNoClient(id)
    <2>1. UpDone(id, TRUE) /\ req.phase = "workersUp"
      BY <1>3 DEF WorkerUpNoClient, Visit
    <2>2. UpNow(workers', id) /\ req'.errs
      BY <1>1, <2>1, Names, UpRecordsUp DEF UpDone, UpRecorded, IInv, Typed
    <2>3. QED BY <1>1, <2>1, <2>2, UpRecords, UpLoopThere
  <1>4. QED BY <1>2, <1>3

-----------------------------------------------------------------------------
(* A sweep stops what is down, and no wanted record is; but a client that two  *)
(* records share it stops through the one under the nil config.                *)
LEMMA SweepThere ==
    ASSUME SInv, IInv, TInv, NEW key \in todo, Sweep(key)
    PROVE  TInv'
  <1> PICK gone : gone = IF req.phase = "clientsSweep" THEN clients[key].id ELSE workers[key].id
    OBVIOUS
  <1>1. PICK failed \in BOOLEAN : Down(gone, failed) /\ Failed(failed)
    BY DEF Sweep
  <1>2. /\ req.phase \in {"clientsSweep", "workersSweep"} /\ todo' \subseteq todo
        /\ UNCHANGED <<clients, workers, config, call>>
    BY DEF Sweep, Visit, memory
  <1>3. /\ req'.op = req.op /\ req'.phase = req.phase /\ (~req'.errs => ~req.errs)
    BY <1>1 DEF Failed, IInv, Typed
  <1>4. disturbed' = disturbed
    BY <1>1 DEF Down, API, Refused, Fault
  <1>5. \A other : other # gone /\ other \in DOMAIN docker =>
                     other \in DOMAIN docker' /\ docker'[other] = docker[other]
    BY <1>1 DEF Down, API, Refused, Fault, Stopped, InState
  <1>6. \A k : k # gone /\ Matches(k) => Matches(k)'
    BY <1>2, <1>5 DEF Matches, Running
  <1>7. \A units : Wanted(units)' = Wanted(units)
    BY <1>2 DEF Wanted
  <1>8. \A k : Shadowed(k) => Shadowed(k)'
    BY <1>2 DEF Shadowed
  <1>9. WorkersRecorded'
    BY <1>2, <1>3, <1>7 DEF TInv, WorkersRecorded, Within, UpNow, DownKeys
  <1>10. CASE Calm("clientsSweep")
    <2>1. gone = clients[key].id /\ key \in DOMAIN clients /\ ~clients[key].up
      BY <1>10 DEF Calm, Within, TInv, Brought, DownKeys
    <2>2. ASSUME NEW k \in Wanted(Clients)
          PROVE  Shadowed(k)' \/ Matches(k)'
      <3>1. UpNow(clients, k) /\ (Shadowed(k) \/ Matches(k))
        BY <1>10 DEF TInv, Brought, ClientsThere
      <3>2. CASE k = gone
        <4>1. key # k
          BY <2>1, <3>1 DEF UpNow
        <4>2. key[1] = Nil
          BY <2>1, <3>2, <4>1 DEF IInv, KeyOK
        <4>3. key = <<Nil, key[2]>> /\ key[2] \in Instances
          BY <2>1, <4>2 DEF IInv, Typed, ClientsOK, ClientKey
        <4>4. Shadowed(k)
          BY <2>1, <3>2, <4>3 DEF Shadowed
        <4>5. QED BY <1>8, <4>4
      <3>3. CASE k # gone
        BY <1>6, <1>8, <3>1, <3>3
      <3>4. QED BY <3>2, <3>3
    <2>3. ClientsThere'
      BY <1>7, <2>2 DEF ClientsThere
    <2>4. Brought'
      BY <1>2, <1>3, <1>7, <1>10, <2>3
         DEF TInv, Brought, Calm, Within, JustStarted, AnsweredOk, UpNow, DownKeys
    <2>5. QED BY <1>9, <2>4 DEF TInv
  <1>11. CASE Calm("workersSweep")
    <2>1. gone = workers[key].id /\ key \in DOMAIN workers /\ ~workers[key].up
      BY <1>11 DEF Calm, Within, TInv, WorkersRecorded, DownKeys
    <2>2. gone = key /\ gone \in WorkerID /\ gone[1] \notin Clients
      BY <2>1, Names DEF IInv, Typed, WorkersOK
    <2>3. \A k \in Wanted(Workers) : k # gone
      BY <1>11, <2>1, <2>2 DEF Calm, TInv, WorkersRecorded, UpNow
    <2>4. \A k \in Wanted(Clients) : k # gone
      BY <2>2 DEF Wanted
    <2>5. ClientsThere' /\ WorkersThere'
      BY <1>6, <1>7, <1>8, <1>11, <2>3, <2>4 DEF TInv, Brought, ClientsThere, WorkersThere
    <2>6. Brought'
      BY <1>2, <1>3, <1>11, <2>5 DEF Brought, Calm, Within, JustStarted, AnsweredOk
    <2>7. QED BY <1>9, <2>6 DEF TInv
  <1>12. CASE ~Calm("clientsSweep") /\ ~Calm("workersSweep")
    <2>1. Brought'
      BY <1>2, <1>3, <1>4, <1>12 DEF Brought, Calm, Within, JustStarted, AnsweredOk
    <2>2. QED BY <1>9, <2>1 DEF TInv
  <1>13. QED BY <1>10, <1>11, <1>12

LEMMA OtherLoopsThere ==
    ASSUME SInv, IInv, NEW key \in todo,
           \/ StopClient(key) \/ StopWorker(key) \/ CleanClient(key) \/ CleanWorker(key)
           \/ DeleteClient(key) \/ DeleteWorker(key) \/ Kill(key)
    PROVE  TInv'
  <1>1. req.phase \in {"clientsDown", "workersDown", "clientsClean", "workersClean",
                       "clientsDelete", "workersDelete", "kill"}
    BY DEF StopClient, StopWorker, CleanClient, CleanWorker, DeleteClient, DeleteWorker, Kill, Visit
  <1>2. req.op \notin StartOps
    BY <1>1 DEF SInv, StartRest
  <1>3. req'.op = req.op /\ req'.phase = req.phase
    BY DEF StopClient, StopWorker, CleanClient, CleanWorker, DeleteClient, DeleteWorker, Kill,
           Failed, IInv, Typed
  <1>4. QED BY <1>1, <1>2, <1>3, OtherThere

LEMMA ExitThere ==
    ASSUME TInv, (\E id \in DOMAIN docker : Exit(id)) \/ UNCHANGED vars
    PROVE  TInv'
  <1>1. UNCHANGED <<alive, config, clients, workers, req, todo, call, last>>
    BY DEF Exit, vars, memory, control, ghosts
  <1>2. WorkersRecorded'
    BY <1>1 DEF TInv, WorkersRecorded, Within, UpNow, Busy, DownKeys, Wanted
  <1>3. CASE \E id \in DOMAIN docker : Exit(id)
    <2>1. disturbed'
      BY <1>3 DEF Exit
    <2>2. QED BY <1>2, <2>1 DEF TInv, Brought, Calm, JustStarted
  <1>4. CASE UNCHANGED vars
    <2>1. UNCHANGED <<docker, disturbed>>
      BY <1>4 DEF vars, ghosts
    <2>2. \A id : (Matches(id)' <=> Matches(id)) /\ (Busy(id)' <=> Busy(id))
      BY <1>1, <2>1 DEF Matches, Running, Busy
    <2>3. (ClientsThere' <=> ClientsThere) /\ (WorkersThere' <=> WorkersThere)
      BY <1>1, <2>1 DEF ClientsThere, WorkersThere, Wanted, Shadowed, Matches, Running
    <2>4. Brought'
      BY <1>1, <2>1, <2>2, <2>3
         DEF TInv, Brought, Calm, Within, JustStarted, AnsweredOk, UpNow, DownKeys, Wanted
    <2>5. QED BY <1>2, <2>4 DEF TInv
  <1>5. QED BY <1>3, <1>4

LEMMA ThereInv == IInv /\ SInv /\ CallInv /\ TInv /\ [Next]_vars => TInv'
  <1> SUFFICES ASSUME IInv, SInv, CallInv, TInv, [Next]_vars PROVE TInv'
    OBVIOUS
  <1>1. CASE Ask
    BY <1>1, AskThere
  <1>2. CASE NextPhase \/ StopFailed \/ PanicListFails \/ Reply \/ Discover
    BY <1>2, NextPhaseThere, DiscoverThere, ReplyThere
  <1>3. CASE FatalStart \/ DiscoverFails \/ Crash
    BY <1>3, OtherThere DEF FatalStart, DiscoverFails, Crash
  <1>4. CASE Inspect \/ InspectUp \/ InspectFails \/ Remove \/ Create \/ Start
    BY <1>4, UpThere
  <1>5. ASSUME NEW key \in todo,
               ClientUp(key) \/ WorkerUp(key) \/ WorkerUpNoClient(key) \/ Sweep(key)
        PROVE  TInv'
    BY <1>5, EnterUpThere, SweepThere
  <1>6. ASSUME NEW key \in todo,
               \/ StopClient(key) \/ StopWorker(key) \/ CleanClient(key) \/ CleanWorker(key)
               \/ DeleteClient(key) \/ DeleteWorker(key) \/ Kill(key)
        PROVE  TInv'
    BY <1>6, OtherLoopsThere
  <1>7. CASE (\E id \in DOMAIN docker : Exit(id)) \/ UNCHANGED vars
    BY <1>7, ExitThere
  <1>8. QED BY <1>1, <1>2, <1>3, <1>4, <1>5, <1>6, <1>7 DEF Next, Serve

-----------------------------------------------------------------------------
(* In which network a worker runs that Start has brought up.                   *)

(* A container that runs and is not cut off has its client running.            *)
StrandedOK ==
    /\ \A id \in stranded : Running(id)
    /\ \A id \in DOMAIN docker :
          Running(id) /\ docker[id].net # NoClient /\ id \notin stranded
              => Running(NetOf(docker[id].net, id))

(* The network is that of the section's client as it runs now, or Start took   *)
(* the worker as it found it.                                                  *)
OnNet(id) == docker[id].net # config[id[1]].client =>
                 id \in DOMAIN reused /\ config[id[1]].client = NoClient
Placed(id) == OnNet(id) /\ (id \in stranded => id \in DOMAIN reused /\ reused[id])

PlacedWorkers ==
    /\ call.at = "start" /\ call.id \in WorkerID => OnNet(call.id)
    /\ Calm("workersUp") => \A id \in Wanted(Workers) : id \in todo \/ Busy(id) \/ Placed(id)
    /\ Calm("workersSweep") \/ JustStarted => \A id \in Wanted(Workers) : Placed(id)

PInv == StrandedOK /\ PlacedWorkers

LEMMA StrandedInv == StrandedOK /\ [Next]_vars => StrandedOK'
  <1> SUFFICES ASSUME StrandedOK, [Next]_vars PROVE StrandedOK'
    OBVIOUS
  <1>1. CASE Stranding
    BY <1>1 DEF Stranding, Stranded, RunsIn, StrandedOK, Running
  <1>2. CASE UNCHANGED <<docker, stranded>>
    BY <1>2 DEF StrandedOK, Running
  <1>3. QED BY <1>1, <1>2, StrandedSteps

(* A worker is cut off only by what happens to its client's container.         *)
LEMMA NotCutOff ==
    ASSUME IInv, StrandedOK, [Next]_vars,
           \A c \in ClientID : Running(c) => Running(c)',
           NEW id \in WorkerID, Running(id), docker'[id] = docker[id], id \notin stranded
    PROVE  id \notin stranded'
  <1> SUFFICES ASSUME Stranding, id \in stranded' PROVE FALSE
    BY StrandedSteps
  <1>1. docker[id].net # NoClient /\ ~RunsIn(docker', NetOf(docker[id].net, id))
    BY DEF Stranding, Stranded
  <1>2. NetOf(docker[id].net, id) \in ClientID
    BY <1>1, Names DEF IInv, Typed, DockerOK, Container, Running, NetOf, ClientID
  <1>3. Running(NetOf(docker[id].net, id))
    BY <1>1 DEF StrandedOK, Running
  <1>4. Running(NetOf(docker[id].net, id))'
    <2> PICK c : c = NetOf(docker[id].net, id)
      OBVIOUS
    <2>1. Running(c)'
      BY <1>2, <1>3
    <2>2. docker'[id].net = docker[id].net
      OBVIOUS
    <2>3. QED BY <2>1, <2>2 DEF NetOf
  <1>5. RunsIn(docker', NetOf(docker[id].net, id))
    BY <1>4 DEF Running, RunsIn, NetOf
  <1>6. QED BY <1>1, <1>5

(* A worker that runs, and whose container and client a step leaves alone, is  *)
(* as well placed after it as before.                                          *)
LEMMA StaysPlaced ==
    ASSUME IInv, StrandedOK, [Next]_vars, config' = config,
           \A c \in ClientID : Running(c) => Running(c)',
           NEW id \in WorkerID, Running(id), docker'[id] = docker[id],
           id \in DOMAIN reused => id \in DOMAIN reused' /\ reused'[id] = reused[id],
           Placed(id)
    PROVE  Placed(id)'
  <1>1. id \notin stranded => id \notin stranded'
    BY NotCutOff
  <1>2. OnNet(id)'
    BY DEF Placed, OnNet
  <1>3. QED BY <1>1, <1>2 DEF Placed

(* A container that Up is about to start joins the network its section names,  *)
(* or was there before.                                                        *)
LEMMA CallOnNet ==
    ASSUME IInv, CallInv, PlacedWorkers, [Next]_vars, call'.at = "start"
    PROVE  call'.id \in WorkerID => OnNet(call.id)' /\ call'.id = call.id
  <1> SUFFICES ASSUME call'.id \in WorkerID PROVE OnNet(call.id)' /\ call'.id = call.id
    OBVIOUS
  <1> PICK id : id = call.id
    OBVIOUS
  <1>1. CASE Inspect
    <2>1. UNCHANGED <<docker, config>> /\ call'.id = id /\ id \in DOMAIN docker
          /\ Equals(WantOf(id), docker[id]) /\ Reuse(id, FALSE)
      BY <1>1 DEF Inspect, memory, IInv, Typed
    <2>2. id \in DOMAIN reused'
      BY <2>1, Names, ManagerAssumption DEF Reuse, Put
    <2>3. config[id[1]].client \in {NoClient, docker[id].net}
      BY <2>1 DEF Equals, WantOf
    <2>4. QED BY <2>1, <2>2, <2>3 DEF OnNet
  <1>2. CASE Create
    <2>1. /\ docker' = Created(id, WantOf(id)) /\ call'.id = id /\ config' = config
      <3>1. API(id \notin DOMAIN docker, Created(id, WantOf(id)), FALSE)
            /\ call' = [call EXCEPT !.at = "start"] /\ UNCHANGED memory
        BY <1>2, UpDoneCall DEF Create, UpCall
      <3>2. QED BY <3>1 DEF API, memory, IInv, Typed
    <2>2. docker'[id].net = config'[id[1]].client
      BY <2>1 DEF Created, Put, WantOf
    <2>3. QED BY <2>1, <2>2 DEF OnNet
  <1>3. CASE (\E x \in DOMAIN docker : Exit(x)) \/ UNCHANGED vars
    <2>1. UNCHANGED <<config, call, reused>>
      BY <1>3 DEF Exit, vars, memory, control, ghosts
    <2>2. id \in DOMAIN docker /\ OnNet(id)
      BY <2>1 DEF CallInv, Fits, PlacedWorkers
    <2>3. docker'[id].net = docker[id].net
      <3>1. docker' = docker \/ \E x : docker' = InState(x, "exited")
        BY <1>3 DEF Exit, Stopped, vars
      <3>2. QED BY <2>2, <3>1, InStateSettings
    <2>4. QED BY <2>1, <2>2, <2>3 DEF OnNet
  <1>4. Inspect \/ Create \/ (\E x \in DOMAIN docker : Exit(x)) \/ UNCHANGED vars
    <2>1. call.at # "idle"
      BY CallWhenIdle
    <2>2. req.phase \in {"clientsUp", "workersUp"}
      BY <2>1, Calling
    <2>3. ~Ask /\ ~NextPhase /\ ~StopFailed /\ ~Reply /\ ~FatalStart /\ ~Discover
          /\ ~DiscoverFails /\ ~PanicListFails
      BY <2>1, <2>2 DEF Ask, Post, Boot, Request, Begin, NextPhase, StopFailed, Reply, FatalStart,
                       Discover, DiscoverFails, PanicListFails, PhaseDone
    <2>4. \A key \in todo :
             ~(\/ ClientUp(key) \/ WorkerUp(key) \/ WorkerUpNoClient(key) \/ Sweep(key)
               \/ StopClient(key) \/ StopWorker(key) \/ CleanClient(key) \/ CleanWorker(key)
               \/ DeleteClient(key) \/ DeleteWorker(key) \/ Kill(key))
      BY <2>1, <2>2 DEF ClientUp, WorkerUp, WorkerUpNoClient, Sweep, StopClient, StopWorker,
                       CleanClient, CleanWorker, DeleteClient, DeleteWorker, Kill, Visit
    <2>5. ~InspectUp /\ ~InspectFails /\ ~Start /\ ~Crash
      <3>1. ~InspectUp /\ ~InspectFails
        BY UpDoneCall DEF InspectUp, InspectFails
      <3>2. ~Start
        BY UpDoneCall DEF Start
      <3>3. ~Crash
        BY DEF Crash, Crashed, NoCall
      <3>4. QED BY <3>1, <3>2, <3>3
    <2>6. ~Remove
      <3>1. Remove => call' = NoCall \/ call' = [call EXCEPT !.at = "create"]
        BY UpDoneCall DEF Remove, UpCall
      <3>2. QED BY <3>1 DEF NoCall, IInv, Typed
    <2>7. QED BY <2>3, <2>4, <2>5, <2>6 DEF Next, Serve
  <1>5. QED BY <1>1, <1>2, <1>3, <1>4

(* Up leaves alone the others, and the worker that it brings up without an     *)
(* error joins the network of a client that runs.                              *)
LEMMA UpPlaces ==
    ASSUME IInv, CallInv, TInv, PInv, [Next]_vars, req.phase = "workersUp",
           Inspect \/ InspectUp \/ InspectFails \/ Remove \/ Create \/ Start,
           Calm("workersUp")', NEW k \in Wanted(Workers)
    PROVE  k \in todo' \/ Busy(k)' \/ Placed(k)'
  <1>1. call.at # "idle" /\ todo' = todo /\ disturbed' = disturbed
    BY DEF Inspect, InspectUp, InspectFails, Remove, Create, Start, UpCall, API, Refused, Fault, ghosts
  <1> PICK id : id = call.id
    OBVIOUS
  <1>2. id \in WorkerID /\ id \in ID /\ id[1] \notin Clients /\ k \in WorkerID
    <2>1. k \in WorkerID
      BY DEF Wanted, WorkerID
    <2>2. QED BY <1>1, <2>1, Calling, Names
  <1>3. \A other : other # id /\ other \in DOMAIN docker =>
                     other \in DOMAIN docker' /\ docker'[other] = docker[other]
    BY UpOthers
  <1>4. config' = config /\ (~req'.errs => ~req.errs) /\ req'.op = req.op
    <2>1. CASE \E failed \in BOOLEAN : UpDone(id, failed)
      BY <1>2, <2>1, UpRecords
    <2>2. CASE ~\E failed \in BOOLEAN : UpDone(id, failed)
      BY <2>2 DEF Inspect, InspectUp, InspectFails, Remove, Create, Start, UpCall, memory
    <2>3. QED BY <2>1, <2>2
  <1>5. Calm("workersUp") /\ ~req'.errs
    BY <1>1, <1>4 DEF Calm, Within
  <1>6. \A c \in ClientID : Running(c) => Running(c)'
    BY <1>2, <1>3, Names DEF Running
  <1>7. CASE k # id
    <2>1. k \in todo \/ Placed(k)
      BY <1>5, <1>7 DEF PInv, PlacedWorkers, Busy
    <2>2. k \in todo \/ Running(k)
      BY <1>5, <1>7 DEF TInv, Brought, Busy, Matches
    <2>3. k \in DOMAIN reused => k \in DOMAIN reused' /\ reused'[k] = reused[k]
      BY <1>7 DEF Inspect, InspectUp, InspectFails, Remove, Create, Start, UpCall, Reuse, Put, ghosts
    <2>4. CASE k \notin todo
      <3>1. Running(k) /\ docker'[k] = docker[k]
        BY <1>3, <1>7, <2>2, <2>4 DEF Running
      <3>2. Placed(k)'
        BY <1>2, <1>4, <1>6, <2>1, <2>3, <2>4, <3>1, StaysPlaced DEF PInv
      <3>3. QED BY <3>2
    <2>5. QED BY <1>1, <2>4
  <1>8. CASE k = id /\ ~Busy(id)'
    <2>1. InspectUp \/ (Start /\ API(CanStart(id), Started(id), FALSE))
      <3>1. ~UpDone(id, TRUE)
        BY <1>2, <1>5, UpRecordsUp
      <3>2. ~UNCHANGED call /\ ~\E at \in {"create", "start", "remove"} : call' = [call EXCEPT !.at = at]
        BY <1>1, <1>8 DEF Busy, IInv, Typed
      <3>3. ~Inspect /\ ~InspectFails /\ ~Remove /\ ~Create
        BY <3>1, <3>2 DEF Inspect, InspectFails, Remove, Create, UpCall
      <3>4. ASSUME Start PROVE API(CanStart(id), Started(id), FALSE)
        BY <3>1, <3>4 DEF Start
      <3>5. QED BY <3>3, <3>4
    <2>2. CASE InspectUp
      <3>1. /\ id \in DOMAIN docker /\ Equals(WantOf(id), docker[id]) /\ docker' = docker
            /\ Reuse(id, TRUE)
        BY <2>2 DEF InspectUp, Running
      <3>2. id \in DOMAIN reused' /\ reused'[id]
        BY <1>2, <3>1, Names DEF Reuse, Put
      <3>3. config[id[1]].client \in {NoClient, docker[id].net}
        BY <3>1 DEF Equals, WantOf
      <3>4. QED BY <1>4, <1>8, <3>1, <3>2, <3>3 DEF Placed, OnNet
    <2>3. CASE Start /\ API(CanStart(id), Started(id), FALSE)
      <3>1. /\ docker' = InState(id, "running") /\ CanStart(id) /\ reused' = reused
            /\ call.at = "start" /\ Stranding
        BY <2>3 DEF API, Started, Start
      <3>2. id \in DOMAIN docker /\ docker'[id].net = docker[id].net
        BY <3>1, InStateSettings DEF CanStart
      <3>3. OnNet(id)'
        BY <1>2, <1>4, <3>1, <3>2 DEF PInv, PlacedWorkers, OnNet
      <3>4. id \notin stranded
        <4>1. ~Running(id)
          BY <3>1, MatchesFits DEF CallInv
        <4>2. QED BY <4>1 DEF PInv, StrandedOK
      <3>5. id \notin stranded'
        <4> SUFFICES ASSUME id \in stranded' PROVE FALSE
          OBVIOUS
        <4>1. docker[id].net # NoClient /\ ~RunsIn(docker', NetOf(docker[id].net, id))
          BY <3>1, <3>2, <3>4 DEF Stranding, Stranded
        <4> PICK c : c = NetOf(docker[id].net, id)
          OBVIOUS
        <4>2. c \in ClientID
          BY <1>2, <3>2, <4>1, Names DEF IInv, Typed, DockerOK, Container, NetOf, ClientID
        <4>3. Running(c)
          BY <3>1, <4>1 DEF CanStart
        <4>4. Running(c)'
          BY <1>6, <4>2, <4>3
        <4>5. QED BY <4>1, <4>4 DEF Running, RunsIn
      <3>6. QED BY <1>8, <3>3, <3>5 DEF Placed
    <2>4. QED BY <2>1, <2>2, <2>3
  <1>9. QED BY <1>7, <1>8

(* The sweep of the workers stops none that the config asks for, and no client. *)
LEMMA SweepPlaces ==
    ASSUME IInv, SInv, TInv, PInv, [Next]_vars, NEW key \in todo, Sweep(key),
           Calm("workersSweep")', NEW k \in Wanted(Workers)
    PROVE  Placed(k)'
  <1>1. PICK failed \in BOOLEAN :
           Down(IF req.phase = "clientsSweep" THEN clients[key].id ELSE workers[key].id, failed)
           /\ Failed(failed)
    BY DEF Sweep
  <1>2. /\ req'.op = req.op /\ req'.phase = req.phase /\ (~req'.errs => ~req.errs)
        /\ UNCHANGED <<config, reused>> /\ disturbed' = disturbed
    BY <1>1 DEF Failed, Sweep, memory, Down, API, Refused, Fault, IInv, Typed
  <1>3. Calm("workersSweep")
    BY <1>2 DEF Calm, Within
  <1> PICK gone : gone = workers[key].id
    OBVIOUS
  <1>4. key \in DOMAIN workers /\ ~workers[key].up /\ UpNow(workers, k)
    BY <1>3 DEF Calm, TInv, WorkersRecorded, DownKeys
  <1>5. gone = key /\ gone \in WorkerID /\ gone[1] \notin Clients /\ k # gone /\ k \in WorkerID
    <2>1. k \in WorkerID
      BY DEF Wanted, WorkerID
    <2>2. QED BY <1>4, <2>1, Names DEF IInv, Typed, WorkersOK, UpNow
  <1>6. \A other : other # gone /\ other \in DOMAIN docker =>
                     other \in DOMAIN docker' /\ docker'[other] = docker[other]
    BY <1>1, <1>3 DEF Calm, Within, Down, API, Refused, Fault, Stopped, InState
  <1>7. \A c \in ClientID : Running(c) => Running(c)'
    BY <1>5, <1>6, Names DEF Running
  <1>8. Placed(k) /\ Running(k)
    BY <1>3 DEF PInv, PlacedWorkers, TInv, Brought, WorkersThere, Matches
  <1>9. docker'[k] = docker[k]
    BY <1>5, <1>6, <1>8 DEF Running
  <1>10. QED BY <1>2, <1>5, <1>7, <1>8, <1>9, StaysPlaced DEF PInv

(* Every other step leaves the workers, their clients and what Start took as   *)
(* it is, or there is no promise yet, or none any more.                        *)
LEMMA PlacedQuiet ==
    ASSUME IInv, UNCHANGED <<docker, stranded, reused, config>>
    PROVE  \A k : Placed(k) => Placed(k)'
  BY DEF Placed, OnNet

LEMMA PlacedWorkersInv ==
    ASSUME IInv, SInv, CallInv, TInv, PInv, [Next]_vars
    PROVE  /\ Calm("workersUp")' =>
                 \A k \in Wanted(Workers)' : k \in todo' \/ Busy(k)' \/ Placed(k)'
           /\ Calm("workersSweep")' \/ JustStarted' => \A k \in Wanted(Workers)' : Placed(k)'
  <1> DEFINE Promised == /\ Calm("workersUp") =>
                               \A k \in Wanted(Workers) : k \in todo \/ Busy(k) \/ Placed(k)
                         /\ Calm("workersSweep") \/ JustStarted =>
                               \A k \in Wanted(Workers) : Placed(k)
             Nothing == ~Calm("workersUp") /\ ~Calm("workersSweep") /\ ~JustStarted
  <1>1. ASSUME Nothing' PROVE Promised'
    BY <1>1
  <1> SUFFICES Promised'
    OBVIOUS
  <1>2. config' = config => Wanted(Workers)' = Wanted(Workers)
    BY DEF Wanted
  <1>3. ASSUME req'.phase \notin {"workersUp", "workersSweep", "idle"} PROVE Promised'
    BY <1>3 DEF Calm, Within, JustStarted, AnsweredOk
  <1>4. ASSUME req'.op \notin StartOps, req'.phase # "idle" PROVE Promised'
    BY <1>4 DEF Calm, Within, JustStarted, AnsweredOk
  <1>5. CASE Ask
    <2>1. req'.phase = "accept"
      BY <1>5 DEF Ask, Post, Boot, Request, Begin
    <2>2. QED BY <1>3, <2>1
  <1>6. CASE FatalStart \/ DiscoverFails \/ Crash
    BY <1>6 DEF FatalStart, DiscoverFails, Crash, Crashed, NoReq, Calm, Within, JustStarted,
                AnsweredOk, StartOps
  <1>7. CASE Discover \/ StopFailed \/ PanicListFails
    <2>1. req.plan # <<>> /\ req.phase # "idle" /\ Head(req.plan) \in {"discover", "check", "kill"}
      BY <1>7 DEF Discover, StopFailed, PanicListFails, PhaseDone
    <2>2. req'.op = req.op /\ req'.phase \in {req.phase, "discover"}
      BY <1>7 DEF Discover, StopFailed, PanicListFails, IInv, Typed
    <2>3. CASE req.op \in StartOps
      <3>1. Head(req.plan) = "discover"
        BY <2>1, <2>3, StartEnds DEF SInv, StartRest
      <3>2. req'.phase = "discover"
        BY <1>7, <3>1 DEF Discover, StopFailed, PanicListFails, IInv, Typed
      <3>3. QED BY <1>3, <3>2
    <2>4. QED BY <1>4, <2>1, <2>2, <2>3
  <1>8. CASE \E key \in todo :
                \/ StopClient(key) \/ StopWorker(key) \/ CleanClient(key) \/ CleanWorker(key)
                \/ DeleteClient(key) \/ DeleteWorker(key) \/ Kill(key)
    <2>1. PICK key \in todo :
             \/ StopClient(key) \/ StopWorker(key) \/ CleanClient(key) \/ CleanWorker(key)
             \/ DeleteClient(key) \/ DeleteWorker(key) \/ Kill(key)
      BY <1>8
    <2>2. req'.phase = req.phase
          /\ req.phase \in {"clientsDown", "workersDown", "clientsClean", "workersClean",
                            "clientsDelete", "workersDelete", "kill"}
      BY <2>1 DEF StopClient, StopWorker, CleanClient, CleanWorker, DeleteClient, DeleteWorker,
                  Kill, Visit, Failed, IInv, Typed
    <2>3. QED BY <1>3, <2>2
  <1>9. CASE \E id \in DOMAIN docker : Exit(id)
    <2>1. disturbed'
      BY <1>9 DEF Exit
    <2>2. QED BY <2>1 DEF Calm, JustStarted
  <1>10. CASE Inspect \/ InspectUp \/ InspectFails \/ Remove \/ Create \/ Start
    <2>1. call.at # "idle"
      BY <1>10 DEF Inspect, InspectUp, InspectFails, Remove, Create, Start, UpCall
    <2>2. call.id \in ID /\ (req.phase = "clientsUp" \/ req.phase = "workersUp")
      BY <2>1, Calling
    <2>3. req'.phase = req.phase /\ config' = config
      <3>1. CASE \E failed \in BOOLEAN : UpDone(call.id, failed)
        BY <2>2, <3>1, UpRecords
      <3>2. CASE ~\E failed \in BOOLEAN : UpDone(call.id, failed)
        BY <1>10, <3>2 DEF Inspect, InspectUp, InspectFails, Remove, Create, Start, UpCall, memory
      <3>3. QED BY <3>1, <3>2
    <2>4. CASE req.phase = "workersUp"
      <3>1. Calm("workersUp")' => \A k \in Wanted(Workers) : k \in todo' \/ Busy(k)' \/ Placed(k)'
        BY <1>10, <2>4, UpPlaces
      <3>2. QED BY <1>2, <2>3, <2>4, <3>1 DEF Calm, Within, JustStarted, AnsweredOk
    <2>5. QED BY <1>3, <2>2, <2>3, <2>4
  <1>11. ASSUME NEW key \in todo, Sweep(key) PROVE Promised'
    <2>1. config' = config /\ req'.phase = req.phase /\ req.phase \in {"clientsSweep", "workersSweep"}
      BY <1>11 DEF Sweep, Visit, Failed, memory, IInv, Typed
    <2>2. Calm("workersSweep")' => \A k \in Wanted(Workers) : Placed(k)'
      BY <1>11, SweepPlaces
    <2>3. QED BY <1>2, <2>1, <2>2 DEF Calm, Within, JustStarted, AnsweredOk
  <1>12. ASSUME NEW id \in todo, ClientUp(id) \/ WorkerUp(id) \/ WorkerUpNoClient(id)
         PROVE  Promised'
    <2>1. CASE ClientUp(id)
      <3>1. req'.phase = "clientsUp"
        BY <2>1 DEF ClientUp, Visit
      <3>2. QED BY <1>3, <3>1
    <2>2. CASE WorkerUp(id)
      <3>1. /\ UNCHANGED <<docker, stranded, reused, config, req, disturbed>> /\ req.phase = "workersUp"
            /\ call.at = "idle" /\ todo' = todo \ {id} /\ Busy(id)'
        BY <2>2 DEF WorkerUp, Visit, Busy, memory, ghosts
      <3>2. Calm("workersUp")' => \A k \in Wanted(Workers) : k \in todo \/ Placed(k)
        BY <3>1 DEF PInv, PlacedWorkers, Calm, Within, Busy
      <3>3. Calm("workersUp")' => \A k \in Wanted(Workers) : k \in todo' \/ Busy(k)' \/ Placed(k)'
        BY <3>1, <3>2, PlacedQuiet
      <3>4. QED BY <1>2, <3>1, <3>3 DEF Calm, Within, JustStarted, AnsweredOk
    <2>3. CASE WorkerUpNoClient(id)
      <3>1. id \in ID /\ UpDone(id, TRUE) /\ req.phase = "workersUp"
        BY <2>3, Names DEF WorkerUpNoClient, Visit, IInv, TodoOK
      <3>2. req'.errs /\ req'.phase = "workersUp"
        BY <3>1, UpRecordsUp, UpRecords DEF UpDone, UpRecorded, IInv, Typed
      <3>3. QED BY <3>2 DEF Calm, Within, JustStarted, AnsweredOk
    <2>4. QED BY <1>12, <2>1, <2>2, <2>3
  <1>13. CASE Reply
    <2>1. /\ req' = NoReq /\ last' = [op |-> req.op, errs |-> req.errs] /\ req.plan = <<>>
          /\ UNCHANGED <<config, docker, stranded, reused, disturbed>>
      BY <1>13 DEF Reply, memory
    <2>2. JustStarted' => Calm("workersSweep")
      <3>1. JustStarted' => req.op \in StartOps /\ ~req.errs /\ ~disturbed
        BY <2>1 DEF JustStarted, AnsweredOk
      <3>2. req.op \in StartOps => req.phase = "workersSweep"
        BY <2>1, StartEnds DEF SInv, StartRest
      <3>3. QED BY <3>1, <3>2 DEF Calm, Within
    <2>3. JustStarted' => \A k \in Wanted(Workers) : Placed(k)'
      BY <2>1, <2>2, PlacedQuiet DEF PInv, PlacedWorkers
    <2>4. QED BY <1>2, <2>1, <2>3 DEF Calm, Within, NoReq
  <1>14. CASE NextPhase
    <2> DEFINE phase == Head(req.plan)
    <2>1. /\ req'.op = req.op /\ req'.phase = phase /\ req'.errs = req.errs
          /\ call.at = "idle" /\ todo = {} /\ todo' = Todo(phase) /\ phase # "idle" /\ phase # "discover"
          /\ UNCHANGED <<config, docker, stranded, reused, disturbed>> /\ req.plan # <<>>
      BY <1>14 DEF NextPhase, PhaseDone, IInv, Typed, PlanOK, Loops, ghosts
    <2>2. CASE req.op \notin StartOps
      BY <1>4, <2>1, <2>2
    <2>3. CASE req.op \in StartOps /\ phase = "workersUp"
      <3>1. todo' = Wanted(Workers)
        BY <2>1, <2>3 DEF Todo
      <3>2. QED BY <1>2, <2>1, <2>3, <3>1 DEF Calm, Within, JustStarted, AnsweredOk
    <2>4. CASE req.op \in StartOps /\ phase = "workersSweep"
      <3>1. req.phase = "workersUp"
        BY <2>1, <2>4, StartEnds DEF SInv, StartRest
      <3>2. Calm("workersSweep")' => \A k \in Wanted(Workers) : Placed(k)
        BY <2>1, <3>1 DEF PInv, PlacedWorkers, Calm, Within, Busy
      <3>3. Calm("workersSweep")' => \A k \in Wanted(Workers) : Placed(k)'
        BY <2>1, <3>2, PlacedQuiet
      <3>4. QED BY <1>2, <2>1, <2>4, <3>3 DEF Calm, Within, JustStarted, AnsweredOk
    <2>5. QED BY <1>3, <2>1, <2>2, <2>3, <2>4
  <1>15. CASE UNCHANGED vars
    <2>1. /\ UNCHANGED <<config, docker, stranded, reused, disturbed, req, call, todo, last, alive>>
      BY <1>15 DEF vars, memory, control, ghosts
    <2>2. /\ Calm("workersUp")' => Calm("workersUp")
          /\ Calm("workersSweep")' \/ JustStarted' => Calm("workersSweep") \/ JustStarted
          /\ \A k : Busy(k)' <=> Busy(k)
      BY <2>1 DEF Calm, Within, JustStarted, AnsweredOk, Busy
    <2>3. QED BY <1>2, <2>1, <2>2, PlacedQuiet DEF PInv, PlacedWorkers
  <1>16. QED BY <1>5, <1>6, <1>7, <1>8, <1>9, <1>10, <1>11, <1>12, <1>13, <1>14, <1>15
             DEF Next, Serve

LEMMA PlacedInv == IInv /\ SInv /\ CallInv /\ TInv /\ PInv /\ [Next]_vars => PInv'
  <1> SUFFICES ASSUME IInv, SInv, CallInv, TInv, PInv, [Next]_vars PROVE PInv'
    OBVIOUS
  <1>1. StrandedOK'
    BY StrandedInv DEF PInv
  <1>2. call'.at = "start" /\ call'.id \in WorkerID => OnNet(call.id)' /\ call'.id = call.id
    BY CallOnNet DEF PInv
  <1>3. QED BY <1>1, <1>2, PlacedWorkersInv DEF PInv, PlacedWorkers

LEMMA StartAlways == Spec => [](IInv /\ SInv /\ CallInv /\ TInv /\ PInv)
  <1>1. Init => SInv /\ CallInv /\ TInv
    BY DEF Init, NoReq, NoCall, EmptyMap, SInv, StartRest, Starting, StartPromise, AnsweredOk,
           StartOps, CallInv, TInv, WorkersRecorded, Brought, Within, Calm, JustStarted
  <1>2. Init => PInv
    BY DEF Init, NoReq, NoCall, EmptyMap, StartOps, PInv, StrandedOK, PlacedWorkers, Within, Calm,
           JustStarted, AnsweredOk
  <1>3. QED BY InitInv, NextInv, StartInv, CallInvNext, ThereInv, PlacedInv, <1>1, <1>2, PTL DEF Spec

(* After a POST / or an initial Start answered without errors, every worker    *)
(* the config asks for runs, with its image and in the network of its client   *)
(* as that runs now, unless a container exited by itself meanwhile.  A worker  *)
(* in another network, or in one that its client has left, is one that Start   *)
(* found there and took for good.                                              *)
THEOREM StartedWorkers == Spec => []WorkersStarted
  <1>1. TInv /\ PInv => WorkersStarted
    BY DEF TInv, Brought, WorkersThere, Matches, PInv, PlacedWorkers, Placed, OnNet, WorkersStarted
  <1>2. QED BY <1>1, StartAlways, PTL

(* ... and every client runs with its image, but one that is also filed under  *)
(* the nil config, which the sweep stops.                                      *)
THEOREM StartedClients == Spec => []ClientsStarted
  <1>1. TInv => ClientsStarted
    BY DEF TInv, Brought, ClientsThere, ClientsStarted
  <1>2. QED BY <1>1, StartAlways, PTL

-----------------------------------------------------------------------------
(* A worker that runs as it should is not touched by Start. *)

LEMMA Spared ==
    ASSUME NEW id, Running(id), NEW other, other # id, NEW want,
           docker' \in {docker, Stopped(other), Removed(other), Created(other, want), Started(other)}
    PROVE  id \in DOMAIN docker' /\ docker'[id].state = "running"
  <1>1. CASE docker' = docker
    BY <1>1 DEF Running
  <1>2. CASE docker' = Stopped(other)
    BY <1>2 DEF Stopped, InState, Running
  <1>3. CASE docker' = Removed(other)
    BY <1>3 DEF Removed, Del, Running
  <1>4. CASE docker' = Created(other, want)
    BY <1>4 DEF Created, Put, Running
  <1>5. CASE docker' = Started(other)
    BY <1>5 DEF Started, InState, Running
  <1>6. QED BY <1>1, <1>2, <1>3, <1>4, <1>5

(* Up works on containers that do not run as they should. *)
LEMMA UpSpares ==
    ASSUME IInv, CallInv, NEW id \in Wanted(Workers), Matches(id),
           Inspect \/ InspectUp \/ InspectFails \/ Remove \/ Create \/ Start
    PROVE  id \in DOMAIN docker' /\ docker'[id].state = "running"
  <1>1. Running(id) /\ id[1] \notin Clients
    <2>1. id \in WorkerID
      BY DEF Wanted, WorkerID
    <2>2. QED BY <2>1, Names DEF Matches
  <1>2. CASE Inspect \/ InspectUp \/ InspectFails
    BY <1>1, <1>2 DEF Inspect, InspectUp, InspectFails, Fault, Running
  <1>3. CASE Remove \/ Create \/ Start
    <2>1. call.at \in {"remove", "create", "start"}
      BY <1>3 DEF Remove, Create, Start, UpCall
    <2>2. \/ req.phase = "clientsUp" /\ call.id \in ClientID
          \/ req.phase = "workersUp"
      BY <2>1, Calling
    <2>3. call.id # id
      BY <1>1, <2>1, <2>2, Names DEF CallInv
    <2>4. docker' \in {docker, Removed(call.id), Created(call.id, WantOf(call.id)), Started(call.id)}
      BY <1>3 DEF Remove, Create, Start, UpCall, API, Refused, Fault
    <2>5. QED BY <1>1, <2>3, <2>4, Spared
  <1>4. QED BY <1>2, <1>3

(* The sweep of the clients stops clients, and that of the workers passes over *)
(* what is recorded up.                                                        *)
LEMMA SweepSpares ==
    ASSUME IInv, TInv, req.op \in StartOps, NEW id \in Wanted(Workers), Matches(id),
           NEW key \in todo, Sweep(key)
    PROVE  id \in DOMAIN docker' /\ docker'[id].state = "running"
  <1> PICK gone : gone = IF req.phase = "clientsSweep" THEN clients[key].id ELSE workers[key].id
    OBVIOUS
  <1>1. Running(id) /\ id[1] \notin Clients
    <2>1. id \in WorkerID
      BY DEF Wanted, WorkerID
    <2>2. QED BY <2>1, Names DEF Matches
  <1>2. docker' \in {docker, Stopped(gone)}
    BY DEF Sweep, Down, API, Refused, Fault
  <1>3. CASE req.phase = "clientsSweep"
    <2>1. key \in DOMAIN clients
      BY <1>3 DEF IInv, TodoOK
    <2>2. gone \in ClientID
      BY <1>3, <2>1 DEF IInv, Typed, ClientsOK
    <2>3. gone # id
      BY <1>1, <2>2, Names
    <2>4. QED BY <1>1, <1>2, <2>3, Spared
  <1>4. CASE req.phase = "workersSweep"
    <2>1. key \in DOMAIN workers /\ ~workers[key].up /\ UpNow(workers, id)
      BY <1>4 DEF TInv, WorkersRecorded, Within, DownKeys
    <2>2. gone = key
      BY <1>4, <2>1 DEF IInv, Typed, WorkersOK
    <2>3. gone # id
      BY <2>1, <2>2 DEF UpNow
    <2>4. QED BY <1>1, <1>2, <2>3, Spared
  <1>5. QED BY <1>3, <1>4 DEF Sweep, Visit

LEMMA StartSpares ==
    ASSUME IInv, SInv, CallInv, TInv, [Next]_vars, req.op \in StartOps,
           req.phase \in {"clientsUp", "clientsSweep", "workersUp", "workersSweep"},
           NEW id \in Wanted(Workers), Matches(id), budget'.exits = budget.exits
    PROVE  id \in DOMAIN docker' /\ docker'[id].state = "running"
  <1>1. CASE docker' = docker
    BY <1>1 DEF Matches, Running
  <1>2. CASE Inspect \/ InspectUp \/ InspectFails \/ Remove \/ Create \/ Start
    BY <1>2, UpSpares
  <1>3. CASE \E key \in todo : Sweep(key)
    BY <1>3, SweepSpares
  <1>4. ASSUME NEW x \in DOMAIN docker, Exit(x)
        PROVE  FALSE
    <2>1. budget.exits \in Nat /\ budget' = [budget EXCEPT !.exits = budget.exits + 1]
      BY <1>4, ManagerAssumption DEF Exit, IInv, Typed, BudgetOK
    <2>2. budget'.exits = budget.exits + 1
      BY <2>1 DEF IInv, Typed, BudgetOK
    <2>3. QED BY <2>1, <2>2
  <1>5. ASSUME NEW key \in todo,
               \/ StopClient(key) \/ StopWorker(key) \/ CleanClient(key) \/ CleanWorker(key)
               \/ DeleteClient(key) \/ DeleteWorker(key) \/ Kill(key)
        PROVE  FALSE
    BY <1>5 DEF StopClient, StopWorker, CleanClient, CleanWorker, DeleteClient, DeleteWorker,
                Kill, Visit
  <1>6. ASSUME NEW key \in todo, ClientUp(key) \/ WorkerUp(key) \/ WorkerUpNoClient(key)
        PROVE  docker' = docker
    BY <1>6 DEF ClientUp, WorkerUp, WorkerUpNoClient
  <1>7. \/ NextPhase \/ StopFailed \/ Reply \/ FatalStart \/ Discover \/ DiscoverFails
        \/ PanicListFails \/ Ask \/ Crash \/ UNCHANGED vars
        => docker' = docker
    BY DEF NextPhase, StopFailed, Reply, FatalStart, Discover, DiscoverFails, PanicListFails, Fault,
           Ask, Post, Boot, Request, Crash, vars
  <1>8. QED BY <1>1, <1>2, <1>3, <1>4, <1>5, <1>6, <1>7 DEF Next, Serve

(* While Start runs it neither stops nor replaces a worker whose container     *)
(* runs with the image of its section and names its client.                    *)
THEOREM ReusedWorkers == Spec => WorkersReused
  <1>1. IInv /\ SInv /\ CallInv /\ TInv /\ [Next]_vars =>
           \A id \in DOMAIN docker :
              ( /\ req.op \in StartOps /\ req.phase \in {"clientsUp", "clientsSweep", "workersUp", "workersSweep"}
                /\ id \in Wanted(Workers) /\ Matches(id)
                /\ budget'.exits = budget.exits )
              => id \in DOMAIN docker' /\ docker'[id].state = "running"
    BY StartSpares
  <1>2. QED BY <1>1, StartAlways, PTL DEF Spec, WorkersReused

=============================================================================
