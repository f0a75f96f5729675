------------------------------- MODULE Manager -------------------------------
(***************************************************************************)
(* The control manager (control.Manager) driving docker (docker.Manager).  *)
(*                                                                         *)
(* The manager keeps two Go maps in memory, clients and workers, of what   *)
(* it believes exists, and a loaded config of what should exist; docker    *)
(* keeps the containers.  A REST request is a plan of phases, a phase is   *)
(* a loop over a map or over the config, and an iteration is one or more   *)
(* docker API calls.  Between any two docker calls a container may exit    *)
(* and the control process may crash; a docker call may fail, with or      *)
(* without having had its effect.  Requests are served one at a time.      *)
(***************************************************************************)
EXTENDS Naturals, Sequences, FiniteSets

CONSTANTS
    Clients, Workers,   \* names of [clients.*] and [workers.*] sections
    Images,             \* docker images
    MaxCount,           \* bound on the Count of a section
    Nil,                \* the nil *ClientConfig of an unknown discovered client
    NoClient,           \* an empty Client setting, an empty NetworkMode
    Configs,            \* the configurations that may be loaded
    EmptyConfig,        \* the zero Config, before anything is loaded
    MaxFaults,          \* bound on docker API calls that fail
    MaxExits,           \* bound on containers that exit by themselves
    MaxCrashes          \* bound on crashes of the control process

Units == Clients \cup Workers
Instances == 1 .. MaxCount
ID == Units \X Instances
ClientID == Clients \X Instances
WorkerID == Workers \X Instances
ClientKey == (Clients \cup {Nil}) \X Instances

(***************************************************************************)
(* The settings of a section.  image stands for every setting that Equals  *)
(* compares exactly; rw is a Volume without VolumeReadonly; typed says     *)
(* that Type makes a valid config.ID, so that GetSub succeeds.             *)
(***************************************************************************)
UnitConfig == [known: BOOLEAN, count: 0 .. MaxCount, image: Images,
               client: Clients \cup {NoClient}, rw: BOOLEAN, typed: BOOLEAN]

(* A client attaches to no client, a worker has no volume. *)
Config == {cfg \in [Units -> UnitConfig] :
              /\ \A c \in Clients : cfg[c].client = NoClient
              /\ \A w \in Workers : ~cfg[w].rw}

ASSUME ManagerAssumption ==
    /\ Clients \cap Workers = {}
    /\ Nil \notin Units
    /\ NoClient \notin Units
    /\ MaxCount \in Nat /\ MaxFaults \in Nat /\ MaxExits \in Nat /\ MaxCrashes \in Nat
    /\ Configs \subseteq Config
    /\ EmptyConfig \in Configs

VARIABLES
    alive,      \* the control process runs
    config,     \* Manager.config
    clients,    \* Manager.clients: a map from the client's String() to its record
    workers,    \* Manager.workers
    docker,     \* the containers that exist, by name
    req,        \* the request being served: its name, filter, phases and errors
    todo,       \* what the current phase's loop has not visited
    call,       \* the docker.Manager.Up under way and where it is
    last,       \* history: the last request answered
    disturbed,  \* history: a container exited since that request began
    excused,    \* history: containers given up with an error, or overlooked by Discover
    forgiven,   \* history: those of them when a DELETE / began
    reused,     \* history: the workers that this Start took as it found them, running or not
    stranded,   \* history: containers that run in the network of a client that ended
    budget      \* the faults, exits and crashes so far

memory == <<alive, config, clients, workers>>
control == <<req, todo, call>>
ghosts == <<last, disturbed, excused, reused, forgiven>>
vars == <<memory, docker, stranded, control, ghosts, budget>>

Container == [state: {"created", "running", "exited"}, image: Images, rw: BOOLEAN,
              net: Clients \cup {NoClient}]   \* NetworkMode container:<client>
Record == [up: BOOLEAN, id: ID]
Want == [image: Images, rw: BOOLEAN, net: Clients \cup {NoClient}]
Phase == {"idle", "accept", "discover", "clientsUp", "clientsSweep", "workersUp",
          "workersSweep", "workersDown", "clientsDown", "check", "workersClean",
          "clientsClean", "workersDelete", "clientsDelete", "kill"}
Op == {"none", "boot", "bootStart", "start", "stop", "clean", "delete", "workersDelete",
       "clientsDelete", "panic"}

-----------------------------------------------------------------------------
(* Go maps. *)

Put(map, key, value) ==
    [k \in DOMAIN map \cup {key} |-> IF k = key THEN value ELSE map[k]]
Del(map, key) == [k \in DOMAIN map \ {key} |-> map[k]]
EmptyMap == [k \in {} |-> Nil]

(* The containers a record map speaks of. *)
Named(map) == {map[k].id : k \in DOMAIN map}
Tracked == Named(clients) \cup Named(workers)

AllDown_Unmarked(map) == map
AllDown(map) == [k \in DOMAIN map |-> [map[k] EXCEPT !.up = FALSE]]
DownKeys_All(map) == DOMAIN map
DownKeys(map) == {k \in DOMAIN map : ~map[k].up}

-----------------------------------------------------------------------------
(* What the loaded config asks for. *)

Wanted_FromZero(units) == {id \in units \X (0 .. MaxCount) :
                     config[id[1]].known /\ id[2] <= config[id[1]].count}
Wanted(units) == {id \in units \X Instances :
                     config[id[1]].known /\ id[2] <= config[id[1]].count}
WantOf(id) == [image |-> config[id[1]].image, rw |-> config[id[1]].rw,
               net |-> config[id[1]].client]

(* The container of the client that an instance of a worker attaches to. *)
NetOf(net, id) == <<net, id[2]>>

(* docker/config.go Equals: a new config without a network does not look at *)
(* the old one's; a mount that is not read-only comes back from docker with *)
(* RW set, which AddMount never sets.                                       *)
Equals_SameNet(want, container) == want.image = container.image /\ want.net = container.net
Equals(want, container) ==
    /\ want.image = container.image
    /\ ~want.rw /\ ~container.rw
    /\ want.net = NoClient \/ want.net = container.net

(* The loops over config.Clients and config.Workers visit the sections in any *)
(* order, and a section's instances from 1 up.                                *)
NextUp(ids) == {id \in ids :
                   /\ \A other \in ids : other[1] = id[1] => id[2] <= other[2]
                   /\ \A other \in ids : other[1] # id[1] => <<other[1], 1>> \in ids}

-----------------------------------------------------------------------------
(* Docker. *)

Running(id) == id \in DOMAIN docker /\ docker[id].state = "running"
InState(id, state) == [docker EXCEPT ![id].state = state]

Stopped(id) == IF Running(id) THEN InState(id, "exited") ELSE docker
Removed(id) == Del(docker, id)
Created(id, want) ==
    Put(docker, id, [state |-> "created", image |-> want.image, rw |-> want.rw, net |-> want.net])
Started(id) == InState(id, "running")

(* A container joins the network namespace of its client's, which must run. *)
CanStart(id) == /\ id \in DOMAIN docker
                /\ docker[id].net = NoClient \/ Running(NetOf(docker[id].net, id))

(* A container stays in the network namespace that it joined when it started: *)
(* when that client stops or goes, and another runs under its name, the       *)
(* container is as it was to docker's eyes, and cut off.                      *)
RunsIn(containers, id) == id \in DOMAIN containers /\ containers[id].state = "running"
Stranded(containers) ==
    {id \in DOMAIN containers :
        /\ RunsIn(containers, id) /\ containers[id].net # NoClient
        /\ id \in stranded \/ ~RunsIn(containers, NetOf(containers[id].net, id))}
Stranding == stranded' = Stranded(docker')

(***************************************************************************)
(* A docker API call with its effect: it succeeds when it can, is refused  *)
(* when it cannot, or fails by itself, its effect done or not.             *)
(***************************************************************************)
Refused == UNCHANGED <<docker, stranded, budget, disturbed>>
Fault(effect) == /\ budget.faults < MaxFaults
                 /\ budget' = [budget EXCEPT !.faults = @ + 1]
                 /\ UNCHANGED disturbed
                 /\ docker' \in {docker, effect} /\ Stranding
API(possible, effect, failed) ==
    \/ ~failed /\ possible /\ docker' = effect /\ Stranding /\ UNCHANGED <<budget, disturbed>>
    \/ failed /\ ~possible /\ Refused
    \/ failed /\ Fault(IF possible THEN effect ELSE docker)

(* Down ignores ContainerNotRunning; NoSuchContainer is an error. *)
Down_Ignored(id, failed) == ~failed /\ (API(TRUE, Stopped(id), FALSE) \/ Fault(Stopped(id)))
Down(id, failed) == API(id \in DOMAIN docker, Stopped(id), failed)
Clean_StopOnly(id, failed) == API(id \in DOMAIN docker, Stopped(id), failed)
Clean(id, failed) == API(id \in DOMAIN docker, Removed(id), failed)

Blame(id, failed) == excused' = IF failed THEN excused \cup {id} ELSE excused

-----------------------------------------------------------------------------
NoCall == [at |-> "idle", id |-> Nil]
NoReq == [op |-> "none", phase |-> "idle", plan |-> <<>>, unit |-> Nil, inst |-> 0, errs |-> FALSE]

StartPlan_WorkersFirst == <<"workersUp", "workersSweep", "clientsUp", "clientsSweep">>
StartPlan == <<"clientsUp", "clientsSweep", "workersUp", "workersSweep">>
BootPlan(start) ==
    IF start THEN <<"discover", "clientsUp", "clientsSweep", "workersUp", "workersSweep">>
             ELSE <<"discover">>
Plan(op) == CASE op = "stop" -> <<"workersDown", "clientsDown">>
              [] op = "clean" -> <<"workersClean", "clientsClean">>
              [] op = "delete" -> <<"workersDown", "clientsDown", "check", "workersClean", "clientsClean">>
              [] op = "workersDelete" -> <<"workersDelete">>
              [] op = "clientsDelete" -> <<"clientsDelete">>
              [] op = "panic" -> <<"kill">>

Init ==
    /\ alive = FALSE
    /\ config = EmptyConfig
    /\ clients = EmptyMap /\ workers = EmptyMap
    /\ docker = EmptyMap
    /\ req = NoReq /\ todo = {} /\ call = NoCall
    /\ last = [op |-> "none", errs |-> FALSE]
    /\ disturbed = FALSE
    /\ excused = {} /\ forgiven = {} /\ reused = EmptyMap /\ stranded = {}
    /\ budget = [faults |-> 0, exits |-> 0, crashes |-> 0]

(* A request is accepted only while no other is served. *)
Begin(op, plan, unit, inst) ==
    /\ req.phase = "idle"
    /\ req' = [op |-> op, phase |-> "accept", plan |-> plan, unit |-> unit,
               inst |-> inst, errs |-> FALSE]
    /\ todo' = {} /\ call' = NoCall
    /\ disturbed' = FALSE
    /\ last' = [op |-> "none", errs |-> FALSE]
    /\ reused' = EmptyMap
    /\ forgiven' = IF op = "delete" THEN excused ELSE {}

(* main: load the config file, if there is one, Discover, and Start with --start. *)
Boot(cfg, start) ==
    /\ ~alive
    /\ alive' = TRUE
    /\ config' = cfg
    /\ Begin(IF start THEN "bootStart" ELSE "boot", BootPlan(start), Nil, 0)
    /\ UNCHANGED <<clients, workers, docker, stranded, excused, budget>>

(* POST /: the config is replaced before Start looks at it. *)
Post(cfg) ==
    /\ alive
    /\ Begin("start", StartPlan, Nil, 0)
    /\ config' = cfg
    /\ UNCHANGED <<alive, clients, workers, docker, stranded, excused, budget>>

(* The requests without a body; the deletes filter on a section and an instance. *)
Request(op, unit, inst) ==
    /\ alive
    /\ op \in {"stop", "clean", "delete", "workersDelete", "clientsDelete", "panic"}
    /\ op = "workersDelete" => unit \in Workers \cup {Nil}
    /\ op = "clientsDelete" => unit \in Clients \cup {Nil}
    /\ op \notin {"workersDelete", "clientsDelete"} => unit = Nil
    /\ unit = Nil => inst = 0
    /\ Begin(op, Plan(op), unit, inst)
    /\ UNCHANGED <<memory, docker, stranded, excused, budget>>

-----------------------------------------------------------------------------
(* Moving from phase to phase. *)

PhaseDone == req.phase # "idle" /\ todo = {} /\ call.at = "idle"

(* A record that a DELETE's filter selects; one without a config only by "any". *)
Selected_AnyInst(key) == req.unit \in {Nil, key[1]}
Selected(key) == /\ req.unit \in {Nil, key[1]}
                 /\ req.inst \in {0, key[2]}

Todo(phase) ==
    CASE phase = "clientsUp" -> Wanted(Clients)
      [] phase = "workersUp" -> Wanted(Workers)
      [] phase = "clientsSweep" -> DownKeys(clients)
      [] phase = "workersSweep" -> DownKeys(workers)
      [] phase = "clientsDown" -> DOMAIN clients
      [] phase = "workersDown" -> DOMAIN workers
      [] phase = "clientsClean" -> DownKeys(clients)
      [] phase = "workersClean" -> DownKeys(workers)
      [] phase = "clientsDelete" -> {k \in DOMAIN clients : Selected(k)}
      [] phase = "workersDelete" -> {k \in DOMAIN workers : Selected(k)}
      [] phase = "kill" -> {id \in DOMAIN docker : docker[id].state = "running"}
      [] OTHER -> {}

(* Entering a loop; Start marks every record down before its loop, and the   *)
(* list that Panic works on may fail, which ends the request with the error. *)
NextPhase ==
    /\ PhaseDone
    /\ req.plan # <<>>
    /\ Head(req.plan) # "discover"
    /\ ~(Head(req.plan) = "check" /\ req.errs)
    /\ req' = [req EXCEPT !.phase = Head(req.plan), !.plan = Tail(req.plan)]
    /\ todo' = Todo(Head(req.plan))
    /\ clients' = IF Head(req.plan) = "clientsUp" THEN AllDown(clients) ELSE clients
    /\ workers' = IF Head(req.plan) = "workersUp" THEN AllDown(workers) ELSE workers
    /\ UNCHANGED <<alive, config, docker, stranded, call, ghosts, budget>>

(* DELETE / answers 500 after Stop with errors and does not Clean. *)
StopFailed ==
    /\ PhaseDone
    /\ req.plan # <<>> /\ Head(req.plan) = "check" /\ req.errs
    /\ req' = [req EXCEPT !.plan = <<>>]
    /\ UNCHANGED <<memory, docker, stranded, todo, call, ghosts, budget>>

(* The answer.  Errors of the initial Start are fatal to the process. *)
Crashed == /\ alive' = FALSE
           /\ config' = EmptyConfig
           /\ clients' = EmptyMap /\ workers' = EmptyMap
           /\ req' = NoReq /\ todo' = {} /\ call' = NoCall
           /\ last' = [op |-> "none", errs |-> FALSE]
           /\ reused' = EmptyMap /\ forgiven' = {}

Reply ==
    /\ PhaseDone /\ req.plan = <<>>
    /\ ~(req.op = "bootStart" /\ req.errs)
    /\ last' = [op |-> req.op, errs |-> req.errs]
    /\ req' = NoReq
    /\ UNCHANGED <<memory, docker, stranded, todo, call, disturbed, excused, reused,
                   forgiven, budget>>

FatalStart ==
    /\ PhaseDone /\ req.plan = <<>>
    /\ req.op = "bootStart" /\ req.errs
    /\ Crashed
    /\ UNCHANGED <<docker, stranded, disturbed, excused, budget>>

-----------------------------------------------------------------------------
(* Discover: List gives every container of ours, running or not, in some     *)
(* order.  A client is recorded under its section, or under the nil config   *)
(* if there is none, where the last one listed stays; a worker of an unknown *)
(* section, or of one whose Type is no config.ID, is skipped.                *)

ClientKeyOf(id) == <<IF config[id[1]].known THEN id[1] ELSE Nil, id[2]>>
Recognized(id) == config[id[1]].known /\ config[id[1]].typed

(* What Discover may know of and not record. *)
Overlooked == {id \in DOMAIN docker : IF id[1] \in Workers THEN ~Recognized(id)
                                                         ELSE ~config[id[1]].known}

DiscoveredClients ==
    LET found == DOMAIN docker \cap ClientID
        keys == {ClientKeyOf(id) : id \in found}
    IN  {map \in [keys -> [up: {FALSE}, id: found]] :
            \A k \in keys : ClientKeyOf(map[k].id) = k}

Discover ==
    /\ PhaseDone /\ req.plan # <<>> /\ Head(req.plan) = "discover"
    /\ req' = [req EXCEPT !.phase = "discover", !.plan = Tail(req.plan)]
    /\ clients' \in DiscoveredClients
    /\ workers' = [id \in {x \in DOMAIN docker \cap WorkerID : Recognized(x)} |->
                      [up |-> FALSE, id |-> id]]
    /\ excused' = Overlooked \ (Named(clients') \cup Named(workers'))
    /\ UNCHANGED <<alive, config, docker, stranded, todo, call, last, disturbed, reused,
                   forgiven, budget>>

DiscoverFails ==
    /\ PhaseDone /\ req.plan # <<>> /\ Head(req.plan) = "discover"
    /\ Fault(docker)
    /\ Crashed
    /\ UNCHANGED excused

-----------------------------------------------------------------------------
(* docker.Manager.Up, one docker call at a time. *)

Visit(phase, id) ==
    /\ req.phase = phase /\ call.at = "idle"
    /\ id \in todo
    /\ todo' = todo \ {id}

(* clientUp and workerUp after Up: a client is recorded if it is up, a worker *)
(* always; and the worker's GetSub may still refuse its Type.                 *)
UpRecorded(id, failed) ==
    /\ IF id[1] \in Clients
       THEN /\ clients' = IF failed THEN clients ELSE Put(clients, id, [up |-> TRUE, id |-> id])
            /\ UNCHANGED workers
       ELSE /\ workers' = Put(workers, id, [up |-> TRUE, id |-> id])
            /\ UNCHANGED clients
    /\ req' = [req EXCEPT !.errs = @ \/ failed \/ (id[1] \in Workers /\ ~config[id[1]].typed)]
    /\ excused' = IF failed /\ id[1] \in Clients THEN excused \cup {id} ELSE excused \ {id}
    /\ UNCHANGED <<alive, config, last, forgiven>>

UpDone_Retry(id, failed) ==
    call' = (IF failed THEN [at |-> "inspect", id |-> id] ELSE NoCall) /\ UpRecorded(id, failed)
UpDone(id, failed) == call' = NoCall /\ UpRecorded(id, failed)

ClientUp(id) ==
    /\ Visit("clientsUp", id)
    /\ id \in NextUp(todo)
    /\ call' = [at |-> "inspect", id |-> id]
    /\ UNCHANGED <<memory, docker, stranded, req, ghosts, budget>>

(* GetClient finds a record, whatever the state of its container. *)
HasClient(id) == \/ config[id[1]].client = NoClient
                 \/ NetOf(config[id[1]].client, id) \in DOMAIN clients

WorkerUp(id) ==
    /\ Visit("workersUp", id)
    /\ id \in NextUp(todo)
    /\ HasClient(id)
    /\ call' = [at |-> "inspect", id |-> id]
    /\ UNCHANGED <<memory, docker, stranded, req, ghosts, budget>>

WorkerUpNoClient(id) ==
    /\ Visit("workersUp", id)
    /\ id \in NextUp(todo)
    /\ ~HasClient(id)
    /\ UpDone(id, TRUE)
    /\ UNCHANGED <<docker, stranded, disturbed, reused, budget>>

Reuse(id, running) ==
    reused' = IF id[1] \in Workers THEN Put(reused, id, running) ELSE reused

Inspect ==
    /\ call.at = "inspect"
    /\ ~(Running(call.id) /\ Equals(WantOf(call.id), docker[call.id]))
    /\ call' = [call EXCEPT !.at =
                   IF call.id \notin DOMAIN docker THEN "create"
                   ELSE IF Equals(WantOf(call.id), docker[call.id]) THEN "start" ELSE "remove"]
    /\ IF call'.at = "start" THEN Reuse(call.id, FALSE) ELSE UNCHANGED reused
    /\ UNCHANGED <<memory, docker, stranded, req, todo, last, disturbed, excused, forgiven,
                   budget>>

(* Nothing to do. *)
InspectUp ==
    /\ call.at = "inspect"
    /\ Running(call.id) /\ Equals(WantOf(call.id), docker[call.id])
    /\ UpDone(call.id, FALSE)
    /\ Reuse(call.id, TRUE)
    /\ UNCHANGED <<docker, stranded, todo, disturbed, budget>>

InspectFails ==
    /\ call.at = "inspect"
    /\ Fault(docker)
    /\ UpDone(call.id, TRUE)
    /\ UNCHANGED <<todo, reused>>

(* One call of Up's sequence: an error ends Up, success leads to the next. *)
UpCall(at, possible, effect, next) ==
    /\ call.at = at
    /\ \/ /\ API(possible, effect, FALSE)
          /\ call' = [call EXCEPT !.at = next]
          /\ UNCHANGED <<memory, req, last, excused, forgiven>>
       \/ /\ API(possible, effect, TRUE)
          /\ UpDone(call.id, TRUE)
    /\ UNCHANGED <<todo, reused>>

Remove == UpCall("remove", call.id \in DOMAIN docker, Removed(call.id), "create")
Create == UpCall("create", call.id \notin DOMAIN docker, Created(call.id, WantOf(call.id)), "start")

Start ==
    /\ call.at = "start"
    /\ \E failed \in BOOLEAN :
          /\ API(CanStart(call.id), Started(call.id), failed)
          /\ UpDone(call.id, failed)
    /\ UNCHANGED <<todo, reused>>

-----------------------------------------------------------------------------
(* The loops over the records. *)

Failed_LastOnly(failed) == req' = [req EXCEPT !.errs = failed]
Failed(failed) == req' = [req EXCEPT !.errs = @ \/ failed]

(* sweepClients and sweepWorkers: Down what Start did not bring up. *)
Sweep(key) ==
    /\ \/ Visit("clientsSweep", key) \/ Visit("workersSweep", key)
    /\ LET id == IF req.phase = "clientsSweep" THEN clients[key].id ELSE workers[key].id
       IN  \E failed \in BOOLEAN : Down(id, failed) /\ Failed(failed)
    /\ UNCHANGED <<memory, call, last, excused, reused, forgiven>>

(* ClientDown(nil) and WorkerDown(nil). *)
StopClient(key) ==
    /\ Visit("clientsDown", key)
    /\ clients' = [clients EXCEPT ![key].up = FALSE]
    /\ \E failed \in BOOLEAN : Down(clients[key].id, failed) /\ Failed(failed)
    /\ UNCHANGED <<alive, config, workers, call, last, excused, reused, forgiven>>

StopWorker(key) ==
    /\ Visit("workersDown", key)
    /\ workers' = [workers EXCEPT ![key].up = FALSE]
    /\ \E failed \in BOOLEAN : Down(workers[key].id, failed) /\ Failed(failed)
    /\ UNCHANGED <<alive, config, clients, call, last, excused, reused, forgiven>>

(* WorkerClean and ClientClean forget the record even if docker refuses. *)
CleanClient(key) ==
    /\ Visit("clientsClean", key)
    /\ \E failed \in BOOLEAN :
          /\ Clean(clients[key].id, failed)
          /\ Failed(failed) /\ Blame(clients[key].id, failed)
    /\ clients' = Del(clients, key)
    /\ UNCHANGED <<alive, config, workers, call, last, reused, forgiven>>

CleanWorker(key) ==
    /\ Visit("workersClean", key)
    /\ \E failed \in BOOLEAN :
          /\ Clean(workers[key].id, failed)
          /\ Failed(failed) /\ Blame(workers[key].id, failed)
    /\ workers' = Del(workers, key)
    /\ UNCHANGED <<alive, config, clients, call, last, reused, forgiven>>

(* WorkerDelete and ClientDelete keep the record and return at the first error. *)
DeleteClient(key) ==
    /\ req.phase = "clientsDelete" /\ key \in todo
    /\ \E failed \in BOOLEAN :
          /\ Clean(clients[key].id, failed)
          /\ Failed(failed)
          /\ clients' = IF failed THEN clients ELSE Del(clients, key)
          /\ todo' = IF failed THEN {} ELSE todo \ {key}
    /\ UNCHANGED <<alive, config, workers, call, last, excused, reused, forgiven>>

DeleteWorker(key) ==
    /\ req.phase = "workersDelete" /\ key \in todo
    /\ \E failed \in BOOLEAN :
          /\ Clean(workers[key].id, failed)
          /\ Failed(failed)
          /\ workers' = IF failed THEN workers ELSE Del(workers, key)
          /\ todo' = IF failed THEN {} ELSE todo \ {key}
    /\ UNCHANGED <<alive, config, clients, call, last, excused, reused, forgiven>>

(* Panic kills what the list showed running and leaves every record as it is. *)
Kill(id) ==
    /\ Visit("kill", id)
    /\ \E failed \in BOOLEAN : API(Running(id), Stopped(id), failed) /\ Failed(failed)
    /\ UNCHANGED <<memory, call, last, excused, reused, forgiven>>

PanicListFails ==
    /\ PhaseDone /\ req.plan # <<>> /\ Head(req.plan) = "kill"
    /\ Fault(docker)
    /\ req' = [req EXCEPT !.plan = <<>>, !.errs = TRUE]
    /\ UNCHANGED <<memory, todo, call, last, excused, reused, forgiven>>

-----------------------------------------------------------------------------
(* What happens around the manager. *)

Exit(id) ==
    /\ Running(id) /\ budget.exits < MaxExits
    /\ docker' = Stopped(id) /\ Stranding
    /\ budget' = [budget EXCEPT !.exits = @ + 1]
    /\ disturbed' = TRUE
    /\ UNCHANGED <<memory, control, last, excused, reused, forgiven>>

Crash ==
    /\ alive /\ budget.crashes < MaxCrashes
    /\ Crashed
    /\ budget' = [budget EXCEPT !.crashes = @ + 1]
    /\ UNCHANGED <<docker, stranded, disturbed, excused>>

Serve ==
    \/ NextPhase \/ StopFailed \/ Reply \/ FatalStart \/ Discover \/ DiscoverFails
    \/ Inspect \/ InspectUp \/ InspectFails \/ Remove \/ Create \/ Start \/ PanicListFails
    \/ \E key \in todo :
          \/ ClientUp(key) \/ WorkerUp(key) \/ WorkerUpNoClient(key) \/ Sweep(key)
          \/ StopClient(key) \/ StopWorker(key) \/ CleanClient(key) \/ CleanWorker(key)
          \/ DeleteClient(key) \/ DeleteWorker(key) \/ Kill(key)

Ask ==
    \/ \E cfg \in Configs : Post(cfg) \/ \E start \in BOOLEAN : Boot(cfg, start)
    \/ \E op \in Op, unit \in Units \cup {Nil}, inst \in 0 .. MaxCount : Request(op, unit, inst)

Next == Serve \/ Ask \/ Crash \/ \E id \in DOMAIN docker : Exit(id)

(* A handler that runs goes on running: the goroutine is never descheduled for good. *)
Spec == Init /\ [][Next]_vars /\ WF_vars(Serve)
-----------------------------------------------------------------------------
(* Properties. *)

TypeOK ==
    /\ alive \in BOOLEAN
    /\ config \in Configs
    /\ DOMAIN clients \subseteq ClientKey
    /\ \A k \in DOMAIN clients : clients[k] \in [up: BOOLEAN, id: ClientID]
    /\ DOMAIN workers \subseteq WorkerID
    /\ \A k \in DOMAIN workers : workers[k] \in Record /\ workers[k].id = k
    /\ DOMAIN docker \subseteq ID
    /\ \A id \in DOMAIN docker : docker[id] \in Container
    /\ req \in [op: Op, phase: Phase, plan: Seq(Phase), unit: Units \cup {Nil},
               inst: 0 .. MaxCount, errs: BOOLEAN]
    /\ todo \subseteq ClientKey \cup ID
    /\ call \in [at: {"idle", "inspect", "remove", "create", "start"}, id: ID \cup {Nil}]
    /\ call.at # "idle" => call.id \in ID
    /\ last \in [op: Op, errs: BOOLEAN]
    /\ disturbed \in BOOLEAN
    /\ excused \subseteq ID /\ forgiven \subseteq ID /\ stranded \subseteq ID
    /\ DOMAIN reused \subseteq WorkerID /\ \A k \in DOMAIN reused : reused[k] \in BOOLEAN
    /\ budget \in [faults: 0 .. MaxFaults, exits: 0 .. MaxExits, crashes: 0 .. MaxCrashes]

(* The last request answered was one of ops and reported no error. *)
AnsweredOk(ops) == alive /\ req.phase = "idle" /\ last.op \in ops /\ ~last.errs

StartOps == {"start", "bootStart"}
JustStarted == AnsweredOk(StartOps) /\ ~disturbed

(* What Equals sees of a container that runs as its section asks: of the      *)
(* network the client's name, and nothing where the section names no client.  *)
Matches(id) == /\ Running(id)
               /\ docker[id].image = config[id[1]].image
               /\ config[id[1]].client \in {NoClient, docker[id].net}

(* A Discover'ed client without a section lives under "<nil>", a key Start  *)
(* does not overwrite.                                                      *)
Shadowed(id) == \E i \in Instances :
                   <<Nil, i>> \in DOMAIN clients /\ clients[<<Nil, i>>].id = id

(* After a POST / or an initial Start without errors every configured worker *)
(* runs, with the image the config asks, and in the network of its section's *)
(* client as that runs now.  Only a worker that Start took as it found it may *)
(* differ, and only as Equals overlooks: it keeps a client that its section   *)
(* no longer names, or, if it was found running, a network that its client,   *)
(* stopped or replaced since, has left.                                       *)
WorkersStarted == JustStarted =>
    \A id \in Wanted(Workers) :
        /\ Running(id) /\ docker[id].image = config[id[1]].image
        /\ docker[id].net # config[id[1]].client =>
              id \in DOMAIN reused /\ config[id[1]].client = NoClient
        /\ id \in stranded => id \in DOMAIN reused /\ reused[id]

(* ... and every configured client, but those a nil record shadows.          *)
ClientsStarted == JustStarted =>
    \A id \in Wanted(Clients) : Shadowed(id) \/ Matches(id)

(* ... and nothing else that the manager knows of runs: the sweeps stop what *)
(* the new config dropped.                                                   *)
OthersSwept == JustStarted =>
    \A id \in Tracked : Running(id) => id \in Wanted(Units)

(* A container that exists is in the manager's maps, or is the one that Up is *)
(* working on, or an error was reported about it, or Discover overlooked it.  *)
NoSilentOrphan ==
    alive /\ ~(req.op \in {"boot", "bootStart"} /\ req.phase = "accept") =>
        \A id \in DOMAIN docker :
            id \in Tracked \cup excused \/ (call.at # "idle" /\ call.id = id)

(* POST /stop without errors leaves nothing running that the manager knows of. *)
StopStops == AnsweredOk({"stop"}) => \A id \in Tracked : ~Running(id)

(* DELETE / without errors leaves no record, and no container but the ones    *)
(* that were given up on, or overlooked, before it began.                     *)
DeleteRemoves == AnsweredOk({"delete"}) =>
    Tracked = {} /\ DOMAIN docker \subseteq forgiven

(* POST /panic without errors leaves no container running, known or not.      *)
PanicKills == AnsweredOk({"panic"}) => \A id \in DOMAIN docker : ~Running(id)

(* Start re-uses what runs as it should: a worker's container that matches    *)
(* its section is neither stopped nor replaced while Start runs.              *)
WorkersReused ==
    [][\A id \in DOMAIN docker :
          ( /\ req.op \in StartOps /\ req.phase \in {"clientsUp", "clientsSweep", "workersUp", "workersSweep"}
            /\ id \in Wanted(Workers) /\ Matches(id)
            /\ budget'.exits = budget.exits )
          => id \in DOMAIN docker' /\ docker'[id].state = "running"]_vars

(* A DELETE of workers or of clients removes containers of the section and    *)
(* instance in its path only, and no container without its record.            *)
DeletesSelected ==
    [][req.phase \in {"workersDelete", "clientsDelete"} =>
          /\ \A id \in DOMAIN docker \ DOMAIN docker' :
                /\ req.unit \in {Nil, id[1]} /\ req.inst \in {0, id[2]}
                /\ id[1] \in IF req.phase = "workersDelete" THEN Workers ELSE Clients
          /\ \A id \in DOMAIN docker' :
                alive' /\ id \in Named(clients) \cup Named(workers)
                    => id \in Named(clients') \cup Named(workers')]_vars

(* A request is answered, or the process that serves it dies.                 *)
Answered == (req.phase # "idle") ~> (req.phase = "idle")

=============================================================================
