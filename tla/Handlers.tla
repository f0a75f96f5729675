------------------------------- MODULE Handlers -------------------------------
(***************************************************************************)
(* Requests of the REST API served concurrently, as net/http does.         *)
(*                                                                         *)
(* Each handler is a goroutine that runs Start, Stop, Clean or             *)
(* WorkerDelete of control.Manager on the shared maps, which no lock       *)
(* protects; a docker call and the change of the map that follows it are   *)
(* two steps.  A handler of GET / (StatusPage) reads along.  The workers   *)
(* alone are modelled here, which attach to no client and have one         *)
(* instance each; Manager has the clients, the faults and the exits.       *)
(***************************************************************************)
EXTENDS StatusPage, FiniteSets

CONSTANTS Handlers,   \* the requests that change something, at most this many at once
          MaxBusy,    \* bound on the requests served at once, GET / among them
          MaxRequests,\* bound on the requests
          Images, NoImage,
          Configs     \* the images of the configured workers, NoImage for no section

ASSUME HandlersAssumption ==
    /\ Configs \subseteq [Units -> Images \cup {NoImage}]
    /\ NoImage \notin Images
    /\ MaxBusy \in Nat /\ MaxRequests \in Nat

VARIABLES
    alive,      \* the control process runs
    config,     \* Manager.config
    workers,    \* Manager.workers: a worker's name to its record's up
    docker,     \* the containers that exist: their image, and whether they run
    h,          \* each handler's request, loop, place in it, and the config it ranges over
    todo,       \* what each handler's range has not visited
    held,       \* the handlers whose ContainerID still names a container
    requests,   \* the requests so far
    calm,       \* history: the requests that no other but GET / overlapped
    settled,    \* history: the last request was a calm start without errors
    lost,       \* history: containers created between a removal and the delete that follows it
    overlooked  \* history: containers without a section at Discover

memory == <<alive, config, workers>>
control == <<h, todo, held>>
history == <<calm, settled, lost, overlooked>>
vars == <<memory, docker, control, requests, history, pageVars>>

Op == {"none", "start", "stop", "clean", "delete", "workersDelete"}
NoSections == [u \in Units |-> NoImage]
NoRequest == [op |-> "none", loop |-> "none", at |-> "idle", unit |-> None,
              want |-> NoSections, errs |-> FALSE]
Wanted(cfg) == {u \in Units : cfg[u] # NoImage}

Put(map, key, value) ==
    [k \in DOMAIN map \cup {key} |-> IF k = key THEN value ELSE map[k]]
Del(map, key) == [k \in DOMAIN map \ {key} |-> map[k]]

Exists(u) == u \in DOMAIN docker
Running(u) == Exists(u) /\ docker[u].up
DockerUp == [u \in DOMAIN docker |-> docker[u].up]

Busy == {i \in Handlers : h[i].op # "none"}

Init ==
    /\ alive = FALSE
    /\ config \in Configs
    /\ workers = EmptyPage
    /\ docker \in UNION {[some -> [image: Images, up: BOOLEAN]] : some \in SUBSET Units}
    /\ h = [i \in Handlers |-> NoRequest] /\ todo = [i \in Handlers |-> {}] /\ held = {}
    /\ requests = 0 /\ calm = {} /\ settled = FALSE /\ lost = {} /\ overlooked = {}
    /\ PageInit

-----------------------------------------------------------------------------
(* Start-up, before the server listens: the config file and Discover. *)
Boot(cfg) ==
    /\ ~alive
    /\ alive' = TRUE
    /\ config' = cfg
    /\ workers' = [u \in DOMAIN docker \cap Wanted(cfg) |-> FALSE]
    /\ overlooked' = DOMAIN docker \ Wanted(cfg)
    /\ lost' = {}
    /\ UNCHANGED <<docker, control, requests, calm, settled, pageVars>>

(* Requests. *)
Begin(i, op, loop, range) ==
    /\ alive /\ h[i].op = "none"
    /\ Cardinality(Busy) + (IF get.at = "idle" THEN 0 ELSE 1) < MaxBusy
    /\ h' = [h EXCEPT ![i] = [NoRequest EXCEPT !.op = op, !.loop = loop, !.at = "visit"]]
    /\ todo' = [todo EXCEPT ![i] = range]
    /\ calm' = IF Busy = {} THEN {i} ELSE {}
    /\ settled' = FALSE
    /\ requests < MaxRequests /\ requests' = requests + 1
    /\ UNCHANGED <<alive, workers, docker, held, lost, overlooked, pageVars>>

(* POST /: the config is loaded; Start then marks all and begins its loop. *)
Post(i, cfg) == Begin(i, "start", "load", {}) /\ config' = cfg

Stop(i) == Begin(i, "stop", "down", DOMAIN workers) /\ UNCHANGED config
Clean(i) == Begin(i, "clean", "clean", DOMAIN workers) /\ UNCHANGED config
Delete(i) == Begin(i, "delete", "down", DOMAIN workers) /\ UNCHANGED config
DeleteWorkers(i, u) ==
    /\ Begin(i, "workersDelete", "remove", {v \in DOMAIN workers : u \in {None, v}})
    /\ UNCHANGED config

GetPage ==
    /\ alive /\ Cardinality(Busy) < MaxBusy
    /\ Get(DOMAIN workers)
    /\ requests < MaxRequests /\ requests' = requests + 1
    /\ UNCHANGED <<memory, docker, control, history>>

-----------------------------------------------------------------------------
(* A handler between two iterations, and the end of a loop. *)

At(i, at) == h[i].at = at
Visiting(i, loop, u) == At(i, "visit") /\ h[i].loop = loop /\ u \in todo[i]
Done(i) == h[i].op # "none" /\ At(i, "visit") /\ todo[i] = {}

Place(i, at, errs) ==
    h' = [h EXCEPT ![i].at = at, ![i].errs = @ \/ errs,
                   ![i].unit = IF at = "visit" THEN None ELSE @]
Goto(i, at) == Place(i, at, FALSE)
Failed(i, at) == Place(i, at, TRUE)
GotoUnit(i, at, u) ==
    /\ h' = [h EXCEPT ![i].at = at, ![i].unit = IF at = "visit" THEN None ELSE u]
    /\ todo' = [todo EXCEPT ![i] = @ \ {u}]
Loop(i, loop, want, range) ==
    /\ h' = [h EXCEPT ![i].loop = loop, ![i].want = want]
    /\ todo' = [todo EXCEPT ![i] = range]

Mark_Kept(i) ==
    /\ Done(i) /\ h[i].loop = "load"
    /\ Loop(i, "up", config, Wanted(config))
    /\ UNCHANGED <<memory, docker, held, requests, history, pageVars>>

(* markWorkers, and the range over the config that is loaded now. *)
Mark(i) ==
    /\ Done(i) /\ h[i].loop = "load"
    /\ workers' = [u \in DOMAIN workers |-> FALSE]
    /\ Loop(i, "up", config, Wanted(config))
    /\ UNCHANGED <<alive, config, docker, held, requests, history, pageVars>>

BeginSweep(i) ==
    /\ Done(i) /\ h[i].loop = "up"
    /\ Loop(i, "sweep", NoSections, DOMAIN workers)
    /\ UNCHANGED <<memory, docker, held, requests, history, pageVars>>

(* DELETE / goes on to Clean only if Stop had no errors. *)
BeginClean(i) ==
    /\ Done(i) /\ h[i].op = "delete" /\ h[i].loop = "down" /\ ~h[i].errs
    /\ Loop(i, "clean", NoSections, DOMAIN workers)
    /\ UNCHANGED <<memory, docker, held, requests, history, pageVars>>

Reply(i) ==
    /\ Done(i)
    /\ h[i].loop \in {"sweep", "clean", "remove"} \/ (h[i].loop = "down" /\ (h[i].op = "stop" \/ h[i].errs))
    /\ h' = [h EXCEPT ![i] = NoRequest]
    /\ calm' = calm \ {i}
    /\ settled' = (i \in calm /\ h[i].op = "start" /\ ~h[i].errs)
    /\ UNCHANGED <<memory, docker, todo, held, requests, lost, overlooked, pageVars>>

-----------------------------------------------------------------------------
(* The loop of WorkerUp: docker.Manager.Up, then the record. *)

UpVisit(i, u) ==
    /\ Visiting(i, "up", u)
    /\ GotoUnit(i, "inspect", u)
    /\ UNCHANGED <<memory, docker, held, requests, history, pageVars>>

Inspect(i) ==
    /\ At(i, "inspect")
    /\ LET u == h[i].unit
       IN  Goto(i, IF ~Exists(u) THEN "create"
                   ELSE IF docker[u].image # h[i].want[u] THEN "replace"
                   ELSE IF docker[u].up THEN "record" ELSE "start")
    /\ held' = IF Exists(h[i].unit) THEN held \cup {i} ELSE held
    /\ UNCHANGED <<memory, docker, todo, requests, history, pageVars>>

(* docker removes a container, and with it what ContainerIDs name it. *)
Removing(u) ==
    /\ docker' = Del(docker, u)
    /\ held' = held \ {i \in Handlers : h[i].unit = u}

(* Up removes and starts by ContainerID: a container of the same name is not it. *)
Replace(i) ==
    /\ At(i, "replace")
    /\ IF i \in held THEN Goto(i, "create") /\ Removing(h[i].unit)
                     ELSE Failed(i, "record") /\ UNCHANGED <<docker, held>>
    /\ UNCHANGED <<memory, todo, requests, history, pageVars>>

Create(i) ==
    /\ At(i, "create")
    /\ LET u == h[i].unit
       IN  IF Exists(u) THEN Failed(i, "record") /\ UNCHANGED <<docker, held, lost>>
           ELSE /\ Goto(i, "start")
                /\ docker' = Put(docker, u, [image |-> h[i].want[u], up |-> FALSE])
                /\ held' = held \cup {i}
                /\ lost' = IF \E j \in Handlers : At(j, "forget") /\ h[j].unit = u
                           THEN lost \cup {u} ELSE lost \ {u}
    /\ UNCHANGED <<memory, todo, requests, calm, settled, overlooked, pageVars>>

StartContainer(i) ==
    /\ At(i, "start")
    /\ IF i \in held /\ ~docker[h[i].unit].up
       THEN Goto(i, "record") /\ docker' = [docker EXCEPT ![h[i].unit].up = TRUE]
       ELSE Failed(i, "record") /\ UNCHANGED docker
    /\ UNCHANGED <<memory, todo, held, requests, history, pageVars>>

(* Go: a key added to a map while it is ranged over may be visited or not. *)
InRange(i) == h[i].op # "none" /\ h[i].loop \in {"sweep", "down", "clean", "remove"}

Record(i) ==
    /\ At(i, "record")
    /\ LET u == h[i].unit
       IN  /\ workers' = Put(workers, u, TRUE)
           /\ IF u \in DOMAIN workers THEN UNCHANGED <<todo, pageVars>>
              ELSE /\ \E meets \in SUBSET {j \in Handlers : InRange(j)} :
                         todo' = [j \in Handlers |-> IF j \in meets THEN todo[j] \cup {u} ELSE todo[j]]
                   /\ RangeMeets(u)
    /\ Goto(i, "visit")
    /\ held' = held \ {i}
    /\ UNCHANGED <<alive, config, docker, requests, history>>

-----------------------------------------------------------------------------
(* The loops over the records. *)

SweepVisit(i, u) ==
    /\ Visiting(i, "sweep", u)
    /\ GotoUnit(i, IF workers[u] THEN "visit" ELSE "stop", u)
    /\ UNCHANGED <<memory, docker, held, requests, history, pageVars>>

DownVisit(i, u) ==
    /\ Visiting(i, "down", u)
    /\ GotoUnit(i, "stop", u)
    /\ workers' = [workers EXCEPT ![u] = FALSE]
    /\ UNCHANGED <<alive, config, docker, held, requests, history, pageVars>>

StopContainer_Forgets(i) ==
    /\ At(i, "stop")
    /\ Goto(i, IF h[i].loop = "sweep" THEN "forget" ELSE "visit")
    /\ docker' = [u \in DOMAIN docker |-> [docker[u] EXCEPT !.up = @ /\ u # h[i].unit]]
    /\ UNCHANGED <<memory, todo, held, requests, history, pageVars>>
StopContainer(i) ==
    /\ At(i, "stop")
    /\ IF Exists(h[i].unit)
       THEN Goto(i, "visit") /\ docker' = [docker EXCEPT ![h[i].unit].up = FALSE]
       ELSE Failed(i, "visit") /\ UNCHANGED docker
    /\ UNCHANGED <<memory, todo, held, requests, history, pageVars>>

CleanVisit(i, u) ==
    /\ Visiting(i, "clean", u)
    /\ GotoUnit(i, IF workers[u] THEN "visit" ELSE "remove", u)
    /\ UNCHANGED <<memory, docker, held, requests, history, pageVars>>

DeleteVisit(i, u) ==
    /\ Visiting(i, "remove", u)
    /\ GotoUnit(i, "remove", u)
    /\ UNCHANGED <<memory, docker, held, requests, history, pageVars>>

(* WorkerClean forgets the record even so, WorkerDelete returns the error. *)
RemoveContainer(i) ==
    /\ At(i, "remove")
    /\ IF Exists(h[i].unit)
       THEN Goto(i, "forget") /\ Removing(h[i].unit) /\ UNCHANGED todo
       ELSE /\ Failed(i, IF h[i].loop = "clean" THEN "forget" ELSE "visit")
            /\ todo' = IF h[i].loop = "clean" THEN todo ELSE [todo EXCEPT ![i] = {}]
            /\ UNCHANGED <<docker, held>>
    /\ UNCHANGED <<memory, requests, history, pageVars>>

Forget(i) ==
    /\ At(i, "forget")
    /\ workers' = Del(workers, h[i].unit)
    /\ todo' = [j \in Handlers |-> IF InRange(j) THEN todo[j] \ {h[i].unit} ELSE todo[j]]
    /\ RangeForgets(h[i].unit)
    /\ Goto(i, "visit")
    /\ UNCHANGED <<alive, config, docker, held, requests, history>>

-----------------------------------------------------------------------------
(* The runtime ends a process that it catches writing a map that another      *)
(* goroutine reads or writes.                                                  *)
Writes(i) == h[i].at \in {"record", "forget"}
Touches(i) == Writes(i) \/ (InRange(i) /\ At(i, "visit"))

MapRace ==
    /\ alive
    /\ \E i \in Handlers : Writes(i) /\
          ((\E j \in Handlers \ {i} : Touches(j)) \/ get.at = "range")
    /\ alive' = FALSE
    /\ workers' = EmptyPage
    /\ h' = [i \in Handlers |-> NoRequest] /\ todo' = [i \in Handlers |-> {}] /\ held' = {}
    /\ calm' = {} /\ settled' = FALSE /\ lost' = {} /\ overlooked' = {}
    /\ PageLost
    /\ UNCHANGED <<config, docker, requests>>

Handle(i) ==
    \/ Mark(i) \/ BeginSweep(i) \/ BeginClean(i) \/ Reply(i)
    \/ Inspect(i) \/ Replace(i) \/ Create(i) \/ StartContainer(i) \/ Record(i)
    \/ StopContainer(i) \/ RemoveContainer(i) \/ Forget(i)
    \/ \E u \in todo[i] : \/ UpVisit(i, u) \/ SweepVisit(i, u) \/ DownVisit(i, u)
                          \/ CleanVisit(i, u) \/ DeleteVisit(i, u)

GetStep ==
    /\ PageStep \/ \E u \in left : Visit(u, workers[u], DockerUp) \/ ListFails(u, workers[u])
    /\ UNCHANGED <<memory, docker, control, requests, history>>

Ask ==
    \/ \E cfg \in Configs : Boot(cfg) \/ \E i \in Handlers : Post(i, cfg)
    \/ \E i \in Handlers : \/ Stop(i) \/ Clean(i) \/ Delete(i)
                           \/ \E u \in Units \cup {None} : DeleteWorkers(i, u)
    \/ GetPage

Next == Ask \/ GetStep \/ MapRace \/ \E i \in Handlers : Handle(i)

Spec == Init /\ [][Next]_vars

-----------------------------------------------------------------------------
(* Whatever overlapping requests left behind, a POST / that nothing overlaps   *)
(* and that answers without errors ends with every configured worker running   *)
(* with its image, and with nothing else running that the manager knows of.    *)
CalmStartSettles == settled /\ alive =>
    /\ \A u \in Wanted(config) : Running(u) /\ docker[u].image = config[u]
    /\ \A u \in DOMAIN workers \ Wanted(config) : ~Running(u)

(* Requests that overlap lose a container, so that it runs without a record,   *)
(* in one way only: it was created between a removal of the old one and the    *)
(* delete of the record that follows.                                          *)
Upping(u) == \E i \in Handlers : h[i].at \in {"start", "record"} /\ h[i].unit = u
LostOnlyToClean == alive =>
    \A u \in DOMAIN docker : u \in DOMAIN workers \cup lost \cup overlooked \/ Upping(u)

=============================================================================
