--------------------------- MODULE HandlersProofs ---------------------------
(* Requests served at once, for any workers, images, configurations, handlers  *)
(* and answers of InfluxDB: how a container may lose its record, what a later  *)
(* Start repairs, and what the status page shows.                              *)
EXTENDS Handlers, FiniteSetTheorems, WellFoundedInduction, TLAPS

-----------------------------------------------------------------------------
(* The maps, and the place of each handler in its loop.                        *)

UpPlaces == {"inspect", "replace", "create", "start", "record"}
Places == {"idle", "visit", "stop", "remove", "forget"} \cup UpPlaces
LoopNames == {"none", "load", "up", "sweep", "down", "clean", "remove"}
Handling == [op: Op, loop: LoopNames, at: Places, unit: Units \cup {None},
             want: [Units -> Images \cup {NoImage}], errs: BOOLEAN]

MapsOK ==
    /\ alive \in BOOLEAN /\ config \in Configs
    /\ DOMAIN workers \subseteq Units /\ \A u \in DOMAIN workers : workers[u] \in BOOLEAN
    /\ DOMAIN docker \subseteq Units
    /\ \A u \in DOMAIN docker : docker[u] \in [image: Images \cup {NoImage}, up: BOOLEAN]
HandlersOK ==
    /\ h \in [Handlers -> Handling]
    /\ todo \in [Handlers -> SUBSET Units]
    /\ held \subseteq Handlers /\ calm \subseteq Handlers /\ settled \in BOOLEAN
    /\ lost \subseteq Units /\ overlooked \subseteq Units

PlaceOK(r) ==
    /\ r.op = "none" <=> r.at = "idle"
    /\ r.op = "start" <=> r.loop \in {"load", "up", "sweep"}
    /\ r.op = "none" <=> r.loop = "none"
    /\ r.at \notin {"idle", "visit"} => r.unit \in Units
    /\ r.at \in UpPlaces => r.loop = "up"
    /\ r.at = "stop" => r.loop \in {"sweep", "down"}
    /\ r.at \in {"remove", "forget"} => r.loop \in {"clean", "remove"}

(* A ContainerID names a container from Inspect or Create until Record.        *)
HeldOK == \A i \in held : h[i].at \in {"replace", "start", "record"} /\ Exists(h[i].unit)

DeadOK == ~alive => (\A i \in Handlers : h[i].op = "none") /\ ~settled

Typed ==
    MapsOK /\ HandlersOK /\ HeldOK /\ DeadOK /\ \A i \in Handlers : PlaceOK(h[i])

-----------------------------------------------------------------------------
(* A record is deleted after its container was removed; what is there again by *)
(* then was created in between.                                                *)
Removed ==
    alive => \A i \in Handlers : At(i, "forget") => ~Exists(h[i].unit) \/ h[i].unit \in lost

LostInv == Typed /\ Removed /\ LostOnlyToClean

-----------------------------------------------------------------------------
(* A calm request is alone, and so is the state that it leaves.                *)
CalmAlone ==
    /\ \A i \in calm : h[i].op # "none" /\ \A j \in Handlers \ {i} : h[j].op = "none"
    /\ settled => \A j \in Handlers : h[j].op = "none"

(* A worker that a calm Start has brought up stays up, with its record.        *)
Good(u) == /\ u \in DOMAIN workers /\ workers[u]
           /\ Running(u) /\ docker[u].image = config[u]
OnlyWantedUp == \A u \in DOMAIN workers : workers[u] => u \in Wanted(config)

Bringing(r, rest) ==
    /\ r.want = config /\ rest \subseteq Wanted(config) /\ OnlyWantedUp
    /\ \A u \in Wanted(config) : Good(u) \/ u \in rest \/ (r.at # "visit" /\ r.unit = u)
    /\ r.at # "visit" => r.unit \in Wanted(config)
    /\ r.at = "start" /\ Exists(r.unit) => docker[r.unit].image = config[r.unit]
    /\ r.at = "record" => Running(r.unit) /\ docker[r.unit].image = config[r.unit]
Sweeping(r, rest) ==
    /\ OnlyWantedUp /\ \A u \in Wanted(config) : Good(u)
    /\ \A u \in DOMAIN workers \ Wanted(config) :
          u \in rest \/ (r.at = "stop" /\ r.unit = u) \/ ~Running(u)
    /\ r.at = "stop" => r.unit \notin Wanted(config)

Starting(i) == i \in calm /\ h[i].op = "start" /\ ~h[i].errs
CalmStart ==
    \A i \in Handlers : Starting(i) =>
        /\ h[i].loop = "up" => Bringing(h[i], todo[i])
        /\ h[i].loop = "sweep" => Sweeping(h[i], todo[i])

CalmInv == Typed /\ CalmAlone /\ CalmStart /\ CalmStartSettles

-----------------------------------------------------------------------------
(* The status page. *)

PageOK ==
    /\ get.at \in {"idle", "range", "detail"}
    /\ get.at = "detail" => get.unit \in DOMAIN page
    /\ get.at = "idle" => page = EmptyPage /\ indexed = {} /\ cached = EmptyPage
    /\ get.at # "idle" => urls \in Sections
    /\ left \subseteq Units /\ stayed \subseteq Units
    /\ DOMAIN page \subseteq Units
    /\ \A u \in DOMAIN page : page[u] = [state |-> page[u].state, stats |-> page[u].stats]
    /\ IsFiniteSet(influx) /\ influx \subseteq [type: Types, host: Hosts, inst: Units]

Visited == get.at # "idle" => stayed \subseteq left \cup DOMAIN page

(* docker's answer is kept; before there was one, every entry is an error.     *)
Asked ==
    /\ shot = shown
    /\ shot = None => \A u \in DOMAIN page : page[u].state = "error"

(* The cache has of each measurement asked for what one URL selects.           *)
Cached(type, u, rows) ==
    IF rows = {} THEN <<type, u>> \notin DOMAIN cached
    ELSE <<type, u>> \in DOMAIN cached /\ cached[<<type, u>>] = LastHost(rows)
CacheOK ==
    /\ DOMAIN cached \subseteq indexed \X Units
    /\ \A type \in indexed : \E v \in Units :
          urls[v].type = type /\ \A u \in Units : Cached(type, u, Rows(influx, urls[v], {u}))
ShownOK ==
    \A u \in DOMAIN page : page[u].stats # None =>
        KeyOf(u) \in DOMAIN cached /\ page[u].stats = cached[KeyOf(u)]

PageInv == PageOK /\ Visited /\ Asked /\ PageIsOneList /\ CacheOK /\ ShownOK

-----------------------------------------------------------------------------
(* What the helpers do to a handler. *)

Stands(i, at, unit, errs) ==
    /\ h' \in [Handlers -> Handling]
    /\ \A j \in Handlers \ {i} : h'[j] = h[j]
    /\ h'[i].op = h[i].op /\ h'[i].loop = h[i].loop /\ h'[i].want = h[i].want
    /\ h'[i].at = at /\ h'[i].unit = unit /\ h'[i].errs = errs

LEMMA Placed ==
    ASSUME HandlersOK, NEW i \in Handlers, NEW at \in Places, NEW errs \in BOOLEAN,
           Place(i, at, errs)
    PROVE  Stands(i, at, IF at = "visit" THEN None ELSE h[i].unit, h[i].errs \/ errs)
  <1>1. h[i] \in Handling /\ h \in [Handlers -> Handling]
    BY DEF HandlersOK
  <1>2. h'[i] = [op |-> h[i].op, loop |-> h[i].loop, at |-> at,
                 unit |-> IF at = "visit" THEN None ELSE h[i].unit,
                 want |-> h[i].want, errs |-> h[i].errs \/ errs]
    BY <1>1 DEF Place, Handling
  <1>3. h'[i] \in Handling
    BY <1>1, <1>2 DEF Handling
  <1>4. \A j \in Handlers \ {i} : h'[j] = h[j]
    BY <1>1 DEF Place
  <1>5. h' \in [Handlers -> Handling]
    BY <1>1, <1>3, <1>4 DEF Place
  <1>6. QED BY <1>2, <1>4, <1>5 DEF Stands

LEMMA WentTo ==
    ASSUME HandlersOK, NEW i \in Handlers, NEW at \in Places, Goto(i, at)
    PROVE  Stands(i, at, IF at = "visit" THEN None ELSE h[i].unit, h[i].errs)
  <1>1. h[i].errs \in BOOLEAN
    BY DEF HandlersOK, Handling
  <1>2. QED BY <1>1, Placed DEF Goto

LEMMA WentToUnit ==
    ASSUME HandlersOK, NEW i \in Handlers, NEW at \in Places, NEW u \in Units, GotoUnit(i, at, u)
    PROVE  /\ Stands(i, at, IF at = "visit" THEN None ELSE u, h[i].errs)
           /\ todo' \in [Handlers -> SUBSET Units]
           /\ todo'[i] = todo[i] \ {u} /\ \A j \in Handlers \ {i} : todo'[j] = todo[j]
  <1>1. h[i] \in Handling /\ h \in [Handlers -> Handling] /\ todo \in [Handlers -> SUBSET Units]
    BY DEF HandlersOK
  <1>2. h'[i] = [op |-> h[i].op, loop |-> h[i].loop, at |-> at,
                 unit |-> IF at = "visit" THEN None ELSE u, want |-> h[i].want, errs |-> h[i].errs]
    BY <1>1 DEF GotoUnit, Handling
  <1>3. h'[i] \in Handling
    BY <1>1, <1>2 DEF Handling
  <1>4. \A j \in Handlers \ {i} : h'[j] = h[j]
    BY <1>1 DEF GotoUnit
  <1>5. h' \in [Handlers -> Handling]
    BY <1>1, <1>3, <1>4 DEF GotoUnit
  <1>6. QED BY <1>1, <1>2, <1>4, <1>5 DEF Stands, GotoUnit

LEMMA Looped ==
    ASSUME HandlersOK, NEW i \in Handlers, NEW loop \in LoopNames,
           NEW want \in [Units -> Images \cup {NoImage}], NEW range \in SUBSET Units,
           Loop(i, loop, want, range)
    PROVE  /\ h' \in [Handlers -> Handling]
           /\ \A j \in Handlers \ {i} : h'[j] = h[j]
           /\ h'[i] = [h[i] EXCEPT !.loop = loop, !.want = want]
           /\ todo' \in [Handlers -> SUBSET Units]
           /\ todo'[i] = range /\ \A j \in Handlers \ {i} : todo'[j] = todo[j]
  <1>1. h[i] \in Handling /\ h \in [Handlers -> Handling] /\ todo \in [Handlers -> SUBSET Units]
    BY DEF HandlersOK
  <1>2. h'[i] = [h[i] EXCEPT !.loop = loop, !.want = want]
    BY <1>1 DEF Loop
  <1>3. h'[i] \in Handling
    BY <1>1, <1>2 DEF Handling
  <1>4. \A j \in Handlers \ {i} : h'[j] = h[j]
    BY <1>1 DEF Loop
  <1>5. h' \in [Handlers -> Handling]
    BY <1>1, <1>3, <1>4 DEF Loop
  <1>6. QED BY <1>1, <1>2, <1>4, <1>5 DEF Loop

-----------------------------------------------------------------------------
(* Types. *)

Others(i) == \A j \in Handlers \ {i} : h'[j] = h[j]

(* A step of one handler, by what it leaves to be shown. *)
LEMMA HandlerTyped ==
    ASSUME Typed, NEW i \in Handlers, h[i].op # "none",
           h' \in [Handlers -> Handling], Others(i), PlaceOK(h'[i]),
           alive' = alive, MapsOK', HeldOK', todo' \in [Handlers -> SUBSET Units],
           held' \subseteq Handlers, calm' \subseteq calm, settled' \in BOOLEAN,
           lost' \subseteq Units, overlooked' = overlooked
    PROVE  Typed'
  <1>1. alive' /\ DeadOK'
    BY DEF Typed, DeadOK, MapsOK
  <1>2. HandlersOK'
    BY DEF Typed, HandlersOK
  <1>3. \A j \in Handlers : PlaceOK(h'[j])
    BY DEF Typed, Others
  <1>4. QED BY <1>1, <1>2, <1>3 DEF Typed, PlaceOK

(* The handlers that do not move keep their ContainerIDs. *)
LEMMA HeldKept ==
    ASSUME Typed, NEW i \in Handlers, Others(i), held' \subseteq held,
           i \in held' => h'[i].at \in {"replace", "start", "record"} /\ h'[i].unit = h[i].unit,
           DOMAIN docker \subseteq DOMAIN docker'
    PROVE  HeldOK'
  BY DEF Typed, HeldOK, Others, Exists, HandlersOK

LEMMA ConfigTyped ==
    ASSUME MapsOK
    PROVE  /\ config \in [Units -> Images \cup {NoImage}] /\ Wanted(config) \subseteq Units
           /\ NoSections \in [Units -> Images \cup {NoImage}]
  BY HandlersAssumption DEF MapsOK, Wanted, NoSections

LEMMA NoneNotUnit == None \notin Units
  BY StatusPageAssumption

LEMMA MarkTyped == ASSUME Typed, NEW i \in Handlers, Mark(i) PROVE Typed'
  <1>1. HandlersOK /\ MapsOK /\ PlaceOK(h[i])
    BY DEF Typed
  <1>2. Loop(i, "up", config, Wanted(config)) /\ h[i].op # "none" /\ h[i].at = "visit" /\ h[i].loop = "load"
    BY DEF Mark, Done, At
  <1>3. /\ h' \in [Handlers -> Handling] /\ Others(i)
        /\ h'[i] = [h[i] EXCEPT !.loop = "up", !.want = config]
        /\ todo' \in [Handlers -> SUBSET Units]
    BY <1>1, <1>2, Looped, ConfigTyped DEF LoopNames, Others
  <1>4. h[i] \in Handling
    BY <1>1 DEF HandlersOK
  <1>5. PlaceOK(h'[i])
    BY <1>1, <1>2, <1>3, <1>4 DEF PlaceOK, Handling, UpPlaces
  <1>6. MapsOK'
    BY <1>1 DEF Mark, MapsOK
  <1>7. HeldOK'
    BY <1>2, <1>3, HeldKept DEF Mark, Typed, HeldOK
  <1>8. QED BY <1>1, <1>2, <1>3, <1>5, <1>6, <1>7, HandlerTyped DEF Mark, history, HandlersOK

LEMMA NextLoopTyped ==
    ASSUME Typed, NEW i \in Handlers, NEW loop \in {"sweep", "clean"},
           h[i].op # "none", h[i].at = "visit", h[i].op = "start" <=> loop = "sweep",
           Loop(i, loop, NoSections, DOMAIN workers), UNCHANGED <<memory, docker, held, history>>
    PROVE  Typed'
  <1>1. HandlersOK /\ MapsOK /\ PlaceOK(h[i])
    BY DEF Typed
  <1>2. DOMAIN workers \in SUBSET Units /\ NoSections \in [Units -> Images \cup {NoImage}]
    BY <1>1, ConfigTyped DEF MapsOK
  <1>3. /\ h' \in [Handlers -> Handling] /\ Others(i)
        /\ h'[i] = [h[i] EXCEPT !.loop = loop, !.want = NoSections]
        /\ todo' \in [Handlers -> SUBSET Units]
    <2>1. CASE loop = "sweep"
      BY <1>1, <1>2, <2>1, Looped DEF LoopNames, Others
    <2>2. CASE loop = "clean"
      BY <1>1, <1>2, <2>2, Looped DEF LoopNames, Others
    <2>3. QED BY <2>1, <2>2
  <1>4. h[i] \in Handling
    BY <1>1 DEF HandlersOK
  <1>5. PlaceOK(h'[i])
    BY <1>1, <1>3, <1>4 DEF PlaceOK, Handling, UpPlaces
  <1>6. MapsOK'
    BY <1>1 DEF memory, MapsOK
  <1>7. HeldOK'
    BY <1>3, HeldKept DEF Typed, HeldOK
  <1>8. QED BY <1>1, <1>3, <1>5, <1>6, <1>7, HandlerTyped DEF memory, history, HandlersOK

LEMMA ReplyTyped == ASSUME Typed, NEW i \in Handlers, Reply(i) PROVE Typed'
  <1>1. HandlersOK /\ MapsOK /\ PlaceOK(h[i]) /\ h[i].op # "none" /\ h[i].at = "visit"
    BY DEF Typed, Reply, Done, At
  <1>2. NoRequest \in Handling /\ PlaceOK(NoRequest)
    BY ConfigTyped, <1>1 DEF NoRequest, Handling, Op, LoopNames, Places, UpPlaces, PlaceOK
  <1>3. /\ h' \in [Handlers -> Handling] /\ Others(i) /\ h'[i] = NoRequest
    BY <1>1, <1>2 DEF Reply, HandlersOK, Others
  <1>4. MapsOK' /\ todo' \in [Handlers -> SUBSET Units] /\ held' \subseteq Handlers
    BY <1>1 DEF Reply, memory, MapsOK, HandlersOK
  <1>5. i \notin held
    BY <1>1 DEF Typed, HeldOK
  <1>6. HeldOK'
    BY <1>3, <1>5, HeldKept DEF Reply
  <1>7. calm' \subseteq calm /\ settled' \in BOOLEAN /\ lost' \subseteq Units /\ overlooked' = overlooked
    BY <1>1 DEF Reply, HandlersOK
  <1>8. QED BY <1>1, <1>2, <1>3, <1>4, <1>6, <1>7, HandlerTyped DEF Reply, memory

(* The steps that visit a worker. *)
LEMMA VisitTyped ==
    ASSUME Typed, NEW i \in Handlers, NEW u \in todo[i], NEW at \in Places \ {"idle"},
           h[i].at = "visit", GotoUnit(i, at, u),
           at \in UpPlaces => h[i].loop = "up" /\ at = "inspect",
           at = "stop" => h[i].loop \in {"sweep", "down"},
           at \in {"remove", "forget"} => h[i].loop \in {"clean", "remove"},
           UNCHANGED <<alive, config, docker, held, history>>, MapsOK'
    PROVE  Typed'
  <1>1. HandlersOK /\ MapsOK /\ PlaceOK(h[i]) /\ h[i] \in Handling /\ u \in Units
    BY DEF Typed, HandlersOK
  <1>2. /\ Stands(i, at, IF at = "visit" THEN None ELSE u, h[i].errs)
        /\ todo' \in [Handlers -> SUBSET Units]
    BY <1>1, WentToUnit
  <1>3. PlaceOK(h'[i])
    BY <1>1, <1>2 DEF PlaceOK, Stands
  <1>4. h[i].op # "none" /\ i \notin held
    BY <1>1 DEF PlaceOK, Typed, HeldOK
  <1>5. HeldOK'
    BY <1>2, <1>4, HeldKept DEF Stands, Others
  <1>6. QED BY <1>1, <1>2, <1>3, <1>4, <1>5, HandlerTyped DEF Stands, Others, history, HandlersOK

LEMMA VisitsTyped ==
    ASSUME Typed, NEW i \in Handlers, NEW u \in todo[i],
           UpVisit(i, u) \/ SweepVisit(i, u) \/ DownVisit(i, u) \/ CleanVisit(i, u) \/ DeleteVisit(i, u)
    PROVE  Typed'
  <1> USE DEF Visiting, At, Places, UpPlaces, memory
  <1>1. MapsOK
    BY DEF Typed
  <1>2. CASE UpVisit(i, u)
    BY <1>1, <1>2, VisitTyped DEF UpVisit, MapsOK
  <1>3. CASE SweepVisit(i, u)
    BY <1>1, <1>3, VisitTyped DEF SweepVisit, MapsOK
  <1>4. CASE DownVisit(i, u)
    <2>1. MapsOK'
      BY <1>1, <1>4 DEF DownVisit, MapsOK
    <2>2. QED BY <1>4, <2>1, VisitTyped DEF DownVisit
  <1>5. CASE CleanVisit(i, u)
    BY <1>1, <1>5, VisitTyped DEF CleanVisit, MapsOK
  <1>6. CASE DeleteVisit(i, u)
    BY <1>1, <1>6, VisitTyped DEF DeleteVisit, MapsOK
  <1>7. QED BY <1>2, <1>3, <1>4, <1>5, <1>6

(* The calls of docker. *)
LEMMA Removes ==
    ASSUME Typed, NEW i \in Handlers, Removing(h[i].unit), Others(i), h'[i].unit = h[i].unit
    PROVE  /\ i \notin held' /\ held' \subseteq held
           /\ DOMAIN docker' = DOMAIN docker \ {h[i].unit}
           /\ \A u \in DOMAIN docker' : docker'[u] = docker[u]
           /\ HeldOK'
  <1>1. /\ DOMAIN docker' = DOMAIN docker \ {h[i].unit}
        /\ \A u \in DOMAIN docker' : docker'[u] = docker[u]
    BY DEF Removing, Del
  <1>2. held' = held \ {j \in Handlers : h[j].unit = h[i].unit}
    BY DEF Removing
  <1>3. HeldOK'
    BY <1>1, <1>2 DEF Typed, HeldOK, Others, Exists, HandlersOK
  <1>4. QED BY <1>1, <1>2, <1>3

(* A call of Up, and what it makes of docker and of the ContainerIDs. *)
LEMMA UpTyped ==
    ASSUME Typed, NEW i \in Handlers, NEW at \in UpPlaces, NEW errs \in BOOLEAN,
           h[i].at \in UpPlaces, Stands(i, at, h[i].unit, errs),
           DOMAIN docker' \subseteq Units,
           \A u \in DOMAIN docker' : docker'[u] \in [image: Images \cup {NoImage}, up: BOOLEAN],
           HeldOK', held' \subseteq Handlers, lost' \subseteq Units,
           UNCHANGED <<memory, todo, calm, settled, overlooked>>
    PROVE  Typed'
  <1>1. HandlersOK /\ MapsOK /\ PlaceOK(h[i])
    BY DEF Typed
  <1>2. PlaceOK(h'[i]) /\ h[i].op # "none"
    BY <1>1 DEF PlaceOK, Stands, UpPlaces
  <1>3. MapsOK'
    BY <1>1 DEF MapsOK, memory
  <1>4. QED BY <1>1, <1>2, <1>3, HandlerTyped DEF Stands, Others, HandlersOK, memory

LEMMA InspectTyped == ASSUME Typed, NEW i \in Handlers, Inspect(i) PROVE Typed'
  <1> DEFINE u == h[i].unit
             at == IF ~Exists(u) THEN "create"
                   ELSE IF docker[u].image # h[i].want[u] THEN "replace"
                   ELSE IF docker[u].up THEN "record" ELSE "start"
  <1>1. HandlersOK /\ MapsOK /\ PlaceOK(h[i]) /\ h[i].at = "inspect" /\ h[i].errs \in BOOLEAN
    BY DEF Typed, Inspect, At, HandlersOK, Handling
  <1>2. at \in UpPlaces /\ at \in Places /\ Goto(i, at)
    BY DEF Inspect, UpPlaces, Places
  <1>3. Stands(i, at, u, h[i].errs)
    BY <1>1, <1>2, WentTo DEF UpPlaces
  <1>4. HeldOK'
    <2>1. i \notin held
      BY <1>1 DEF Typed, HeldOK
    <2>2. CASE Exists(u)
      BY <1>3, <2>2 DEF Inspect, Typed, HeldOK, Stands, Exists, HandlersOK
    <2>3. CASE ~Exists(u)
      BY <1>3, <2>1, <2>3 DEF Inspect, Typed, HeldOK, Stands, Exists, HandlersOK
    <2>4. QED BY <2>2, <2>3
  <1>5. held' \subseteq Handlers /\ UNCHANGED <<memory, docker, todo, history>>
    BY <1>1 DEF Inspect, HandlersOK
  <1> HIDE DEF at
  <1>6. QED BY <1>1, <1>2, <1>3, <1>4, <1>5, UpTyped DEF MapsOK, HandlersOK, history, UpPlaces

LEMMA ReplaceTyped == ASSUME Typed, NEW i \in Handlers, Replace(i) PROVE Typed'
  <1>1. HandlersOK /\ MapsOK /\ PlaceOK(h[i]) /\ h[i].at = "replace" /\ h[i].errs \in BOOLEAN
    BY DEF Typed, Replace, At, HandlersOK, Handling
  <1>2. UNCHANGED <<memory, todo, history>>
    BY DEF Replace
  <1>3. CASE i \in held
    <2>1. Goto(i, "create") /\ Removing(h[i].unit)
      BY <1>3 DEF Replace
    <2>2. Stands(i, "create", h[i].unit, h[i].errs)
      BY <1>1, <2>1, WentTo DEF Places, UpPlaces
    <2>3. /\ held' \subseteq held /\ DOMAIN docker' \subseteq DOMAIN docker
          /\ \A u \in DOMAIN docker' : docker'[u] = docker[u]
          /\ HeldOK'
      BY <2>1, <2>2, Removes DEF Stands, Others
    <2>4. QED BY <1>1, <1>2, <2>2, <2>3, UpTyped DEF MapsOK, HandlersOK, history, UpPlaces
  <1>4. CASE i \notin held
    <2>1. Failed(i, "record") /\ UNCHANGED <<docker, held>>
      BY <1>4 DEF Replace
    <2>2. Stands(i, "record", h[i].unit, TRUE)
      BY <1>1, <2>1, Placed DEF Places, UpPlaces, Failed
    <2>3. HeldOK'
      BY <1>4, <2>1, <2>2, HeldKept DEF Stands, Others
    <2>4. QED BY <1>1, <1>2, <2>1, <2>2, <2>3, UpTyped DEF MapsOK, HandlersOK, history, UpPlaces
  <1>5. QED BY <1>3, <1>4

LEMMA CreateTyped == ASSUME Typed, NEW i \in Handlers, Create(i) PROVE Typed'
  <1> DEFINE u == h[i].unit
  <1>1. HandlersOK /\ MapsOK /\ PlaceOK(h[i]) /\ h[i].at = "create" /\ h[i].errs \in BOOLEAN
    BY DEF Typed, Create, At, HandlersOK, Handling
  <1>2. UNCHANGED <<memory, todo, calm, settled, overlooked>> /\ u \in Units
    BY <1>1 DEF Create, PlaceOK
  <1>3. i \notin held
    BY <1>1 DEF Typed, HeldOK
  <1>4. CASE Exists(u)
    <2>1. Failed(i, "record") /\ UNCHANGED <<docker, held, lost>>
      BY <1>4 DEF Create
    <2>2. Stands(i, "record", u, TRUE)
      BY <1>1, <2>1, Placed DEF Places, UpPlaces, Failed
    <2>3. HeldOK'
      BY <1>3, <2>1, <2>2, HeldKept DEF Stands, Others
    <2>4. QED BY <1>1, <1>2, <2>1, <2>2, <2>3, UpTyped DEF MapsOK, HandlersOK, UpPlaces
  <1>5. CASE ~Exists(u)
    <2>1. /\ Goto(i, "start") /\ docker' = Put(docker, u, [image |-> h[i].want[u], up |-> FALSE])
          /\ held' = held \cup {i} /\ lost' \in {lost \cup {u}, lost \ {u}}
      BY <1>5 DEF Create
    <2>2. Stands(i, "start", u, h[i].errs)
      BY <1>1, <2>1, WentTo DEF Places, UpPlaces
    <2>3. /\ DOMAIN docker' = DOMAIN docker \cup {u} /\ docker'[u] = [image |-> h[i].want[u], up |-> FALSE]
          /\ \A v \in DOMAIN docker \ {u} : docker'[v] = docker[v]
      BY <2>1 DEF Put
    <2>4. h[i].want[u] \in Images \cup {NoImage}
      BY <1>1, <1>2 DEF HandlersOK, Handling
    <2>5. \A v \in DOMAIN docker' : docker'[v] \in [image: Images \cup {NoImage}, up: BOOLEAN]
      <3>1. docker'[u] \in [image: Images \cup {NoImage}, up: BOOLEAN]
        BY <2>3, <2>4
      <3>2. \A v \in DOMAIN docker \ {u} : docker'[v] \in [image: Images \cup {NoImage}, up: BOOLEAN]
        BY <1>1, <2>3 DEF MapsOK
      <3>3. QED BY <2>3, <3>1, <3>2
    <2>6. HeldOK'
      BY <2>1, <2>2, <2>3 DEF Typed, HeldOK, Stands, Exists, HandlersOK
    <2>7. lost' \subseteq Units /\ held' \subseteq Handlers /\ DOMAIN docker' \subseteq Units
      BY <1>1, <1>2, <2>1, <2>3 DEF HandlersOK, MapsOK
    <2>8. QED BY <1>1, <1>2, <2>2, <2>5, <2>6, <2>7, UpTyped DEF UpPlaces
  <1>6. QED BY <1>4, <1>5

LEMMA StartTyped == ASSUME Typed, NEW i \in Handlers, StartContainer(i) PROVE Typed'
  <1> DEFINE u == h[i].unit
  <1>1. HandlersOK /\ MapsOK /\ PlaceOK(h[i]) /\ h[i].at = "start" /\ h[i].errs \in BOOLEAN
    BY DEF Typed, StartContainer, At, HandlersOK, Handling
  <1>2. UNCHANGED <<memory, todo, held, history>>
    BY DEF StartContainer
  <1>3. CASE i \in held /\ ~docker[u].up
    <2>1. Goto(i, "record") /\ docker' = [docker EXCEPT ![u].up = TRUE]
      BY <1>3 DEF StartContainer
    <2>2. Stands(i, "record", u, h[i].errs)
      BY <1>1, <2>1, WentTo DEF Places, UpPlaces
    <2>3. /\ DOMAIN docker' = DOMAIN docker
          /\ \A v \in DOMAIN docker' : docker'[v] \in [image: Images \cup {NoImage}, up: BOOLEAN]
      BY <1>1, <2>1 DEF MapsOK
    <2>4. HeldOK'
      BY <1>2, <2>2, <2>3, HeldKept DEF Stands, Others
    <2>5. QED BY <1>1, <1>2, <2>2, <2>3, <2>4, UpTyped DEF MapsOK, HandlersOK, history, UpPlaces
  <1>4. CASE ~(i \in held /\ ~docker[u].up)
    <2>1. Failed(i, "record") /\ UNCHANGED docker
      BY <1>4 DEF StartContainer
    <2>2. Stands(i, "record", u, TRUE)
      BY <1>1, <2>1, Placed DEF Places, UpPlaces, Failed
    <2>3. HeldOK'
      BY <1>2, <2>1, <2>2, HeldKept DEF Stands, Others
    <2>4. QED BY <1>1, <1>2, <2>1, <2>2, <2>3, UpTyped DEF MapsOK, HandlersOK, history, UpPlaces
  <1>5. QED BY <1>3, <1>4

LEMMA RecordTyped == ASSUME Typed, NEW i \in Handlers, Record(i) PROVE Typed'
  <1> DEFINE u == h[i].unit
  <1>1. HandlersOK /\ MapsOK /\ PlaceOK(h[i]) /\ h[i].at = "record"
    BY DEF Typed, Record, At
  <1>2. /\ workers' = Put(workers, u, TRUE) /\ held' = held \ {i} /\ Goto(i, "visit")
        /\ UNCHANGED <<alive, config, docker, history>>
    BY DEF Record
  <1>3. u \in Units /\ h[i].op # "none"
    BY <1>1 DEF PlaceOK
  <1>4. Stands(i, "visit", None, h[i].errs)
    BY <1>1, <1>2, WentTo DEF Places
  <1>5. todo' \in [Handlers -> SUBSET Units]
    <2>1. CASE u \in DOMAIN workers
      BY <1>1, <2>1 DEF Record, HandlersOK
    <2>2. CASE u \notin DOMAIN workers
      <3>1. PICK meets \in SUBSET {j \in Handlers : InRange(j)} :
                todo' = [j \in Handlers |-> IF j \in meets THEN todo[j] \cup {u} ELSE todo[j]]
        BY <2>2 DEF Record
      <3>2. QED BY <1>1, <1>3, <3>1 DEF HandlersOK
    <2>3. QED BY <2>1, <2>2
  <1>6. MapsOK'
    <2>1. /\ DOMAIN workers' = DOMAIN workers \cup {u} /\ workers'[u] = TRUE
          /\ \A v \in DOMAIN workers \ {u} : workers'[v] = workers[v]
      BY <1>2 DEF Put
    <2>2. QED BY <1>1, <1>2, <1>3, <2>1 DEF MapsOK
  <1>7. HeldOK' /\ PlaceOK(h'[i])
    BY <1>1, <1>2, <1>3, <1>4, HeldKept DEF Stands, Others, PlaceOK, UpPlaces
  <1>8. QED
    BY <1>1, <1>2, <1>3, <1>4, <1>5, <1>6, <1>7, HandlerTyped DEF Stands, Others, HandlersOK, history


LEMMA StopTyped == ASSUME Typed, NEW i \in Handlers, StopContainer(i) PROVE Typed'
  <1> DEFINE u == h[i].unit
  <1>1. HandlersOK /\ MapsOK /\ PlaceOK(h[i]) /\ h[i].at = "stop" /\ h[i].errs \in BOOLEAN
    BY DEF Typed, StopContainer, At, HandlersOK, Handling
  <1>2. UNCHANGED <<memory, todo, held, history>> /\ h[i].op # "none" /\ i \notin held
    BY <1>1 DEF StopContainer, PlaceOK, Typed, HeldOK
  <1>3. \E errs \in BOOLEAN : Stands(i, "visit", None, errs)
    <2>1. CASE Exists(u)
      <3>1. Goto(i, "visit")
        BY <2>1 DEF StopContainer
      <3>2. QED BY <1>1, <3>1, WentTo DEF Places
    <2>2. CASE ~Exists(u)
      <3>1. Failed(i, "visit")
        BY <2>2 DEF StopContainer
      <3>2. QED BY <1>1, <3>1, Placed DEF Places, Failed
    <2>3. QED BY <2>1, <2>2
  <1>4. /\ DOMAIN docker' = DOMAIN docker
        /\ \A v \in DOMAIN docker' : docker'[v] \in [image: Images \cup {NoImage}, up: BOOLEAN]
    <2>1. CASE Exists(u)
      <3>1. docker' = [docker EXCEPT ![u].up = FALSE]
        BY <2>1 DEF StopContainer
      <3>2. QED BY <1>1, <3>1 DEF MapsOK
    <2>2. CASE ~Exists(u)
      BY <1>1, <2>2 DEF StopContainer, MapsOK
    <2>3. QED BY <2>1, <2>2
  <1>5. HeldOK' /\ PlaceOK(h'[i]) /\ MapsOK'
    BY <1>1, <1>2, <1>3, <1>4, HeldKept DEF Stands, Others, PlaceOK, UpPlaces, MapsOK, memory
  <1>6. QED BY <1>1, <1>2, <1>3, <1>5, HandlerTyped DEF Stands, Others, HandlersOK, memory, history

LEMMA RemoveTyped == ASSUME Typed, NEW i \in Handlers, RemoveContainer(i) PROVE Typed'
  <1> DEFINE u == h[i].unit
  <1>1. /\ HandlersOK /\ MapsOK /\ PlaceOK(h[i]) /\ h[i].at = "remove" /\ h[i].errs \in BOOLEAN
        /\ UNCHANGED <<memory, history>> /\ h[i].op # "none" /\ i \notin held
    BY DEF Typed, RemoveContainer, At, HandlersOK, Handling, PlaceOK, HeldOK
  <1>2. CASE Exists(u)
    <2>1. Goto(i, "forget") /\ Removing(u) /\ UNCHANGED todo
      BY <1>2 DEF RemoveContainer
    <2>2. Stands(i, "forget", u, h[i].errs)
      BY <1>1, <2>1, WentTo DEF Places
    <2>3. /\ held' \subseteq held /\ DOMAIN docker' \subseteq DOMAIN docker
          /\ \A v \in DOMAIN docker' : docker'[v] = docker[v]
          /\ HeldOK'
      BY <2>1, <2>2, Removes DEF Stands, Others
    <2>4. PlaceOK(h'[i]) /\ MapsOK'
      BY <1>1, <2>2, <2>3 DEF Stands, PlaceOK, UpPlaces, MapsOK, memory
    <2>5. QED BY <1>1, <2>1, <2>2, <2>3, <2>4, HandlerTyped DEF Stands, Others, HandlersOK, memory, history
  <1>3. CASE ~Exists(u)
    <2> DEFINE at == IF h[i].loop = "clean" THEN "forget" ELSE "visit"
    <2>1. Failed(i, at) /\ UNCHANGED <<docker, held>> /\ at \in {"forget", "visit"}
      BY <1>3 DEF RemoveContainer
    <2>2. todo' \in [Handlers -> SUBSET Units]
      BY <1>1, <1>3 DEF RemoveContainer, HandlersOK
    <2>3. Stands(i, at, IF at = "visit" THEN None ELSE u, TRUE)
      BY <1>1, <2>1, Placed DEF Places, Failed
    <2> HIDE DEF at
    <2>4. PlaceOK(h'[i]) /\ MapsOK'
      BY <1>1, <2>1, <2>3 DEF Stands, PlaceOK, UpPlaces, MapsOK, memory
    <2>5. HeldOK'
      BY <1>1, <2>1, <2>3, HeldKept DEF Stands, Others
    <2>6. QED
      BY <1>1, <2>1, <2>2, <2>3, <2>4, <2>5, HandlerTyped DEF Stands, Others, HandlersOK, memory, history
  <1>4. QED BY <1>2, <1>3

LEMMA ForgetTyped == ASSUME Typed, NEW i \in Handlers, Forget(i) PROVE Typed'
  <1>1. HandlersOK /\ MapsOK /\ PlaceOK(h[i]) /\ h[i].at = "forget" /\ h[i].op # "none" /\ i \notin held
    BY DEF Typed, Forget, At, PlaceOK, HeldOK
  <1>2. /\ workers' = Del(workers, h[i].unit) /\ Goto(i, "visit")
        /\ todo' = [j \in Handlers |-> IF InRange(j) THEN todo[j] \ {h[i].unit} ELSE todo[j]]
        /\ UNCHANGED <<alive, config, docker, held, history>>
    BY DEF Forget
  <1>3. Stands(i, "visit", None, h[i].errs)
    BY <1>1, <1>2, WentTo DEF Places
  <1>4. todo' \in [Handlers -> SUBSET Units]
    BY <1>1, <1>2 DEF HandlersOK
  <1>5. MapsOK'
    BY <1>1, <1>2 DEF MapsOK, Del
  <1>6. HeldOK' /\ PlaceOK(h'[i])
    BY <1>1, <1>2, <1>3, HeldKept DEF Stands, Others, PlaceOK, UpPlaces
  <1>7. QED BY <1>1, <1>2, <1>3, <1>4, <1>5, <1>6, HandlerTyped DEF Stands, Others, HandlersOK, history

(* A request begins, the process starts, and ends. *)
LEMMA BeginTyped ==
    ASSUME Typed, NEW i \in Handlers, NEW op \in Op \ {"none"}, NEW loop \in LoopNames \ {"none"},
           NEW range \in SUBSET Units, Begin(i, op, loop, range), config' \in Configs,
           op = "start" <=> loop \in {"load", "up", "sweep"}
    PROVE  Typed' /\ Others(i) /\ h'[i].op = op /\ h'[i].loop = loop /\ h'[i].at = "visit"
  <1> DEFINE r == [NoRequest EXCEPT !.op = op, !.loop = loop, !.at = "visit"]
  <1>1. HandlersOK /\ MapsOK /\ alive /\ i \notin held
    BY DEF Typed, Begin, HeldOK, PlaceOK
  <1>2. NoRequest \in Handling
    BY <1>1, ConfigTyped DEF NoRequest, Handling, Op, LoopNames, Places, UpPlaces
  <1>3. r \in Handling /\ PlaceOK(r) /\ r.op = op /\ r.loop = loop /\ r.at = "visit"
    BY <1>1, <1>2 DEF Handling, Places, PlaceOK, UpPlaces
  <1>4. h' \in [Handlers -> Handling] /\ Others(i) /\ h'[i] = r
    BY <1>1, <1>3 DEF Begin, HandlersOK, Others
  <1>5. /\ todo' \in [Handlers -> SUBSET Units]
        /\ calm' \subseteq Handlers /\ ~settled' /\ settled' \in BOOLEAN
        /\ UNCHANGED <<alive, workers, docker, held, lost, overlooked>>
    BY <1>1 DEF Begin, HandlersOK
  <1>6. MapsOK' /\ HandlersOK'
    BY <1>1, <1>4, <1>5 DEF MapsOK, HandlersOK
  <1>7. HeldOK' /\ DeadOK'
    BY <1>1, <1>4, <1>5, HeldKept DEF DeadOK, Others
  <1>8. \A j \in Handlers : PlaceOK(h'[j])
    BY <1>3, <1>4 DEF Typed, Others
  <1>9. QED BY <1>3, <1>4, <1>6, <1>7, <1>8 DEF Typed

LEMMA BootTyped == ASSUME Typed, NEW cfg \in Configs, Boot(cfg) PROVE Typed'
  <1>1. HandlersOK /\ MapsOK /\ DeadOK /\ ~alive
    BY DEF Typed, Boot
  <1>2. /\ workers' = [u \in DOMAIN docker \cap Wanted(cfg) |-> FALSE]
        /\ UNCHANGED <<docker, h, todo, held, calm, settled>>
        /\ lost' = {} /\ overlooked' = DOMAIN docker \ Wanted(cfg)
        /\ alive' = TRUE /\ config' = cfg
    BY DEF Boot, control
  <1>3. MapsOK' /\ HandlersOK'
    BY <1>1, <1>2 DEF MapsOK, HandlersOK
  <1>4. QED BY <1>1, <1>2, <1>3 DEF Typed, DeadOK, HeldOK, PlaceOK, Exists

LEMMA MapRaceTyped ==
    ASSUME Typed, MapRace PROVE Typed' /\ \A i \in Handlers : h'[i] = NoRequest
  <1>1. HandlersOK /\ MapsOK
    BY DEF Typed
  <1>2. /\ alive' = FALSE /\ workers' = EmptyPage /\ UNCHANGED <<config, docker>>
        /\ h' = [i \in Handlers |-> NoRequest] /\ todo' = [i \in Handlers |-> {}] /\ held' = {}
        /\ calm' = {} /\ settled' = FALSE /\ lost' = {} /\ overlooked' = {}
    BY DEF MapRace
  <1>3. NoRequest \in Handling /\ PlaceOK(NoRequest) /\ NoRequest.op = "none"
    BY ConfigTyped, <1>1 DEF NoRequest, Handling, Op, LoopNames, Places, UpPlaces, PlaceOK
  <1>4. MapsOK' /\ HandlersOK'
    BY <1>1, <1>2, <1>3 DEF MapsOK, HandlersOK, EmptyPage
  <1>5. HeldOK' /\ DeadOK'
    BY <1>2, <1>3 DEF HeldOK, DeadOK
  <1>6. QED BY <1>2, <1>3, <1>4, <1>5 DEF Typed, PlaceOK

(* Outside the status page, GET / changes nothing. *)
LEMMA GetsChangeNothing ==
    ASSUME GetPage \/ GetStep \/ UNCHANGED vars
    PROVE  UNCHANGED <<memory, docker, control, history>>
  BY DEF GetPage, GetStep, vars

LEMMA UnchangedTyped ==
    ASSUME Typed, UNCHANGED <<memory, docker, control, history>> PROVE Typed'
  <1>1. UNCHANGED <<alive, config, workers, docker, h, todo, held, calm, settled, lost, overlooked>>
    BY DEF memory, control, history
  <1>2. MapsOK' /\ HandlersOK' /\ HeldOK' /\ DeadOK'
    BY <1>1 DEF Typed, MapsOK, HandlersOK, HeldOK, DeadOK, Exists
  <1>3. QED BY <1>1, <1>2 DEF Typed, PlaceOK

LEMMA HandleTyped == ASSUME Typed, NEW i \in Handlers, Handle(i) PROVE Typed'
  <1>1. CASE BeginSweep(i)
    BY <1>1, NextLoopTyped DEF BeginSweep, Done, At, Typed, PlaceOK
  <1>2. CASE BeginClean(i)
    BY <1>2, NextLoopTyped DEF BeginClean, Done, At
  <1>3. QED
    BY <1>1, <1>2, MarkTyped, ReplyTyped, InspectTyped, ReplaceTyped, CreateTyped, StartTyped,
       RecordTyped, StopTyped, RemoveTyped, ForgetTyped, VisitsTyped DEF Handle

(* What begins with Stop, Clean and the rest, by op, loop and config. *)
LEMMA Requests ==
    ASSUME Typed, Ask
    PROVE  \/ \E cfg \in Configs : Boot(cfg)
           \/ GetPage
           \/ \E i \in Handlers, op \in Op \ {"none"}, loop \in LoopNames \ {"none"},
                 range \in SUBSET Units :
                    /\ Begin(i, op, loop, range) /\ config' \in Configs
                    /\ op = "start" <=> loop \in {"load", "up", "sweep"}
                    /\ op = "start" => loop = "load"
  <1> DEFINE Req(i, op, loop, range) ==
                /\ Begin(i, op, loop, range) /\ config' \in Configs
                /\ op = "start" <=> loop \in {"load", "up", "sweep"}
                /\ op = "start" => loop = "load"
             Some == \E i \in Handlers, op \in Op \ {"none"}, loop \in LoopNames \ {"none"},
                        range \in SUBSET Units : Req(i, op, loop, range)
  <1>1. DOMAIN workers \subseteq Units /\ config \in Configs
    BY DEF Typed, MapsOK
  <1>2. ASSUME NEW i \in Handlers, NEW cfg \in Configs, Post(i, cfg) PROVE Some
    <2>1. Req(i, "start", "load", {})
      BY <1>2 DEF Post
    <2>2. QED BY <2>1 DEF Op, LoopNames
  <1>3. ASSUME NEW i \in Handlers, Stop(i) PROVE Some
    <2>1. Req(i, "stop", "down", DOMAIN workers)
      BY <1>1, <1>3 DEF Stop
    <2>2. QED BY <1>1, <2>1 DEF Op, LoopNames
  <1>4. ASSUME NEW i \in Handlers, Clean(i) PROVE Some
    <2>1. Req(i, "clean", "clean", DOMAIN workers)
      BY <1>1, <1>4 DEF Clean
    <2>2. QED BY <1>1, <2>1 DEF Op, LoopNames
  <1>5. ASSUME NEW i \in Handlers, Delete(i) PROVE Some
    <2>1. Req(i, "delete", "down", DOMAIN workers)
      BY <1>1, <1>5 DEF Delete
    <2>2. QED BY <1>1, <2>1 DEF Op, LoopNames
  <1>6. ASSUME NEW i \in Handlers, NEW u \in Units \cup {None}, DeleteWorkers(i, u) PROVE Some
    <2> DEFINE range == {v \in DOMAIN workers : u \in {None, v}}
    <2>1. Req(i, "workersDelete", "remove", range) /\ range \in SUBSET Units
      BY <1>1, <1>6 DEF DeleteWorkers
    <2> HIDE DEF range
    <2>2. QED BY <2>1 DEF Op, LoopNames
  <1>7. QED BY <1>2, <1>3, <1>4, <1>5, <1>6 DEF Ask

LEMMA InitTyped == ASSUME Init PROVE Typed
  <1>1. config \in Configs /\ NoRequest \in Handling /\ PlaceOK(NoRequest)
    BY HandlersAssumption
       DEF Init, NoRequest, NoSections, Handling, Op, LoopNames, Places, UpPlaces, PlaceOK
  <1>2. MapsOK
    <2>1. PICK some \in SUBSET Units : docker \in [some -> [image: Images, up: BOOLEAN]]
      BY DEF Init
    <2>2. \A u \in DOMAIN docker : docker[u] \in [image: Images \cup {NoImage}, up: BOOLEAN]
      BY <2>1
    <2>3. QED BY <1>1, <2>1, <2>2 DEF Init, MapsOK, EmptyPage
  <1>3. HandlersOK /\ \A i \in Handlers : h[i] = NoRequest
    BY <1>1 DEF Init, HandlersOK
  <1>4. HeldOK /\ DeadOK
    BY <1>3 DEF Init, HeldOK, DeadOK, NoRequest
  <1>5. QED BY <1>1, <1>2, <1>3, <1>4 DEF Typed, PlaceOK

LEMMA NextTyped == ASSUME Typed, [Next]_vars PROVE Typed'
  <1>1. CASE Ask
    <2>1. ASSUME NEW i \in Handlers, NEW op \in Op \ {"none"}, NEW loop \in LoopNames \ {"none"},
                 NEW range \in SUBSET Units, Begin(i, op, loop, range), config' \in Configs,
                 op = "start" <=> loop \in {"load", "up", "sweep"}
          PROVE  Typed'
      BY <2>1, BeginTyped
    <2>2. CASE GetPage
      BY <2>2, GetsChangeNothing, UnchangedTyped
    <2>3. QED BY <1>1, <2>1, <2>2, Requests, BootTyped
  <1>2. CASE GetStep \/ UNCHANGED vars
    BY <1>2, GetsChangeNothing, UnchangedTyped
  <1>3. QED BY <1>1, <1>2, MapRaceTyped, HandleTyped DEF Next

-----------------------------------------------------------------------------
(* What is lost. *)

(* The steps of a handler that delete no record, create no container and end   *)
(* no WorkerUp.                                                                *)
LEMMA LostKept ==
    ASSUME LostInv, Typed', NEW i \in Handlers, Others(i), h'[i].at # "forget",
           h[i].at \in {"start", "record"} => h'[i].at \in {"start", "record"} /\ h'[i].unit = h[i].unit,
           DOMAIN docker' \subseteq DOMAIN docker, DOMAIN workers \subseteq DOMAIN workers',
           alive' = alive, lost' = lost, overlooked' = overlooked
    PROVE  LostInv'
  <1>1. Removed'
    BY DEF LostInv, Removed, At, Others, Exists
  <1>2. ASSUME NEW u \in DOMAIN docker', alive'
        PROVE  u \in DOMAIN workers' \cup lost' \cup overlooked' \/ Upping(u)'
    <2>1. u \in DOMAIN workers \cup lost \cup overlooked \/ Upping(u)
      BY <1>2 DEF LostInv, LostOnlyToClean
    <2>2. Upping(u) => Upping(u)'
      BY DEF Upping, Others
    <2>3. QED BY <2>1, <2>2
  <1>3. QED BY <1>1, <1>2 DEF LostInv, LostOnlyToClean

LEMMA LostVisit ==
    ASSUME LostInv, Typed', NEW i \in Handlers, NEW u \in todo[i],
           UpVisit(i, u) \/ SweepVisit(i, u) \/ DownVisit(i, u) \/ CleanVisit(i, u) \/ DeleteVisit(i, u)
    PROVE  LostInv'
  <1>1. HandlersOK /\ h[i].at = "visit" /\ u \in Units /\ DOMAIN workers = DOMAIN workers'
        /\ UNCHANGED <<alive, docker, lost, overlooked>>
    BY DEF LostInv, Typed, HandlersOK, UpVisit, SweepVisit, DownVisit, CleanVisit, DeleteVisit, Visiting,
           At, memory, history
  <1>2. PICK at \in {"inspect", "visit", "stop", "remove"} : GotoUnit(i, at, u)
    BY DEF UpVisit, SweepVisit, DownVisit, CleanVisit, DeleteVisit
  <1>3. Stands(i, at, IF at = "visit" THEN None ELSE u, h[i].errs)
    BY <1>1, <1>2, WentToUnit DEF Places, UpPlaces
  <1>4. QED BY <1>1, <1>2, <1>3, LostKept DEF Stands, Others

LEMMA LostLoop ==
    ASSUME LostInv, Typed', NEW i \in Handlers, Mark(i) \/ BeginSweep(i) \/ BeginClean(i) \/ Reply(i)
    PROVE  LostInv'
  <1>1. HandlersOK /\ h[i].at = "visit" /\ DOMAIN workers = DOMAIN workers'
        /\ UNCHANGED <<alive, docker, lost, overlooked>>
    BY DEF LostInv, Typed, Mark, BeginSweep, BeginClean, Reply, Done, At, memory, history
  <1>2. h \in [Handlers -> Handling] /\ h[i] \in Handling
    BY <1>1 DEF HandlersOK
  <1>3. Others(i) /\ h'[i].at # "forget"
    <2>1. CASE Reply(i)
      BY <1>2, <2>1 DEF Reply, NoRequest, Others
    <2>2. CASE Mark(i) \/ BeginSweep(i) \/ BeginClean(i)
      BY <1>1, <1>2, <2>2 DEF Mark, BeginSweep, BeginClean, Loop, Others, Handling
    <2>3. QED BY <2>1, <2>2
  <1>4. QED BY <1>1, <1>3, LostKept

LEMMA LostUp ==
    ASSUME LostInv, Typed', NEW i \in Handlers,
           Inspect(i) \/ Replace(i) \/ StartContainer(i) \/ StopContainer(i)
    PROVE  LostInv'
  <1>1. HandlersOK /\ MapsOK /\ h[i].at \in {"inspect", "replace", "start", "stop"}
        /\ UNCHANGED <<alive, workers, lost, overlooked>>
    BY DEF LostInv, Typed, Inspect, Replace, StartContainer, StopContainer, At, memory, history
  <1>2. DOMAIN docker' \subseteq DOMAIN docker
    <2>1. CASE Inspect(i)
      BY <2>1 DEF Inspect
    <2>2. CASE Replace(i)
      BY <2>2 DEF Replace, Removing, Del
    <2>3. CASE StartContainer(i)
      BY <2>3 DEF StartContainer
    <2>4. CASE StopContainer(i)
      BY <2>4 DEF StopContainer
    <2>5. QED BY <2>1, <2>2, <2>3, <2>4
  <1>3. PICK at \in {"create", "replace", "start", "record", "visit"}, errs \in BOOLEAN :
            /\ Place(i, at, errs)
            /\ h[i].at = "start" => at = "record"
    BY DEF Inspect, Replace, StartContainer, StopContainer, Goto, Failed, At
  <1>4. Stands(i, at, IF at = "visit" THEN None ELSE h[i].unit, h[i].errs \/ errs)
    BY <1>1, <1>3, Placed DEF Places, UpPlaces
  <1>5. QED BY <1>1, <1>2, <1>3, <1>4, LostKept DEF Stands, Others

LEMMA LostCreate == ASSUME LostInv, Typed', NEW i \in Handlers, Create(i) PROVE LostInv'
  <1> DEFINE u == h[i].unit
  <1>1. HandlersOK /\ h[i].at = "create" /\ UNCHANGED <<alive, workers, overlooked>>
    BY DEF LostInv, Typed, Create, At, memory
  <1>2. CASE Exists(u)
    <2>1. Failed(i, "record") /\ UNCHANGED <<docker, lost>>
      BY <1>2 DEF Create
    <2>2. Stands(i, "record", u, h[i].errs \/ TRUE)
      BY <1>1, <2>1, Placed DEF Places, UpPlaces, Failed
    <2>3. QED BY <1>1, <2>1, <2>2, LostKept DEF Stands, Others
  <1>3. CASE ~Exists(u)
    <2>1. /\ Goto(i, "start") /\ DOMAIN docker' = DOMAIN docker \cup {u}
          /\ lost' = IF \E j \in Handlers : At(j, "forget") /\ h[j].unit = u
                     THEN lost \cup {u} ELSE lost \ {u}
      BY <1>3 DEF Create, Put
    <2>2. Stands(i, "start", u, h[i].errs)
      BY <1>1, <2>1, WentTo DEF Places, UpPlaces
    <2>3. ASSUME alive', NEW j \in Handlers, At(j, "forget")'
          PROVE  ~Exists(h[j].unit)' \/ h'[j].unit \in lost'
      <3>1. At(j, "forget") /\ h'[j] = h[j] /\ (~Exists(h[j].unit) \/ h[j].unit \in lost)
        BY <1>1, <2>2, <2>3 DEF Stands, At, LostInv, Removed
      <3>2. CASE h[j].unit = u
        BY <2>1, <3>1, <3>2
      <3>3. CASE h[j].unit # u
        BY <2>1, <3>1, <3>3 DEF Exists
      <3>4. QED BY <3>2, <3>3
    <2>4. ASSUME alive', NEW v \in DOMAIN docker'
          PROVE  v \in DOMAIN workers' \cup lost' \cup overlooked' \/ Upping(v)'
      <3>1. CASE v = u
        BY <2>2, <3>1 DEF Stands, Upping
      <3>2. CASE v # u
        <4>1. v \in DOMAIN workers \cup lost \cup overlooked \/ Upping(v)
          BY <1>1, <2>1, <2>4, <3>2 DEF LostInv, LostOnlyToClean
        <4>2. Upping(v) => Upping(v)'
          BY <1>1, <2>2 DEF Upping, Stands
        <4>3. QED BY <1>1, <2>1, <3>2, <4>1, <4>2
      <3>3. QED BY <3>1, <3>2
    <2>5. Removed'
      BY <2>3, <2>2 DEF Removed, At, Exists
    <2>6. QED BY <2>4, <2>5 DEF LostInv, LostOnlyToClean
  <1>4. QED BY <1>2, <1>3

LEMMA LostRecord == ASSUME LostInv, Typed', NEW i \in Handlers, Record(i) PROVE LostInv'
  <1> DEFINE u == h[i].unit
  <1>1. HandlersOK /\ h[i].at = "record" /\ UNCHANGED <<alive, docker, lost, overlooked>>
    BY DEF LostInv, Typed, Record, At, history
  <1>2. Goto(i, "visit") /\ DOMAIN workers' = DOMAIN workers \cup {u}
    BY DEF Record, Put
  <1>3. Stands(i, "visit", None, h[i].errs)
    BY <1>1, <1>2, WentTo DEF Places
  <1>4. Removed'
    BY <1>1, <1>3 DEF LostInv, Removed, At, Stands, Exists
  <1>5. ASSUME alive', NEW v \in DOMAIN docker'
        PROVE  v \in DOMAIN workers' \cup lost' \cup overlooked' \/ Upping(v)'
    <2>1. v \in DOMAIN workers \cup lost \cup overlooked \/ Upping(v)
      BY <1>1, <1>5 DEF LostInv, LostOnlyToClean
    <2>2. v # u /\ Upping(v) => Upping(v)'
      BY <1>3 DEF Upping, Stands
    <2>3. QED BY <1>1, <1>2, <2>1, <2>2
  <1>6. QED BY <1>4, <1>5 DEF LostInv, LostOnlyToClean

LEMMA LostRemove == ASSUME LostInv, Typed', NEW i \in Handlers, RemoveContainer(i) PROVE LostInv'
  <1> DEFINE u == h[i].unit
  <1>1. HandlersOK /\ h[i].at = "remove" /\ UNCHANGED <<alive, workers, lost, overlooked>>
    BY DEF LostInv, Typed, RemoveContainer, At, memory, history
  <1>2. DOMAIN docker' = DOMAIN docker \ {u}
    BY DEF RemoveContainer, Removing, Del, Exists
  <1>3. PICK at \in {"forget", "visit"}, errs \in BOOLEAN : Place(i, at, errs)
    BY DEF RemoveContainer, Goto, Failed
  <1>4. Stands(i, at, IF at = "visit" THEN None ELSE u, h[i].errs \/ errs)
    BY <1>1, <1>3, Placed DEF Places
  <1>5. Removed'
    <2>1. SUFFICES ASSUME alive', NEW j \in Handlers, At(j, "forget")'
                   PROVE  ~Exists(h[j].unit)' \/ h'[j].unit \in lost'
      BY DEF Removed, Exists
    <2>2. CASE j = i
      BY <1>2, <1>4, <2>1, <2>2 DEF Stands, At, Exists
    <2>3. CASE j # i
      <3>1. At(j, "forget") /\ h'[j] = h[j] /\ (~Exists(h[j].unit) \/ h[j].unit \in lost)
        BY <1>1, <1>4, <2>1, <2>3 DEF Stands, At, LostInv, Removed
      <3>2. QED BY <1>1, <1>2, <3>1 DEF Exists
    <2>4. QED BY <2>2, <2>3
  <1>6. ASSUME alive', NEW v \in DOMAIN docker'
        PROVE  v \in DOMAIN workers' \cup lost' \cup overlooked' \/ Upping(v)'
    <2>1. v \in DOMAIN workers \cup lost \cup overlooked \/ Upping(v)
      BY <1>1, <1>2, <1>6 DEF LostInv, LostOnlyToClean
    <2>2. Upping(v) => Upping(v)'
      BY <1>1, <1>4 DEF Upping, Stands
    <2>3. QED BY <1>1, <2>1, <2>2
  <1>7. QED BY <1>5, <1>6 DEF LostInv, LostOnlyToClean

(* The delete of a record: what exists under its name was lost already. *)
LEMMA LostForget == ASSUME LostInv, Typed', NEW i \in Handlers, Forget(i) PROVE LostInv'
  <1> DEFINE u == h[i].unit
  <1>1. HandlersOK /\ h[i].at = "forget" /\ UNCHANGED <<alive, docker, lost, overlooked>>
    BY DEF LostInv, Typed, Forget, At, history
  <1>2. Goto(i, "visit") /\ DOMAIN workers' = DOMAIN workers \ {u}
    BY DEF Forget, Del
  <1>3. Stands(i, "visit", None, h[i].errs)
    BY <1>1, <1>2, WentTo DEF Places
  <1>4. Removed'
    BY <1>1, <1>3 DEF LostInv, Removed, At, Stands, Exists
  <1>5. ASSUME alive', NEW v \in DOMAIN docker'
        PROVE  v \in DOMAIN workers' \cup lost' \cup overlooked' \/ Upping(v)'
    <2>1. v \in DOMAIN workers \cup lost \cup overlooked \/ Upping(v)
      BY <1>1, <1>5 DEF LostInv, LostOnlyToClean
    <2>2. Upping(v) => Upping(v)'
      BY <1>1, <1>3 DEF Upping, Stands
    <2>3. v = u => v \in lost
      BY <1>1, <1>5 DEF LostInv, Removed, At, Exists
    <2>4. QED BY <1>1, <1>2, <2>1, <2>2, <2>3
  <1>6. QED BY <1>4, <1>5 DEF LostInv, LostOnlyToClean

LEMMA LostBegin ==
    ASSUME LostInv, Typed', NEW i \in Handlers, Others(i), h'[i].at = "visit",
           NEW op, NEW loop, NEW range, Begin(i, op, loop, range)
    PROVE  LostInv'
  <1>1. h[i].at = "idle"
    BY DEF LostInv, Typed, PlaceOK, Begin
  <1>2. QED BY <1>1, LostKept DEF Begin

LEMMA LostBoot == ASSUME LostInv, Typed', NEW cfg \in Configs, Boot(cfg) PROVE LostInv'
  <1>1. /\ \A i \in Handlers : h'[i].at = "idle"
        /\ DOMAIN workers' = DOMAIN docker \cap Wanted(cfg)
        /\ docker' = docker /\ overlooked' = DOMAIN docker \ Wanted(cfg)
    BY DEF LostInv, Typed, DeadOK, PlaceOK, Boot, control
  <1>2. QED BY <1>1 DEF LostInv, Removed, LostOnlyToClean, At

LEMMA LostHandle == ASSUME LostInv, NEW i \in Handlers, Handle(i) PROVE LostInv'
  <1>1. Typed'
    BY HandleTyped DEF LostInv
  <1>2. QED
    BY <1>1, LostVisit, LostLoop, LostUp, LostCreate, LostRecord, LostRemove, LostForget DEF Handle

LEMMA LostNext == ASSUME LostInv, [Next]_vars PROVE LostInv'
  <1>1. Typed /\ Typed'
    BY NextTyped DEF LostInv
  <1>2. CASE Ask
    <2>1. ASSUME NEW i \in Handlers, NEW op \in Op \ {"none"}, NEW loop \in LoopNames \ {"none"},
                 NEW range \in SUBSET Units, Begin(i, op, loop, range), config' \in Configs,
                 op = "start" <=> loop \in {"load", "up", "sweep"}
          PROVE  LostInv'
      <3>1. Others(i) /\ h'[i].at = "visit"
        BY <1>1, <2>1, BeginTyped
      <3>2. QED BY <1>1, <2>1, <3>1, LostBegin
    <2>2. CASE GetPage
      BY <1>1, <2>2, GetsChangeNothing
         DEF LostInv, Removed, LostOnlyToClean, Upping, At, Exists, memory, control, history
    <2>3. QED BY <1>1, <1>2, <2>1, <2>2, Requests, LostBoot
  <1>3. CASE GetStep \/ UNCHANGED vars
    BY <1>1, <1>3, GetsChangeNothing
       DEF LostInv, Removed, LostOnlyToClean, Upping, At, Exists, memory, control, history
  <1>4. CASE MapRace
    BY <1>1, <1>4 DEF MapRace, LostInv, Removed, LostOnlyToClean
  <1>5. QED BY <1>2, <1>3, <1>4, LostHandle DEF Next

(* Requests that overlap, however many and in whatever order, lose a container *)
(* in one way: it was created between the removal of the old one and the       *)
(* delete of the record that follows.                                          *)
THEOREM LostOnlyByClean == Spec => []LostOnlyToClean
  <1>1. Init => LostInv
    BY InitTyped DEF Init, LostInv, Removed, LostOnlyToClean
  <1>2. LostInv /\ [Next]_vars => LostInv'
    BY LostNext
  <1>3. LostInv => LostOnlyToClean
    BY DEF LostInv
  <1>4. QED BY <1>1, <1>2, <1>3, PTL DEF Spec

-----------------------------------------------------------------------------
(* A calm request. *)

(* While one request runs alone, the others have nothing to say. *)
LEMMA CalmStep ==
    ASSUME CalmInv, NEW i \in Handlers, h[i].op # "none"
    PROVE  calm \subseteq {i} /\ ~settled
  BY DEF CalmInv, CalmAlone, Typed, HandlersOK

LEMMA CalmKept ==
    ASSUME CalmInv, Typed', NEW i \in Handlers, h[i].op # "none", Others(i), h'[i].op = h[i].op,
           calm' = calm, settled' = settled,
           Starting(i)' => /\ h'[i].loop = "up" => Bringing(h[i], todo[i])'
                           /\ h'[i].loop = "sweep" => Sweeping(h[i], todo[i])'
    PROVE  CalmInv'
  <1>1. calm \subseteq {i} /\ ~settled
    BY CalmStep
  <1>2. CalmAlone'
    BY <1>1 DEF CalmInv, CalmAlone, Others
  <1>3. ASSUME NEW j \in Handlers, Starting(j)'
        PROVE  /\ h'[j].loop = "up" => Bringing(h[j], todo[j])'
               /\ h'[j].loop = "sweep" => Sweeping(h[j], todo[j])'
    <2>1. j = i
      BY <1>1, <1>3 DEF Starting
    <2>2. QED BY <1>3, <2>1
  <1>4. CalmStart'
    BY <1>3 DEF CalmStart
  <1>5. QED BY <1>1, <1>2, <1>4 DEF CalmInv, CalmStartSettles

(* A handler that is not in Start. *)
LEMMA CalmOther ==
    ASSUME CalmInv, Typed', NEW i \in Handlers, h[i].op # "none", Others(i), h'[i].op = h[i].op,
           h[i].op # "start", calm' = calm, settled' = settled
    PROVE  CalmInv'
  BY CalmKept DEF Starting

(* What holds while Start brings up the workers, and while it sweeps. *)
LEMMA WhileUp ==
    ASSUME CalmInv, NEW i \in Handlers, Starting(i), h[i].loop = "up"
    PROVE  Bringing(h[i], todo[i])
  BY DEF CalmInv, CalmStart

LEMMA WhileSweep ==
    ASSUME CalmInv, NEW i \in Handlers, Starting(i), h[i].loop = "sweep"
    PROVE  Sweeping(h[i], todo[i])
  BY DEF CalmInv, CalmStart

LEMMA CalmMark == ASSUME CalmInv, Typed', NEW i \in Handlers, Mark(i) PROVE CalmInv'
  <1>1. HandlersOK /\ MapsOK /\ PlaceOK(h[i]) /\ h[i].op # "none" /\ h[i].at = "visit"
    BY DEF CalmInv, Typed, Mark, Done, At
  <1>2. /\ Others(i) /\ h'[i] = [h[i] EXCEPT !.loop = "up", !.want = config]
        /\ todo'[i] = Wanted(config)
    <2>1. Loop(i, "up", config, Wanted(config))
      BY DEF Mark
    <2>2. Others(i) /\ h'[i] = [h[i] EXCEPT !.loop = "up", !.want = config]
      BY <1>1, <2>1 DEF Loop, HandlersOK, Others
    <2>3. QED BY <1>1, <2>1, <2>2 DEF Loop, HandlersOK
  <1>3. h'[i].at = "visit" /\ h'[i].op = h[i].op /\ h'[i].want = config /\ h'[i].loop = "up"
    BY <1>1, <1>2 DEF HandlersOK, Handling
  <1>4. Bringing(h[i], todo[i])'
    BY <1>2, <1>3 DEF Mark, Bringing, OnlyWantedUp
  <1>5. QED BY <1>1, <1>2, <1>3, <1>4, CalmKept DEF Mark, history

LEMMA CalmBeginSweep == ASSUME CalmInv, Typed', NEW i \in Handlers, BeginSweep(i) PROVE CalmInv'
  <1>1. /\ HandlersOK /\ MapsOK /\ PlaceOK(h[i]) /\ h[i].op # "none"
        /\ h[i].at = "visit" /\ h[i].loop = "up" /\ todo[i] = {}
    BY DEF CalmInv, Typed, BeginSweep, Done, At
  <1>2. DOMAIN workers \in SUBSET Units /\ NoSections \in [Units -> Images \cup {NoImage}]
    BY <1>1, ConfigTyped DEF MapsOK
  <1>3. /\ Others(i) /\ h'[i] = [h[i] EXCEPT !.loop = "sweep", !.want = NoSections]
        /\ todo'[i] = DOMAIN workers
    <2>1. Loop(i, "sweep", NoSections, DOMAIN workers)
      BY DEF BeginSweep
    <2>2. Others(i) /\ h'[i] = [h[i] EXCEPT !.loop = "sweep", !.want = NoSections]
      BY <1>1, <1>2, Looped, <2>1 DEF LoopNames, Others
    <2>3. QED BY <1>1, <2>1, <2>2 DEF Loop, HandlersOK
  <1>4. h'[i].at = "visit" /\ h'[i].op = h[i].op /\ h'[i].loop = "sweep" /\ h'[i].errs = h[i].errs
    BY <1>1, <1>3 DEF HandlersOK, Handling
  <1>5. UNCHANGED <<config, workers, docker, calm, settled>>
    BY DEF BeginSweep, memory, history
  <1>6. Starting(i)' => Sweeping(h[i], todo[i])'
    <2>1. Starting(i)' => Starting(i)
      BY <1>4, <1>5 DEF Starting
    <2>2. Starting(i) => OnlyWantedUp /\ \A u \in Wanted(config) : Good(u)
      BY <1>1, WhileUp DEF Bringing
    <2>3. QED BY <1>3, <1>4, <1>5, <2>1, <2>2 DEF Sweeping, OnlyWantedUp, Good, Running, Exists
  <1>7. QED BY <1>1, <1>3, <1>4, <1>5, <1>6, CalmKept

LEMMA CalmBeginClean == ASSUME CalmInv, Typed', NEW i \in Handlers, BeginClean(i) PROVE CalmInv'
  <1>1. HandlersOK /\ MapsOK /\ h[i].op = "delete"
    BY DEF CalmInv, Typed, BeginClean
  <1>2. DOMAIN workers \in SUBSET Units /\ NoSections \in [Units -> Images \cup {NoImage}]
    BY <1>1, ConfigTyped DEF MapsOK
  <1>3. Others(i) /\ h'[i] = [h[i] EXCEPT !.loop = "clean", !.want = NoSections]
    <2>1. Loop(i, "clean", NoSections, DOMAIN workers)
      BY DEF BeginClean
    <2>2. QED BY <1>1, <1>2, Looped, <2>1 DEF LoopNames, Others
  <1>4. h'[i].op = h[i].op
    BY <1>1, <1>3 DEF HandlersOK, Handling
  <1>5. QED BY <1>1, <1>3, <1>4, CalmOther DEF BeginClean, history

(* The answer of a calm Start: its sweep is over. *)
LEMMA CalmReply == ASSUME CalmInv, Typed', NEW i \in Handlers, Reply(i) PROVE CalmInv'
  <1>1. /\ HandlersOK /\ MapsOK /\ PlaceOK(h[i]) /\ h[i].op # "none"
        /\ h[i].at = "visit" /\ todo[i] = {}
    BY DEF CalmInv, Typed, Reply, Done, At
  <1>2. Others(i) /\ h'[i] = NoRequest /\ NoRequest.op = "none" /\ calm \subseteq {i} /\ calm' = {}
    BY <1>1, CalmStep DEF Reply, HandlersOK, Others, NoRequest
  <1>3. settled' = (i \in calm /\ h[i].op = "start" /\ ~h[i].errs) /\ UNCHANGED <<config, workers, docker, alive>>
    BY DEF Reply, memory
  <1>4. CalmAlone'
    BY <1>1, <1>2, <1>3 DEF CalmInv, CalmAlone, Others
  <1>5. CalmStart'
    BY <1>2 DEF CalmStart, Starting
  <1>6. CalmStartSettles'
    <2>1. CASE Starting(i)
      <3>1. h[i].loop = "sweep"
        BY <1>1, <2>1 DEF Reply, PlaceOK, Starting
      <3>2. Sweeping(h[i], todo[i])
        BY <2>1, <3>1, WhileSweep
      <3>3. QED BY <1>1, <1>3, <3>2 DEF Sweeping, CalmStartSettles, Good, Running, Exists
    <2>2. CASE ~Starting(i)
      BY <1>3, <2>2 DEF Starting, CalmStartSettles
    <2>3. QED BY <2>1, <2>2
  <1>7. QED BY <1>4, <1>5, <1>6 DEF CalmInv

LEMMA CalmUpVisit ==
    ASSUME CalmInv, Typed', NEW i \in Handlers, NEW u \in todo[i], UpVisit(i, u) PROVE CalmInv'
  <1>1. HandlersOK /\ PlaceOK(h[i]) /\ h[i].at = "visit" /\ h[i].loop = "up" /\ u \in Units
    BY DEF CalmInv, Typed, UpVisit, Visiting, At, HandlersOK
  <1>2. /\ Stands(i, "inspect", u, h[i].errs)
        /\ todo'[i] = todo[i] \ {u}
    BY <1>1, WentToUnit DEF UpVisit, Places, UpPlaces
  <1>3. UNCHANGED <<config, workers, docker, calm, settled>>
    BY DEF UpVisit, memory, history
  <1>4. Starting(i)' => Bringing(h[i], todo[i])'
    <2>1. Starting(i)' => Bringing(h[i], todo[i])
      BY <1>1, <1>2, <1>3, WhileUp DEF Stands, Starting
    <2>2. QED
      BY <1>1, <1>2, <1>3, <2>1 DEF Bringing, Stands, OnlyWantedUp, Good, Running, Exists
  <1>5. h[i].op # "none" /\ Others(i) /\ h'[i].op = h[i].op /\ h'[i].loop = "up"
    BY <1>1, <1>2 DEF PlaceOK, Stands, Others
  <1>6. QED BY <1>3, <1>4, <1>5, CalmKept

LEMMA CalmSweepVisit ==
    ASSUME CalmInv, Typed', NEW i \in Handlers, NEW u \in todo[i], SweepVisit(i, u) PROVE CalmInv'
  <1> DEFINE at == IF workers[u] THEN "visit" ELSE "stop"
  <1>1. HandlersOK /\ PlaceOK(h[i]) /\ h[i].at = "visit" /\ h[i].loop = "sweep" /\ u \in Units
    BY DEF CalmInv, Typed, SweepVisit, Visiting, At, HandlersOK
  <1>2. /\ Stands(i, at, IF at = "visit" THEN None ELSE u, h[i].errs)
        /\ todo'[i] = todo[i] \ {u}
    BY <1>1, WentToUnit DEF SweepVisit, Places, UpPlaces
  <1>3. UNCHANGED <<config, workers, docker, calm, settled>>
    BY DEF SweepVisit, memory, history
  <1>4. Starting(i)' => Sweeping(h[i], todo[i])'
    <2>1. Starting(i)' => Sweeping(h[i], todo[i])
      BY <1>1, <1>2, <1>3, WhileSweep DEF Stands, Starting
    <2>2. Sweeping(h[i], todo[i]) => (at = "stop" => u \notin Wanted(config))
      BY DEF Sweeping, Good
    <2>3. Sweeping(h[i], todo[i]) /\ at = "visit" => u \notin DOMAIN workers \ Wanted(config)
      BY DEF Sweeping, OnlyWantedUp
    <2>4. h'[i].at = at /\ (at = "stop" => h'[i].unit = u) /\ at \in {"stop", "visit"}
      BY <1>2 DEF Stands
    <2> HIDE DEF at
    <2>5. QED
      BY <1>1, <1>2, <1>3, <2>1, <2>2, <2>3, <2>4
         DEF Sweeping, OnlyWantedUp, Good, Running, Exists
  <1>5. h[i].op # "none" /\ Others(i) /\ h'[i].op = h[i].op /\ h'[i].loop = "sweep"
    BY <1>1, <1>2 DEF PlaceOK, Stands, Others
  <1>6. QED BY <1>3, <1>4, <1>5, CalmKept

LEMMA CalmVisit ==
    ASSUME CalmInv, Typed', NEW i \in Handlers, NEW u \in todo[i],
           DownVisit(i, u) \/ CleanVisit(i, u) \/ DeleteVisit(i, u)
    PROVE  CalmInv'
  <1>1. /\ HandlersOK /\ PlaceOK(h[i]) /\ h[i].at = "visit" /\ h[i].loop \in {"down", "clean", "remove"}
        /\ u \in Units /\ UNCHANGED <<calm, settled>>
    BY DEF CalmInv, Typed, DownVisit, CleanVisit, DeleteVisit, Visiting, At, HandlersOK, history
  <1>2. PICK at \in {"visit", "stop", "remove"} : GotoUnit(i, at, u)
    BY DEF DownVisit, CleanVisit, DeleteVisit
  <1>3. Stands(i, at, IF at = "visit" THEN None ELSE u, h[i].errs)
    BY <1>1, <1>2, WentToUnit DEF Places, UpPlaces
  <1>4. h[i].op \notin {"none", "start"} /\ Others(i) /\ h'[i].op = h[i].op
    BY <1>1, <1>3 DEF PlaceOK, Stands, Others
  <1>5. QED BY <1>1, <1>4, CalmOther

(* The calls of Up. *)
LEMMA CalmUp ==
    ASSUME CalmInv, Typed', NEW i \in Handlers, NEW at \in UpPlaces, NEW errs \in BOOLEAN,
           h[i].at \in UpPlaces, Place(i, at, errs),
           UNCHANGED <<config, workers, todo, calm, settled>>,
           \A u \in Units \ {h[i].unit} : /\ u \in DOMAIN docker' <=> u \in DOMAIN docker
                                          /\ u \in DOMAIN docker' => docker'[u] = docker[u],
           ~errs /\ Starting(i) /\ Bringing(h[i], todo[i]) =>
              /\ at = "start" /\ h[i].unit \in DOMAIN docker' => docker'[h[i].unit].image = config[h[i].unit]
              /\ at = "record" => h[i].unit \in DOMAIN docker' /\ docker'[h[i].unit].image = config[h[i].unit] /\ docker'[h[i].unit].up
    PROVE  CalmInv'
  <1> DEFINE u == h[i].unit
  <1>1. HandlersOK /\ PlaceOK(h[i]) /\ h[i].loop = "up" /\ u \in Units
    BY DEF CalmInv, Typed, PlaceOK, UpPlaces
  <1>2. Stands(i, at, u, h[i].errs \/ errs)
    BY <1>1, Placed DEF Places, UpPlaces
  <1>3. Starting(i)' => Bringing(h[i], todo[i])'
    <2>1. SUFFICES ASSUME Starting(i)' PROVE Bringing(h[i], todo[i])'
      OBVIOUS
    <2>2. ~errs /\ Starting(i) /\ h[i].errs \in BOOLEAN
      BY <1>1, <1>2, <2>1 DEF Starting, Stands, HandlersOK, Handling
    <2>3. Bringing(h[i], todo[i])
      BY <1>1, <2>2, WhileUp
    <2>4. /\ at = "start" /\ u \in DOMAIN docker' => docker'[u].image = config[u]
          /\ at = "record" => u \in DOMAIN docker' /\ docker'[u].image = config[u] /\ docker'[u].up
      BY <2>2, <2>3
    <2>5. h'[i].at = at /\ h'[i].unit = u /\ h'[i].want = h[i].want /\ h[i].at # "visit" /\ at # "visit"
      BY <1>2 DEF Stands, UpPlaces
    <2>6. u \in Wanted(config) /\ OnlyWantedUp
      BY <2>3, <2>5 DEF Bringing
    <2>7. ASSUME NEW v \in Wanted(config)' PROVE Good(v)' \/ v \in todo'[i] \/ v = u
      <3>1. v \in Wanted(config) /\ v \in Units
        BY <2>7 DEF Wanted
      <3>2. Good(v) \/ v \in todo[i] \/ v = u
        BY <2>3, <3>1 DEF Bringing
      <3>3. v # u /\ Good(v) => Good(v)'
        BY <3>1 DEF Good, Running, Exists
      <3>4. QED BY <3>2, <3>3
    <2>8. QED
      BY <2>3, <2>4, <2>5, <2>6, <2>7 DEF Bringing, OnlyWantedUp, Running, Exists
  <1>4. h[i].op # "none" /\ Others(i) /\ h'[i].op = h[i].op /\ h'[i].loop = "up"
    BY <1>1, <1>2 DEF PlaceOK, Stands, Others
  <1>5. QED BY <1>3, <1>4, CalmKept

LEMMA CalmInspect == ASSUME CalmInv, Typed', NEW i \in Handlers, Inspect(i) PROVE CalmInv'
  <1> DEFINE u == h[i].unit
             at == IF ~Exists(u) THEN "create"
                   ELSE IF docker[u].image # h[i].want[u] THEN "replace"
                   ELSE IF docker[u].up THEN "record" ELSE "start"
  <1>1. MapsOK /\ h[i].at = "inspect" /\ u \in Units
    BY DEF CalmInv, Typed, Inspect, At, PlaceOK
  <1>2. at \in UpPlaces /\ Place(i, at, FALSE)
    BY DEF Inspect, Goto, UpPlaces
  <1>3. UNCHANGED <<config, workers, docker, todo, calm, settled>>
    BY DEF Inspect, memory, history
  <1>4. ASSUME Bringing(h[i], todo[i])
        PROVE  /\ at = "start" /\ u \in DOMAIN docker' => docker'[u].image = config[u]
               /\ at = "record" => u \in DOMAIN docker' /\ docker'[u].image = config[u] /\ docker'[u].up
    <2>1. h[i].want = config
      BY <1>4 DEF Bringing
    <2>2. CASE at = "start"
      BY <1>3, <2>1, <2>2 DEF Exists
    <2>3. CASE at = "record"
      <3>1. Exists(u) /\ docker[u].image = config[u] /\ docker[u].up
        BY <2>1, <2>3
      <3>2. QED BY <1>3, <2>3, <3>1 DEF Exists
    <2>4. QED BY <2>2, <2>3
  <1> HIDE DEF at
  <1>5. h[i].at \in UpPlaces
    BY <1>1 DEF UpPlaces
  <1>6. QED BY <1>2, <1>3, <1>4, <1>5, CalmUp

LEMMA CalmReplace == ASSUME CalmInv, Typed', NEW i \in Handlers, Replace(i) PROVE CalmInv'
  <1> DEFINE u == h[i].unit
  <1>1. h[i].at \in UpPlaces /\ UNCHANGED <<config, workers, todo, calm, settled>>
    BY DEF Replace, At, UpPlaces, memory, history
  <1>2. CASE i \in held
    <2>1. Place(i, "create", FALSE) /\ docker' = Del(docker, u)
      BY <1>2 DEF Replace, Removing, Goto
    <2>2. \A v \in Units \ {u} : /\ v \in DOMAIN docker' <=> v \in DOMAIN docker
                                 /\ v \in DOMAIN docker' => docker'[v] = docker[v]
      BY <2>1 DEF Del
    <2>3. QED BY <1>1, <2>1, <2>2, CalmUp DEF UpPlaces
  <1>3. CASE i \notin held
    <2>1. Place(i, "record", TRUE) /\ docker' = docker
      BY <1>3 DEF Replace, Failed
    <2>2. QED BY <1>1, <2>1, CalmUp DEF UpPlaces
  <1>4. QED BY <1>2, <1>3

LEMMA CalmCreate == ASSUME CalmInv, Typed', NEW i \in Handlers, Create(i) PROVE CalmInv'
  <1> DEFINE u == h[i].unit
  <1>1. h[i].at \in UpPlaces /\ UNCHANGED <<config, workers, todo, calm, settled>>
    BY DEF Create, At, UpPlaces, memory
  <1>2. CASE Exists(u)
    <2>1. Place(i, "record", TRUE) /\ docker' = docker
      BY <1>2 DEF Create, Failed
    <2>2. QED BY <1>1, <2>1, CalmUp DEF UpPlaces
  <1>3. CASE ~Exists(u)
    <2>1. Place(i, "start", FALSE) /\ docker' = Put(docker, u, [image |-> h[i].want[u], up |-> FALSE])
      BY <1>3 DEF Create, Goto
    <2>2. /\ DOMAIN docker' = DOMAIN docker \cup {u} /\ docker'[u].image = h[i].want[u]
          /\ \A v \in DOMAIN docker \ {u} : docker'[v] = docker[v]
      BY <2>1 DEF Put
    <2>3. Bringing(h[i], todo[i]) => docker'[u].image = config[u]
      BY <2>2 DEF Bringing
    <2>4. \A v \in Units \ {u} : /\ v \in DOMAIN docker' <=> v \in DOMAIN docker
                                 /\ v \in DOMAIN docker' => docker'[v] = docker[v]
      BY <2>2
    <2>5. QED BY <1>1, <2>1, <2>3, <2>4, CalmUp DEF UpPlaces
  <1>4. QED BY <1>2, <1>3

LEMMA CalmStartContainer ==
    ASSUME CalmInv, Typed', NEW i \in Handlers, StartContainer(i) PROVE CalmInv'
  <1> DEFINE u == h[i].unit
  <1>1. /\ MapsOK /\ HeldOK /\ h[i].at = "start" /\ h[i].at \in UpPlaces /\ u \in Units
        /\ UNCHANGED <<config, workers, todo, calm, settled>>
    BY DEF StartContainer, At, UpPlaces, memory, history, CalmInv, Typed, PlaceOK
  <1>2. CASE i \in held /\ ~docker[u].up
    <2>1. Place(i, "record", FALSE) /\ docker' = [docker EXCEPT ![u].up = TRUE]
      BY <1>2 DEF StartContainer, Goto
    <2>2. \A v \in Units \ {u} : /\ v \in DOMAIN docker' <=> v \in DOMAIN docker
                                 /\ v \in DOMAIN docker' => docker'[v] = docker[v]
      BY <2>1
    <2>3. ASSUME Bringing(h[i], todo[i])
          PROVE  u \in DOMAIN docker' /\ docker'[u].image = config[u] /\ docker'[u].up
      <3>1. Exists(u) /\ docker[u].image = config[u]
        BY <1>1, <1>2, <2>3 DEF HeldOK, Bringing
      <3>2. docker[u] \in [image: Images \cup {NoImage}, up: BOOLEAN]
        BY <1>1, <3>1 DEF MapsOK, Exists
      <3>3. docker'[u].image = docker[u].image /\ docker'[u].up
        BY <2>1, <3>1, <3>2 DEF Exists
      <3>4. QED BY <2>1, <3>1, <3>3 DEF Exists
    <2>4. QED BY <1>1, <2>1, <2>2, <2>3, CalmUp DEF UpPlaces
  <1>3. CASE ~(i \in held /\ ~docker[u].up)
    <2>1. Place(i, "record", TRUE) /\ docker' = docker
      BY <1>3 DEF StartContainer, Failed
    <2>2. QED BY <1>1, <2>1, CalmUp DEF UpPlaces
  <1>4. QED BY <1>2, <1>3

LEMMA CalmRecord == ASSUME CalmInv, Typed', NEW i \in Handlers, Record(i) PROVE CalmInv'
  <1>1. PICK u \in Units : /\ u = h[i].unit /\ HandlersOK /\ PlaceOK(h[i])
                           /\ h[i].at = "record" /\ h[i].loop = "up"
    BY DEF CalmInv, Typed, Record, At, PlaceOK, UpPlaces
  <1>2. Goto(i, "visit") /\ UNCHANGED <<config, docker, calm, settled>>
    BY DEF Record, history
  <1>3. /\ DOMAIN workers' = DOMAIN workers \cup {u} /\ workers'[u] = TRUE
        /\ \A v \in DOMAIN workers \ {u} : workers'[v] = workers[v]
    <2>1. workers' = Put(workers, u, TRUE)
      BY <1>1 DEF Record
    <2>2. QED BY <2>1 DEF Put
  <1>4. Stands(i, "visit", None, h[i].errs)
    BY <1>1, <1>2, WentTo DEF Places
  <1>5. todo'[i] = todo[i]
    <2>1. CASE u \in DOMAIN workers
      BY <1>1, <2>1 DEF Record
    <2>2. CASE u \notin DOMAIN workers
      <3>1. PICK meets \in SUBSET {j \in Handlers : InRange(j)} :
                todo' = [j \in Handlers |-> IF j \in meets THEN todo[j] \cup {u} ELSE todo[j]]
        BY <1>1, <2>2 DEF Record
      <3>2. QED BY <1>1, <3>1 DEF InRange
    <2>3. QED BY <2>1, <2>2
  <1>6. Starting(i)' => Bringing(h[i], todo[i])'
    <2>1. SUFFICES ASSUME Starting(i)' PROVE Bringing(h[i], todo[i])'
      OBVIOUS
    <2>2. Bringing(h[i], todo[i])
      BY <1>1, <1>2, <1>4, <2>1, WhileUp DEF Stands, Starting
    <2>3. u \in Wanted(config) /\ Good(u)'
      <3>1. u \in Wanted(config) /\ Running(u) /\ docker[u].image = config[u]
        BY <1>1, <2>2 DEF Bringing
      <3>2. u \in DOMAIN workers' /\ workers'[u]
        BY <1>3
      <3>3. QED BY <1>2, <3>1, <3>2, Zenon DEF Good, Running, Exists
    <2>4. \A v \in Wanted(config) : v # u /\ Good(v) => Good(v)'
      BY <1>2, <1>3 DEF Good, Running, Exists
    <2>5. OnlyWantedUp'
      BY <1>2, <1>3, <2>2, <2>3 DEF Bringing, OnlyWantedUp
    <2>6. h'[i].at = "visit" /\ h'[i].want = h[i].want
      BY <1>4 DEF Stands
    <2>7. todo'[i] \subseteq Wanted(config) /\ config' = config /\ h[i].want = config
      BY <1>2, <1>5, <2>2 DEF Bringing
    <2>8. \A v \in Wanted(config) : Good(v)' \/ v \in todo'[i]
      BY <1>1, <1>5, <2>2, <2>3, <2>4 DEF Bringing
    <2>9. QED BY <2>5, <2>6, <2>7, <2>8 DEF Bringing
  <1>7. h[i].op # "none" /\ Others(i) /\ h'[i].op = h[i].op /\ h'[i].loop = "up"
    BY <1>1, <1>4 DEF PlaceOK, Stands, Others
  <1>8. QED BY <1>2, <1>6, <1>7, CalmKept

LEMMA CalmStop == ASSUME CalmInv, Typed', NEW i \in Handlers, StopContainer(i) PROVE CalmInv'
  <1>1. PICK u \in Units :
            /\ u = h[i].unit /\ HandlersOK /\ PlaceOK(h[i])
            /\ h[i].at = "stop" /\ h[i].loop \in {"sweep", "down"}
            /\ UNCHANGED <<config, workers, todo, calm, settled>> /\ h[i].op # "none"
    BY DEF CalmInv, Typed, StopContainer, At, PlaceOK, memory, history
  <1>2. CASE Exists(u)
    <2>1. Goto(i, "visit") /\ docker' = [docker EXCEPT ![u].up = FALSE]
      BY <1>1, <1>2 DEF StopContainer
    <2>2. Stands(i, "visit", None, h[i].errs)
      BY <1>1, <2>1, WentTo DEF Places
    <2>3. \A v : v # u => (v \in DOMAIN docker' <=> v \in DOMAIN docker) /\ docker'[v] = docker[v]
      BY <2>1
    <2>4. ASSUME Starting(i)', h[i].loop = "sweep" PROVE Sweeping(h[i], todo[i])'
      <3>1. Sweeping(h[i], todo[i]) /\ u \notin Wanted(config)
        BY <1>1, <2>2, <2>4, WhileSweep DEF Stands, Starting, Sweeping
      <3>2. \A v \in Wanted(config) : Good(v)'
        BY <1>1, <2>3, <3>1 DEF Sweeping, Good, Running, Exists
      <3>3. ~Running(u)'
        <4>1. docker'[u].up = FALSE
          <5>1. docker[u] \in [image: Images \cup {NoImage}, up: BOOLEAN]
            BY <1>2 DEF CalmInv, Typed, MapsOK, Exists
          <5>2. QED BY <1>2, <2>1, <5>1 DEF Exists
        <4>2. QED BY <4>1, Zenon DEF Running
      <3>4. h'[i].at = "visit"
        BY <2>2 DEF Stands
      <3>5. ASSUME NEW v \in DOMAIN workers \ Wanted(config) PROVE v \in todo[i] \/ ~Running(v)'
        <4>1. v \in todo[i] \/ v = u \/ ~Running(v)
          BY <1>1, <3>1 DEF Sweeping
        <4>2. v # u /\ Running(v)' => Running(v)
          BY <2>3 DEF Running, Exists
        <4>3. QED BY <3>3, <4>1, <4>2
      <3>6. QED BY <1>1, <3>1, <3>2, <3>4, <3>5 DEF Sweeping, OnlyWantedUp
    <2>5. QED BY <1>1, <2>2, <2>4, CalmKept DEF Stands, Others
  <1>3. CASE ~Exists(u)
    <2>1. Failed(i, "visit")
      BY <1>1, <1>3 DEF StopContainer
    <2>2. Stands(i, "visit", None, TRUE)
      BY <1>1, <2>1, Placed DEF Places, Failed, HandlersOK, Handling
    <2>3. QED BY <1>1, <2>2, CalmKept DEF Stands, Others, Starting
  <1>4. QED BY <1>2, <1>3

LEMMA CalmClean ==
    ASSUME CalmInv, Typed', NEW i \in Handlers, RemoveContainer(i) \/ Forget(i) PROVE CalmInv'
  <1>1. /\ HandlersOK /\ h[i].op \notin {"none", "start"} /\ UNCHANGED <<calm, settled>>
    BY DEF CalmInv, Typed, RemoveContainer, Forget, At, PlaceOK, history
  <1>2. PICK at \in {"forget", "visit"}, errs \in BOOLEAN : Place(i, at, errs)
    BY DEF RemoveContainer, Forget, Goto, Failed
  <1>3. Others(i) /\ h'[i].op = h[i].op
    BY <1>1, <1>2, Placed DEF Stands, Others, Places
  <1>4. QED BY <1>1, <1>3, CalmOther

LEMMA CalmHandle == ASSUME CalmInv, NEW i \in Handlers, Handle(i) PROVE CalmInv'
  <1>1. Typed'
    BY HandleTyped DEF CalmInv
  <1>2. QED
    BY <1>1, CalmMark, CalmBeginSweep, CalmBeginClean, CalmReply, CalmUpVisit, CalmSweepVisit, CalmVisit,
       CalmInspect, CalmReplace, CalmCreate, CalmStartContainer, CalmRecord, CalmStop, CalmClean
       DEF Handle

LEMMA CalmBegin ==
    ASSUME CalmInv, Typed', NEW i \in Handlers, Others(i), h'[i].op # "none",
           h'[i].op = "start" => h'[i].loop = "load",
           NEW op, NEW loop, NEW range, Begin(i, op, loop, range)
    PROVE  CalmInv'
  <1>1. /\ calm' = IF Busy = {} THEN {i} ELSE {}
        /\ settled' = FALSE
    BY DEF Begin
  <1>2. CalmAlone'
    BY <1>1 DEF CalmAlone, Others, Busy
  <1>3. CalmStart' /\ CalmStartSettles'
    <2>1. ASSUME NEW j \in Handlers, Starting(j)' PROVE h'[j].loop \notin {"up", "sweep"}
      BY <1>1, <2>1 DEF Starting
    <2>2. QED BY <1>1, <2>1 DEF CalmStart, CalmStartSettles
  <1>4. QED BY <1>2, <1>3 DEF CalmInv

LEMMA CalmUnchanged ==
    ASSUME CalmInv, Typed', UNCHANGED <<memory, docker, control, history>> PROVE CalmInv'
  <1>1. UNCHANGED <<alive, config, workers, docker, h, todo, calm, settled>>
    BY DEF memory, control, history
  <1>2. \A i \in Handlers : /\ Starting(i)' => Starting(i)
                            /\ Bringing(h[i], todo[i]) => Bringing(h[i], todo[i])'
                            /\ Sweeping(h[i], todo[i]) => Sweeping(h[i], todo[i])'
    BY <1>1 DEF Starting, Bringing, Sweeping, OnlyWantedUp, Good, Running, Exists
  <1>3. CalmStart'
    BY <1>1, <1>2 DEF CalmInv, CalmStart
  <1>4. QED BY <1>1, <1>3 DEF CalmInv, CalmAlone, CalmStartSettles, Running, Exists

LEMMA CalmNext == ASSUME CalmInv, [Next]_vars PROVE CalmInv'
  <1>1. Typed /\ Typed'
    BY NextTyped DEF CalmInv
  <1>2. CASE Ask
    <2>1. ASSUME NEW i \in Handlers, NEW op \in Op \ {"none"}, NEW loop \in LoopNames \ {"none"},
                 NEW range \in SUBSET Units, Begin(i, op, loop, range), config' \in Configs,
                 op = "start" <=> loop \in {"load", "up", "sweep"}, op = "start" => loop = "load"
          PROVE  CalmInv'
      <3>1. Others(i) /\ h'[i].op = op /\ h'[i].loop = loop
        BY <1>1, <2>1, BeginTyped
      <3>2. QED BY <1>1, <2>1, <3>1, CalmBegin
    <2>2. CASE GetPage
      BY <1>1, <2>2, GetsChangeNothing, CalmUnchanged
    <2>3. ASSUME NEW cfg \in Configs, Boot(cfg) PROVE CalmInv'
      <3>1. /\ ~settled /\ calm = {} /\ settled' = settled /\ calm' = calm
        BY <2>3 DEF Boot, CalmInv, CalmAlone, Typed, DeadOK, HandlersOK
      <3>2. QED BY <1>1, <3>1 DEF CalmInv, CalmAlone, CalmStart, Starting, CalmStartSettles
    <2>4. QED BY <1>1, <1>2, <2>1, <2>2, <2>3, Requests
  <1>3. CASE GetStep \/ UNCHANGED vars
    BY <1>1, <1>3, GetsChangeNothing, CalmUnchanged
  <1>4. CASE MapRace
    <2>1. calm' = {} /\ settled' = FALSE
      BY <1>4 DEF MapRace
    <2>2. QED BY <1>1, <2>1 DEF CalmInv, CalmAlone, CalmStart, Starting, CalmStartSettles
  <1>5. QED BY <1>2, <1>3, <1>4, CalmHandle DEF CalmInv, Next

(* Whatever overlapping requests left behind, in a POST / that nothing but     *)
(* GET / overlaps and that answers without errors, every configured worker     *)
(* runs with its image, and nothing else runs that the manager knows of.       *)
THEOREM CalmSettles == Spec => []CalmStartSettles
  <1>1. Init => CalmInv
    <2>1. ASSUME Init PROVE CalmAlone /\ CalmStart /\ CalmStartSettles
      BY <2>1 DEF Init, CalmAlone, CalmStart, Starting, CalmStartSettles
    <2>2. QED BY <2>1, InitTyped DEF CalmInv
  <1>2. CalmInv /\ [Next]_vars => CalmInv'
    BY CalmNext
  <1>3. CalmInv => CalmStartSettles
    BY DEF CalmInv
  <1>4. QED BY <1>1, <1>2, <1>3, PTL DEF Spec

-----------------------------------------------------------------------------
(* The status page. *)

(* Some row has the last host. *)
LEMMA LastRow ==
    ASSUME NEW rows, IsFiniteSet(rows), rows # {}, \A s \in rows : s.host \in Nat
    PROVE  \E s \in rows : LastHost(rows) = s.host
  <1> DEFINE Later(s) == {o \in rows : ~(o.host <= s.host)}
             counts == {Cardinality(Later(s)) : s \in rows}
  <1>1. \A s \in rows : IsFiniteSet(Later(s)) /\ Cardinality(Later(s)) \in Nat
    <2>1. ASSUME NEW s \in rows PROVE IsFiniteSet(Later(s)) /\ Cardinality(Later(s)) \in Nat
      <3>1. Later(s) \in SUBSET rows
        OBVIOUS
      <3> HIDE DEF Later
      <3>2. IsFiniteSet(Later(s))
        BY <3>1, FS_Subset
      <3>3. QED BY <3>2, FS_CardinalityType
    <2>2. QED BY <2>1
  <1>2. PICK n \in counts : \A m \in counts : ~(m < n)
    <2>1. counts \subseteq Nat /\ counts # {}
      BY <1>1
    <2> HIDE DEF counts
    <2>2. PICK n \in counts : \A m \in counts : <<m, n>> \notin OpToRel(<, Nat)
      BY <2>1, WFMin, NatLessThanWellFounded
    <2>3. QED BY <2>1, <2>2 DEF OpToRel
  <1>3. PICK s \in rows : n = Cardinality(Later(s))
    BY <1>2
  <1>4. ASSUME NEW o \in rows, o \in Later(s) PROVE FALSE
    <2>1. Later(o) \in SUBSET Later(s) /\ o \notin Later(o) /\ Later(o) # Later(s)
      BY <1>4
    <2>2. Cardinality(Later(o)) \in Nat /\ Cardinality(Later(s)) \in Nat /\ IsFiniteSet(Later(s))
      BY <1>1
    <2>3. ~(Cardinality(Later(o)) < Cardinality(Later(s)))
      BY <1>2, <1>3
    <2> HIDE DEF Later
    <2>4. /\ Cardinality(Later(o)) <= Cardinality(Later(s))
          /\ Cardinality(Later(s)) = Cardinality(Later(o)) => Later(s) = Later(o)
      BY <2>1, <2>2, FS_Subset
    <2>5. QED BY <2>1, <2>2, <2>3, <2>4
  <1>5. \A o \in rows : o.host <= s.host
    BY <1>4
  <1>6. QED BY <1>5 DEF LastHost

(* What the steps of the handlers are to the page. *)
LEMMA PageMoves ==
    ASSUME Typed, [Next]_vars
    PROVE  \/ UNCHANGED pageVars
           \/ Get(DOMAIN workers)
           \/ PageStep
           \/ \E u \in left : Visit(u, workers[u], DockerUp) \/ ListFails(u, workers[u])
           \/ PageLost
           \/ \E u \in Units : RangeForgets(u) \/ RangeMeets(u)
  <1>1. CASE Ask
    BY <1>1 DEF Ask, Boot, Post, Stop, Clean, Delete, DeleteWorkers, Begin, GetPage
  <1>2. CASE GetStep
    BY <1>2 DEF GetStep
  <1>3. CASE MapRace
    BY <1>3 DEF MapRace
  <1>4. ASSUME NEW i \in Handlers, Handle(i)
        PROVE  UNCHANGED pageVars \/ \E u \in Units : RangeForgets(u) \/ RangeMeets(u)
    <2>1. CASE Record(i)
      <3>1. h[i].unit \in Units
        BY <2>1 DEF Record, At, Typed, PlaceOK
      <3>2. QED BY <2>1, <3>1 DEF Record
    <2>2. CASE Forget(i)
      <3>1. h[i].unit \in Units
        BY <2>2 DEF Forget, At, Typed, PlaceOK
      <3>2. QED BY <2>2, <3>1 DEF Forget
    <2>3. QED
      BY <1>4, <2>1, <2>2
         DEF Handle, Mark, BeginSweep, BeginClean, Reply, Inspect, Replace, Create, StartContainer,
             StopContainer, RemoveContainer, UpVisit, SweepVisit, DownVisit, CleanVisit, DeleteVisit
  <1>5. CASE UNCHANGED vars
    BY <1>5 DEF vars
  <1>6. QED BY <1>1, <1>2, <1>3, <1>4, <1>5 DEF Next

LEMMA DockerAnswers == ASSUME Typed PROVE DockerUp # None
  <1>1. /\ DOMAIN docker \in SUBSET Units
        /\ \A u \in DOMAIN docker : docker[u].up \in BOOLEAN
    BY DEF Typed, MapsOK
  <1>2. DockerUp \in [DOMAIN docker -> BOOLEAN]
    BY <1>1 DEF DockerUp
  <1>3. DockerUp \in UNION {[some -> BOOLEAN] : some \in SUBSET Units}
    BY <1>1, <1>2
  <1>4. QED BY <1>3, StatusPageAssumption

(* The caches and what is shown of them, when no answer of InfluxDB comes in. *)
LEMMA CachesKept ==
    ASSUME PageInv, UNCHANGED <<cached, indexed, urls, influx>>,
           \A u \in DOMAIN page' : page'[u].stats # None =>
               \/ u \in DOMAIN page /\ page[u].stats = page'[u].stats
               \/ KeyOf(u) \in DOMAIN cached /\ page'[u].stats = cached[KeyOf(u)]
    PROVE  CacheOK' /\ ShownOK'
  <1>1. CacheOK'
    BY DEF PageInv, CacheOK, Cached, Rows
  <1>2. ShownOK'
    BY DEF PageInv, ShownOK, KeyOf
  <1>3. QED BY <1>1, <1>2

(* The page as it is emptied. *)
LEMMA EmptyPageInv ==
    ASSUME page' = EmptyPage, indexed' = {}, cached' = EmptyPage, shot' = None, shown' = None,
           influx' = {}, get'.at \in {"idle", "range"}, get'.at # "idle" => urls' \in Sections,
           left' \subseteq Units, stayed' \subseteq left'
    PROVE  PageInv'
  <1>1. DOMAIN page' = {} /\ DOMAIN cached' = {}
    BY DEF EmptyPage
  <1>2. PageOK'
    BY <1>1, FS_EmptySet DEF PageOK
  <1>3. QED BY <1>1, <1>2 DEF PageInv, Visited, Asked, PageIsOneList, CacheOK, ShownOK

LEMMA PageGet == ASSUME Typed, Get(DOMAIN workers) PROVE PageInv'
  <1>1. DOMAIN workers \subseteq Units
    BY DEF Typed, MapsOK
  <1>2. /\ page' = EmptyPage /\ indexed' = {} /\ cached' = EmptyPage /\ shot' = None /\ shown' = None
        /\ influx' = {} /\ get'.at = "range" /\ urls' \in Sections
        /\ left' \subseteq Units /\ stayed' \subseteq left'
    BY <1>1 DEF Get, Ranging, Serving
  <1>3. QED BY <1>2, EmptyPageInv

LEMMA PageGone == ASSUME PageLost PROVE PageInv'
  <1>1. /\ page' = EmptyPage /\ indexed' = {} /\ cached' = EmptyPage /\ shot' = None /\ shown' = None
        /\ influx' = {} /\ get'.at = "idle" /\ left' \subseteq Units /\ stayed' \subseteq left'
    BY DEF PageLost, NotServing, Serving
  <1>2. QED BY <1>1, EmptyPageInv

(* An entry with a state, from docker's one answer. *)
LEMMA PageEntered ==
    ASSUME PageInv, NEW u \in left, NEW up, NEW state, Entered(u, up, state), shot' = shown',
           state = "error" \/ (shot' # None /\ (state = "down" <=> StateIn(shot', u) = "down")),
           shot # None => shot' = shot
    PROVE  PageInv'
  <1>1. /\ u \in Units /\ get.at = "range" /\ PageOK /\ left' = left \ {u}
        /\ get'.at = "detail" /\ get'.unit = u
        /\ UNCHANGED <<cached, indexed, urls, influx, stayed>>
    BY DEF PageInv, PageOK, Entered, Serving
  <1>2. /\ DOMAIN page' = DOMAIN page \cup {u}
        /\ page'[u] = [state |-> state, stats |-> None]
        /\ \A v \in DOMAIN page \ {u} : page'[v] = page[v]
    BY DEF Entered
  <1>3. PageOK'
    <2>1. \A v \in DOMAIN page' : page'[v] = [state |-> page'[v].state, stats |-> page'[v].stats]
      BY <1>1, <1>2 DEF PageOK
    <2>2. QED BY <1>1, <1>2, <2>1 DEF PageOK
  <1>4. Visited'
    BY <1>1, <1>2 DEF PageInv, Visited
  <1>5. Asked'
    BY <1>2 DEF PageInv, Asked
  <1>6. PageIsOneList'
    <2>1. ASSUME NEW v \in DOMAIN page', page'[v].state # "error"
          PROVE  page'[v].state = "down" <=> StateIn(shown', v) = "down"
      <3>1. CASE v = u
        BY <1>2, <2>1, <3>1
      <3>2. CASE v # u
        <4>1. v \in DOMAIN page /\ page'[v] = page[v]
          BY <1>2, <3>2
        <4>2. shot # None /\ shown' = shown
          BY <2>1, <4>1 DEF PageInv, Asked
        <4>3. QED BY <2>1, <4>1, <4>2 DEF PageInv, PageIsOneList
      <3>3. QED BY <3>1, <3>2
    <2>2. QED BY <2>1 DEF PageIsOneList
  <1>7. CacheOK' /\ ShownOK'
    BY <1>1, <1>2, CachesKept
  <1>8. QED BY <1>3, <1>4, <1>5, <1>6, <1>7 DEF PageInv

LEMMA PageVisit ==
    ASSUME Typed, PageInv, NEW u \in left,
           Visit(u, workers[u], DockerUp) \/ ListFails(u, workers[u])
    PROVE  PageInv'
  <1>1. shot = shown /\ DockerUp # None
    BY DockerAnswers DEF PageInv, Asked
  <1>2. CASE Visit(u, workers[u], DockerUp)
    <2>1. /\ shot' = IF shot # None THEN shot ELSE DockerUp
          /\ shown' = IF shot = None THEN DockerUp ELSE shown
          /\ Entered(u, workers[u], StateIn(shot', u))
      BY <1>2 DEF Visit, Listed
    <2>2. QED BY <1>1, <2>1, PageEntered
  <1>3. CASE ListFails(u, workers[u])
    <2>1. Entered(u, workers[u], "error") /\ shot' = shot /\ shown' = shown
      BY <1>3 DEF ListFails
    <2>2. QED BY <1>1, <2>1, PageEntered
  <1>4. QED BY <1>2, <1>3

(* Statistics for the entry. *)
LEMMA PageDetailed ==
    ASSUME PageInv, NEW stats, Detailed(stats),
           IsFiniteSet(influx'), influx' \subseteq [type: Types, host: Hosts, inst: Units]
    PROVE  /\ PageOK' /\ Visited' /\ Asked' /\ PageIsOneList'
           /\ DOMAIN page' = DOMAIN page /\ page'[get.unit].stats = stats
           /\ \A v \in DOMAIN page \ {get.unit} : page'[v] = page[v]
  <1>1. /\ get.at = "detail" /\ get.unit \in DOMAIN page /\ PageOK /\ get'.at = "range"
        /\ UNCHANGED <<left, shot, urls, stayed, shown>>
    BY DEF PageInv, PageOK, Detailed, Ranging, Serving
  <1>2. page[get.unit] = [state |-> page[get.unit].state, stats |-> page[get.unit].stats]
    BY <1>1 DEF PageOK
  <1>3. /\ DOMAIN page' = DOMAIN page
        /\ page'[get.unit] = [page[get.unit] EXCEPT !.stats = stats]
        /\ \A v \in DOMAIN page \ {get.unit} : page'[v] = page[v]
    BY <1>1 DEF Detailed
  <1>4. page'[get.unit] = [state |-> page[get.unit].state, stats |-> stats]
    BY <1>2, <1>3
  <1>5. \A v \in DOMAIN page : page'[v].state = page[v].state
    BY <1>3, <1>4
  <1>6. PageOK'
    <2>1. \A v \in DOMAIN page' : page'[v] = [state |-> page'[v].state, stats |-> page'[v].stats]
      BY <1>1, <1>3, <1>4 DEF PageOK
    <2>2. QED BY <1>1, <1>3, <2>1 DEF PageOK
  <1>7. Visited' /\ Asked' /\ PageIsOneList'
    BY <1>1, <1>3, <1>5 DEF PageInv, Visited, Asked, PageIsOneList
  <1>8. QED BY <1>3, <1>4, <1>6, <1>7

LEMMA PageCached == ASSUME PageInv, Unasked \/ FromCache PROVE PageInv'
  <1>1. PICK stats : /\ Detailed(stats) /\ UNCHANGED <<cached, indexed, influx>>
                     /\ stats = None \/ (KeyOf(get.unit) \in DOMAIN cached /\ stats = cached[KeyOf(get.unit)])
    BY DEF Unasked, FromCache, Hit
  <1>2. IsFiniteSet(influx) /\ influx \subseteq [type: Types, host: Hosts, inst: Units]
    BY DEF PageInv, PageOK
  <1>3. /\ PageOK' /\ Visited' /\ Asked' /\ PageIsOneList'
        /\ DOMAIN page' = DOMAIN page /\ page'[get.unit].stats = stats
        /\ \A v \in DOMAIN page \ {get.unit} : page'[v] = page[v]
    BY <1>1, <1>2, PageDetailed
  <1>4. urls' = urls
    BY <1>1 DEF Detailed
  <1>5. \A u \in DOMAIN page' : page'[u].stats # None =>
               \/ u \in DOMAIN page /\ page[u].stats = page'[u].stats
               \/ KeyOf(u) \in DOMAIN cached /\ page'[u].stats = cached[KeyOf(u)]
    BY <1>1, <1>3
  <1>6. CacheOK' /\ ShownOK'
    BY <1>1, <1>4, <1>5, CachesKept
  <1>7. QED BY <1>3, <1>6 DEF PageInv

(* InfluxDB's answer: the measurement is asked for once, so that what the      *)
(* cache has of the others is left as it is.                                   *)
LEMMA PageFetched ==
    ASSUME PageInv, NEW answer \in Contents, Prefetch(answer) PROVE PageInv'
  <1>1. PICK g \in Units, type \in Types :
            /\ g = get.unit /\ type = urls[g].type
            /\ PageOK /\ get.at = "detail" /\ type \notin indexed
            /\ DOMAIN cached \subseteq indexed \X Units
    BY StatusPageAssumption DEF PageInv, PageOK, CacheOK, Prefetch, Asking
  <1> DEFINE rows == Rows(answer, urls[g], Units)
             keys == {<<s.type, s.inst>> : s \in rows}
             Key(k) == {s \in rows : <<s.type, s.inst>> = k}
  <1>2. /\ IsFiniteSet(answer) /\ answer \subseteq [type: Types, host: Hosts, inst: Units]
        /\ IsFiniteSet(influx) /\ influx \subseteq [type: Types, host: Hosts, inst: Units]
    BY <1>1, StatusPageAssumption DEF PageOK
  <1>3. influx' = {s \in influx : s.type # type} \cup {s \in answer : s.type = type}
    BY <1>1 DEF Prefetch
  <1>4. IsFiniteSet(influx') /\ influx' \subseteq [type: Types, host: Hosts, inst: Units]
    <2>1. /\ {s \in influx : s.type # type} \in SUBSET influx
          /\ {s \in answer : s.type = type} \in SUBSET answer
      OBVIOUS
    <2>2. IsFiniteSet({s \in influx : s.type # type}) /\ IsFiniteSet({s \in answer : s.type = type})
      BY <1>2, <2>1, FS_Subset
    <2>3. IsFiniteSet(influx')
      BY <1>3, <2>2, FS_Union
    <2>4. QED BY <1>2, <1>3, <2>3
  <1>5. PICK stats :
            /\ Detailed(stats)
            /\ stats = IF <<type, g>> \in DOMAIN cached' THEN cached'[<<type, g>>] ELSE None
    BY <1>1 DEF Prefetch, KeyOf
  <1>6. /\ PageOK' /\ Visited' /\ Asked' /\ PageIsOneList'
        /\ DOMAIN page' = DOMAIN page /\ page'[g].stats = stats
        /\ \A v \in DOMAIN page \ {g} : page'[v] = page[v]
    BY <1>1, <1>4, <1>5, PageDetailed
  <1>7. urls' = urls /\ indexed' = indexed \cup {type}
    BY <1>1, <1>5 DEF Prefetch, Detailed
  <1>8. /\ DOMAIN cached' = DOMAIN cached \cup keys
        /\ \A k \in DOMAIN cached' : cached'[k] = IF k \in keys THEN LastHost(Key(k)) ELSE cached[k]
    BY <1>1 DEF Prefetch, Fetched, Filled
  <1>9. rows \subseteq answer /\ \A s \in rows : s.type = type /\ s.inst \in Units
    BY <1>1 DEF Rows
  <1>10. \A k \in keys : k[1] = type /\ k[2] \in Units /\ k = <<k[1], k[2]>>
    BY <1>9
  <1>11. \A u \in Units : Key(<<type, u>>) = Rows(influx', urls[g], {u})
    <2>1. ASSUME NEW u \in Units PROVE Key(<<type, u>>) = Rows(influx', urls[g], {u})
      BY <1>1, <1>3, <1>9, <2>1 DEF Rows
    <2>2. QED BY <2>1
  <1> HIDE DEF keys, Key, rows
  <1>12. CacheOK'
    <2>1. DOMAIN cached' \subseteq indexed' \X Units
      BY <1>1, <1>7, <1>8, <1>10
    <2>2. ASSUME NEW t \in indexed
          PROVE  \E v \in Units : /\ urls'[v].type = t
                                  /\ \A u \in Units : Cached(t, u, Rows(influx, urls[v], {u}))'
      <3>1. PICK v \in Units : /\ urls[v].type = t
                               /\ \A u \in Units : Cached(t, u, Rows(influx, urls[v], {u}))
        BY DEF PageInv, CacheOK
      <3>2. t # type
        BY <1>1
      <3>3. ASSUME NEW u \in Units PROVE Cached(t, u, Rows(influx, urls[v], {u}))'
        <4>1. Rows(influx', urls'[v], {u}) = Rows(influx, urls[v], {u})
          BY <1>3, <1>7, <3>1, <3>2 DEF Rows
        <4>2. <<t, u>> \notin keys
          BY <1>10, <3>2
        <4>3. Cached(t, u, Rows(influx, urls[v], {u}))
          BY <3>1
        <4>4. QED BY <1>8, <4>1, <4>2, <4>3 DEF Cached
      <3>4. QED BY <1>7, <3>1, <3>3
    <2>3. ASSUME NEW u \in Units PROVE Cached(type, u, Rows(influx, urls[g], {u}))'
      <3>1. Key(<<type, u>>) = Rows(influx', urls'[g], {u})
        BY <1>7, <1>11
      <3>2. <<type, u>> \in keys <=> Key(<<type, u>>) # {}
        BY DEF keys, Key
      <3>3. <<type, u>> \notin DOMAIN cached
        BY <1>1
      <3>4. QED BY <1>8, <3>1, <3>2, <3>3 DEF Cached
    <2>4. ASSUME NEW t \in indexed'
          PROVE  \E v \in Units : /\ urls'[v].type = t
                                  /\ \A u \in Units : Cached(t, u, Rows(influx, urls[v], {u}))'
      <3>1. CASE t = type
        <4>1. urls'[g].type = t /\ \A u \in Units : Cached(t, u, Rows(influx, urls[g], {u}))'
          BY <1>1, <1>7, <2>3, <3>1
        <4>2. QED BY <4>1
      <3>2. CASE t \in indexed
        BY <2>2, <3>2
      <3>3. QED BY <1>7, <3>1, <3>2
    <2>5. QED BY <2>1, <2>4 DEF CacheOK
  <1>13. ShownOK'
    <2>1. SUFFICES ASSUME NEW u \in DOMAIN page', page'[u].stats # None
                   PROVE  KeyOf(u)' \in DOMAIN cached' /\ page'[u].stats = cached'[KeyOf(u)']
      BY DEF ShownOK
    <2>2. KeyOf(u)' = KeyOf(u)
      BY <1>7 DEF KeyOf
    <2>3. CASE u = g
      BY <1>1, <1>5, <1>6, <2>1, <2>2, <2>3 DEF KeyOf
    <2>4. CASE u # g
      <3>1. /\ page'[u].stats = page[u].stats
            /\ KeyOf(u) \in DOMAIN cached /\ page[u].stats = cached[KeyOf(u)]
        BY <1>6, <2>1, <2>4 DEF PageInv, ShownOK
      <3>2. KeyOf(u) \notin keys
        BY <1>1, <1>10, <3>1 DEF KeyOf
      <3>3. QED BY <1>8, <2>2, <3>1, <3>2
    <2>5. QED BY <2>3, <2>4
  <1>14. QED BY <1>6, <1>12, <1>13 DEF PageInv

(* Another handler adds a record to the map, or deletes one. *)
LEMMA PageRange ==
    ASSUME PageInv, NEW u \in Units, RangeForgets(u) \/ RangeMeets(u) PROVE PageInv'
  <1>1. UNCHANGED <<get, page, shot, cached, indexed, urls, influx, shown>>
    BY DEF RangeForgets, RangeMeets, caches
  <1>2. PageOK' /\ Visited'
    <2>1. CASE RangeForgets(u)
      BY <1>1, <2>1 DEF PageInv, PageOK, Visited, RangeForgets
    <2>2. CASE RangeMeets(u)
      <3>1. left \subseteq left' /\ left' \subseteq left \cup {u} /\ stayed' = stayed
        BY <2>2 DEF RangeMeets
      <3>2. QED BY <1>1, <3>1 DEF PageInv, PageOK, Visited
    <2>3. QED BY <2>1, <2>2
  <1>3. Asked' /\ PageIsOneList'
    BY <1>1 DEF PageInv, Asked, PageIsOneList
  <1>4. CacheOK' /\ ShownOK'
    BY <1>1, CachesKept DEF PageInv, ShownOK
  <1>5. QED BY <1>2, <1>3, <1>4 DEF PageInv

LEMMA PageUnchanged == ASSUME PageInv, UNCHANGED pageVars PROVE PageInv'
  <1>1. UNCHANGED <<get, left, page, shot, cached, indexed, urls, influx, stayed, shown>>
    BY DEF pageVars, caches
  <1>2. PageOK' /\ Visited' /\ Asked' /\ PageIsOneList'
    BY <1>1 DEF PageInv, PageOK, Visited, Asked, PageIsOneList
  <1>3. CacheOK' /\ ShownOK'
    BY <1>1, CachesKept DEF PageInv, ShownOK
  <1>4. QED BY <1>2, <1>3 DEF PageInv

LEMMA InitPage == ASSUME Init PROVE PageInv
  <1>1. /\ DOMAIN page = {} /\ DOMAIN cached = {} /\ page = EmptyPage /\ cached = EmptyPage
        /\ get.at = "idle" /\ left = {} /\ stayed = {} /\ indexed = {} /\ influx = {}
        /\ shot = None /\ shown = None
    BY DEF Init, PageInit, EmptyPage, NotServing, Serving
  <1>2. PageOK
    BY <1>1, FS_EmptySet DEF PageOK
  <1>3. QED BY <1>1, <1>2 DEF PageInv, Visited, Asked, PageIsOneList, CacheOK, ShownOK

LEMMA PageNext == ASSUME Typed, PageInv, [Next]_vars PROVE PageInv'
  <1>1. CASE PageStep
    BY <1>1, PageCached, PageFetched, PageGone DEF PageStep, Answer
  <1>2. QED BY <1>1, PageMoves, PageUnchanged, PageGet, PageVisit, PageGone, PageRange

(* What the invariant of the caches says of a statistic that is shown, or not. *)
LEMMA StatsFollow == ASSUME PageInv PROVE StatsAgree
  <1>1. SUFFICES ASSUME get.at # "idle" PROVE StatsAgree
    BY DEF StatsAgree
  <1>2. /\ urls \in Sections /\ DOMAIN page \subseteq Units
        /\ IsFiniteSet(influx) /\ influx \subseteq [type: Types, host: Hosts, inst: Units]
    BY <1>1 DEF PageInv, PageOK
  <1>3. ASSUME NEW u \in Units, urls[u].type \in indexed
        PROVE  \E v \in Units :
                  /\ urls[v].type = urls[u].type /\ Cached(urls[u].type, u, Rows(influx, urls[v], {u}))
                  /\ OneHost(urls[u].type) => Rows(influx, urls[v], {u}) = Rows(influx, urls[u], {u})
    <2>1. PICK v \in Units : /\ urls[v].type = urls[u].type
                             /\ Cached(urls[u].type, u, Rows(influx, urls[v], {u}))
      BY <1>3 DEF PageInv, CacheOK
    <2>2. OneHost(urls[u].type) => urls[v].host = urls[u].host
      BY <2>1 DEF OneHost
    <2>3. urls[v].host = urls[u].host => Rows(influx, urls[v], {u}) = Rows(influx, urls[u], {u})
      BY <2>1 DEF Rows
    <2>4. QED BY <2>1, <2>2, <2>3
  <1>4. ASSUME NEW u \in DOMAIN page, page[u].stats # None
        PROVE  /\ OneHost(urls[u].type) => page[u].stats = Alone(u)
               /\ [type |-> urls[u].type, host |-> page[u].stats, inst |-> u] \in influx
    <2>1. /\ u \in Units /\ KeyOf(u) \in DOMAIN cached /\ page[u].stats = cached[KeyOf(u)]
          /\ urls[u].type \in indexed
      BY <1>2, <1>4 DEF PageInv, ShownOK, CacheOK, KeyOf
    <2>2. PICK v \in Units :
                  /\ urls[v].type = urls[u].type /\ Cached(urls[u].type, u, Rows(influx, urls[v], {u}))
                  /\ OneHost(urls[u].type) => Rows(influx, urls[v], {u}) = Rows(influx, urls[u], {u})
      BY <1>3, <2>1
    <2> DEFINE rows == Rows(influx, urls[v], {u})
    <2>3. rows # {} /\ page[u].stats = LastHost(rows)
      BY <2>1, <2>2 DEF Cached, KeyOf
    <2>4. rows \in SUBSET influx /\ \A s \in rows : s.type = urls[u].type /\ s.inst = u
      BY <2>2 DEF Rows
    <2> HIDE DEF rows
    <2>5. IsFiniteSet(rows) /\ \A s \in rows : s.host \in Nat
      <3>1. IsFiniteSet(rows)
        BY <1>2, <2>4, FS_Subset
      <3>2. \A s \in rows : s \in [type: Types, host: Hosts, inst: Units]
        BY <1>2, <2>4
      <3>3. \A s \in rows : s.host \in Hosts
        BY <3>2
      <3>4. QED BY <3>1, <3>3, StatusPageAssumption
    <2>6. PICK s \in rows : LastHost(rows) = s.host
      BY <2>3, <2>5, LastRow
    <2>7. s = [type |-> urls[u].type, host |-> page[u].stats, inst |-> u]
      BY <1>2, <2>3, <2>4, <2>6
    <2>8. OneHost(urls[u].type) => page[u].stats = Alone(u)
      BY <2>2, <2>3 DEF Alone, rows
    <2>9. QED BY <2>4, <2>7, <2>8
  <1>5. ASSUME NEW u \in Units, urls[u].type \in indexed, OneHost(urls[u].type), KeyOf(u) \notin DOMAIN cached
        PROVE  Alone(u) = None
    BY <1>3, <1>5 DEF Cached, KeyOf, Alone, LastHost
  <1>6. QED BY <1>4, <1>5 DEF StatsAgree

(* GET / shows each record that was there from the beginning to the end of its *)
(* range, whatever the other handlers add and delete meanwhile.                *)
THEOREM WholePage == Spec => []PageComplete
  <1>1. Init => Typed /\ PageInv
    BY InitTyped, InitPage
  <1>2. Typed /\ PageInv /\ [Next]_vars => Typed' /\ PageInv'
    BY NextTyped, PageNext
  <1>3. PageInv => PageComplete
    BY DEF PageInv, Visited, PageComplete
  <1>4. QED BY <1>1, <1>2, <1>3, PTL DEF Spec

(* The states that one GET / shows are of one answer of docker, however many   *)
(* containers the other handlers start, stop and remove meanwhile.             *)
THEOREM OneAnswer == Spec => []PageIsOneList
  <1>1. Init => Typed /\ PageInv
    BY InitTyped, InitPage
  <1>2. Typed /\ PageInv /\ [Next]_vars => Typed' /\ PageInv'
    BY NextTyped, PageNext
  <1>3. PageInv => PageIsOneList
    BY DEF PageInv
  <1>4. QED BY <1>1, <1>2, <1>3, PTL DEF Spec

(* The statistics that GET / shows and withholds are a GET of that worker's,   *)
(* for any answers of InfluxDB, as long as the URLs of a measurement name one  *)
(* host; with several hosts they are still the worker's own.                   *)
THEOREM OwnStats == Spec => []StatsAgree
  <1>1. Init => Typed /\ PageInv
    BY InitTyped, InitPage
  <1>2. Typed /\ PageInv /\ [Next]_vars => Typed' /\ PageInv'
    BY NextTyped, PageNext
  <1>3. PageInv => StatsAgree
    BY StatsFollow
  <1>4. QED BY <1>1, <1>2, <1>3, PTL DEF Spec

=============================================================================
