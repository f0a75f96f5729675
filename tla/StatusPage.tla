------------------------------ MODULE StatusPage ------------------------------
(***************************************************************************)
(* GET / of the REST API: Manager.ListWorkers, and the two caches that     *)
(* live for one such request.                                              *)
(*                                                                         *)
(* The handler ranges over Manager.workers while other handlers change it. *)
(* docker.Cache asks docker once for all workers; workerCache asks         *)
(* InfluxDB once for all instances of a measurement, with the hostname in  *)
(* the URL of the worker that needs it first, and remembers that it asked. *)
(* The module that EXTENDS this one supplies the records and docker.       *)
(***************************************************************************)
EXTENDS Naturals, FiniteSets

CONSTANTS Units,    \* the workers' names; statistics carry a worker's name as instance
          Types,    \* measurements
          Hosts,    \* hostnames: numbers, since InfluxDB answers in their order
          AnyHost,  \* a stats URL without ?hostname=
          Sections, \* what RateStats of the workers' sections may be
          Contents, \* what InfluxDB may hold of the last ten seconds
          None      \* no list, no worker, no statistics

ASSUME StatusPageAssumption ==
    /\ Hosts \subseteq Nat
    /\ AnyHost \notin Nat
    /\ None \notin Nat \cup Units \cup UNION {[some -> BOOLEAN] : some \in SUBSET Units}
    /\ Sections \subseteq [Units -> [type: Types, host: Hosts \cup {AnyHost}]]
    /\ Contents \subseteq SUBSET [type: Types, host: Hosts, inst: Units]
    /\ \A answer \in Contents : IsFiniteSet(answer)

VARIABLES
    get,       \* the handler: where it is, the worker it is at, and that record's up
    left,      \* what its range has not visited
    page,      \* the entries it has made: a state, and the host of the statistics shown
    shot,      \* docker.Cache: the list that docker gave, or None
    cached,    \* workerCache.statsCache: the host of the series under a type and an instance
    indexed,   \* workerCache.statsIndex
    urls,      \* RateStats of each worker's section, as of this request
    influx,    \* what InfluxDB held of the last ten seconds when it was asked
    stayed,    \* history: the records that were there all along
    shown      \* history: what docker answered first

caches == <<shot, cached, indexed>>
pageVars == <<get, left, page, caches, urls, influx, stayed, shown>>

Serving(place, unit, up) == [at |-> place, unit |-> unit, up |-> up]
NotServing == Serving("idle", None, FALSE)
Ranging == Serving("range", None, FALSE)
EmptyPage == [u \in {} |-> None]

PageInit ==
    /\ get = NotServing /\ left = {} /\ page = EmptyPage
    /\ shot = None /\ cached = EmptyPage /\ indexed = {}
    /\ urls = EmptyPage /\ influx = {}
    /\ stayed = {} /\ shown = None

-----------------------------------------------------------------------------
(* InfluxDB's answer, and what it leaves in the cache: its keys have no *)
(* hostname, so that of several hosts the last row stays.               *)

Rows(answer, url, insts) ==
    {s \in answer : s.type = url.type /\ url.host \in {AnyHost, s.host} /\ s.inst \in insts}
LastHost(rows) ==
    IF rows = {} THEN None
    ELSE (CHOOSE s \in rows : \A other \in rows : other.host <= s.host).host

Filled(rows) ==
    LET keys == {<<s.type, s.inst>> : s \in rows}
    IN  [k \in DOMAIN cached \cup keys |->
            IF k \in keys THEN LastHost({s \in rows : <<s.type, s.inst>> = k}) ELSE cached[k]]

KeyOf(u) == <<urls[u].type, u>>

(* What GET of this worker alone, whose cache is not eager, would show. *)
Alone(u) == LastHost(Rows(influx, urls[u], {u}))

-----------------------------------------------------------------------------
(* A handler with empty caches begins its range over the records. *)
Get(records) ==
    /\ get.at = "idle"
    /\ get' = Ranging
    /\ left' = records /\ stayed' = records
    /\ page' = EmptyPage
    /\ shot' = None /\ shown' = None /\ cached' = EmptyPage /\ indexed' = {}
    /\ urls' \in Sections
    /\ influx' = {}

(* getStatus: the record's up is read and docker is asked, unless it was: the *)
(* eager cache lists all workers, and a worker not in the list has no container. *)
Listed_NotNegative(u, docker) == IF shot # None /\ u \in DOMAIN shot THEN shot ELSE docker
Listed(u, docker) == IF shot # None THEN shot ELSE docker

StateIn(list, u) == IF u \in DOMAIN list /\ list[u] THEN "up" ELSE "down"

Entered(u, up, state) ==
    /\ get.at = "range" /\ u \in left
    /\ left' = left \ {u}
    /\ get' = Serving("detail", u, up)
    /\ page' = [v \in DOMAIN page \cup {u} |->
                   IF v = u THEN [state |-> state, stats |-> None] ELSE page[v]]
    /\ UNCHANGED <<cached, indexed, urls, influx, stayed>>

Visit(u, up, docker) ==
    /\ Entered(u, up, StateIn(Listed(u, docker), u))
    /\ shot' = Listed(u, docker)
    /\ shown' = IF shot = None THEN docker ELSE shown

ListFails_Returns(u, up) ==
    /\ get.at = "range" /\ u \in left /\ shot = None
    /\ get' = Ranging /\ left' = {}
    /\ UNCHANGED <<page, caches, urls, influx, stayed, shown>>

(* An error is not cached: the next worker asks again. *)
ListFails(u, up) ==
    /\ shot = None
    /\ Entered(u, up, "error")
    /\ UNCHANGED <<shot, shown>>

(***************************************************************************)
(* The rest of getStatus.  A worker that was marked down, or that has no    *)
(* configuration in Redis, is not asked about; for the others StatsGet      *)
(* takes what is cached, nothing if the measurement was asked for, or       *)
(* fetches all its instances.  "up" stands for the state wait, too.         *)
(***************************************************************************)
Detailed(stats) ==
    /\ get.at = "detail"
    /\ get' = Ranging
    /\ page' = [page EXCEPT ![get.unit].stats = stats]
    /\ UNCHANGED <<left, shot, urls, stayed, shown>>

Unasked == Detailed(None) /\ UNCHANGED <<cached, indexed, influx>>

Hit == KeyOf(get.unit) \in DOMAIN cached
Asking == get.up /\ ~Hit /\ urls[get.unit].type \notin indexed

FromCache ==
    /\ get.at = "detail" /\ get.up /\ Hit
    /\ Detailed(cached[KeyOf(get.unit)])
    /\ UNCHANGED <<cached, indexed, influx>>

Fetched_Own(u, answer) == Filled(Rows(answer, urls[u], {u}))
Fetched(u, answer) == Filled(Rows(answer, urls[u], Units))

(* An entry that is not in the answer is reported as an error, without statistics. *)
Prefetch(answer) ==
    /\ get.at = "detail" /\ Asking
    /\ influx' = {s \in influx : s.type # urls[get.unit].type} \cup
                 {s \in answer : s.type = urls[get.unit].type}
    /\ cached' = Fetched(get.unit, answer)
    /\ indexed' = indexed \cup {urls[get.unit].type}
    /\ Detailed(IF KeyOf(get.unit) \in DOMAIN cached' THEN cached'[KeyOf(get.unit)] ELSE None)

(* The answer, or the death of the process: nothing of the handler is left. *)
PageLost ==
    /\ get' = NotServing /\ left' = {} /\ page' = EmptyPage
    /\ shot' = None /\ cached' = EmptyPage /\ indexed' = {}
    /\ urls' = EmptyPage /\ influx' = {} /\ stayed' = {} /\ shown' = None

Answer == get.at = "range" /\ left = {} /\ PageLost

PageStep == Unasked \/ FromCache \/ (\E answer \in Contents : Prefetch(answer)) \/ Answer

-----------------------------------------------------------------------------
(* What another handler's write to the map does to the range: a key that is   *)
(* deleted is not visited any more, one that is added may be visited or not.  *)

RangeForgets(u) ==
    /\ left' = left \ {u} /\ stayed' = stayed \ {u}
    /\ UNCHANGED <<get, page, caches, urls, influx, shown>>

RangeMeets(u) ==
    /\ left' \in {left} \cup {left \cup {v} : v \in {w \in {u} : get.at # "idle"}}
    /\ UNCHANGED <<get, page, caches, urls, influx, stayed, shown>>

-----------------------------------------------------------------------------
(* The answer of GET / shows all the workers of one moment: each record that  *)
(* was there from its beginning to its end is on the page ...                 *)
PageComplete == get.at = "range" /\ left = {} => stayed \subseteq DOMAIN page

(* ... and the states of those that docker was asked about are from one list, *)
(* however much other requests do to the containers in between.               *)
PageIsOneList ==
    \A u \in DOMAIN page :
        page[u].state # "error" => (page[u].state = "down" <=> StateIn(shown, u) = "down")

(* A statistic on the page, and one that the page withholds because the       *)
(* measurement was asked for, is what asking for the worker alone would give, *)
(* as long as the URLs of one measurement name one host; with several, what   *)
(* is shown is still the worker's own, if of another host.                    *)
OneHost(type) == \A u, v \in Units :
    urls[u].type = type /\ urls[v].type = type => urls[u].host = urls[v].host

StatsAgree == get.at # "idle" =>
    /\ \A u \in DOMAIN page : page[u].stats # None =>
          /\ OneHost(urls[u].type) => page[u].stats = Alone(u)
          /\ [type |-> urls[u].type, host |-> page[u].stats, inst |-> u] \in influx
    /\ \A u \in Units :
          urls[u].type \in indexed /\ OneHost(urls[u].type) /\ KeyOf(u) \notin DOMAIN cached
              => Alone(u) = None

=============================================================================
