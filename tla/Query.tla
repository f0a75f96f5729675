-------------------------------- MODULE Query --------------------------------
(***************************************************************************)
(* The DNS and HTTP workers (dns.Worker, http.Worker), which are one       *)
(* program but for the request they make, with their statistics writer.    *)
(*                                                                         *)
(* The main loop starts a goroutine per tick.  The goroutine makes its     *)
(* request and sends the result, an answer or an error, into the           *)
(* unbuffered resultChan; the main loop passes it on into statsChan, where *)
(* it may have to wait.  Nothing bounds the goroutines.  Neither worker    *)
(* takes pushes: its configuration is only registered.                     *)
(***************************************************************************)
EXTENDS StatsWriter, FiniteSets

CONSTANT MaxQueries     \* bound on the requests

ASSUME QueryAssumption ==
    /\ MaxQueries \in Nat
    /\ Stats = 1 .. MaxQueries /\ NoStat = 0

VARIABLES
    started,    \* the number of requests so far
    asking,     \* the requests under way
    waiting,    \* the goroutines blocked in resultChan, in the order they came
    main,       \* [at, query]: "select" or "stat"
    timer,      \* a tick waits in intervalChan
    alive       \* the process runs

queryVars == <<started, asking, waiting, main, timer, alive>>
vars == <<queryVars, statsVars>>

TypeOK ==
    /\ StatsTypeOK
    /\ started \in 0 .. MaxQueries
    /\ asking \subseteq 1 .. MaxQueries
    /\ waiting \in Seq(1 .. MaxQueries)
    /\ main \in [at: {"select", "stat"}, query: 0 .. MaxQueries]
    /\ timer \in BOOLEAN /\ alive \in BOOLEAN

Init ==
    /\ StatsInit
    /\ started = 0
    /\ asking = {}
    /\ waiting = <<>>
    /\ main = [at |-> "select", query |-> 0]
    /\ timer = FALSE
    /\ alive = TRUE

-----------------------------------------------------------------------------
(* The main loop. *)

(* case tick := <-intervalChan *)
Start ==
    /\ main.at = "select" /\ timer /\ started < MaxQueries
    /\ timer' = FALSE
    /\ started' = started + 1
    /\ asking' = asking \cup {started + 1}
    /\ UNCHANGED <<waiting, main, alive, statsVars>>

(* case query := <-resultChan: the runtime lets blocked senders go in turn. *)
TakeResult ==
    /\ main.at = "select" /\ waiting # <<>>
    /\ main' = [at |-> "stat", query |-> Head(waiting)]
    /\ waiting' = Tail(waiting)
    /\ UNCHANGED <<started, asking, timer, alive, statsVars>>

(* worker.statsChan <- query *)
SendStat ==
    /\ main.at = "stat"
    /\ Accept(main.query)
    /\ main' = [at |-> "select", query |-> 0]
    /\ UNCHANGED <<started, asking, waiting, timer, alive>>

-----------------------------------------------------------------------------
(* The goroutines. *)

(* The request is answered, fails or times out: the result is sent anyhow.  *)
Result_Dropped(query) ==
    /\ query \in asking
    /\ asking' = asking \ {query}
    /\ waiting' \in {waiting, Append(waiting, query)}
    /\ UNCHANGED <<started, main, timer, alive, statsVars>>
Result(query) ==
    /\ query \in asking
    /\ asking' = asking \ {query}
    /\ waiting' = Append(waiting, query)
    /\ UNCHANGED <<started, main, timer, alive, statsVars>>

(***************************************************************************)
(* register ends on an error of Redis.  Register left configChan nil, and  *)
(* the deferred close of a nil channel is a panic: the worker dies.        *)
(***************************************************************************)
RegisterEnds ==
    /\ alive' = FALSE
    /\ UNCHANGED <<started, asking, waiting, main, timer, statsVars>>

TimerFires ==
    /\ ~timer
    /\ timer' = TRUE
    /\ UNCHANGED <<started, asking, waiting, main, alive, statsVars>>

Next ==
    /\ alive
    /\ \/ Start \/ TakeResult \/ SendStat
       \/ \E query \in asking : Result(query)
       \/ RegisterEnds \/ TimerFires
       \/ StatsNext /\ UNCHANGED queryVars

Spec == Init /\ [][Next]_vars

(***************************************************************************)
(* The goroutines run, time passes, select passes over no case for ever    *)
(* and InfluxDB answers every write, somehow.  Nothing is assumed of the   *)
(* servers: a DNS request times out, but an HTTP request need never end.   *)
(***************************************************************************)
Sink(A) == alive /\ A /\ UNCHANGED queryVars

FairSpec ==
    /\ Spec
    /\ SF_vars(alive /\ TakeResult) /\ WF_vars(alive /\ SendStat)
    /\ WF_vars(Sink(IntakeStep)) /\ WF_vars(Sink(WriterStep)) /\ WF_vars(Sink(Tick))

-----------------------------------------------------------------------------
Waiting == {waiting[i] : i \in DOMAIN waiting}

(* However many requests overlap and however late they end, each of them is   *)
(* under way, waiting, in the hands of the main loop or handed over.          *)
NoneLost ==
    /\ started = Cardinality(asking) + Len(waiting) + accepted
                 + IF main.at = "stat" THEN 1 ELSE 0
    /\ Cardinality(Waiting) = Len(waiting) /\ Waiting \cap asking = {}

(* A result that has come is handed over in the end, although a slow          *)
(* statistics writer blocks the main loop and new requests keep ending.       *)
EveryReported == \A query \in 1 .. MaxQueries :
    query \in Waiting ~> (query \notin Waiting /\ main.at = "select") \/ ~alive

=============================================================================
