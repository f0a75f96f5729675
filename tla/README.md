# A verification development for close

`close` generates network load: a control process (`cmd/control-web`) keeps
docker containers in the state its configuration asks for, VPN *clients* and
traffic *workers* attached to them; each worker sends or receives traffic,
reports statistics, and takes its runtime configuration from Redis.  This
directory holds TLA+ modules of the parts that keep state, the TLC
configurations that check them, and TLAPS proofs.  Every path below is under
`src/`.

## The system

| component | state | operations | interacts with |
|---|---|---|---|
| control manager (`control/`) | `config`, `clients`, `workers`: what should exist and what it believes exists | `Discover`, `Start` (Up, then sweep), `Stop`, `Clean`, `Panic`, `ClientDelete`, `WorkerDelete` | called by the REST handlers and `main`; calls the docker manager once per container |
| docker manager (`docker/`) | none of its own: the containers are docker's | `List`, `Up` (inspect, remove, create, start), `Down`, `Clean`, `Panic` | the docker API, every call of which may fail |
| environment sets (`util/stringset.go`) | sorted slices | `Subset`, used by `docker.Config.Equals` | decides whether a running container is kept |
| log distributor (`logs/`) | history, subscribers, per follower two bounded channels | `Logger.Printf`, subscribe, unsubscribe | one goroutine for all, three more per websocket |
| UDP sender (`udp/send.go`, `udp/rate.go`) | the clock's `rate`, `stop`, `offset`, `stats`, none of them locked | `RateClock.Start`, `run`, `Set`, `Stop`; `Send.Run`, `configPush` | the clock's goroutine, the main loop, the signal handler |
| UDP receiver (`udp/recv.go`) | a map of sender states | `handlePacket`, `takeStats`, forgetting idle senders | packets over a real network; reports to the statistics channel |
| runtime configuration (`config/`) | a Redis key with an expiry, a sorted set, a subscription | `register` (set, refresh), `subscribe`, `Push`, `ApplyFunc` | two goroutines and the main loop of a worker, the control process through Redis |
| statistics writer (`stats/writer.go`) | what each of its two goroutines holds, an interval timer | takes one report per interval from an unbuffered channel, writes it to InfluxDB | the main loop of every worker |
| ping worker (`icmp/`) | a sequence number, a map of packets in flight | `Send`, `Recv`, match an answer, `configPush`, `Stop` | the receiver's goroutine, `register`, the statistics writer, the network |
| DNS and HTTP workers (`dns/`, `http/`) | requests under way | start one per tick, pass a result on | a goroutine per request, the statistics writer |
| dummy worker (`cmd/close-worker/dummy.go`) | the id it was given or made | takes pushes, refuses another id | its `config.Sub`, the signal handler |
| status pages and caches (`control/worker.go`, `docker/cache.go`) | per request: the list docker gave, the statistics InfluxDB gave and which measurements it was asked for | `ListWorkers`, `GetStatus`, `docker.Cache`, `workerCache.StatsGet` | reads the manager's records while other requests change them |
| the rest | none that survives a call | the other GET handlers, authentication, encodings, shell, web page | |

What is hard in this code: a request is a long sequence of docker calls any of
which may fail half way, between which containers exit and after which the
process may crash and have to find out what exists; requests are served
concurrently on maps without a lock; records outlive the configuration they
were made under; goroutines share the rate clock's fields
without a lock; channels are unbuffered or bounded and closed by whoever is
first; packets are lost, duplicated and reordered; keys expire while the main
loop is busy.  `PROJECT.json` lists these hazards at their lines, each with
the properties that watch over it, or with the reason why none does yet.

What makes each component correct:

- **manager**: after a request answered without errors docker is as the request
  promises; what runs as configured is not touched; a filtered delete touches
  what its filter names; whatever fails, no container is lost without an error;
  every request is answered; and requests that overlapped leave nothing behind
  that a later `POST /` does not repair.
- **Subset**: never a wrong no, and a wrong yes only about the tail.
- **logs**: every caller of `Printf` is served however slow the peers are, what
  is dropped is counted exactly, goroutines end, channels are closed once.
- **sender**: no more packets than configured, exactly the count if left alone, and
  a stop is obeyed.
- **receiver**: a report's counters add up, and nothing falls between reports.
- **statistics writer**: order is kept, nothing is written twice, little is held
  back; the worker it holds up goes on in the end.
- **ping**: a reported time is that of one packet and its own answer, once.
- **DNS, HTTP**: no result is lost between the goroutines, and each is reported.
- **config**: what Redis holds is what the worker runs with, for as long as it
  runs and not much longer, over its restarts too.
- **status page**: it shows the workers of one moment, each with its own
  statistics, however eager the caches.

## The modules

### Manager (with MCManager)

`alive`, `config`, `clients`, `workers` are the process's memory; `docker` maps
the name of a container to its state, image, volume flag and network.  `req`,
`todo`, `call` stand for the handler's stack: the request and the phases it
has still to run, what the current `range` has not visited, and the
`docker.Manager.Up` under way with the place it has reached.

| code | action |
|---|---|
| `main` after a start: config, `Discover`, `Start` with `--start` | `Boot`, `Discover`, `DiscoverFails`, `FatalStart` |
| the handlers of `WebApp` | `Post`, `Request`, `Reply`, `StopFailed` |
| the phases of `Manager.Start`, `Stop`, `Clean`, deletes, `Panic` | `NextPhase` (marking all records down where `Start` does) |
| `ClientUp`, `WorkerUp` and their loops | `ClientUp`, `WorkerUp`, `WorkerUpNoClient`, then one action per docker call: `Inspect`, `InspectUp`, `InspectFails`, `Remove`, `Create`, `Start`; `UpDone` is what the caller does with the result |
| `sweepClients`, `sweepWorkers`, `ClientDown`, `WorkerDown`, `ClientClean`, `WorkerClean`, `ClientDelete`, `WorkerDelete`, `docker.Manager.Panic` | `Sweep`, `StopClient`, `StopWorker`, `CleanClient`, `CleanWorker`, `DeleteClient`, `DeleteWorker`, `Kill`, `PanicListFails` |
| the world | `Exit` of a container, `Crash` of the process |

A docker call (`API`) succeeds when it can and is refused when it cannot
(`NoSuchContainer`, a start in the network of a client that does not run); within
`MaxFaults` it also fails by itself, its effect done or not.

Abstractions. `image` stands for every setting that `Config.Equals` compares
exactly; `rw` for a writable mount, which `Equals` never finds equal; the
environment is the subject of `StringSet`. A worker's `NetworkMode` (`net`) is
the name of its client, and all that `Equals` compares; `stranded` holds the
containers that are in the network namespace of a client that has stopped or
gone since, whether or not another runs under its name by now. `typed` says that
a section's `Type` makes a valid `config.ID`. A body that does not parse is
answered 400 before anything changes and is left out. The handlers are served
one at a time; `net/http` runs them concurrently, which is the subject of
`Handlers`.

Five variables are histories: `last` is the request answered last, `disturbed`
says that a container exited since that request began, `excused` holds the
containers about which an error was reported or which `Discover` overlooked
(`Overlooked`: a worker of an unknown section or of an invalid `Type`, a client
without a section that another one displaced), `forgiven` is what `excused` was when
the `DELETE /` began, and `reused` holds the workers that this Start took as it found
them, running or not.  What `WorkersStarted` promises is said with the last of
them: every worker of the config runs with its image, and in the network of its
client *as that client runs now*, but for what `Equals` overlooks.  A worker that
Start re-used although its section names no client any more keeps its old network;
and one that Start found running stays cut off in the network of a client that was
replaced, which happens to the workers of a client with a writable volume in every
Start.  A worker that was created, replaced or started anew has neither excuse.

### StatusPage and Handlers (with MCHandlers)

`Handlers` is the manager as its users meet it: several requests at once, each a
goroutine with its own place (`h`), its own range (`todo`) and its own
`ContainerID` (`held` as long as that names a container).  A docker call and the
change of the map that follows it are two steps, between which any other handler
may run; a key added to a map under a `range` may be visited or not, one deleted
is not.  `MapRace` is the Go runtime ending a process that it catches writing a
map under another goroutine.  It has the workers alone, without clients, faults
and exits, which are `Manager`'s, so that the interleavings remain countable.

| code | action |
|---|---|
| `main` before it listens | `Boot` |
| a request begins, its loops follow one another, its answer | `Post`, `Stop`, `Clean`, `Delete`, `DeleteWorkers`; `Mark`, `BeginSweep`, `BeginClean`; `Reply` |
| `WorkerUp` and `docker.Manager.Up` | `UpVisit`, `Inspect`, `Replace`, `Create`, `StartContainer`, `Record` |
| `sweepWorkers`, `WorkerDown`, `WorkerClean`, `WorkerDelete` | `SweepVisit`, `DownVisit`, `CleanVisit`, `DeleteVisit`, then `StopContainer`, `RemoveContainer`, `Forget` |

`StatusPage` is the handler of `GET /` with the two caches that live as long as
it: `docker.Cache` (`shot`) asks docker once for all workers, `workerCache`
(`cached`, `indexed`) asks InfluxDB once for each measurement.  `Handlers` EXTENDS
it: `Visit` reads the record and docker as they are when the range reaches them,
`RangeForgets` and `RangeMeets` are what another handler's delete and insert do to
the range.  Whether InfluxDB is asked with one or several hostnames is up to
`Sections`.

Histories: `calm` holds the requests that no other overlapped, `settled` says that
the request answered last was such a start, `lost` holds the containers created
between a removal and the delete of the record that follows it, `overlooked`
those without a section at `Discover`; `stayed` and `shown` are what was there
throughout and what docker answered first.

### StringSet (with MCStringSet)

`Subset` is a scan with two indices; an iteration is an action (`Skip`, `Miss`,
`Match`), and the inputs are all pairs of sorted slices up to `MaxLen`.

### Logs (with MCLogs)

A step is one channel operation.  `Logs.run` is `run` (select, the loop that
distributes a line, the loop that replays the history), `logFollower.run` is
`fwd`, and `reader` and `writer` are the goroutines of the websocket.  Lines
are numbered in the order in which `run` takes them.

### UdpSend

Every read and write of a field that two goroutines share is a step of its own:
`offset++` is `ReadOffset` and `WriteOffset`, `Set` is `SetRate`, `SetStop`,
`SetOffset`, and the loop's comparison reads its two operands one after the
other, in either order (`ReadOperand`, `Compare`). `Begin` is `RateClock.Start`,
which sets the fields before the clock runs and overwrites a Stop that came
earlier; the properties excuse a Stop that any `Set` overlaps or follows
(`overlapped`). How long the clock sleeps is left out: a tick may come at any
time. `Divide` models the division by a rate that became 0 after it was tested,
which panics.

### UdpRecv (with MCUdpRecv)

One map entry per sender, one action for each of the outcomes of a packet
(`MakeState`, `HandlePacket`) and of the statistics loop (`TakeStats`, `Forget`),
over a network that is a set of packets: delivery may keep a packet
(duplication), take any (reordering) or none (`Lose`).

### ConfigSub (with MCConfigSub)

The goroutine of `register` is `reg`, that of `subscribe` is `sub`; `Accept` and
`Reject` are the main loop. Redis is `key` (its value and expiry) and `score`; a
command may fail within `MaxFaults`, with or without having had its effect. Time
is discrete, and passes only while the goroutines wait for one another, for the
timer, or for a main loop that is busy for at most `MaxBusy` between two
refreshes; nothing is assumed of `MaxBusy`, since a main loop that waits for the
statistics writer, and that for InfluxDB, may be away for any time. `late` is a
history: a tick waited for a whole period, and no refresh since came in time and
found the key; that is when, and the only time when, `KeepAlive` lets the
listing of a registered worker lapse. `delivered` and `answered` count the
pushes of this life that Redis delivered and that the main loop answered, so
that `PushArrives` follows each push through `subscribe` and `register` up to
the answer (`Answer`). A worker lives several times: `Die` leaves Redis as it
is, since no deferred `clear` runs in a process that ends, and `Boot` begins
again over what the last life left, at another phase of the timer. `dummy` is
the worker of `dummy.go`, whose main loop refuses an id that is not its own.
`Listed` is what `List` and `Check` say of the worker.

### StatsWriter and StatsFifo, Ping (with MCPing), Query (with MCQuery)

`StatsWriter` is a component: the goroutine of `statsWriter` is `intake`, that
of `writer` is `writer`, and `tick` is the one place of the interval's channel.
A worker EXTENDS it, and its send into `statsChan` is one step with `Accept`.
Either error of `writer` is `WriteFails`; a point that `NewPoint` refuses is
the second outcome of `Taken`.  `StatsFifo` is what it promises: a queue of two
places that may lose an element and never reorders or repeats one.

`Ping` is the main loop of `icmp.Pinger` (`Send` ... `ConfigClosed`, one action
per case of the select and outcome), its receiver (`Receive`, `ReceiveClosed`,
`ReceiveFails`) and the world: ticks, pushes, the signal handler and a network
that delivers the answer to any packet that was sent, at any time and any number
of times.  A packet is identified by the count of sends, its number is that
count modulo `Seqs` (2^16 in the code), and `packets` is the map from numbers to
packets.  Times are left out: which packet's `SendTime` is reported is what the
model tells, not how long it took.

`Query` is one module for `dns.Worker` and `http.Worker`, which differ in the
request alone: `asking` are the goroutines in their request, `waiting` those
blocked in `resultChan`.  `RegisterEnds` is the end of `register`, fatal for a
worker that used `Register`.

## The runs

| run | question | instance |
|---|---|---|
| `Manager` | After a `POST /`, a stop, a delete or a panic answered without errors, is docker as promised (`WorkersStarted`, `ClientsStarted`, `OthersSwept`, `StopStops`, `DeleteRemoves`, `PanicKills`)?  Is a container ever lost silently (`NoSilentOrphan`), a good one replaced (`WorkersReused`), a filtered delete too wide (`DeletesSelected`), a request never answered (`Answered`)? | one client and one worker section with up to two instances; seven configurations: nothing, the worker in its client, the worker alone, in a client that the config forgot, new images and a volume, an invalid type, a count of 0; one docker fault, one exit, one crash |
| `Handlers` | What survives when requests overlap: does a later calm `POST /` settle everything (`CalmStartSettles`), and how can a container lose its record (`LostOnlyToClean`)?  Does `GET /` show every worker that stayed (`PageComplete`), states of one moment (`PageIsOneList`), and the statistics of each (`StatsAgree`)? | two workers, two configurations, three requests of which any two overlap, so that two may collide and a third repair or tell; docker in any state that an earlier life left |
| `StringSet` | What may `Subset` conclude? | slices of up to three out of four strings |
| `Logs` | Is what is dropped counted (`DropsExact`), a closed channel never sent to (`NoSendOnClosed`), every caller served (`WriteReturns`), every goroutine ended (`FollowerEnds`)? | two callers, one follower, buffers of one, six lines: enough to fill every place between a caller and a peer that never reads |
| `UdpSend` | How many packets may the sender send (`NeverTooMany`, `CountExact`, `StopBounds`), and does it end (`StopEnds`)? | counts 0 and 2, rates 0 and 1, two pushes, a stop, three packets: more than a count |
| `UdpRecv` | Do reports add up (`Accounting`) and leave nothing out (`Conservation`)? | two senders of three packets, two reports |
| `ConfigSub` | Is a worker that runs listed unless its main loop stays away too long (`KeepAlive`), one that died not for long (`DeadUnlisted`), the key current (`StoredIsCurrent`), and is every push that Redis delivered answered (`PushArrives`)? | two lives of any worker, dummy or not, two pushes, one failing command, four refresh periods, so that a key would expire twice, and a main loop that may stay away for two of them, the TTL |
| `Ping` | Is what is reported genuine (`Genuine`) and reported once (`ReportedOnce`), what is overlooked a duplicate (`OverlooksOnlyDuplicates`), a push answered (`PushAnswered`), a stop obeyed (`StopEnds`); is the statistics writer a queue (`IsFifo`)? | three sequence numbers and four requests, so that a number is used twice |
| `Query` | Is a result ever lost (`NoneLost`), or held back for ever (`EveryReported`)? | four requests, all of which may overlap and wait |

The histories and bounds are in the guards: a bound ends the exploration and
never enables anything. A client, a worker in it and two instances of each are
what collisions, filters and attachments need; one fault at every place is what
a lost error needs, since every handler treats each call's error by itself.
`DropsExact` and the others of `Logs` are about one follower: followers share
only `run`, whose loop over them is in the model for any set of them.

Three runs end in a violation, each of a sentence of the repository:

| run | what the code does |
|---|---|
| `StringSetYes` | `Subset` answers yes once `other` is exhausted, whatever is left of `self` |
| `LogsClose` | the reader and the writer of a websocket both unsubscribe it; the second close of the channel is a panic |
| `UdpSendFinal` | `Stop` before the first packet sets `stop` to 0, which is "never" |

Other departures were met while modelling and are in the models, without a run
of their own: a client that `Discover` found without its section is filed under
`<nil>`, and once the section is back `Start` brings the container up and then
sweeps it through the old record, without an error; a worker that could not be
started has a record and no container, so that `DELETE /` fails in its Stop and
never cleans, each time; `StatsWriter` is said to accept statistics continuously
(`stats/writer.go:148`) and takes one per interval; `Register` leaves its channel
nil, so that its end, at the first error of Redis, panics in the `close`
(`Query.RegisterEnds`); a worker whose section is gone is overlooked by `Discover` and
never stopped (`excused`); `Equals` ignores the old network when the new config
has none, and does not notice that a client was replaced, so that a Start without
errors leaves running workers without the network they need (`reused`, `stranded`);
a writable volume makes every `Start` replace its client (`rw`); a Stop that comes
before `RateClock.Start` is overwritten by it; `Set` and `offset++` may
overwrite each other, so that a pushed count is not reached; the reset of
`stats.Rate` races with the clock; a sender the receiver forgot has its late
duplicates counted as packets; `Push` succeeds although `register` has ended; a
main loop that is busy for longer than the TTL loses its key, or stores it
without an expiry, and the refreshes that follow do not bring a lost key back
(`late`); `GET /workers/...` answers 404 whatever error it met
(`control/web.go:104`); a `Clean` that has removed a container and a `Start` that
creates it again in between leave it running without a record, until the next
start of the process (`LostOnlyToClean`); of two overlapping Starts one removes or
starts by a `ContainerID` that the other has made stale, and the sweep of one
stops what the other has found running; a map written under another request ends the
process (`MapRace`); and when the stats URLs of one measurement name several
hosts, the page shows a worker's statistics of whichever came last
(`StatsAgree`).

### Fairness

- `Manager`: weak fairness of `Serve`.  A handler is a goroutine; it goes on
  running, and every docker call returns.
- `Logs`: weak fairness of each goroutine's steps and strong fairness of the
  cases of `run`'s select, which Go chooses among at random.  Nothing is assumed
  of the peer: `TakeMessage`, `WriteOk` and `WriteError` are not fair.
- `UdpSend`: weak fairness of the goroutines that can run, strong fairness of the
  tick in the main loop's select.  Signals, pushes and send errors are not fair.
- `ConfigSub`: weak fairness of `subscribe` (`Receive`), of the channel between the
  two goroutines (`TakePush`), of `register`'s commands, which Redis answers
  (`Redis`), and of the main loop (`MainLoop`).  The last is an assumption: however
  long it takes, the main loop comes back to its select and takes the push.  Pushes,
  failures, deaths and the clock are not fair.
- `Ping`, `Query`: weak fairness of the goroutines and of the interval's ticks,
  strong fairness of the cases of a select that are needed.  InfluxDB answers
  every write, with an error or without: its client has no timeout, so that this
  is an assumption about InfluxDB and not about the code.  Nothing is assumed of
  the network, of the servers, of pushes and of signals.
- `Handlers`, `UdpRecv`, `StringSet`: none, since they state safety alone.

Deadlock is checked for `Manager`.  The other systems do end: a scan returns, a
worker dies, a bound is reached.

## The proofs

TLAPS checks these for every value of the constants that the modules'
assumptions allow.

- **ManagerProofs**: `TypeCorrect` (`TypeOK`) and `NoContainerLost`
  (`NoSilentOrphan`). `NoSilentOrphan` alone is not inductive: that Up records the
  container it worked on without displacing another needs `KeyOK` (a client that
  has its section is filed under its own name, so only a nil record may differ
  from its key); that a loop's record still exists when it is visited needs
  `TodoOK`; that nothing is under way when a request begins needs `CallOK`; and
  that the state after a start, in which the manager knows nothing yet, ends in
  `Discover` needs `BootOK` and `PlanOK`. There is one lemma per group of actions
  (`AskInv`, `NextPhaseInv`, `UpInv`, `StopLoopsInv`, `CleanLoopsInv`, ...), on
  lemmas about maps and docker calls. `DeletesKeepToFilter` (`DeletesSelected`)
  needs `PathOK`: the loop under way and those still in the plan are those of the
  request that was made, and its range holds what the filter named. `StoppedAll`
  (`StopStops`), `DeletedAll` (`DeleteRemoves`) and `KilledAll` (`PanicKills`)
  follow from `HInv`, which says of each halting request what its loops have done
  so far: what is no longer in `todo`, of a loop that is over or under way, is
  down, or gone, or an error was counted (`WorkersHalted`, `ClientsHalted`,
  `Killed`); `RestOK` ties the plan to the request, and `Promise` is what is left
  once the plan is empty. `SweptAll` (`OthersSwept`), `StartedWorkers`,
  `StartedClients` and `ReusedWorkers` (`WorkersReused`) are what `POST /`
  promises. `SInv` says that of the records only wanted ones are up once they were
  marked down, and that what the sweeps have passed is down. `CallInv` says that
  Up starts nothing but a container that fits its section and touches a worker
  only if it does not. `TInv` says that what a loop has brought up stays there
  through the later ones, with its record; the sweeps respect it because its
  record is up. A client may be brought up and then swept through an old record
  (`Shadowed`), which is why the promise about clients excepts it. For the
  networks `StartedWorkers` needs `PInv`: `PlacedWorkers` says that a worker which
  this Start has brought up, and did not find running, is in the network of its
  section's client (`Placed`), and the loops that follow leave it there: the
  clients' sweep is over, and the workers' loops touch workers alone
  (`StaysPlaced`, `NotCutOff`). `StrandedOK` says that only running containers are
  cut off, so that one that is started anew is not, and that the client of one
  that is not cut off runs. `DeletedAll` needs `ForgivenOK`: while a `DELETE /`
  has met no error, nothing is given up on that was not when it began.
- **StringSetProofs**: `TypeCorrect`, `NoIsNeverWrong` (`NoIsRight`) and
  `YesUpToTheLast` (`YesUpToLast`).  The invariant says that all that was passed in
  `self` was found and all that was passed in `other` is smaller than what is
  looked for; the early return on lengths is a pigeonhole argument.
- **PingProofs**, of the statistics writer: `WriterIsFifo`: `StatsSpec => IsFifo`,
  for any worker.  The refinement mapping `Underway` is what `writer` and
  `intake` hold, in that order; `FifoNext` maps every step to a step of
  `StatsFifo` or to none, and needs `StatsTypeOK` for what the two goroutines
  hold.  Of the ping worker: `TypeCorrect`, `GenuineReports`, `FewOverlooked`,
  `OnceReported`, and `ReportsAreFifo`, which follows from `WriterIsFifo` once
  every step of the worker is a step of its statistics writer (`StatsStep`).  The
  invariant `PingInv` says that the map has under a number the last packet sent
  with it, and only until it is matched (`MapOK`), and that a packet that is not
  in it was matched or its number was used again (`Kept`).  The arithmetic is in
  the lemmas on division: two packets with one number are `Seqs` sends apart.
- **QueryProofs**: `NoQueryLost` (`NoneLost`).  Counting alone is not inductive:
  `QueryInv` adds that a goroutine waits in `resultChan` once and only after its
  request has ended, so that the requests under way and those waiting can be
  counted apart.
- **ConfigSubProofs**: `TypeCorrect`, `DeadExpire` (`DeadUnlisted`), `StoresCurrent`
  (`StoredIsCurrent`) and `StaysListed` (`KeepAlive`).  `Expiry` says that no key
  outlives its last owner by a TTL; `Storing` says at each place of `register`
  what the key holds, whatever an earlier life left in it.  `StaysListed` assumes
  nothing of the time that the main loop takes.  Its invariant `InTime` says of a
  registered worker without a late tick that the next tick comes within a period of
  the one that the expiry was computed from, and has waited for less than a period
  (`OnTime`), so that the expiry is still ahead, and that key and score carry that
  expiry; it rests on a lemma about the next tick of the timer modulo its period.
- **LogsProofs**: `DropsCounted` (`DropsExact`) and `OpenWhenSending`
  (`NoSendOnClosed`). The invariant `LInv` says that the lines on their way to
  a peer, from what `fwd` holds through its channels, continue what the peer
  has seen with exactly the announced gaps (`InOrder`), and that `run` has sent
  every subscriber the whole history, or as far as its loop has come
  (`UpToDate`).
- **UdpProofs**, of the sender: `TypeCorrect`, `FewEnough` (`NeverTooMany`),
  `ExactCount` (`CountExact`) and `StoppedInTime` (`StopBounds`). The fields of
  the clock are read and written one at a time by three goroutines, so the
  invariant `UInv` follows each between its read and its write: `Ticked` bounds
  every field, and what the clock has read of it, by the packets sent; `Counted`
  says that a packet sent since the last push is in `offset` or about to be, and
  `SeenEnough` that what the clock has read of an old `offset`, to compare it or
  to write it back, errs upwards; `Limited` says what `stop` is after a
  configuration or a Stop; `PushLimit` and `StopLimit` say how far the clock may
  have passed its comparison with it; `Exact` ties `offset` and `sent` to the
  configured count while nobody interferes. Of the receiver: `RecvTypeCorrect`,
  `ReportsAccount` (`Accounting`) and `ReportsConserve` (`Conservation`). Their
  conjunction is inductive; the argument is that `Handle` adds to the counters
  what it adds to the sequence number.
- **HandlersProofs**: three invariants on top of `Typed`, which places each
  handler in its loop.  `LostOnlyByClean` (`LostOnlyToClean`) needs `Removed`: a
  handler that is about to delete a record has removed the container, or somebody
  created it again since, which is when it is entered in `lost`.  `CalmSettles`
  (`CalmStartSettles`) needs `CalmAlone` (a calm handler has no other beside
  it), `Bringing` (of the records only wanted ones are up, and what the loop has
  passed is up with its image) and `Sweeping` (that stays so while the rest is
  stopped); nothing is needed of the state the request began in but its types,
  which is why it repairs whatever overlapping requests did.  `WholePage`
  (`PageComplete`), `OneAnswer` (`PageIsOneList`) and `OwnStats` (`StatsAgree`)
  follow from `PageInv`: what the range has not visited is in `left` (`Visited`),
  the list of docker is asked for once (`Asked`), the cache holds the last row of each
  measurement that was asked for (`CacheOK`), and what the page shows came from
  it (`ShownOK`).  `LastRow`, that a finite set of rows has a last host, is an
  induction over cardinalities, by well-foundedness.

Assumptions are the modules' `ASSUME`s: disjoint names (`None` is no worker,
number or list of docker's), naturals as bounds, configurations of the right
shape, and finite answers of InfluxDB, which TLC evaluates in every run.

Only model-checked: liveness under fairness (`Answered`, `WriteReturns`,
`FollowerEnds`, `StopEnds`, `PushArrives`, `PushAnswered`, `EveryReported`), which is
out of the prover's reach as is everything about `ENABLED`.  Every invariant and
action property that a passing run checks is also a theorem.  The
development has no recursive operator: induction over data is out of reach too,
and the scan of `Subset` is a state machine for that reason.

## Not modelled

- The other GET handlers (`ListClients`, `WorkerGet`, `Config`, logs and info of a
  container) keep no state: they pass on what docker, Redis or InfluxDB answer.
- `GET /` is modelled for workers.  For clients it dereferences the nil `Config` of
  one that `Discover` filed without a section, as the hazards say.
- Concurrent requests that touch clients, docker's faults and containers that
  exit while requests overlap: each is modelled without the others.
- Packet encodings, sockets and their statistics, authentication (a look-up in a
  file read once), the shell and the web page, and helpers on strings: input,
  output and formatting.
- How long the rate clock sleeps: a rate is a matter of real time.
- `configFromDocker` indexes `Cmd[0]` (`docker/config.go:74`) and panics for a
  container without a command; the containers of `Manager` have one.
- Why a worker on the status page is not up: `StatusPage` keeps apart whether docker
  says that it runs, not a clean exit from a failed one.
- `Interval` and `IntervalStatsWriter`, which no worker uses.

## Plan

What a next step would take up, in this order:

1. Clients in `Handlers`, where a worker that is started needs a client that
   another request stops.
2. An abstract log stream (a prefix of the lines with gaps, each announced) that
   `Logs` implements, from `LInv`; an abstract receiver that `UdpRecv` implements.
3. A worker's whole configuration path: `ConfigSub` composed with the main loop of
   a worker and its statistics writer, in place of the fairness of `MainLoop`.
4. Proofs: the refinements of item 2, step by step; and what the
   properties of `Handlers` become with clients.
