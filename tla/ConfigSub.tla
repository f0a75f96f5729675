------------------------------ MODULE ConfigSub ------------------------------
(***************************************************************************)
(* A worker's runtime configuration in Redis (config.Sub).                 *)
(*                                                                         *)
(* In the worker process the subscribe goroutine hands the pushes it       *)
(* receives from Redis to the register goroutine, which passes each to the *)
(* worker's main loop, waits for the answer and stores the configuration   *)
(* that results under the sub's key; every half TTL it also moves the      *)
(* key's expiry on.  The control process PUBLISHes pushes and lists the    *)
(* keys, and starts a worker that ended again.  Time is discrete.          *)
(***************************************************************************)
EXTENDS Integers, Sequences

CONSTANTS Ids, Params,
          Configs,    \* the configurations, each with an id and a parameter
          Period,     \* the period of refreshTimer
          Never,      \* a key without an expiry
          NoKey,      \* a key, or a timer tick, that is not there
          MaxTime,    \* bound on the clock
          MaxBusy,    \* bound on the time pushes keep the main loop busy between refreshes
          MaxPushes,  \* bound on the pushes
          MaxFaults,  \* bound on the Redis commands that fail
          MaxStarts   \* bound on the worker's lives

ASSUME ConfigSubAssumption ==
    /\ Configs \subseteq [id: Ids, param: Params]
    /\ Period \in Nat \ {0}
    /\ MaxTime \in Nat /\ MaxBusy \in Nat
    /\ MaxPushes \in Nat /\ MaxFaults \in Nat /\ MaxStarts \in Nat
    /\ Never \notin Int /\ NoKey \notin Int
    /\ NoKey \notin [config: Configs, expire: Int \cup {Never}]

VARIABLES
    now,        \* the clock
    alive,      \* the worker process runs
    key,        \* the sub's key in Redis: [config, expire], or NoKey
    score,      \* its score in the type's sorted set, or NoKey
    inbox,      \* pushes on the subscribed connection, not yet read
    sub,        \* the subscribe goroutine: [at, push]
    reg,        \* the register goroutine: [at, push], and its locals
    expire,     \* register's expire
    phase,      \* when refreshTimer ticks, modulo its period
    timer,      \* the tick waiting in refreshTimer's channel, or NoKey
    config,     \* the configuration the main loop runs with
    busy,       \* the time the main loop has spent on pushes since the last refresh
    dummy,      \* the worker is a DummyWorker, which keeps its id
    pushes, faults, starts,
    unstored,   \* history: a Set of a pushed configuration failed
    late,       \* history: a tick waited for a whole period, and no refresh made up for it
    delivered,  \* history: the pushes that Redis delivered in this life of the worker ...
    answered,   \* ... and those of them that the main loop answered
    died        \* history: when the process died, while there is none

redis == <<key, score>>
process == <<inbox, sub, reg, expire, timer, config, busy>>
lives == <<dummy, starts, died, phase>>
counts == <<pushes, delivered, answered>>
vars == <<now, alive, redis, process, counts, faults, unstored, late, lives>>

Ttl == 2 * Period   \* SUB_TTL

Time == 0 .. MaxTime + Ttl

(* The memory of a process that begins, or of none. *)
Memory(value, subAt, regAt) ==
    /\ inbox' = <<>> /\ config' = value
    /\ sub' = [at |-> subAt, push |-> value] /\ reg' = [at |-> regAt, push |-> value]
    /\ expire' = 0 /\ phase' = 0 /\ timer' = NoKey /\ busy' = 0
    /\ unstored' = FALSE /\ late' = FALSE
    /\ delivered' = 0 /\ answered' = 0

Init ==
    /\ now = 0
    /\ alive = FALSE /\ dummy \in BOOLEAN
    /\ key = NoKey /\ score = NoKey
    /\ inbox = <<>> /\ config \in Configs
    /\ sub = [at |-> "closed", push |-> config] /\ reg = [at |-> "closed", push |-> config]
    /\ expire = 0 /\ phase = 0 /\ timer = NoKey /\ busy = 0
    /\ unstored = FALSE /\ late = FALSE /\ delivered = 0 /\ answered = 0
    /\ pushes = 0 /\ faults = 0 /\ starts = 0 /\ died = 0

-----------------------------------------------------------------------------
(* Redis. *)

(* SET with an expiry that is not positive sets none. *)
SetKey_NoExpiry(value) == key' = [config |-> value, expire |-> Never]
SetKey(value) == key' = [config |-> value, expire |-> IF expire > now THEN expire ELSE Never]

(* EXPIREAT of a missing key is no error, and of a time that has passed *)
(* deletes the key.                                                     *)
ExpireKey_Late(k, at) == IF k = NoKey THEN NoKey ELSE [k EXCEPT !.expire = at + Period]
ExpireKey(k, at) == IF k = NoKey \/ at <= now THEN NoKey ELSE [k EXCEPT !.expire = at]

Fault == faults < MaxFaults /\ faults' = faults + 1

(* The register goroutine ends: the channel to the main loop is closed. *)
Ended == reg' = [reg EXCEPT !.at = "closed"]

-----------------------------------------------------------------------------
(* register. *)

RegisterType ==
    /\ alive /\ reg.at = "type"
    /\ expire' = now + Ttl
    /\ reg' = [reg EXCEPT !.at = "set"]
    /\ phase' = now % Period
    /\ UNCHANGED <<now, alive, redis, inbox, sub, timer, config, busy, counts, faults,
                   unstored, late, dummy, starts, died>>

InitialSet ==
    /\ alive /\ reg.at = "set"
    /\ SetKey(config)
    /\ reg' = [reg EXCEPT !.at = "refresh"]
    /\ UNCHANGED <<now, alive, score, inbox, sub, expire, timer, config, busy, counts, faults,
                   unstored, late, lives>>

InitialRefresh ==
    /\ alive /\ reg.at = "refresh"
    /\ key' = ExpireKey(key, expire) /\ score' = expire
    /\ reg' = [reg EXCEPT !.at = "select"]
    /\ UNCHANGED <<now, alive, inbox, sub, expire, timer, config, busy, counts, faults,
                   unstored, late, lives>>

(* Each of the three may fail, with or without having had its effect; nothing *)
(* is cleared then.                                                           *)
InitialFailure ==
    /\ alive /\ reg.at \in {"type", "set", "refresh"}
    /\ Fault /\ Ended
    /\ \/ UNCHANGED redis
       \/ reg.at = "set" /\ SetKey(config) /\ UNCHANGED score
       \/ reg.at = "refresh" /\ key' = ExpireKey(key, expire) /\ score' \in {score, expire}
    /\ UNCHANGED <<now, alive, inbox, sub, expire, timer, config, busy, counts,
                   unstored, late, lives>>

(* case configPush := <-subscribeChan: the unbuffered channel from subscribe. *)
TakePush ==
    /\ alive /\ reg.at = "select" /\ sub.at = "send"
    /\ reg' = [at |-> "apply", push |-> sub.push]
    /\ sub' = [sub EXCEPT !.at = "receive"]
    /\ UNCHANGED <<now, alive, redis, inbox, expire, timer, config, busy, counts, faults,
                   unstored, late, lives>>

(* case t := <-refreshTimer: t is when the timer fired, not now. *)
NextExpire == timer + Ttl
Refresh ==
    /\ alive /\ reg.at = "select" /\ timer # NoKey
    /\ expire' = NextExpire
    /\ timer' = NoKey
    /\ busy' = 0
    /\ key' = ExpireKey(key, NextExpire) /\ score' = NextExpire
    /\ late' = (late /\ (key = NoKey \/ now >= timer + Period))
    /\ UNCHANGED <<now, alive, inbox, sub, reg, config, counts, faults, unstored, lives>>

(* A refresh that fails, or a closed subscribeChan, ends register, which     *)
(* clears: an error of ZREM or DEL is only logged.                            *)
Cleared(k, z) == key' \in {NoKey, k} /\ score' \in {NoKey, z}

RefreshFailure ==
    /\ alive /\ reg.at = "select" /\ timer # NoKey
    /\ Fault /\ Ended
    /\ \/ Cleared(key, score)
       \/ \E z \in {score, NextExpire} : Cleared(ExpireKey(key, NextExpire), z)
    /\ timer' = NoKey
    /\ UNCHANGED <<now, alive, inbox, sub, expire, config, busy, counts, unstored, late,
                   lives>>

Unsubscribed ==
    /\ alive /\ reg.at = "select" /\ sub.at = "closed"
    /\ Ended /\ Cleared(key, score)
    /\ UNCHANGED <<now, alive, inbox, sub, expire, timer, config, busy, counts, faults,
                   unstored, late, lives>>

(* The answer of the main loop: the configuration it now has is stored. *)
Stored_Old == IF key = NoKey THEN config ELSE key.config
Stored == reg.push
Store ==
    /\ alive /\ reg.at = "store"
    /\ SetKey(Stored)
    /\ unstored' = FALSE
    /\ reg' = [reg EXCEPT !.at = "select"]
    /\ UNCHANGED <<now, alive, score, inbox, sub, expire, timer, config, busy, counts, faults,
                   late, lives>>

StoreFailure ==
    /\ alive /\ reg.at = "store"
    /\ Fault
    /\ UNCHANGED key \/ SetKey(Stored)
    /\ unstored' = TRUE
    /\ reg' = [reg EXCEPT !.at = "select"]
    /\ UNCHANGED <<now, alive, score, inbox, sub, expire, timer, config, busy, counts, late,
                   lives>>

-----------------------------------------------------------------------------
(* The main loop: ApplyFunc answers with the new configuration or an error.   *)
(* A DummyWorker refuses another id.                                           *)

Answer(next) ==
    /\ reg' = [reg EXCEPT !.at = next]
    /\ answered' = answered + 1
    /\ UNCHANGED <<now, alive, redis, inbox, sub, expire, timer, busy, pushes, delivered,
                   faults, unstored, late, lives>>

Accept ==
    /\ alive /\ reg.at = "apply"
    /\ dummy => reg.push.id = config.id
    /\ config' = reg.push
    /\ Answer("store")

Reject ==
    /\ alive /\ reg.at = "apply"
    /\ Answer("select")
    /\ UNCHANGED config

(* It finds the channel closed, by register or by DummyWorker.Stop, and       *)
(* returns, or the process dies otherwise: no deferred clear runs then.        *)
Die ==
    /\ alive
    /\ alive' = FALSE /\ died' = now
    /\ Memory(config, "closed", "closed")
    /\ UNCHANGED <<now, redis, pushes, faults, dummy, starts>>

(* POST / starts the container again, with its arguments or with new ones; a   *)
(* DummyWorker that was given no id generates one.                             *)
Boot(value) ==
    /\ ~alive
    /\ starts < MaxStarts /\ starts' = starts + 1
    /\ alive' = TRUE
    /\ Memory(value, "receive", "type")
    /\ died' = 0
    /\ UNCHANGED <<now, redis, pushes, faults, dummy>>

-----------------------------------------------------------------------------
(* subscribe. *)

Receive_Dropping ==
    /\ alive /\ sub.at = "receive" /\ inbox # <<>>
    /\ sub' = IF reg.at = "select" THEN [at |-> "send", push |-> Head(inbox)] ELSE sub
    /\ inbox' = Tail(inbox)
    /\ UNCHANGED <<now, alive, redis, reg, expire, timer, config, busy, counts, faults,
                   unstored, late, lives>>
Receive ==
    /\ alive /\ sub.at = "receive" /\ inbox # <<>>
    /\ sub' = [at |-> "send", push |-> Head(inbox)]
    /\ inbox' = Tail(inbox)
    /\ UNCHANGED <<now, alive, redis, reg, expire, timer, config, busy, counts, faults,
                   unstored, late, lives>>

ReceiveFailure ==
    /\ alive /\ sub.at = "receive"
    /\ Fault
    /\ sub' = [sub EXCEPT !.at = "closed"]
    /\ UNCHANGED <<now, alive, redis, inbox, reg, expire, timer, config, busy, counts,
                   unstored, late, lives>>

-----------------------------------------------------------------------------
(* The control process: Push is an error if Redis has no subscriber. *)

Subscribers == IF alive /\ sub.at # "closed" THEN 1 ELSE 0

Push(value) ==
    /\ pushes < MaxPushes
    /\ pushes' = pushes + 1
    /\ inbox' = IF Subscribers = 0 THEN inbox ELSE Append(inbox, value)
    /\ delivered' = delivered + Subscribers /\ UNCHANGED answered
    /\ UNCHANGED <<now, alive, redis, sub, reg, expire, timer, config, busy, faults, unstored,
                   late, lives>>

(* List, and Check of each of its entries: an expiry still to come. *)
Listed ==
    /\ score # NoKey /\ score >= now - Ttl
    /\ key # NoKey /\ key.expire # Never

(***************************************************************************)
(* Time passes: the timer fires, its tick lost if one is waiting, and      *)
(* Redis drops the key if it has expired.  The goroutines are fast: no     *)
(* time passes while they have something to do other than wait for the     *)
(* main loop, which may be busy for MaxBusy between two refreshes.         *)
(***************************************************************************)
Waiting == \/ reg.at = "select" /\ timer = NoKey /\ sub.at = "receive" /\ inbox = <<>>
           \/ reg.at = "apply" /\ busy < MaxBusy
           \/ reg.at = "closed"

Pass ==
    /\ now < MaxTime
    /\ alive => Waiting
    /\ now' = now + 1
    /\ busy' = IF alive /\ reg.at = "apply" THEN busy + 1 ELSE busy
    /\ timer' = IF alive /\ timer = NoKey /\ (now + 1) % Period = phase THEN now + 1 ELSE timer
    /\ key' = IF key # NoKey /\ key.expire = now + 1 THEN NoKey ELSE key
    /\ late' = (late \/ (alive /\ reg.at = "apply" /\ timer # NoKey /\ now + 1 >= timer + Period))
    /\ UNCHANGED <<alive, score, inbox, sub, reg, expire, config, counts, faults, unstored,
                   lives>>

Redis == RegisterType \/ InitialSet \/ InitialRefresh \/ Refresh \/ Store
MainLoop == Accept \/ Reject

Next == \/ Redis \/ TakePush \/ Unsubscribed \/ MainLoop \/ Receive
        \/ InitialFailure \/ RefreshFailure \/ StoreFailure \/ ReceiveFailure \/ Die
        \/ \E value \in Configs : Push(value) \/ Boot(value)
        \/ Pass

Spec == Init /\ [][Next]_vars

(* The worker's goroutines run, Redis answers what register asks, and the main *)
(* loop, however long it takes, comes to a push that register offers it.       *)
FairSpec == /\ Spec
            /\ WF_vars(Receive) /\ WF_vars(TakePush)
            /\ WF_vars(Redis) /\ WF_vars(MainLoop)

-----------------------------------------------------------------------------
TypeOK ==
    /\ now \in 0 .. MaxTime
    /\ alive \in BOOLEAN
    /\ key \in [config: Configs, expire: Time \cup {Never}] \cup {NoKey}
    /\ score \in Time \cup {NoKey}
    /\ inbox \in Seq(Configs)
    /\ sub \in [at: {"receive", "send", "closed"}, push: Configs]
    /\ reg \in [at: {"type", "set", "refresh", "select", "apply", "store", "closed"}, push: Configs]
    /\ expire \in Time
    /\ timer \in 0 .. MaxTime \cup {NoKey}
    /\ config \in Configs
    /\ busy \in 0 .. MaxBusy
    /\ pushes \in 0 .. MaxPushes /\ faults \in 0 .. MaxFaults /\ starts \in 0 .. MaxStarts
    /\ unstored \in BOOLEAN /\ dummy \in BOOLEAN
    /\ late \in BOOLEAN /\ delivered \in 0 .. pushes /\ answered \in Nat
    /\ died \in 0 .. MaxTime /\ phase \in 0 .. Period - 1

(* What the control process reads is what the worker runs with, once the push *)
(* is through, unless Redis refused to store it, and whatever an earlier life *)
(* of the worker left under the key; a DummyWorker's id is right even then.   *)
StoredIsCurrent ==
    alive /\ reg.at = "select" /\ key # NoKey =>
        /\ ~unstored => key.config = config
        /\ dummy => key.config.id = config.id

(* A registered worker is listed, with an expiry and a score that agree,      *)
(* until a main loop that does not answer has kept a tick waiting for a whole *)
(* period; it is listed again from the first refresh on that comes within a   *)
(* period of its tick and finds the key there.                                *)
KeepAlive ==
    /\ alive /\ reg.at \in {"select", "apply", "store"} /\ ~late => Listed
    /\ alive /\ reg.at = "select" /\ ~late => score = key.expire

(* ... and one that died is listed for less than the TTL, however it died.    *)
DeadUnlisted == Listed => alive \/ now < died + Ttl

(* Every push that Redis delivered is offered to the main loop and answered,  *)
(* while the process and its register live; a subscription that fails loses   *)
(* only what it has not read.                                                 *)
PushArrives ==
    \A n \in 1 .. MaxPushes :
        (alive /\ delivered >= n) ~>
            \/ answered >= n \/ ~alive \/ reg.at = "closed"
            \/ sub.at = "closed" /\ n > delivered - Len(inbox)

=============================================================================
