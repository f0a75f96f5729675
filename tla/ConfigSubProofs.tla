--------------------------- MODULE ConfigSubProofs ---------------------------
(* Whatever the TTL, the clock, the configurations and the faults: Redis tells *)
(* of a worker's runtime configuration what the worker runs with, and does not *)
(* tell of a dead worker for longer than the TTL.                              *)
EXTENDS ConfigSub, TLAPS

Keys == [config: Configs, expire: Time \cup {Never}]
SubAt == {"receive", "send", "closed"}
RegAt == {"type", "set", "refresh", "select", "apply", "store", "closed"}

(* What the main loop waits for, and what a goroutine hands on, is typed.      *)
Bounds ==
    /\ now \in 0 .. MaxTime /\ alive \in BOOLEAN
    /\ busy \in 0 .. MaxBusy
    /\ pushes \in 0 .. MaxPushes /\ faults \in 0 .. MaxFaults /\ starts \in 0 .. MaxStarts
    /\ unstored \in BOOLEAN /\ dummy \in BOOLEAN /\ late \in BOOLEAN
    /\ delivered \in 0 .. pushes /\ answered \in Nat
    /\ died \in 0 .. MaxTime /\ phase \in 0 .. Period - 1
Typed ==
    /\ Bounds
    /\ key \in Keys \cup {NoKey} /\ score \in Time \cup {NoKey}
    /\ expire \in Time /\ timer \in 0 .. MaxTime \cup {NoKey}
    /\ inbox \in Seq(Configs) /\ config \in Configs
    /\ sub \in [at: SubAt, push: Configs] /\ reg \in [at: RegAt, push: Configs]

(* The last moment at which the worker lived.                                  *)
LastAlive == IF alive THEN now ELSE died

(* An expiry is to come, and at most a TTL after the worker's life; so is what *)
(* the next SET or EXPIREAT uses, for a tick is never from the future.         *)
Expiry ==
    /\ ~alive => died <= now
    /\ expire <= LastAlive + Ttl
    /\ timer # NoKey => timer <= now
    /\ key # NoKey /\ key.expire # Never => now < key.expire /\ key.expire <= LastAlive + Ttl

(* What is stored, by where register is.                                       *)
SameId == key # NoKey /\ dummy => key.config.id = config.id
Same == key # NoKey /\ ~unstored => key.config = config
Storing ==
    alive =>
        /\ reg.at \in {"type", "set", "refresh"} => ~unstored
        /\ reg.at \in {"refresh", "select", "apply"} => SameId /\ Same
        /\ reg.at = "store" => SameId /\ reg.push = config

-----------------------------------------------------------------------------
LEMMA Times == /\ Ttl \in Nat /\ Ttl > 0 /\ Time \subseteq Nat
               /\ \A t \in 0 .. MaxTime : t + Ttl \in Time /\ t \in Nat
               /\ Period \in Nat /\ 0 \in 0 .. Period - 1 /\ 0 \in 0 .. MaxTime
  BY ConfigSubAssumption DEF Ttl, Time

LEMMA SetKeyTyped ==
    ASSUME Typed, NEW value \in Configs, SetKey(value)
    PROVE  /\ key' \in Keys /\ key'.config = value
           /\ key'.expire \in {expire, Never} /\ (key'.expire = expire \/ key'.expire = Never)
           /\ key'.expire # Never => expire > now
  <1>1. Never \notin Time
    <2>1. Time \subseteq Int
      BY Times
    <2>2. QED BY <2>1, ConfigSubAssumption
  <1>2. QED BY <1>1 DEF SetKey, Keys, Typed

LEMMA ExpireKeyTyped ==
    ASSUME Typed, NEW at \in Time, NEW k, k = ExpireKey(key, at)
    PROVE  /\ k \in Keys \cup {NoKey}
           /\ k # NoKey => key # NoKey /\ k.config = key.config /\ k.expire = at /\ now < at
  <1>1. CASE key = NoKey \/ at <= now
    BY <1>1 DEF ExpireKey
  <1>2. CASE key # NoKey /\ ~(at <= now)
    <2>1. key \in Keys /\ k = [key EXCEPT !.expire = at]
      BY <1>2 DEF ExpireKey, Typed
    <2>2. k \in Keys /\ k.config = key.config /\ k.expire = at
      BY <2>1 DEF Keys
    <2>3. now < at
      BY <1>2, Times DEF Typed, Bounds
    <2>4. QED BY <1>2, <2>2, <2>3
  <1>3. QED BY <1>1, <1>2

-----------------------------------------------------------------------------
(* Types. *)

LEMMA MemoryTyped ==
    ASSUME NEW value \in Configs, NEW subAt \in SubAt, NEW regAt \in RegAt, Memory(value, subAt, regAt)
    PROVE  /\ inbox' \in Seq(Configs) /\ config' \in Configs
           /\ sub' \in [at: SubAt, push: Configs] /\ reg' \in [at: RegAt, push: Configs]
           /\ expire' \in Time /\ timer' \in 0 .. MaxTime \cup {NoKey}
           /\ phase' \in 0 .. Period - 1 /\ busy' \in 0 .. MaxBusy /\ unstored' \in BOOLEAN
           /\ late' \in BOOLEAN /\ delivered' = 0 /\ answered' = 0
  <1>1. 0 \in Time /\ 0 \in 0 .. MaxBusy
    BY Times, ConfigSubAssumption DEF Time
  <1>2. <<>> \in Seq(Configs)
    OBVIOUS
  <1>3. QED BY <1>1, <1>2, Times DEF Memory

(* The goroutines' places and the pushes they hold. *)
Moves ==
    /\ UNCHANGED <<redis, expire, timer, config, lives>>
    /\ now' = now /\ alive' = alive /\ busy' = busy /\ late' = late
    /\ sub' \in [at: SubAt, push: Configs] /\ reg' \in [at: RegAt, push: Configs]
    /\ inbox' \in Seq(Configs)
    /\ pushes' \in 0 .. MaxPushes /\ faults' \in 0 .. MaxFaults /\ unstored' \in BOOLEAN
    /\ delivered' \in 0 .. pushes' /\ answered' \in Nat

LEMMA MovesTyped == Typed /\ Moves => Typed'
  BY DEF Typed, Bounds, Moves, redis, lives

LEMMA FaultTyped ==
    ASSUME Typed, Fault
    PROVE  faults' \in 0 .. MaxFaults
  BY ConfigSubAssumption DEF Fault, Typed, Bounds

LEMMA EndedTyped ==
    ASSUME Typed, Ended
    PROVE  reg' \in [at: RegAt, push: Configs]
  BY DEF Ended, Typed, RegAt

LEMMA MoveSteps ==
    ASSUME Typed,
           \/ TakePush \/ Reject \/ Receive \/ ReceiveFailure
           \/ \E value \in Configs : Push(value)
    PROVE  Moves
  <1>2. CASE TakePush
    <2>1. reg' \in [at: RegAt, push: Configs] /\ sub' \in [at: SubAt, push: Configs]
      BY <1>2 DEF TakePush, Typed, RegAt, SubAt
    <2>2. QED BY <1>2, <2>1 DEF TakePush, Moves, Typed, Bounds, counts
  <1>3. CASE Reject
    <2>1. reg' \in [at: RegAt, push: Configs]
      BY <1>3 DEF Reject, Answer, Typed, RegAt
    <2>2. answered' \in Nat
      BY <1>3 DEF Reject, Answer, Typed, Bounds
    <2>3. QED BY <1>3, <2>1, <2>2 DEF Reject, Answer, Moves, Typed, Bounds
  <1>4. CASE Receive
    <2>1. Head(inbox) \in Configs /\ Tail(inbox) \in Seq(Configs)
      BY <1>4 DEF Receive, Typed
    <2>2. sub' \in [at: SubAt, push: Configs]
      BY <1>4, <2>1 DEF Receive, SubAt
    <2>3. QED BY <1>4, <2>1, <2>2 DEF Receive, Moves, Typed, Bounds, counts
  <1>5. CASE ReceiveFailure
    <2>1. sub' \in [at: SubAt, push: Configs]
      BY <1>5 DEF ReceiveFailure, Typed, SubAt
    <2>2. QED BY <1>5, <2>1, FaultTyped DEF ReceiveFailure, Moves, Typed, Bounds, counts
  <1>7. ASSUME NEW value \in Configs, Push(value)
        PROVE  Moves
    <2>1. pushes' \in 0 .. MaxPushes /\ delivered' \in 0 .. pushes'
      BY <1>7, ConfigSubAssumption DEF Push, Subscribers, Typed, Bounds
    <2>2. inbox' \in Seq(Configs)
      BY <1>7 DEF Push, Typed
    <2>3. QED BY <1>7, <2>1, <2>2 DEF Push, Moves, Typed, Bounds
  <1>8. QED BY <1>2, <1>3, <1>4, <1>5, <1>7

LEMMA ScoreTyped ==
    ASSUME Typed, timer # NoKey
    PROVE  NextExpire \in Time /\ timer \in Nat
  BY Times DEF Typed, NextExpire

LEMMA TypedNext == Typed /\ [Next]_vars => Typed'
  <1> SUFFICES ASSUME Typed, [Next]_vars PROVE Typed'
    OBVIOUS
  <1>1. CASE \/ TakePush \/ Reject \/ Receive \/ ReceiveFailure
             \/ \E value \in Configs : Push(value)
    BY <1>1, MoveSteps, MovesTyped
  <1>2. CASE RegisterType
    <2>1. now + Ttl \in Time /\ now % Period \in 0 .. Period - 1
      <3>1. now \in 0 .. MaxTime /\ now \in Nat /\ Period \in Nat \ {0}
        BY Times, ConfigSubAssumption DEF Typed, Bounds
      <3>2. now + Ttl \in Time
        BY <3>1, Times
      <3>3. now % Period \in 0 .. Period - 1
        BY <3>1
      <3>4. QED BY <3>2, <3>3
    <2>2. reg' \in [at: RegAt, push: Configs]
      BY <1>2 DEF RegisterType, Typed, RegAt
    <2>3. QED BY <1>2, <2>1, <2>2 DEF RegisterType, Typed, Bounds, redis, counts
  <1>3. CASE InitialSet \/ Store
    <2>1. key' \in Keys
      BY <1>3, SetKeyTyped DEF InitialSet, Store, Stored, Typed
    <2>2. reg' \in [at: RegAt, push: Configs]
      BY <1>3 DEF InitialSet, Store, Typed, RegAt
    <2>3. QED BY <1>3, <2>1, <2>2 DEF InitialSet, Store, Typed, Bounds, lives, counts
  <1>3a. CASE StoreFailure
    <2>1. key' \in Keys \cup {NoKey}
      BY <1>3a, SetKeyTyped DEF StoreFailure, Stored, Typed
    <2>2. reg' \in [at: RegAt, push: Configs]
      BY <1>3a DEF StoreFailure, Typed, RegAt
    <2>3. QED BY <1>3a, <2>1, <2>2, FaultTyped DEF StoreFailure, Typed, Bounds, lives, counts
  <1>3b. CASE InitialFailure
    <2>1. key' \in Keys \cup {NoKey} /\ score' \in Time \cup {NoKey}
      <3>1. config \in Configs /\ expire \in Time /\ key \in Keys \cup {NoKey}
            /\ score \in Time \cup {NoKey}
        BY DEF Typed
      <3>2. \/ key' = key /\ score' = score
            \/ SetKey(config) /\ score' = score
            \/ key' = ExpireKey(key, expire) /\ score' \in {score, expire}
        BY <1>3b DEF InitialFailure, redis
      <3>3. QED BY <3>1, <3>2, SetKeyTyped, ExpireKeyTyped
    <2>2. reg' \in [at: RegAt, push: Configs] /\ faults' \in 0 .. MaxFaults
      BY <1>3b, EndedTyped, FaultTyped DEF InitialFailure
    <2>3. QED BY <1>3b, <2>1, <2>2 DEF InitialFailure, Typed, Bounds, lives, counts
  <1>4. CASE InitialRefresh
    <2>1. key' \in Keys \cup {NoKey} /\ score' \in Time
      BY <1>4, ExpireKeyTyped DEF InitialRefresh, Typed
    <2>2. reg' \in [at: RegAt, push: Configs]
      BY <1>4 DEF InitialRefresh, Typed, RegAt
    <2>3. QED BY <1>4, <2>1, <2>2 DEF InitialRefresh, Typed, Bounds, lives, counts
  <1>5. CASE Refresh
    <2>1. NextExpire \in Time /\ key' \in Keys \cup {NoKey}
      BY <1>5, ScoreTyped, ExpireKeyTyped DEF Refresh
    <2>2. 0 \in 0 .. MaxBusy
      BY ConfigSubAssumption
    <2>3. QED BY <1>5, <2>1, <2>2 DEF Refresh, Typed, Bounds, lives, counts
  <1>6. CASE RefreshFailure \/ Unsubscribed
    <2>1. key' \in Keys \cup {NoKey} /\ score' \in Time \cup {NoKey}
      BY <1>6, ScoreTyped, ExpireKeyTyped DEF RefreshFailure, Unsubscribed, Cleared, Typed
    <2>2. faults' \in 0 .. MaxFaults
      BY <1>6, FaultTyped DEF RefreshFailure, Unsubscribed, Typed, Bounds
    <2>3. reg' \in [at: RegAt, push: Configs]
      BY <1>6, EndedTyped DEF RefreshFailure, Unsubscribed
    <2>4. QED BY <1>6, <2>1, <2>2, <2>3 DEF RefreshFailure, Unsubscribed, Typed, Bounds, lives, counts
  <1>7. CASE Accept
    <2>1. config' \in Configs /\ reg' \in [at: RegAt, push: Configs]
      BY <1>7 DEF Accept, Answer, Typed, RegAt
    <2>2. QED BY <1>7, <2>1 DEF Accept, Answer, Typed, Bounds, redis, lives
  <1>8. CASE Die
    <2>1. delivered' \in 0 .. pushes' /\ answered' \in Nat /\ pushes' = pushes
      BY <1>8, ConfigSubAssumption DEF Die, Memory, Typed, Bounds
    <2>2. /\ inbox' \in Seq(Configs) /\ config' \in Configs
          /\ sub' \in [at: SubAt, push: Configs] /\ reg' \in [at: RegAt, push: Configs]
          /\ expire' \in Time /\ timer' \in 0 .. MaxTime \cup {NoKey}
          /\ phase' \in 0 .. Period - 1 /\ busy' \in 0 .. MaxBusy /\ unstored' \in BOOLEAN
          /\ late' \in BOOLEAN
      BY <1>8, MemoryTyped DEF Die, Typed, SubAt, RegAt
    <2>3. QED BY <1>8, <2>1, <2>2 DEF Die, Typed, Bounds, redis
  <1>9. ASSUME NEW value \in Configs, Boot(value) PROVE Typed'
    <2>1. starts' \in 0 .. MaxStarts
      BY <1>9, ConfigSubAssumption DEF Boot, Typed, Bounds
    <2>2. delivered' \in 0 .. pushes' /\ answered' \in Nat /\ pushes' = pushes
      BY <1>9, ConfigSubAssumption DEF Boot, Memory, Typed, Bounds
    <2>3. QED BY <1>9, <2>1, <2>2, MemoryTyped, Times DEF Boot, Typed, Bounds, redis, SubAt, RegAt
  <1>10. CASE Pass
    <2>1. now' \in 0 .. MaxTime
      BY <1>10, ConfigSubAssumption DEF Pass, Typed, Bounds
    <2>2. busy' \in 0 .. MaxBusy
      BY <1>10, ConfigSubAssumption DEF Pass, Waiting, Typed, Bounds
    <2>3. key' \in Keys \cup {NoKey} /\ timer' \in 0 .. MaxTime \cup {NoKey}
      BY <1>10, <2>1 DEF Pass, Typed
    <2>4. QED BY <1>10, <2>1, <2>2, <2>3 DEF Pass, Typed, Bounds, lives, counts
  <1>11. CASE UNCHANGED vars
    BY <1>11 DEF vars, redis, process, lives, counts, Typed, Bounds
  <1>12. QED BY <1>1, <1>2, <1>3, <1>4, <1>5, <1>6, <1>7, <1>8, <1>9, <1>10, <1>11, <1>3a, <1>3b
         DEF Next, Redis, MainLoop

LEMMA TypedInit == Init => Typed
  <1> SUFFICES ASSUME Init PROVE Typed
    OBVIOUS
  <1>1. 0 \in Time /\ 0 \in 0 .. MaxBusy /\ 0 \in 0 .. MaxPushes /\ 0 \in 0 .. MaxFaults
        /\ 0 \in 0 .. MaxStarts
    BY Times, ConfigSubAssumption DEF Time
  <1>2. <<>> \in Seq(Configs)
    OBVIOUS
  <1>3. sub \in [at: SubAt, push: Configs] /\ reg \in [at: RegAt, push: Configs]
    BY DEF Init, SubAt, RegAt
  <1>4. pushes = 0 /\ delivered \in 0 .. pushes /\ answered \in Nat
    BY DEF Init
  <1>5. QED BY <1>1, <1>2, <1>3, <1>4, Times DEF Init, Typed, Bounds

(* The keys, expiries, channels and counters are well typed; no EXPIREAT goes  *)
(* beyond the clock by more than the TTL.                                      *)
THEOREM TypeCorrect == Spec => []TypeOK
  <1>1. Typed => TypeOK
    BY DEF Typed, Bounds, TypeOK, Keys, SubAt, RegAt
  <1>2. QED BY <1>1, TypedInit, TypedNext, PTL DEF Spec

-----------------------------------------------------------------------------
(* Expiries. *)

LEMMA Clock == Typed => /\ now \in Nat /\ died \in Nat /\ expire \in Nat /\ LastAlive \in Nat
                        /\ (timer # NoKey => timer \in Nat)
                        /\ (key # NoKey /\ key.expire # Never => key.expire \in Nat)
  <1> SUFFICES ASSUME Typed
               PROVE  /\ now \in Nat /\ died \in Nat /\ expire \in Nat /\ LastAlive \in Nat
                      /\ (timer # NoKey => timer \in Nat)
                      /\ (key # NoKey /\ key.expire # Never => key.expire \in Nat)
    OBVIOUS
  <1>1. now \in Nat /\ died \in Nat /\ expire \in Nat
    BY Times DEF Typed, Bounds
  <1>2. timer # NoKey => timer \in Nat
    BY Times DEF Typed
  <1>3. key # NoKey /\ key.expire # Never => key.expire \in Nat
    BY Times DEF Typed, Keys
  <1>4. QED BY <1>1, <1>2, <1>3 DEF LastAlive

(* Most steps leave the expiries alone, or clear the key. *)
LEMMA SameExpiry ==
    ASSUME Typed, Expiry, UNCHANGED <<now, alive, died, expire>>,
           timer' \in {timer, NoKey},
           \/ key' = NoKey
           \/ key # NoKey /\ (key'.expire = key.expire)
           \/ /\ key' # NoKey /\ key'.expire # Never
              => key'.expire = expire /\ now < expire
    PROVE  Expiry'
  <1>1. LastAlive' = LastAlive
    BY DEF LastAlive
  <1>2. QED BY <1>1 DEF Expiry

LEMMA ExpiryNext == Typed /\ Expiry /\ [Next]_vars => Expiry'
  <1> SUFFICES ASSUME Typed, Expiry, [Next]_vars PROVE Expiry'
    OBVIOUS
  <1>1. CASE \/ TakePush \/ Reject \/ Receive \/ ReceiveFailure
             \/ \E value \in Configs : Push(value)
    <2>1. Moves
      BY <1>1, MoveSteps
    <2>2. QED BY <2>1, SameExpiry DEF Moves, redis, lives
  <1>2. CASE Accept \/ UNCHANGED vars
    BY <1>2, SameExpiry DEF Accept, Answer, vars, redis, process, lives
  <1>2a. CASE StoreFailure
    <2>1. key' = key \/ (key' # NoKey /\ key'.expire # Never => key'.expire = expire /\ now < expire)
      BY <1>2a, SetKeyTyped DEF StoreFailure, Stored, Typed
    <2>2. QED BY <1>2a, <2>1, SameExpiry DEF StoreFailure, lives
  <1>2b. CASE InitialFailure
    <2>1. config \in Configs /\ expire \in Time
      BY DEF Typed
    <2>2. \/ key' = key \/ SetKey(config) \/ key' = ExpireKey(key, expire)
      BY <1>2b DEF InitialFailure, redis
    <2>3. key' = key \/ (key' # NoKey /\ key'.expire # Never => key'.expire = expire /\ now < expire)
      BY <2>1, <2>2, SetKeyTyped, ExpireKeyTyped
    <2>4. QED BY <1>2b, <2>3, SameExpiry DEF InitialFailure, lives
  <1>3. CASE RegisterType
    BY <1>3, Clock, Times DEF RegisterType, redis, Expiry, LastAlive
  <1>4. CASE InitialSet \/ Store
    <2>1. key' # NoKey /\ key'.expire # Never => key'.expire = expire /\ now < expire
      BY <1>4, SetKeyTyped DEF InitialSet, Store, Stored, Typed
    <2>2. QED BY <1>4, <2>1, SameExpiry DEF InitialSet, Store, lives
  <1>5. CASE InitialRefresh
    <2>1. key' # NoKey => key'.expire = expire /\ now < expire
      BY <1>5, ExpireKeyTyped DEF InitialRefresh, Typed
    <2>2. QED BY <1>5, <2>1, SameExpiry DEF InitialRefresh, lives
  <1>6. CASE Refresh
    <2>1. /\ NextExpire \in Time /\ expire' = NextExpire /\ timer' = NoKey
          /\ UNCHANGED <<now, alive, died>> /\ alive
      BY <1>6, ScoreTyped DEF Refresh, lives
    <2>2. key' # NoKey => key'.expire = NextExpire /\ now < NextExpire
      BY <1>6, <2>1, ExpireKeyTyped DEF Refresh
    <2>3. NextExpire <= now + Ttl
      BY <1>6, Clock, Times DEF Refresh, NextExpire, Expiry
    <2>4. LastAlive' = now
      BY <2>1 DEF LastAlive
    <2>5. QED BY <2>1, <2>2, <2>3, <2>4 DEF Expiry
  <1>7. CASE RefreshFailure
    <2>1. /\ NextExpire \in Time /\ timer' = NoKey /\ timer # NoKey
          /\ UNCHANGED <<now, alive, died, expire>> /\ alive
      BY <1>7, ScoreTyped DEF RefreshFailure, lives
    <2>2. NextExpire <= now + Ttl
      BY <2>1, Clock, Times DEF NextExpire, Expiry
    <2>3. key' \in {NoKey, key, ExpireKey(key, NextExpire)}
      BY <1>7 DEF RefreshFailure, Cleared
    <2>4. LastAlive' = now /\ LastAlive = now
      BY <2>1 DEF LastAlive
    <2>5. CASE key' = ExpireKey(key, NextExpire)
      <3>1. key' # NoKey => key'.expire = NextExpire /\ now < NextExpire
        BY <2>1, <2>5, ExpireKeyTyped
      <3>2. QED BY <2>1, <2>2, <2>4, <3>1 DEF Expiry
    <2>6. CASE key' \in {NoKey, key}
      BY <2>1, <2>4, <2>6 DEF Expiry
    <2>7. QED BY <2>3, <2>5, <2>6
  <1>8. CASE Unsubscribed
    BY <1>8, SameExpiry DEF Unsubscribed, Cleared, lives
  <1>9. CASE Die
    <2>1. /\ alive /\ ~alive' /\ died' = now /\ now' = now /\ key' = key
          /\ expire' = 0 /\ timer' = NoKey
      BY <1>9 DEF Die, Memory, redis
    <2>2. LastAlive' = now /\ LastAlive = now
      BY <2>1 DEF LastAlive
    <2>3. QED BY <2>1, <2>2, Clock, Times DEF Expiry
  <1>10. ASSUME NEW value \in Configs, Boot(value) PROVE Expiry'
    <2>1. ~alive /\ alive' /\ now' = now /\ key' = key /\ expire' = 0 /\ timer' = NoKey
      BY <1>10 DEF Boot, Memory, redis
    <2>2. LastAlive' = now /\ LastAlive <= now
      BY <2>1 DEF LastAlive, Expiry
    <2>3. QED BY <2>1, <2>2, Clock, Times DEF Expiry
  <1>11. CASE Pass
    <2>1. /\ now' = now + 1 /\ UNCHANGED <<alive, died, expire>>
          /\ timer' \in {timer, now + 1}
          /\ key' = IF key # NoKey /\ key.expire = now + 1 THEN NoKey ELSE key
      BY <1>11 DEF Pass, lives
    <2>2. LastAlive' = LastAlive \/ LastAlive' = LastAlive + 1
      BY <2>1 DEF LastAlive
    <2>3. (~alive => died <= now)' /\ (expire <= LastAlive + Ttl)' /\ (timer # NoKey => timer <= now)'
      BY <2>1, <2>2, Clock, Times DEF Expiry
    <2>4. key' # NoKey /\ key'.expire # Never => now' < key'.expire /\ key'.expire <= LastAlive' + Ttl
      BY <2>1, <2>2, Clock, Times DEF Expiry
    <2>5. QED BY <2>3, <2>4 DEF Expiry
  <1>12. QED BY <1>1, <1>2, <1>2a, <1>2b, <1>3, <1>4, <1>5, <1>6, <1>7, <1>8, <1>9, <1>10, <1>11
         DEF Next, Redis, MainLoop

(* A worker that died, with its registration still there, is listed for less   *)
(* than the TTL, whatever it stored, refreshed or failed to clear before.      *)
THEOREM DeadExpire == Spec => []DeadUnlisted
  <1>1. Init => Expiry
    BY TypedInit, Clock, Times DEF Init, Expiry, LastAlive
  <1>2. Typed /\ Expiry => DeadUnlisted
    BY Clock, Times DEF Expiry, DeadUnlisted, Listed, LastAlive
  <1>3. QED BY <1>1, <1>2, TypedInit, TypedNext, ExpiryNext, PTL DEF Spec

-----------------------------------------------------------------------------
(* What is stored. *)

(* Steps that leave the configuration, its copies and the histories alone.     *)
LEMMA SameStored ==
    ASSUME Storing, UNCHANGED <<alive, config, dummy>>,
           alive => \/ reg' = reg \/ reg'.at = "closed"
                    \/ reg.at \in {"apply", "select"} /\ reg'.at \in {"apply", "select"},
           key' = NoKey \/ key' = key \/ (key # NoKey /\ key'.config = key.config),
           unstored' = unstored
    PROVE  Storing'
  BY DEF Storing, SameId, Same

LEMMA StoringNext == Typed /\ Storing /\ [Next]_vars => Storing'
  <1> SUFFICES ASSUME Typed, Storing, [Next]_vars PROVE Storing'
    OBVIOUS
  <1>1. CASE InitialFailure \/ Unsubscribed \/ RefreshFailure
    <2>1. reg'.at = "closed"
      BY <1>1 DEF InitialFailure, Unsubscribed, RefreshFailure, Ended, Typed
    <2>2. QED BY <2>1 DEF Storing
  <1>2. CASE TakePush \/ Reject
    BY <1>2, SameStored DEF TakePush, Reject, Answer, redis, lives, Typed
  <1>3. CASE Receive \/ ReceiveFailure \/ (\E value \in Configs : Push(value)) \/ UNCHANGED vars
    BY <1>3, SameStored DEF Receive, ReceiveFailure, Push, vars, redis, process, lives
  <1>4. CASE StoreFailure
    <2>1. /\ alive /\ reg.at = "store" /\ reg'.at = "select" /\ unstored'
          /\ UNCHANGED <<config, dummy>> /\ reg.push = config
      BY <1>4 DEF StoreFailure, lives, Typed, Storing
    <2>2. key' = key \/ key'.config = config
      BY <1>4, <2>1, SetKeyTyped DEF StoreFailure, Stored, Typed
    <2>3. QED BY <2>1, <2>2 DEF Storing, SameId, Same
  <1>5. CASE RegisterType
    <2>1. reg.at = "type" /\ reg'.at = "set" /\ unstored' = unstored /\ alive
      BY <1>5 DEF RegisterType, Typed
    <2>2. QED BY <2>1 DEF Storing
  <1>6. CASE InitialSet
    <2>1. alive /\ reg.at = "set" /\ reg'.at = "refresh" /\ UNCHANGED <<config, unstored>>
      BY <1>6 DEF InitialSet, Typed
    <2>2. key'.config = config
      BY <1>6, SetKeyTyped DEF InitialSet, Typed
    <2>3. QED BY <2>1, <2>2 DEF Storing, SameId, Same
  <1>7. CASE InitialRefresh
    <2>1. /\ alive /\ reg.at = "refresh" /\ reg'.at = "select"
          /\ UNCHANGED <<config, unstored, dummy>>
      BY <1>7 DEF InitialRefresh, Typed, lives
    <2>2. key' # NoKey => key # NoKey /\ key'.config = key.config
      BY <1>7, ExpireKeyTyped DEF InitialRefresh, Typed
    <2>3. QED BY <2>1, <2>2 DEF Storing, SameId, Same
  <1>8. CASE Refresh
    <2>1. key' # NoKey => key # NoKey /\ key'.config = key.config
      BY <1>8, ScoreTyped, ExpireKeyTyped DEF Refresh
    <2>2. QED BY <1>8, <2>1, SameStored DEF Refresh, lives
  <1>9. CASE Store
    <2>1. /\ alive /\ reg.at = "store" /\ reg'.at = "select" /\ UNCHANGED <<config, dummy>>
          /\ reg.push = config
      BY <1>9 DEF Store, Typed, lives, Storing
    <2>2. key'.config = config
      BY <1>9, <2>1, SetKeyTyped DEF Store, Stored, Typed
    <2>3. QED BY <2>1, <2>2 DEF Storing, SameId, Same
  <1>10. CASE Accept
    <2>1. /\ alive /\ reg.at = "apply" /\ reg'.at = "store" /\ config' = reg.push
          /\ reg'.push = reg.push /\ UNCHANGED <<key, dummy>> /\ (dummy => reg.push.id = config.id)
      BY <1>10 DEF Accept, Answer, Typed, redis, lives
    <2>2. QED BY <2>1 DEF Storing, SameId
  <1>11. CASE Die
    BY <1>11 DEF Die, Storing
  <1>12. ASSUME NEW value \in Configs, Boot(value) PROVE Storing'
    <2>1. reg'.at = "type" /\ ~unstored'
      BY <1>12 DEF Boot, Memory
    <2>2. QED BY <2>1 DEF Storing
  <1>13. CASE Pass
    <2>1. key' = NoKey \/ key' = key
      BY <1>13 DEF Pass
    <2>2. QED BY <1>13, <2>1, SameStored DEF Pass, lives
  <1>14. QED BY <1>1, <1>2, <1>3, <1>4, <1>5, <1>6, <1>7, <1>8, <1>9, <1>10, <1>11, <1>12, <1>13
             DEF Next, Redis, MainLoop

(* Once a push is through, the control process reads the configuration that    *)
(* the worker runs with; what an earlier life left behind is gone, and the id  *)
(* of a DummyWorker is right even after a SET failed.                          *)
THEOREM StoresCurrent == Spec => []StoredIsCurrent
  <1>1. Init => Storing
    BY DEF Init, Storing
  <1>2. Storing => StoredIsCurrent
    BY DEF Storing, SameId, Same, StoredIsCurrent
  <1>3. QED BY <1>1, <1>2, TypedInit, TypedNext, StoringNext, PTL DEF Spec

-----------------------------------------------------------------------------
(* A worker that runs is listed. *)

Registered == {"set", "refresh", "select", "apply", "store"}
Listing == {"select", "apply", "store"}

(* The tick by which the expiry was set last; a tick comes a period later, and *)
(* has waited for less than a period unless the worker is late.                *)
LastTick == expire - Ttl
OnTime ==
    /\ LastTick \in Nat /\ LastTick % Period = phase
    /\ timer = NoKey => now < LastTick + Period
    /\ timer # NoKey => timer <= LastTick + Period /\ now < timer + Period
InTime ==
    alive => /\ reg.at = "type" => timer = NoKey
             /\ reg.at \in Registered /\ timer # NoKey => timer % Period = phase
             /\ reg.at \in Registered /\ ~late => OnTime
             /\ reg.at \in {"refresh"} \cup Listing /\ ~late => key # NoKey /\ key.expire = expire
             /\ reg.at \in Listing /\ ~late => score = expire

LEMMA Modulo ==
    ASSUME NEW n \in Nat, NEW d \in Nat \ {0}
    PROVE  (n + d) % d = n % d
  <1> DEFINE q == n \div d
             r == n % d
  <1>1. n = (d * q) + r /\ q \in Int /\ r \in Int /\ r >= 0 /\ r < d
    OBVIOUS
  <1> HIDE DEF q, r
  <1>2. n + d = ((q + 1) * d) + r
    BY <1>1
  <1>3. \A x, y \in Int : y >= 0 /\ y < d => ((x * d) + y) % d = y
    OBVIOUS
  <1>4. (((q + 1) * d) + r) % d = r
    BY <1>1, <1>3
  <1>5. QED BY <1>2, <1>4 DEF r

LEMMA Margin ==
    ASSUME NEW n \in Nat, NEW e \in Nat, NEW t,
           e - Ttl \in Nat, t = NoKey => n < (e - Ttl) + Period,
           t # NoKey => t \in Nat /\ t <= (e - Ttl) + Period /\ n < t + Period
    PROVE  e > n
  <1>1. Period \in Nat /\ Ttl = Period + Period
    BY Times, ConfigSubAssumption DEF Ttl
  <1>2. CASE t = NoKey
    BY <1>1, <1>2
  <1>3. CASE t # NoKey
    BY <1>1, <1>3
  <1>4. QED BY <1>2, <1>3

LEMMA Ahead ==
    ASSUME Typed, OnTime
    PROVE  expire > now /\ expire \in Int
  <1>1. /\ LastTick \in Nat
        /\ timer = NoKey => now < LastTick + Period
        /\ timer # NoKey => timer <= LastTick + Period /\ now < timer + Period
    BY DEF OnTime
  <1>2. now \in Nat /\ expire \in Nat /\ (timer # NoKey => timer \in Nat)
    BY Clock
  <1>3. QED BY <1>1, <1>2, Margin DEF LastTick

LEMMA KeyStored ==
    ASSUME Typed, OnTime, NEW value \in Configs, SetKey(value)
    PROVE  key' # NoKey /\ key'.expire = expire
  <1>1. expire > now /\ expire \in Int
    BY Ahead
  <1>2. key' = [config |-> value, expire |-> expire]
    BY <1>1 DEF SetKey
  <1>3. QED BY <1>1, <1>2, ConfigSubAssumption

LEMMA KeyKept ==
    ASSUME Typed, NEW at \in Time, at > now, key # NoKey, NEW k, k = ExpireKey(key, at)
    PROVE  k # NoKey /\ k.expire = at
  <1>1. key \in Keys /\ ~(at <= now)
    <2>1. at \in Nat /\ now \in Nat
      BY Clock, Times
    <2>2. key \in Keys
      BY DEF Typed
    <2>3. QED BY <2>1, <2>2
  <1>2. k = [key EXCEPT !.expire = at]
    BY <1>1 DEF ExpireKey
  <1>3. k \in [config: Configs, expire: Int \cup {Never}] /\ k.expire = at
    BY <1>1, <1>2, Times DEF Keys
  <1>4. QED BY <1>3, ConfigSubAssumption

(* Steps of the goroutines that touch neither time nor Redis.                  *)
LEMMA SameTime ==
    ASSUME InTime, UNCHANGED <<now, alive, key, score, expire, timer, phase, late>>,
           alive => \/ reg'.at \in {reg.at, "closed"}
                    \/ reg.at \in Listing /\ reg'.at \in Listing
    PROVE  InTime'
  BY DEF InTime, OnTime, LastTick, Registered, Listing

(* What is stored while the worker is not late expires when register thinks.   *)
LEMMA StoredInTime ==
    ASSUME Typed, InTime, alive, reg.at \in {"set", "store"}, NEW value \in Configs, SetKey(value),
           reg'.at \in {"refresh", "select"}, reg'.at = "select" => reg.at = "store",
           UNCHANGED <<now, alive, score, expire, timer, phase, late>>
    PROVE  InTime'
  <1>1. reg.at \in Registered /\ reg'.at \in Registered /\ reg'.at # "type"
    BY DEF Registered
  <1>2. timer' # NoKey => timer' % Period = phase'
    BY <1>1 DEF InTime
  <1>3. ASSUME ~late
        PROVE  OnTime' /\ key' # NoKey /\ key'.expire = expire' /\ (reg'.at \in Listing => score' = expire')
    <2>1. OnTime /\ (reg.at = "store" => score = expire)
      BY <1>1, <1>3 DEF InTime, Listing
    <2>2. key' # NoKey /\ key'.expire = expire
      BY <2>1, KeyStored
    <2>3. QED BY <2>1, <2>2 DEF OnTime, LastTick, Listing
  <1>4. QED BY <1>1, <1>2, <1>3 DEF InTime

LEMMA PassInTime ==
    ASSUME Typed, Typed', InTime, Pass
    PROVE  InTime'
  <1> SUFFICES ASSUME alive, reg.at # "closed"
               PROVE  InTime'
    BY DEF Pass, InTime, Registered, Listing
  <1>1. /\ reg.at \in {"select", "apply"} /\ reg' = reg /\ now' = now + 1 /\ alive' = alive
        /\ UNCHANGED <<score, expire, phase>>
        /\ key' = IF key # NoKey /\ key.expire = now + 1 THEN NoKey ELSE key
        /\ timer' = IF timer = NoKey /\ (now + 1) % Period = phase THEN now + 1 ELSE timer
        /\ timer # NoKey => reg.at = "apply"
    BY DEF Pass, Waiting, lives
  <1>2. timer' # NoKey => timer' % Period = phase
    <2>1. timer # NoKey => timer % Period = phase
      BY <1>1 DEF InTime, Registered
    <2>2. QED BY <1>1, <2>1
  <1>3. ASSUME ~late'
        PROVE  OnTime' /\ key' # NoKey /\ key'.expire = expire' /\ score' = expire'
    <2>1. ~late /\ (timer # NoKey => ~(now + 1 >= timer + Period))
      BY <1>1, <1>3 DEF Pass
    <2>2. OnTime /\ key # NoKey /\ key.expire = expire /\ score = expire
      BY <1>1, <2>1 DEF InTime, Registered, Listing
    <2>3. /\ now \in Nat /\ LastTick \in Nat /\ Period \in Nat \ {0} /\ expire \in Nat
          /\ timer # NoKey => timer \in Nat
      BY <2>2, Clock, ConfigSubAssumption DEF OnTime
    <2>4. LastTick' = LastTick
      BY <1>1 DEF LastTick
    <2>5. /\ timer' = NoKey => now + 1 < LastTick + Period
          /\ timer' # NoKey => timer' <= LastTick + Period /\ now + 1 < timer' + Period
      <3>1. CASE timer # NoKey
        <4>1. timer' = timer /\ timer <= LastTick + Period /\ now + 1 < timer + Period
          BY <1>1, <2>1, <2>2, <2>3, <3>1 DEF OnTime
        <4>2. QED BY <3>1, <4>1
      <3>2. CASE timer = NoKey /\ (now + 1) % Period = phase
        <4>1. timer' = now + 1 /\ now + 1 # NoKey /\ now < LastTick + Period
          BY <1>1, <2>2, <2>3, <3>2, ConfigSubAssumption DEF OnTime
        <4>2. QED BY <2>3, <4>1
      <3>3. CASE timer = NoKey /\ (now + 1) % Period # phase
        <4>1. timer' = NoKey /\ now < LastTick + Period
          BY <1>1, <2>2, <3>3 DEF OnTime
        <4>2. (LastTick + Period) % Period = LastTick % Period
          BY <2>3, Modulo
        <4>3. LastTick % Period = phase
          BY <2>2 DEF OnTime
        <4>4. now + 1 # LastTick + Period
          BY <3>3, <4>2, <4>3
        <4>5. QED BY <2>3, <4>1, <4>4
      <3>4. QED BY <3>1, <3>2, <3>3
    <2>6. OnTime'
      BY <1>1, <2>2, <2>4, <2>5 DEF OnTime
    <2>7. expire > now + 1
      <3>1. timer' # NoKey => timer' \in Nat
        BY Times DEF Typed
      <3>2. expire - Ttl \in Nat /\ now + 1 \in Nat
        BY <2>3 DEF LastTick
      <3>3. QED BY <2>3, <2>5, <3>1, <3>2, Margin DEF LastTick
    <2>8. QED BY <1>1, <2>2, <2>3, <2>6, <2>7
  <1>4. QED BY <1>1, <1>2, <1>3 DEF InTime, Registered, Listing

(* A refresh in time keeps a worker listed, and lists again one that was late. *)
LEMMA RefreshInTime ==
    ASSUME Typed, InTime, Refresh
    PROVE  InTime'
  <1>1. /\ alive /\ reg.at = "select" /\ reg' = reg /\ score' = NextExpire /\ timer # NoKey
        /\ key' = ExpireKey(key, NextExpire) /\ expire' = NextExpire /\ timer' = NoKey
        /\ UNCHANGED <<now, phase, alive>>
    BY DEF Refresh, lives
  <1>2. /\ NextExpire \in Time /\ timer \in Nat /\ now \in Nat /\ Period \in Nat
    BY <1>1, ScoreTyped, Clock, ConfigSubAssumption
  <1>3. timer % Period = phase
    BY <1>1 DEF InTime, Registered
  <1>4. ASSUME ~late'
        PROVE  OnTime' /\ key' # NoKey /\ key'.expire = expire' /\ score' = expire'
    <2>1. key # NoKey /\ now < timer + Period
      <3>1. CASE late
        <4>1. ~(key = NoKey \/ now >= timer + Period)
          BY <1>4, <3>1 DEF Refresh
        <4>2. QED BY <1>2, <4>1
      <3>2. CASE ~late
        BY <1>1, <3>2 DEF InTime, OnTime, Registered, Listing
      <3>3. QED BY <3>1, <3>2
    <2>2. LastTick' = timer
      BY <1>1, <1>2, Times DEF LastTick, NextExpire
    <2>3. OnTime'
      BY <1>1, <1>2, <1>3, <2>1, <2>2 DEF OnTime
    <2>4. NextExpire > now
      BY <1>2, <2>1, Times DEF NextExpire, Ttl
    <2>5. key' # NoKey /\ key'.expire = expire'
      BY <1>1, <1>2, <2>1, <2>4, KeyKept
    <2>6. QED BY <1>1, <2>3, <2>5
  <1>5. QED BY <1>1, <1>4 DEF InTime, Registered, Listing

LEMMA InTimeNext ==
    ASSUME Typed, InTime, [Next]_vars
    PROVE  InTime'
  <1>1. CASE InitialFailure \/ Unsubscribed \/ RefreshFailure
    <2>1. reg'.at = "closed"
      BY <1>1 DEF InitialFailure, Unsubscribed, RefreshFailure, Ended, Typed
    <2>2. QED BY <2>1 DEF InTime, Registered, Listing
  <1>2. CASE TakePush \/ Reject \/ Accept
    <2>1. reg.at \in Listing /\ reg'.at \in Listing
      BY <1>2 DEF TakePush, Reject, Accept, Answer, Typed, Listing
    <2>2. QED BY <1>2, <2>1, SameTime DEF TakePush, Reject, Accept, Answer, redis, lives
  <1>3. CASE Receive \/ ReceiveFailure \/ (\E value \in Configs : Push(value)) \/ UNCHANGED vars
    BY <1>3, SameTime DEF Receive, ReceiveFailure, Push, vars, redis, process, lives
  <1>4. CASE RegisterType
    <2>1. /\ reg'.at = "set" /\ timer = NoKey /\ timer' = NoKey /\ now' = now
          /\ expire' = now + Ttl /\ phase' = now % Period
      BY <1>4 DEF RegisterType, Typed, InTime
    <2>2. LastTick' = now /\ now \in Nat
      BY <2>1, Clock, Times DEF LastTick
    <2>3. now < now + Period
      BY <2>2, Times, ConfigSubAssumption
    <2>4. OnTime'
      BY <2>1, <2>2, <2>3 DEF OnTime
    <2>5. QED BY <2>1, <2>4 DEF InTime, Registered, Listing
  <1>5. CASE InitialSet
    BY <1>5, StoredInTime DEF InitialSet, Typed, lives
  <1>6. CASE InitialRefresh
    <2>1. /\ alive /\ reg.at = "refresh" /\ reg'.at = "select" /\ score' = expire
          /\ key' = ExpireKey(key, expire) /\ UNCHANGED <<now, expire, timer, phase, late>>
      BY <1>6 DEF InitialRefresh, Typed, lives
    <2>2. timer # NoKey => timer % Period = phase
      BY <2>1 DEF InTime, Registered
    <2>3. ASSUME ~late PROVE OnTime' /\ key' # NoKey /\ key'.expire = expire'
      <3>1. OnTime /\ OnTime' /\ key # NoKey
        BY <2>1, <2>3 DEF InTime, Registered, OnTime, LastTick
      <3>2. QED BY <2>1, <3>1, KeyKept, Ahead DEF Typed
    <2>4. QED BY <2>1, <2>2, <2>3 DEF InTime, Registered, Listing
  <1>7. CASE Refresh
    BY <1>7, RefreshInTime
  <1>8. CASE Store
    BY <1>8, StoredInTime DEF Store, Stored, Typed, lives
  <1>9. CASE StoreFailure
    <2>1. /\ alive /\ reg.at = "store" /\ reg'.at = "select"
          /\ UNCHANGED <<now, alive, score, expire, timer, phase, late>>
      BY <1>9 DEF StoreFailure, Typed, lives
    <2>2. CASE key' = key
      BY <2>1, <2>2, SameTime DEF Listing
    <2>3. CASE SetKey(Stored)
      BY <2>1, <2>3, StoredInTime DEF Stored, Typed
    <2>4. QED BY <1>9, <2>2, <2>3 DEF StoreFailure
  <1>10. CASE Die
    BY <1>10 DEF Die, InTime
  <1>11. ASSUME NEW value \in Configs, Boot(value) PROVE InTime'
    <2>1. reg'.at = "type" /\ timer' = NoKey
      BY <1>11 DEF Boot, Memory
    <2>2. QED BY <2>1 DEF InTime, Registered, Listing
  <1>12. CASE Pass
    BY <1>12, PassInTime, TypedNext
  <1>13. QED BY <1>1, <1>2, <1>3, <1>4, <1>5, <1>6, <1>7, <1>8, <1>9, <1>10, <1>11, <1>12
             DEF Next, Redis, MainLoop

(* However long the main loop stays away: a worker that registered is listed,  *)
(* by Redis' expiry of the key and by its score alike, as long as no tick has  *)
(* waited for a whole period, and again once a refresh in time found its key.  *)
THEOREM StaysListed == Spec => []KeepAlive
  <1>1. Init => InTime
    BY DEF Init, InTime
  <1>2. Typed /\ InTime /\ [Next]_vars => InTime'
    BY InTimeNext
  <1>3. Typed /\ InTime => KeepAlive
    <2> SUFFICES ASSUME Typed, InTime, alive, reg.at \in Listing, ~late
                 PROVE  Listed /\ score = key.expire
      BY DEF KeepAlive, Listing
    <2>1. OnTime /\ key # NoKey /\ key.expire = expire /\ score = expire
      BY DEF InTime, Registered, Listing
    <2>2. expire > now /\ expire \in Int /\ now \in Nat
      BY <2>1, Ahead, Clock
    <2>3. expire # Never /\ score # NoKey
      BY <2>1, <2>2, ConfigSubAssumption
    <2>4. QED BY <2>1, <2>2, <2>3, Times DEF Listed
  <1>4. QED BY <1>1, <1>2, <1>3, TypedInit, TypedNext, PTL DEF Spec

=============================================================================
