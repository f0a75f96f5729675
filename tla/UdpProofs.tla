------------------------------ MODULE UdpProofs ------------------------------
(* How many packets the UDP sender may send, for any counts and rates, however *)
(* the clock, the pushes and the signal interleave; and what the receiver      *)
(* reports of any senders, whatever the network does with their packets.       *)
EXTENDS UdpSend, UdpRecv, TLAPS

-----------------------------------------------------------------------------
(* Types: the clock has ticked at least as often as its fields say, and once   *)
(* more until it has counted the tick.                                         *)

Clocked == {"new", "check", "compare", "haveOffset", "haveStop", "rate", "divide", "tick",
            "closed", "panic"}
Counting == {"readCount", "writeCount", "readOffset", "writeOffset"}
Sends == MaxPackets + IF stopper.at = "done" THEN 2 ELSE 0

Typed ==
    /\ rate \in Rates \cup {0} /\ stop \in Nat /\ offset \in Nat /\ count \in Nat
    /\ clock \in [at: Clocked \cup Counting, seen: Nat]
    /\ config \in ConfigType
    /\ send \in [at: {"new", "select", "reset", "setRate", "setStop", "setOffset", "done"},
                 config: ConfigType]
    /\ stopper \in [at: {"wait", "write", "done"}, seen: Nat]
    /\ sent \in Nat /\ sincePush \in Nat /\ sinceStop \in Nat /\ overlapped \in BOOLEAN
    /\ pushes \in Nat

Ticked ==
    /\ sent <= Sends /\ count <= sent /\ offset <= sent
    /\ IF clock.at = "haveStop" THEN clock.seen \in Counts \cup 0 .. MaxPackets
                                ELSE clock.seen <= sent
    /\ clock.at \in Counting /\ Running => offset < sent
    /\ clock.at = "readCount" /\ Running => count < sent
    /\ clock.at \in {"writeCount", "writeOffset"} /\ Running => clock.seen < sent
    /\ stop \in Counts \cup 0 .. MaxPackets
    /\ stopper.seen <= MaxPackets

-----------------------------------------------------------------------------
(* What the clock has passed of a limit: below it once it was compared, and    *)
(* not above it otherwise.                                                     *)
Towards(n, limit) ==
    /\ n <= limit
    /\ clock.at \in {"rate", "divide", "tick"} => n < limit

(* The clock has started, and Set is not between its writes of stop and offset. *)
InEffect == clock.at # "new" /\ send.at \notin {"setStop", "setOffset"}
Calm == stopper.at # "wait" /\ ~overlapped

(* A packet sent since the last push was counted by offset, or is about to be: *)
(* what the clock has read of offset may be from before the push, and is then  *)
(* too much rather than too little.                                            *)
Counted ==
    IF clock.at \in Counting THEN sincePush <= offset + 1 ELSE sincePush <= offset
SeenEnough == clock.at \in {"writeOffset", "haveOffset"} => clock.seen >= offset

(* stop is the count of the configuration, or what Stop made of it.            *)
Limited ==
    /\ clock.at = "new" => send.at \in {"new", "setRate", "setStop", "setOffset"}
    /\ Calm => InEffect \/ (clock.at = "new" /\ send.at \in {"new", "setRate"})
    /\ stopper.at = "write" /\ Calm => stopper.seen <= offset
    /\ InEffect /\ stopper.at # "done" => stop = config.count
    /\ send.at = "setOffset" /\ stopper.at # "done" => stop = send.config.count
    /\ stopper.at = "done" /\ Calm => stop = stopper.seen /\ stopper.seen <= offset

PushLimit ==
    /\ InEffect /\ config.count > 0
    /\ stopper.at = "wait" \/ (Calm /\ stopper.seen > 0)
    => /\ Towards(sincePush, config.count)
       /\ clock.at = "haveStop" => sincePush < config.count \/ clock.seen <= offset

(* After a Stop the clock finds the limit reached when it next compares.       *)
StopLimit ==
    stopper.at = "done" /\ Calm /\ stopper.seen > 0 =>
        /\ sinceStop <= 1
        /\ clock.at \in {"rate", "divide", "tick"} => sinceStop = 0
        /\ clock.at = "haveStop" => sinceStop = 0 \/ clock.seen <= offset

(* As long as nobody interferes the fields are exact.                          *)
Untouched == pushes = 0 /\ stopper.at = "wait"
Exact ==
    /\ clock.at = "new" => pushes = 0 /\ sent = 0 /\ offset = 0 /\ send.config = config
    /\ pushes = 0 /\ clock.at # "new" => send.at \in {"select", "reset", "done"}
    /\ Untouched /\ clock.at = "closed" => sent = config.count
    /\ Untouched /\ Running =>
          /\ clock.at \in Clocked => sent = offset
          /\ clock.at \in Counting => sent = offset + 1
          /\ clock.at \in {"writeOffset", "haveOffset"} => clock.seen = offset
          /\ clock.at = "haveStop" => clock.seen = config.count
          /\ clock.at \in {"compare", "haveOffset", "haveStop"} => config.count > 0
          /\ config.count > 0 => Towards(sent, config.count)

UInv == Typed /\ Ticked /\ Counted /\ SeenEnough /\ Limited /\ PushLimit /\ StopLimit /\ Exact
-----------------------------------------------------------------------------
(* The steps. *)

(* Fields and what was read of them are numbers. *)
LEMMA TypedNext ==
    ASSUME Typed, [Next]_vars
    PROVE  Typed'
  <1> USE UdpSendAssumption DEF Typed, ConfigType, Clocked, Counting
  <1>1. CASE CheckForever \/ CheckNonzero \/ ReadOperand \/ Compare
    <2>1. CASE CheckForever \/ CheckNonzero
      BY <2>1 DEF CheckForever, CheckNonzero, ClockOnly, ClockGoes, clockFields, histories
    <2>2. CASE ReadOperand
      BY <2>2 DEF ReadOperand, ClockOnly, clockFields, histories
    <2>3. CASE Compare
      BY <2>3 DEF Compare, Compared, More, ClockOnly, clockFields, histories
    <2>4. QED BY <1>1, <2>1, <2>2, <2>3
  <1>2. CASE TestRate \/ Divide
    BY <1>2 DEF TestRate, Divide, ClockOnly, ClockGoes, clockFields, histories
  <1>3. CASE ReadCount \/ WriteCount
    BY <1>3 DEF ReadCount, WriteCount, ClockOnly, ClockGoes, clockFields, histories
  <1>4. CASE ReadOffset \/ WriteOffset
    BY <1>4 DEF ReadOffset, WriteOffset, Advanced, ClockOnly, ClockGoes, clockFields, histories
  <1>5. CASE Begin \/ Tick \/ SendError \/ Finished \/ ConfigClosed
    BY <1>5 DEF Begin, Tick, SendError, Finished, ConfigClosed, ClockGoes, clockFields, histories
  <1>6. CASE Report \/ ResetStats
    BY <1>6 DEF Report, ResetStats, clockFields, histories
  <1>7. ASSUME NEW pushed \in ConfigType, Push(pushed) PROVE Typed'
    BY <1>7 DEF Push, Changes, clockFields, histories
  <1>8. CASE SetRate \/ SetStop \/ SetOffset
    <2>1. CASE SetRate /\ stopper.at = "wait"
      BY <2>1 DEF SetRate
    <2>2. CASE SetRate /\ stopper.at # "wait"
      BY <2>2 DEF SetRate
    <2>3. CASE SetStop
      BY <2>3 DEF SetStop, histories
    <2>4. CASE SetOffset
      BY <2>4 DEF SetOffset
    <2>5. QED BY <1>8, <2>1, <2>2, <2>3, <2>4
  <1>9. CASE ReadStop
    BY <1>9 DEF ReadStop, Setting, clockFields, histories
  <1>10. CASE WriteStop
    BY <1>10 DEF WriteStop, StopAt, clockFields, histories
  <1>11. CASE UNCHANGED vars
    BY <1>11 DEF vars, clockFields, histories
  <1>12. QED
    BY <1>1, <1>2, <1>3, <1>4, <1>5, <1>6, <1>7, <1>8, <1>9, <1>10, <1>11 DEF Next, Clock, Sender

(* No field runs ahead of the packets sent. *)
LEMMA TickedNext ==
    ASSUME Typed, Ticked, Running, [Next]_vars
    PROVE  Ticked'
  <1> USE UdpSendAssumption DEF Typed, ConfigType, Clocked, Counting, Ticked, Sends, Running
  <1>1. CASE CheckForever \/ CheckNonzero \/ ReadOperand \/ Compare
    <2>1. CASE CheckForever \/ CheckNonzero
      BY <2>1 DEF CheckForever, CheckNonzero, ClockOnly, ClockGoes, clockFields, histories
    <2>2. CASE ReadOperand
      BY <2>2 DEF ReadOperand, ClockOnly, clockFields, histories
    <2>3. CASE Compare
      BY <2>3 DEF Compare, Compared, More, ClockOnly, clockFields, histories
    <2>4. QED BY <1>1, <2>1, <2>2, <2>3
  <1>2. CASE TestRate \/ Divide
    BY <1>2 DEF TestRate, Divide, ClockOnly, ClockGoes, clockFields, histories
  <1>3. CASE ReadCount \/ WriteCount
    BY <1>3 DEF ReadCount, WriteCount, ClockOnly, ClockGoes, clockFields, histories
  <1>4. CASE ReadOffset \/ WriteOffset
    BY <1>4 DEF ReadOffset, WriteOffset, Advanced, ClockOnly, ClockGoes, clockFields, histories
  <1>5. CASE Begin \/ Tick \/ SendError \/ Finished \/ ConfigClosed
    BY <1>5 DEF Begin, Tick, SendError, Finished, ConfigClosed, ClockGoes, clockFields, histories
  <1>6. CASE Report \/ ResetStats
    BY <1>6 DEF Report, ResetStats, clockFields, histories
  <1>7. ASSUME NEW pushed \in ConfigType, Push(pushed) PROVE Ticked'
    BY <1>7 DEF Push, Changes, clockFields, histories
  <1>8. CASE SetRate \/ SetStop \/ SetOffset
    BY <1>8 DEF SetRate, SetStop, SetOffset, clockFields, histories
  <1>9. CASE ReadStop
    BY <1>9 DEF ReadStop, Setting, clockFields, histories
  <1>10. CASE WriteStop
    BY <1>10 DEF WriteStop, StopAt, clockFields, histories
  <1>11. CASE UNCHANGED vars
    BY <1>11 DEF vars, clockFields, histories
  <1>12. QED
    BY <1>1, <1>2, <1>3, <1>4, <1>5, <1>6, <1>7, <1>8, <1>9, <1>10, <1>11 DEF Next, Clock, Sender

(* A push resets both sides; a stale offset only raises the right one. *)
LEMMA CountedNext ==
    ASSUME Typed, Counted, SeenEnough, [Next]_vars
    PROVE  (Counted /\ SeenEnough)'
  <1> USE UdpSendAssumption DEF Typed, Clocked, Counting, Counted, SeenEnough
  <1>1. CASE CheckForever \/ CheckNonzero \/ ReadOperand \/ Compare
    <2>1. CASE CheckForever \/ CheckNonzero
      BY <2>1 DEF CheckForever, CheckNonzero, ClockOnly, ClockGoes, clockFields, histories
    <2>2. CASE ReadOperand
      BY <2>2 DEF ReadOperand, ClockOnly, clockFields, histories
    <2>3. CASE Compare
      BY <2>3 DEF Compare, Compared, More, ClockOnly, clockFields, histories
    <2>4. QED BY <1>1, <2>1, <2>2, <2>3
  <1>2. CASE TestRate \/ Divide
    BY <1>2 DEF TestRate, Divide, ClockOnly, ClockGoes, clockFields, histories
  <1>3. CASE ReadCount \/ WriteCount
    BY <1>3 DEF ReadCount, WriteCount, ClockOnly, ClockGoes, clockFields, histories
  <1>4. CASE ReadOffset \/ WriteOffset
    BY <1>4 DEF ReadOffset, WriteOffset, Advanced, ClockOnly, ClockGoes, clockFields, histories
  <1>5. CASE Begin \/ Tick \/ SendError \/ Finished \/ ConfigClosed
    BY <1>5 DEF Begin, Tick, SendError, Finished, ConfigClosed, ClockGoes, clockFields, histories
  <1>6. CASE Report \/ ResetStats
    BY <1>6 DEF Report, ResetStats, clockFields, histories
  <1>7. ASSUME NEW pushed \in ConfigType, Push(pushed) PROVE (Counted /\ SeenEnough)'
    BY <1>7 DEF Push, Changes, clockFields, histories
  <1>8. CASE SetRate \/ SetStop \/ SetOffset
    BY <1>8 DEF SetRate, SetStop, SetOffset, clockFields, histories
  <1>9. CASE ReadStop
    BY <1>9 DEF ReadStop, Setting, clockFields, histories
  <1>10. CASE WriteStop
    BY <1>10 DEF WriteStop, StopAt, clockFields, histories
  <1>11. CASE UNCHANGED vars
    BY <1>11 DEF vars, clockFields, histories
  <1>12. QED
    BY <1>1, <1>2, <1>3, <1>4, <1>5, <1>6, <1>7, <1>8, <1>9, <1>10, <1>11 DEF Next, Clock, Sender

(* A calm Stop begins after every Set has ended, and writes stop last. *)
LEMMA LimitedNext ==
    ASSUME Typed, SeenEnough, Limited, [Next]_vars
    PROVE  Limited'
  <1> USE UdpSendAssumption DEF Typed, ConfigType, SeenEnough, Limited, Calm, InEffect
  <1>1. CASE CheckForever \/ CheckNonzero \/ ReadOperand \/ Compare
    <2>1. CASE CheckForever \/ CheckNonzero
      BY <2>1 DEF CheckForever, CheckNonzero, ClockOnly, ClockGoes, clockFields, histories
    <2>2. CASE ReadOperand
      BY <2>2 DEF ReadOperand, ClockOnly, clockFields, histories
    <2>3. CASE Compare
      BY <2>3 DEF Compare, Compared, More, ClockOnly, clockFields, histories
    <2>4. QED BY <1>1, <2>1, <2>2, <2>3
  <1>2. CASE TestRate \/ Divide
    BY <1>2 DEF TestRate, Divide, ClockOnly, ClockGoes, clockFields, histories
  <1>3. CASE ReadCount \/ WriteCount
    BY <1>3 DEF ReadCount, WriteCount, ClockOnly, ClockGoes, clockFields, histories
  <1>4. CASE ReadOffset \/ WriteOffset
    BY <1>4 DEF ReadOffset, WriteOffset, Advanced, ClockOnly, ClockGoes, clockFields, histories
  <1>5. CASE Begin \/ Tick \/ SendError \/ Finished \/ ConfigClosed
    BY <1>5 DEF Begin, Tick, SendError, Finished, ConfigClosed, ClockGoes, clockFields, histories
  <1>6. CASE Report \/ ResetStats
    BY <1>6 DEF Report, ResetStats, clockFields, histories
  <1>7. ASSUME NEW pushed \in ConfigType, Push(pushed) PROVE Limited'
    BY <1>7 DEF Push, Changes, clockFields, histories
  <1>8. CASE SetRate \/ SetStop \/ SetOffset
    <2>1. CASE SetRate /\ stopper.at = "wait"
      BY <2>1 DEF SetRate
    <2>2. CASE SetRate /\ stopper.at # "wait"
      BY <2>2 DEF SetRate
    <2>3. CASE SetStop
      BY <2>3 DEF SetStop, histories
    <2>4. CASE SetOffset
      BY <2>4 DEF SetOffset
    <2>5. QED BY <1>8, <2>1, <2>2, <2>3, <2>4
  <1>9. CASE ReadStop
    <2>1. CASE Setting
      BY <1>9, <2>1 DEF ReadStop, clockFields
    <2>2. CASE ~Setting
      BY <1>9, <2>2 DEF ReadStop, Setting, clockFields
    <2>3. QED BY <2>1, <2>2
  <1>10. CASE WriteStop
    BY <1>10 DEF WriteStop, StopAt, clockFields, histories
  <1>11. CASE UNCHANGED vars
    BY <1>11 DEF vars, clockFields, histories
  <1>12. QED
    BY <1>1, <1>2, <1>3, <1>4, <1>5, <1>6, <1>7, <1>8, <1>9, <1>10, <1>11 DEF Next, Clock, Sender

(* The clock compares with the limit in effect before it ticks. *)
LEMMA PushLimitNext ==
    ASSUME Typed, Counted, SeenEnough, Limited, PushLimit, [Next]_vars
    PROVE  PushLimit'
  <1> USE UdpSendAssumption DEF Typed, ConfigType, Clocked, Counting, SeenEnough, Counted, Limited, Calm, InEffect, PushLimit, Towards
  <1>1. CASE CheckForever \/ CheckNonzero \/ ReadOperand \/ Compare
    <2>1. CASE CheckForever \/ CheckNonzero
      BY <2>1 DEF CheckForever, CheckNonzero, ClockOnly, ClockGoes, clockFields, histories
    <2>2. CASE ReadOperand
      BY <2>2 DEF ReadOperand, ClockOnly, clockFields, histories
    <2>3. CASE Compare
      BY <2>3 DEF Compare, Compared, More, ClockOnly, clockFields, histories
    <2>4. QED BY <1>1, <2>1, <2>2, <2>3
  <1>2. CASE TestRate \/ Divide
    BY <1>2 DEF TestRate, Divide, ClockOnly, ClockGoes, clockFields, histories
  <1>3. CASE ReadCount \/ WriteCount
    BY <1>3 DEF ReadCount, WriteCount, ClockOnly, ClockGoes, clockFields, histories
  <1>4. CASE ReadOffset \/ WriteOffset
    BY <1>4 DEF ReadOffset, WriteOffset, Advanced, ClockOnly, ClockGoes, clockFields, histories
  <1>5. CASE Begin \/ Tick \/ SendError \/ Finished \/ ConfigClosed
    BY <1>5 DEF Begin, Tick, SendError, Finished, ConfigClosed, ClockGoes, clockFields, histories
  <1>6. CASE Report \/ ResetStats
    BY <1>6 DEF Report, ResetStats, clockFields, histories
  <1>7. ASSUME NEW pushed \in ConfigType, Push(pushed) PROVE PushLimit'
    BY <1>7 DEF Push, Changes, clockFields, histories
  <1>8. CASE SetRate \/ SetStop \/ SetOffset
    BY <1>8 DEF SetRate, SetStop, SetOffset, clockFields, histories
  <1>9. CASE ReadStop
    BY <1>9 DEF ReadStop, Setting, clockFields, histories
  <1>10. CASE WriteStop
    BY <1>10 DEF WriteStop, StopAt, clockFields, histories
  <1>11. CASE UNCHANGED vars
    BY <1>11 DEF vars, clockFields, histories
  <1>12. QED
    BY <1>1, <1>2, <1>3, <1>4, <1>5, <1>6, <1>7, <1>8, <1>9, <1>10, <1>11 DEF Next, Clock, Sender

(* Only a tick that was under way when Stop wrote stop is still sent. *)
LEMMA StopLimitNext ==
    ASSUME Typed, SeenEnough, Limited, StopLimit, [Next]_vars
    PROVE  StopLimit'
  <1> USE UdpSendAssumption DEF Typed, Clocked, Counting, SeenEnough, Limited, Calm, InEffect, StopLimit
  <1>1. CASE CheckForever \/ CheckNonzero \/ ReadOperand \/ Compare
    <2>1. CASE CheckForever \/ CheckNonzero
      BY <2>1 DEF CheckForever, CheckNonzero, ClockOnly, ClockGoes, clockFields, histories
    <2>2. CASE ReadOperand
      BY <2>2 DEF ReadOperand, ClockOnly, clockFields, histories
    <2>3. CASE Compare
      BY <2>3 DEF Compare, Compared, More, ClockOnly, clockFields, histories
    <2>4. QED BY <1>1, <2>1, <2>2, <2>3
  <1>2. CASE TestRate \/ Divide
    BY <1>2 DEF TestRate, Divide, ClockOnly, ClockGoes, clockFields, histories
  <1>3. CASE ReadCount \/ WriteCount
    BY <1>3 DEF ReadCount, WriteCount, ClockOnly, ClockGoes, clockFields, histories
  <1>4. CASE ReadOffset \/ WriteOffset
    BY <1>4 DEF ReadOffset, WriteOffset, Advanced, ClockOnly, ClockGoes, clockFields, histories
  <1>5. CASE Begin \/ Tick \/ SendError \/ Finished \/ ConfigClosed
    BY <1>5 DEF Begin, Tick, SendError, Finished, ConfigClosed, ClockGoes, clockFields, histories
  <1>6. CASE Report \/ ResetStats
    BY <1>6 DEF Report, ResetStats, clockFields, histories
  <1>7. ASSUME NEW pushed \in ConfigType, Push(pushed) PROVE StopLimit'
    BY <1>7 DEF Push, Changes, clockFields, histories
  <1>8. CASE SetRate \/ SetStop \/ SetOffset
    BY <1>8 DEF SetRate, SetStop, SetOffset, clockFields, histories
  <1>9. CASE ReadStop
    BY <1>9 DEF ReadStop, Setting, clockFields, histories
  <1>10. CASE WriteStop
    BY <1>10 DEF WriteStop, StopAt, clockFields, histories
  <1>11. CASE UNCHANGED vars
    BY <1>11 DEF vars, clockFields, histories
  <1>12. QED
    BY <1>1, <1>2, <1>3, <1>4, <1>5, <1>6, <1>7, <1>8, <1>9, <1>10, <1>11 DEF Next, Clock, Sender

(* Without a push and a signal the clock alone writes. *)
LEMMA ExactNext ==
    ASSUME Typed, Limited, Exact, Running, [Next]_vars
    PROVE  Exact'
  <1> USE UdpSendAssumption DEF Typed, ConfigType, Clocked, Counting, Limited, InEffect, Exact, Untouched, Towards, Running
  <1>1. CASE CheckForever \/ CheckNonzero \/ ReadOperand \/ Compare
    <2>1. CASE CheckForever \/ CheckNonzero
      BY <2>1 DEF CheckForever, CheckNonzero, ClockOnly, ClockGoes, clockFields, histories
    <2>2. CASE ReadOperand
      BY <2>2 DEF ReadOperand, ClockOnly, clockFields, histories
    <2>3. CASE Compare
      BY <2>3 DEF Compare, Compared, More, ClockOnly, clockFields, histories
    <2>4. QED BY <1>1, <2>1, <2>2, <2>3
  <1>2. CASE TestRate \/ Divide
    BY <1>2 DEF TestRate, Divide, ClockOnly, ClockGoes, clockFields, histories
  <1>3. CASE ReadCount \/ WriteCount
    BY <1>3 DEF ReadCount, WriteCount, ClockOnly, ClockGoes, clockFields, histories
  <1>4. CASE ReadOffset \/ WriteOffset
    BY <1>4 DEF ReadOffset, WriteOffset, Advanced, ClockOnly, ClockGoes, clockFields, histories
  <1>5. CASE Begin \/ Tick \/ SendError \/ Finished \/ ConfigClosed
    BY <1>5 DEF Begin, Tick, SendError, Finished, ConfigClosed, ClockGoes, clockFields, histories
  <1>6. CASE Report \/ ResetStats
    BY <1>6 DEF Report, ResetStats, clockFields, histories
  <1>7. ASSUME NEW pushed \in ConfigType, Push(pushed) PROVE Exact'
    BY <1>7 DEF Push, Changes, clockFields, histories
  <1>8. CASE SetRate \/ SetStop \/ SetOffset
    BY <1>8 DEF SetRate, SetStop, SetOffset, clockFields, histories
  <1>9. CASE ReadStop
    BY <1>9 DEF ReadStop, Setting, clockFields, histories
  <1>10. CASE WriteStop
    BY <1>10 DEF WriteStop, StopAt, clockFields, histories
  <1>11. CASE UNCHANGED vars
    BY <1>11 DEF vars, clockFields, histories
  <1>12. QED
    BY <1>1, <1>2, <1>3, <1>4, <1>5, <1>6, <1>7, <1>8, <1>9, <1>10, <1>11 DEF Next, Clock, Sender

LEMMA InitUInv == Init => UInv
  <1> SUFFICES ASSUME Init PROVE UInv
    OBVIOUS
  <1>1. Typed
    BY UdpSendAssumption DEF Init, Typed, ConfigType, Clocked
  <1>2. Ticked
    BY UdpSendAssumption DEF Init, Ticked, Sends, ConfigType, Counting
  <1>3. Counted /\ SeenEnough /\ Limited
    BY UdpSendAssumption DEF Init, Counted, SeenEnough, Limited, Counting, InEffect, Calm
  <1>4. PushLimit /\ StopLimit
    BY UdpSendAssumption DEF Init, PushLimit, StopLimit, InEffect
  <1>5. Exact
    <2>1. clock.at = "new" /\ send.config = config /\ offset = 0 /\ sent = 0 /\ pushes = 0
      BY DEF Init
    <2>2. config.count \in Nat
      BY UdpSendAssumption DEF Init, ConfigType
    <2>3. QED BY <2>1, <2>2 DEF Exact, Untouched, Towards, Clocked, Counting
  <1>6. QED BY <1>1, <1>2, <1>3, <1>4, <1>5 DEF UInv

LEMMA UInvariant == Spec => []UInv
  <1>1. UInv /\ [Next]_vars => UInv'
    <2> SUFFICES ASSUME UInv, [Next]_vars PROVE UInv'
      OBVIOUS
    <2>1. CASE Next
      <3>1. Typed' /\ Ticked'
        BY <2>1, TypedNext, TickedNext DEF UInv, Next
      <3>2. Counted' /\ SeenEnough' /\ Limited'
        BY CountedNext, LimitedNext DEF UInv
      <3>3. PushLimit' /\ StopLimit' /\ Exact'
        BY <2>1, PushLimitNext, StopLimitNext, ExactNext DEF UInv, Next
      <3>4. QED BY <3>1, <3>2, <3>3 DEF UInv
    <2>2. CASE UNCHANGED vars
      BY <2>2 DEF vars, clockFields, histories, UInv, Typed, Ticked, Sends, Counted, SeenEnough,
                  Limited, PushLimit, StopLimit, Exact, Untouched, Running, Towards, Calm, InEffect
    <2>3. QED BY <2>1, <2>2
  <1>2. QED BY <1>1, InitUInv, PTL DEF Spec

-----------------------------------------------------------------------------
(* The clock's fields stay in bounds: none runs ahead of the packets sent.     *)
THEOREM TypeCorrect == Spec => []TypeOK
  <1>1. UInv => TypeOK
    BY UdpSendAssumption DEF UInv, Typed, Ticked, Sends, TypeOK, Clocked, Counting, ConfigType
  <1>2. QED BY <1>1, UInvariant, PTL

(* However a push races with the clock, no more packets follow it than it      *)
(* allows, unless a Stop lifted the limit.                                     *)
THEOREM FewEnough == Spec => []NeverTooMany
  <1>1. UInv => NeverTooMany
    <2> SUFFICES ASSUME UInv PROVE NeverTooMany
      OBVIOUS
    <2>1. CASE clock.at = "new"
      <3>1. sincePush <= 0
        BY <2>1 DEF UInv, Counted, Counting, Exact
      <3>2. sincePush \in Nat /\ config.count \in Nat
        BY UdpSendAssumption DEF UInv, Typed, ConfigType
      <3>3. QED BY <3>1, <3>2 DEF NeverTooMany
    <2>2. CASE clock.at # "new"
      BY <2>2 DEF UInv, Typed, Limited, PushLimit, Towards, NeverTooMany, Setting, InEffect, Calm
    <2>3. QED BY <2>1, <2>2
  <1>2. QED BY <1>1, UInvariant, PTL

(* A sender left alone ends after exactly the packets it was started for.      *)
THEOREM ExactCount == Spec => []CountExact
  <1>1. UInv => CountExact
    BY DEF UInv, Typed, Exact, Untouched, Clocked, Counting, Running, CountExact
  <1>2. QED BY <1>1, UInvariant, PTL

(* After a Stop that found packets sent at most one more is sent.              *)
THEOREM StoppedInTime == Spec => []StopBounds
  <1>1. UInv => StopBounds
    BY DEF UInv, StopLimit, Calm, StopBounds, Stopping
  <1>2. QED BY <1>1, UInvariant, PTL

-----------------------------------------------------------------------------
(* The receiver. *)

(* The invariant is inductive as it stands: the accounts of a state follow    *)
(* from those of the state before it and the type of its fields.              *)
RecvInv == RecvTypeOK /\ Accounting /\ Conservation

(* What one state of an ID satisfies, apart from the map that holds it.       *)
Accounted(s) ==
    /\ Alive(s) => s.pseq = s.seq /\ s.count + s.skips = s.pseq - s.start
    /\ ~Alive(s) => s.seq = s.start /\ s.count = 0 /\ s.skips = 0

(* A newly made or reset state is well typed and has nothing to account for.  *)
LEMMA FreshAccounted ==
    ASSUME NEW seq \in Seqs
    PROVE  Fresh(seq) \in RecvState /\ Accounted(Fresh(seq))
  BY UdpRecvAssumption DEF Fresh, RecvState, Accounted, Alive, Seqs

(* handlePacket keeps a state accounted, and adds to its counters what it adds *)
(* to its sequence number.                                                     *)
LEMMA HandleAccounted ==
    ASSUME NEW s \in RecvState, NEW seq \in Seqs, Accounted(s)
    PROVE  /\ Handle(s, seq) \in RecvState
           /\ Accounted(Handle(s, seq))
           /\ Handle(s, seq).count + Handle(s, seq).skips - Handle(s, seq).seq
                = s.count + s.skips - s.seq
  <1>1. CASE seq > s.seq
    <2>1. /\ s.seq \in Nat /\ s.start \in Nat /\ s.pseq \in Nat /\ seq \in Nat
          /\ s.count \in Nat /\ s.skips \in Nat /\ s.dups \in Nat
          /\ s.start \in Seqs /\ seq - s.seq - 1 \in Nat
      BY <1>1, UdpRecvAssumption DEF RecvState, Seqs
    <2>2. Handle(s, seq) = [seq |-> seq, start |-> s.start, pseq |-> seq, count |-> s.count + 1,
                            skips |-> s.skips + (seq - s.seq - 1), dups |-> s.dups]
      BY <1>1 DEF Handle, Advance, RecvState
    <2>3. Handle(s, seq) \in RecvState
      BY <2>1, <2>2 DEF RecvState
    <2>4. Accounted(Handle(s, seq))
      BY <1>1, <2>1, <2>2 DEF Accounted, Alive
    <2>5. QED BY <2>1, <2>2, <2>3, <2>4
  <1>2. CASE ~(seq > s.seq)
    BY <1>2, UdpRecvAssumption DEF Handle, Duplicate, RecvState, Accounted, Alive, Seqs
  <1>3. QED BY <1>1, <1>2

(* The empty map of states is accounted.                                      *)
LEMMA InitRecv == RecvInit => RecvInv
  BY UdpRecvAssumption
     DEF RecvInit, RecvInv, RecvTypeOK, Accounting, Conservation, NoReport, Packet, Seqs

(* Every action keeps the accounts.                                           *)
LEMMA NextRecv == RecvInv /\ [RecvNext]_recvVars => RecvInv'
  <1> SUFFICES ASSUME RecvInv, [RecvNext]_recvVars PROVE RecvInv'
    OBVIOUS
  <1> USE UdpRecvAssumption
  <1>1. ASSUME NEW id \in IDs, Send(id) PROVE RecvInv'
    BY <1>1 DEF RecvInv, RecvTypeOK, Accounting, Conservation, Alive, Send, Packet, Seqs
  <1>2. ASSUME NEW packet \in network, Lose(packet) PROVE RecvInv'
    BY <1>2 DEF RecvInv, RecvTypeOK, Accounting, Conservation, Alive, Lose
  <1>3. ASSUME NEW packet \in network, NEW again \in BOOLEAN, MakeState(packet, again)
        PROVE  RecvInv'
    <2>1. packet.id \in IDs /\ packet.seq \in Seqs
      BY DEF RecvInv, RecvTypeOK, Packet
    <2>2. Fresh(packet.seq) \in RecvState /\ Accounted(Fresh(packet.seq))
      BY <2>1, FreshAccounted
    <2>3. RecvTypeOK'
      BY <1>3, <2>1, <2>2 DEF RecvInv, RecvTypeOK, MakeState, Deliver, With, Seqs
    <2>4. Accounting'
      BY <1>3, <2>2 DEF RecvInv, Accounting, Accounted, MakeState, With
    <2>5. Conservation'
      BY <1>3, <2>1 DEF RecvInv, RecvTypeOK, Conservation, MakeState, With, Fresh, Seqs
    <2>6. QED BY <2>3, <2>4, <2>5 DEF RecvInv
  <1>4. ASSUME NEW packet \in network, NEW again \in BOOLEAN, HandlePacket(packet, again)
        PROVE  RecvInv'
    <2> DEFINE s == states[packet.id]
    <2>1. packet.id \in DOMAIN states /\ packet.id \in IDs /\ packet.seq \in Seqs
      BY <1>4 DEF RecvInv, RecvTypeOK, Packet, HandlePacket
    <2>2. s \in RecvState /\ Accounted(s)
      BY <2>1 DEF RecvInv, RecvTypeOK, Accounting, Accounted
    <2>3. /\ Handle(s, packet.seq) \in RecvState
          /\ Accounted(Handle(s, packet.seq))
          /\ Handle(s, packet.seq).count + Handle(s, packet.seq).skips - Handle(s, packet.seq).seq
                = s.count + s.skips - s.seq
      BY <2>1, <2>2, HandleAccounted
    <2>4. RecvTypeOK'
      BY <1>4, <2>1, <2>3 DEF RecvInv, RecvTypeOK, HandlePacket, Deliver, With, Seqs
    <2>5. Accounting'
      BY <1>4, <2>3 DEF RecvInv, Accounting, Accounted, HandlePacket, With
    <2>6. Conservation'
      <3> SUFFICES ASSUME NEW id \in DOMAIN states'
                   PROVE  reported'[id].count + reported'[id].skips + states'[id].count
                            + states'[id].skips = states'[id].seq - reported'[id].first
        BY DEF Conservation
      <3>1. CASE id = packet.id
        <4>1. states'[id] = Handle(s, packet.seq) /\ reported' = reported
          BY <1>4, <2>1, <3>1 DEF HandlePacket, With
        <4>2. reported[id].count + reported[id].skips + s.count + s.skips = s.seq - reported[id].first
          BY <2>1, <3>1 DEF RecvInv, Conservation
        <4>3. /\ reported[id] \in [first: Seqs, count: Nat, skips: Nat]
              /\ Handle(s, packet.seq) \in RecvState
          BY <2>1, <2>3, <3>1 DEF RecvInv, RecvTypeOK
        <4> HIDE DEF s
        <4>4. QED BY <4>1, <4>2, <4>3, <2>2, <2>3 DEF RecvState, Seqs
      <3>2. CASE id # packet.id
        BY <1>4, <3>2 DEF RecvInv, Conservation, HandlePacket, With
      <3>3. QED BY <3>1, <3>2
    <2>7. QED BY <2>4, <2>5, <2>6 DEF RecvInv
  <1>5. CASE StatsTick
    BY <1>5 DEF RecvInv, RecvTypeOK, Accounting, Conservation, Alive, StatsTick
  <1>6. ASSUME NEW id \in IDs, TakeStats(id) PROVE RecvInv'
    <2>1. id \in DOMAIN states /\ states[id] \in RecvState
      BY <1>6 DEF RecvInv, RecvTypeOK, TakeStats
    <2>2. Reset(states[id]) \in RecvState /\ Accounted(Reset(states[id]))
      BY <2>1, FreshAccounted DEF Reset, RecvState
    <2>3. /\ reported[id] \in [first: Seqs, count: Nat, skips: Nat]
          /\ reported' = [reported EXCEPT ![id] = Add(reported[id], states[id])]
          /\ reported'[id] = Add(reported[id], states[id])
      BY <1>6 DEF RecvInv, RecvTypeOK, TakeStats
    <2>4. Add(reported[id], states[id]) \in [first: Seqs, count: Nat, skips: Nat]
      BY <2>1, <2>3 DEF Add, RecvState
    <2>5. DOMAIN states' = DOMAIN states /\ states'[id] = Reset(states[id])
          /\ \A x \in DOMAIN states : x # id => states'[x] = states[x]
      BY <1>6, <2>1 DEF TakeStats, With
    <2>6. RecvTypeOK'
      <3>1. reported' \in [IDs -> [first: Seqs, count: Nat, skips: Nat]]
        BY <2>3, <2>4 DEF RecvInv, RecvTypeOK
      <3>2. QED BY <1>6, <2>2, <2>5, <3>1 DEF RecvInv, RecvTypeOK, TakeStats
    <2>7. Accounting'
      BY <1>6, <2>2 DEF RecvInv, Accounting, Accounted, TakeStats, With
    <2>8. Conservation'
      <3> SUFFICES ASSUME NEW x \in DOMAIN states'
                   PROVE  reported'[x].count + reported'[x].skips + states'[x].count
                            + states'[x].skips = states'[x].seq - reported'[x].first
        BY DEF Conservation
      <3>1. CASE x = id
        <4>1. reported[id].count + reported[id].skips + states[id].count + states[id].skips
                = states[id].seq - reported[id].first
          BY <2>1 DEF RecvInv, Conservation
        <4>2. states'[id] = Fresh(states[id].seq)
          BY <2>5 DEF Reset
        <4>3. QED BY <2>1, <2>3, <3>1, <4>1, <4>2 DEF Add, Fresh, RecvState, Seqs
      <3>2. CASE x # id
        BY <1>6, <2>5, <3>2 DEF RecvInv, RecvTypeOK, Conservation, TakeStats
      <3>3. QED BY <3>1, <3>2
    <2>9. QED BY <2>6, <2>7, <2>8 DEF RecvInv
  <1>7. ASSUME NEW id \in IDs, Forget(id) PROVE RecvInv'
    BY <1>7 DEF RecvInv, RecvTypeOK, Accounting, Conservation, Alive, Forget
  <1>8. CASE TickDone
    BY <1>8 DEF RecvInv, RecvTypeOK, Accounting, Conservation, Alive, TickDone
  <1>9. CASE UNCHANGED recvVars
    BY <1>9 DEF RecvInv, RecvTypeOK, Accounting, Conservation, Alive, recvVars
  <1>10. QED
    BY <1>1, <1>2, <1>3, <1>4, <1>5, <1>6, <1>7, <1>8, <1>9 DEF RecvNext

(* The receiver's state is well typed.                                        *)
THEOREM RecvTypeCorrect == RecvSpec => []RecvTypeOK
  BY InitRecv, NextRecv, PTL DEF RecvSpec, RecvInv

(* The reports of the receiver are proportions, whatever the network does to  *)
(* the packets of however many senders.                                       *)
THEOREM ReportsAccount == RecvSpec => []Accounting
  <1>1. RecvInv => Accounting
    BY DEF RecvInv
  <1>2. QED BY InitRecv, NextRecv, <1>1, PTL DEF RecvSpec

(* No sequence number falls between two reports.                              *)
THEOREM ReportsConserve == RecvSpec => []Conservation
  <1>1. RecvInv => Conservation
    BY DEF RecvInv
  <1>2. QED BY InitRecv, NextRecv, <1>1, PTL DEF RecvSpec

=============================================================================
