----------------------------- MODULE LogsProofs -----------------------------
(* For any number of writers and followers, any buffer and any history: every  *)
(* message that reaches a websocket tells exactly what was dropped before it,  *)
(* and run never sends into a channel that it has closed.                      *)
EXTENDS Logs, TLAPS

-----------------------------------------------------------------------------
(* A writeChan after the line base, and a msgChan after the line n.            *)
Chain(s, base) ==
    \A i \in 1 .. Len(s) :
        s[i].line = 1 + s[i].dropped + IF i = 1 THEN base ELSE s[i - 1].line
LastOf(s, base) == IF s = <<>> THEN base ELSE s[Len(s)].line
Consecutive(s, n) == \A i \in 1 .. Len(s) : s[i] = n + i

Messages == [line: Nat, dropped: Nat]

LEMMA NoneLeft == \A s \in Seq(Messages) : s = <<>> <=> Len(s) = 0
  OBVIOUS

LEMMA ChainAppend ==
    ASSUME NEW s \in Seq(Messages), NEW base \in Nat, NEW m \in Messages, Chain(s, base),
           m.line = 1 + m.dropped + LastOf(s, base)
    PROVE  Chain(Append(s, m), base) /\ LastOf(Append(s, m), base) = m.line
  <1> DEFINE t == Append(s, m)
  <1>1. /\ Len(s) \in Nat /\ Len(t) = Len(s) + 1 /\ t[Len(t)] = m /\ t # <<>>
        /\ \A i \in 1 .. Len(s) : t[i] = s[i]
    OBVIOUS
  <1>2. LastOf(t, base) = m.line
    BY <1>1 DEF LastOf
  <1>3. ASSUME NEW i \in 1 .. Len(t)
        PROVE  t[i].line = 1 + t[i].dropped + IF i = 1 THEN base ELSE t[i - 1].line
    <2>1. CASE i \in 1 .. Len(s)
      <3>1. i # 1 => i - 1 \in 1 .. Len(s)
        BY <2>1
      <3>2. QED BY <1>1, <2>1, <3>1 DEF Chain
    <2>2. CASE i = Len(s) + 1
      <3>1. t[i] = m
        BY <1>1, <2>2
      <3>2. CASE s = <<>>
        <4>1. i = 1 /\ LastOf(s, base) = base
          BY <2>2, <3>2 DEF LastOf
        <4>2. QED BY <3>1, <4>1
      <3>3. CASE s # <<>>
        <4>1. i # 1 /\ i - 1 \in 1 .. Len(s) /\ i - 1 = Len(s)
          BY <1>1, <2>2, <3>3
        <4>2. t[i - 1].line = LastOf(s, base)
          BY <1>1, <3>3, <4>1 DEF LastOf
        <4>3. QED BY <3>1, <4>1, <4>2
      <3>4. QED BY <3>2, <3>3
    <2>3. QED BY <1>1, <2>1, <2>2
  <1>4. QED BY <1>2, <1>3 DEF Chain

LEMMA ChainTail ==
    ASSUME NEW s \in Seq(Messages), NEW base \in Nat, s # <<>>, Chain(s, base)
    PROVE  /\ Chain(Tail(s), Head(s).line)
           /\ LastOf(Tail(s), Head(s).line) = LastOf(s, base)
           /\ Head(s) \in Messages /\ Tail(s) \in Seq(Messages)
  <1> DEFINE t == Tail(s)
  <1>1. /\ Len(s) \in Nat /\ Len(s) > 0 /\ Len(t) = Len(s) - 1 /\ t \in Seq(Messages)
        /\ Head(s) = s[1] /\ s[1] \in Messages /\ \A i \in 1 .. Len(t) : t[i] = s[i + 1]
    OBVIOUS
  <1> HIDE DEF t
  <1>2. t = <<>> <=> Len(t) = 0
    BY <1>1, NoneLeft
  <1>3. ASSUME NEW i \in 1 .. Len(t)
        PROVE  t[i].line = 1 + t[i].dropped + IF i = 1 THEN s[1].line ELSE t[i - 1].line
    <2>1. i + 1 \in 1 .. Len(s) /\ i + 1 # 1 /\ (i + 1) - 1 = i /\ t[i] = s[i + 1]
      BY <1>1
    <2>2. s[i + 1].line = 1 + s[i + 1].dropped + s[i].line
      BY <2>1 DEF Chain
    <2>3. i # 1 => t[i - 1] = s[i]
      <3>1. i # 1 => i - 1 \in 1 .. Len(t) /\ (i - 1) + 1 = i
        BY <1>1
      <3>2. QED BY <1>1, <3>1
    <2>4. QED BY <2>1, <2>2, <2>3
  <1>4. LastOf(t, s[1].line) = LastOf(s, base)
    <2>1. CASE Len(s) = 1
      <3>1. t = <<>>
        BY <1>1, <1>2, <2>1
      <3>2. s # <<>>
        OBVIOUS
      <3>3. QED BY <2>1, <3>1, <3>2 DEF LastOf
    <2>2. CASE Len(s) # 1
      <3>1. t # <<>> /\ Len(t) \in 1 .. Len(t) /\ Len(t) + 1 = Len(s)
        BY <1>1, <1>2, <2>2
      <3>2. QED BY <1>1, <3>1 DEF LastOf
    <2>3. QED BY <2>1, <2>2
  <1>5. QED BY <1>1, <1>3, <1>4 DEF Chain, t

LEMMA ConsecutiveAppend ==
    ASSUME NEW s \in Seq(Nat), NEW n \in Nat, Consecutive(s, n)
    PROVE  Consecutive(Append(s, n + Len(s) + 1), n)
  BY DEF Consecutive

LEMMA ConsecutiveTail ==
    ASSUME NEW s \in Seq(Nat), NEW n \in Nat, Consecutive(s, n), s # <<>>
    PROVE  Head(s) = n + 1 /\ Consecutive(Tail(s), n + 1) /\ Len(Tail(s)) = Len(s) - 1
  <1>1. /\ Len(s) \in Nat /\ Len(s) > 0 /\ Len(Tail(s)) = Len(s) - 1 /\ Head(s) = s[1]
        /\ \A i \in 1 .. Len(Tail(s)) : Tail(s)[i] = s[i + 1]
    OBVIOUS
  <1>2. Head(s) = n + 1
    BY <1>1 DEF Consecutive
  <1>3. ASSUME NEW i \in 1 .. Len(Tail(s))
        PROVE  Tail(s)[i] = (n + 1) + i
    <2>1. i + 1 \in 1 .. Len(s)
      BY <1>1
    <2>2. QED BY <1>1, <2>1 DEF Consecutive
  <1>4. QED BY <1>1, <1>2, <1>3 DEF Consecutive

-----------------------------------------------------------------------------
(* The state of one follower, and its place in the numbering of the lines.     *)

Typed ==
    /\ history \in Nat /\ subscribers \subseteq Followers
    /\ run \in [at: {"select", "distribute", "replay"}, msg: Nat, to: SUBSET Followers]
    /\ conn \in [Followers -> {"none", "subscribing", "open", "closed"}]
    /\ msgChan \in [Followers -> Seq(Nat)] /\ msgClosed \in [Followers -> BOOLEAN]
    /\ fwd \in [Followers -> [at: {"recv", "send", "done"}, msg: Nat, drops: Nat]]
    /\ writeChan \in [Followers -> Seq(Messages)] /\ seen \in [Followers -> Nat]
    /\ reader \in [Followers -> {"off", "read", "close", "done"}]
    /\ writer \in [Followers -> {"off", "range", "write", "close", "closing", "done"}]

(* What lies in its channels continues what its peer has seen.                 *)
InOrder(f) ==
    /\ Chain(writeChan[f], seen[f])
    /\ fwd[f].at = "send" => fwd[f].msg = LastPut(f) + fwd[f].drops + 1
    /\ Consecutive(msgChan[f], LastTaken(f))

Subscribed(f) == conn[f] \notin {"none", "subscribing"}
Fresh(f) == /\ ~msgClosed[f] /\ f \notin subscribers
            /\ reader[f] = "off" /\ writer[f] = "off" /\ LastSent(f) = 0

(* run has sent a subscriber all of the history, or up to where its loop is.   *)
UpToDate(f) ==
    /\ ~Subscribed(f) => Fresh(f)
    /\ msgClosed[f] => f \notin subscribers
    /\ f \in subscribers =>
          IF f \in run.to THEN LastSent(f) + 1 = run.msg ELSE LastSent(f) = history

RunOK ==
    /\ run.to \subseteq subscribers
    /\ run.at = "select" => run.to = {}
    /\ run.at = "distribute" => run.msg = history
    /\ run.at = "replay" => run.msg <= history + 1 /\ \A f, g \in run.to : f = g

LInv == Typed /\ RunOK /\ \A f \in Followers : InOrder(f) /\ UpToDate(f)

LEMMA Places ==
    ASSUME Typed, NEW f \in Followers
    PROVE  /\ LastPut(f) = LastOf(writeChan[f], seen[f]) /\ LastPut(f) \in Nat
           /\ LastTaken(f) \in Nat /\ LastSent(f) \in Nat
           /\ msgChan[f] \in Seq(Nat) /\ Len(msgChan[f]) \in Nat
           /\ writeChan[f] \in Seq(Messages) /\ seen[f] \in Nat
           /\ fwd[f] \in [at: {"recv", "send", "done"}, msg: Nat, drops: Nat]
  <1>1. /\ msgChan[f] \in Seq(Nat) /\ Len(msgChan[f]) \in Nat
        /\ writeChan[f] \in Seq(Messages) /\ seen[f] \in Nat
        /\ fwd[f] \in [at: {"recv", "send", "done"}, msg: Nat, drops: Nat]
    BY DEF Typed
  <1>2. LastPut(f) = LastOf(writeChan[f], seen[f])
    BY DEF LastPut, LastOf
  <1>3. LastPut(f) \in Nat
    <2>1. CASE writeChan[f] = <<>>
      BY <1>1, <2>1 DEF LastPut
    <2>2. CASE writeChan[f] # <<>>
      <3>1. Len(writeChan[f]) \in 1 .. Len(writeChan[f])
        BY <1>1, <2>2, NoneLeft
      <3>2. writeChan[f][Len(writeChan[f])] \in Messages
        BY <1>1, <3>1
      <3>3. QED BY <2>2, <3>2 DEF LastPut, Messages
    <2>3. QED BY <2>1, <2>2
  <1>4. LastTaken(f) \in Nat
    BY <1>1, <1>3 DEF LastTaken
  <1>5. LastSent(f) \in Nat
    BY <1>1, <1>4 DEF LastSent
  <1>6. QED BY <1>1, <1>2, <1>3, <1>4, <1>5

(* A follower whose channels a step leaves alone stays where it is.            *)
Quiet(f) == /\ msgChan'[f] = msgChan[f] /\ writeChan'[f] = writeChan[f]
            /\ fwd'[f] = fwd[f] /\ seen'[f] = seen[f]

LEMMA StaysInOrder ==
    ASSUME NEW f \in Followers, Quiet(f)
    PROVE  (InOrder(f) => InOrder(f)') /\ LastSent(f)' = LastSent(f)
  <1>1. LastPut(f)' = LastPut(f)
    BY DEF Quiet, LastPut
  <1>2. LastTaken(f)' = LastTaken(f)
    BY <1>1 DEF Quiet, LastTaken
  <1>3. LastSent(f)' = LastSent(f)
    BY <1>2 DEF Quiet, LastSent
  <1>4. QED BY <1>1, <1>2, <1>3 DEF Quiet, InOrder

(* ... and one whose lines a step only moves on counts as many.                *)
LEMMA StaysUpToDate ==
    ASSUME NEW f \in Followers, UpToDate(f), LastSent(f)' = LastSent(f),
           UNCHANGED <<run, history, subscribers, msgClosed>>,
           Subscribed(f) => Subscribed(f)',
           ~Subscribed(f) => reader'[f] = reader[f] /\ writer'[f] = writer[f]
    PROVE  UpToDate(f)'
  BY DEF UpToDate, Fresh

-----------------------------------------------------------------------------
(* The follower's own steps. *)

LEMMA ReceiveOK ==
    ASSUME LInv, NEW f \in Followers, Receive(f)
    PROVE  InOrder(f)' /\ LastSent(f)' = LastSent(f)
  <1>1. /\ msgChan'[f] = Tail(msgChan[f]) /\ msgChan[f] # <<>> /\ fwd[f].at = "recv"
        /\ fwd'[f] = [at |-> "send", msg |-> Head(msgChan[f]), drops |-> fwd[f].drops]
        /\ writeChan'[f] = writeChan[f] /\ seen'[f] = seen[f]
    BY DEF Receive, LInv, Typed, socketVars
  <1>2. Consecutive(msgChan[f], LastTaken(f)) /\ Chain(writeChan[f], seen[f])
    BY DEF LInv, InOrder
  <1>3. LastPut(f)' = LastPut(f) /\ LastTaken(f) = LastPut(f) + fwd[f].drops
    <2>1. LastPut(f)' = LastPut(f)
      BY <1>1 DEF LastPut
    <2>2. LastPut(f) \in Nat /\ fwd[f].drops \in Nat
      BY Places DEF LInv
    <2>3. QED BY <1>1, <2>1, <2>2 DEF LastTaken
  <1>4. LastTaken(f)' = LastTaken(f) + 1
    BY <1>1, <1>3, Places DEF LastTaken, LInv
  <1>5. /\ Head(msgChan[f]) = LastTaken(f) + 1 /\ Consecutive(Tail(msgChan[f]), LastTaken(f) + 1)
        /\ Len(Tail(msgChan[f])) = Len(msgChan[f]) - 1
    BY <1>1, <1>2, Places, ConsecutiveTail DEF LInv
  <1>6. LastSent(f)' = LastSent(f)
    BY <1>1, <1>4, <1>5, Places DEF LastSent, LInv
  <1>7. InOrder(f)'
    BY <1>1, <1>2, <1>3, <1>4, <1>5 DEF InOrder
  <1>8. QED BY <1>6, <1>7

LEMMA ForwardOK ==
    ASSUME LInv, NEW f \in Followers, Forward(f)
    PROVE  InOrder(f)' /\ LastSent(f)' = LastSent(f)
  <1> DEFINE m == [line |-> fwd[f].msg, dropped |-> fwd[f].drops]
  <1>1. /\ msgChan'[f] = msgChan[f] /\ fwd[f].at = "send" /\ seen'[f] = seen[f]
        /\ fwd'[f] = [at |-> "recv", msg |-> 0, drops |-> 0]
        /\ writeChan'[f] = Append(writeChan[f], m)
    BY DEF Forward, LInv, Typed, socketVars
  <1>2. Consecutive(msgChan[f], LastTaken(f)) /\ Chain(writeChan[f], seen[f])
        /\ fwd[f].msg = LastPut(f) + fwd[f].drops + 1
    BY <1>1 DEF LInv, InOrder
  <1>3. m \in Messages /\ m.line = 1 + m.dropped + LastOf(writeChan[f], seen[f])
        /\ LastTaken(f) = fwd[f].msg
    BY <1>1, <1>2, Places DEF Messages, LastTaken, LInv
  <1>4. Chain(writeChan'[f], seen'[f]) /\ LastOf(writeChan'[f], seen'[f]) = fwd[f].msg
    BY <1>1, <1>2, <1>3, Places, ChainAppend DEF LInv
  <1>5. LastPut(f)' = fwd[f].msg
    BY <1>4 DEF LastPut, LastOf
  <1>6. LastTaken(f)' = LastTaken(f)
    BY <1>1, <1>3, <1>5, Places DEF LastTaken, LInv
  <1>7. LastSent(f)' = LastSent(f)
    BY <1>1, <1>6 DEF LastSent
  <1>8. InOrder(f)'
    BY <1>1, <1>2, <1>4, <1>6 DEF InOrder
  <1>9. QED BY <1>7, <1>8

LEMMA DropOK ==
    ASSUME LInv, NEW f \in Followers, Drop(f)
    PROVE  InOrder(f)' /\ LastSent(f)' = LastSent(f)
  <1>1. /\ msgChan'[f] = msgChan[f] /\ fwd[f].at = "send" /\ seen'[f] = seen[f]
        /\ fwd'[f] = [at |-> "recv", msg |-> 0, drops |-> fwd[f].drops + 1]
        /\ writeChan'[f] = writeChan[f]
    BY DEF Drop, LInv, Typed, socketVars
  <1>2. LastPut(f)' = LastPut(f)
    BY <1>1 DEF LastPut
  <1>3. LastTaken(f)' = LastTaken(f)
    BY <1>1, <1>2, Places DEF LastTaken, LInv
  <1>4. LastSent(f)' = LastSent(f)
    BY <1>1, <1>3 DEF LastSent
  <1>5. QED BY <1>1, <1>3, <1>4 DEF InOrder, LInv

LEMMA FollowerExitOK ==
    ASSUME LInv, NEW f \in Followers, FollowerExit(f)
    PROVE  InOrder(f)' /\ LastSent(f)' = LastSent(f)
  <1>1. /\ msgChan'[f] = msgChan[f] /\ fwd[f].at = "recv" /\ seen'[f] = seen[f]
        /\ fwd'[f].at = "done" /\ fwd'[f].drops = fwd[f].drops /\ writeChan'[f] = writeChan[f]
    BY DEF FollowerExit, LInv, Typed, socketVars
  <1>2. LastPut(f)' = LastPut(f)
    BY <1>1 DEF LastPut
  <1>3. LastTaken(f)' = LastTaken(f)
    BY <1>1, <1>2 DEF LastTaken
  <1>4. LastSent(f)' = LastSent(f)
    BY <1>1, <1>3 DEF LastSent
  <1>5. QED BY <1>1, <1>3, <1>4 DEF InOrder, LInv

LEMMA TakeMessageOK ==
    ASSUME LInv, NEW f \in Followers, TakeMessage(f)
    PROVE  InOrder(f)' /\ LastSent(f)' = LastSent(f)
  <1>1. /\ msgChan'[f] = msgChan[f] /\ fwd'[f] = fwd[f] /\ writeChan[f] # <<>>
        /\ writeChan'[f] = Tail(writeChan[f]) /\ seen'[f] = Head(writeChan[f]).line
    BY DEF TakeMessage, LInv, Typed
  <1>2. Chain(writeChan[f], seen[f])
    BY DEF LInv, InOrder
  <1>3. /\ Chain(writeChan'[f], seen'[f])
        /\ LastOf(writeChan'[f], seen'[f]) = LastOf(writeChan[f], seen[f])
    BY <1>1, <1>2, Places, ChainTail DEF LInv
  <1>4. LastPut(f)' = LastPut(f)
    BY <1>3 DEF LastPut, LastOf
  <1>5. LastTaken(f)' = LastTaken(f)
    BY <1>1, <1>4 DEF LastTaken
  <1>6. LastSent(f)' = LastSent(f)
    BY <1>1, <1>5 DEF LastSent
  <1>7. QED BY <1>1, <1>3, <1>4, <1>5, <1>6 DEF InOrder, LInv

(* run sends the next line. *)
LEMMA SendOK ==
    ASSUME LInv, NEW f \in Followers, NEW msg, msg = LastSent(f) + 1, SendTo(f, msg),
           UNCHANGED <<writeChan, fwd, seen>>
    PROVE  InOrder(f)' /\ LastSent(f)' = msg /\ msgChan' \in [Followers -> Seq(Nat)]
  <1>1. msgChan'[f] = Append(msgChan[f], msg) /\ msg \in Nat
    <2>1. LastSent(f) \in Nat
      BY Places DEF LInv
    <2>2. QED BY <2>1 DEF SendTo, LInv, Typed
  <1>2. LastPut(f)' = LastPut(f) /\ LastTaken(f)' = LastTaken(f)
    BY DEF LastPut, LastTaken
  <1>3. msg = LastTaken(f) + Len(msgChan[f]) + 1 /\ Consecutive(msgChan[f], LastTaken(f))
    BY DEF LastSent, LInv, InOrder
  <1>4. Consecutive(msgChan'[f], LastTaken(f)')
    BY <1>1, <1>2, <1>3, Places, ConsecutiveAppend DEF LInv
  <1>5. Len(msgChan'[f]) = Len(msgChan[f]) + 1
    BY <1>1, Places DEF LInv
  <1>6. LastSent(f)' = msg
    BY <1>2, <1>3, <1>5, Places DEF LastSent, LInv
  <1>7. msgChan' \in [Followers -> Seq(Nat)]
    BY <1>1, Places DEF SendTo, LInv, Typed
  <1>8. InOrder(f)'
    BY <1>2, <1>4 DEF InOrder, LInv
  <1>9. QED BY <1>6, <1>7, <1>8

-----------------------------------------------------------------------------
(* Each kind of step. *)

LEMMA FollowerTyped ==
    ASSUME LInv, NEW f \in Followers, FollowerStep(f) \/ TakeMessage(f)
    PROVE  Typed'
  <1>1. CASE Receive(f)
    <2>1. Head(msgChan[f]) \in Nat /\ Tail(msgChan[f]) \in Seq(Nat)
      BY <1>1 DEF Receive, LInv, Typed
    <2>2. msgChan' \in [Followers -> Seq(Nat)]
      BY <1>1, <2>1 DEF Receive, LInv, Typed
    <2>3. fwd' \in [Followers -> [at: {"recv", "send", "done"}, msg: Nat, drops: Nat]]
      BY <1>1, <2>1 DEF Receive, LInv, Typed
    <2>4. QED BY <1>1, <2>2, <2>3 DEF Receive, LInv, Typed, runVars, socketVars
  <1>2. CASE Forward(f)
    <2>1. [line |-> fwd[f].msg, dropped |-> fwd[f].drops] \in Messages
      BY DEF LInv, Typed, Messages
    <2>2. writeChan' \in [Followers -> Seq(Messages)]
      BY <1>2, <2>1 DEF Forward, LInv, Typed
    <2>3. fwd' \in [Followers -> [at: {"recv", "send", "done"}, msg: Nat, drops: Nat]]
      BY <1>2 DEF Forward, LInv, Typed
    <2>4. QED BY <1>2, <2>2, <2>3 DEF Forward, LInv, Typed, runVars, socketVars
  <1>3. CASE Drop(f)
    <2>1. fwd' \in [Followers -> [at: {"recv", "send", "done"}, msg: Nat, drops: Nat]]
      BY <1>3 DEF Drop, LInv, Typed
    <2>2. QED BY <1>3, <2>1 DEF Drop, LInv, Typed, runVars, socketVars
  <1>4. CASE FollowerExit(f)
    <2>1. fwd' \in [Followers -> [at: {"recv", "send", "done"}, msg: Nat, drops: Nat]]
      <3>1. [fwd[f] EXCEPT !.at = "done"] \in [at: {"recv", "send", "done"}, msg: Nat, drops: Nat]
        BY DEF LInv, Typed
      <3>2. fwd' = [fwd EXCEPT ![f] = [fwd[f] EXCEPT !.at = "done"]]
        BY <1>4 DEF FollowerExit
      <3>3. QED BY <3>1, <3>2 DEF LInv, Typed
    <2>2. QED BY <1>4, <2>1 DEF FollowerExit, LInv, Typed, runVars, socketVars
  <1>5. CASE TakeMessage(f)
    <2>1. Head(writeChan[f]) \in Messages /\ Tail(writeChan[f]) \in Seq(Messages)
      BY <1>5 DEF TakeMessage, LInv, Typed
    <2>2. writeChan' \in [Followers -> Seq(Messages)] /\ seen' \in [Followers -> Nat]
      BY <1>5, <2>1 DEF TakeMessage, LInv, Typed, Messages
    <2>3. writer' \in [Followers -> {"off", "range", "write", "close", "closing", "done"}]
      BY <1>5 DEF TakeMessage, LInv, Typed
    <2>4. QED BY <1>5, <2>2, <2>3 DEF TakeMessage, LInv, Typed, runVars
  <1>6. QED BY <1>1, <1>2, <1>3, <1>4, <1>5 DEF FollowerStep

LEMMA FollowerNext ==
    ASSUME LInv, NEW f \in Followers, FollowerStep(f) \/ TakeMessage(f)
    PROVE  LInv'
  <1>1. UNCHANGED <<run, history, subscribers, msgClosed, conn, reader>>
    BY DEF FollowerStep, Receive, Forward, Drop, FollowerExit, TakeMessage, runVars, socketVars
  <1>2. InOrder(f)' /\ LastSent(f)' = LastSent(f)
    BY ReceiveOK, ForwardOK, DropOK, FollowerExitOK, TakeMessageOK DEF FollowerStep
  <1>3. \A g \in Followers \ {f} : Quiet(g) /\ writer'[g] = writer[g]
    BY DEF FollowerStep, Receive, Forward, Drop, FollowerExit, TakeMessage, Quiet, socketVars,
           LInv, Typed
  <1>4. ~Subscribed(f) => writer'[f] = writer[f]
    BY DEF FollowerStep, Receive, Forward, Drop, FollowerExit, TakeMessage, socketVars,
           LInv, UpToDate, Fresh
  <1>5. ASSUME NEW g \in Followers
        PROVE  InOrder(g)' /\ UpToDate(g)'
    <2>1. InOrder(g)' /\ LastSent(g)' = LastSent(g)
      BY <1>2, <1>3, StaysInOrder DEF LInv
    <2>2. Subscribed(g)' <=> Subscribed(g)
      BY <1>1 DEF Subscribed
    <2>3. ~Subscribed(g) => writer'[g] = writer[g]
      BY <1>3, <1>4
    <2>4. QED BY <1>1, <2>1, <2>2, <2>3, StaysUpToDate DEF LInv
  <1>6. RunOK'
    BY <1>1 DEF LInv, RunOK
  <1>7. QED BY <1>5, <1>6, FollowerTyped DEF LInv

(* Steps that leave the lines alone: the callers, the peers and the two        *)
(* websocket goroutines.                                                       *)
LEMMA QuietNext ==
    ASSUME LInv, UNCHANGED <<msgChan, writeChan, fwd, seen, run, history, subscribers, msgClosed>>,
           Typed',
           \A f \in Followers :
              /\ Subscribed(f) => Subscribed(f)'
              /\ ~Subscribed(f) => reader'[f] = reader[f] /\ writer'[f] = writer[f]
    PROVE  LInv'
  <1>1. ASSUME NEW f \in Followers
        PROVE  InOrder(f)' /\ UpToDate(f)'
    <2>1. Quiet(f)
      BY DEF Quiet
    <2>2. InOrder(f)' /\ LastSent(f)' = LastSent(f)
      BY <2>1, StaysInOrder DEF LInv
    <2>3. QED BY <2>2, StaysUpToDate DEF LInv
  <1>2. RunOK'
    BY DEF LInv, RunOK
  <1>3. QED BY <1>1, <1>2 DEF LInv

LEMMA SocketNext ==
    ASSUME LInv,
           \/ \E w \in Writers : Write(w)
           \/ \E f \in Followers : \/ Connect(f) \/ PeerClose(f) \/ ReadError(f)
                                   \/ WriteOk(f) \/ WriteError(f) \/ WriterExit(f)
    PROVE  LInv'
  <1>1. CASE \E w \in Writers : Write(w)
    <2>1. UNCHANGED <<runVars, followerVars, socketVars>>
      BY <1>1 DEF Write
    <2>2. Typed'
      BY <2>1 DEF runVars, followerVars, socketVars, LInv, Typed
    <2>3. QED BY <2>1, <2>2, QuietNext DEF runVars, followerVars, socketVars, Subscribed
  <1>2. ASSUME NEW f \in Followers,
               \/ Connect(f) \/ PeerClose(f) \/ ReadError(f)
               \/ WriteOk(f) \/ WriteError(f) \/ WriterExit(f)
        PROVE  LInv'
    <2>1. UNCHANGED <<msgChan, writeChan, fwd, seen, run, history, subscribers, msgClosed>>
      BY <1>2 DEF Connect, PeerClose, ReadError, WriteOk, WriteError, WriterExit, runVars, followerVars
    <2>2. /\ conn' \in [Followers -> {"none", "subscribing", "open", "closed"}]
          /\ reader' \in [Followers -> {"off", "read", "close", "done"}]
          /\ writer' \in [Followers -> {"off", "range", "write", "close", "closing", "done"}]
      BY <1>2 DEF Connect, PeerClose, ReadError, WriteOk, WriteError, WriterExit, LInv, Typed
    <2>3. Typed'
      BY <2>1, <2>2 DEF LInv, Typed
    <2>4. ASSUME NEW g \in Followers
          PROVE  /\ Subscribed(g) => Subscribed(g)'
                 /\ ~Subscribed(g) => reader'[g] = reader[g] /\ writer'[g] = writer[g]
      <3>1. CASE g # f
        BY <1>2, <3>1 DEF Connect, PeerClose, ReadError, WriteOk, WriteError, WriterExit,
                          LInv, Typed, Subscribed
      <3>2. CASE g = f
        <4>1. ~Subscribed(f) => reader[f] = "off" /\ writer[f] = "off"
          BY DEF LInv, UpToDate, Fresh
        <4>2. QED BY <1>2, <3>2, <4>1 DEF Connect, PeerClose, ReadError, WriteOk, WriteError,
                                          WriterExit, LInv, Typed, Subscribed
      <3>3. QED BY <3>1, <3>2
    <2>5. QED BY <2>1, <2>3, <2>4, QuietNext
  <1>3. QED BY <1>1, <1>2

(* run's own steps. *)
LEMMA SelectNext ==
    ASSUME LInv, (\E w \in Writers : TakeLine(w)) \/ Reselect
    PROVE  LInv'
  <1>1. UNCHANGED <<subscribers, followerVars, socketVars>>
    BY DEF TakeLine, Reselect
  <1>2. /\ history' \in Nat
        /\ run' \in [at: {"select", "distribute", "replay"}, msg: Nat, to: SUBSET Followers]
    BY DEF TakeLine, Reselect, LInv, Typed
  <1>3. Typed'
    BY <1>1, <1>2 DEF LInv, Typed, followerVars, socketVars
  <1>4. RunOK'
    BY <1>1, <1>2 DEF TakeLine, Reselect, Selecting, LoopDone, LInv, RunOK, Typed
  <1>5. ASSUME NEW f \in Followers
        PROVE  InOrder(f)' /\ UpToDate(f)'
    <2>1. Quiet(f)
      BY <1>1 DEF Quiet, followerVars, socketVars
    <2>2. InOrder(f)' /\ LastSent(f)' = LastSent(f) /\ LastSent(f) \in Nat
      BY <2>1, StaysInOrder, Places DEF LInv
    <2>3. f \in subscribers =>
             IF f \in run'.to THEN LastSent(f) + 1 = run'.msg ELSE LastSent(f) = history'
      <3>1. ASSUME NEW w \in Writers, TakeLine(w), f \in subscribers
            PROVE  f \in run'.to /\ LastSent(f) + 1 = run'.msg
        BY <3>1 DEF TakeLine, Selecting, LInv, RunOK, UpToDate
      <3>2. ASSUME Reselect, f \in subscribers
            PROVE  f \notin run'.to /\ LastSent(f) = history'
        <4>1. run'.to = {} /\ history' = history
          BY <3>2 DEF Reselect
        <4>2. CASE f \in run.to
          <5>1. run.at = "replay" /\ run.msg > history /\ run.msg <= history + 1
            BY <3>2, <4>2 DEF Reselect, LoopDone, LInv, RunOK
          <5>2. LastSent(f) + 1 = run.msg
            BY <3>2, <4>2 DEF LInv, UpToDate
          <5>3. QED BY <2>2, <4>1, <5>1, <5>2 DEF LInv, Typed
        <4>3. CASE f \notin run.to
          BY <3>2, <4>1, <4>3 DEF LInv, UpToDate
        <4>4. QED BY <4>1, <4>2, <4>3
      <3>3. QED BY <3>1, <3>2
    <2>4. UpToDate(f)'
      BY <1>1, <2>2, <2>3 DEF LInv, UpToDate, Subscribed, Fresh, followerVars, socketVars
    <2>5. QED BY <2>2, <2>4
  <1>6. QED BY <1>3, <1>4, <1>5 DEF LInv

LEMMA SendNext ==
    ASSUME LInv, NEW f \in Followers, Distribute(f) \/ Replay(f)
    PROVE  LInv'
  <1>1. /\ f \in run.to /\ SendTo(f, run.msg) /\ f \in subscribers /\ run.msg \in Nat
        /\ UNCHANGED <<history, subscribers, msgClosed, fwd, writeChan, socketVars>>
    BY DEF Distribute, Replay, LInv, RunOK, Typed
  <1>2. LastSent(f) + 1 = run.msg
    BY <1>1 DEF LInv, UpToDate
  <1>3. InOrder(f)' /\ LastSent(f)' = run.msg /\ msgChan' \in [Followers -> Seq(Nat)]
    BY <1>1, <1>2, SendOK DEF socketVars
  <1>4. /\ run' \in [at: {"select", "distribute", "replay"}, msg: Nat, to: SUBSET Followers]
        /\ \/ /\ run.at = "distribute" /\ run'.at = "distribute" /\ run.msg = history
              /\ run'.msg = run.msg /\ run'.to = run.to \ {f}
           \/ /\ run.at = "replay" /\ run'.at = "replay" /\ run.msg <= history
              /\ run'.msg = run.msg + 1 /\ run'.to = run.to
    <2>1. CASE Distribute(f)
      <3>1. run' = [run EXCEPT !.to = run.to \ {f}] /\ run.at = "distribute" /\ run.msg = history
        BY <2>1 DEF Distribute, LInv, RunOK
      <3>2. run.to \ {f} \in SUBSET Followers
        BY DEF LInv, Typed
      <3>3. QED BY <3>1, <3>2 DEF LInv, Typed
    <2>2. CASE Replay(f)
      <3>1. run' = [run EXCEPT !.msg = run.msg + 1] /\ run.at = "replay" /\ run.msg <= history
        BY <2>2 DEF Replay
      <3>2. run.msg + 1 \in Nat
        BY <1>1
      <3>3. QED BY <3>1, <3>2 DEF LInv, Typed
    <2>3. QED BY <2>1, <2>2
  <1>5. Typed'
    BY <1>1, <1>3, <1>4 DEF LInv, Typed, socketVars
  <1>6. history \in Nat
    BY DEF LInv, Typed
  <1>7. RunOK'
    BY <1>1, <1>4, <1>6 DEF LInv, RunOK
  <1>8. IF f \in run'.to THEN run.msg + 1 = run'.msg ELSE run.msg = history
    BY <1>1, <1>4
  <1>9. ASSUME NEW g \in Followers \ {f}
        PROVE  (g \in run'.to <=> g \in run.to) /\ (g \in run.to => run'.msg = run.msg)
    BY <1>1, <1>4 DEF LInv, RunOK
  <1>10. ASSUME NEW g \in Followers
        PROVE  InOrder(g)' /\ UpToDate(g)'
    <2>1. CASE g = f
      <3>1. Subscribed(f) /\ Subscribed(f)' /\ ~msgClosed[f]
        BY <1>1 DEF LInv, UpToDate, Subscribed, Fresh, socketVars
      <3>2. UpToDate(f)'
        BY <1>1, <1>3, <1>8, <3>1 DEF UpToDate
      <3>3. QED BY <1>3, <2>1, <3>2
    <2>2. CASE g # f
      <3>1. Quiet(g)
        BY <1>1, <2>2 DEF Quiet, SendTo, socketVars, LInv, Typed
      <3>2. InOrder(g)' /\ LastSent(g)' = LastSent(g)
        BY <3>1, StaysInOrder DEF LInv
      <3>3. UpToDate(g)'
        BY <1>1, <1>9, <2>2, <3>2 DEF LInv, UpToDate, Subscribed, Fresh, socketVars
      <3>4. QED BY <3>2, <3>3
    <2>3. QED BY <2>1, <2>2
  <1>11. QED BY <1>5, <1>7, <1>10 DEF LInv

LEMMA SubscribeNext ==
    ASSUME LInv, NEW f \in Followers, Subscribe(f)
    PROVE  LInv'
  <1>1. /\ conn[f] = "subscribing" /\ run.to = {} /\ subscribers' = subscribers \cup {f}
        /\ run' = [at |-> "replay", msg |-> 1, to |-> {f}]
        /\ UNCHANGED <<history, followerVars, seen>>
    BY DEF Subscribe, Selecting, LInv, RunOK
  <1>2. /\ conn' \in [Followers -> {"none", "subscribing", "open", "closed"}] /\ conn'[f] = "open"
        /\ reader' \in [Followers -> {"off", "read", "close", "done"}]
        /\ writer' \in [Followers -> {"off", "range", "write", "close", "closing", "done"}]
        /\ \A g \in Followers \ {f} :
              conn'[g] = conn[g] /\ reader'[g] = reader[g] /\ writer'[g] = writer[g]
    BY DEF Subscribe, LInv, Typed
  <1>3. Typed'
    BY <1>1, <1>2 DEF LInv, Typed, followerVars
  <1>4. RunOK'
    BY <1>1 DEF LInv, RunOK, Typed
  <1>5. ASSUME NEW g \in Followers
        PROVE  InOrder(g)' /\ UpToDate(g)'
    <2>1. Quiet(g)
      BY <1>1 DEF Quiet, followerVars
    <2>2. InOrder(g)' /\ LastSent(g)' = LastSent(g)
      BY <2>1, StaysInOrder DEF LInv
    <2>3. CASE g = f
      <3>1. Fresh(f)
        BY <1>1 DEF LInv, UpToDate, Subscribed
      <3>2. Subscribed(f)' /\ ~msgClosed'[f] /\ LastSent(f)' = 0
        BY <1>1, <1>2, <2>2, <2>3, <3>1 DEF Subscribed, Fresh, followerVars
      <3>3. UpToDate(f)'
        BY <1>1, <3>2 DEF UpToDate
      <3>4. QED BY <2>2, <2>3, <3>3
    <2>4. CASE g # f
      <3>1. g \in subscribers' <=> g \in subscribers
        BY <1>1, <2>4
      <3>2. UpToDate(g)'
        BY <1>1, <1>2, <2>2, <2>4, <3>1 DEF LInv, UpToDate, Subscribed, Fresh, followerVars
      <3>3. QED BY <2>2, <3>2
    <2>5. QED BY <2>3, <2>4
  <1>6. QED BY <1>3, <1>4, <1>5 DEF LInv

LEMMA UnsubscribeNext ==
    ASSUME LInv, NEW f \in Followers, UnsubscribeReader(f) \/ UnsubscribeWriter(f)
    PROVE  LInv'
  <1>1. /\ run.to = {} /\ run.at = "select" /\ subscribers' = subscribers \ {f}
        /\ msgClosed' = [msgClosed EXCEPT ![f] = TRUE]
        /\ UNCHANGED <<run, history, msgChan, fwd, writeChan, seen>>
    BY DEF UnsubscribeReader, UnsubscribeWriter, Unsubscribe, Selecting, LInv, RunOK
  <1>2. /\ conn' \in [Followers -> {"none", "subscribing", "open", "closed"}]
        /\ reader' \in [Followers -> {"off", "read", "close", "done"}]
        /\ writer' \in [Followers -> {"off", "range", "write", "close", "closing", "done"}]
    BY DEF UnsubscribeReader, UnsubscribeWriter, LInv, Typed
  <1>3. Typed'
    BY <1>1, <1>2 DEF LInv, Typed
  <1>4. RunOK'
    BY <1>1 DEF LInv, RunOK
  <1>5. Subscribed(f) /\ Subscribed(f)'
    <2>1. reader[f] # "off" \/ writer[f] # "off"
      BY DEF UnsubscribeReader, UnsubscribeWriter
    <2>2. Subscribed(f)
      BY <2>1 DEF LInv, UpToDate, Fresh
    <2>3. QED BY <2>2 DEF UnsubscribeReader, UnsubscribeWriter, Subscribed, LInv, Typed
  <1>6. ASSUME NEW g \in Followers
        PROVE  InOrder(g)' /\ UpToDate(g)'
    <2>1. Quiet(g)
      BY <1>1 DEF Quiet
    <2>2. InOrder(g)' /\ LastSent(g)' = LastSent(g)
      BY <2>1, StaysInOrder DEF LInv
    <2>3. CASE g = f
      BY <1>1, <1>5, <2>2, <2>3 DEF UpToDate
    <2>4. CASE g # f
      <3>1. /\ conn'[g] = conn[g] /\ reader'[g] = reader[g] /\ writer'[g] = writer[g]
            /\ msgClosed'[g] = msgClosed[g] /\ (g \in subscribers' <=> g \in subscribers)
        BY <1>1, <2>4 DEF UnsubscribeReader, UnsubscribeWriter, LInv, Typed
      <3>2. UpToDate(g)'
        BY <1>1, <2>2, <3>1 DEF LInv, UpToDate, Subscribed, Fresh
      <3>3. QED BY <2>2, <3>2
    <2>5. QED BY <2>2, <2>3, <2>4
  <1>7. QED BY <1>3, <1>4, <1>6 DEF LInv

LEMMA LogsInit == Init => LInv
  <1> SUFFICES ASSUME Init PROVE LInv
    OBVIOUS
  <1>1. <<>> \in Seq(Nat) /\ <<>> \in Seq(Messages)
    OBVIOUS
  <1>2. Typed
    BY <1>1 DEF Init, Typed
  <1>3. ASSUME NEW f \in Followers
        PROVE  InOrder(f) /\ UpToDate(f)
    <2>1. /\ writeChan[f] = <<>> /\ msgChan[f] = <<>> /\ seen[f] = 0 /\ fwd[f].at = "recv"
          /\ fwd[f].drops = 0 /\ conn[f] = "none" /\ ~msgClosed[f] /\ subscribers = {}
          /\ reader[f] = "off" /\ writer[f] = "off"
      BY <1>3 DEF Init
    <2>2. LastPut(f) = 0 /\ LastTaken(f) = 0
      BY <2>1 DEF LastPut, LastTaken
    <2>3. LastSent(f) = 0
      BY <2>1, <2>2 DEF LastSent
    <2>4. Chain(writeChan[f], seen[f]) /\ Consecutive(msgChan[f], LastTaken(f))
      BY <2>1 DEF Chain, Consecutive
    <2>5. QED BY <2>1, <2>3, <2>4 DEF InOrder, UpToDate, Fresh, Subscribed
  <1>4. RunOK
    BY DEF Init, RunOK
  <1>5. QED BY <1>2, <1>3, <1>4 DEF LInv

LEMMA LogsNext == LInv /\ [Next]_vars => LInv'
  <1> SUFFICES ASSUME LInv, [Next]_vars PROVE LInv'
    OBVIOUS
  <1>1. CASE UNCHANGED vars
    <2>1. UNCHANGED <<runVars, followerVars, socketVars>>
      BY <1>1 DEF vars
    <2>2. Typed'
      BY <2>1 DEF runVars, followerVars, socketVars, LInv, Typed
    <2>3. QED BY <2>1, <2>2, QuietNext DEF runVars, followerVars, socketVars, Subscribed
  <1>2. CASE RunStep
    BY <1>2, SelectNext, SendNext, SubscribeNext, UnsubscribeNext DEF RunStep
  <1>3. CASE \E f \in Followers : FollowerStep(f) \/ TakeMessage(f)
    BY <1>3, FollowerNext
  <1>4. CASE \/ \E w \in Writers : Write(w)
             \/ \E f \in Followers : \/ Connect(f) \/ PeerClose(f) \/ ReadError(f)
                                     \/ WriteOk(f) \/ WriteError(f) \/ WriterExit(f)
    BY <1>4, SocketNext
  <1>5. QED BY <1>1, <1>2, <1>3, <1>4 DEF Next, SocketStep

(* However slow the peers are, and whenever followers come and go, a message   *)
(* that reaches a websocket tells exactly how many lines were dropped before.  *)
THEOREM DropsCounted == Spec => []DropsExact
  <1>1. LInv => DropsExact
    BY DEF LInv, InOrder, Chain, DropsExact
  <1>2. QED BY <1>1, LogsInit, LogsNext, PTL DEF Spec

(* run sends to subscribers, whose channels are open: an unsubscription waits  *)
(* for the end of run's loop.                                                  *)
THEOREM OpenWhenSending == Spec => []NoSendOnClosed
  <1>1. LInv => NoSendOnClosed
    BY DEF LInv, RunOK, UpToDate, NoSendOnClosed, Typed
  <1>2. QED BY <1>1, LogsInit, LogsNext, PTL DEF Spec

=============================================================================
