------------------------------- MODULE UdpSend -------------------------------
(***************************************************************************)
(* The UDP sender worker (udp.Send) and its clock (udp.RateClock).         *)
(*                                                                         *)
(* Three goroutines share the clock's fields without a lock: RateClock.run *)
(* ticks; Send.Run starts the clock, receives its ticks, sends a packet    *)
(* for each, reports the clock's counter and carries out the               *)
(* configurations pushed to it by RateClock.Set; and worker.stopping calls *)
(* RateClock.Stop on a signal, which may come before Run does.             *)
(* Every access to rate, stop, offset and count is a step of its own.  How *)
(* long run sleeps for the rate is left out: a tick may come at any time.  *)
(***************************************************************************)
EXTENDS Naturals

CONSTANTS Counts,       \* the packet counts a configuration may ask for
          Rates,        \* and the rates
          MaxPackets,   \* bound on the packets sent
          MaxPushes,    \* bound on the configurations pushed
          MaxReports    \* bound on the statistics reported

ASSUME UdpSendAssumption ==
    /\ Counts \subseteq Nat /\ Rates \subseteq Nat
    /\ MaxPackets \in Nat /\ MaxPushes \in Nat /\ MaxReports \in Nat

VARIABLES
    rate, stop, offset,  \* RateClock's fields; stop = 0 is "never"
    count,               \* RateClock.stats.Count
    clock,               \* RateClock.run: [at, seen], the field it has read
    config,              \* Send.config: [rate, count]
    send,                \* Send.Run: [at, config], the configuration it applies
    stopper,             \* worker.stopping: [at, seen], the offset it has read
    sent,                \* history: packets sent
    sincePush,           \* history: packets sent since Set last returned
    sinceStop,           \* history: packets sent since Stop wrote stop, and no Set since
    overlapped,          \* history: a Set, of Start or of a push, ran while Stop did, or after it
    pushes, reports

clockFields == <<rate, stop, offset>>
histories == <<sent, sincePush, sinceStop, overlapped>>
vars == <<clockFields, count, clock, config, send, stopper, histories, pushes, reports>>

ConfigType == [rate: Rates, count: Counts]

Init ==
    /\ config \in ConfigType
    /\ rate = 0 /\ stop = 0 /\ offset = 0 /\ count = 0
    /\ clock = [at |-> "new", seen |-> 0]
    /\ send = [at |-> "new", config |-> config]
    /\ stopper = [at |-> "wait", seen |-> 0]
    /\ sent = 0 /\ sincePush = 0 /\ sinceStop = 0 /\ overlapped = FALSE
    /\ pushes = 0 /\ reports = 0

-----------------------------------------------------------------------------
(* RateClock.run. *)

ClockGoes(at) == clock' = [clock EXCEPT !.at = at]
ClockOnly == UNCHANGED <<clockFields, config, send, stopper, histories, pushes, reports>>

(* The loop's condition reads stop, and unless it is 0, offset and stop again. *)
CheckForever ==
    /\ clock.at = "check" /\ stop = 0
    /\ ClockGoes("rate")
    /\ ClockOnly /\ UNCHANGED count

CheckNonzero ==
    /\ clock.at = "check" /\ stop # 0
    /\ ClockGoes("compare")
    /\ ClockOnly /\ UNCHANGED count

(* offset < stop reads its operands one after the other, in either order. *)
ReadOperand ==
    /\ clock.at = "compare"
    /\ clock' \in {[at |-> "haveOffset", seen |-> offset], [at |-> "haveStop", seen |-> stop]}
    /\ ClockOnly /\ UNCHANGED count

More_Inclusive(position, limit) == position <= limit
More_Differs(position, limit) == position # limit
More(position, limit) == position < limit

Compared(more) == clock' = [at |-> IF more THEN "rate" ELSE "closed", seen |-> 0]
Compare ==
    /\ \/ clock.at = "haveOffset" /\ Compared(More(clock.seen, stop))
       \/ clock.at = "haveStop" /\ Compared(More(offset, clock.seen))
    /\ ClockOnly /\ UNCHANGED count

(* rate is tested first and divided by afterwards. *)
TestRate ==
    /\ clock.at = "rate"
    /\ ClockGoes(IF rate = 0 THEN "tick" ELSE "divide")
    /\ ClockOnly /\ UNCHANGED count

Divide ==
    /\ clock.at = "divide"
    /\ ClockGoes(IF rate = 0 THEN "panic" ELSE "tick")
    /\ ClockOnly /\ UNCHANGED count

(* stats.Count++ and offset++ read and write. *)
ReadCount ==
    /\ clock.at = "readCount"
    /\ clock' = [at |-> "writeCount", seen |-> count]
    /\ ClockOnly /\ UNCHANGED count

WriteCount ==
    /\ clock.at = "writeCount"
    /\ count' = clock.seen + 1
    /\ ClockGoes("readOffset")
    /\ ClockOnly

ReadOffset ==
    /\ clock.at = "readOffset"
    /\ clock' = [at |-> "writeOffset", seen |-> offset]
    /\ ClockOnly /\ UNCHANGED count

Advanced == clock.seen + 1
WriteOffset ==
    /\ clock.at = "writeOffset"
    /\ offset' = Advanced
    /\ ClockGoes("check")
    /\ UNCHANGED <<rate, stop, count, config, send, stopper, histories, pushes, reports>>

-----------------------------------------------------------------------------
(* Send.Run. *)

(* RateClock.Start sets the fields, and then the clock's goroutine begins. *)
Begin ==
    /\ send.at = "new"
    /\ send' = [send EXCEPT !.at = "setRate"]
    /\ UNCHANGED <<clockFields, count, clock, config, stopper, histories, pushes, reports>>

(* A tick passes on the unbuffered rateChan, and its packet is sent. *)
Tick ==
    /\ clock.at = "tick" /\ send.at = "select"
    /\ sent < MaxPackets + IF stopper.at = "done" THEN 2 ELSE 0
    /\ sent' = sent + 1
    /\ sincePush' = sincePush + 1
    /\ sinceStop' = IF stopper.at = "done" THEN sinceStop + 1 ELSE 0
    /\ ClockGoes("readCount")
    /\ UNCHANGED <<clockFields, count, config, send, stopper, overlapped, pushes, reports>>

(* A failing send, the closed rateChan, or a configChan that register has    *)
(* closed ends Run.                                                           *)
SendError ==
    /\ clock.at = "tick" /\ send.at = "select"
    /\ ClockGoes("readCount")
    /\ send' = [send EXCEPT !.at = "done"]
    /\ UNCHANGED <<clockFields, count, config, stopper, histories, pushes, reports>>

Finished ==
    /\ clock.at = "closed" /\ send.at = "select"
    /\ send' = [send EXCEPT !.at = "done"]
    /\ UNCHANGED <<clockFields, count, clock, config, stopper, histories, pushes, reports>>

ConfigClosed ==
    /\ send.at = "select"
    /\ send' = [send EXCEPT !.at = "done"]
    /\ UNCHANGED <<clockFields, count, clock, config, stopper, histories, pushes, reports>>

(* statsChan <- stats copies the counter, the next statement resets it. *)
Report ==
    /\ send.at = "select" /\ reports < MaxReports
    /\ reports' = reports + 1
    /\ send' = [send EXCEPT !.at = "reset"]
    /\ UNCHANGED <<clockFields, count, clock, config, stopper, histories, pushes>>

ResetStats ==
    /\ send.at = "reset"
    /\ count' = 0
    /\ send' = [send EXCEPT !.at = "select"]
    /\ UNCHANGED <<clockFields, clock, config, stopper, histories, pushes, reports>>

(* configPush: a push that changes neither rate nor count leaves the clock alone. *)
Changes(pushed) == pushed # config
Push(pushed) ==
    /\ send.at = "select" /\ pushes < MaxPushes
    /\ pushes' = pushes + 1
    /\ send' = IF Changes(pushed) THEN [at |-> "setRate", config |-> pushed] ELSE send
    /\ UNCHANGED <<clockFields, count, clock, config, stopper, histories, reports>>

(* RateClock.Set writes rate, then stop, then offset. *)
SetRate ==
    /\ send.at = "setRate"
    /\ rate' = send.config.rate
    /\ send' = [send EXCEPT !.at = "setStop"]
    /\ overlapped' = (stopper.at # "wait")
    /\ UNCHANGED <<stop, offset, count, clock, config, stopper, sent, sincePush, sinceStop,
                   pushes, reports>>

SetStop ==
    /\ send.at = "setStop"
    /\ stop' = send.config.count
    /\ send' = [send EXCEPT !.at = "setOffset"]
    /\ UNCHANGED <<rate, offset, count, clock, config, stopper, histories, pushes, reports>>

SetOffset ==
    /\ send.at = "setOffset"
    /\ offset' = 0
    /\ config' = send.config
    /\ send' = [send EXCEPT !.at = "select"]
    /\ clock' = IF clock.at = "new" THEN [clock EXCEPT !.at = "check"] ELSE clock
    /\ sincePush' = 0
    /\ UNCHANGED <<rate, stop, count, stopper, sent, sinceStop, overlapped, pushes, reports>>

-----------------------------------------------------------------------------
(* worker.stopping: one signal, one Stop. *)

Setting == send.at \in {"setRate", "setStop", "setOffset"}

ReadStop ==
    /\ stopper.at = "wait"
    /\ stopper' = [at |-> "write", seen |-> offset]
    /\ overlapped' = Setting
    /\ UNCHANGED <<clockFields, count, clock, config, send, sent, sincePush, sinceStop,
                   pushes, reports>>

StopAt_Later == stopper.seen + 2
StopAt == stopper.seen
WriteStop ==
    /\ stopper.at = "write"
    /\ stop' = StopAt
    /\ stopper' = [stopper EXCEPT !.at = "done"]
    /\ sinceStop' = 0
    /\ UNCHANGED <<rate, offset, count, clock, config, send, sent, sincePush, overlapped,
                   pushes, reports>>

-----------------------------------------------------------------------------
(* The process ends with Run, or with a panic. *)
Running == send.at # "done" /\ clock.at # "panic"

Clock == \/ CheckForever \/ CheckNonzero \/ ReadOperand \/ Compare \/ TestRate \/ Divide
         \/ ReadCount \/ WriteCount \/ ReadOffset \/ WriteOffset
Sender == \/ Begin \/ Tick \/ SendError \/ Finished \/ ConfigClosed \/ Report \/ ResetStats
          \/ SetRate \/ SetStop \/ SetOffset \/ \E pushed \in ConfigType : Push(pushed)

Next == Running /\ (Clock \/ Sender \/ ReadStop \/ WriteStop)

Spec == Init /\ [][Next]_vars

(* The goroutines run; ticks win the select in the end. *)
FairSpec == /\ Spec
            /\ WF_vars(Running /\ Clock)
            /\ WF_vars(Running /\ (Begin \/ ResetStats \/ SetRate \/ SetStop \/ SetOffset \/ Finished))
            /\ SF_vars(Running /\ Tick)
            /\ WF_vars(Running /\ WriteStop)

-----------------------------------------------------------------------------
TypeOK ==
    /\ rate \in Rates \cup {0} /\ stop \in Counts \cup 0 .. MaxPackets
    /\ offset \in 0 .. MaxPackets + 2 /\ count \in 0 .. MaxPackets + 2
    /\ clock \in [at: {"new", "check", "compare", "haveOffset", "haveStop", "rate", "divide",
                       "tick", "readCount", "writeCount", "readOffset", "writeOffset", "closed",
                       "panic"},
                  seen: Counts \cup 0 .. MaxPackets + 2]
    /\ config \in ConfigType
    /\ send \in [at: {"new", "select", "reset", "setRate", "setStop", "setOffset", "done"},
                 config: ConfigType]
    /\ stopper \in [at: {"wait", "write", "done"}, seen: 0 .. MaxPackets + 2]

(* A Stop that no Set overlaps or follows. *)
Stopping == stopper.at # "wait" /\ ~overlapped

(* However a push races with the running clock, the sender never sends more  *)
(* packets after it than the count pushed; only a Stop that found no packet  *)
(* sent, or that the push overlaps, can lift the limit.                      *)
NeverTooMany ==
    /\ config.count > 0 /\ ~Setting
    /\ stopper.at = "wait" \/ (~overlapped /\ stopper.seen > 0)
    => sincePush <= config.count

(* Left alone, the sender sends exactly the count it was started with.       *)
CountExact ==
    clock.at = "closed" /\ pushes = 0 /\ stopper.at = "wait" => sent = config.count

(* After a Stop that found packets sent, at most the packet whose tick was   *)
(* already under way is sent.                                                *)
StopBounds == stopper.at = "done" /\ Stopping /\ stopper.seen > 0 => sinceStop <= 1

(* ... and the worker ends.                                                  *)
StopEnds == (stopper.at = "done" /\ Stopping /\ stopper.seen > 0) ~> (~Running \/ overlapped)

(* udp/rate.go:79: Stop is "Stop running, closing the chan returned by       *)
(* Start()".                                                                 *)
StopIsFinal == stopper.at = "done" /\ Stopping => sinceStop <= 1

=============================================================================
