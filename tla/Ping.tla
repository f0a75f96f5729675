-------------------------------- MODULE Ping --------------------------------
(***************************************************************************)
(* The ping worker (icmp.Pinger) with its statistics writer.               *)
(*                                                                         *)
(* The main loop sends a request per tick, numbered modulo Seqs, and keeps *)
(* the packets in flight in a map from those numbers.  The receiver        *)
(* goroutine passes each answer to the main loop through the unbuffered    *)
(* receiverC; the main loop looks up its packet and sends the round trip   *)
(* into statsChan, where it may have to wait.  A packet is identified by   *)
(* the count of sends, which stands for its time too.                      *)
(***************************************************************************)
EXTENDS StatsWriter

CONSTANTS Seqs,     \* the sequence numbers: 2^16 of them
          MaxSends  \* bound on the requests

ASSUME PingAssumption ==
    /\ Seqs \in Nat \ {0} /\ MaxSends \in Nat
    /\ Stats = 1 .. MaxSends /\ NoStat = 0

VARIABLES
    sends,      \* the number of Sends so far
    seq,        \* packet.Seq
    packets,    \* the map: the packet in flight under each number, or 0
    sent,       \* the packets that went out, each with its number
    receiver,   \* [at, ping]: "recv", "send" or "done"
    main,       \* [at, ping, reply]: "select", "stat" or "done"
    timer,      \* a tick waits in timerChan
    closed,     \* Stop has closed the connection
    push,       \* register waits for the answer to a push
    matched     \* history: the packets whose answer was looked up

pingVars == <<sends, seq, packets, sent, receiver, main, timer, closed, push, matched>>
vars == <<pingVars, statsVars>>

Seq16 == 0 .. Seqs - 1

TypeOK ==
    /\ StatsTypeOK
    /\ sends \in 0 .. MaxSends /\ seq \in Seq16
    /\ packets \in [Seq16 -> 0 .. MaxSends]
    /\ sent \subseteq 1 .. MaxSends
    /\ receiver \in [at: {"recv", "send", "done"}, ping: 0 .. MaxSends]
    /\ main \in [at: {"select", "stat", "done"}, ping: 0 .. MaxSends, reply: 0 .. MaxSends]
    /\ timer \in BOOLEAN /\ closed \in BOOLEAN /\ push \in BOOLEAN
    /\ matched \subseteq 1 .. MaxSends

Init ==
    /\ StatsInit
    /\ sends = 0 /\ seq = 0
    /\ packets = [s \in Seq16 |-> 0]
    /\ sent = {}
    /\ receiver = [at |-> "recv", ping |-> 0]
    /\ main = [at |-> "select", ping |-> 0, reply |-> 0]
    /\ timer = FALSE /\ closed = FALSE /\ push = FALSE
    /\ matched = {}

-----------------------------------------------------------------------------
(* The main loop. *)

Selecting == main.at = "select"

SeqOf(ping) == ping % Seqs

Keep_First(s, ping) == packets' = IF packets[s] = 0 THEN [packets EXCEPT ![s] = ping] ELSE packets
Keep_Late(s, ping) == packets' = [packets EXCEPT ![SeqOf(ping - 1)] = ping]
Keep(s, ping) == packets' = [packets EXCEPT ![s] = ping]

(* case <-timerChan: packet.Seq is a uint16. *)
NextSeq == (seq + 1) % Seqs

Send ==
    /\ Selecting /\ timer /\ ~closed /\ sends < MaxSends
    /\ timer' = FALSE
    /\ sends' = sends + 1 /\ seq' = NextSeq
    /\ sent' = sent \cup {sends + 1}
    /\ Keep(NextSeq, sends + 1)
    /\ UNCHANGED <<receiver, main, closed, push, matched, statsVars>>

(* The number is used up, and what the map has under it stays. *)
SendFails ==
    /\ Selecting /\ timer /\ sends < MaxSends
    /\ timer' = FALSE
    /\ sends' = sends + 1 /\ seq' = NextSeq
    /\ UNCHANGED <<packets, sent, receiver, main, closed, push, matched, statsVars>>

(* case recvPacket := <-receiverC *)
Forgotten_Kept(s) == packets
Forgotten(s) == [packets EXCEPT ![s] = 0]

TakeReply ==
    /\ Selecting /\ receiver.at = "send"
    /\ receiver' = [at |-> "recv", ping |-> 0]
    /\ LET s == SeqOf(receiver.ping) IN
         /\ packets[s] # 0
         /\ main' = [at |-> "stat", ping |-> packets[s], reply |-> receiver.ping]
         /\ matched' = matched \cup {packets[s]}
         /\ packets' = Forgotten(s)
    /\ UNCHANGED <<sends, seq, sent, timer, closed, push, statsVars>>

BadSeq ==
    /\ Selecting /\ receiver.at = "send"
    /\ packets[SeqOf(receiver.ping)] = 0
    /\ receiver' = [at |-> "recv", ping |-> 0]
    /\ UNCHANGED <<sends, seq, packets, sent, main, timer, closed, push, matched, statsVars>>

(* p.statsC <- PingStats *)
SendStat ==
    /\ main.at = "stat"
    /\ Accept(main.ping)
    /\ main' = [at |-> "select", ping |-> 0, reply |-> 0]
    /\ UNCHANGED <<sends, seq, packets, sent, receiver, timer, closed, push, matched>>

Return == main' = [at |-> "done", ping |-> 0, reply |-> 0]

(* receiverC is closed. *)
ReceiverGone ==
    /\ Selecting /\ receiver.at = "done"
    /\ Return
    /\ UNCHANGED <<sends, seq, packets, sent, receiver, timer, closed, push, matched, statsVars>>

(* case configPush := <-p.configC: configPush answers "Not implemented". *)
HandlePush_Unanswered ==
    /\ Selecting /\ push
    /\ UNCHANGED vars
HandlePush ==
    /\ Selecting /\ push
    /\ push' = FALSE
    /\ UNCHANGED <<sends, seq, packets, sent, receiver, main, timer, closed, matched, statsVars>>

(* register has ended and closed configC. *)
ConfigClosed ==
    /\ Selecting /\ ~push
    /\ Return
    /\ UNCHANGED <<sends, seq, packets, sent, receiver, timer, closed, push, matched, statsVars>>

-----------------------------------------------------------------------------
(* The receiver. *)

(* The network may deliver the answer to any packet, at any time and again. *)
Receive(ping) ==
    /\ receiver.at = "recv" /\ ~closed
    /\ receiver' = [at |-> "send", ping |-> ping]
    /\ UNCHANGED <<sends, seq, packets, sent, main, timer, closed, push, matched, statsVars>>

(* Any error ends it: the connection is closed, or a message is no echo. *)
ReceiveClosed_Retry ==
    /\ receiver.at = "recv" /\ closed
    /\ UNCHANGED vars
ReceiveClosed ==
    /\ receiver.at = "recv" /\ closed
    /\ receiver' = [at |-> "done", ping |-> 0]
    /\ UNCHANGED <<sends, seq, packets, sent, main, timer, closed, push, matched, statsVars>>

ReceiveFails ==
    /\ receiver.at = "recv" /\ ~closed
    /\ receiver' = [at |-> "done", ping |-> 0]
    /\ UNCHANGED <<sends, seq, packets, sent, main, timer, closed, push, matched, statsVars>>

-----------------------------------------------------------------------------
(* The world. *)

TimerFires ==
    /\ ~timer
    /\ timer' = TRUE
    /\ UNCHANGED <<sends, seq, packets, sent, receiver, main, closed, push, matched, statsVars>>

(* The signal handler. *)
Stop ==
    /\ ~closed
    /\ closed' = TRUE
    /\ UNCHANGED <<sends, seq, packets, sent, receiver, main, timer, push, matched, statsVars>>

Push ==
    /\ ~push
    /\ push' = TRUE
    /\ UNCHANGED <<sends, seq, packets, sent, receiver, main, timer, closed, matched, statsVars>>

Loop == Send \/ SendFails \/ TakeReply \/ BadSeq \/ SendStat \/ ReceiverGone \/ HandlePush
        \/ ConfigClosed
Receiver == (\E ping \in sent : Receive(ping)) \/ ReceiveClosed \/ ReceiveFails
World == TimerFires \/ Stop \/ Push

(* The process ends when Run returns. *)
Next ==
    /\ main.at # "done"
    /\ Loop \/ Receiver \/ World \/ (StatsNext /\ UNCHANGED pingVars)

Spec == Init /\ [][Next]_vars

(***************************************************************************)
(* The goroutines run, time passes, and select passes over no case for     *)
(* ever.  InfluxDB answers every write, somehow: its client has no         *)
(* timeout, so this is an assumption.  Nothing is assumed of the network,  *)
(* of pushes and of the signal.                                            *)
(***************************************************************************)
Sink(A) == main.at # "done" /\ A /\ UNCHANGED pingVars

FairSpec ==
    /\ Spec
    /\ SF_vars(TakeReply \/ BadSeq) /\ SF_vars(ReceiverGone) /\ SF_vars(HandlePush)
    /\ WF_vars(SendStat) /\ WF_vars(main.at # "done" /\ ReceiveClosed)
    /\ WF_vars(Sink(IntakeStep)) /\ WF_vars(Sink(WriterStep)) /\ WF_vars(Sink(Tick))

-----------------------------------------------------------------------------
(* A reported round trip is that of one packet: the answer that was received  *)
(* is the answer to the packet whose time is reported, unless it came after   *)
(* all the other sequence numbers were used.                                  *)
Genuine == main.at = "stat" => main.ping = main.reply \/ sends >= main.reply + Seqs

(* An answer is overlooked only if it is a duplicate, or came that late.      *)
OverlooksOnlyDuplicates ==
    [][BadSeq => receiver.ping \in matched \/ sends >= receiver.ping + Seqs]_vars

(* However often its answer arrives, a packet is reported once.               *)
ReportedOnce == [][TakeReply => main'.ping \notin matched]_vars

(* After a signal Run returns, although the main loop may be waiting for the  *)
(* statistics writer and the receiver for the main loop.                      *)
StopEnds == closed ~> main.at = "done"

(* A push is answered, and register can go on, however the other cases of the *)
(* select compete with it.                                                    *)
PushAnswered == push ~> ~push \/ main.at = "done"

=============================================================================
