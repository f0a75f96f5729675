----------------------------- MODULE PingProofs -----------------------------
(* What the ping worker reports, for any number of sequence numbers and of    *)
(* requests, over a network that loses, delays, reorders and repeats answers. *)
(* Its statistics writer implements a queue of two places, for every set of   *)
(* statistics and whatever worker hands them in.                              *)
EXTENDS Ping, SequenceTheorems, FiniteSetTheorems, TLAPS

-----------------------------------------------------------------------------
(* The statistics writer. *)

(* Types. *)
LEMMA StatsInitTyped == StatsInit => StatsTypeOK
  <1> SUFFICES ASSUME StatsInit PROVE StatsTypeOK
    OBVIOUS
  <1>1. Idle \in [at: {"range", "tick"}, stat: {NoStat}] /\ Idle \in [at: {"range"}, stat: {NoStat}]
    BY DEF Idle
  <1>2. intake \in [at: {"send"}, stat: Stats] \cup [at: {"range", "tick"}, stat: {NoStat}]
    BY <1>1 DEF StatsInit
  <1>3. writer \in [at: {"write"}, stat: Stats] \cup [at: {"range"}, stat: {NoStat}]
    BY <1>1 DEF StatsInit
  <1>4. QED BY <1>2, <1>3 DEF StatsInit, StatsTypeOK

LEMMA StatsNextTyped ==
    StatsTypeOK /\ [StatsNext \/ \E stat \in Stats : Accept(stat)]_statsVars => StatsTypeOK'
  <1> SUFFICES ASSUME StatsTypeOK, [StatsNext \/ \E stat \in Stats : Accept(stat)]_statsVars
               PROVE  StatsTypeOK'
    OBVIOUS
  <1>1. ASSUME NEW stat \in Stats, Accept(stat) PROVE StatsTypeOK'
    BY <1>1 DEF StatsTypeOK, Accept, Taken
  <1>2. CASE HandOver
    BY <1>2 DEF StatsTypeOK, HandOver
  <1>3. CASE AwaitTick
    BY <1>3 DEF StatsTypeOK, AwaitTick, Idle
  <1>4. CASE Tick
    BY <1>4 DEF StatsTypeOK, Tick
  <1>5. CASE WriterStep
    BY <1>5 DEF StatsTypeOK, WriterStep, Write, WriteFails, Idle
  <1>6. CASE UNCHANGED statsVars
    BY <1>6 DEF StatsTypeOK, statsVars
  <1>7. QED BY <1>1, <1>2, <1>3, <1>4, <1>5, <1>6 DEF StatsNext, IntakeStep

-----------------------------------------------------------------------------
(* Queues of one and of two. *)
LEMMA One == ASSUME NEW a PROVE Append(<<>>, a) = <<a>>
  OBVIOUS

LEMMA Two ==
    ASSUME NEW a, NEW b
    PROVE  /\ Len(Append(<<a>>, b)) = 2
           /\ Head(Append(<<a>>, b)) = a
           /\ Tail(Append(<<a>>, b)) = <<b>>
           /\ Append(<<a>>, b)[2] = b
  <1>1. <<a>> \in Seq({a, b}) /\ <<>> \in Seq({a, b}) /\ Len(<<a>>) = 1 /\ <<a>> # <<>>
    OBVIOUS
  <1>2. Tail(<<a>>) = <<>> /\ Head(<<a>>) = a
    OBVIOUS
  <1>3. Len(Append(<<a>>, b)) = 2 /\ Append(<<a>>, b)[2] = b
    BY <1>1, AppendProperties
  <1>4. Head(Append(<<a>>, b)) = a
    BY <1>1, <1>2, HeadTailAppend
  <1>5. Tail(Append(<<a>>, b)) = Append(<<>>, b)
    BY <1>1, <1>2, HeadTailAppend
  <1>6. QED BY <1>3, <1>4, <1>5, One

(* What is under way, by cases. *)
LEMMA UnderwayIs ==
    /\ writer.at = "range" /\ intake.at # "send" => Underway = <<>>
    /\ writer.at = "range" /\ intake.at = "send" => Underway = <<intake.stat>>
    /\ writer.at = "write" /\ intake.at # "send" => Underway = <<writer.stat>>
    /\ writer.at = "write" /\ intake.at = "send" => Underway = Append(<<writer.stat>>, intake.stat)
  BY One DEF Underway

LEMMA FifoInit == StatsInit => Fifo!Init
  <1> SUFFICES ASSUME StatsInit PROVE Fifo!Init
    OBVIOUS
  <1>1. Underway = <<>>
    BY StatsInitTyped, UnderwayIs DEF StatsInit, Idle
  <1>2. QED BY <1>1 DEF StatsInit, Fifo!Init

(* Every step is a step of the queue, or none.                                *)
LEMMA FifoNext ==
    StatsTypeOK /\ StatsTypeOK' /\ [StatsNext \/ \E stat \in Stats : Accept(stat)]_statsVars
        => [Fifo!Next]_<<accepted, Underway, stored>>
  <1> SUFFICES ASSUME StatsTypeOK, StatsTypeOK',
                      [StatsNext \/ \E stat \in Stats : Accept(stat)]_statsVars
               PROVE  [Fifo!Next]_<<accepted, Underway, stored>>
    OBVIOUS
  <1>1. /\ writer.at \in {"range", "write"} /\ intake.at \in {"range", "send", "tick"}
        /\ writer'.at \in {"range", "write"} /\ intake'.at \in {"range", "send", "tick"}
    BY DEF StatsTypeOK
  <1>u. /\ writer.at = "range" /\ intake.at # "send" => Underway = <<>>
        /\ writer.at = "range" /\ intake.at = "send" => Underway = <<intake.stat>>
        /\ writer.at = "write" /\ intake.at # "send" => Underway = <<writer.stat>>
        /\ writer.at = "write" /\ intake.at = "send" => Underway = Append(<<writer.stat>>, intake.stat)
    BY UnderwayIs
  <1>v. /\ writer'.at = "range" /\ intake'.at # "send" => Underway' = <<>>
        /\ writer'.at = "range" /\ intake'.at = "send" => Underway' = <<intake'.stat>>
        /\ writer'.at = "write" /\ intake'.at # "send" => Underway' = <<writer'.stat>>
        /\ writer'.at = "write" /\ intake'.at = "send" => Underway' = Append(<<writer'.stat>>, intake'.stat)
    BY One DEF Underway
  <1>2. ASSUME NEW stat \in Stats, Accept(stat) PROVE Fifo!Next
    <2>1. CASE intake' = [at |-> "send", stat |-> stat]
      <3>1. Fifo!Accept(stat)
        <4>1. CASE writer.at = "range"
          <5>1. Underway = <<>> /\ Underway' = <<stat>>
            BY <1>2, <2>1, <4>1, <1>u, <1>v DEF Accept
          <5>2. QED BY <1>2, <5>1 DEF Fifo!Accept, Accept
        <4>2. CASE writer.at = "write"
          <5>1. Underway = <<writer.stat>> /\ Underway' = Append(<<writer.stat>>, stat)
            BY <1>2, <2>1, <4>2, <1>u, <1>v DEF Accept
          <5>2. QED BY <1>2, <5>1 DEF Fifo!Accept, Accept
        <4>3. QED BY <1>1, <4>1, <4>2
      <3>2. QED BY <3>1 DEF Fifo!Next
    <2>2. CASE intake' = [at |-> "tick", stat |-> NoStat]
      <3>1. Underway' = Underway
        BY <1>2, <2>2, <1>1, <1>u, <1>v DEF Accept
      <3>2. QED BY <1>2, <3>1 DEF Accept, Fifo!Refuse, Fifo!Next
    <2>3. QED BY <1>2, <2>1, <2>2 DEF Accept, Taken
  <1>3. CASE HandOver
    <2>1. Underway = <<intake.stat>> /\ Underway' = <<intake.stat>>
      BY <1>3, <1>u, <1>v DEF HandOver
    <2>2. QED BY <1>3, <2>1 DEF HandOver
  <1>4. CASE AwaitTick
    <2>1. Underway' = Underway
      BY <1>4, <1>1, <1>u, <1>v DEF AwaitTick, Idle
    <2>2. QED BY <1>4, <2>1 DEF AwaitTick
  <1>5. CASE Tick
    <2>1. Underway' = Underway
      BY <1>5 DEF Tick, Underway
    <2>2. QED BY <1>5, <2>1 DEF Tick
  <1>6. CASE Write
    <2>1. CASE intake.at # "send"
      <3>1. Underway = <<writer.stat>> /\ Underway' = <<>>
        BY <1>6, <2>1, <1>u, <1>v DEF Write, Idle
      <3>2. QED BY <1>6, <3>1, Two DEF Write, Fifo!Store, Fifo!Next
    <2>2. CASE intake.at = "send"
      <3>1. Underway = Append(<<writer.stat>>, intake.stat) /\ Underway' = <<intake.stat>>
        BY <1>6, <2>2, <1>u, <1>v DEF Write, Idle
      <3>2. Underway # <<>> /\ Head(Underway) = writer.stat /\ Tail(Underway) = Underway'
        <4>1. Len(Underway) = 2
          BY <3>1, Two
        <4>2. QED BY <3>1, <4>1, Two
      <3>3. QED BY <1>6, <3>2 DEF Write, Fifo!Store, Fifo!Next
    <2>3. QED BY <2>1, <2>2
  <1>7. CASE WriteFails
    <2>1. 1 \in 1 .. Len(Underway) /\ Underway' = Fifo!Without(Underway, 1)
      <3>1. CASE intake.at # "send"
        <4>1. Underway = <<writer.stat>> /\ Underway' = <<>>
          BY <1>7, <3>1, <1>u, <1>v DEF WriteFails, Idle
        <4>2. QED BY <4>1, Two DEF Fifo!Without
      <3>2. CASE intake.at = "send"
        <4>1. Underway = Append(<<writer.stat>>, intake.stat) /\ Underway' = <<intake.stat>>
          BY <1>7, <3>2, <1>u, <1>v DEF WriteFails, Idle
        <4>2. Len(Underway) = 2 /\ Underway[2] = intake.stat
          BY <4>1, Two
        <4>3. Fifo!Without(Underway, 1) = [k \in 1 .. 1 |-> intake.stat]
          BY <4>2 DEF Fifo!Without
        <4>4. [k \in 1 .. 1 |-> intake.stat] = <<intake.stat>>
          OBVIOUS
        <4>5. QED BY <4>1, <4>2, <4>3, <4>4
      <3>3. QED BY <3>1, <3>2
    <2>2. QED BY <1>7, <2>1 DEF WriteFails, Fifo!Lose, Fifo!Next
  <1>8. CASE UNCHANGED statsVars
    BY <1>8 DEF statsVars, Underway
  <1>9. QED BY <1>2, <1>3, <1>4, <1>5, <1>6, <1>7, <1>8 DEF StatsNext, IntakeStep, WriterStep

(* Whatever worker hands them in, the statistics reach InfluxDB in order,     *)
(* each at most once, and never more than two of them are under way.          *)
THEOREM WriterIsFifo == StatsSpec => IsFifo
  <1>1. StatsSpec => []StatsTypeOK
    BY StatsInitTyped, StatsNextTyped, PTL DEF StatsSpec
  <1>2. QED BY <1>1, FifoInit, FifoNext, PTL DEF StatsSpec, IsFifo, Fifo!Spec

-----------------------------------------------------------------------------
(* Division with remainder. *)

LEMMA Division ==
    ASSUME NEW n \in Nat, n > 0, NEW x \in Int
    PROVE  /\ x \div n \in Int /\ x % n \in 0 .. n - 1
           /\ x = (x \div n) * n + (x % n)
  <1>1. x = (x \div n) * n + (x % n)
    BY SMTT(30)
  <1>2. x \div n \in Int
    OBVIOUS
  <1>3. x % n \in Int /\ x % n >= 0
    OBVIOUS
  <1>4. x % n < n
    OBVIOUS
  <1>5. QED BY <1>1, <1>2, <1>3, <1>4

LEMMA Multiple == ASSUME NEW n \in Nat, n > 0, NEW k \in Int, k > 0 PROVE k * n >= n
  OBVIOUS

(* The remainder is the only number of its kind. *)
LEMMA Remainder ==
    ASSUME NEW n \in Nat, n > 0, NEW x \in Int, NEW q \in Int, NEW r \in 0 .. n - 1, x = q * n + r
    PROVE  x % n = r
  <1> DEFINE p == x \div n
             s == x % n
  <1>1. p \in Int /\ s \in 0 .. n - 1 /\ x = p * n + s
    BY Division
  <1> HIDE DEF p, s
  <1>2. (p - q) * n = r - s /\ (q - p) * n = s - r
    BY <1>1
  <1>3. ~(p - q > 0)
    BY <1>1, <1>2, Multiple
  <1>4. ~(q - p > 0)
    BY <1>1, <1>2, Multiple
  <1>5. p = q
    BY <1>1, <1>3, <1>4
  <1>6. s = r
    BY <1>1, <1>5
  <1>7. QED BY <1>6 DEF s

(* Two numbers with the same remainder are apart. *)
LEMMA Apart ==
    ASSUME NEW n \in Nat, n > 0, NEW a \in Int, NEW b \in Int, a < b, a % n = b % n
    PROVE  b >= a + n
  <1> DEFINE p == a \div n
             q == b \div n
             s == a % n
  <1>1. p \in Int /\ q \in Int /\ s \in Int /\ a = p * n + s /\ b = q * n + s
    BY Division
  <1> HIDE DEF p, q, s
  <1>2. b - a = (q - p) * n
    BY <1>1
  <1>3. q - p = 0 \/ p - q > 0 \/ q - p > 0
    BY <1>1
  <1>4. ~(q - p = 0)
    BY <1>1, <1>2
  <1>5. ~(p - q > 0)
    <2> SUFFICES ASSUME p - q > 0 PROVE FALSE
      OBVIOUS
    <2>1. (p - q) * n >= n
      BY <1>1, Multiple
    <2>2. (p - q) * n = a - b
      BY <1>1
    <2>3. QED BY <1>1, <2>1, <2>2
  <1>6. (q - p) * n >= n
    BY <1>1, <1>3, <1>4, <1>5, Multiple
  <1>7. QED BY <1>1, <1>2, <1>6

LEMMA Successor ==
    ASSUME NEW n \in Nat, n > 0, NEW x \in Int
    PROVE  ((x % n) + 1) % n = (x + 1) % n
  <1> DEFINE p == x \div n
             s == x % n
  <1>1. p \in Int /\ s \in 0 .. n - 1 /\ x = p * n + s
    BY Division
  <1> HIDE DEF p, s
  <1>2. CASE s + 1 < n
    <2>1. x + 1 = p * n + (s + 1) /\ s + 1 = 0 * n + (s + 1) /\ s + 1 \in 0 .. n - 1
      BY <1>1, <1>2
    <2>2. (x + 1) % n = s + 1
      BY <1>1, <2>1, Remainder
    <2>3. (s + 1) % n = s + 1
      BY <1>1, <2>1, Remainder
    <2>4. QED BY <2>2, <2>3 DEF s
  <1>3. CASE s + 1 = n
    <2>1. x + 1 = (p + 1) * n + 0 /\ s + 1 = 1 * n + 0 /\ 0 \in 0 .. n - 1
      BY <1>1, <1>3
    <2>2. (x + 1) % n = 0
      BY <1>1, <2>1, Remainder
    <2>3. (s + 1) % n = 0
      BY <1>1, <2>1, Remainder
    <2>4. QED BY <2>2, <2>3 DEF s
  <1>4. QED BY <1>1, <1>2, <1>3

-----------------------------------------------------------------------------
(* What holds in every state. *)

(* An answer, and a packet that is reported, are of packets that were sent. *)
SentOK ==
    /\ sent \subseteq 1 .. sends /\ matched \subseteq 1 .. sends
    /\ receiver.at = "send" => receiver.ping \in sent
    /\ main.at = "stat" => main.ping \in 1 .. MaxSends

NumberOK == seq = sends % Seqs

(* Under a number the map has the last packet sent with it, and only until it *)
(* is matched ...                                                             *)
MapOK == \A s \in Seq16 : packets[s] # 0 =>
    /\ packets[s] \in sent \ matched
    /\ SeqOf(packets[s]) = s
    /\ \A ping \in sent : SeqOf(ping) = s => ping <= packets[s]

(* ... and every packet not yet matched, unless its number was used again.    *)
Kept == \A ping \in sent :
    \/ packets[SeqOf(ping)] = ping
    \/ ping \in matched
    \/ sends >= ping + Seqs

PingInv == TypeOK /\ SentOK /\ NumberOK /\ MapOK /\ Kept /\ Genuine

LEMMA Numbers == \A ping \in Nat : SeqOf(ping) \in Seq16
  BY PingAssumption, Division DEF SeqOf, Seq16

LEMMA NumbersApart ==
    \A a, b \in Nat : a < b /\ SeqOf(a) = SeqOf(b) => b >= a + Seqs
  BY PingAssumption, Apart DEF SeqOf

(* Whatever the worker does, its statistics writer does a step of its own.    *)
LEMMA StatsStep ==
    PingInv /\ [Next]_vars => [StatsNext \/ \E stat \in Stats : Accept(stat)]_statsVars
  <1> SUFFICES ASSUME PingInv, [Next]_vars
               PROVE  [StatsNext \/ \E stat \in Stats : Accept(stat)]_statsVars
    OBVIOUS
  <1>1. CASE SendStat
    <2>1. main.ping \in Stats
      BY <1>1, PingAssumption DEF SendStat, PingInv, SentOK
    <2>2. QED BY <1>1, <2>1 DEF SendStat
  <1>2. CASE Send \/ SendFails \/ TakeReply \/ BadSeq
    BY <1>2 DEF Send, SendFails, TakeReply, BadSeq
  <1>3. CASE ReceiverGone \/ HandlePush \/ ConfigClosed
    BY <1>3 DEF ReceiverGone, HandlePush, ConfigClosed
  <1>4. CASE Receiver
    BY <1>4 DEF Receiver, Receive, ReceiveClosed, ReceiveFails
  <1>5. CASE World
    BY <1>5 DEF World, TimerFires, Stop, Push
  <1>6. CASE UNCHANGED vars
    BY <1>6 DEF vars
  <1>7. QED BY <1>1, <1>2, <1>3, <1>4, <1>5, <1>6 DEF Next, Loop

-----------------------------------------------------------------------------
(* The invariant holds at first. *)
LEMMA InitInv == Init => PingInv
  <1> SUFFICES ASSUME Init PROVE PingInv
    OBVIOUS
  <1>0. 0 \in Seq16 /\ 0 % Seqs = 0
    <2>1. 0 = 0 * Seqs + 0 /\ 0 \in 0 .. Seqs - 1
      BY PingAssumption
    <2>2. QED BY <2>1, PingAssumption, Remainder DEF Seq16
  <1>1. TypeOK
    <2>1. StatsTypeOK
      BY StatsInitTyped DEF Init
    <2>2. 0 \in 0 .. MaxSends
      BY PingAssumption
    <2>3. packets \in [Seq16 -> 0 .. MaxSends]
      BY <2>2 DEF Init
    <2>4. receiver \in [at: {"recv", "send", "done"}, ping: 0 .. MaxSends]
      BY <2>2 DEF Init
    <2>5. main \in [at: {"select", "stat", "done"}, ping: 0 .. MaxSends, reply: 0 .. MaxSends]
      BY <2>2 DEF Init
    <2>6. QED BY <1>0, <2>1, <2>2, <2>3, <2>4, <2>5 DEF Init, TypeOK
  <1>2. SentOK
    BY DEF Init, SentOK
  <1>3. NumberOK
    BY <1>0 DEF Init, NumberOK
  <1>4. MapOK /\ Kept /\ Genuine
    BY DEF Init, MapOK, Kept, Genuine
  <1>5. QED BY <1>1, <1>2, <1>3, <1>4 DEF PingInv

(* Every step preserves the types. *)
LEMMA TypeNext == PingInv /\ [Next]_vars => TypeOK'
  <1> SUFFICES ASSUME PingInv, [Next]_vars PROVE TypeOK'
    OBVIOUS
  <1> USE PingAssumption
  <1>a. TypeOK /\ SentOK /\ NumberOK
    BY DEF PingInv
  <1>b. StatsTypeOK'
    BY <1>a, StatsStep, StatsNextTyped DEF TypeOK
  <1>z. 0 \in 0 .. MaxSends
    OBVIOUS
  <1>c. NextSeq \in Seq16
    <2>1. seq + 1 \in Int
      BY <1>a DEF TypeOK, Seq16
    <2>2. QED BY <2>1, Division DEF NextSeq, Seq16
  <1>1. CASE Send
    <2>1. sends + 1 \in 0 .. MaxSends /\ sends + 1 \in 1 .. MaxSends
      BY <1>a, <1>1 DEF Send, TypeOK
    <2>2. packets' \in [Seq16 -> 0 .. MaxSends]
      BY <1>a, <1>1, <2>1 DEF Send, Keep, TypeOK
    <2>3. sent' \subseteq 1 .. MaxSends
      BY <1>a, <1>1, <2>1 DEF Send, TypeOK
    <2>4. QED BY <1>a, <1>b, <1>c, <1>1, <2>1, <2>2, <2>3 DEF Send, TypeOK
  <1>2. CASE SendFails
    <2>1. sends + 1 \in 0 .. MaxSends
      BY <1>a, <1>2 DEF SendFails, TypeOK
    <2>2. QED BY <1>a, <1>b, <1>c, <1>2, <2>1 DEF SendFails, TypeOK
  <1>3. CASE TakeReply
    <2> DEFINE s == SeqOf(receiver.ping)
    <2>1. receiver.ping \in Nat /\ receiver.ping \in 0 .. MaxSends /\ s \in Seq16
      BY <1>a, Numbers DEF TypeOK
    <2> HIDE DEF s
    <2>2. packets[s] \in 0 .. MaxSends /\ packets[s] # 0
      BY <1>a, <1>3, <2>1 DEF TakeReply, TypeOK, s
    <2>3. packets' \in [Seq16 -> 0 .. MaxSends]
      <3>1. packets' = [packets EXCEPT ![s] = 0] /\ packets \in [Seq16 -> 0 .. MaxSends]
        BY <1>a, <1>3 DEF TakeReply, Forgotten, TypeOK, s
      <3>2. QED BY <1>z, <3>1
    <2>4. main' \in [at: {"select", "stat", "done"}, ping: 0 .. MaxSends, reply: 0 .. MaxSends]
      BY <1>3, <2>1, <2>2 DEF TakeReply, s
    <2>5. receiver' \in [at: {"recv", "send", "done"}, ping: 0 .. MaxSends]
      BY <1>3 DEF TakeReply
    <2>6. matched' \subseteq 1 .. MaxSends
      <3>1. matched' = matched \cup {packets[s]} /\ matched \subseteq 1 .. MaxSends
        BY <1>a, <1>3 DEF TakeReply, TypeOK, s
      <3>2. packets[s] \in 1 .. MaxSends
        BY <2>2
      <3>3. QED BY <3>1, <3>2
    <2>7. QED BY <1>a, <1>b, <1>3, <2>3, <2>4, <2>5, <2>6 DEF TakeReply, TypeOK
  <1>4. CASE BadSeq
    BY <1>a, <1>b, <1>4 DEF BadSeq, TypeOK
  <1>5. CASE SendStat
    BY <1>a, <1>b, <1>5 DEF SendStat, TypeOK
  <1>6. CASE ReceiverGone \/ HandlePush \/ ConfigClosed
    <2>1. [at |-> "done", ping |-> 0, reply |-> 0]
            \in [at: {"select", "stat", "done"}, ping: 0 .. MaxSends, reply: 0 .. MaxSends]
      BY <1>z
    <2>2. CASE ReceiverGone \/ ConfigClosed
      BY <1>a, <1>b, <2>1, <2>2 DEF ReceiverGone, ConfigClosed, Return, TypeOK
    <2>3. CASE HandlePush
      BY <1>a, <1>b, <2>3 DEF HandlePush, TypeOK
    <2>4. QED BY <1>6, <2>2, <2>3
  <1>7. CASE Receiver
    <2>1. [at |-> "done", ping |-> 0] \in [at: {"recv", "send", "done"}, ping: 0 .. MaxSends]
      BY <1>z
    <2>2. CASE ReceiveClosed \/ ReceiveFails
      BY <1>a, <1>b, <2>1, <2>2 DEF ReceiveClosed, ReceiveFails, TypeOK
    <2>3. ASSUME NEW ping \in sent, Receive(ping) PROVE TypeOK'
      <3>1. ping \in 0 .. MaxSends
        BY <1>a DEF TypeOK
      <3>2. [at |-> "send", ping |-> ping] \in [at: {"recv", "send", "done"}, ping: 0 .. MaxSends]
        BY <3>1
      <3>3. QED BY <1>a, <1>b, <2>3, <3>2 DEF Receive, TypeOK
    <2>4. QED BY <1>7, <2>2, <2>3 DEF Receiver
  <1>8. CASE World
    BY <1>a, <1>b, <1>8 DEF World, TimerFires, Stop, Push, TypeOK
  <1>9. CASE UNCHANGED pingVars
    BY <1>a, <1>b, <1>9 DEF pingVars, TypeOK
  <1>10. QED
    BY <1>1, <1>2, <1>3, <1>4, <1>5, <1>6, <1>7, <1>8, <1>9 DEF Next, Loop, vars

LEMMA NextNumber == TypeOK /\ NumberOK => NextSeq = (sends + 1) % Seqs
  <1> SUFFICES ASSUME TypeOK, NumberOK PROVE NextSeq = (sends + 1) % Seqs
    OBVIOUS
  <1>1. sends \in Int /\ Seqs \in Nat /\ Seqs > 0
    BY PingAssumption DEF TypeOK
  <1>2. ((sends % Seqs) + 1) % Seqs = (sends + 1) % Seqs
    BY <1>1, Successor
  <1>3. QED BY <1>2 DEF NumberOK, NextSeq

(* Every step preserves the invariant: what happens to the numbers, ...       *)
LEMMA NumberNext == PingInv /\ [Next]_vars => NumberOK' /\ SentOK'
  <1> SUFFICES ASSUME PingInv, [Next]_vars PROVE NumberOK' /\ SentOK'
    OBVIOUS
  <1> USE PingAssumption
  <1>a. TypeOK /\ SentOK /\ NumberOK /\ MapOK
    BY DEF PingInv
  <1>b. NextSeq = (sends + 1) % Seqs
    BY <1>a, NextNumber
  <1>c. sends \in Nat
    BY <1>a DEF TypeOK
  <1>1. CASE Send \/ SendFails
    <2>1. NumberOK'
      BY <1>b, <1>1 DEF Send, SendFails, NumberOK
    <2>2. sent' \subseteq 1 .. sends' /\ matched' \subseteq 1 .. sends'
      <3>1. /\ sends' = sends + 1 /\ matched' = matched
            /\ sent' = sent \cup {sends + 1} \/ sent' = sent
        BY <1>1 DEF Send, SendFails
      <3>2. sent \subseteq 1 .. sends /\ matched \subseteq 1 .. sends
        BY <1>a DEF SentOK
      <3>3. \A k \in 1 .. sends : k \in 1 .. sends + 1
        BY <1>c
      <3>4. sends + 1 \in 1 .. sends + 1
        BY <1>c
      <3>5. QED BY <3>1, <3>2, <3>3, <3>4
    <2>3. receiver'.at = "send" => receiver'.ping \in sent'
      BY <1>a, <1>1 DEF Send, SendFails, SentOK
    <2>4. main'.at = "stat" => main'.ping \in 1 .. MaxSends
      BY <1>1 DEF Send, SendFails, Selecting
    <2>5. QED BY <2>1, <2>2, <2>3, <2>4 DEF SentOK
  <1>2. CASE TakeReply
    <2> DEFINE p == packets[SeqOf(receiver.ping)]
    <2>1. SeqOf(receiver.ping) \in Seq16
      BY <1>a, Numbers DEF TypeOK
    <2>2. p # 0 /\ p \in sent
      BY <1>a, <1>2, <2>1 DEF TakeReply, MapOK
    <2>3. p \in 1 .. sends /\ p \in 1 .. MaxSends
      BY <1>a, <2>2 DEF SentOK, TypeOK
    <2>4. /\ main' = [at |-> "stat", ping |-> p, reply |-> receiver.ping]
          /\ matched' = matched \cup {p}
          /\ receiver'.at = "recv"
          /\ UNCHANGED <<sent, sends, seq>>
      BY <1>2 DEF TakeReply
    <2> HIDE DEF p
    <2>5. QED BY <1>a, <2>3, <2>4 DEF NumberOK, SentOK
  <1>3. ASSUME UNCHANGED <<sends, seq, sent, matched>>,
               receiver' = receiver \/ receiver'.at # "send" \/ receiver'.ping \in sent,
               main' = main \/ main'.at # "stat"
        PROVE  NumberOK' /\ SentOK'
    <2>1. NumberOK'
      BY <1>a, <1>3 DEF NumberOK
    <2>2. SentOK'
      BY <1>a, <1>3 DEF SentOK
    <2>3. QED BY <2>1, <2>2
  <1>4. CASE BadSeq \/ SendStat
    BY <1>3, <1>4 DEF BadSeq, SendStat
  <1>5. CASE ReceiverGone \/ HandlePush \/ ConfigClosed
    BY <1>3, <1>5 DEF ReceiverGone, HandlePush, ConfigClosed, Return
  <1>6. CASE Receiver
    BY <1>3, <1>6 DEF Receiver, Receive, ReceiveClosed, ReceiveFails
  <1>7. CASE World
    BY <1>3, <1>7 DEF World, TimerFires, Stop, Push
  <1>8. CASE UNCHANGED pingVars
    BY <1>3, <1>8 DEF pingVars
  <1>9. QED BY <1>1, <1>2, <1>4, <1>5, <1>6, <1>7, <1>8 DEF Next, Loop, vars

(* ... to the map when a request goes out, ...                                *)
LEMMA SendMaps == PingInv /\ Send => MapOK' /\ Kept'
  <1> SUFFICES ASSUME PingInv, Send PROVE MapOK' /\ Kept'
    OBVIOUS
  <1> USE PingAssumption
  <1> DEFINE new == sends + 1
             n == SeqOf(new)
  <1>a. TypeOK /\ SentOK /\ NumberOK /\ MapOK /\ Kept
    BY DEF PingInv
  <1>b. sends \in Nat /\ new \in Nat /\ new > 0 /\ new > sends
    BY <1>a DEF TypeOK
  <1>c. NextSeq = n
    BY <1>a, NextNumber DEF SeqOf
  <1>d. n \in Seq16
    BY <1>b, Numbers
  <1>e. /\ packets' = [packets EXCEPT ![n] = new]
        /\ sent' = sent \cup {new}
        /\ sends' = new
        /\ matched' = matched
    BY <1>c DEF Send, Keep
  <1>f. packets \in [Seq16 -> 0 .. MaxSends]
    BY <1>a DEF TypeOK
  <1>g. \A ping \in sent : ping \in Nat /\ ping < new /\ ping \in 1 .. sends
    BY <1>a, <1>b DEF SentOK
  <1>h. new \notin matched
    BY <1>a, <1>b DEF SentOK
  <1>n. n = SeqOf(new)
    OBVIOUS
  <1> HIDE DEF new, n
  <1>1. MapOK'
    <2> SUFFICES ASSUME NEW s \in Seq16, packets'[s] # 0
                 PROVE  /\ packets'[s] \in sent' \ matched'
                        /\ SeqOf(packets'[s]) = s
                        /\ \A ping \in sent' : SeqOf(ping) = s => ping <= packets'[s]
      BY DEF MapOK, SeqOf
    <2>1. CASE s = n
      <3>1. packets'[s] = new
        BY <1>d, <1>e, <1>f, <2>1
      <3>2. new <= new
        BY <1>b
      <3>3. \A ping \in sent' : ping <= new
        BY <1>b, <1>e, <1>g, <3>2
      <3>4. QED BY <1>e, <1>h, <1>n, <2>1, <3>1, <3>3
    <2>2. CASE s # n
      <3>1. packets'[s] = packets[s]
        BY <1>e, <1>f, <2>2
      <3>2. /\ packets[s] \in sent \ matched
            /\ SeqOf(packets[s]) = s
            /\ \A ping \in sent : SeqOf(ping) = s => ping <= packets[s]
        BY <1>a, <3>1 DEF MapOK
      <3>3. SeqOf(new) # s
        BY <1>n, <2>2
      <3>4. QED BY <1>e, <3>1, <3>2, <3>3
    <2>3. QED BY <2>1, <2>2
  <1>2. Kept'
    <2> SUFFICES ASSUME NEW ping \in sent'
                 PROVE  packets'[SeqOf(ping)] = ping \/ ping \in matched' \/ sends' >= ping + Seqs
      BY DEF Kept, SeqOf
    <2>1. CASE ping = new
      BY <1>d, <1>e, <1>f, <1>n, <2>1
    <2>2. CASE ping \in sent
      <3>1. ping \in Nat /\ ping < new
        BY <1>g, <2>2
      <3>2. CASE SeqOf(ping) = n
        BY <1>b, <1>e, <1>n, <3>1, <3>2, NumbersApart
      <3>3. CASE SeqOf(ping) # n
        <4>1. SeqOf(ping) \in Seq16
          BY <3>1, Numbers
        <4>2. packets'[SeqOf(ping)] = packets[SeqOf(ping)]
          BY <1>e, <1>f, <3>3, <4>1
        <4>3. packets[SeqOf(ping)] = ping \/ ping \in matched \/ sends >= ping + Seqs
          BY <1>a, <2>2 DEF Kept
        <4>4. sends >= ping + Seqs => new >= ping + Seqs
          BY <1>b, <3>1
        <4>5. QED BY <1>e, <4>2, <4>3, <4>4
      <3>4. QED BY <3>2, <3>3
    <2>3. QED BY <1>e, <2>1, <2>2
  <1>3. QED BY <1>1, <1>2

(* ... and when an answer is taken.                                           *)
LEMMA TakeMaps == PingInv /\ TakeReply => MapOK' /\ Kept' /\ Genuine'
  <1> SUFFICES ASSUME PingInv, TakeReply PROVE MapOK' /\ Kept' /\ Genuine'
    OBVIOUS
  <1> USE PingAssumption
  <1> DEFINE n == SeqOf(receiver.ping)
             p == packets[n]
  <1>a. TypeOK /\ SentOK /\ MapOK /\ Kept
    BY DEF PingInv
  <1>b. receiver.ping \in Nat /\ receiver.ping \in sent /\ n \in Seq16
    BY <1>a, Numbers DEF TypeOK, SentOK, TakeReply
  <1>c. /\ packets' = [packets EXCEPT ![n] = 0]
        /\ matched' = matched \cup {p}
        /\ main' = [at |-> "stat", ping |-> p, reply |-> receiver.ping]
        /\ sent' = sent /\ sends' = sends
        /\ p # 0
    BY DEF TakeReply, Forgotten
  <1>d. p \in sent /\ SeqOf(p) = n /\ (\A ping \in sent : SeqOf(ping) = n => ping <= p)
    BY <1>a, <1>b, <1>c DEF MapOK
  <1>e. packets \in [Seq16 -> 0 .. MaxSends]
    BY <1>a DEF TypeOK
  <1>n. n = SeqOf(receiver.ping) /\ p = packets[n]
    OBVIOUS
  <1> HIDE DEF n, p
  <1>1. MapOK'
    <2> SUFFICES ASSUME NEW s \in Seq16, packets'[s] # 0
                 PROVE  /\ packets'[s] \in sent' \ matched'
                        /\ SeqOf(packets'[s]) = s
                        /\ \A ping \in sent' : SeqOf(ping) = s => ping <= packets'[s]
      BY DEF MapOK, SeqOf
    <2>1. s # n /\ packets'[s] = packets[s]
      BY <1>b, <1>c, <1>e
    <2>2. /\ packets[s] \in sent \ matched
          /\ SeqOf(packets[s]) = s
          /\ \A ping \in sent : SeqOf(ping) = s => ping <= packets[s]
      BY <1>a, <2>1 DEF MapOK
    <2>3. packets[s] # p
      BY <1>d, <2>1, <2>2
    <2>4. QED BY <1>c, <2>1, <2>2, <2>3
  <1>2. Kept'
    <2> SUFFICES ASSUME NEW ping \in sent
                 PROVE  packets'[SeqOf(ping)] = ping \/ ping \in matched' \/ sends' >= ping + Seqs
      BY <1>c DEF Kept, SeqOf
    <2>1. packets[SeqOf(ping)] = ping \/ ping \in matched \/ sends >= ping + Seqs
      BY <1>a DEF Kept
    <2>2. CASE SeqOf(ping) = n
      BY <1>c, <1>n, <2>1, <2>2
    <2>3. CASE SeqOf(ping) # n
      <3>1. SeqOf(ping) \in Seq16
        BY <1>a, Numbers DEF TypeOK
      <3>2. packets'[SeqOf(ping)] = packets[SeqOf(ping)]
        BY <1>c, <1>e, <2>3, <3>1
      <3>3. QED BY <1>c, <2>1, <3>2
    <2>4. QED BY <2>2, <2>3
  <1>3. Genuine'
    <2>1. p \in Nat /\ p <= sends /\ sends \in Nat
      BY <1>a, <1>d DEF SentOK, TypeOK
    <2>2. receiver.ping <= p
      BY <1>b, <1>d, <1>n
    <2>3. CASE receiver.ping = p
      BY <1>c, <2>3 DEF Genuine
    <2>4. CASE receiver.ping < p
      <3>1. p >= receiver.ping + Seqs
        BY <1>b, <1>d, <1>n, <2>1, <2>4, NumbersApart
      <3>2. sends >= receiver.ping + Seqs
        BY <1>b, <2>1, <3>1
      <3>3. QED BY <1>c, <3>2 DEF Genuine
    <2>5. QED BY <1>b, <2>1, <2>2, <2>3, <2>4
  <1>4. QED BY <1>1, <1>2, <1>3

LEMMA PingNext == PingInv /\ [Next]_vars => PingInv'
  <1> SUFFICES ASSUME PingInv, [Next]_vars PROVE MapOK' /\ Kept' /\ Genuine'
    BY TypeNext, NumberNext DEF PingInv
  <1>a. TypeOK /\ SentOK /\ MapOK /\ Kept /\ Genuine
    BY DEF PingInv
  <1>1. CASE Send
    <2>1. Genuine'
      BY <1>1 DEF Send, Selecting, Genuine
    <2>2. QED BY <1>1, <2>1, SendMaps
  <1>2. CASE SendFails
    <2>1. sends \in Nat /\ sends' = sends + 1 /\ UNCHANGED <<packets, sent, matched, main>>
      BY <1>a, <1>2 DEF TypeOK, SendFails
    <2>2. MapOK'
      BY <1>a, <2>1 DEF MapOK, SeqOf
    <2>3. Genuine'
      BY <1>2 DEF SendFails, Selecting, Genuine
    <2>4. Kept'
      <3>1. \A ping \in sent : sends >= ping + Seqs => sends' >= ping + Seqs
        BY <1>a, <2>1, PingAssumption DEF TypeOK
      <3>2. QED BY <1>a, <2>1, <3>1 DEF Kept, SeqOf
    <2>5. QED BY <2>2, <2>3, <2>4
  <1>3. CASE TakeReply
    BY <1>3, TakeMaps
  <1>4. ASSUME UNCHANGED <<sends, packets, sent, matched>>, main' = main \/ main'.at # "stat"
        PROVE  MapOK' /\ Kept' /\ Genuine'
    BY <1>a, <1>4 DEF MapOK, Kept, Genuine, SeqOf
  <1>5. CASE BadSeq
    BY <1>4, <1>5 DEF BadSeq
  <1>6. CASE SendStat
    BY <1>4, <1>6 DEF SendStat
  <1>7. CASE ReceiverGone \/ HandlePush \/ ConfigClosed
    BY <1>4, <1>7 DEF ReceiverGone, HandlePush, ConfigClosed, Return
  <1>8. CASE Receiver
    BY <1>4, <1>8 DEF Receiver, Receive, ReceiveClosed, ReceiveFails
  <1>9. CASE World
    BY <1>4, <1>9 DEF World, TimerFires, Stop, Push
  <1>10. CASE UNCHANGED pingVars
    BY <1>4, <1>10 DEF pingVars
  <1>11. QED
    BY <1>1, <1>2, <1>3, <1>5, <1>6, <1>7, <1>8, <1>9, <1>10 DEF Next, Loop, vars

LEMMA PingInvariant == Spec => []PingInv
  BY InitInv, PingNext, PTL DEF Spec

-----------------------------------------------------------------------------
(* Every variable of the worker keeps its type. *)
THEOREM TypeCorrect == Spec => []TypeOK
  BY PingInvariant, PTL DEF PingInv

(* The round trip that is reported is that of the packet that was answered,   *)
(* unless the answer came after all the other sequence numbers were used.     *)
THEOREM GenuineReports == Spec => []Genuine
  BY PingInvariant, PTL DEF PingInv

(* An answer is overlooked only if it is a duplicate, or came that late.      *)
THEOREM FewOverlooked == Spec => OverlooksOnlyDuplicates
  <1>1. PingInv /\ [Next]_vars
            => [BadSeq => receiver.ping \in matched \/ sends >= receiver.ping + Seqs]_vars
    <2> SUFFICES ASSUME PingInv, BadSeq
                 PROVE  receiver.ping \in matched \/ sends >= receiver.ping + Seqs
      OBVIOUS
    <2>1. /\ receiver.ping \in sent /\ receiver.ping \in Nat /\ receiver.ping # 0
          /\ packets[SeqOf(receiver.ping)] = 0
      BY DEF PingInv, SentOK, TypeOK, BadSeq
    <2>2. QED BY <2>1 DEF PingInv, Kept
  <1>2. QED BY <1>1, PingInvariant, PTL DEF Spec, OverlooksOnlyDuplicates

(* However often its answer arrives, a packet is reported once.               *)
THEOREM OnceReported == Spec => ReportedOnce
  <1>1. PingInv /\ [Next]_vars => [TakeReply => main'.ping \notin matched]_vars
    <2> SUFFICES ASSUME PingInv, TakeReply PROVE main'.ping \notin matched
      OBVIOUS
    <2> DEFINE s == SeqOf(receiver.ping)
    <2>1. s \in Seq16
      BY Numbers DEF PingInv, TypeOK
    <2>2. packets[s] # 0 /\ main'.ping = packets[s]
      BY DEF TakeReply
    <2>3. QED BY <2>1, <2>2 DEF PingInv, MapOK
  <1>2. QED BY <1>1, PingInvariant, PTL DEF Spec, ReportedOnce

(* What the worker reports reaches InfluxDB in order and at most once.        *)
THEOREM ReportsAreFifo == Spec => IsFifo
  <1>1. Init => StatsInit
    BY DEF Init
  <1>2. Spec => StatsSpec
    BY <1>1, StatsStep, PingInvariant, PTL DEF Spec, StatsSpec
  <1>3. QED BY <1>2, WriterIsFifo

=============================================================================
