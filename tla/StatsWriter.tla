----------------------------- MODULE StatsWriter -----------------------------
(***************************************************************************)
(* The statistics writer of a worker process (stats.Writer).               *)
(*                                                                         *)
(* A worker's main loop sends statistics into an unbuffered statsChan.     *)
(* The statsWriter goroutine takes one, passes it as a point through the   *)
(* unbuffered writeChan to the writer goroutine, and waits for a tick of   *)
(* the interval before it takes the next.  The writer goroutine writes     *)
(* each point to InfluxDB by itself.  Workers EXTEND this module: their    *)
(* send into statsChan is one step with Accept.                            *)
(***************************************************************************)
EXTENDS Naturals, Sequences

CONSTANTS Stats,    \* the statistics
          NoStat

ASSUME StatsWriterAssumption == NoStat \notin Stats

VARIABLES
    intake,     \* statsWriter: [at, stat], "range", "send" or "tick"
    writer,     \* writer: [at, stat], "range" or "write"
    tick,       \* a tick waits in the interval's channel
    accepted,   \* history: how many stats statsWriter has taken
    stored      \* history: the last point that InfluxDB took

statsVars == <<intake, writer, tick, accepted, stored>>

Idle == [at |-> "range", stat |-> NoStat]

StatsTypeOK ==
    /\ intake \in [at: {"send"}, stat: Stats] \cup [at: {"range", "tick"}, stat: {NoStat}]
    /\ writer \in [at: {"write"}, stat: Stats] \cup [at: {"range"}, stat: {NoStat}]
    /\ tick \in BOOLEAN
    /\ accepted \in Nat
    /\ stored \in Stats \cup {NoStat}

StatsInit ==
    /\ intake = Idle
    /\ writer = Idle
    /\ tick = FALSE
    /\ accepted = 0
    /\ stored = NoStat

-----------------------------------------------------------------------------
(* statsWriter. *)

(* for stats := range statsChan: the receiving half of the worker's send.     *)
(* NewPoint may refuse what it is given; the interval is waited for anyhow.   *)
Taken(stat) == {[at |-> "send", stat |-> stat], [at |-> "tick", stat |-> NoStat]}

Accept(stat) ==
    /\ intake.at = "range"
    /\ intake' \in Taken(stat)
    /\ accepted' = accepted + 1
    /\ UNCHANGED <<writer, tick, stored>>

(* self.writeChan <- point *)
HandOver_Twice ==
    /\ intake.at = "send" /\ writer.at = "range"
    /\ writer' = [at |-> "write", stat |-> intake.stat]
    /\ UNCHANGED <<intake, tick, accepted, stored>>
HandOver ==
    /\ intake.at = "send" /\ writer.at = "range"
    /\ writer' = [at |-> "write", stat |-> intake.stat]
    /\ intake' = [at |-> "tick", stat |-> NoStat]
    /\ UNCHANGED <<tick, accepted, stored>>

(* <-intervalChan *)
AwaitTick ==
    /\ intake.at = "tick" /\ tick
    /\ intake' = Idle
    /\ tick' = FALSE
    /\ UNCHANGED <<writer, accepted, stored>>

(* time.Tick: the channel holds one tick and further ones are dropped. *)
Tick ==
    /\ ~tick
    /\ tick' = TRUE
    /\ UNCHANGED <<intake, writer, accepted, stored>>

-----------------------------------------------------------------------------
(* writer. *)

Write ==
    /\ writer.at = "write"
    /\ stored' = writer.stat
    /\ writer' = Idle
    /\ UNCHANGED <<intake, tick, accepted>>

(* Either error of writer is logged and the point forgotten. *)
WriteFails_Return ==
    /\ writer.at = "write"
    /\ writer' = [at |-> "done", stat |-> NoStat]
    /\ UNCHANGED <<intake, tick, accepted, stored>>
WriteFails ==
    /\ writer.at = "write"
    /\ writer' = Idle
    /\ UNCHANGED <<intake, tick, accepted, stored>>

IntakeStep == HandOver \/ AwaitTick
WriterStep == Write \/ WriteFails

StatsNext == IntakeStep \/ Tick \/ WriterStep

(* The writer by itself, under any worker. *)
StatsSpec == StatsInit /\ [][StatsNext \/ \E stat \in Stats : Accept(stat)]_statsVars

-----------------------------------------------------------------------------
(* What is on its way to InfluxDB, oldest first. *)
Underway ==
    LET writing == IF writer.at = "write" THEN <<writer.stat>> ELSE <<>>
    IN  IF intake.at = "send" THEN Append(writing, intake.stat) ELSE writing

Fifo == INSTANCE StatsFifo WITH underway <- Underway, Depth <- 2

(* The two goroutines together are a queue of two places that loses points,   *)
(* but keeps their order and repeats none.                                    *)
IsFifo == Fifo!Spec

=============================================================================
