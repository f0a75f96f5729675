-------------------------------- MODULE Logs --------------------------------
(***************************************************************************)
(* The log distributor of close's web server (package logs).               *)
(*                                                                         *)
(* Logs.run is one goroutine that takes log lines from writeChan, keeps    *)
(* them all and copies each to the msgChan of every subscriber.  A         *)
(* follower is a websocket with three goroutines: logFollower.run moves    *)
(* messages from msgChan to the follower's own writeChan, dropping and     *)
(* counting what does not fit, websocketWriter sends them to the peer, and *)
(* websocketReader notices that the peer is gone.  Lines are numbered in   *)
(* the order in which run takes them, so a message is its number.          *)
(*                                                                         *)
(* A channel operation is a step of its own; an unbuffered send waits in   *)
(* the sender until run selects it.                                        *)
(***************************************************************************)
EXTENDS Naturals, Sequences

CONSTANTS Writers,      \* goroutines that call Logger.Printf
          Followers,    \* websocket connections
          Buffer,       \* LOGS_BUFFER
          MaxLines      \* bound on the lines logged

ASSUME LogsAssumption == Buffer \in Nat \ {0} /\ MaxLines \in Nat

VARIABLES
    writing,    \* Writers blocked in logWriter.Write
    history,    \* the number of lines in run's history
    subscribers,\* run's map of subscribers
    run,        \* what run does: [at, msg, to]
    conn,       \* of each follower: "none", "subscribing", "open", "closed" by either side
    msgChan,    \* a follower's msgChan: the messages in it
    msgClosed,  \* and whether it is closed
    fwd,        \* logFollower.run: [at, msg, drops]
    writeChan,  \* a follower's writeChan: messages [line, dropped]
    writeClosed,
    reader,     \* websocketReader: "off", "read", "close", "done"
    writer,     \* websocketWriter: "off", "range", "write", "close", "closing", "done"
    seen,       \* history: the last line websocketWriter has taken
    panicked    \* the process died of a close of a closed channel

runVars == <<history, subscribers, run>>
followerVars == <<msgChan, msgClosed, fwd, writeChan, writeClosed>>
socketVars == <<conn, reader, writer, seen>>
vars == <<writing, runVars, followerVars, socketVars, panicked>>

Line == 1 .. MaxLines
Message == [line: Line, dropped: 0 .. MaxLines]

TypeOK ==
    /\ writing \subseteq Writers
    /\ history \in 0 .. MaxLines
    /\ subscribers \subseteq Followers
    /\ run \in [at: {"select", "distribute", "replay"}, msg: 0 .. MaxLines + 1, to: SUBSET Followers]
    /\ conn \in [Followers -> {"none", "subscribing", "open", "closed"}]
    /\ msgChan \in [Followers -> Seq(Line)] /\ \A f \in Followers : Len(msgChan[f]) <= Buffer
    /\ msgClosed \in [Followers -> BOOLEAN]
    /\ fwd \in [Followers -> [at: {"recv", "send", "done"}, msg: 0 .. MaxLines, drops: 0 .. MaxLines]]
    /\ writeChan \in [Followers -> Seq(Message)] /\ \A f \in Followers : Len(writeChan[f]) <= Buffer
    /\ writeClosed \in [Followers -> BOOLEAN]
    /\ reader \in [Followers -> {"off", "read", "close", "done"}]
    /\ writer \in [Followers -> {"off", "range", "write", "close", "closing", "done"}]
    /\ seen \in [Followers -> 0 .. MaxLines]
    /\ panicked \in BOOLEAN

Init ==
    /\ writing = {}
    /\ history = 0
    /\ subscribers = {}
    /\ run = [at |-> "select", msg |-> 0, to |-> {}]
    /\ conn = [f \in Followers |-> "none"]
    /\ msgChan = [f \in Followers |-> <<>>]
    /\ msgClosed = [f \in Followers |-> FALSE]
    /\ fwd = [f \in Followers |-> [at |-> "recv", msg |-> 0, drops |-> 0]]
    /\ writeChan = [f \in Followers |-> <<>>]
    /\ writeClosed = [f \in Followers |-> FALSE]
    /\ reader = [f \in Followers |-> "off"]
    /\ writer = [f \in Followers |-> "off"]
    /\ seen = [f \in Followers |-> 0]
    /\ panicked = FALSE

-----------------------------------------------------------------------------
(* The callers. *)

(* logWriter.Write: blocks until run receives. *)
Write(w) ==
    /\ ~panicked
    /\ w \notin writing
    /\ writing' = writing \cup {w}
    /\ UNCHANGED <<runVars, followerVars, socketVars, panicked>>

(* ServeHTTP and newFollower: logFollower.run starts, then the handler blocks *)
(* until run receives its subscription.                                       *)
Connect(f) ==
    /\ ~panicked
    /\ conn[f] = "none"
    /\ conn' = [conn EXCEPT ![f] = "subscribing"]
    /\ UNCHANGED <<writing, runVars, followerVars, reader, writer, seen, panicked>>

-----------------------------------------------------------------------------
(* Logs.run. *)

Selecting == ~panicked /\ run.at = "select"

(* case msg := <-writeChan *)
TakeLine(w) ==
    /\ Selecting
    /\ w \in writing /\ history < MaxLines
    /\ writing' = writing \ {w}
    /\ history' = history + 1
    /\ run' = [at |-> "distribute", msg |-> history + 1, to |-> subscribers]
    /\ UNCHANGED <<subscribers, followerVars, socketVars, panicked>>

(* A send into a follower's msgChan waits while its buffer is full. *)
SendTo(f, msg) ==
    /\ Len(msgChan[f]) < Buffer
    /\ msgChan' = [msgChan EXCEPT ![f] = Append(@, msg)]

Distribute(f) ==
    /\ ~panicked
    /\ run.at = "distribute" /\ f \in run.to
    /\ SendTo(f, run.msg)
    /\ run' = [run EXCEPT !.to = @ \ {f}]
    /\ UNCHANGED <<writing, history, subscribers, msgClosed, fwd, writeChan, writeClosed,
                   socketVars, panicked>>

(* case writeChan := <-subscribeChan: the handler goes on, run replays history. *)
Subscribe(f) ==
    /\ Selecting
    /\ conn[f] = "subscribing"
    /\ conn' = [conn EXCEPT ![f] = "open"]
    /\ reader' = [reader EXCEPT ![f] = "read"]
    /\ writer' = [writer EXCEPT ![f] = "range"]
    /\ subscribers' = subscribers \cup {f}
    /\ run' = [at |-> "replay", msg |-> 1, to |-> {f}]
    /\ UNCHANGED <<writing, history, followerVars, seen, panicked>>

Replay(f) ==
    /\ ~panicked
    /\ run.at = "replay" /\ f \in run.to
    /\ run.msg <= history
    /\ SendTo(f, run.msg)
    /\ run' = [run EXCEPT !.msg = @ + 1]
    /\ UNCHANGED <<writing, history, subscribers, msgClosed, fwd, writeChan, writeClosed,
                   socketVars, panicked>>

(* The end of either loop. *)
LoopDone == \/ run.at = "distribute" /\ run.to = {}
            \/ run.at = "replay" /\ run.msg > history

Reselect ==
    /\ ~panicked
    /\ LoopDone
    /\ run' = [at |-> "select", msg |-> 0, to |-> {}]
    /\ UNCHANGED <<writing, history, subscribers, followerVars, socketVars, panicked>>

(* case writeChan := <-unsubscribeChan: closing it twice is a panic. *)
Unsubscribe_Kept(f) ==
    subscribers' = subscribers /\ msgClosed' = [msgClosed EXCEPT ![f] = TRUE] /\ panicked' = msgClosed[f]
Unsubscribe_NotClosed(f) ==
    subscribers' = subscribers \ {f} /\ UNCHANGED <<msgClosed, panicked>>
Unsubscribe(f) ==
    /\ subscribers' = subscribers \ {f}
    /\ msgClosed' = [msgClosed EXCEPT ![f] = TRUE]
    /\ panicked' = msgClosed[f]

UnsubscribeReader(f) ==
    /\ Selecting
    /\ reader[f] = "close"
    /\ reader' = [reader EXCEPT ![f] = "done"]
    /\ Unsubscribe(f)
    /\ UNCHANGED <<writing, history, run, conn, msgChan, fwd, writeChan, writeClosed, writer, seen>>

UnsubscribeWriter(f) ==
    /\ Selecting
    /\ writer[f] = "close"
    /\ writer' = [writer EXCEPT ![f] = "closing"]
    /\ Unsubscribe(f)
    /\ UNCHANGED <<writing, history, run, conn, msgChan, fwd, writeChan, writeClosed, reader, seen>>

-----------------------------------------------------------------------------
(* logFollower.run. *)

Receive(f) ==
    /\ ~panicked
    /\ conn[f] # "none" /\ fwd[f].at = "recv"
    /\ msgChan[f] # <<>>
    /\ fwd' = [fwd EXCEPT ![f] = [at |-> "send", msg |-> Head(msgChan[f]), drops |-> @.drops]]
    /\ msgChan' = [msgChan EXCEPT ![f] = Tail(@)]
    /\ UNCHANGED <<writing, runVars, msgClosed, writeChan, writeClosed, socketVars, panicked>>

(* The select with a default: a full writeChan drops the message and counts it. *)
Fits(f) == Len(writeChan[f]) < Buffer

Forward(f) ==
    /\ ~panicked
    /\ fwd[f].at = "send" /\ Fits(f)
    /\ writeChan' = [writeChan EXCEPT ![f] = Append(@, [line |-> fwd[f].msg, dropped |-> fwd[f].drops])]
    /\ fwd' = [fwd EXCEPT ![f] = [at |-> "recv", msg |-> 0, drops |-> 0]]
    /\ UNCHANGED <<writing, runVars, msgChan, msgClosed, writeClosed, socketVars, panicked>>

Drop_Uncounted(f) ==
    /\ ~panicked
    /\ fwd[f].at = "send" /\ ~Fits(f)
    /\ fwd' = [fwd EXCEPT ![f].at = "recv"]
    /\ UNCHANGED <<writing, runVars, msgChan, msgClosed, writeChan, writeClosed, socketVars, panicked>>
Drop_Never(f) == FALSE /\ fwd[f].at = "send"
Drop(f) ==
    /\ ~panicked
    /\ fwd[f].at = "send" /\ ~Fits(f)
    /\ fwd' = [fwd EXCEPT ![f] = [at |-> "recv", msg |-> 0, drops |-> @.drops + 1]]
    /\ UNCHANGED <<writing, runVars, msgChan, msgClosed, writeChan, writeClosed, socketVars, panicked>>

(* The range over msgChan ends once it is closed and drained. *)
FollowerExit(f) ==
    /\ ~panicked
    /\ fwd[f].at = "recv" /\ msgClosed[f] /\ msgChan[f] = <<>>
    /\ fwd' = [fwd EXCEPT ![f].at = "done"]
    /\ writeClosed' = [writeClosed EXCEPT ![f] = TRUE]
    /\ UNCHANGED <<writing, runVars, msgChan, msgClosed, writeChan, socketVars, panicked>>

-----------------------------------------------------------------------------
(* The websocket. *)

PeerClose(f) ==
    /\ ~panicked
    /\ conn[f] = "open"
    /\ conn' = [conn EXCEPT ![f] = "closed"]
    /\ UNCHANGED <<writing, runVars, followerVars, reader, writer, seen, panicked>>

(* ReadMessage fails once the connection is closed, by either side. *)
ReadError(f) ==
    /\ ~panicked
    /\ reader[f] = "read" /\ conn[f] = "closed"
    /\ reader' = [reader EXCEPT ![f] = "close"]
    /\ UNCHANGED <<writing, runVars, followerVars, conn, writer, seen, panicked>>

TakeMessage(f) ==
    /\ ~panicked
    /\ writer[f] = "range" /\ writeChan[f] # <<>>
    /\ seen' = [seen EXCEPT ![f] = Head(writeChan[f]).line]
    /\ writeChan' = [writeChan EXCEPT ![f] = Tail(@)]
    /\ writer' = [writer EXCEPT ![f] = "write"]
    /\ UNCHANGED <<writing, runVars, msgChan, msgClosed, fwd, writeClosed, conn, reader, panicked>>

(* WriteJSON may succeed into a closed connection, and may block for ever. *)
WriteOk(f) ==
    /\ ~panicked
    /\ writer[f] = "write"
    /\ writer' = [writer EXCEPT ![f] = "range"]
    /\ UNCHANGED <<writing, runVars, followerVars, conn, reader, seen, panicked>>

WriteError(f) ==
    /\ ~panicked
    /\ writer[f] = "write" /\ conn[f] = "closed"
    /\ writer' = [writer EXCEPT ![f] = "close"]
    /\ UNCHANGED <<writing, runVars, followerVars, conn, reader, seen, panicked>>

(* The range over writeChan ends, or breaks off once run has taken the         *)
(* unsubscription; the deferred Close ends the connection.                     *)
WriterExit(f) ==
    /\ ~panicked
    /\ \/ writer[f] = "closing"
       \/ writer[f] = "range" /\ writeClosed[f] /\ writeChan[f] = <<>>
    /\ writer' = [writer EXCEPT ![f] = "done"]
    /\ conn' = [conn EXCEPT ![f] = "closed"]
    /\ UNCHANGED <<writing, runVars, followerVars, reader, seen, panicked>>

-----------------------------------------------------------------------------
RunStep == \/ \E w \in Writers : TakeLine(w)
           \/ Reselect
           \/ \E f \in Followers : \/ Distribute(f) \/ Subscribe(f) \/ Replay(f)
                                   \/ UnsubscribeReader(f) \/ UnsubscribeWriter(f)
FollowerStep(f) == Receive(f) \/ Forward(f) \/ Drop(f) \/ FollowerExit(f)
SocketStep(f) == \/ PeerClose(f) \/ ReadError(f) \/ TakeMessage(f)
                 \/ WriteOk(f) \/ WriteError(f) \/ WriterExit(f)

Next == \/ RunStep
        \/ \E w \in Writers : Write(w)
        \/ \E f \in Followers : Connect(f) \/ FollowerStep(f) \/ SocketStep(f)

Spec == Init /\ [][Next]_vars

(***************************************************************************)
(* The Go scheduler runs every goroutine that can run.  Nothing is assumed *)
(* of the peer: the writes to a websocket need never end.  select picks    *)
(* among the ready cases at random, so none is passed over for ever.       *)
(***************************************************************************)
Fairness ==
    /\ WF_vars(Reselect)
    /\ \A w \in Writers : SF_vars(TakeLine(w))
    /\ \A f \in Followers :
          /\ WF_vars(Distribute(f)) /\ WF_vars(Replay(f))
          /\ SF_vars(Subscribe(f)) /\ SF_vars(UnsubscribeReader(f)) /\ SF_vars(UnsubscribeWriter(f))
          /\ WF_vars(FollowerStep(f))
          /\ WF_vars(ReadError(f))

FairSpec == Spec /\ Fairness
-----------------------------------------------------------------------------
(* Where each follower stands in the numbering of the lines. *)

(* The last line put into writeChan, taken from msgChan, sent into msgChan. *)
LastPut(f) == IF writeChan[f] = <<>> THEN seen[f] ELSE writeChan[f][Len(writeChan[f])].line
LastTaken(f) == LastPut(f) + fwd[f].drops + IF fwd[f].at = "send" THEN 1 ELSE 0
LastSent(f) == LastTaken(f) + Len(msgChan[f])

(* Whatever is dropped on the way, a message tells exactly how many lines are *)
(* missing between it and the message before it; the first one, how many are  *)
(* missing since the first line ever logged.                                  *)
DropsExact ==
    \A f \in Followers : \A i \in 1 .. Len(writeChan[f]) :
        writeChan[f][i].line = 1 + writeChan[f][i].dropped
            + IF i = 1 THEN seen[f] ELSE writeChan[f][i - 1].line

(* run never sends into a channel it has closed, which would be a panic too.  *)
NoSendOnClosed == \A f \in run.to : ~msgClosed[f]

(* logWriter.Write "must be goroutine-safe and avoid blocking": a caller is   *)
(* served however slow the followers' peers are.                              *)
WriteReturns == \A w \in Writers :
    w \in writing ~> w \notin writing \/ history = MaxLines \/ panicked

(* Once its peer is gone, a follower's goroutine ends and frees its buffers.  *)
FollowerEnds == \A f \in Followers :
    conn[f] = "closed" ~> fwd[f].at = "done" \/ panicked

(* logs/follower.go:56: close "should be safe to call from multiple           *)
(* goroutines (both reader() and writer())".                                  *)
CloseIsSafe == ~panicked

=============================================================================
