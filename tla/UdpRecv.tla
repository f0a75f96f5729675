------------------------------- MODULE UdpRecv -------------------------------
(***************************************************************************)
(* The UDP receiver (udp.Recv): per sender ID it compares each packet's    *)
(* sequence number with the highest one seen, counts packets, skips and    *)
(* duplicates, and at every tick reports and resets the counters of the    *)
(* senders that advanced and forgets the others.  The senders number their *)
(* packets from 0 up; the network loses, duplicates and reorders them.     *)
(***************************************************************************)
EXTENDS Integers

CONSTANTS IDs,      \* payload IDs, one for each sender
          MaxSeq,   \* bound on the sequence numbers
          MaxDups,  \* bound on the duplicates counted between two reports
          MaxTicks  \* bound on the ticks of the statistics timer

ASSUME UdpRecvAssumption == MaxSeq \in Nat /\ MaxDups \in Nat /\ MaxTicks \in Nat

VARIABLES
    nextSeq,    \* Payload.Seq of each sender's next packet
    network,    \* the packets in flight, [id, seq]; a duplicate stays in flight
    states,     \* recvStates: of each ID known, [seq, start, pseq, count, skips, dups]
    pending,    \* the IDs the current tick's loop has yet to visit
    loop,       \* the select of Run waits for a "packet", or the loop runs: "tick"
    ticks,
    reported    \* history: of each ID, the sums reported since makeState

recvVars == <<nextSeq, network, states, pending, loop, ticks, reported>>

Seqs == 0 .. MaxSeq
Packet == [id: IDs, seq: Seqs]
RecvState == [seq: Seqs, start: Seqs, pseq: Seqs, count: Nat, skips: Nat, dups: Nat]

(* RecvStats as they are initialised and reset: PacketSeq is 0 until a packet *)
(* follows.                                                                   *)
Fresh(seq) == [seq |-> seq, start |-> seq, pseq |-> 0, count |-> 0, skips |-> 0, dups |-> 0]

NoReport == [first |-> 0, count |-> 0, skips |-> 0]

RecvInit ==
    /\ nextSeq = [id \in IDs |-> 0]
    /\ network = {}
    /\ states = [id \in {} |-> Fresh(0)]
    /\ pending = {} /\ loop = "packet" /\ ticks = 0
    /\ reported = [id \in IDs |-> NoReport]

-----------------------------------------------------------------------------
(* The senders and the network. *)

Send(id) ==
    /\ nextSeq[id] <= MaxSeq
    /\ network' = network \cup {[id |-> id, seq |-> nextSeq[id]]}
    /\ nextSeq' = [nextSeq EXCEPT ![id] = @ + 1]
    /\ UNCHANGED <<states, pending, loop, ticks, reported>>

Lose(packet) ==
    /\ network' = network \ {packet}
    /\ UNCHANGED <<nextSeq, states, pending, loop, ticks, reported>>

-----------------------------------------------------------------------------
(* handlePacket. *)

Advance_AllSkipped(state, seq) ==
    [state EXCEPT !.pseq = seq, !.skips = @ + (seq - state.seq), !.count = @ + 1, !.seq = seq]
Advance(state, seq) ==
    [state EXCEPT !.pseq = seq, !.skips = @ + (seq - state.seq - 1), !.count = @ + 1, !.seq = seq]
Duplicate(state) == [state EXCEPT !.dups = @ + 1]
Handle(state, seq) == IF seq > state.seq THEN Advance(state, seq) ELSE Duplicate(state)

With(id, state) == [x \in DOMAIN states \cup {id} |-> IF x = id THEN state ELSE states[x]]

(* The first packet of an ID starts its state (makeState) and is not counted; *)
(* the others are compared with it.  What was received may come again.        *)
Deliver(packet, again) ==
    /\ loop = "packet"
    /\ packet \in network
    /\ network' = IF again THEN network ELSE network \ {packet}
    /\ UNCHANGED <<nextSeq, pending, loop, ticks>>

MakeState(packet, again) ==
    /\ packet.id \notin DOMAIN states
    /\ Deliver(packet, again)
    /\ states' = With(packet.id, Fresh(packet.seq))
    /\ reported' = [reported EXCEPT ![packet.id] =
                       [@ EXCEPT !.first = packet.seq, !.count = 0, !.skips = 0]]

HandlePacket(packet, again) ==
    /\ packet.id \in DOMAIN states
    /\ states[packet.id].dups < MaxDups \/ packet.seq > states[packet.id].seq
    /\ Deliver(packet, again)
    /\ states' = With(packet.id, Handle(states[packet.id], packet.seq))
    /\ UNCHANGED reported

-----------------------------------------------------------------------------
(* The timer: the loop over recvStates blocks on statsChan for each report.  *)

StatsTick ==
    /\ loop = "packet" /\ ticks < MaxTicks
    /\ ticks' = ticks + 1
    /\ pending' = DOMAIN states
    /\ loop' = "tick"
    /\ UNCHANGED <<nextSeq, network, states, reported>>

(* takeStats resets the statistics and keeps the sequence number. *)
Reset_Kept(state) == [state EXCEPT !.start = state.seq, !.pseq = 0]
Reset(state) == Fresh(state.seq)

Alive(state) == state.pseq > state.start

Add(sums, state) == [first |-> sums.first, count |-> sums.count + state.count,
                     skips |-> sums.skips + state.skips]

TakeStats(id) ==
    /\ loop = "tick" /\ id \in pending
    /\ Alive(states[id])
    /\ pending' = pending \ {id}
    /\ reported' = [reported EXCEPT ![id] = Add(@, states[id])]
    /\ states' = With(id, Reset(states[id]))
    /\ UNCHANGED <<nextSeq, network, loop, ticks>>

Forget(id) ==
    /\ loop = "tick" /\ id \in pending
    /\ ~Alive(states[id])
    /\ pending' = pending \ {id}
    /\ states' = [x \in DOMAIN states \ {id} |-> states[x]]
    /\ UNCHANGED <<nextSeq, network, loop, ticks, reported>>

TickDone ==
    /\ loop = "tick" /\ pending = {}
    /\ loop' = "packet"
    /\ UNCHANGED <<nextSeq, network, states, pending, ticks, reported>>

RecvNext ==
    \/ \E id \in IDs : Send(id) \/ TakeStats(id) \/ Forget(id)
    \/ \E packet \in network :
          \/ Lose(packet)
          \/ \E again \in BOOLEAN : MakeState(packet, again) \/ HandlePacket(packet, again)
    \/ StatsTick \/ TickDone

RecvSpec == RecvInit /\ [][RecvNext]_recvVars

-----------------------------------------------------------------------------
RecvTypeOK ==
    /\ nextSeq \in [IDs -> 0 .. MaxSeq + 1]
    /\ network \subseteq Packet
    /\ DOMAIN states \subseteq IDs
    /\ \A id \in DOMAIN states : states[id] \in RecvState
    /\ pending \subseteq DOMAIN states
    /\ loop \in {"packet", "tick"}
    /\ ticks \in 0 .. MaxTicks
    /\ reported \in [IDs -> [first: Seqs, count: Nat, skips: Nat]]

(* A report's packets and skips add up to the sequence numbers it spans, so   *)
(* that PacketWin and PacketLoss are proportions; and a state that reports    *)
(* nothing has counted nothing.                                               *)
Accounting ==
    \A id \in DOMAIN states :
        LET s == states[id]
        IN  /\ Alive(s) => s.pseq = s.seq /\ s.count + s.skips = s.pseq - s.start
            /\ ~Alive(s) => s.seq = s.start /\ s.count = 0 /\ s.skips = 0

(* Nothing falls between two reports: since the packet that started a state,  *)
(* every sequence number up to the last is counted once, received or skipped. *)
Conservation ==
    \A id \in DOMAIN states :
        reported[id].count + reported[id].skips + states[id].count + states[id].skips
            = states[id].seq - reported[id].first

=============================================================================
