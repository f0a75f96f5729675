------------------------------ MODULE StatsFifo ------------------------------
(***************************************************************************)
(* What a worker's statistics writer promises: the statistics it accepts   *)
(* reach InfluxDB in the order in which it accepted them, each at most     *)
(* once, and no more than Depth of them are under way.  One may be refused *)
(* or lost, but never overtaken.                                           *)
(***************************************************************************)
EXTENDS Naturals, Sequences

CONSTANTS Stats,    \* the statistics
          NoStat,
          Depth     \* how many may be under way

VARIABLES accepted, \* how many the worker handed in
          underway, \* those not yet written, oldest first
          stored    \* the last that InfluxDB has taken

Init == accepted = 0 /\ underway = <<>> /\ stored = NoStat

Without(s, i) == [k \in 1 .. Len(s) - 1 |-> IF k < i THEN s[k] ELSE s[k + 1]]

Accept(stat) ==
    /\ Len(underway) < Depth
    /\ accepted' = accepted + 1
    /\ underway' = Append(underway, stat)
    /\ UNCHANGED stored

Refuse ==
    /\ accepted' = accepted + 1
    /\ UNCHANGED <<underway, stored>>

Store ==
    /\ underway # <<>>
    /\ stored' = Head(underway)
    /\ underway' = Tail(underway)
    /\ UNCHANGED accepted

Lose ==
    /\ \E i \in 1 .. Len(underway) : underway' = Without(underway, i)
    /\ UNCHANGED <<accepted, stored>>

Next == (\E stat \in Stats : Accept(stat)) \/ Refuse \/ Store \/ Lose

Spec == Init /\ [][Next]_<<accepted, underway, stored>>

=============================================================================
