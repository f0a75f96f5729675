----------------------------- MODULE MCHandlers -----------------------------
(* Instances of Handlers for TLC. *)
EXTENDS Handlers, TLC

CONSTANTS u1, u2, t1, i1, i2, h1, h2

Renamed == Permutations(Handlers)

Both == (u1 :> i1) @@ (u2 :> i1)
Other == (u1 :> i2) @@ (u2 :> NoImage)
MCConfigs == {Both, Other}

(* Any host for both workers, and one for each. *)
Stats(host) == [type |-> t1, host |-> host]
MCSections == {(u1 :> Stats(AnyHost)) @@ (u2 :> Stats(AnyHost)),
               (u1 :> Stats(1)) @@ (u2 :> Stats(2))}

From(host, unit) == [type |-> t1, host |-> host, inst |-> unit]
MCContents == {{From(1, u1)}, {From(1, u1), From(2, u1), From(2, u2)}}

=============================================================================
