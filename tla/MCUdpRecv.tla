------------------------------ MODULE MCUdpRecv ------------------------------
(* Instances of UdpRecv for TLC. *)
EXTENDS UdpRecv, TLC

CONSTANTS a, b

Symmetry == Permutations(IDs)

=============================================================================
