------------------------------- MODULE MCPing -------------------------------
(* An instance of Ping for TLC: sequence numbers that wrap after a few sends. *)
EXTENDS Ping

MCStats == 1 .. MaxSends

=============================================================================
