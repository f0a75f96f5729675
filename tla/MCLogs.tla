------------------------------- MODULE MCLogs -------------------------------
(* Instances of Logs for TLC. *)
EXTENDS Logs, TLC

CONSTANTS w1, w2, f1

=============================================================================
