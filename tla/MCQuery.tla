------------------------------ MODULE MCQuery ------------------------------
(* An instance of Query for TLC. *)
EXTENDS Query

MCStats == 1 .. MaxQueries

=============================================================================
