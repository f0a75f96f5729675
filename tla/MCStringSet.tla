----------------------------- MODULE MCStringSet -----------------------------
(* Every pair of slices over four strings. *)
EXTENDS StringSet

MCValues == 1 .. 4

=============================================================================
