----------------------------- MODULE MCConfigSub -----------------------------
(* Instances of ConfigSub for TLC. *)
EXTENDS ConfigSub

CONSTANTS a, b, p, q

MCConfigs == {[id |-> a, param |-> p], [id |-> a, param |-> q], [id |-> b, param |-> p]}

=============================================================================
