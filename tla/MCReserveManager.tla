-------------------------- MODULE MCReserveManager --------------------------
(***************************************************************************)
(* Instances of ReserveManager for TLC: the ids of the exchange are model   *)
(* values, without symmetry because FairSpec is checked for liveness.       *)
(***************************************************************************)
EXTENDS ReserveManager
=============================================================================
