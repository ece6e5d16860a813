------------------------ MODULE MCTargetPublication ------------------------
(***************************************************************************)
(* Instances of TargetPublication for TLC.                                  *)
(***************************************************************************)
EXTENDS TargetPublication, TLC

CONSTANTS s1, s2, b1, b2

\* Two accounts bound to one strategy, or a single one.
TwoAccounts == b1 :> s1 @@ b2 :> s1
OneAccount == b1 :> s1

Interchangeable == Permutations(Requests)
=============================================================================
