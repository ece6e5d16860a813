--------------------------- MODULE MCTargetStore ---------------------------
(***************************************************************************)
(* Instances of TargetStore for TLC.                                        *)
(***************************************************************************)
EXTENDS TargetStore, TLC

\* Strategies are interchangeable, and so are identities.
Interchangeable == Permutations(Strategies) \cup Permutations(Ids)
=============================================================================
