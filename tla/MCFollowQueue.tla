--------------------------- MODULE MCFollowQueue ---------------------------
(***************************************************************************)
(* Instances of FollowQueue for TLC.                                        *)
(***************************************************************************)
EXTENDS FollowQueue, TLC

CONSTANTS batch, chase

\* One set of parameters of each execution family.
OneOfEach == batch :> "batch_exec" @@ chase :> "chase_exec"

\* Virtual accounts and bindings are interchangeable.
Interchangeable == Permutations(Virtuals) \union Permutations(Strategies)
=============================================================================
