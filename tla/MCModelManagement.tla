-------------------------- MODULE MCModelManagement --------------------------
(***************************************************************************)
(* Two replicas of the API, two models, three requests of any kind.        *)
(***************************************************************************)
EXTENDS ModelManagement, TLC

Alike == Permutations(Requests) \union Permutations(Replicas)
=============================================================================
