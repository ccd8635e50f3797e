------------------------- MODULE MCDiagnosticsCache -------------------------
(***************************************************************************)
(* TLC instance of DiagnosticsCache: requests are interchangeable.         *)
(***************************************************************************)
EXTENDS DiagnosticsCache, TLC

RequestSymmetry == Permutations(Requests)
=============================================================================
