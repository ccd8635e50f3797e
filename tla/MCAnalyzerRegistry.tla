------------------------- MODULE MCAnalyzerRegistry -------------------------
(***************************************************************************)
(* The registry on a small instance: three analyzers that find nothing, a  *)
(* critical issue, or two lesser ones.                                     *)
(***************************************************************************)
EXTENDS AnalyzerRegistry

MCFindings == {<<>>, <<"critical">>, <<"warning", "info">>}
=============================================================================
