--------------------------- MODULE MCIssueRefresh ---------------------------
(***************************************************************************)
(* The ingest and the diagnostics page on a small instance: as many        *)
(* requests at one time as faults can leave behind, and one more.          *)
(***************************************************************************)
EXTENDS IssueRefresh

ASSUME EnoughHandlers == Cardinality(Handlers) > MaxFaults
=============================================================================
