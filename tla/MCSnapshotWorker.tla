-------------------------- MODULE MCSnapshotWorker --------------------------
(***************************************************************************)
(* The snapshot worker on small instances: the configurations name the     *)
(* replicas, which are model values.  Liveness is checked beside safety,   *)
(* so symmetry of the replicas is not used.                                *)
(***************************************************************************)
EXTENDS SnapshotWorker
=============================================================================
