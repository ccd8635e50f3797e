-------------------------- MODULE MCClusterFigures --------------------------
(***************************************************************************)
(* TLC instance of ClusterFigures.                                         *)
(***************************************************************************)
EXTENDS ClusterFigures

Input(cpu, cpuP95, mem, memP95, limits, hpa) ==
  [cpuRequest |-> cpu, cpuP95 |-> cpuP95, memRequest |-> mem, memP95 |-> memP95,
   hasLimits |-> limits, isHPA |-> hpa, restarts |-> 0]

\* Idle and too large; busy and too small; without a request for CPU.
MCInputs == {Input(1000, 47, 8192, 333, FALSE, FALSE), Input(200, 410, 100, 3500, TRUE, TRUE),
             Input(0, 85, 4608, 100, FALSE, TRUE)}

\* No wish, and sizes that are too small for most.
MCWishes == {[cpu |-> 0, mem |-> 0], [cpu |-> 333, mem |-> 400]}
=============================================================================
