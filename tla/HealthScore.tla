----------------------------- MODULE HealthScore -----------------------------
(***************************************************************************)
(* The health score of a list of issues: 100, less a penalty per issue for *)
(* its severity, never below 0.  The agent's registry weighs critical 15,  *)
(* warning 5, info 1 (agent/internal/analyzers/registry.go).               *)
(*                                                                         *)
(* Issues come in lists, one per analyzer: the operators take the family   *)
(* of the lists, a function whose values are sequences of severities, and  *)
(* count places in it, so the order of the lists cannot matter.            *)
(***************************************************************************)
EXTENDS Naturals, Sequences, FiniteSets

Severities == {"critical", "warning", "info"}

\* Where the issues of one severity stand.
Places(lists, severity) ==
  {p \in UNION {{l} \X DOMAIN lists[l] : l \in DOMAIN lists} :
     lists[p[1]][p[2]] = severity}

Count(lists, severity) == Cardinality(Places(lists, severity))

Penalty(lists) ==
  15 * Count(lists, "critical") + 5 * Count(lists, "warning") + Count(lists, "info")

\* computeScore
Score(lists) == IF Penalty(lists) <= 100 THEN 100 - Penalty(lists) ELSE 0
=============================================================================
