--------------------------- MODULE DiagnosisReport ---------------------------
(***************************************************************************)
(* What a run of the analyzers promises, without goroutines, wait group or *)
(* channel: each analyzer ends once with a list of issues, and when all    *)
(* have, one report appears that names each of them once and scores all    *)
(* their issues together.  AnalyzerRegistry implements this module.        *)
(***************************************************************************)
CONSTANTS Analyzers,  \* the registered analyzers, 1..N
          Findings,   \* the lists of severities an analyzer may end with
          Score(_)    \* the score of a family of lists, HealthScore's

VARIABLES ended,      \* the analyzers that have ended
          findings,   \* the list each of them ended with
          order,      \* the analyzers in the order the report names them
          health      \* the report's score, 101 before the report

Unscored == 101

absVars == <<ended, findings, order, health>>

AInit == /\ ended = {}
         /\ findings = [a \in Analyzers |-> <<>>]
         /\ order = <<>>
         /\ health = Unscored

\* Analyzer a ends, with issues or (after an error) without.
End(a, f) == /\ a \notin ended
             /\ ended' = ended \union {a}
             /\ findings' = [findings EXCEPT ![a] = f]
             /\ UNCHANGED <<order, health>>

\* The report names every analyzer exactly once and counts every issue.
Report == /\ ended = Analyzers
          /\ health = Unscored
          /\ order' \in [Analyzers -> Analyzers]
          /\ \A a, b \in Analyzers : order'[a] = order'[b] => a = b
          /\ health' = Score(findings)
          /\ UNCHANGED <<ended, findings>>

ANext == Report \/ \E a \in Analyzers, f \in Findings : End(a, f)

ASpec == AInit /\ [][ANext]_absVars
=============================================================================
