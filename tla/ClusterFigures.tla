--------------------------- MODULE ClusterFigures ---------------------------
(***************************************************************************)
(* The figures the pages show of one cluster and where they come from: its *)
(* snapshots reach the worker, which stores a score and a row for every    *)
(* container, and the agent's requests reach the API, which stores rows    *)
(* without usage.  The pages read the latest score or the rows of a day;   *)
(* the what-if page proposes other sizes, which the user may apply.        *)
(***************************************************************************)
EXTENDS SnapshotAnalysis, Sequences

CONSTANTS Inputs,     \* what the containers of the cluster may look like
          Wishes,     \* sizes a request to the what-if page may ask for; 0 is no wish
          MaxPods,    \* bound: containers of the cluster
          MaxScans,   \* bound: snapshots and requests of the agent
          MaxChanges, \* bound: changes of the cluster
          MaxFaults   \* bound: failing writes

ASSUME FiguresAssumption == /\ Inputs \subseteq PodInputs
                            /\ Wishes \subseteq [cpu : Nat, mem : Nat]
                            /\ MaxPods \in Nat
                            /\ MaxScans \in Nat
                            /\ MaxChanges \in Nat
                            /\ MaxFaults \in Nat

None == [none |-> TRUE]

VARIABLES
  cluster,   \* the containers, with their present sizes and usage
  scans,     \* how many times the cluster has been scanned
  stream,    \* snapshots that the worker has not processed, oldest first
  rows,      \* pod_metrics of the last 24 hours: the batches of rows, one per scan
  score,     \* the latest of green_scores, if any
  proposal,  \* what the what-if page answered last, if it still stands
  promise,   \* the waste to expect of scans after the proposal was applied
  changes,   \* how often the cluster has changed
  faults

vars == <<cluster, scans, stream, rows, score, proposal, promise, changes, faults>>

Clusters(S) == UNION {[1..n -> S] : n \in 0..MaxPods}

Init ==
  /\ cluster \in Clusters(Inputs)
  /\ scans = 0
  /\ stream = <<>>
  /\ rows = {}
  /\ score = None
  /\ proposal = None
  /\ promise = None
  /\ changes = 0
  /\ faults = 0

\* A write succeeds, or it fails, which is a fault.
WriteOutcomes(stored) == IF stored THEN UNCHANGED faults
                                   ELSE faults < MaxFaults /\ faults' = faults + 1

(***************************************************************************)
(* What is stored.                                                         *)
(***************************************************************************)

\* A snapshot of the cluster enters the stream.
Publish ==
  /\ scans < MaxScans
  /\ scans' = scans + 1
  /\ stream' = Append(stream, [scan |-> scans + 1, pods |-> cluster])
  /\ UNCHANGED <<cluster, rows, score, proposal, promise, changes, faults>>

Score(snapshot) ==
  [scan |-> snapshot.scan, green |-> ComputeScore(snapshot.pods),
   waste |-> Savings(snapshot.pods)]

\* Process: InsertScore and BulkInsert, each of which may fail; an empty snapshot has no rows.
Process(scored, inserted) ==
  /\ stream # <<>>
  /\ stream' = Tail(stream)
  /\ WriteOutcomes(scored /\ inserted)
  /\ score' = IF scored THEN Score(Head(stream)) ELSE score
  /\ rows' = IF inserted /\ Head(stream).pods # <<>>
             THEN rows \union {[scan |-> Head(stream).scan, pods |-> Head(stream).pods,
                                analyzed |-> TRUE]}
             ELSE rows
  /\ UNCHANGED <<cluster, scans, proposal, promise, changes>>

\* IngestMetrics: a row per container, without usage and without waste.
Ingest(inserted) ==
  /\ scans < MaxScans
  /\ scans' = scans + 1
  /\ inserted \subseteq DOMAIN cluster
  /\ WriteOutcomes(inserted = DOMAIN cluster)
  /\ rows' = IF inserted # {}
             THEN rows \union {[scan |-> scans + 1, pods |-> [i \in inserted |-> cluster[i]],
                                analyzed |-> FALSE]}
             ELSE rows
  /\ UNCHANGED <<cluster, stream, score, proposal, promise, changes>>

\* The oldest rows become older than 24 hours.
Age ==
  /\ \E oldest \in rows : /\ \A batch \in rows : oldest.scan <= batch.scan
                          /\ rows' = rows \ {oldest}
  /\ UNCHANGED <<cluster, scans, stream, score, proposal, promise, changes, faults>>

(***************************************************************************)
(* What the pages show.                                                    *)
(***************************************************************************)

\* Mutant of WasteOf: the rows of containers that are not overprovisioned are left out.
WasteOfOverprovisioned(batch) ==
  IF batch.analyzed
  THEN Total(LAMBDA p : IF 100 * p.cpuP95 < 40 * p.cpuRequest THEN Cost(p) ELSE 0, batch.pods)
  ELSE 0

WasteOf(batch) == IF batch.analyzed THEN Total(Cost, batch.pods) ELSE 0

\* GetWaste: annual_waste_eur
GetWaste == SumFunction([batch \in rows |-> WasteOf(batch)])

\* GetSavings: annual_savings_eur
GetSavings == IF score = None THEN 0 ELSE score.waste

\* Mutant of Advice: nothing is said about containers without limits, or about CPU.
AdviceOnScaling(parts) == IF parts.hpa < 5000 THEN {"add_hpa"} ELSE {}

\* The conditions of GetRecommendations.
Advice(parts) == (IF parts.cpu < 5000 THEN {"rightsizing"} ELSE {})
           \union (IF parts.limits < 8000 THEN {"missing_limits"} ELSE {})
           \union (IF parts.hpa < 5000 THEN {"add_hpa"} ELSE {})

GetRecommendations == IF score = None THEN {} ELSE Advice(score.green.parts)

(***************************************************************************)
(* The what-if page.                                                       *)
(***************************************************************************)

\* AVG over the rows of a day, of those the test selects.
Average(Measure(_), Chosen(_)) ==
  LET batches == {b \in rows : Chosen(b)}
      count == SumFunction([b \in batches |-> Cardinality(DOMAIN b.pods)])
      sum == SumFunction([b \in batches |-> Total(Measure, b.pods)])
  IN IF count = 0 THEN 0 ELSE sum \div count

\* The value, unless it is zero.
Or(value, default) == IF value \in Nat \ {0} THEN value ELSE default

\* The averages of the namespace, which is all of the cluster here.  Usage is NULL in the
\* API's rows; where a column is NULL, or the average 0, the code has values of its own.
Present ==
  [cpuRequest |-> Or(Average(LAMBDA p : p.cpuRequest, LAMBDA b : TRUE), 500),
   memRequest |-> Or(Average(LAMBDA p : p.memRequest, LAMBDA b : TRUE), 512),
   cpuP95 |-> Or(Average(LAMBDA p : p.cpuP95, LAMBDA b : b.analyzed), 50),
   memP95 |-> Or(Average(LAMBDA p : p.memP95, LAMBDA b : b.analyzed), 200),
   hasLimits |-> FALSE, isHPA |-> FALSE, restarts |-> 0]

Resized(p, cpu, mem) == [p EXCEPT !.cpuRequest = cpu, !.memRequest = mem]

\* Mutant of Answer: the savings are what is wasted now.
AnswerAllWaste(present, cpu, mem) ==
  [cpu |-> cpu, mem |-> mem,
   savings |-> Cost(present),
   safe |-> 10 * cpu >= 11 * present.cpuP95 /\ 10 * mem >= 11 * present.memP95]

Answer(present, cpu, mem) ==
  [cpu |-> cpu, mem |-> mem,
   savings |-> Cost(present) - Cost(Resized(present, cpu, mem)),
   safe |-> 10 * cpu >= 11 * present.cpuP95 /\ 10 * mem >= 11 * present.memP95]

\* Every row of the day, and the score, describe the one container there is, and it has
\* sizes and usage: the page takes a zero for a missing figure.
Representative ==
  /\ Len(cluster) = 1
  /\ \A field \in {"cpuRequest", "cpuP95", "memRequest", "memP95"} : cluster[1][field] > 0
  /\ \A batch \in rows : batch.analyzed /\ batch.pods = cluster
  /\ score # None /\ \E batch \in rows : score.scan = batch.scan

\* Simulate
WhatIf(wish) ==
  LET cpu == Or(wish.cpu, CPUOptimal(Present))
      mem == Or(wish.mem, MemOptimal(Present))
  IN /\ proposal' = [answer |-> Answer(Present, cpu, mem),
                     default |-> wish.cpu = 0 /\ wish.mem = 0,
                     waste |-> IF Representative THEN {GetSavings} ELSE {}]
     /\ UNCHANGED <<cluster, scans, stream, rows, score, promise, changes, faults>>

(***************************************************************************)
(* The cluster changes.                                                    *)
(***************************************************************************)

\* A container gets other sizes, or other work.
Redeploy(i, p) ==
  /\ changes < MaxChanges
  /\ changes' = changes + 1
  /\ p # cluster[i]
  /\ cluster' = [cluster EXCEPT ![i] = p]
  /\ proposal' = None
  /\ promise' = None
  /\ UNCHANGED <<scans, stream, rows, score, faults>>

\* The user gives every container the proposed sizes.
Apply ==
  /\ changes < MaxChanges
  /\ changes' = changes + 1
  /\ proposal # None
  /\ cluster' = [i \in DOMAIN cluster |->
                   Resized(cluster[i], proposal.answer.cpu, proposal.answer.mem)]
  /\ promise' = [scan |-> scans,
                 waste |-> {w - proposal.answer.savings : w \in proposal.waste}]
  /\ proposal' = None
  /\ UNCHANGED <<scans, stream, rows, score, faults>>

Next == \/ Publish
        \/ \E scored, inserted \in BOOLEAN : Process(scored, inserted)
        \/ \E inserted \in SUBSET DOMAIN cluster : Ingest(inserted)
        \/ Age
        \/ \E wish \in Wishes : WhatIf(wish)
        \/ \E i \in DOMAIN cluster, p \in Inputs : Redeploy(i, p)
        \/ Apply

Spec == Init /\ [][Next]_vars

(***************************************************************************)
(* Properties.                                                             *)
(***************************************************************************)

Grades == {"A+", "A", "B+", "B", "C", "D", "F", "N/A"}
Percent == {x \in Nat : x <= 10000}
Parts == [cpu : Percent, mem : Percent, node : Percent, hpa : Percent, limits : Percent]

\* Every variable stays in its range; in particular no part of a score leaves 0..100.
TypeOK ==
  /\ cluster \in Seq(PodInputs)
  /\ scans \in 0..MaxScans
  /\ \A s \in DOMAIN stream : stream[s].scan \in 1..scans
  /\ \A batch \in rows : batch.scan \in 1..scans /\ batch.analyzed \in BOOLEAN
  /\ score # None => /\ score.scan \in 1..scans
                     /\ score.green.grade \in Grades
                     /\ score.green.parts \in Parts
  /\ changes \in 0..MaxChanges
  /\ faults \in 0..MaxFaults

\* The score is an average of its parts: never under the worst nor over the best of them
\* (score_engine.go:84, weights.go:4).
ScoreBetweenParts ==
  score # None =>
    /\ \E d \in DOMAIN score.green.parts : 100 * score.green.parts[d] <= score.green.value
    /\ \E d \in DOMAIN score.green.parts : 100 * score.green.parts[d] >= score.green.value

\* The two tables tell the same story: on a day with one scan by the worker, the savings
\* page, from its score, and the waste page, from its rows and those of the API, differ by
\* no more than the rounding of each figure to a cent, if the configured prices are the
\* default ones (processor.go:88, waste.go:31).
TablesAgree ==
  score # None /\ CostPerCPUH = 1 /\ CostPerGBH = 1 =>
    \A batch \in rows :
      batch.scan = score.scan /\ (\A other \in rows : other.analyzed => other = batch) =>
        LET tolerance == Len(batch.pods) + 1
        IN 2 * (GetSavings - GetWaste) \in -tolerance..tolerance

\* What the what-if page promises comes true, if the configured prices are the default
\* ones: once its sizes have been applied, the next scans show the waste of before less
\* the promised savings, to the cent (simulate.go:72, waste_detector.go:44).
PromiseKept ==
  promise # None /\ score # None /\ CostPerCPUH = 1 /\ CostPerGBH = 1 =>
    (score.scan > promise.scan =>
       \A w \in promise.waste : GetSavings - w \in -1..1)

\* The sizes the page proposes by itself are safe by its own standard, and cost nothing,
\* whatever rows it has averaged (simulate.go:61, 72, 76).
DefaultProposalSafe ==
  proposal # None =>
    (proposal.default => proposal.answer.safe /\ proposal.answer.savings >= 0)

\* A failing grade comes with advice: the thresholds of the recommendations and those
\* of the grades fit (recommendations.go:38, score_engine.go:108).
PoorScoreExplained ==
  score # None => (score.green.grade = "F" => GetRecommendations # {})
=============================================================================
