-------------------------- MODULE SnapshotAnalysis --------------------------
(***************************************************************************)
(* What the worker computes from a snapshot (backend/internal/analyzer):   *)
(* per container the recommended sizes, the waste and its cost, and for    *)
(* the cluster the green score and the savings.  CPU is in millicores,     *)
(* memory in MiB, money in cents a year, a percentage in hundredths of a   *)
(* percent and the score in ten-thousandths; ratios are rounded down, where*)
(* the code uses floating point.                                           *)
(***************************************************************************)
EXTENDS Integers, FiniteSets, Functions

CONSTANTS CostPerCPUH,  \* configured price of CPU, in multiples of the default, 0.05
          CostPerGBH    \* configured price of memory, in multiples of the default, 0.006

ASSUME PriceAssumption == CostPerCPUH \in Nat /\ CostPerGBH \in Nat

PodInputs == [cpuRequest : Nat, cpuP95 : Nat, memRequest : Nat, memP95 : Nat,
              hasLimits : BOOLEAN, isHPA : BOOLEAN, restarts : Nat]

Total(Measure(_), pods) == SumFunction([i \in DOMAIN pods |-> Measure(pods[i])])

Share(Test(_), pods) ==
  (10000 * Cardinality({i \in DOMAIN pods : Test(pods[i])})) \div Cardinality(DOMAIN pods)

Larger(a, b) == IF a >= b THEN a ELSE b

\* clamp
Clamp(v, min, max) == IF v \in min..max THEN v ELSE IF v > max THEN max ELSE min

RoundUp(x, step) == step * ((x + step - 1) \div step)

(***************************************************************************)
(* WasteDetector.Analyze.  A size with its safety buffer of 20 percent is  *)
(* in tenths.                                                              *)
(***************************************************************************)

Ladder == {32, 64, 128, 256, 512, 1024, 2048, 4096}

\* Mutant of RoundCPU: the buffered size is rounded down.
RoundCPUDown(tenths) == IF tenths <= 1000 THEN 10 * (tenths \div 100)
                                          ELSE 50 * (tenths \div 500)

RoundCPU(tenths) == IF tenths <= 1000 THEN RoundUp(tenths, 100) \div 10
                                      ELSE RoundUp(tenths, 500) \div 10

RoundMem(tenths) ==
  IF \E size \in Ladder : tenths <= 10 * size
  THEN CHOOSE size \in Ladder : /\ tenths <= 10 * size
                                /\ \A s \in Ladder : tenths <= 10 * s => size <= s
  ELSE RoundUp(tenths, 5120) \div 10

CPUOptimal(p) == RoundCPU(Larger(12 * p.cpuP95, 100))
MemOptimal(p) == RoundMem(Larger(12 * p.memP95, 320))

CPUWaste(p) == Larger(0, p.cpuRequest - CPUOptimal(p))
MemWaste(p) == Larger(0, p.memRequest - MemOptimal(p))

\* A year of wasted CPU and memory, rounded to the cent: 0.05 euros an hour for a core
\* and 0.006 for a GiB, times the multiples.
YearlyCents(cpu, mem) == (2 * 219 * (128 * cpu + 15 * mem) + 640) \div 1280

\* WasteReport.AnnualCostWasteEur
Cost(p) == YearlyCents(CostPerCPUH * CPUWaste(p), CostPerGBH * MemWaste(p))

(***************************************************************************)
(* ComputeSavings, whose prices are fixed.                                 *)
(***************************************************************************)

Savings(pods) == YearlyCents(Total(CPUWaste, pods), Total(MemWaste, pods))

(***************************************************************************)
(* ComputeScore, as the worker calls it: without the number of nodes.      *)
(***************************************************************************)

\* A container without a request counts as wholly inefficient.
CPURatio(p) == IF p.cpuRequest > 0 THEN (10000 * p.cpuP95) \div p.cpuRequest ELSE 0
MemRatio(p) == IF p.memRequest > 0 THEN (10000 * p.memP95) \div p.memRequest ELSE 0

\* Mutant of CPUEfficiency: the ratio is not clamped.
CPUEfficiencyUnclamped(pods) == (10 * Total(CPURatio, pods)) \div (7 * Cardinality(DOMAIN pods))

CPUEfficiency(pods) ==
  Clamp((10 * Total(CPURatio, pods)) \div (7 * Cardinality(DOMAIN pods)), 0, 10000)
MemEfficiency(pods) ==
  Clamp((4 * Total(MemRatio, pods)) \div (3 * Cardinality(DOMAIN pods)), 0, 10000)
NodePacking == 7000
HPACoverage(pods) == Clamp(Share(LAMBDA p : p.isHPA, pods), 0, 10000)
LimitCompliance(pods) == Clamp(Share(LAMBDA p : p.hasLimits, pods), 0, 10000)

\* Mutant of Weighted: the limits have the weight of the CPU too.
WeightedTwice(b) == 35 * b.cpu + 25 * b.mem + 20 * b.node + 10 * b.hpa + 35 * b.limits

Weighted(b) == 35 * b.cpu + 25 * b.mem + 20 * b.node + 10 * b.hpa + 10 * b.limits

GradeFrom(score) ==
  CASE score >= 900000 -> "A+"
    [] 900000 > score /\ score >= 800000 -> "A"
    [] 800000 > score /\ score >= 700000 -> "B+"
    [] 700000 > score /\ score >= 600000 -> "B"
    [] 600000 > score /\ score >= 450000 -> "C"
    [] 450000 > score /\ score >= 300000 -> "D"
    [] OTHER -> "F"

Breakdown(pods) ==
  [cpu |-> CPUEfficiency(pods), mem |-> MemEfficiency(pods), node |-> NodePacking,
   hpa |-> HPACoverage(pods), limits |-> LimitCompliance(pods)]

Empty == [cpu |-> 0, mem |-> 0, node |-> 0, hpa |-> 0, limits |-> 0]

ComputeScore(pods) ==
  IF DOMAIN pods = {} THEN [value |-> 0, grade |-> "N/A", parts |-> Empty]
  ELSE LET parts == Breakdown(pods)
       IN [value |-> Weighted(parts), grade |-> GradeFrom(Weighted(parts)), parts |-> parts]
=============================================================================
