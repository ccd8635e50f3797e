------------------------ MODULE ClusterFiguresProofs ------------------------
(***************************************************************************)
(* Proofs about ClusterFigures: what a stored score may say, whatever the  *)
(* containers, the prices and the order of events are, and what sizes are  *)
(* recommended, whatever the usage.                                        *)
(***************************************************************************)
EXTENDS ClusterFigures, FiniteSetTheorems, WellFoundedInduction, TLAPS

(***************************************************************************)
(* Sums.  SumFunction takes a set apart element by element; what holds of  *)
(* it is proved by an induction over the subsets of its domain, which      *)
(* rests on the least element of a set of naturals.                        *)
(***************************************************************************)

\* A set of naturals that is not empty has a least element.
LEMMA LeastNatural ==
  ASSUME NEW T, T \subseteq Nat, T # {}
  PROVE  \E n \in T : \A m \in T : n <= m
<1>1. PICK n \in T : \A m \in T : ~ (<<m, n>> \in OpToRel(<, Nat))
  BY NatLessThanWellFounded, WFMin, Zenon
<1>2. \A m \in T : ~ (m < n)
  BY <1>1 DEF OpToRel
<1> QED
  BY <1>2

\* The element by which a set is taken apart.
Picked(s) == CHOOSE x \in s : TRUE

\* g adds up the values of F over every subset of S.
Adds(g, F, S) == g = [s \in SUBSET S |-> IF s = {} THEN 0 ELSE F[Picked(s)] + g[s \ {Picked(s)}]]

LEMMA PickedIn ==
  ASSUME NEW s, s # {}
  PROVE  Picked(s) \in s
BY DEF Picked

\* Without the picked element, a finite set has one element less.
LEMMA OneLess ==
  ASSUME NEW s, IsFiniteSet(s), s # {}
  PROVE  /\ IsFiniteSet(s \ {Picked(s)})
         /\ Cardinality(s) \in Nat \ {0}
         /\ Cardinality(s \ {Picked(s)}) = Cardinality(s) - 1
<1>1. Picked(s) \in s
  BY PickedIn
<1>2. Cardinality(s) \in Nat /\ Cardinality(s) # 0
  BY FS_CardinalityType, FS_EmptySet
<1> QED
  BY <1>1, <1>2, FS_RemoveElement

\* What holds of the empty set, and of any set if it does without the picked element, holds
\* of every subset of a finite set.
LEMMA SubsetInduction ==
  ASSUME NEW S, IsFiniteSet(S), NEW G, {} \in G,
         \A s \in SUBSET S : s # {} /\ s \ {Picked(s)} \in G => s \in G
  PROVE  \A s \in SUBSET S : s \in G
<1> SUFFICES ASSUME NEW bad \in SUBSET S, bad \notin G PROVE FALSE
  OBVIOUS
<1> DEFINE Bad == {s \in SUBSET S : s \notin G}
           Sizes == {Cardinality(s) : s \in Bad}
<1>1. \A s \in SUBSET S : IsFiniteSet(s) /\ Cardinality(s) \in Nat
  BY FS_Subset, FS_CardinalityType
<1>2. Sizes \subseteq Nat /\ Sizes # {}
  BY <1>1
<1>3. PICK n \in Sizes : \A m \in Sizes : n <= m
  <2> HIDE DEF Sizes
  <2> QED BY <1>2, LeastNatural
<1>4. PICK s \in Bad : Cardinality(s) = n
  BY <1>3
<1>5. s # {}
  BY <1>4
<1>6. s \ {Picked(s)} \in SUBSET S /\ Cardinality(s \ {Picked(s)}) = n - 1 /\ n \in Nat
  BY <1>1, <1>4, <1>5, OneLess
<1>7. s \ {Picked(s)} \in G
  <2> SUFFICES ASSUME s \ {Picked(s)} \notin G PROVE FALSE
    OBVIOUS
  <2>1. n - 1 \in Sizes
    BY <1>6
  <2> HIDE DEF Sizes
  <2> QED BY <1>3, <1>6, <2>1
<1> QED
  BY <1>4, <1>5, <1>7

\* Every function on a finite set has its sums.
LEMMA SumExists ==
  ASSUME NEW S, IsFiniteSet(S), NEW F \in [S -> Int]
  PROVE  \E g : Adds(g, F, S)
<1> DEFINE Upto(k) == {s \in SUBSET S : Cardinality(s) <= k}
           Value(g, s) == IF s = {} THEN 0 ELSE F[Picked(s)] + g[s \ {Picked(s)}]
           Good(k) == \E g : /\ DOMAIN g = Upto(k)
                             /\ \A s \in Upto(k) : g[s] = Value(g, s)
           Bad == {k \in Nat : ~ Good(k)}
<1>1. \A s \in SUBSET S : IsFiniteSet(s) /\ Cardinality(s) \in Nat
  BY FS_Subset, FS_CardinalityType
<1>2. Good(0)
  <2> DEFINE g == [s \in Upto(0) |-> 0]
  <2>1. \A s \in Upto(0) : s = {}
    BY <1>1, FS_EmptySet
  <2>2. DOMAIN g = Upto(0) /\ \A s \in Upto(0) : g[s] = Value(g, s)
    BY <2>1
  <2> HIDE DEF g
  <2> QED BY <2>2
<1>3. ASSUME NEW k \in Nat, Good(k)
      PROVE  Good(k + 1)
  <2> HIDE DEF Upto, Value
  <2>1. PICK g : /\ DOMAIN g = Upto(k)
                 /\ \A s \in Upto(k) : g[s] = Value(g, s)
    BY <1>3
  <2> DEFINE h == [s \in Upto(k + 1) |-> Value(g, s)]
  <2>2. \A s \in Upto(k + 1) : s # {} => s \ {Picked(s)} \in Upto(k) /\ s \ {Picked(s)} \in Upto(k + 1)
    BY <1>1, OneLess DEF Upto
  <2>3. \A s \in Upto(k) : s \in Upto(k + 1)
    BY <1>1 DEF Upto
  <2>4. \A s \in Upto(k) : h[s] = g[s]
    BY <2>1, <2>3
  <2>5. \A s \in Upto(k + 1) : h[s] = Value(h, s)
    <3> SUFFICES ASSUME NEW s \in Upto(k + 1) PROVE h[s] = Value(h, s)
      OBVIOUS
    <3>1. h[s] = Value(g, s)
      OBVIOUS
    <3>2. s # {} => h[s \ {Picked(s)}] = g[s \ {Picked(s)}]
      BY <2>2, <2>4
    <3> HIDE DEF h
    <3> QED BY <3>1, <3>2 DEF Value
  <2>6. DOMAIN h = Upto(k + 1)
    OBVIOUS
  <2> HIDE DEF h
  <2> QED BY <2>5, <2>6
<1>4. \A k \in Nat : Good(k)
  <2> HIDE DEF Good
  <2> SUFFICES ASSUME Bad # {} PROVE FALSE
    OBVIOUS
  <2>1. PICK k \in Bad : \A m \in Bad : k <= m
    BY LeastNatural
  <2>2. k # 0 /\ k \in Nat
    BY <1>2, <2>1
  <2>3. k - 1 \in Nat /\ k - 1 \notin Bad
    BY <2>1, <2>2
  <2>4. Good((k - 1) + 1)
    BY <1>3, <2>3
  <2> QED BY <2>1, <2>2, <2>4
<1>5. PICK g : /\ DOMAIN g = Upto(Cardinality(S))
               /\ \A s \in Upto(Cardinality(S)) : g[s] = Value(g, s)
  BY <1>1, <1>4
<1>6. Upto(Cardinality(S)) = SUBSET S
  BY FS_Subset, FS_CardinalityType
<1> DEFINE h == [s \in SUBSET S |-> g[s]]
<1>7. h = [s \in SUBSET S |-> Value(h, s)]
  <2>1. \A s \in SUBSET S : h[s] = g[s]
    OBVIOUS
  <2>2. \A s \in SUBSET S : s # {} => s \ {Picked(s)} \in SUBSET S
    OBVIOUS
  <2>3. \A s \in SUBSET S : h[s] = Value(h, s)
    <3> SUFFICES ASSUME NEW s \in SUBSET S PROVE h[s] = Value(h, s)
      OBVIOUS
    <3>1. g[s] = Value(g, s) /\ h[s] = g[s]
      BY <1>5, <1>6
    <3>2. s # {} => h[s \ {Picked(s)}] = g[s \ {Picked(s)}]
      BY <2>1, <2>2
    <3> HIDE DEF h
    <3> QED BY <3>1, <3>2
  <2>4. DOMAIN h = SUBSET S
    OBVIOUS
  <2>5. h = [s \in SUBSET S |-> h[s]]
    OBVIOUS
  <2> HIDE DEF h, Value
  <2> QED BY <2>3, <2>5
<1>8. Adds(h, F, S)
  <2> HIDE DEF h
  <2> QED BY <1>7 DEF Adds
<1> HIDE DEF h
<1> QED
  BY <1>8

\* SumFunction is such a sum.
LEMMA SumAdds ==
  ASSUME NEW S, IsFiniteSet(S), NEW F \in [S -> Int]
  PROVE  \E g : Adds(g, F, S) /\ SumFunction(F) = g[S]
<1> DEFINE g == CHOOSE g : Adds(g, F, S)
<1>1. SumFunction(F) = (CHOOSE h : Adds(h, F, DOMAIN F))[DOMAIN F]
  BY DEF SumFunction, SumFunctionOnSet, FoldFunctionOnSet, MapThenFoldSet, Adds, Picked
<1>2. DOMAIN F = S
  OBVIOUS
<1>3. SumFunction(F) = g[S]
  BY <1>1, <1>2
<1>4. Adds(g, F, S)
  BY SumExists
<1> QED
  BY <1>3, <1>4

\* What a sum has over the empty set, and what one element adds to it.
LEMMA AddsStep ==
  ASSUME NEW S, NEW F, NEW g, Adds(g, F, S)
  PROVE  /\ g[{}] = 0
         /\ \A s \in SUBSET S : s # {} => /\ Picked(s) \in S /\ Picked(s) \in s
                                          /\ g[s] = F[Picked(s)] + g[s \ {Picked(s)}]
<1>1. \A s \in SUBSET S : g[s] = IF s = {} THEN 0 ELSE F[Picked(s)] + g[s \ {Picked(s)}]
  BY DEF Adds
<1>2. \A s \in SUBSET S : s # {} => Picked(s) \in s
  BY PickedIn
<1> QED
  BY <1>1, <1>2

\* Sums of integers are integers.
LEMMA AddsInt ==
  ASSUME NEW S, IsFiniteSet(S), NEW F \in [S -> Int], NEW g, Adds(g, F, S)
  PROVE  \A s \in SUBSET S : g[s] \in Int
<1> DEFINE G == {s \in SUBSET S : g[s] \in Int}
<1>1. {} \in G
  BY AddsStep
<1>2. ASSUME NEW s \in SUBSET S, s # {}, s \ {Picked(s)} \in G
      PROVE  s \in G
  <2>1. g[s] = F[Picked(s)] + g[s \ {Picked(s)}] /\ Picked(s) \in S
    BY <1>2, AddsStep
  <2>2. g[s \ {Picked(s)}] \in Int
    BY <1>2
  <2> QED BY <2>1, <2>2
<1>3. \A s \in SUBSET S : s \in G
  <2> HIDE DEF G
  <2> QED BY <1>1, <1>2, SubsetInduction
<1> QED
  BY <1>3

\* A sum with one value that is not zero is that value.
LEMMA SumOfOne ==
  ASSUME NEW S, IsFiniteSet(S), NEW F \in [S -> Int], NEW one \in S,
         \A x \in S : x # one => F[x] = 0
  PROVE  SumFunction(F) = F[one]
<1>1. PICK g : Adds(g, F, S) /\ SumFunction(F) = g[S]
  BY SumAdds
<1> DEFINE G == {s \in SUBSET S : g[s] = IF one \in s THEN F[one] ELSE 0}
<1>2. {} \in G
  BY <1>1, AddsStep
<1>3. ASSUME NEW s \in SUBSET S, s # {}, s \ {Picked(s)} \in G
      PROVE  s \in G
  <2>1. /\ g[s] = F[Picked(s)] + g[s \ {Picked(s)}]
        /\ Picked(s) \in S /\ Picked(s) \in s
    BY <1>1, <1>3, AddsStep
  <2>2. CASE Picked(s) = one
    <3>1. g[s \ {Picked(s)}] = 0
      BY <1>3, <2>2
    <3> QED BY <2>1, <2>2, <3>1
  <2>3. CASE Picked(s) # one
    <3>1. g[s \ {Picked(s)}] = IF one \in s THEN F[one] ELSE 0
      BY <1>3, <2>3
    <3>2. F[Picked(s)] = 0
      BY <2>1, <2>3
    <3> QED BY <2>1, <3>1, <3>2
  <2> QED BY <2>2, <2>3
<1>4. \A s \in SUBSET S : s \in G
  <2> HIDE DEF G
  <2> QED BY <1>2, <1>3, SubsetInduction
<1> QED
  BY <1>1, <1>4

\* A sum of equal values is their number times the value.
LEMMA SumOfEqual ==
  ASSUME NEW S, IsFiniteSet(S), NEW F \in [S -> Int], NEW v \in Int,
         \A x \in S : F[x] = v
  PROVE  SumFunction(F) = v * Cardinality(S)
<1>1. PICK g : Adds(g, F, S) /\ SumFunction(F) = g[S]
  BY SumAdds
<1> DEFINE G == {s \in SUBSET S : g[s] = v * Cardinality(s)}
<1>2. {} \in G
  BY <1>1, AddsStep, FS_EmptySet
<1>3. ASSUME NEW s \in SUBSET S, s # {}, s \ {Picked(s)} \in G
      PROVE  s \in G
  <2>1. /\ g[s] = F[Picked(s)] + g[s \ {Picked(s)}]
        /\ Picked(s) \in S
    BY <1>1, <1>3, AddsStep
  <2>2. /\ Cardinality(s) \in Nat \ {0}
        /\ Cardinality(s \ {Picked(s)}) = Cardinality(s) - 1
    BY <1>3, FS_Subset, OneLess
  <2>3. g[s \ {Picked(s)}] = v * (Cardinality(s) - 1)
    BY <1>3, <2>2
  <2>4. \A n \in Nat : v + v * (n - 1) = v * n
    OBVIOUS
  <2>5. g[s] = v * Cardinality(s)
    BY <2>1, <2>2, <2>3, <2>4
  <2> QED BY <2>5
<1>4. \A s \in SUBSET S : s \in G
  <2> HIDE DEF G
  <2> QED BY <1>2, <1>3, SubsetInduction
<1> QED
  BY <1>1, <1>4

\* The amount k is the yearly cost of c and m, in cents, but for n roundings.
Near(k, c, m, n) == /\ 1280 * k - 56064 * c - 6570 * m <= 640 * n
                    /\ 1280 * k - 56064 * c - 6570 * m >= -(640 * n)

\* One more rounded amount is one more rounding.
LEMMA NearAdds ==
  ASSUME NEW c0 \in Int, NEW m0 \in Int, NEW k0 \in Int, NEW n \in Int, Near(k0, c0, m0, n - 1),
         NEW c1 \in Int, NEW m1 \in Int, NEW k1 \in Int, Near(k1, c1, m1, 1)
  PROVE  Near(k1 + k0, c1 + c0, m1 + m0, n)
BY DEF Near

\* A sum of rounded amounts differs from the amount of the sums by a rounding for each.
LEMMA SumOfRounded ==
  ASSUME NEW S, IsFiniteSet(S),
         NEW C \in [S -> Int], NEW M \in [S -> Int], NEW K \in [S -> Int],
         \A x \in S : Near(K[x], C[x], M[x], 1)
  PROVE  /\ SumFunction(C) \in Int /\ SumFunction(M) \in Int /\ SumFunction(K) \in Int
         /\ Near(SumFunction(K), SumFunction(C), SumFunction(M), Cardinality(S))
<1>1. PICK c : Adds(c, C, S) /\ SumFunction(C) = c[S]
  BY SumAdds
<1>2. PICK m : Adds(m, M, S) /\ SumFunction(M) = m[S]
  BY SumAdds
<1>3. PICK k : Adds(k, K, S) /\ SumFunction(K) = k[S]
  BY SumAdds
<1> DEFINE G == {s \in SUBSET S : Near(k[s], c[s], m[s], Cardinality(s))}
<1>4. \A s \in SUBSET S : c[s] \in Int /\ m[s] \in Int /\ k[s] \in Int
  BY <1>1, <1>2, <1>3, AddsInt
<1>5. {} \in G
  <2>1. c[{}] = 0 /\ m[{}] = 0 /\ k[{}] = 0 /\ Cardinality({}) = 0
    BY <1>1, <1>2, <1>3, AddsStep, FS_EmptySet
  <2>2. Near(0, 0, 0, 0)
    BY DEF Near
  <2> QED BY <2>1, <2>2
<1>6. ASSUME NEW s \in SUBSET S, s # {}, s \ {Picked(s)} \in G
      PROVE  s \in G
  <2> DEFINE t == s \ {Picked(s)}
             p == Picked(s)
  <2>1. /\ c[s] = C[p] + c[t] /\ m[s] = M[p] + m[t] /\ k[s] = K[p] + k[t]
        /\ p \in S
    BY <1>1, <1>2, <1>3, <1>6, AddsStep
  <2>2. /\ Cardinality(s) \in Nat \ {0}
        /\ Cardinality(t) = Cardinality(s) - 1
    BY <1>6, FS_Subset, OneLess
  <2>3. Near(k[t], c[t], m[t], Cardinality(s) - 1) /\ t \in SUBSET S
    BY <1>6, <2>2
  <2>4. C[p] \in Int /\ M[p] \in Int /\ K[p] \in Int /\ Near(K[p], C[p], M[p], 1)
    BY <2>1
  <2>5. c[t] \in Int /\ m[t] \in Int /\ k[t] \in Int
    BY <1>4, <2>3
  <2> HIDE DEF t, p
  <2>6. Near(K[p] + k[t], C[p] + c[t], M[p] + m[t], Cardinality(s))
    <3>1. Cardinality(s) \in Int
      BY <2>2
    <3> QED BY <2>3, <2>4, <2>5, <3>1, NearAdds
  <2>7. Near(k[s], c[s], m[s], Cardinality(s))
    BY <2>1, <2>6
  <2> QED BY <2>7
<1>7. \A s \in SUBSET S : s \in G
  <2> HIDE DEF G
  <2> QED BY <1>5, <1>6, SubsetInduction
<1>8. S \in G
  BY <1>7
<1> QED
  BY <1>1, <1>2, <1>3, <1>4, <1>8

(***************************************************************************)
(* The recommended sizes.                                                  *)
(***************************************************************************)

\* RoundUp gives a multiple of the step that covers the size.
LEMMA RoundUpCovers ==
  ASSUME NEW x \in Nat, NEW step \in Nat, step > 0
  PROVE  RoundUp(x, step) \in Nat /\ RoundUp(x, step) >= x
<1> DEFINE q == (x + step - 1) \div step
<1>1. q \in Int /\ step * q <= x + step - 1 /\ x + step - 1 < step * q + step
  OBVIOUS
<1> QED
  BY <1>1 DEF RoundUp

\* roundCPU returns a size that covers the buffered usage, at any usage.
LEMMA RoundCPUCovers ==
  ASSUME NEW tenths \in Nat
  PROVE  RoundCPU(tenths) \in Nat /\ 10 * RoundCPU(tenths) >= tenths
<1>1. CASE tenths <= 1000
  <2> DEFINE q == (tenths + 100 - 1) \div 100
  <2>1. q \in Nat /\ 100 * q >= tenths
    OBVIOUS
  <2>2. RoundCPU(tenths) = 10 * q
    BY <1>1, <2>1 DEF RoundCPU, RoundUp
  <2> QED
    BY <2>1, <2>2
<1>2. CASE tenths > 1000
  <2> DEFINE q == (tenths + 500 - 1) \div 500
  <2>1. q \in Nat /\ 500 * q >= tenths
    OBVIOUS
  <2>2. RoundCPU(tenths) = 50 * q
    BY <1>2, <2>1 DEF RoundCPU, RoundUp
  <2> QED
    BY <2>1, <2>2
<1> QED
  BY <1>1, <1>2

\* roundMem returns a size that covers the buffered usage, on the ladder of sizes, where
\* a least one exists, and above it.
LEMMA RoundMemCovers ==
  ASSUME NEW tenths \in Nat
  PROVE  RoundMem(tenths) \in Nat /\ 10 * RoundMem(tenths) >= tenths
<1> DEFINE Least(size) == /\ tenths <= 10 * size
                          /\ \A s \in Ladder : tenths <= 10 * s => size <= s
<1>1. CASE \E size \in Ladder : tenths <= 10 * size
  <2>1. \E size \in Ladder : Least(size)
    BY <1>1 DEF Ladder
  <2>2. RoundMem(tenths) = CHOOSE size \in Ladder : Least(size)
    BY <1>1 DEF RoundMem
  <2>3. RoundMem(tenths) \in Ladder /\ Least(RoundMem(tenths))
    BY <2>1, <2>2, Zenon
  <2> QED
    BY <2>3 DEF Ladder
<1>2. CASE ~ \E size \in Ladder : tenths <= 10 * size
  <2> DEFINE q == (tenths + 5120 - 1) \div 5120
  <2>1. q \in Nat /\ 5120 * q >= tenths
    OBVIOUS
  <2>2. RoundMem(tenths) = 512 * q
    BY <1>2, <2>1 DEF RoundMem, RoundUp
  <2> QED
    BY <2>1, <2>2
<1> QED
  BY <1>1, <1>2

\* The sizes that Analyze recommends (waste_detector.go:37) cover the usage with its
\* buffer of 20 percent, for every usage: rounding never eats the buffer.
THEOREM OptimalCoversUsage ==
  ASSUME NEW p, p.cpuP95 \in Nat, p.memP95 \in Nat
  PROVE  /\ CPUOptimal(p) \in Nat /\ 10 * CPUOptimal(p) >= 12 * p.cpuP95
         /\ MemOptimal(p) \in Nat /\ 10 * MemOptimal(p) >= 12 * p.memP95
<1>1. /\ Larger(12 * p.cpuP95, 100) \in Nat /\ Larger(12 * p.cpuP95, 100) >= 12 * p.cpuP95
      /\ Larger(12 * p.memP95, 320) \in Nat /\ Larger(12 * p.memP95, 320) >= 12 * p.memP95
  BY DEF Larger
<1>2. CPUOptimal(p) \in Nat /\ 10 * CPUOptimal(p) >= Larger(12 * p.cpuP95, 100)
  BY <1>1, RoundCPUCovers DEF CPUOptimal
<1>3. MemOptimal(p) \in Nat /\ 10 * MemOptimal(p) >= Larger(12 * p.memP95, 320)
  BY <1>1, RoundMemCovers DEF MemOptimal
<1> QED
  BY <1>1, <1>2, <1>3

\* Only the requests of a container change when it is resized.
LEMMA ResizedFields ==
  ASSUME NEW p \in PodInputs, NEW cpu, NEW mem
  PROVE  LET q == Resized(p, cpu, mem)
         IN /\ q.cpuRequest = cpu /\ q.memRequest = mem
            /\ q.cpuP95 = p.cpuP95 /\ q.memP95 = p.memP95
            /\ cpu \in Nat /\ mem \in Nat => q \in PodInputs
BY DEF Resized, PodInputs

\* The sizes the what-if page proposes by itself are safe and save something, whatever
\* sizes and usage it has found (simulate.go:61).
LEMMA DefaultAnswer ==
  ASSUME NEW present \in PodInputs
  PROVE  LET answer == Answer(present, CPUOptimal(present), MemOptimal(present))
         IN answer.safe /\ answer.savings >= 0
<1> DEFINE cpu == CPUOptimal(present)
           mem == MemOptimal(present)
           proposed == Resized(present, cpu, mem)
<1>1. /\ present.cpuP95 \in Nat /\ present.memP95 \in Nat
      /\ present.cpuRequest \in Nat /\ present.memRequest \in Nat
  BY DEF PodInputs
<1>2. cpu \in Nat /\ 10 * cpu >= 12 * present.cpuP95 /\ mem \in Nat /\ 10 * mem >= 12 * present.memP95
  BY <1>1, OptimalCoversUsage
<1>3. /\ proposed.cpuRequest = cpu /\ proposed.memRequest = mem
      /\ proposed.cpuP95 = present.cpuP95 /\ proposed.memP95 = present.memP95
  BY ResizedFields
<1>4. CPUOptimal(proposed) = cpu /\ MemOptimal(proposed) = mem
  BY <1>3 DEF CPUOptimal, MemOptimal
<1>5. Cost(proposed) = 0
  <2>1. CPUWaste(proposed) = 0 /\ MemWaste(proposed) = 0
    BY <1>2, <1>3, <1>4 DEF CPUWaste, MemWaste, Larger
  <2> QED
    BY <2>1, PriceAssumption DEF Cost, YearlyCents
<1>6. Cost(present) \in Nat
  <2>1. CPUWaste(present) \in Nat /\ MemWaste(present) \in Nat
    BY <1>1, <1>2 DEF CPUWaste, MemWaste, Larger
  <2>2. ASSUME NEW c \in Nat, NEW m \in Nat
        PROVE  YearlyCents(c, m) \in Nat
    BY DEF YearlyCents
  <2>3. CostPerCPUH * CPUWaste(present) \in Nat /\ CostPerGBH * MemWaste(present) \in Nat
    BY <2>1, PriceAssumption
  <2> QED
    BY <2>2, <2>3 DEF Cost
<1>7. Answer(present, cpu, mem).savings >= 0
  BY <1>5, <1>6 DEF Answer
<1>8. 10 * cpu >= 11 * present.cpuP95 /\ 10 * mem >= 11 * present.memP95
  <2> HIDE DEF cpu, mem
  <2> QED
    BY <1>1, <1>2
<1>9. Answer(present, cpu, mem).safe
  <2>1. Answer(present, cpu, mem).safe
          = (10 * cpu >= 11 * present.cpuP95 /\ 10 * mem >= 11 * present.memP95)
    BY Zenon DEF Answer
  <2> QED
    BY <1>8, <2>1, Zenon
<1> QED
  BY <1>7, <1>9

(***************************************************************************)
(* The score of any containers.                                            *)
(***************************************************************************)

\* clamp never leaves its bounds.
LEMMA ClampBounds ==
  ASSUME NEW v, NEW max \in Nat
  PROVE  Clamp(v, 0, max) \in Nat /\ Clamp(v, 0, max) <= max
BY DEF Clamp

\* The parts that ComputeScore gives any containers are percentages.
LEMMA PartsTyped ==
  ASSUME NEW pods
  PROVE  /\ CPUEfficiency(pods) \in Percent
         /\ MemEfficiency(pods) \in Percent
         /\ HPACoverage(pods) \in Percent
         /\ LimitCompliance(pods) \in Percent
<1>1. CPUEfficiency(pods) \in Percent
  <2> DEFINE v == (10 * Total(CPURatio, pods)) \div (7 * Cardinality(DOMAIN pods))
  <2> HIDE DEF v
  <2>1. CPUEfficiency(pods) = Clamp(v, 0, 10000)
    BY DEF CPUEfficiency, v
  <2> QED
    BY <2>1, ClampBounds DEF Percent
<1>2. MemEfficiency(pods) \in Percent
  <2> DEFINE v == (4 * Total(MemRatio, pods)) \div (3 * Cardinality(DOMAIN pods))
  <2> HIDE DEF v
  <2>1. MemEfficiency(pods) = Clamp(v, 0, 10000)
    BY DEF MemEfficiency, v
  <2> QED
    BY <2>1, ClampBounds DEF Percent
<1>3. HPACoverage(pods) \in Percent
  <2> DEFINE v == Share(LAMBDA p : p.isHPA, pods)
  <2> HIDE DEF v
  <2>1. HPACoverage(pods) = Clamp(v, 0, 10000)
    BY DEF HPACoverage, v
  <2> QED
    BY <2>1, ClampBounds DEF Percent
<1>4. LimitCompliance(pods) \in Percent
  <2> DEFINE v == Share(LAMBDA p : p.hasLimits, pods)
  <2> HIDE DEF v
  <2>1. LimitCompliance(pods) = Clamp(v, 0, 10000)
    BY DEF LimitCompliance, v
  <2> QED
    BY <2>1, ClampBounds DEF Percent
<1> QED
  BY <1>1, <1>2, <1>3, <1>4

\* A weighted sum lies between the least and the greatest of its parts, and if no part of
\* it gives rise to a recommendation, it is 44.5 at least.
LEMMA WeightedBetween ==
  ASSUME NEW c \in Percent, NEW m \in Percent, NEW n \in Percent, NEW h \in Percent,
         NEW l \in Percent,
         NEW b, b = [cpu |-> c, mem |-> m, node |-> n, hpa |-> h, limits |-> l]
  PROVE  /\ Weighted(b) \in Int
         /\ \E d \in DOMAIN b : 100 * b[d] <= Weighted(b)
         /\ \E d \in DOMAIN b : 100 * b[d] >= Weighted(b)
         /\ n = 7000 /\ Advice(b) = {} => Weighted(b) >= 445000
<1> DEFINE w == 35 * c + 25 * m + 20 * n + 10 * h + 10 * l
<1>1. /\ b.cpu = c /\ b.mem = m /\ b.node = n /\ b.hpa = h /\ b.limits = l
      /\ DOMAIN b = {"cpu", "mem", "node", "hpa", "limits"}
  OBVIOUS
<1>2. \A x \in Percent : x \in Int /\ 0 <= x
  BY DEF Percent
<1>3. Weighted(b) = w /\ w \in Int
  BY <1>1, <1>2 DEF Weighted
<1>4. \/ 100 * c <= w \/ 100 * m <= w \/ 100 * n <= w \/ 100 * h <= w \/ 100 * l <= w
  BY <1>2
<1>5. \/ 100 * c >= w \/ 100 * m >= w \/ 100 * n >= w \/ 100 * h >= w \/ 100 * l >= w
  BY <1>2
<1>6. ASSUME n = 7000, Advice(b) = {}
      PROVE  w >= 445000
  <2>1. c >= 5000 /\ l >= 8000 /\ h >= 5000
    BY <1>1, <1>2, <1>6 DEF Advice
  <2> QED
    BY <1>2, <1>6, <2>1
<1> HIDE DEF w
<1>7. \E d \in DOMAIN b : 100 * b[d] <= w
  BY <1>1, <1>4
<1>8. \E d \in DOMAIN b : 100 * b[d] >= w
  BY <1>1, <1>5
<1> QED
  BY <1>3, <1>6, <1>7, <1>8

\* Every score has a grade, and only scores under 30 fail.
LEMMA GradeTyped ==
  ASSUME NEW value \in Int
  PROVE  GradeFrom(value) \in Grades /\ (GradeFrom(value) = "F" => value < 300000)
BY DEF GradeFrom, Grades

\* Whatever the containers, the score has a grade, lies between its parts, and if it fails,
\* a recommendation follows from its parts.
LEMMA EveryScore ==
  ASSUME NEW pods, NEW s, s = ComputeScore(pods)
  PROVE  /\ s.grade \in Grades
         /\ s.parts \in Parts
         /\ \E d \in DOMAIN s.parts : 100 * s.parts[d] <= s.value
         /\ \E d \in DOMAIN s.parts : 100 * s.parts[d] >= s.value
         /\ s.grade = "F" => Advice(s.parts) # {}
<1>1. CASE DOMAIN pods = {}
  <2>1. s.value = 0 /\ s.grade = "N/A" /\ s.parts = Empty
    BY <1>1 DEF ComputeScore
  <2>2. 0 \in Percent
    BY DEF Percent
  <2>3. Empty \in Parts /\ Empty.cpu = 0 /\ "cpu" \in DOMAIN Empty
    BY <2>2 DEF Empty, Parts
  <2> QED
    BY <2>1, <2>3 DEF Grades
<1>2. CASE DOMAIN pods # {}
  <2> DEFINE parts == Breakdown(pods)
  <2>1. /\ s.value = Weighted(parts)
        /\ s.grade = GradeFrom(Weighted(parts))
        /\ s.parts = parts
    BY <1>2 DEF ComputeScore
  <2>2. parts = [cpu |-> CPUEfficiency(pods), mem |-> MemEfficiency(pods), node |-> 7000,
                 hpa |-> HPACoverage(pods), limits |-> LimitCompliance(pods)]
    BY DEF Breakdown, NodePacking
  <2>3. 7000 \in Percent
    BY DEF Percent
  <2> HIDE DEF parts
  <2>4. parts \in Parts
    BY <2>2, <2>3, PartsTyped DEF Parts
  <2>5. /\ Weighted(parts) \in Int
        /\ \E d \in DOMAIN parts : 100 * parts[d] <= Weighted(parts)
        /\ \E d \in DOMAIN parts : 100 * parts[d] >= Weighted(parts)
        /\ Advice(parts) = {} => Weighted(parts) >= 445000
    BY <2>2, <2>3, PartsTyped, WeightedBetween
  <2> QED
    BY <2>1, <2>4, <2>5, GradeTyped
<1> QED
  BY <1>1, <1>2

(***************************************************************************)
(* The invariant.  A stored score was computed from some containers, which *)
(* is all that its three properties need; that the proposed sizes are      *)
(* numbers keeps the cluster well-typed when they are applied.             *)
(***************************************************************************)

Snapshots == [scan : Nat, pods : Seq(PodInputs)]

ProposalTyped ==
  proposal # None => proposal.answer.cpu \in Nat /\ proposal.answer.mem \in Nat

IInv ==
  /\ stream \in Seq(Snapshots)
  /\ TypeOK
  /\ ProposalTyped
  /\ ScoreBetweenParts
  /\ PoorScoreExplained
  /\ DefaultProposalSafe

\* The averages, or the values that stand for missing ones, describe a container.
LEMMA PresentTyped == Present \in PodInputs
<1> DEFINE c == Average(LAMBDA p : p.cpuRequest, LAMBDA b : TRUE)
           m == Average(LAMBDA p : p.memRequest, LAMBDA b : TRUE)
           cu == Average(LAMBDA p : p.cpuP95, LAMBDA b : b.analyzed)
           mu == Average(LAMBDA p : p.memP95, LAMBDA b : b.analyzed)
<1> HIDE DEF c, m, cu, mu
<1>1. Present = [cpuRequest |-> Or(c, 500), memRequest |-> Or(m, 512),
                 cpuP95 |-> Or(cu, 50), memP95 |-> Or(mu, 200),
                 hasLimits |-> FALSE, isHPA |-> FALSE, restarts |-> 0]
  BY DEF Present, c, m, cu, mu
<1>2. \A value : \A default \in Nat : Or(value, default) \in Nat
  BY DEF Or
<1> QED
  BY <1>1, <1>2 DEF PodInputs

\* What a fresh score satisfies.
LEMMA FreshScore ==
  ASSUME NEW snapshot, NEW s, s = Score(snapshot)
  PROVE  /\ s.scan = snapshot.scan
         /\ s.green.grade \in Grades
         /\ s.green.parts \in Parts
         /\ \E d \in DOMAIN s.green.parts : 100 * s.green.parts[d] <= s.green.value
         /\ \E d \in DOMAIN s.green.parts : 100 * s.green.parts[d] >= s.green.value
         /\ s.green.grade = "F" => Advice(s.green.parts) # {}
<1>1. s.scan = snapshot.scan /\ s.green = ComputeScore(snapshot.pods)
  BY DEF Score
<1> QED
  BY <1>1, EveryScore

\* What a fresh answer of the what-if page satisfies.
LEMMA FreshProposal ==
  ASSUME NEW wish \in Wishes, WhatIf(wish)
  PROVE  ProposalTyped' /\ DefaultProposalSafe'
<1> DEFINE cpu == Or(wish.cpu, CPUOptimal(Present))
           mem == Or(wish.mem, MemOptimal(Present))
           answer == Answer(Present, cpu, mem)
           default == wish.cpu = 0 /\ wish.mem = 0
<1>1. proposal'.answer = answer /\ proposal'.default = default
  BY DEF WhatIf
<1>2. Present \in PodInputs /\ Present.cpuP95 \in Nat /\ Present.memP95 \in Nat
  BY PresentTyped DEF PodInputs
<1>3. CPUOptimal(Present) \in Nat /\ MemOptimal(Present) \in Nat
  BY <1>2, OptimalCoversUsage
<1>4. answer.cpu \in Nat /\ answer.mem \in Nat
  <2>1. answer.cpu = cpu /\ answer.mem = mem
    BY DEF Answer
  <2>2. cpu \in Nat /\ mem \in Nat
    BY <1>3 DEF Or
  <2> QED
    BY <2>1, <2>2
<1>5. ASSUME default
      PROVE  answer.safe /\ answer.savings >= 0
  <2>1. cpu = CPUOptimal(Present) /\ mem = MemOptimal(Present)
    BY <1>5 DEF Or
  <2>2. answer = Answer(Present, CPUOptimal(Present), MemOptimal(Present))
    BY <2>1
  <2> HIDE DEF answer
  <2> QED
    BY <1>2, <2>2, DefaultAnswer
<1> HIDE DEF answer, default
<1> QED
  BY <1>1, <1>4, <1>5 DEF ProposalTyped, DefaultProposalSafe

LEMMA InitInv == Init => IInv
<1> SUFFICES ASSUME Init PROVE IInv
  OBVIOUS
<1>1. cluster \in Seq(PodInputs)
  <2>1. PICK n \in 0..MaxPods : cluster \in [1..n -> Inputs]
    BY DEF Init, Clusters
  <2>2. cluster \in [1..n -> PodInputs]
    BY <2>1, FiguresAssumption
  <2> QED
    BY <2>1, <2>2, FiguresAssumption
<1> QED
  BY <1>1, FiguresAssumption
     DEF Init, IInv, TypeOK, ProposalTyped, ScoreBetweenParts, PoorScoreExplained,
         DefaultProposalSafe, None

LEMMA NextInv == IInv /\ [Next]_vars => IInv'
<1> SUFFICES ASSUME IInv, [Next]_vars PROVE IInv'
  OBVIOUS
<1> USE FiguresAssumption
<1>0. /\ stream \in Seq(Snapshots) /\ TypeOK /\ ProposalTyped
      /\ ScoreBetweenParts /\ PoorScoreExplained /\ DefaultProposalSafe
  BY DEF IInv
<1>1. CASE Publish
  <2>1. [scan |-> scans + 1, pods |-> cluster] \in Snapshots
    BY <1>0 DEF TypeOK, Snapshots
  <2>2. stream' \in Seq(Snapshots)
    BY <1>0, <1>1, <2>1 DEF Publish
  <2>3. \A s \in DOMAIN stream' : stream'[s].scan \in 1..scans'
    BY <1>0, <1>1 DEF Publish, TypeOK
  <2>4. TypeOK'
    BY <1>0, <1>1, <2>3 DEF Publish, TypeOK
  <2> QED
    BY <1>0, <1>1, <2>2, <2>4
       DEF Publish, IInv, ProposalTyped, ScoreBetweenParts, PoorScoreExplained,
           GetRecommendations, DefaultProposalSafe
<1>2. ASSUME NEW scored \in BOOLEAN, NEW inserted \in BOOLEAN, Process(scored, inserted)
      PROVE  IInv'
  <2>1. /\ Head(stream) = stream[1] /\ 1 \in DOMAIN stream
        /\ stream' \in Seq(Snapshots)
        /\ \A s \in DOMAIN stream' : s + 1 \in DOMAIN stream /\ stream'[s] = stream[s + 1]
    BY <1>0, <1>2 DEF Process
  <2>2. /\ \A s \in DOMAIN stream' : stream'[s].scan \in 1..scans
        /\ Head(stream).scan \in 1..scans
    BY <1>0, <2>1 DEF TypeOK
  <2>3. \A batch \in rows' : batch.scan \in 1..scans /\ batch.analyzed \in BOOLEAN
    <3> DEFINE new == [scan |-> Head(stream).scan, pods |-> Head(stream).pods,
                       analyzed |-> TRUE]
    <3>1. new.scan \in 1..scans /\ new.analyzed \in BOOLEAN
      BY <2>2
    <3>2. rows' = rows \/ rows' = rows \union {new}
      BY <1>2 DEF Process
    <3> HIDE DEF new
    <3> QED
      BY <1>0, <3>1, <3>2 DEF TypeOK
  <2>4. CASE scored
    <3>1. score' = Score(Head(stream))
      BY <1>2, <2>4 DEF Process
    <3>2. /\ score'.scan \in 1..scans
          /\ score'.green.grade \in Grades
          /\ score'.green.parts \in Parts
      BY <2>2, <3>1, FreshScore
    <3>3. ScoreBetweenParts' /\ PoorScoreExplained'
      BY <3>1, FreshScore DEF ScoreBetweenParts, PoorScoreExplained, GetRecommendations
    <3>4. TypeOK'
      BY <1>0, <1>2, <2>2, <2>3, <3>2 DEF Process, WriteOutcomes, TypeOK
    <3> QED
      BY <1>0, <1>2, <2>1, <3>3, <3>4
         DEF Process, IInv, ProposalTyped, DefaultProposalSafe
  <2>5. CASE ~scored
    <3>1. score' = score
      BY <1>2, <2>5 DEF Process
    <3>2. TypeOK'
      BY <1>0, <1>2, <2>2, <2>3, <3>1 DEF Process, WriteOutcomes, TypeOK
    <3> QED
      BY <1>0, <1>2, <2>1, <3>1, <3>2
         DEF Process, IInv, ProposalTyped, DefaultProposalSafe, ScoreBetweenParts,
             PoorScoreExplained, GetRecommendations
  <2> QED
    BY <2>4, <2>5
<1>3. ASSUME NEW inserted \in SUBSET DOMAIN cluster, Ingest(inserted)
      PROVE  IInv'
  <2>1. /\ scans \in 0..MaxScans /\ scans' = scans + 1 /\ scans' \in 0..MaxScans
        /\ UNCHANGED <<cluster, stream, score, changes>>
        /\ faults' \in 0..MaxFaults
    BY <1>0, <1>3 DEF Ingest, WriteOutcomes, TypeOK
  <2>2. \A batch \in rows' : batch.scan \in 1..scans' /\ batch.analyzed \in BOOLEAN
    <3> DEFINE new == [scan |-> scans + 1, pods |-> [i \in inserted |-> cluster[i]],
                       analyzed |-> FALSE]
    <3>1. new.scan \in 1..scans' /\ new.analyzed \in BOOLEAN
      BY <2>1
    <3>2. rows' = rows \/ rows' = rows \union {new}
      BY <1>3 DEF Ingest
    <3> HIDE DEF new
    <3>3. \A batch \in rows : batch.scan \in 1..scans' /\ batch.analyzed \in BOOLEAN
      BY <1>0, <2>1 DEF TypeOK
    <3> QED
      BY <3>1, <3>2, <3>3
  <2>3. TypeOK'
    BY <1>0, <2>1, <2>2 DEF TypeOK
  <2> QED
    BY <1>0, <1>3, <2>3
       DEF Ingest, IInv, ProposalTyped, ScoreBetweenParts, PoorScoreExplained,
           GetRecommendations, DefaultProposalSafe
<1>4. CASE Age
  <2>1. TypeOK'
    BY <1>0, <1>4 DEF Age, TypeOK
  <2> QED
    BY <1>0, <1>4, <2>1
       DEF Age, IInv, ProposalTyped, ScoreBetweenParts, PoorScoreExplained,
           GetRecommendations, DefaultProposalSafe
<1>5. ASSUME NEW wish \in Wishes, WhatIf(wish)
      PROVE  IInv'
  <2>1. UNCHANGED <<cluster, scans, stream, rows, score, changes, faults>>
    BY <1>5 DEF WhatIf
  <2>2. TypeOK'
    BY <1>0, <2>1 DEF TypeOK
  <2> QED
    BY <1>0, <1>5, <2>1, <2>2, FreshProposal
       DEF IInv, ScoreBetweenParts, PoorScoreExplained, GetRecommendations
<1>6. ASSUME NEW i \in DOMAIN cluster, NEW p \in Inputs, Redeploy(i, p)
      PROVE  IInv'
  <2>1. cluster' \in Seq(PodInputs)
    BY <1>0, <1>6 DEF Redeploy, TypeOK
  <2>2. TypeOK'
    BY <1>0, <1>6, <2>1 DEF Redeploy, TypeOK
  <2> QED
    BY <1>0, <1>6, <2>2
       DEF Redeploy, IInv, ProposalTyped, ScoreBetweenParts, PoorScoreExplained,
           GetRecommendations, DefaultProposalSafe
<1>7. CASE Apply
  <2> DEFINE cpu == proposal.answer.cpu
             mem == proposal.answer.mem
  <2>1. cpu \in Nat /\ mem \in Nat
    BY <1>0, <1>7 DEF Apply, ProposalTyped
  <2>2. \A i \in DOMAIN cluster : Resized(cluster[i], cpu, mem) \in PodInputs
    BY <1>0, <2>1, ResizedFields DEF TypeOK
  <2>3. cluster' \in Seq(PodInputs)
    <3>1. cluster' = [i \in DOMAIN cluster |-> Resized(cluster[i], cpu, mem)]
      BY <1>7 DEF Apply
    <3>2. PICK n \in Nat : DOMAIN cluster = 1..n
      BY <1>0 DEF TypeOK
    <3> QED
      BY <2>2, <3>1, <3>2
  <2>4. TypeOK'
    BY <1>0, <1>7, <2>3 DEF Apply, TypeOK
  <2> QED
    BY <1>0, <1>7, <2>4
       DEF Apply, IInv, ProposalTyped, ScoreBetweenParts, PoorScoreExplained,
           GetRecommendations, DefaultProposalSafe
<1>8. CASE UNCHANGED vars
  BY <1>0, <1>8
     DEF vars, IInv, TypeOK, ProposalTyped, ScoreBetweenParts, PoorScoreExplained,
         GetRecommendations, DefaultProposalSafe
<1> QED
  BY <1>1, <1>2, <1>3, <1>4, <1>5, <1>6, <1>7, <1>8 DEF Next

(***************************************************************************)
(* The theorems.                                                           *)
(***************************************************************************)

LEMMA SpecInv == Spec => []IInv
BY InitInv, NextInv, PTL DEF Spec

\* Every variable stays in its range, for every cluster; in particular every part of every
\* score is a percentage (score_engine.go:43), whatever the requests and the usage.
THEOREM TypeCorrect == Spec => []TypeOK
<1>1. IInv => TypeOK
  BY DEF IInv
<1> QED
  BY SpecInv, <1>1, PTL

\* Every stored score lies between the least and the greatest of its parts
\* (score_engine.go:84).
THEOREM ScoreIsAverage == Spec => []ScoreBetweenParts
<1>1. IInv => ScoreBetweenParts
  BY DEF IInv
<1> QED
  BY SpecInv, <1>1, PTL

\* No cluster gets a failing grade (score_engine.go:114) without a recommendation
\* (recommendations.go:38).
THEOREM PoorScoreAdvised == Spec => []PoorScoreExplained
<1>1. IInv => PoorScoreExplained
  BY DEF IInv
<1> QED
  BY SpecInv, <1>1, PTL

\* Whatever rows the what-if page averages, the sizes it proposes by itself pass its own
\* test and do not cost more (simulate.go:61, 76).
THEOREM DefaultProposalIsSafe == Spec => []DefaultProposalSafe
<1>1. IInv => DefaultProposalSafe
  BY DEF IInv
<1> QED
  BY SpecInv, <1>1, PTL

(***************************************************************************)
(* The two tables.  Scans are numbered, so that a row and a score with the *)
(* same number come from one snapshot; what they say of its waste differs  *)
(* by the roundings.                                                       *)
(***************************************************************************)

RowsInv ==
  /\ IsFiniteSet(rows)
  /\ \A batch \in rows : batch.analyzed => batch.pods \in Seq(PodInputs)

ScanInv ==
  /\ \A i, j \in DOMAIN stream : stream[i].scan = stream[j].scan => i = j
  /\ \A i \in DOMAIN stream : /\ score # None => score.scan # stream[i].scan
                              /\ \A batch \in rows : batch.scan # stream[i].scan
  /\ score # None => \A batch \in rows : batch.scan = score.scan =>
       batch.analyzed /\ score.waste = Savings(batch.pods)

\* The waste of a container is a number of millicores and of MiB.
LEMMA WasteTyped ==
  ASSUME NEW p \in PodInputs
  PROVE  CPUWaste(p) \in Nat /\ MemWaste(p) \in Nat
<1>1. p.cpuP95 \in Nat /\ p.memP95 \in Nat /\ p.cpuRequest \in Nat /\ p.memRequest \in Nat
  BY DEF PodInputs
<1>2. CPUOptimal(p) \in Nat /\ MemOptimal(p) \in Nat
  BY <1>1, OptimalCoversUsage
<1> QED
  BY <1>1, <1>2 DEF CPUWaste, MemWaste, Larger

\* An amount of money is rounded once.
LEMMA YearlyNear ==
  ASSUME NEW c \in Int, NEW m \in Int
  PROVE  YearlyCents(c, m) \in Int /\ Near(YearlyCents(c, m), c, m, 1)
<1> DEFINE x == 2 * 219 * (128 * c + 15 * m) + 640
           q == x \div 1280
<1>1. x = 56064 * c + 6570 * m + 640
  OBVIOUS
<1>2. x \in Int
  OBVIOUS
<1> HIDE DEF x
<1>3. q \in Int /\ 1280 * q <= x /\ x < 1280 * q + 1280
  BY <1>2
<1>4. YearlyCents(c, m) = q
  BY DEF YearlyCents, x
<1> HIDE DEF q
<1> QED
  BY <1>1, <1>3, <1>4 DEF Near

DefaultPrices == CostPerCPUH = 1 /\ CostPerGBH = 1

\* At the default prices, the cost of a container is its waste, rounded once.
LEMMA CostNear ==
  ASSUME DefaultPrices, NEW p \in PodInputs
  PROVE  /\ Cost(p) = YearlyCents(CPUWaste(p), MemWaste(p))
         /\ Cost(p) \in Int /\ Near(Cost(p), CPUWaste(p), MemWaste(p), 1)
<1>1. CPUWaste(p) \in Nat /\ MemWaste(p) \in Nat
  BY WasteTyped
<1>2. CostPerCPUH * CPUWaste(p) = CPUWaste(p) /\ CostPerGBH * MemWaste(p) = MemWaste(p)
  BY <1>1 DEF DefaultPrices
<1>3. Cost(p) = YearlyCents(CPUWaste(p), MemWaste(p))
  BY <1>2 DEF Cost
<1> QED
  BY <1>1, <1>3, YearlyNear

\* The savings of some containers and the sum of their costs differ by half a cent for
\* every container and another one for the sum.
LEMMA SavingsNearCosts ==
  ASSUME DefaultPrices, NEW pods \in Seq(PodInputs)
  PROVE  /\ Savings(pods) \in Int /\ Total(Cost, pods) \in Int
         /\ 2 * (Savings(pods) - Total(Cost, pods)) \in -(Len(pods) + 1)..(Len(pods) + 1)
<1> DEFINE S == DOMAIN pods
           C == [i \in S |-> CPUWaste(pods[i])]
           M == [i \in S |-> MemWaste(pods[i])]
           K == [i \in S |-> Cost(pods[i])]
           c == SumFunction(C)
           m == SumFunction(M)
           k == SumFunction(K)
<1>1. S = 1..Len(pods) /\ Len(pods) \in Nat
  OBVIOUS
<1>2. IsFiniteSet(S) /\ Cardinality(S) = Len(pods)
  <2>1. IsFiniteSet(1..Len(pods)) /\ Cardinality(1..Len(pods)) = IF 1 > Len(pods) THEN 0 ELSE Len(pods) - 1 + 1
    BY <1>1, FS_Interval
  <2> QED BY <1>1, <2>1
<1>3. \A i \in S : pods[i] \in PodInputs
  OBVIOUS
<1>4. \A i \in S : /\ C[i] \in Int /\ M[i] \in Int /\ K[i] \in Int
                   /\ Near(K[i], C[i], M[i], 1)
  BY <1>3, WasteTyped, CostNear
<1>5. C \in [S -> Int] /\ M \in [S -> Int] /\ K \in [S -> Int]
  BY <1>4
<1>6. Total(CPUWaste, pods) = c /\ Total(MemWaste, pods) = m /\ Total(Cost, pods) = k
  BY DEF Total
<1> HIDE DEF S, C, M, K
<1>7. /\ c \in Int /\ m \in Int /\ k \in Int
      /\ Near(k, c, m, Len(pods))
  BY <1>2, <1>4, <1>5, SumOfRounded
<1> HIDE DEF c, m, k
<1>8. Savings(pods) \in Int /\ Near(Savings(pods), c, m, 1)
  BY <1>6, <1>7, YearlyNear DEF Savings
<1> DEFINE s == Savings(pods)
           n == Len(pods)
<1> HIDE DEF s, n
<1>9. s \in Int /\ Near(s, c, m, 1) /\ Near(k, c, m, n) /\ n \in Nat
  BY <1>1, <1>7, <1>8 DEF s, n
<1>10. 2 * (s - k) <= n + 1 /\ 2 * (s - k) >= -(n + 1)
  BY <1>7, <1>9 DEF Near
<1> QED
  BY <1>6, <1>7, <1>9, <1>10 DEF s, n

\* A row and a score of one scan tell the same story.
LEMMA TablesFromScans == IInv /\ RowsInv /\ ScanInv => TablesAgree
<1> SUFFICES ASSUME IInv, RowsInv, ScanInv, score # None, DefaultPrices,
                    NEW batch \in rows, batch.scan = score.scan,
                    \A other \in rows : other.analyzed => other = batch
             PROVE  2 * (GetSavings - GetWaste) \in -(Len(batch.pods) + 1)..(Len(batch.pods) + 1)
  BY DEF TablesAgree, DefaultPrices
<1>1. /\ batch.analyzed /\ score.waste = Savings(batch.pods)
      /\ batch.pods \in Seq(PodInputs) /\ IsFiniteSet(rows)
  BY DEF ScanInv, RowsInv
<1>2. GetSavings = Savings(batch.pods)
  BY <1>1 DEF GetSavings
<1> DEFINE W == [b \in rows |-> WasteOf(b)]
<1>3. WasteOf(batch) = Total(Cost, batch.pods) /\ Total(Cost, batch.pods) \in Int
  BY <1>1, SavingsNearCosts DEF WasteOf
<1>4. \A b \in rows : b # batch => WasteOf(b) = 0
  BY DEF WasteOf
<1>5. W \in [rows -> Int] /\ \A b \in rows : W[b] = WasteOf(b)
  BY <1>3, <1>4
<1>6. GetWaste = SumFunction(W)
  BY DEF GetWaste
<1> HIDE DEF W
<1>7. SumFunction(W) = W[batch]
  BY <1>1, <1>4, <1>5, SumOfOne
<1> QED
  BY <1>1, <1>2, <1>3, <1>5, <1>6, <1>7, SavingsNearCosts
\* Rows are finite in number and of containers; snapshots, and the score and the rows of
\* the worker, are told apart by their scans.
TablesInv == IInv /\ RowsInv /\ ScanInv

LEMMA InitTables == Init => TablesInv
<1> SUFFICES ASSUME Init PROVE RowsInv /\ ScanInv
  BY InitInv DEF TablesInv
<1>1. rows = {} /\ stream = <<>> /\ score = None
  BY DEF Init
<1>2. IsFiniteSet(rows)
  BY <1>1, FS_EmptySet
<1>3. RowsInv
  BY <1>1, <1>2 DEF RowsInv
<1>4. DOMAIN stream = {}
  BY <1>1
<1>5. ScanInv
  BY <1>1, <1>4 DEF ScanInv
<1> QED
  BY <1>3, <1>5

\* What the type invariant says of the scans of what there is.
LEMMA ScansBounded ==
  ASSUME IInv
  PROVE  /\ scans \in Nat
         /\ \A i \in DOMAIN stream : stream[i].scan \in Nat /\ stream[i].scan <= scans
         /\ \A batch \in rows : batch.scan \in Nat /\ batch.scan <= scans
         /\ score # None => score.scan \in Nat /\ score.scan <= scans
BY FiguresAssumption DEF IInv, TypeOK

LEMMA PublishTables ==
  ASSUME TablesInv, Publish
  PROVE  RowsInv' /\ ScanInv'
<1> DEFINE new == [scan |-> scans + 1, pods |-> cluster]
<1>1. stream \in Seq(Snapshots) /\ RowsInv /\ ScanInv /\ IInv
  BY DEF TablesInv, IInv
<1>2. new \in Snapshots /\ new.scan = scans + 1
  BY <1>1, FiguresAssumption DEF IInv, TypeOK, Snapshots
<1>3. stream' = Append(stream, new) /\ UNCHANGED <<rows, score>>
  BY DEF Publish
<1> HIDE DEF new
<1>4. \A i \in DOMAIN stream' : (i \in DOMAIN stream /\ stream'[i] = stream[i])
                             \/ (i = Len(stream) + 1 /\ stream'[i] = new)
  BY <1>1, <1>2, <1>3
<1>5. RowsInv'
  BY <1>1, <1>3 DEF RowsInv
<1>6. \A i \in DOMAIN stream : stream[i].scan # new.scan
  BY <1>1, <1>2, ScansBounded
<1>7. /\ \A batch \in rows : batch.scan # new.scan
      /\ score # None => score.scan # new.scan
  BY <1>1, <1>2, ScansBounded
<1>8. ASSUME NEW i \in DOMAIN stream', NEW j \in DOMAIN stream', stream'[i].scan = stream'[j].scan
      PROVE  i = j
  <2>1. CASE i \in DOMAIN stream /\ stream'[i] = stream[i] /\ j \in DOMAIN stream /\ stream'[j] = stream[j]
    BY <1>1, <1>8, <2>1 DEF ScanInv
  <2> QED BY <1>4, <1>6, <1>8, <2>1
<1>9. ASSUME NEW i \in DOMAIN stream'
      PROVE  /\ score # None => score.scan # stream'[i].scan
             /\ \A batch \in rows : batch.scan # stream'[i].scan
  BY <1>1, <1>4, <1>7 DEF ScanInv
<1>10. ScanInv'
  BY <1>1, <1>3, <1>8, <1>9 DEF ScanInv
<1> QED
  BY <1>5, <1>10

LEMMA ProcessTables ==
  ASSUME TablesInv, NEW scored \in BOOLEAN, NEW inserted \in BOOLEAN, Process(scored, inserted)
  PROVE  RowsInv' /\ ScanInv'
<1> DEFINE head == Head(stream)
           new == [scan |-> head.scan, pods |-> head.pods, analyzed |-> TRUE]
<1>1. stream \in Seq(Snapshots) /\ RowsInv /\ ScanInv /\ IInv
  BY DEF TablesInv, IInv
<1>2. /\ head = stream[1] /\ 1 \in DOMAIN stream /\ head \in Snapshots
      /\ \A i \in DOMAIN stream' : i + 1 \in DOMAIN stream /\ stream'[i] = stream[i + 1]
                                /\ i \in Nat /\ i + 1 # 1
  BY <1>1 DEF Process
<1>3. new.scan = head.scan /\ new.pods = head.pods /\ new.analyzed /\ new.pods \in Seq(PodInputs)
  BY <1>2 DEF Snapshots
<1>4. rows' = rows \/ rows' = rows \union {new}
  BY DEF Process
<1>5. score' = score \/ score' = Score(head)
  BY DEF Process
<1>6. Score(head).scan = head.scan /\ Score(head).waste = Savings(head.pods)
  BY DEF Score
<1> HIDE DEF head, new
<1>7. IsFiniteSet(rows')
  BY <1>1, <1>4, FS_AddElement DEF RowsInv
<1>8. RowsInv'
  BY <1>1, <1>3, <1>4, <1>7 DEF RowsInv
<1>9. /\ score # None => score.scan # head.scan
      /\ \A batch \in rows : batch.scan # head.scan
      /\ \A i \in DOMAIN stream' : stream'[i].scan # head.scan
  BY <1>1, <1>2 DEF ScanInv
<1>10. ASSUME NEW i \in DOMAIN stream', NEW j \in DOMAIN stream', stream'[i].scan = stream'[j].scan
       PROVE  i = j
  <2>1. i + 1 = j + 1
    BY <1>1, <1>2, <1>10 DEF ScanInv
  <2> QED BY <1>2, <2>1
<1>11. ASSUME NEW i \in DOMAIN stream'
       PROVE  /\ score' # None => score'.scan # stream'[i].scan
              /\ \A batch \in rows' : batch.scan # stream'[i].scan
  <2>1. /\ score # None => score.scan # stream'[i].scan
        /\ \A batch \in rows : batch.scan # stream'[i].scan
    BY <1>1, <1>2 DEF ScanInv
  <2> QED BY <1>3, <1>4, <1>5, <1>6, <1>9, <2>1
<1>12. ASSUME score' # None, NEW batch \in rows', batch.scan = score'.scan
       PROVE  batch.analyzed /\ score'.waste = Savings(batch.pods)
  <2>1. batch \in rows \/ batch = new
    BY <1>4
  <2>2. CASE batch \in rows /\ score' = score
    BY <1>1, <1>12, <2>2 DEF ScanInv
  <2>3. CASE batch = new /\ score' = Score(head)
    BY <1>3, <1>6, <2>3
  <2> QED BY <1>3, <1>5, <1>6, <1>9, <1>12, <2>1, <2>2, <2>3
<1>13. ScanInv'
  BY <1>10, <1>11, <1>12 DEF ScanInv
<1> QED
  BY <1>8, <1>13

LEMMA IngestTables ==
  ASSUME TablesInv, NEW inserted \in SUBSET DOMAIN cluster, Ingest(inserted)
  PROVE  RowsInv' /\ ScanInv'
<1> DEFINE new == [scan |-> scans + 1, pods |-> [i \in inserted |-> cluster[i]],
                   analyzed |-> FALSE]
<1>1. RowsInv /\ ScanInv /\ IInv
  BY DEF TablesInv
<1>2. new.scan = scans + 1 /\ ~ new.analyzed
  OBVIOUS
<1>3. (rows' = rows \/ rows' = rows \union {new}) /\ UNCHANGED <<stream, score>>
  BY DEF Ingest
<1> HIDE DEF new
<1>4. IsFiniteSet(rows')
  BY <1>1, <1>3, FS_AddElement DEF RowsInv
<1>5. RowsInv'
  BY <1>1, <1>2, <1>3, <1>4 DEF RowsInv
<1>6. /\ score # None => score.scan # new.scan
      /\ \A i \in DOMAIN stream : stream[i].scan # new.scan
  BY <1>1, <1>2, ScansBounded
<1>7. ScanInv'
  BY <1>1, <1>3, <1>6 DEF ScanInv
<1> QED
  BY <1>5, <1>7

LEMMA NextTables == TablesInv /\ [Next]_vars => TablesInv'
<1> SUFFICES ASSUME TablesInv, [Next]_vars PROVE RowsInv' /\ ScanInv'
  BY NextInv DEF TablesInv
<1>1. CASE Age
  <2>1. rows' \in SUBSET rows /\ UNCHANGED <<stream, score>>
    BY <1>1 DEF Age
  <2>2. IsFiniteSet(rows')
    BY <2>1, FS_Subset DEF TablesInv, RowsInv
  <2> QED BY <2>1, <2>2 DEF TablesInv, RowsInv, ScanInv
<1>2. ASSUME UNCHANGED <<rows, stream, score>>
      PROVE  RowsInv' /\ ScanInv'
  BY <1>2 DEF TablesInv, RowsInv, ScanInv
<1>3. ASSUME NEW wish \in Wishes, WhatIf(wish)
      PROVE  UNCHANGED <<rows, stream, score>>
  BY <1>3 DEF WhatIf
<1>4. ASSUME NEW i \in DOMAIN cluster, NEW p \in Inputs, Redeploy(i, p)
      PROVE  UNCHANGED <<rows, stream, score>>
  BY <1>4 DEF Redeploy
<1>5. Apply \/ UNCHANGED vars => UNCHANGED <<rows, stream, score>>
  BY DEF Apply, vars
<1> QED
  BY <1>1, <1>2, <1>3, <1>4, <1>5, PublishTables, ProcessTables, IngestTables DEF Next

\* At the default prices, the savings page, which shows the score's waste (savings.go:25),
\* and the waste page, which adds up the rows (waste.go:31), agree to the roundings for
\* every cluster, whatever else has been stored, lost or replaced in between.
THEOREM TablesTellOneStory == Spec => []TablesAgree
<1>1. TablesInv => TablesAgree
  BY TablesFromScans DEF TablesInv
<1> QED
  BY InitTables, NextTables, <1>1, PTL DEF Spec
(***************************************************************************)
(* The promise.  Where one container is all there is, and every row is     *)
(* about it, the averages are its figures, so that the page's sums are the *)
(* worker's; the promise is then about the snapshots of the resized        *)
(* cluster, which are those taken after the change.                        *)
(***************************************************************************)

\* The cluster with the proposed sizes.
Proposed == [i \in DOMAIN cluster |->
               Resized(cluster[i], proposal.answer.cpu, proposal.answer.mem)]

ProposalInv ==
  proposal # None /\ DefaultPrices =>
    \A w \in proposal.waste : w - proposal.answer.savings = Savings(Proposed)

PromiseInv ==
  promise # None =>
    /\ DefaultPrices => \A w \in promise.waste : w \in Int /\ w = Savings(cluster)
    /\ \A i \in DOMAIN stream : stream[i].scan > promise.scan => stream[i].pods = cluster
    /\ score # None /\ score.scan > promise.scan => score.waste = Savings(cluster)

PromisesInv == TablesInv /\ ProposalInv /\ PromiseInv

\* A total over one container is its own figure.
LEMMA TotalOfOne ==
  ASSUME NEW pods, DOMAIN pods = {1}, NEW F, F \in [DOMAIN pods -> Int]
  PROVE  SumFunction(F) = F[1]
<1>1. IsFiniteSet({1}) /\ \A x \in {1} : x # 1 => F[x] = 0
  BY FS_Singleton
<1> QED
  BY <1>1, SumOfOne

\* At the default prices, the savings of one container are its cost.
LEMMA SavingsOfOne ==
  ASSUME DefaultPrices, NEW pods, DOMAIN pods = {1}, pods[1] \in PodInputs
  PROVE  Savings(pods) = Cost(pods[1])
<1> DEFINE C == [i \in DOMAIN pods |-> CPUWaste(pods[i])]
           M == [i \in DOMAIN pods |-> MemWaste(pods[i])]
<1>1. CPUWaste(pods[1]) \in Nat /\ MemWaste(pods[1]) \in Nat
  BY WasteTyped
<1>2. C \in [DOMAIN pods -> Int] /\ M \in [DOMAIN pods -> Int]
  BY <1>1
<1>3. C[1] = CPUWaste(pods[1]) /\ M[1] = MemWaste(pods[1])
  OBVIOUS
<1>4. Total(CPUWaste, pods) = SumFunction(C) /\ Total(MemWaste, pods) = SumFunction(M)
  BY DEF Total
<1> HIDE DEF C, M
<1>5. SumFunction(C) = C[1] /\ SumFunction(M) = M[1]
  BY <1>2, TotalOfOne
<1>6. Savings(pods) = YearlyCents(CPUWaste(pods[1]), MemWaste(pods[1]))
  BY <1>3, <1>4, <1>5 DEF Savings
<1> QED
  BY <1>6, CostNear

\* A container's cost depends on its requests and its usage.
LEMMA CostOfFields ==
  ASSUME NEW p, NEW q, p.cpuRequest = q.cpuRequest, p.cpuP95 = q.cpuP95,
         p.memRequest = q.memRequest, p.memP95 = q.memP95
  PROVE  Cost(p) = Cost(q)
BY DEF Cost, CPUWaste, MemWaste, CPUOptimal, MemOptimal

\* The mean of equal values is their value.
LEMMA MeanOfEqual ==
  ASSUME NEW R, IsFiniteSet(R), R # {}, NEW v \in Nat,
         NEW C \in [R -> Int], \A b \in R : C[b] = 1,
         NEW M \in [R -> Int], \A b \in R : M[b] = v
  PROVE  SumFunction(C) # 0 /\ SumFunction(M) \div SumFunction(C) = v
<1>1. Cardinality(R) \in Nat \ {0}
  BY FS_CardinalityType, FS_EmptySet
<1>2. SumFunction(C) = 1 * Cardinality(R) /\ SumFunction(M) = v * Cardinality(R)
  BY SumOfEqual
<1>3. \A n \in Nat \ {0} : 1 * n = n /\ n # 0 /\ (v * n) \div n = v
  OBVIOUS
<1> QED
  BY <1>1, <1>2, <1>3

\* One figure of the rows of the one container, summed up per row.
LEMMA MeanOfField ==
  ASSUME NEW R, IsFiniteSet(R), R # {}, NEW pods, DOMAIN pods = {1}, NEW F, NEW v \in Nat,
         F = [i \in DOMAIN pods |-> v], \A b \in R : b.pods = pods,
         NEW C, C = [b \in R |-> Cardinality(DOMAIN b.pods)],
         NEW M, M = [b \in R |-> SumFunction(F)]
  PROVE  SumFunction(C) # 0 /\ SumFunction(M) \div SumFunction(C) = v
<1>1. Cardinality(DOMAIN pods) = 1
  BY FS_Singleton
<1>2. C \in [R -> Int] /\ \A b \in R : C[b] = 1
  BY <1>1
<1>3. F \in [DOMAIN pods -> Int] /\ F[1] = v
  OBVIOUS
<1>4. SumFunction(F) = v
  BY <1>3, TotalOfOne
<1>5. M \in [R -> Int] /\ \A b \in R : M[b] = v
  BY <1>4
<1> QED
  BY <1>2, <1>5, MeanOfEqual

\* The rows that are about one container with sizes and usage have its figures on average.
LEMMA PresentIsContainer ==
  ASSUME TablesInv, Representative
  PROVE  /\ Present.cpuRequest = cluster[1].cpuRequest /\ Present.cpuP95 = cluster[1].cpuP95
         /\ Present.memRequest = cluster[1].memRequest /\ Present.memP95 = cluster[1].memP95
         /\ DOMAIN cluster = {1} /\ cluster[1] \in PodInputs
<1>1. cluster \in Seq(PodInputs) /\ Len(cluster) = 1
  BY DEF TablesInv, IInv, TypeOK, Representative
<1>2. DOMAIN cluster = {1} /\ cluster[1] \in PodInputs
  BY <1>1
<1>3. /\ cluster[1].cpuRequest \in Nat \ {0} /\ cluster[1].cpuP95 \in Nat \ {0}
      /\ cluster[1].memRequest \in Nat \ {0} /\ cluster[1].memP95 \in Nat \ {0}
  <2>1. /\ cluster[1].cpuRequest \in Nat /\ cluster[1].cpuP95 \in Nat
        /\ cluster[1].memRequest \in Nat /\ cluster[1].memP95 \in Nat
    BY <1>2 DEF PodInputs
  <2>2. /\ cluster[1].cpuRequest > 0 /\ cluster[1].cpuP95 > 0
        /\ cluster[1].memRequest > 0 /\ cluster[1].memP95 > 0
    BY DEF Representative
  <2> QED BY <2>1, <2>2
<1>4. /\ IsFiniteSet(rows) /\ rows # {}
      /\ \A b \in rows : b.analyzed /\ b.pods = cluster
  BY DEF TablesInv, RowsInv, Representative
<1>5. {b \in rows : TRUE} = rows /\ {b \in rows : b.analyzed} = rows
  BY <1>4
<1> DEFINE C == [b \in rows |-> Cardinality(DOMAIN b.pods)]
<1>6. \A value \in Nat \ {0} : \A default : Or(value, default) = value
  BY DEF Or
<1>7. Average(LAMBDA p : p.cpuRequest, LAMBDA b : TRUE) = cluster[1].cpuRequest
  <2> DEFINE F == [i \in DOMAIN cluster |-> cluster[1].cpuRequest]
             M == [b \in rows |-> SumFunction([i \in DOMAIN b.pods |-> b.pods[i].cpuRequest])]
  <2>1. F = [i \in DOMAIN cluster |-> cluster[i].cpuRequest]
    BY <1>2
  <2>2. M = [b \in rows |-> SumFunction(F)]
    BY <1>4, <2>1
  <2>3. Average(LAMBDA p : p.cpuRequest, LAMBDA b : TRUE)
          = IF SumFunction(C) = 0 THEN 0 ELSE SumFunction(M) \div SumFunction(C)
    BY <1>5 DEF Average, Total
  <2> HIDE DEF M
  <2>4. SumFunction(C) # 0 /\ SumFunction(M) \div SumFunction(C) = cluster[1].cpuRequest
    BY <1>2, <1>3, <1>4, <2>2, MeanOfField
  <2> QED BY <2>3, <2>4
<1>8. Average(LAMBDA p : p.memRequest, LAMBDA b : TRUE) = cluster[1].memRequest
  <2> DEFINE F == [i \in DOMAIN cluster |-> cluster[1].memRequest]
             M == [b \in rows |-> SumFunction([i \in DOMAIN b.pods |-> b.pods[i].memRequest])]
  <2>1. F = [i \in DOMAIN cluster |-> cluster[i].memRequest]
    BY <1>2
  <2>2. M = [b \in rows |-> SumFunction(F)]
    BY <1>4, <2>1
  <2>3. Average(LAMBDA p : p.memRequest, LAMBDA b : TRUE)
          = IF SumFunction(C) = 0 THEN 0 ELSE SumFunction(M) \div SumFunction(C)
    BY <1>5 DEF Average, Total
  <2> HIDE DEF M
  <2>4. SumFunction(C) # 0 /\ SumFunction(M) \div SumFunction(C) = cluster[1].memRequest
    BY <1>2, <1>3, <1>4, <2>2, MeanOfField
  <2> QED BY <2>3, <2>4
<1>9. Average(LAMBDA p : p.cpuP95, LAMBDA b : b.analyzed) = cluster[1].cpuP95
  <2> DEFINE F == [i \in DOMAIN cluster |-> cluster[1].cpuP95]
             M == [b \in rows |-> SumFunction([i \in DOMAIN b.pods |-> b.pods[i].cpuP95])]
  <2>1. F = [i \in DOMAIN cluster |-> cluster[i].cpuP95]
    BY <1>2
  <2>2. M = [b \in rows |-> SumFunction(F)]
    BY <1>4, <2>1
  <2>3. Average(LAMBDA p : p.cpuP95, LAMBDA b : b.analyzed)
          = IF SumFunction(C) = 0 THEN 0 ELSE SumFunction(M) \div SumFunction(C)
    BY <1>5 DEF Average, Total
  <2> HIDE DEF M
  <2>4. SumFunction(C) # 0 /\ SumFunction(M) \div SumFunction(C) = cluster[1].cpuP95
    BY <1>2, <1>3, <1>4, <2>2, MeanOfField
  <2> QED BY <2>3, <2>4
<1>10. Average(LAMBDA p : p.memP95, LAMBDA b : b.analyzed) = cluster[1].memP95
  <2> DEFINE F == [i \in DOMAIN cluster |-> cluster[1].memP95]
             M == [b \in rows |-> SumFunction([i \in DOMAIN b.pods |-> b.pods[i].memP95])]
  <2>1. F = [i \in DOMAIN cluster |-> cluster[i].memP95]
    BY <1>2
  <2>2. M = [b \in rows |-> SumFunction(F)]
    BY <1>4, <2>1
  <2>3. Average(LAMBDA p : p.memP95, LAMBDA b : b.analyzed)
          = IF SumFunction(C) = 0 THEN 0 ELSE SumFunction(M) \div SumFunction(C)
    BY <1>5 DEF Average, Total
  <2> HIDE DEF M
  <2>4. SumFunction(C) # 0 /\ SumFunction(M) \div SumFunction(C) = cluster[1].memP95
    BY <1>2, <1>3, <1>4, <2>2, MeanOfField
  <2> QED BY <2>3, <2>4
<1>11. /\ Present.cpuRequest = Or(Average(LAMBDA p : p.cpuRequest, LAMBDA b : TRUE), 500)
       /\ Present.memRequest = Or(Average(LAMBDA p : p.memRequest, LAMBDA b : TRUE), 512)
       /\ Present.cpuP95 = Or(Average(LAMBDA p : p.cpuP95, LAMBDA b : b.analyzed), 50)
       /\ Present.memP95 = Or(Average(LAMBDA p : p.memP95, LAMBDA b : b.analyzed), 200)
  BY DEF Present
<1> QED
  BY <1>2, <1>3, <1>6, <1>7, <1>8, <1>9, <1>10, <1>11
\* The answer of the what-if page costs what its cluster would.
LEMMA AnswerIsCluster ==
  ASSUME TablesInv, Representative, DefaultPrices, NEW cpu \in Nat, NEW mem \in Nat,
         NEW answer, answer = Answer(Present, cpu, mem)
  PROVE  GetSavings - answer.savings = Savings([i \in DOMAIN cluster |-> Resized(cluster[i], cpu, mem)])
<1> DEFINE proposed == [i \in DOMAIN cluster |-> Resized(cluster[i], cpu, mem)]
<1>1. /\ Present.cpuRequest = cluster[1].cpuRequest /\ Present.cpuP95 = cluster[1].cpuP95
      /\ Present.memRequest = cluster[1].memRequest /\ Present.memP95 = cluster[1].memP95
      /\ DOMAIN cluster = {1} /\ cluster[1] \in PodInputs /\ Present \in PodInputs
  BY PresentIsContainer, PresentTyped
<1>2. /\ DOMAIN proposed = {1} /\ proposed[1] = Resized(cluster[1], cpu, mem)
      /\ proposed[1] \in PodInputs
  BY <1>1, ResizedFields
<1> HIDE DEF proposed
<1>3. Savings(cluster) = Cost(Present)
  BY <1>1, SavingsOfOne, CostOfFields
<1>4. Cost(Resized(Present, cpu, mem)) = Cost(Resized(cluster[1], cpu, mem))
  <2>1. /\ Resized(Present, cpu, mem).cpuRequest = cpu /\ Resized(cluster[1], cpu, mem).cpuRequest = cpu
        /\ Resized(Present, cpu, mem).memRequest = mem /\ Resized(cluster[1], cpu, mem).memRequest = mem
        /\ Resized(Present, cpu, mem).cpuP95 = Present.cpuP95
        /\ Resized(Present, cpu, mem).memP95 = Present.memP95
        /\ Resized(cluster[1], cpu, mem).cpuP95 = cluster[1].cpuP95
        /\ Resized(cluster[1], cpu, mem).memP95 = cluster[1].memP95
    BY <1>1, ResizedFields
  <2> QED BY <1>1, <2>1, CostOfFields
<1>5. Savings(proposed) = Cost(Resized(Present, cpu, mem))
  BY <1>2, <1>4, SavingsOfOne
<1>6. answer.savings = Cost(Present) - Cost(Resized(Present, cpu, mem))
  BY DEF Answer
<1>7. GetSavings = Savings(cluster)
  <2>1. PICK batch \in rows : score.scan = batch.scan
    BY DEF Representative
  <2>2. score # None /\ batch.pods = cluster
    BY DEF Representative
  <2> QED BY <2>1, <2>2 DEF TablesInv, ScanInv, GetSavings
<1>8. Cost(Present) \in Int /\ Cost(Resized(Present, cpu, mem)) \in Int
  <2>1. Resized(Present, cpu, mem) \in PodInputs
    BY <1>1, ResizedFields
  <2> QED BY <1>1, <2>1, CostNear
<1>9. \A x, y \in Int : x - (x - y) = y
  OBVIOUS
<1> QED
  BY <1>3, <1>5, <1>6, <1>7, <1>8, <1>9 DEF proposed

LEMMA InitPromises == Init => ProposalInv /\ PromiseInv
BY DEF Init, ProposalInv, PromiseInv

LEMMA WhatIfPromises ==
  ASSUME PromisesInv, NEW wish \in Wishes, WhatIf(wish)
  PROVE  ProposalInv' /\ PromiseInv'
<1> DEFINE cpu == Or(wish.cpu, CPUOptimal(Present))
           mem == Or(wish.mem, MemOptimal(Present))
           answer == Answer(Present, cpu, mem)
<1>1. /\ proposal'.answer = answer
      /\ proposal'.waste = IF Representative THEN {GetSavings} ELSE {}
      /\ UNCHANGED <<cluster, stream, score, promise>>
  BY DEF WhatIf
<1>2. cpu \in Nat /\ mem \in Nat
  <2>1. Present \in PodInputs /\ Present.cpuP95 \in Nat /\ Present.memP95 \in Nat
    BY PresentTyped DEF PodInputs
  <2>2. CPUOptimal(Present) \in Nat /\ MemOptimal(Present) \in Nat
    BY <2>1, OptimalCoversUsage
  <2> QED BY <2>2 DEF Or
<1> HIDE DEF cpu, mem
<1>3. answer.cpu = cpu /\ answer.mem = mem
  BY DEF Answer
<1> HIDE DEF answer
<1>4. ASSUME DefaultPrices, NEW w \in proposal'.waste
      PROVE  w - proposal'.answer.savings = Savings(Proposed')
  <2>1. Representative /\ w = GetSavings
    BY <1>1, <1>4
  <2>2. Proposed' = [i \in DOMAIN cluster |-> Resized(cluster[i], cpu, mem)]
    BY <1>1, <1>3 DEF Proposed
  <2>3. answer = Answer(Present, cpu, mem) /\ TablesInv
    BY DEF answer, PromisesInv
  <2> QED BY <1>1, <1>2, <1>4, <2>1, <2>2, <2>3, AnswerIsCluster
<1>5. ProposalInv'
  BY <1>4 DEF ProposalInv, DefaultPrices
<1>6. PromiseInv'
  BY <1>1 DEF PromisesInv, PromiseInv, DefaultPrices
<1> QED
  BY <1>5, <1>6

LEMMA ApplyPromises ==
  ASSUME PromisesInv, Apply
  PROVE  ProposalInv' /\ PromiseInv'
<1>1. /\ proposal # None /\ proposal' = None
      /\ cluster' = Proposed
      /\ promise' = [scan |-> scans,
                     waste |-> {w - proposal.answer.savings : w \in proposal.waste}]
      /\ UNCHANGED <<stream, score>>
  BY DEF Apply, Proposed
<1>2. ProposalInv'
  BY <1>1 DEF ProposalInv
<1>3. ASSUME DefaultPrices, NEW w \in promise'.waste
      PROVE  w \in Int /\ w = Savings(cluster')
  <2>1. PICK v \in proposal.waste : w = v - proposal.answer.savings
    BY <1>1
  <2>2. w = Savings(Proposed)
    BY <1>1, <1>3, <2>1 DEF PromisesInv, ProposalInv
  <2>3. Proposed \in Seq(PodInputs)
    <3> DEFINE cpu == proposal.answer.cpu
               mem == proposal.answer.mem
    <3>1. cpu \in Nat /\ mem \in Nat /\ cluster \in Seq(PodInputs)
      BY <1>1 DEF PromisesInv, TablesInv, IInv, ProposalTyped, TypeOK
    <3>2. \A i \in DOMAIN cluster : Resized(cluster[i], cpu, mem) \in PodInputs
      BY <3>1, ResizedFields
    <3>3. PICK n \in Nat : DOMAIN cluster = 1..n
      BY <3>1
    <3>4. Proposed = [i \in DOMAIN cluster |-> Resized(cluster[i], cpu, mem)]
      BY DEF Proposed
    <3> HIDE DEF cpu, mem
    <3> QED BY <3>2, <3>3, <3>4
  <2> QED BY <1>1, <1>3, <2>2, <2>3, SavingsNearCosts
<1>4. IInv
  BY DEF PromisesInv, TablesInv
<1>5. /\ \A i \in DOMAIN stream : ~ (stream[i].scan > scans)
      /\ score # None => ~ (score.scan > scans)
  BY <1>4, ScansBounded
<1>6. promise'.scan = scans
  BY <1>1
<1>7. /\ \A i \in DOMAIN stream' : stream'[i].scan > promise'.scan => stream'[i].pods = cluster'
      /\ score' # None /\ score'.scan > promise'.scan => score'.waste = Savings(cluster')
  BY <1>1, <1>5, <1>6
<1>8. PromiseInv'
  BY <1>3, <1>7 DEF PromiseInv, DefaultPrices
<1> QED
  BY <1>2, <1>8

LEMMA PublishPromises ==
  ASSUME PromisesInv, Publish
  PROVE  PromiseInv'
<1> DEFINE new == [scan |-> scans + 1, pods |-> cluster]
<1>1. stream \in Seq(Snapshots) /\ IInv
  BY DEF PromisesInv, TablesInv, IInv
<1>2. new \in Snapshots /\ new.pods = cluster
  BY <1>1, FiguresAssumption DEF IInv, TypeOK, Snapshots
<1>3. stream' = Append(stream, new) /\ UNCHANGED <<cluster, score, promise>>
  BY DEF Publish
<1> HIDE DEF new
<1>4. \A i \in DOMAIN stream' : (i \in DOMAIN stream /\ stream'[i] = stream[i]) \/ stream'[i] = new
  BY <1>1, <1>2, <1>3
<1> QED
  BY <1>2, <1>3, <1>4 DEF PromisesInv, PromiseInv, DefaultPrices

LEMMA ProcessPromises ==
  ASSUME PromisesInv, NEW scored \in BOOLEAN, NEW inserted \in BOOLEAN, Process(scored, inserted)
  PROVE  PromiseInv'
<1> DEFINE head == Head(stream)
<1>1. stream \in Seq(Snapshots)
  BY DEF PromisesInv, TablesInv, IInv
<1>2. /\ head = stream[1] /\ 1 \in DOMAIN stream
      /\ \A i \in DOMAIN stream' : i + 1 \in DOMAIN stream /\ stream'[i] = stream[i + 1]
  BY <1>1 DEF Process
<1>3. (score' = score \/ score' = Score(head)) /\ UNCHANGED <<cluster, promise>>
  BY DEF Process
<1>4. Score(head).scan = head.scan /\ Score(head).waste = Savings(head.pods)
  BY DEF Score
<1> HIDE DEF head
<1> QED
  BY <1>2, <1>3, <1>4 DEF PromisesInv, PromiseInv, DefaultPrices

LEMMA NextPromises == PromisesInv /\ [Next]_vars => PromisesInv'
<1> SUFFICES ASSUME PromisesInv, [Next]_vars PROVE ProposalInv' /\ PromiseInv'
  BY NextTables DEF PromisesInv
<1>1. ASSUME UNCHANGED <<cluster, proposal>>
      PROVE  ProposalInv'
  BY <1>1 DEF PromisesInv, ProposalInv, Proposed, DefaultPrices
<1>2. ASSUME UNCHANGED <<cluster, promise, stream, score>>
      PROVE  PromiseInv'
  BY <1>2 DEF PromisesInv, PromiseInv, DefaultPrices
<1>3. CASE Publish
  <2>1. UNCHANGED <<cluster, proposal>>
    BY <1>3 DEF Publish
  <2> QED BY <1>1, <1>3, <2>1, PublishPromises
<1>4. ASSUME NEW scored \in BOOLEAN, NEW inserted \in BOOLEAN, Process(scored, inserted)
      PROVE  ProposalInv' /\ PromiseInv'
  <2>1. UNCHANGED <<cluster, proposal>>
    BY <1>4 DEF Process
  <2> QED BY <1>1, <1>4, <2>1, ProcessPromises
<1>5. ASSUME NEW inserted \in SUBSET DOMAIN cluster, Ingest(inserted)
      PROVE  UNCHANGED <<cluster, proposal, promise, stream, score>>
  BY <1>5 DEF Ingest
<1>6. Age \/ UNCHANGED vars => UNCHANGED <<cluster, proposal, promise, stream, score>>
  BY DEF Age, vars
<1>7. ASSUME NEW i \in DOMAIN cluster, NEW p \in Inputs, Redeploy(i, p)
      PROVE  ProposalInv' /\ PromiseInv'
  <2>1. proposal' = None /\ promise' = None
    BY <1>7 DEF Redeploy
  <2> QED BY <2>1 DEF ProposalInv, PromiseInv
<1> QED
  BY <1>1, <1>2, <1>3, <1>4, <1>5, <1>6, <1>7, WhatIfPromises, ApplyPromises DEF Next

\* At the default prices, what the what-if page promises (simulate.go:72) is what the
\* savings page shows of every scan after its sizes were applied, for every container,
\* whatever other scans, losses and changes came in between.
THEOREM PromiseComesTrue == Spec => []PromiseKept
<1>1. PromisesInv => PromiseKept
  <2> SUFFICES ASSUME PromisesInv, promise # None, score # None, DefaultPrices,
                      score.scan > promise.scan, NEW w \in promise.waste
               PROVE  GetSavings - w \in -1..1
    BY DEF PromiseKept, DefaultPrices
  <2>1. w \in Int /\ w = Savings(cluster) /\ score.waste = Savings(cluster)
    BY DEF PromisesInv, PromiseInv
  <2> QED BY <2>1 DEF GetSavings
<1>2. Init => PromisesInv
  BY InitTables, InitPromises DEF PromisesInv
<1> QED
  BY NextPromises, <1>1, <1>2, PTL DEF Spec
=============================================================================
