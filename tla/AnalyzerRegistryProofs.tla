----------------------- MODULE AnalyzerRegistryProofs -----------------------
(***************************************************************************)
(* TLAPS proofs about AnalyzerRegistry, for every number of analyzers and  *)
(* every set of findings.                                                  *)
(***************************************************************************)
EXTENDS AnalyzerRegistry, FiniteSetTheorems, SequenceTheorems, TLAPS

-----------------------------------------------------------------------------
(***************************************************************************)
(* The health score.                                                       *)
(***************************************************************************)

\* A place is a list and a position in it.
LEMMA PlacesAt ==
  ASSUME NEW lists, NEW severity
  PROVE  /\ \A l, k : <<l, k>> \in Places(lists, severity) <=>
                       l \in DOMAIN lists /\ k \in DOMAIN lists[l] /\ lists[l][k] = severity
         /\ \A p \in Places(lists, severity) : p = <<p[1], p[2]>>
<1> DEFINE rows == {{l} \X DOMAIN lists[l] : l \in DOMAIN lists}
<1>1. \A p : p \in UNION rows <=> \E l \in DOMAIN lists : p \in {l} \X DOMAIN lists[l]
  OBVIOUS
<1>2. \A l, k : <<l, k>> \in UNION rows <=> l \in DOMAIN lists /\ k \in DOMAIN lists[l]
  BY <1>1
<1>3. \A p \in UNION rows : p = <<p[1], p[2]>>
  BY <1>1
<1>4. \A p : p \in Places(lists, severity) <=>
               p \in UNION rows /\ lists[p[1]][p[2]] = severity
  BY DEF Places
<1> HIDE DEF rows
<1>5. QED
  BY <1>2, <1>3, <1>4

\* The places of one severity in finitely many lists are finitely many.
LEMMA PlacesFinite ==
  ASSUME NEW n \in Nat, NEW lists \in [1..n -> Seq(Severities)], NEW severity
  PROVE  IsFiniteSet(Places(lists, severity))
<1> DEFINE places(l) == {l} \X DOMAIN lists[l]
           rows == {places(l) : l \in 1..n}
           f == [l \in 1..n |-> places(l)]
<1>1. IsFiniteSet(1..n)
  BY FS_Interval
<1>2. f \in Surjection(1..n, rows)
  BY DEF Surjection
<1>3. IsFiniteSet(rows)
  <2> HIDE DEF f, rows
  <2> QED BY <1>1, <1>2, FS_Surjection
<1>4. \A T \in rows : IsFiniteSet(T)
  <2> SUFFICES ASSUME NEW l \in 1..n PROVE IsFiniteSet(places(l))
    OBVIOUS
  <2>1. DOMAIN lists[l] = 1..Len(lists[l]) /\ Len(lists[l]) \in Nat
    BY LenProperties
  <2>2. IsFiniteSet(DOMAIN lists[l])
    BY <2>1, FS_Interval
  <2>3. IsFiniteSet({l})
    BY FS_Singleton
  <2>4. QED
    BY <2>2, <2>3, FS_Product
<1>5. IsFiniteSet(UNION rows)
  <2> HIDE DEF rows
  <2> QED BY <1>3, <1>4, FS_UNION
<1>6. Places(lists, severity) \subseteq UNION rows
  BY DEF Places
<1>7. QED
  <2> HIDE DEF rows
  <2> QED BY <1>5, <1>6, FS_Subset

\* A score lies between 0 and 100.
LEMMA ScoreRange ==
  ASSUME NEW n \in Nat, NEW lists \in [1..n -> Seq(Severities)]
  PROVE  Score(lists) \in 0..100
<1>1. \A severity : Count(lists, severity) \in Nat
  BY PlacesFinite, FS_CardinalityType DEF Count
<1>2. Penalty(lists) \in Nat
  <2> HIDE DEF Count
  <2>1. /\ Count(lists, "critical") \in Nat
        /\ Count(lists, "warning") \in Nat
        /\ Count(lists, "info") \in Nat
    BY <1>1
  <2> QED BY <2>1 DEF Penalty
<1>3. \A x \in Nat : (IF x <= 100 THEN 100 - x ELSE 0) \in 0..100
  OBVIOUS
<1>4. QED
  BY <1>2, <1>3 DEF Score

\* permuted holds the n lists in another order.
Permutes(permuted, lists, n) ==
  \E order \in [1..n -> 1..n] :
    /\ \A i, j \in 1..n : order[i] = order[j] => i = j
    /\ \A l \in 1..n : \E i \in 1..n : order[i] = l
    /\ \A i \in 1..n : permuted[i] = lists[order[i]]

\* Naming the lists in another order leaves the score alone.
LEMMA ScoreUnordered ==
  ASSUME NEW n \in Nat, NEW lists \in [1..n -> Seq(Severities)],
         NEW permuted \in [1..n -> Seq(Severities)],
         Permutes(permuted, lists, n)
  PROVE  Score(permuted) = Score(lists)
<1> PICK order \in [1..n -> 1..n] :
      /\ \A i, j \in 1..n : order[i] = order[j] => i = j
      /\ \A l \in 1..n : \E i \in 1..n : order[i] = l
      /\ \A i \in 1..n : permuted[i] = lists[order[i]]
  BY DEF Permutes
<1>1. ASSUME NEW severity
      PROVE  Count(permuted, severity) = Count(lists, severity)
  <2> DEFINE S == Places(permuted, severity)
             T == Places(lists, severity)
             f == [p \in S |-> <<order[p[1]], p[2]>>]
  <2>1. DOMAIN permuted = 1..n /\ \A i \in 1..n : permuted[i] = lists[order[i]]
    OBVIOUS
  <2>2. /\ \A i, k : <<i, k>> \in S <=>
            i \in DOMAIN permuted /\ k \in DOMAIN permuted[i] /\ permuted[i][k] = severity
        /\ \A p \in S : p = <<p[1], p[2]>>
    BY PlacesAt, Zenon
  <2>3. /\ \A l, k : <<l, k>> \in T <=>
            l \in 1..n /\ k \in DOMAIN lists[l] /\ lists[l][k] = severity
        /\ \A p \in T : p = <<p[1], p[2]>>
    <3>1. DOMAIN lists = 1..n
      OBVIOUS
    <3>2. /\ \A l, k : <<l, k>> \in T <=>
              l \in DOMAIN lists /\ k \in DOMAIN lists[l] /\ lists[l][k] = severity
          /\ \A p \in T : p = <<p[1], p[2]>>
      BY PlacesAt
    <3> HIDE DEF T
    <3> QED BY <3>1, <3>2, Zenon
  <2> HIDE DEF S, T
  <2>4. \A p \in S : /\ p[1] \in 1..n
                     /\ f[p] = <<order[p[1]], p[2]>>
                     /\ f[p] \in T
    <3> SUFFICES ASSUME NEW p \in S
                 PROVE  p[1] \in 1..n /\ <<order[p[1]], p[2]>> \in T
      OBVIOUS
    <3>1. PICK i, k : p = <<i, k>>
      BY <2>2
    <3>2. i \in 1..n /\ k \in DOMAIN permuted[i] /\ permuted[i][k] = severity
      <4>1. <<i, k>> \in S
        BY <3>1
      <4> QED BY <2>1, <2>2, <4>1, Zenon
    <3>3. order[i] \in 1..n /\ permuted[i] = lists[order[i]]
      BY <2>1, <3>2
    <3>4. <<order[i], k>> \in T
      BY <2>3, <3>2, <3>3
    <3> QED BY <3>1, <3>2, <3>4
  <2>5. ASSUME NEW p \in S, NEW q \in S, f[p] = f[q] PROVE p = q
    <3>1. PICK i, k : p = <<i, k>>
      BY <2>2
    <3>2. PICK j, m : q = <<j, m>>
      BY <2>2
    <3>3. i \in 1..n /\ j \in 1..n
      BY <2>4, <3>1, <3>2
    <3>4. order[i] = order[j] /\ k = m
      <4>1. f[p] = <<order[i], k>> /\ f[q] = <<order[j], m>>
        BY <2>4, <3>1, <3>2
      <4>2. QED
        BY <2>5, <4>1
    <3>5. i = j
      BY <3>3, <3>4
    <3> QED BY <3>1, <3>2, <3>4, <3>5
  <2>6. ASSUME NEW t \in T PROVE \E p \in S : f[p] = t
    <3>1. PICK l, k : t = <<l, k>>
      BY <2>3
    <3>2. l \in 1..n /\ k \in DOMAIN lists[l] /\ lists[l][k] = severity
      <4>1. <<l, k>> \in T
        BY <3>1
      <4>2. QED
        BY <2>3, <4>1, Zenon
    <3>3. PICK i \in 1..n : order[i] = l
      BY <3>2
    <3>4. permuted[i] = lists[l]
      BY <2>1, <3>3
    <3>5. <<i, k>> \in S
      BY <2>1, <2>2, <3>2, <3>4
    <3>6. f[<<i, k>>] = <<order[i], k>>
      BY <3>5
    <3> QED BY <3>1, <3>3, <3>5, <3>6
  <2>7. f \in Bijection(S, T)
    <3>1. f \in [S -> T]
      BY <2>4
    <3> HIDE DEF f
    <3> QED BY <3>1, <2>5, <2>6 DEF Bijection, Injection, Surjection, IsInjective
  <2>8. IsFiniteSet(S)
    BY PlacesFinite DEF S
  <2>9. Cardinality(T) = Cardinality(S)
    BY <2>7, <2>8, FS_Bijection DEF ExistsBijection
  <2> QED BY <2>9 DEF Count, S, T
<1>2. /\ Count(permuted, "critical") = Count(lists, "critical")
      /\ Count(permuted, "warning") = Count(lists, "warning")
      /\ Count(permuted, "info") = Count(lists, "info")
  BY <1>1
<1>3. Penalty(permuted) = Penalty(lists)
  BY <1>2 DEF Penalty
<1>4. Score(permuted) = Score(lists)
  BY <1>3 DEF Score
<1> QED BY <1>4

-----------------------------------------------------------------------------
(***************************************************************************)
(* The inductive invariant.                                                *)
(***************************************************************************)

\* The goroutines the wait group counts.
Busy == {a \in Analyzers : goroutine[a] \in {"analyze", "send", "finish"}}

\* The loop has started the first goroutines, the wait group counts the busy ones,
\* and from close(ch) on all of them are gone.
LoopInv ==
  pc # "crashed" =>
    /\ \A a \in Analyzers : goroutine[a] # "dead" /\ (goroutine[a] = "none" <=> a > spawned)
    /\ wg = Cardinality(Busy)
    /\ pc \in {"close", "collect", "done"} => \A a \in Analyzers : goroutine[a] = "gone"
    /\ open <=> pc \in {"spawn", "close"}

\* After a panic no goroutine is left.
CrashInv == pc = "crashed" => \A a \in Analyzers : goroutine[a] \in {"gone", "dead"}

\* The partials in this sequence are those of the goroutines that have sent, one each.
OneEach(sent) ==
  /\ \A i, j \in 1..Len(sent) : sent[i].name = sent[j].name => i = j
  /\ \A i \in 1..Len(sent) : /\ goroutine[sent[i].name] \in {"finish", "gone"}
                              /\ sent[i].issues = found[sent[i].name]
  /\ \A a \in Analyzers : goroutine[a] \in {"finish", "gone"} =>
                             \E i \in 1..Len(sent) : sent[i].name = a

\* What Run has collected and what the channel holds are, together, one partial of
\* each goroutine that has sent.
ChannelInv == pc # "crashed" => OneEach(collected \o buffer)

\* The score appears when the channel is drained, and not before.
ResultInv == /\ health = Unscored <=> pc # "done"
             /\ pc = "done" => buffer = <<>>

IInv == TypeOK /\ LoopInv /\ CrashInv /\ ChannelInv /\ ResultInv

-----------------------------------------------------------------------------
(***************************************************************************)
(* The loop, the wait group and the crash.                                 *)
(***************************************************************************)

\* The analyzers, and any part of them, are finitely many.
LEMMA AnalyzersFinite == IsFiniteSet(Analyzers) /\ Cardinality(Analyzers) = N
<1>1. N \in Nat
  BY RegistryAssumption
<1>2. IsFiniteSet(1..N) /\ Cardinality(1..N) = IF 1 > N THEN 0 ELSE N - 1 + 1
  BY <1>1, FS_Interval
<1>3. Cardinality(1..N) = N
  BY <1>1, <1>2
<1>4. QED
  BY <1>2, <1>3 DEF Analyzers

LEMMA PartBounded ==
  ASSUME NEW S \in SUBSET Analyzers
  PROVE  IsFiniteSet(S) /\ Cardinality(S) \in 0..N
<1>1. IsFiniteSet(S) /\ Cardinality(S) <= N
  BY AnalyzersFinite, FS_Subset
<1>2. Cardinality(S) \in Nat
  BY <1>1, FS_CardinalityType
<1>3. QED
  BY <1>1, <1>2, RegistryAssumption

\* A goroutine that becomes busy or stops being busy moves the count by one.
LEMMA BusyMoves ==
  ASSUME NEW a \in Analyzers
  PROVE  /\ (a \notin Busy /\ Busy' = Busy \union {a}) => Cardinality(Busy') = Cardinality(Busy) + 1
         /\ (a \in Busy /\ Busy' = Busy \ {a}) => Cardinality(Busy') = Cardinality(Busy) - 1
<1>1. IsFiniteSet(Busy)
  BY PartBounded DEF Busy
<1>2. QED
  BY <1>1, FS_AddElement, FS_RemoveElement

LEMMA LoopStep == IInv /\ [Next]_vars => LoopInv' /\ CrashInv'
<1> SUFFICES ASSUME IInv, [Next]_vars PROVE LoopInv' /\ CrashInv'
  OBVIOUS
<1> USE RegistryAssumption DEF IInv, TypeOK, LoopInv, CrashInv, Analyzers
<1>1. CASE Spawn
  <2>1. spawned + 1 \in Analyzers /\ goroutine[spawned + 1] = "none"
    BY <1>1 DEF Spawn
  <2>2. spawned + 1 \notin Busy /\ Busy' = Busy \union {spawned + 1}
    BY <1>1, <2>1 DEF Spawn, Busy
  <2>3. Cardinality(Busy') = Cardinality(Busy) + 1
    BY <2>1, <2>2, BusyMoves
  <2>4. \A a \in Analyzers : goroutine'[a] # "dead" /\ (goroutine'[a] = "none" <=> a > spawned')
    <3> SUFFICES ASSUME NEW a \in Analyzers
                 PROVE  goroutine'[a] # "dead" /\ (goroutine'[a] = "none" <=> a > spawned + 1)
      BY <1>1 DEF Spawn
    <3>1. a \in Nat /\ spawned \in Nat
      OBVIOUS
    <3>2. goroutine'[a] = IF a = spawned + 1 THEN "analyze" ELSE goroutine[a]
      BY <1>1 DEF Spawn
    <3>3. goroutine[a] # "dead" /\ (goroutine[a] = "none" <=> a > spawned)
      BY <1>1 DEF Spawn
    <3> QED BY <3>1, <3>2, <3>3
  <2>5. wg' = Cardinality(Busy')
    BY <1>1, <2>3 DEF Spawn
  <2> QED BY <1>1, <2>4, <2>5 DEF Spawn
<1>2. CASE Wait
  <2>1. Busy = {}
    <3>1. IsFiniteSet(Busy)
      BY PartBounded DEF Busy
    <3> QED BY <1>2, <3>1, FS_EmptySet DEF Wait
  <2>2. \A a \in Analyzers : goroutine[a] = "gone"
    <3> SUFFICES ASSUME NEW a \in Analyzers PROVE goroutine[a] = "gone"
      OBVIOUS
    <3>1. goroutine[a] \notin {"analyze", "send", "finish"}
      BY <2>1 DEF Busy
    <3>2. goroutine[a] \notin {"none", "dead"}
      BY <1>2 DEF Wait
    <3> QED BY <3>1, <3>2 DEF Through
  <2>3. Busy' = Busy
    BY <1>2 DEF Wait, Busy
  <2> QED BY <1>2, <2>2, <2>3 DEF Wait
<1>3. CASE Close
  BY <1>3 DEF Close, Busy
<1>4. CASE Collect
  BY <1>4 DEF Collect, Busy
<1>5. CASE Finish
  BY <1>5 DEF Finish, Busy
<1>6. ASSUME NEW a \in Analyzers, NEW issues \in Findings, Analyze(a, issues)
      PROVE  LoopInv' /\ CrashInv'
  <2>1. Busy' = Busy
    BY <1>6 DEF Analyze, Busy
  <2> QED BY <1>6, <2>1 DEF Analyze
<1>7. ASSUME NEW a \in Analyzers, Panic(a)
      PROVE  LoopInv' /\ CrashInv'
  BY <1>7 DEF Panic
<1>8. ASSUME NEW a \in Analyzers, Send(a)
      PROVE  LoopInv' /\ CrashInv'
  <2>1. Busy' = Busy
    BY <1>8 DEF Send, Busy
  <2> QED BY <1>8, <2>1 DEF Send
<1>9. ASSUME NEW a \in Analyzers, Done(a)
      PROVE  LoopInv' /\ CrashInv'
  <2>1. a \in Busy /\ Busy' = Busy \ {a}
    BY <1>9 DEF Done, Busy
  <2>2. Cardinality(Busy') = Cardinality(Busy) - 1
    BY <2>1, BusyMoves
  <2> QED BY <1>9, <2>2 DEF Done
<1>10. CASE UNCHANGED vars
  BY <1>10 DEF vars, Busy
<1>11. QED
  BY <1>1, <1>2, <1>3, <1>4, <1>5, <1>6, <1>7, <1>8, <1>9, <1>10 DEF Next, Run, Goroutine, Leave

-----------------------------------------------------------------------------
(***************************************************************************)
(* Type correctness.                                                       *)
(***************************************************************************)

\* The lists of collected partials have a score between 0 and 100.
LEMMA CollectedScore ==
  ASSUME TypeOK
  PROVE  Score([i \in 1..Len(collected) |-> collected[i].issues]) \in 0..100
<1> DEFINE lists == [i \in 1..Len(collected) |-> collected[i].issues]
<1>1. Len(collected) \in Nat
  BY LenProperties DEF TypeOK
<1>2. \A i \in 1..Len(collected) : collected[i].issues \in Seq(Severities)
  <2>1. \A i \in 1..Len(collected) : collected[i] \in Partial
    BY ElementOfSeq DEF TypeOK
  <2> QED BY <2>1, RegistryAssumption DEF Partial
<1>3. lists \in [1..Len(collected) -> Seq(Severities)]
  BY <1>2
<1> HIDE DEF lists
<1>4. Score(lists) \in 0..100
  BY <1>1, <1>3, ScoreRange
<1>5. QED
  BY <1>4 DEF lists

LEMMA TypeStep == IInv /\ [Next]_vars => TypeOK'
<1> SUFFICES ASSUME IInv, [Next]_vars PROVE TypeOK'
  OBVIOUS
<1>1. wg' \in 0..N
  <2>1. CASE pc' = "crashed"
    BY <2>1, LoopStep DEF IInv, TypeOK, Next, Run, Goroutine, Leave, Spawn, Wait, Close, Collect,
         Finish, Analyze, Panic, Send, Done, vars, CrashInv
  <2>2. CASE pc' # "crashed"
    <3>1. wg' = Cardinality(Busy')
      BY <2>2, LoopStep DEF LoopInv
    <3>2. Cardinality(Busy') \in 0..N
      BY PartBounded DEF Busy
    <3> QED BY <3>1, <3>2
  <2> QED BY <2>1, <2>2
<1>2. health' \in 0..100 \union {Unscored}
  <2>1. CASE Finish
    BY <2>1, CollectedScore DEF Finish, IInv
  <2>2. CASE ~Finish
    BY <2>2 DEF IInv, TypeOK, Next, Run, Goroutine, Leave, Spawn, Wait, Close, Collect, Analyze,
         Panic, Send, Done, vars
  <2> QED BY <2>1, <2>2
<1>3. buffer' \in Seq(Partial) /\ collected' \in Seq(Partial)
  <2>1. CASE Collect
    <3>1. Head(buffer) \in Partial /\ Tail(buffer) \in Seq(Partial)
      BY <2>1, HeadTailProperties DEF Collect, IInv, TypeOK
    <3> QED BY <2>1, <3>1 DEF Collect, IInv, TypeOK
  <2>2. ASSUME NEW a \in Analyzers, Send(a)
        PROVE  buffer' \in Seq(Partial) /\ collected' \in Seq(Partial)
    <3>1. [name |-> a, issues |-> found[a]] \in Partial
      BY DEF IInv, TypeOK, Partial
    <3> QED BY <2>2, <3>1 DEF Send, IInv, TypeOK
  <2>3. CASE UNCHANGED <<buffer, collected>>
    BY <2>3 DEF IInv, TypeOK
  <2> QED
    BY <2>1, <2>2, <2>3 DEF Next, Run, Goroutine, Leave, Spawn, Wait, Close, Finish, Analyze,
       Panic, Done, vars
<1>4. /\ pc' \in {"spawn", "close", "collect", "done", "crashed"}
      /\ spawned' \in 0..N
      /\ open' \in BOOLEAN
      /\ goroutine' \in [Analyzers -> Through \union {"none", "analyze", "dead"}]
      /\ found' \in [Analyzers -> Findings]
  <2> USE RegistryAssumption DEF IInv, TypeOK
  <2>1. CASE Spawn
    <3>1. spawned' \in 0..N /\ UNCHANGED <<pc, open, found>>
      BY <2>1 DEF Spawn
    <3>2. goroutine' = [goroutine EXCEPT ![spawned + 1] = "analyze"]
      BY <2>1 DEF Spawn
    <3> QED BY <3>1, <3>2
  <2>5. CASE Wait \/ Close \/ Collect \/ Finish
    BY <2>5 DEF Wait, Close, Collect, Finish
  <2>2. ASSUME NEW a \in Analyzers, NEW issues \in Findings, Analyze(a, issues) PROVE <1>4!:
    BY <2>2 DEF Analyze, Through
  <2>3. ASSUME NEW a \in Analyzers, Panic(a) \/ Send(a) \/ Done(a) PROVE <1>4!:
    BY <2>3 DEF Panic, Send, Done, Through
  <2>4. CASE UNCHANGED vars
    BY <2>4 DEF vars
  <2> QED BY <2>1, <2>2, <2>3, <2>4, <2>5 DEF Next, Run, Goroutine, Leave
<1>5. QED
  BY <1>1, <1>2, <1>3, <1>4 DEF TypeOK

-----------------------------------------------------------------------------
(***************************************************************************)
(* The channel.                                                            *)
(***************************************************************************)

\* Taking the head of a queue to the end of what was taken before it leaves the two
\* together as they are; appending to the queue appends to the two together.
LEMMA QueueMoves ==
  ASSUME NEW S, NEW c \in Seq(S), NEW b \in Seq(S), NEW x \in S
  PROVE  /\ b # <<>> => Append(c, Head(b)) \o Tail(b) = c \o b
         /\ c \o Append(b, x) = Append(c \o b, x)
<1>1. ASSUME b # <<>> PROVE Append(c, Head(b)) \o Tail(b) = c \o b
  <2> DEFINE l == Append(c, Head(b)) \o Tail(b)
             r == c \o b
  <2>1. Head(b) \in S /\ Head(b) = b[1] /\ Tail(b) \in Seq(S)
    BY <1>1, HeadTailProperties
  <2>2. Len(b) \in Nat \ {0} /\ Len(c) \in Nat /\ Len(Tail(b)) = Len(b) - 1
    BY <1>1, EmptySeq, LenProperties, HeadTailProperties
  <2>3. \A i \in 1..Len(b) - 1 : Tail(b)[i] = b[i + 1]
    BY <1>1, <2>2, HeadTailProperties
  <2>4. /\ Append(c, Head(b)) \in Seq(S)
        /\ Len(Append(c, Head(b))) = Len(c) + 1
        /\ \A i \in 1..Len(c) + 1 : Append(c, Head(b))[i] = IF i <= Len(c) THEN c[i] ELSE b[1]
    BY <2>1, <2>2
  <2>5. /\ l \in Seq(S) /\ r \in Seq(S)
        /\ Len(l) = Len(c) + Len(b) /\ Len(r) = Len(c) + Len(b)
    BY <2>1, <2>2, <2>4, ConcatProperties
  <2>6. ASSUME NEW i \in 1..Len(c) + Len(b) PROVE l[i] = r[i]
    <3>1. l[i] = IF i <= Len(c) + 1 THEN Append(c, Head(b))[i] ELSE Tail(b)[i - (Len(c) + 1)]
      BY <2>1, <2>2, <2>4, ConcatProperties
    <3>2. r[i] = IF i <= Len(c) THEN c[i] ELSE b[i - Len(c)]
      BY ConcatProperties
    <3> HIDE DEF l, r
    <3>3. CASE i <= Len(c)
      BY <2>2, <2>4, <3>1, <3>2, <3>3
    <3>4. CASE i = Len(c) + 1
      BY <2>2, <2>4, <3>1, <3>2, <3>4
    <3>5. CASE i > Len(c) + 1
      <4>1. i - (Len(c) + 1) \in 1..Len(b) - 1 /\ i - (Len(c) + 1) + 1 = i - Len(c)
        BY <2>2, <3>5
      <4>2. Tail(b)[i - (Len(c) + 1)] = b[i - Len(c)]
        BY <2>3, <4>1
      <4> QED BY <2>2, <3>1, <3>2, <3>5, <4>2
    <3> QED BY <2>2, <3>3, <3>4, <3>5
  <2> HIDE DEF l, r
  <2>7. l = r
    BY <2>5, <2>6, SeqEqual
  <2> QED BY <2>7 DEF l, r
<1>2. c \o Append(b, x) = Append(c \o b, x)
  <2> DEFINE l == c \o Append(b, x)
             r == Append(c \o b, x)
  <2>1. Len(b) \in Nat /\ Len(c) \in Nat
    BY LenProperties
  <2>2. /\ c \o b \in Seq(S) /\ Len(c \o b) = Len(c) + Len(b)
        /\ \A i \in 1..Len(c) + Len(b) : (c \o b)[i] = IF i <= Len(c) THEN c[i] ELSE b[i - Len(c)]
    BY ConcatProperties
  <2>3. /\ Append(b, x) \in Seq(S) /\ Len(Append(b, x)) = Len(b) + 1
        /\ \A i \in 1..Len(b) + 1 : Append(b, x)[i] = IF i <= Len(b) THEN b[i] ELSE x
    BY <2>1
  <2>4. /\ l \in Seq(S) /\ Len(l) = Len(c) + (Len(b) + 1)
        /\ \A i \in 1..Len(c) + (Len(b) + 1) :
             l[i] = IF i <= Len(c) THEN c[i] ELSE Append(b, x)[i - Len(c)]
    <3> DEFINE longer == Append(b, x)
    <3>1. longer \in Seq(S) /\ Len(longer) = Len(b) + 1
      BY <2>3
    <3> HIDE DEF longer
    <3>2. /\ c \o longer \in Seq(S) /\ Len(c \o longer) = Len(c) + Len(longer)
          /\ \A i \in 1..Len(c) + Len(longer) :
               (c \o longer)[i] = IF i <= Len(c) THEN c[i] ELSE longer[i - Len(c)]
      BY <3>1, ConcatProperties
    <3>3. QED
      BY <3>1, <3>2 DEF longer
  <2>5. /\ r \in Seq(S) /\ Len(r) = Len(c) + Len(b) + 1
        /\ \A i \in 1..Len(c) + Len(b) + 1 :
             r[i] = IF i <= Len(c) + Len(b) THEN (c \o b)[i] ELSE x
    BY <2>1, <2>2
  <2> HIDE DEF l, r
  <2>6. ASSUME NEW i \in 1..Len(l) PROVE l[i] = r[i]
    <3>1. i \in 1..Len(c) + Len(b) + 1
      BY <2>1, <2>4
    <3>2. CASE i <= Len(c)
      <4>1. i \in 1..Len(c) + (Len(b) + 1) /\ i \in 1..Len(c) + Len(b) /\ i <= Len(c) + Len(b)
        BY <2>1, <3>1, <3>2
      <4>2. l[i] = c[i]
        BY <2>4, <3>2, <4>1
      <4>3. r[i] = (c \o b)[i]
        BY <2>5, <3>1, <4>1
      <4>4. (c \o b)[i] = c[i]
        BY <2>2, <3>2, <4>1
      <4> QED BY <4>2, <4>3, <4>4
    <3>3. CASE i > Len(c)
      <4>1. i - Len(c) \in 1..Len(b) + 1
        BY <2>1, <3>1, <3>3
      <4>2. l[i] = IF i - Len(c) <= Len(b) THEN b[i - Len(c)] ELSE x
        BY <2>1, <2>3, <2>4, <3>1, <3>3, <4>1
      <4>3. r[i] = IF i <= Len(c) + Len(b) THEN b[i - Len(c)] ELSE x
        BY <2>1, <2>2, <2>5, <3>1, <3>3
      <4> QED BY <2>1, <3>1, <4>2, <4>3
    <3> QED BY <2>1, <3>1, <3>2, <3>3
  <2>7. l = r
    <3>1. l \in Seq(S) /\ r \in Seq(S)
      BY <2>4, <2>5
    <3>2. Len(l) = Len(r)
      BY <2>1, <2>4, <2>5
    <3>3. QED
      BY <2>6, <3>1, <3>2, SeqEqual
  <2> QED BY <2>7 DEF l, r
<1>3. QED
  BY <1>1, <1>2

LEMMA ChannelStep == IInv /\ [Next]_vars => ChannelInv'
<1> SUFFICES ASSUME IInv, [Next]_vars, pc' # "crashed" PROVE OneEach(collected \o buffer)'
  BY DEF ChannelInv
<1> DEFINE sent == collected \o buffer
<1>1. collected \in Seq(Partial) /\ buffer \in Seq(Partial) /\ sent \in Seq(Partial)
  BY ConcatProperties DEF IInv, TypeOK
<1>2. \A i \in 1..Len(sent) : sent[i] \in Partial /\ sent[i].name \in Analyzers
  <2> HIDE DEF sent
  <2>1. \A i \in 1..Len(sent) : sent[i] \in Partial
    BY <1>1, ElementOfSeq
  <2> QED BY <2>1 DEF Partial
<1>3. goroutine \in [Analyzers -> Through \union {"none", "analyze", "dead"}]
      /\ found \in [Analyzers -> Findings]
  BY DEF IInv, TypeOK
<1>4. pc # "crashed" => OneEach(sent)
  BY DEF IInv, ChannelInv
<1> HIDE DEF sent
<1>5. CASE Spawn
  <2>1. sent' = sent /\ pc # "crashed"
    BY <1>5 DEF Spawn, sent
  <2>2. spawned + 1 \in Analyzers /\ goroutine[spawned + 1] = "none"
    BY <1>5, RegistryAssumption DEF Spawn, Analyzers, IInv, TypeOK, LoopInv
  <2>3. OneEach(sent)
    BY <1>4, <2>1
  <2> QED BY <1>2, <1>3, <1>5, <2>1, <2>2, <2>3 DEF Spawn, OneEach, sent
<1>6. CASE Wait \/ Close \/ Finish
  <2>1. sent' = sent /\ pc # "crashed" /\ UNCHANGED <<goroutine, found>>
    BY <1>6 DEF Wait, Close, Finish, sent
  <2> QED BY <1>4, <2>1 DEF OneEach, sent
<1>7. CASE Collect
  <2>1. sent' = sent /\ pc # "crashed" /\ UNCHANGED <<goroutine, found>>
    <3>1. Head(buffer) \in Partial
      BY <1>1, <1>7, HeadTailProperties DEF Collect
    <3> QED BY <1>1, <1>7, <3>1, QueueMoves DEF Collect, sent
  <2> QED BY <1>4, <2>1 DEF OneEach, sent
<1>8. ASSUME NEW a \in Analyzers, NEW issues \in Findings, Analyze(a, issues)
      PROVE  OneEach(collected \o buffer)'
  <2>1. sent' = sent /\ pc # "crashed"
    BY <1>8 DEF Analyze, sent, IInv, CrashInv
  <2>2. OneEach(sent)
    BY <1>4, <2>1
  <2> QED BY <1>2, <1>3, <1>8, <2>1, <2>2 DEF Analyze, OneEach, sent
<1>9. ASSUME NEW a \in Analyzers, Panic(a)
      PROVE  OneEach(collected \o buffer)'
  BY <1>9 DEF Panic
<1>10. ASSUME NEW a \in Analyzers, Send(a)
       PROVE  OneEach(collected \o buffer)'
  <2> DEFINE x == [name |-> a, issues |-> found[a]]
  <2>1. x \in Partial /\ pc # "crashed"
    BY <1>3, <1>10 DEF Partial, Send, IInv, CrashInv
  <2>2. sent' = Append(sent, x)
    BY <1>1, <1>10, <2>1, QueueMoves DEF Send, sent
  <2>3. Len(sent) \in Nat /\ Len(sent') = Len(sent) + 1 /\ sent'[Len(sent) + 1] = x
        /\ \A i \in 1..Len(sent) : sent'[i] = sent[i]
    BY <1>1, <2>2, LenProperties
  <2>4. OneEach(sent)
    BY <1>4, <2>1
  <2>5. goroutine[a] = "send" /\ goroutine' = [goroutine EXCEPT ![a] = "finish"] /\ found' = found
    BY <1>10 DEF Send
  <2>6. \A i \in 1..Len(sent) : sent[i].name # a
    BY <2>4, <2>5 DEF OneEach
  <2>7. x.name = a /\ x.issues = found[a]
    OBVIOUS
  <2> HIDE DEF x
  <2>8. \A i \in 1..Len(sent') : i \in 1..Len(sent) \/ i = Len(sent) + 1
    BY <2>3
  <2>9. \A i, j \in 1..Len(sent') : sent'[i].name = sent'[j].name => i = j
    BY <2>3, <2>4, <2>6, <2>7, <2>8 DEF OneEach
  <2>10. \A i \in 1..Len(sent') : /\ goroutine'[sent'[i].name] \in {"finish", "gone"}
                                   /\ sent'[i].issues = found'[sent'[i].name]
    BY <1>2, <1>3, <2>3, <2>4, <2>5, <2>6, <2>7, <2>8 DEF OneEach
  <2>11. \A b \in Analyzers : goroutine'[b] \in {"finish", "gone"} =>
                               \E i \in 1..Len(sent') : sent'[i].name = b
    <3> SUFFICES ASSUME NEW b \in Analyzers, goroutine'[b] \in {"finish", "gone"}
                 PROVE  \E i \in 1..Len(sent') : sent'[i].name = b
      OBVIOUS
    <3>1. CASE b = a
      BY <2>3, <2>7, <3>1
    <3>2. CASE b # a
      <4>1. PICK i \in 1..Len(sent) : sent[i].name = b
        BY <1>3, <2>4, <2>5, <3>2 DEF OneEach
      <4> QED BY <2>3, <4>1
    <3> QED BY <3>1, <3>2
  <2> QED BY <2>9, <2>10, <2>11 DEF OneEach, sent
<1>11. ASSUME NEW a \in Analyzers, Done(a)
       PROVE  OneEach(collected \o buffer)'
  <2>1. sent' = sent /\ pc # "crashed"
    BY <1>11 DEF Done, sent, IInv, CrashInv
  <2>2. OneEach(sent)
    BY <1>4, <2>1
  <2> QED BY <1>2, <1>3, <1>11, <2>1, <2>2 DEF Done, OneEach, sent
<1>12. CASE UNCHANGED vars
  <2>1. sent' = sent /\ pc # "crashed" /\ UNCHANGED <<goroutine, found>>
    BY <1>12 DEF vars, sent
  <2> QED BY <1>4, <2>1 DEF OneEach, sent
<1>13. QED
  BY <1>5, <1>6, <1>7, <1>8, <1>9, <1>10, <1>11, <1>12 DEF Next, Run, Goroutine, Leave

LEMMA ResultStep == IInv /\ [Next]_vars => ResultInv'
<1> SUFFICES ASSUME IInv, [Next]_vars PROVE ResultInv'
  OBVIOUS
<1> USE DEF IInv, ResultInv
<1>1. CASE Finish
  <2>1. health' \in 0..100 /\ pc' = "done" /\ buffer' = <<>>
    BY <1>1, CollectedScore DEF Finish
  <2> QED BY <2>1 DEF Unscored
<1>2. CASE Spawn \/ Wait \/ Close \/ Collect
  BY <1>2 DEF Spawn, Wait, Close, Collect
<1>3. ASSUME NEW a \in Analyzers, Goroutine(a) \/ Panic(a) PROVE ResultInv'
  <2>1. pc # "done"
    BY <1>3 DEF Goroutine, Leave, Analyze, Send, Done, Panic, LoopInv
  <2> QED BY <1>3, <2>1 DEF Goroutine, Leave, Analyze, Send, Done, Panic
<1>4. CASE UNCHANGED vars
  BY <1>4 DEF vars
<1>5. QED
  BY <1>1, <1>2, <1>3, <1>4 DEF Next, Run

-----------------------------------------------------------------------------
(***************************************************************************)
(* The invariant and what follows from it.                                 *)
(***************************************************************************)

LEMMA InitInv == Init => IInv
<1> SUFFICES ASSUME Init PROVE IInv
  OBVIOUS
<1>1. Busy = {}
  BY DEF Init, Busy
<1>2. wg = Cardinality(Busy)
  BY <1>1, FS_EmptySet DEF Init
<1>3. TypeOK
  BY RegistryAssumption DEF Init, TypeOK, Through
<1>4. LoopInv /\ CrashInv /\ ResultInv
  BY <1>2 DEF Init, LoopInv, CrashInv, ResultInv, Analyzers
<1>5. collected \o buffer = <<>>
  BY ConcatEmptySeq, EmptySeq DEF Init
<1>6. ChannelInv
  BY <1>5 DEF Init, ChannelInv, OneEach
<1>7. QED
  BY <1>3, <1>4, <1>6 DEF IInv

\* The invariant holds in every reachable state of Registry.Run.
THEOREM Invariance == Spec => []IInv
<1>1. IInv /\ [Next]_vars => IInv'
  BY TypeStep, LoopStep, ChannelStep, ResultStep DEF IInv
<1>2. QED
  BY InitInv, <1>1, PTL DEF Spec

\* Every variable keeps its type; the wait group's counter is never negative and never
\* greater than the number of analyzers.
THEOREM TypeCorrect == Spec => []TypeOK
<1>1. IInv => TypeOK
  BY DEF IInv
<1>2. QED
  BY Invariance, <1>1, PTL

\* close(ch) comes after every send.
THEOREM ClosedLast == Spec => []NoSendAfterClose
<1>1. IInv => NoSendAfterClose
  BY DEF IInv, TypeOK, LoopInv, CrashInv, NoSendAfterClose
<1>2. QED
  BY Invariance, <1>1, PTL

LEMMA IntervalCount ==
  ASSUME NEW n \in Nat
  PROVE  IsFiniteSet(1..n) /\ Cardinality(1..n) = n
<1>1. /\ IsFiniteSet(1..n)
      /\ Cardinality(1..n) = IF 1 > n THEN 0 ELSE n - 1 + 1
  BY FS_Interval
<1> QED
  BY <1>1

\* What has been sent is, by name, an injection into the analyzers.
LEMMA SentInjective ==
  ASSUME IInv, pc # "crashed", NEW S \in SUBSET Analyzers,
         \A a \in Analyzers : goroutine[a] \in {"finish", "gone"} => a \in S
  PROVE  Len(collected \o buffer) <= Cardinality(S)
<1> DEFINE sent == collected \o buffer
           names == [i \in 1..Len(sent) |-> sent[i].name]
<1>1. sent \in Seq(Partial)
  BY ConcatProperties DEF IInv, TypeOK
<1> HIDE DEF sent
<1>2. Len(sent) \in Nat /\ \A i \in 1..Len(sent) : sent[i].name \in Analyzers
  <2>1. Len(sent) \in Nat
    BY <1>1, LenProperties
  <2>2. \A i \in 1..Len(sent) : sent[i] \in Partial
    BY <1>1, ElementOfSeq
  <2> QED BY <2>1, <2>2 DEF Partial
<1>3. OneEach(sent)
  BY DEF IInv, ChannelInv, sent
<1>4. names \in Injection(1..Len(sent), S)
  BY <1>2, <1>3 DEF OneEach, Injection, IsInjective
<1>5. IsFiniteSet(S)
  BY PartBounded
<1> HIDE DEF names
<1>6. Cardinality(1..Len(sent)) <= Cardinality(S)
  BY <1>4, <1>5, FS_Injection
<1>7. Cardinality(1..Len(sent)) = Len(sent)
  BY <1>2, IntervalCount
<1>8. QED
  BY <1>6, <1>7 DEF sent

\* The channel has a slot for every goroutine that has yet to send: no send blocks, so
\* wg.Wait never waits for a goroutine that waits for a reader.
THEOREM SendsNeverBlock == Spec => []SendNeverBlocks
<1>1. ASSUME IInv, NEW a \in Analyzers, goroutine[a] = "send"
      PROVE  Len(buffer) < Capacity
  <2>1. pc # "crashed"
    BY <1>1 DEF IInv, CrashInv
  <2>2. IsFiniteSet(Analyzers \ {a}) /\ Cardinality(Analyzers \ {a}) = N - 1
    BY AnalyzersFinite, FS_RemoveElement
  <2>3. Len(collected \o buffer) <= N - 1
    BY <1>1, <2>1, <2>2, SentInjective
  <2>4. /\ Len(collected \o buffer) = Len(collected) + Len(buffer)
        /\ Len(collected) \in Nat /\ Len(buffer) \in Nat
    BY <1>1, ConcatProperties, LenProperties DEF IInv, TypeOK
  <2>5. QED
    BY <2>3, <2>4, RegistryAssumption DEF Capacity
<1>2. IInv => SendNeverBlocks
  BY <1>1 DEF SendNeverBlocks
<1>3. QED
  BY Invariance, <1>2, PTL

-----------------------------------------------------------------------------
(***************************************************************************)
(* Registry.Run implements DiagnosisReport.                                *)
(***************************************************************************)

\* When Run returns, it names every analyzer once and scores every analyzer's issues.
LEMMA FinishReports ==
  ASSUME IInv, Finish
  PROVE  Reported!Report
<1> DEFINE order == [i \in 1..Len(collected) |-> collected[i].name]
<1> USE DEF IInv, TypeOK
<1>1. pc = "collect" /\ pc' = "done" /\ buffer = <<>> /\ UNCHANGED <<goroutine, found, collected>>
  BY DEF Finish
<1>2. collected \in Seq(Partial) /\ Len(collected) \in Nat
      /\ \A i \in 1..Len(collected) : collected[i] \in Partial
  BY LenProperties, ElementOfSeq
<1>3. collected \o buffer = collected
  BY <1>1, <1>2, ConcatEmptySeq
<1>4. OneEach(collected)
  BY <1>1, <1>3 DEF ChannelInv
<1>5. \A a \in Analyzers : goroutine[a] = "gone"
  BY <1>1 DEF LoopInv
<1>6. /\ order \in [1..Len(collected) -> Analyzers]
      /\ \A i, j \in 1..Len(collected) : order[i] = order[j] => i = j
      /\ \A a \in Analyzers : \E i \in 1..Len(collected) : order[i] = a
      /\ \A i \in 1..Len(collected) : collected[i].issues = found[order[i]]
  BY <1>2, <1>4, <1>5 DEF OneEach, Partial
<1>7. Len(collected) = N
  <2> HIDE DEF order
  <2>1. order \in Bijection(1..Len(collected), Analyzers)
    BY <1>6 DEF Bijection, Injection, Surjection, IsInjective
  <2>2. IsFiniteSet(1..Len(collected)) /\ Cardinality(1..Len(collected)) = Len(collected)
    BY <1>2, IntervalCount
  <2>3. Cardinality(Analyzers) = Cardinality(1..Len(collected))
    BY <2>1, <2>2, FS_Bijection DEF ExistsBijection
  <2> QED BY <1>2, <2>2, <2>3, AnalyzersFinite
<1> DEFINE permuted == [i \in 1..N |-> found[order[i]]]
<1>8. Score(permuted) = Score(found)
  <2>1. found \in [1..N -> Seq(Severities)] /\ order \in [1..N -> 1..N]
    BY <1>6, <1>7, RegistryAssumption DEF Analyzers
  <2>2. /\ \A i, j \in 1..N : order[i] = order[j] => i = j
        /\ \A a \in 1..N : \E i \in 1..N : order[i] = a
    BY <1>6, <1>7 DEF Analyzers
  <2>3. N \in Nat
    BY RegistryAssumption
  <2>4. permuted \in [1..N -> Seq(Severities)] /\ \A i \in 1..N : permuted[i] = found[order[i]]
    BY <2>1
  <2> HIDE DEF order, permuted, IInv, TypeOK
  <2>5. Permutes(permuted, found, N)
    BY <2>1, <2>2, <2>4 DEF Permutes
  <2> QED BY <2>1, <2>3, <2>4, <2>5, ScoreUnordered
<1>9. health' = Score(found)
  <2>1. [i \in 1..Len(collected) |-> collected[i].issues] = [i \in 1..N |-> found[order[i]]]
    BY <1>6, <1>7
  <2> HIDE DEF order
  <2> QED BY <1>8, <2>1 DEF Finish, permuted
<1>10. Ended = Analyzers /\ Ended' = Ended
  BY <1>1, <1>5 DEF Ended, Through
<1>11. Order' = order
  BY <1>1 DEF Order
<1>12. health = Unscored
  BY <1>1 DEF ResultInv
<1>13. QED
  <2>1. order \in [Analyzers -> Analyzers] /\ \A a, b \in Analyzers : order[a] = order[b] => a = b
    BY <1>6, <1>7 DEF Analyzers
  <2> HIDE DEF order
  <2> QED BY <1>1, <1>9, <1>10, <1>11, <1>12, <2>1
       DEF Reported!Report, Reported!Unscored, Unscored

LEMMA StepRefines ==
  ASSUME IInv, [Next]_vars
  PROVE  [Reported!ANext]_(Reported!absVars)
<1> DEFINE Goal == [Reported!ANext]_(Reported!absVars)
<1> USE DEF IInv, TypeOK
<1>1. ASSUME UNCHANGED <<Ended, found, Order, health>> PROVE Goal
  BY <1>1 DEF Reported!absVars
<1>2. CASE Finish
  BY <1>2, FinishReports DEF Reported!ANext
<1>3. CASE Spawn
  <2>1. spawned + 1 \in Analyzers /\ goroutine[spawned + 1] = "none"
    BY <1>3, RegistryAssumption DEF Spawn, Analyzers, LoopInv
  <2>2. Ended' = Ended
    BY <1>3, <2>1 DEF Spawn, Ended, Through
  <2> QED BY <1>1, <1>3, <2>2 DEF Spawn, Order
<1>4. CASE Wait \/ Close \/ Collect
  <2>1. Ended' = Ended
    BY <1>4 DEF Wait, Close, Collect, Ended
  <2>2. pc # "done" /\ pc' # "done" /\ UNCHANGED <<found, health>>
    BY <1>4 DEF Wait, Close, Collect
  <2> QED BY <1>1, <2>1, <2>2 DEF Order
<1>5. ASSUME NEW a \in Analyzers, NEW issues \in Findings, Analyze(a, issues) PROVE Goal
  <2>1. a \notin Ended /\ Ended' = Ended \union {a}
    BY <1>5 DEF Analyze, Ended, Through
  <2>2. Order' = Order
    BY <1>5 DEF Analyze, Order
  <2>3. Reported!End(a, issues)
    BY <1>5, <2>1, <2>2 DEF Analyze, Reported!End
  <2> QED BY <2>3 DEF Reported!ANext
<1>6. ASSUME NEW a \in Analyzers, Send(a) \/ Done(a) PROVE Goal
  <2>1. Ended' = Ended
    BY <1>6 DEF Send, Done, Ended, Through
  <2> QED BY <1>1, <1>6, <2>1 DEF Send, Done, Order
<1>7. ASSUME NEW a \in Analyzers, Panic(a) PROVE Goal
  <2>1. Ended' = Ended
    BY <1>7 DEF Panic, Ended, Through
  <2>2. pc # "done" /\ pc' # "done"
    BY <1>7 DEF Panic, LoopInv
  <2> QED BY <1>1, <1>7, <2>1, <2>2 DEF Panic, Order
<1>8. CASE UNCHANGED vars
  BY <1>1, <1>8 DEF vars, Ended, Order
<1>9. QED
  BY <1>2, <1>3, <1>4, <1>5, <1>6, <1>7, <1>8 DEF Next, Run, Goroutine, Leave

\* However the goroutines are scheduled, Run's result names each analyzer exactly once
\* and its score counts each analyzer's issues exactly once.
THEOREM ReportImplemented == Spec => ImplementsReport
<1>1. Init => Reported!AInit
  BY DEF Init, Reported!AInit, Ended, Order, Through, Unscored, Reported!Unscored
<1>2. IInv /\ [Next]_vars => [Reported!ANext]_(Reported!absVars)
  BY StepRefines
<1>3. QED
  BY <1>1, <1>2, Invariance, PTL DEF Spec, ImplementsReport, Reported!ASpec

=============================================================================
