--------------------------- MODULE ApiServerProofs ---------------------------
(***************************************************************************)
(* TLAPS proofs about RateLimit and about ApiServer, whose requests take   *)
(* RateLimit's steps: for every set of requests and of gin.Contexts, every *)
(* limit and every number of minutes and failures.                         *)
(***************************************************************************)
EXTENDS ApiServer, FiniteSetTheorems, TLAPS

-----------------------------------------------------------------------------
(***************************************************************************)
(* The inductive invariant: the answers Redis has given for one key are    *)
(* all different, none is above the key's value, and that value exceeds    *)
(* the number of answers only by what was counted without being heard.     *)
(***************************************************************************)

\* The types without the bound on counters and answers, which CounterInv gives.
Types ==
  /\ minute \in Minutes
  /\ counter \in [Tenants -> [Minutes -> Nat]]
  /\ stage \in [Requests -> {"new", "counting", "deciding", "admitted", "limited"}]
  /\ key \in [Requests -> Minutes]
  /\ count \in [Requests -> Nat]
  /\ faults \in 0..MaxFaults

StageInv == \A r \in Requests :
  /\ stage[r] \in {"new", "counting"} => count[r] = 0
  /\ stage[r] = "admitted" => count[r] <= Limit
  /\ stage[r] = "limited" => count[r] > Limit

AnswerInv ==
  /\ \A r \in Requests : count[r] <= counter[TenantOf[r]][key[r]]
  /\ \A q, r \in Requests :
       /\ TenantOf[q] = TenantOf[r]
       /\ key[q] = key[r]
       /\ count[q] = count[r]
       /\ count[r] > 0
       => q = r

CounterInv == \A t \in Tenants, m \in Minutes :
  counter[t][m] <= Cardinality(Counted(t, m)) + faults

\* The requests Redis never answered for: each of them met a failure of its own.
Unheard == {r \in Requests : stage[r] \in {"deciding", "admitted", "limited"} /\ count[r] = 0}

UnheardInv == Cardinality(Unheard) <= faults

IInv == Types /\ StageInv /\ AnswerInv /\ CounterInv /\ UnheardInv

-----------------------------------------------------------------------------
\* The requests Redis counted for one key are finitely many.
LEMMA CountedFinite ==
  ASSUME NEW t, NEW m
  PROVE  /\ IsFiniteSet(Counted(t, m))
         /\ Cardinality(Counted(t, m)) \in Nat
         /\ Cardinality(Counted(t, m)) <= Cardinality(Requests)
         /\ Cardinality(Requests) \in Nat
<1>1. Counted(t, m) \subseteq Requests /\ IsFiniteSet(Requests)
  BY RateLimitAssumption DEF Counted
<1> QED
  BY <1>1, FS_Subset, FS_CardinalityType

\* A request that Redis counts raises its own key's number of counted requests by one.
LEMMA CountedGrows ==
  ASSUME Types, StageInv, NEW r \in Requests, Count(r),
         NEW t \in Tenants, NEW m \in Minutes
  PROVE  Cardinality(Counted(t, m)') =
           Cardinality(Counted(t, m)) + IF TenantOf[r] = t /\ key[r] = m THEN 1 ELSE 0
<1>1. /\ key' = key /\ count[r] = 0
      /\ count'[r] > 0
      /\ \A q \in Requests \ {r} : count'[q] = count[q]
  <2>1. stage[r] = "counting" /\ key' = key
    BY DEF Count, Goto
  <2>2. count' = [count EXCEPT ![r] = counter[TenantOf[r]][key[r]] + 1]
    BY DEF Count
  <2>3. TenantOf[r] \in Tenants /\ key[r] \in Minutes
    BY RateLimitAssumption DEF Types
  <2>4. counter[TenantOf[r]][key[r]] \in Nat
    BY <2>3 DEF Types
  <2>5. count'[r] = counter[TenantOf[r]][key[r]] + 1 /\ \A q \in Requests \ {r} : count'[q] = count[q]
    BY <2>2 DEF Types
  <2> QED BY <2>1, <2>4, <2>5 DEF StageInv
<1>2. CASE TenantOf[r] = t /\ key[r] = m
  <2>1. Counted(t, m)' = Counted(t, m) \union {r} /\ r \notin Counted(t, m)
    BY <1>1, <1>2 DEF Counted
  <2>2. IsFiniteSet(Counted(t, m)) /\ Cardinality(Counted(t, m)) \in Nat
    BY CountedFinite
  <2>3. Cardinality(Counted(t, m) \union {r}) = Cardinality(Counted(t, m)) + 1
    BY <2>1, <2>2, FS_AddElement
  <2> QED BY <1>2, <2>1, <2>3
<1>3. CASE ~(TenantOf[r] = t /\ key[r] = m)
  <2>1. Counted(t, m)' = Counted(t, m)
    BY <1>1, <1>3 DEF Counted
  <2> QED BY <1>3, <2>1, CountedFinite
<1> QED
  BY <1>2, <1>3

\* No other step changes who was counted.
LEMMA CountedStays ==
  ASSUME Types, StageInv, NEW r \in Requests,
         ReadClock(r) \/ CountAgain(r) \/ CountFails(r) \/ Admit(r) \/ Abort(r),
         NEW t, NEW m
  PROVE  Counted(t, m)' = Counted(t, m)
<1>1. CASE ReadClock(r)
  <2>1. count' = count /\ count[r] = 0 /\ \A q \in Requests \ {r} : key'[q] = key[q]
    BY <1>1 DEF ReadClock, Goto, Types, StageInv
  <2> QED BY <2>1 DEF Counted
<1>2. CASE CountFails(r)
  <2>1. /\ key' = key
        /\ \A q \in Requests : count'[q] = count[q]
    BY <1>2 DEF CountFails, Goto, Types, StageInv
  <2> QED BY <2>1 DEF Counted
<1>3. CASE CountAgain(r) \/ Admit(r) \/ Abort(r)
  BY <1>3 DEF CountAgain, Admit, Abort, Counted
<1> QED
  BY <1>1, <1>2, <1>3

LEMMA TypesStep == IInv /\ [Next]_vars => Types'
<1> SUFFICES ASSUME IInv, [Next]_vars PROVE Types'
  OBVIOUS
<1> USE RateLimitAssumption DEF IInv, Types
<1>1. CASE Tick
  BY <1>1 DEF Tick, Minutes
<1>2. ASSUME NEW r \in Requests, Request(r) PROVE Types'
  <2>1. CASE ReadClock(r)
    BY <2>1 DEF ReadClock, Goto
  <2>2. CASE Count(r)
    BY <2>2 DEF Count, Goto, Incremented
  <2>3. CASE CountAgain(r)
    BY <2>3 DEF CountAgain, Fault, Incremented
  <2>4. CASE CountFails(r)
    BY <2>4 DEF CountFails, Goto, Fault
  <2>5. CASE Admit(r) \/ Abort(r)
    BY <2>5 DEF Admit, Abort, Goto
  <2> QED BY <1>2, <2>1, <2>2, <2>3, <2>4, <2>5 DEF Request
<1>3. CASE UNCHANGED vars
  BY <1>3 DEF vars
<1> QED
  BY <1>1, <1>2, <1>3 DEF Next

LEMMA StageStep == IInv /\ [Next]_vars => StageInv'
<1> SUFFICES ASSUME IInv, [Next]_vars PROVE StageInv'
  OBVIOUS
<1> USE RateLimitAssumption DEF IInv, Types, StageInv
<1>1. CASE Tick
  BY <1>1 DEF Tick
<1>2. ASSUME NEW r \in Requests, Request(r) PROVE StageInv'
  <2>1. CASE ReadClock(r)
    BY <2>1 DEF ReadClock, Goto
  <2>2. CASE Count(r)
    BY <2>2 DEF Count, Goto
  <2>3. CASE CountAgain(r)
    BY <2>3 DEF CountAgain
  <2>4. CASE CountFails(r)
    BY <2>4 DEF CountFails, Goto
  <2>5. CASE Admit(r) \/ Abort(r)
    BY <2>5 DEF Admit, Abort, Goto
  <2> QED BY <1>2, <2>1, <2>2, <2>3, <2>4, <2>5 DEF Request
<1>3. CASE UNCHANGED vars
  BY <1>3 DEF vars
<1> QED
  BY <1>1, <1>2, <1>3 DEF Next

LEMMA AnswerStep == IInv /\ [Next]_vars => AnswerInv'
<1> SUFFICES ASSUME IInv, [Next]_vars PROVE AnswerInv'
  OBVIOUS
<1> USE RateLimitAssumption DEF IInv, Types, AnswerInv
<1>1. CASE Tick
  BY <1>1 DEF Tick
<1>2. ASSUME NEW r \in Requests, Request(r) PROVE AnswerInv'
  <2>1. CASE ReadClock(r)
    <3>1. /\ counter' = counter /\ count' = count /\ count[r] = 0
          /\ key'[r] \in Minutes
          /\ \A q \in Requests \ {r} : key'[q] = key[q]
      BY <2>1 DEF ReadClock, Goto, StageInv
    <3>2. counter[TenantOf[r]][key'[r]] \in Nat
      BY <3>1
    <3>3. \A q \in Requests : count'[q] <= counter'[TenantOf[q]][key'[q]]
      BY <3>1, <3>2
    <3>4. ASSUME NEW q \in Requests, NEW s \in Requests,
                 TenantOf[q] = TenantOf[s], key'[q] = key'[s],
                 count'[q] = count'[s], count'[s] > 0
          PROVE  q = s
      <4>1. q # r /\ s # r
        BY <3>1, <3>4
      <4> QED BY <3>1, <3>4, <4>1
    <3> QED BY <3>3, <3>4
  <2>2. CASE Count(r)
    <3>1. /\ key' = key
          /\ count'[r] = counter[TenantOf[r]][key[r]] + 1
          /\ \A q \in Requests \ {r} : count'[q] = count[q]
          /\ counter'[TenantOf[r]][key[r]] = counter[TenantOf[r]][key[r]] + 1
          /\ \A t \in Tenants, m \in Minutes : counter'[t][m] >= counter[t][m]
      BY <2>2 DEF Count, Goto, Incremented
    <3>2. \A q \in Requests : count'[q] <= counter'[TenantOf[q]][key'[q]]
      <4> SUFFICES ASSUME NEW q \in Requests PROVE count'[q] <= counter'[TenantOf[q]][key[q]]
        BY <3>1
      <4>1. TenantOf[q] \in Tenants /\ key[q] \in Minutes
        OBVIOUS
      <4>2. counter'[TenantOf[q]][key[q]] >= counter[TenantOf[q]][key[q]]
        BY <3>1, <4>1
      <4>3. CASE q = r
        BY <3>1, <4>3
      <4>4. CASE q # r
        <5>1. Types'
          BY TypesStep
        <5>2. counter'[TenantOf[q]][key[q]] \in Nat
          BY <4>1, <5>1
        <5> QED BY <3>1, <4>2, <4>4, <5>2
      <4> QED BY <4>3, <4>4
    <3>3. ASSUME NEW q \in Requests \ {r}, TenantOf[q] = TenantOf[r], key[q] = key[r]
          PROVE  count'[q] # count'[r]
      <4>1. count[q] <= counter[TenantOf[r]][key[r]] /\ count[q] \in Nat
        BY <3>3
      <4>2. counter[TenantOf[r]][key[r]] \in Nat
        <5>1. TenantOf[r] \in Tenants /\ key[r] \in Minutes
          OBVIOUS
        <5> QED BY <5>1
      <4> QED BY <3>1, <4>1, <4>2
    <3>4. ASSUME NEW q \in Requests, NEW s \in Requests,
                 TenantOf[q] = TenantOf[s], key[q] = key[s],
                 count'[q] = count'[s], count'[s] > 0
          PROVE  q = s
      <4>1. CASE q = r \/ s = r
        BY <3>3, <3>4, <4>1
      <4>2. CASE q # r /\ s # r
        BY <3>1, <3>4, <4>2
      <4> QED BY <4>1, <4>2
    <3> QED BY <3>1, <3>2, <3>4
  <2>3. CASE CountAgain(r)
    <3>1. /\ key' = key /\ count' = count
          /\ \A t \in Tenants, m \in Minutes : counter'[t][m] >= counter[t][m]
      BY <2>3 DEF CountAgain, Incremented
    <3>2. \A q \in Requests : TenantOf[q] \in Tenants /\ key[q] \in Minutes
      OBVIOUS
    <3>3. Types'
      BY TypesStep
    <3>4. \A q \in Requests : count[q] <= counter'[TenantOf[q]][key[q]]
      BY <3>1, <3>2, <3>3
    <3> QED BY <3>1, <3>4
  <2>4. CASE CountFails(r)
    <3>1. key' = key /\ counter' = counter /\ \A q \in Requests : count'[q] = count[q]
      BY <2>4 DEF CountFails, Goto, StageInv
    <3> QED BY <3>1
  <2>5. CASE Admit(r) \/ Abort(r)
    BY <2>5 DEF Admit, Abort
  <2> QED BY <1>2, <2>1, <2>2, <2>3, <2>4, <2>5 DEF Request
<1>3. CASE UNCHANGED vars
  BY <1>3 DEF vars
<1> QED
  BY <1>1, <1>2, <1>3 DEF Next

LEMMA CounterStep == IInv /\ [Next]_vars => CounterInv'
<1> SUFFICES ASSUME IInv, [Next]_vars, NEW t \in Tenants, NEW m \in Minutes
             PROVE  counter'[t][m] <= Cardinality(Counted(t, m)') + faults'
  BY DEF CounterInv
<1> USE RateLimitAssumption DEF IInv, Types
<1>1. counter[t][m] <= Cardinality(Counted(t, m)) + faults
  BY DEF CounterInv
<1>2. Cardinality(Counted(t, m)) \in Nat /\ faults \in Nat /\ counter[t][m] \in Nat
  BY CountedFinite
<1>3. CASE Tick \/ UNCHANGED vars
  BY <1>1, <1>3 DEF Tick, vars, Counted
<1>4. ASSUME NEW r \in Requests, Request(r)
      PROVE  counter'[t][m] <= Cardinality(Counted(t, m)') + faults'
  <2>1. CASE Count(r)
    <3>1. faults' = faults
          /\ counter'[t][m] = counter[t][m] + IF TenantOf[r] = t /\ key[r] = m THEN 1 ELSE 0
      BY <2>1 DEF Count, Incremented
    <3>2. Cardinality(Counted(t, m)') =
            Cardinality(Counted(t, m)) + IF TenantOf[r] = t /\ key[r] = m THEN 1 ELSE 0
      BY <2>1, CountedGrows
    <3> QED BY <1>1, <1>2, <3>1, <3>2
  <2>2. CASE CountAgain(r)
    <3>1. faults' = faults + 1 /\ counter'[t][m] <= counter[t][m] + 1
      BY <2>2 DEF CountAgain, Fault, Incremented
    <3>2. counter'[t][m] \in Nat
      BY TypesStep
    <3> QED BY <1>1, <1>2, <2>2, <3>1, <3>2, CountedStays
  <2>3. CASE ReadClock(r) \/ CountFails(r) \/ Admit(r) \/ Abort(r)
    <3>1. counter' = counter /\ faults' \in Nat /\ faults' >= faults
      BY <2>3 DEF ReadClock, CountFails, Admit, Abort, Fault
    <3> QED BY <1>1, <1>2, <2>3, <3>1, CountedStays
  <2> QED BY <1>4, <2>1, <2>2, <2>3 DEF Request
<1> QED
  BY <1>3, <1>4 DEF Next

\* The requests without an answer are finitely many.
LEMMA UnheardFinite == IsFiniteSet(Unheard) /\ Cardinality(Unheard) \in Nat
<1>1. Unheard \subseteq Requests /\ IsFiniteSet(Requests)
  BY RateLimitAssumption DEF Unheard
<1> QED
  BY <1>1, FS_Subset, FS_CardinalityType

LEMMA UnheardStep == IInv /\ [Next]_vars => UnheardInv'
<1> SUFFICES ASSUME IInv, [Next]_vars PROVE UnheardInv'
  OBVIOUS
<1> USE RateLimitAssumption DEF IInv, Types
<1>1. Cardinality(Unheard) <= faults /\ Cardinality(Unheard) \in Nat /\ faults \in Nat
  BY UnheardFinite DEF UnheardInv
<1>2. CASE Tick \/ UNCHANGED vars
  BY <1>1, <1>2 DEF Tick, vars, Unheard, UnheardInv
<1>3. ASSUME NEW r \in Requests, Request(r) PROVE UnheardInv'
  <2>1. CASE CountFails(r)
    <3>1. /\ stage[r] = "counting" /\ stage'[r] = "deciding" /\ count'[r] = 0
          /\ faults' = faults + 1
          /\ \A q \in Requests \ {r} : stage'[q] = stage[q] /\ count'[q] = count[q]
      BY <2>1 DEF CountFails, Goto, Fault
    <3>2. Unheard' = Unheard \union {r} /\ r \notin Unheard
      BY <3>1 DEF Unheard
    <3>3. Cardinality(Unheard \union {r}) = Cardinality(Unheard) + 1
      BY <3>2, UnheardFinite, FS_AddElement
    <3> QED BY <1>1, <3>1, <3>2, <3>3 DEF UnheardInv
  <2>2. CASE Count(r)
    <3>1. TenantOf[r] \in Tenants /\ key[r] \in Minutes
      OBVIOUS
    <3>2. counter[TenantOf[r]][key[r]] \in Nat
      BY <3>1
    <3>3. /\ stage[r] = "counting" /\ faults' = faults
          /\ count'[r] = counter[TenantOf[r]][key[r]] + 1
          /\ \A q \in Requests \ {r} : stage'[q] = stage[q] /\ count'[q] = count[q]
      BY <2>2 DEF Count, Goto
    <3>4. Unheard' = Unheard
      BY <3>2, <3>3 DEF Unheard
    <3> QED BY <1>1, <3>3, <3>4 DEF UnheardInv
  <2>3. CASE ReadClock(r) \/ CountAgain(r) \/ Admit(r) \/ Abort(r)
    <3>1. Unheard' = Unheard
      BY <2>3 DEF ReadClock, CountAgain, Admit, Abort, Goto, Unheard
    <3>2. faults' \in Nat /\ faults' >= faults
      BY <2>3 DEF ReadClock, CountAgain, Admit, Abort, Fault
    <3> QED BY <1>1, <3>1, <3>2 DEF UnheardInv
  <2> QED BY <1>3, <2>1, <2>2, <2>3 DEF Request
<1> QED
  BY <1>2, <1>3 DEF Next

\* The invariant holds in every reachable state of the rate limiter.
THEOREM Invariance == Spec => []IInv
<1>1. Init => IInv
  <2> SUFFICES ASSUME Init PROVE IInv
    OBVIOUS
  <2>1. Types /\ StageInv /\ AnswerInv
    BY RateLimitAssumption DEF Init, Types, StageInv, AnswerInv, Minutes
  <2>2. \A t \in Tenants, m \in Minutes : counter[t][m] = 0 /\ faults = 0
    BY DEF Init
  <2>3. CounterInv
    BY <2>2, CountedFinite DEF CounterInv
  <2>4. UnheardInv
    <3>1. Unheard = {} /\ faults = 0
      BY DEF Init, Unheard
    <3> QED BY <3>1, FS_EmptySet DEF UnheardInv
  <2> QED BY <2>1, <2>3, <2>4 DEF IInv
<1>2. IInv /\ [Next]_vars => IInv'
  BY TypesStep, StageStep, AnswerStep, CounterStep, UnheardStep DEF IInv
<1> QED
  BY <1>1, <1>2, PTL DEF Spec

-----------------------------------------------------------------------------
\* Every variable keeps its type; no counter exceeds the number of requests and faults.
THEOREM TypeCorrect == Spec => []TypeOK
<1>1. ASSUME IInv PROVE TypeOK
  <2> DEFINE bound == Cardinality(Requests) + MaxFaults
  <2> USE RateLimitAssumption DEF IInv, Types
  <2>1. \A t \in Tenants, m \in Minutes : counter[t][m] \in 0..bound
    <3> SUFFICES ASSUME NEW t \in Tenants, NEW m \in Minutes PROVE counter[t][m] \in 0..bound
      OBVIOUS
    <3>1. counter[t][m] \in Nat /\ counter[t][m] <= Cardinality(Counted(t, m)) + faults
      BY <1>1 DEF CounterInv
    <3> QED BY <1>1, <3>1, CountedFinite
  <2>2. \A r \in Requests : count[r] \in 0..bound
    <3> SUFFICES ASSUME NEW r \in Requests PROVE count[r] \in 0..bound
      OBVIOUS
    <3>1. TenantOf[r] \in Tenants /\ key[r] \in Minutes
      BY <1>1
    <3>2. count[r] \in Nat /\ count[r] <= counter[TenantOf[r]][key[r]]
      BY <1>1 DEF AnswerInv
    <3> HIDE DEF bound
    <3>3. counter[TenantOf[r]][key[r]] \in 0..bound
      BY <2>1, <3>1
    <3>4. bound \in Nat
      BY CountedFinite DEF bound
    <3> QED BY <3>2, <3>3, <3>4
  <2> HIDE DEF bound
  <2>3. counter \in [Tenants -> [Minutes -> 0..bound]] /\ count \in [Requests -> 0..bound]
    BY <1>1, <2>1, <2>2
  <2> QED BY <1>1, <2>3 DEF TypeOK, bound
<1> QED
  BY <1>1, Invariance, PTL

\* At most Limit requests of a tenant are admitted on Redis's word: their answers are
\* different numbers between 1 and Limit.
LEMMA HeardWithinLimit ==
  ASSUME IInv, NEW t \in Tenants, NEW m \in Minutes
  PROVE  Cardinality({r \in Admitted(t, m) : count[r] > 0}) <= Limit
<1> DEFINE S == {r \in Admitted(t, m) : count[r] > 0}
           answer == [r \in S |-> count[r]]
<1>1. \A r \in S : r \in Requests /\ count[r] \in 1..Limit /\ TenantOf[r] = t /\ key[r] = m
  BY RateLimitAssumption DEF IInv, Types, StageInv, Admitted
<1>2. \A q, r \in S : count[q] = count[r] => q = r
  BY <1>1, RateLimitAssumption DEF IInv, AnswerInv
<1> HIDE DEF S
<1>3. answer \in Injection(S, 1..Limit)
  BY <1>1, <1>2 DEF Injection, IsInjective
<1>4. IsFiniteSet(1..Limit) /\ Cardinality(1..Limit) = Limit
  <2>1. /\ IsFiniteSet(1..Limit)
        /\ Cardinality(1..Limit) = IF 1 > Limit THEN 0 ELSE Limit - 1 + 1
    BY RateLimitAssumption, FS_Interval
  <2> QED BY <2>1, RateLimitAssumption
<1> HIDE DEF answer
<1>5. Cardinality(S) <= Cardinality(1..Limit)
  BY <1>3, <1>4, FS_Injection
<1> QED
  BY <1>4, <1>5 DEF S

\* At most Limit requests of a tenant are admitted per calendar minute, and one more for
\* each failure of Redis: those with an answer fit the limit, those without each met a
\* failure.
THEOREM AtMostLimit == Spec => []WindowBudget
<1>1. ASSUME IInv, NEW t \in Tenants, NEW m \in Minutes
      PROVE  Cardinality(Admitted(t, m)) <= Limit + faults
  <2> DEFINE heard == {r \in Admitted(t, m) : count[r] > 0}
             unheard == {r \in Admitted(t, m) : count[r] = 0}
  <2>1. Admitted(t, m) = heard \union unheard
    BY <1>1 DEF IInv, Types, Admitted
  <2>2. heard \subseteq Requests /\ unheard \subseteq Unheard
    BY DEF Admitted, Unheard
  <2>3. Cardinality(heard) <= Limit
    BY <1>1, HeardWithinLimit
  <2> HIDE DEF heard, unheard
  <2>4. IsFiniteSet(heard) /\ IsFiniteSet(unheard) /\ Cardinality(unheard) <= Cardinality(Unheard)
    BY <2>2, UnheardFinite, RateLimitAssumption, FS_Subset
  <2>5. Cardinality(heard) \in Nat /\ Cardinality(unheard) \in Nat
    BY <2>4, FS_CardinalityType
  <2>6. /\ Cardinality(heard \union unheard) <= Cardinality(heard) + Cardinality(unheard)
        /\ Cardinality(heard \union unheard) \in Nat
    <3>1. /\ IsFiniteSet(heard \union unheard) /\ IsFiniteSet(heard \cap unheard)
          /\ Cardinality(heard \union unheard)
               = Cardinality(heard) + Cardinality(unheard) - Cardinality(heard \cap unheard)
      BY <2>4, FS_Union, FS_Intersection
    <3>2. Cardinality(heard \cap unheard) \in Nat /\ Cardinality(heard \union unheard) \in Nat
      BY <3>1, FS_CardinalityType
    <3> QED BY <2>5, <3>1, <3>2
  <2>7. Cardinality(Unheard) <= faults /\ Cardinality(Unheard) \in Nat /\ faults \in Nat /\ Limit \in Nat
    BY <1>1, UnheardFinite, RateLimitAssumption DEF IInv, Types, UnheardInv
  <2> QED BY <2>1, <2>3, <2>4, <2>5, <2>6, <2>7
<1>2. IInv => WindowBudget
  BY <1>1 DEF WindowBudget
<1> QED
  BY <1>2, Invariance, PTL

\* A request is turned away only when enough others of its tenant were counted.
THEOREM NoneWithoutCause == Spec => []LimitedForCause
<1>1. ASSUME IInv, NEW r \in Requests, stage[r] = "limited"
      PROVE  Cardinality(Counted(TenantOf[r], key[r]) \ {r}) + faults >= Limit
  <2> DEFINE S == Counted(TenantOf[r], key[r])
  <2>1. /\ TenantOf[r] \in Tenants /\ key[r] \in Minutes /\ faults \in Nat /\ Limit \in Nat
        /\ count[r] \in Nat /\ count[r] > Limit
        /\ counter[TenantOf[r]][key[r]] \in Nat
    BY <1>1, RateLimitAssumption DEF IInv, Types, StageInv
  <2>2. /\ count[r] <= counter[TenantOf[r]][key[r]]
        /\ counter[TenantOf[r]][key[r]] <= Cardinality(S) + faults
    BY <1>1, <2>1 DEF IInv, AnswerInv, CounterInv
  <2>3. r \in S
    BY <2>1 DEF Counted
  <2>4. IsFiniteSet(S) /\ Cardinality(S) \in Nat
    BY CountedFinite
  <2> HIDE DEF S
  <2>5. Cardinality(S \ {r}) = Cardinality(S) - 1
    BY <2>3, <2>4, FS_RemoveElement
  <2> QED BY <2>1, <2>2, <2>4, <2>5 DEF S
<1>2. IInv => LimitedForCause
  BY <1>1 DEF LimitedForCause
<1> QED
  BY <1>2, Invariance, PTL

\* Once a request was turned away, Redis's later answers for its key exceed the limit.
THEOREM StaysLimited == Spec => OnceLimitedStaysLimited
<1> DEFINE Stays == \A q, r \in Requests :
                      /\ stage[q] = "limited"
                      /\ TenantOf[r] = TenantOf[q]
                      /\ key[r] = key[q]
                      /\ stage[r] = "counting"
                      /\ stage'[r] = "deciding"
                      => count'[r] > Limit \/ count'[r] = 0
<1>1. ASSUME IInv, [Next]_vars PROVE Stays
  <2> SUFFICES ASSUME NEW q \in Requests, NEW r \in Requests,
                      stage[q] = "limited", TenantOf[r] = TenantOf[q], key[r] = key[q],
                      stage[r] = "counting", stage'[r] = "deciding"
               PROVE  count'[r] > Limit \/ count'[r] = 0
    OBVIOUS
  <2> USE RateLimitAssumption DEF IInv, Types
  <2>1. /\ count[q] \in Nat /\ count[q] > Limit /\ count[q] <= counter[TenantOf[r]][key[r]]
        /\ counter[TenantOf[r]][key[r]] \in Nat
    BY <1>1 DEF StageInv, AnswerInv
  <2>2. Count(r) \/ CountFails(r)
    <3>1. PICK s \in Requests : Request(s)
      BY <1>1 DEF Next, Tick, vars
    <3>2. s = r
      BY <1>1, <3>1 DEF Request, ReadClock, Count, CountAgain, CountFails, Admit, Abort, Goto
    <3> QED BY <1>1, <3>1, <3>2
            DEF Request, ReadClock, CountAgain, Admit, Abort, Goto
  <2>3. CASE Count(r)
    <3>1. count'[r] = counter[TenantOf[r]][key[r]] + 1
      BY <1>1, <2>3 DEF Count
    <3> QED BY <2>1, <3>1
  <2>4. CASE CountFails(r)
    BY <1>1, <2>4 DEF CountFails
  <2> QED BY <2>2, <2>3, <2>4
<1>2. IInv /\ [Next]_vars => [Stays]_vars
  BY <1>1
<1> QED
  BY <1>2, Invariance, PTL DEF Spec, OnceLimitedStaysLimited
-----------------------------------------------------------------------------
(***************************************************************************)
(* The API server, whose requests take the steps of RateLimit.             *)
(***************************************************************************)

\* A step of the server is a step of the rate limiter, or leaves it alone.
LEMMA LimiterStep == [ServerNext]_allVars => [Next]_vars
<1> SUFFICES ASSUME [ServerNext]_allVars PROVE [Next]_vars
  OBVIOUS
<1>1. ASSUME NEW r \in Requests, Serve(r) PROVE [Next]_vars
  <2>1. CASE Consult(r)
    BY <2>1 DEF Consult, Next, Request
  <2>2. CASE Limited(r) \/ Proceed(r)
    BY <2>2 DEF Limited, Proceed, Next, Request
  <2>3. CASE Refuse(r) \/ Identify(r) \/ Handle(r) \/ Panic(r) \/ Return(r)
    BY <2>3 DEF Refuse, Identify, Handle, Panic, Return
  <2> QED BY <1>1, <2>1, <2>2, <2>3 DEF Serve
<1>2. ASSUME NEW r \in Requests, Log(r) PROVE UNCHANGED vars
  BY <1>2 DEF Log, ReadWho, ReadWhat, InsertRow, InsertFails
<1>3. ASSUME NEW r \in Requests, NEW c \in Contexts, Arrive(r, c) PROVE UNCHANGED vars
  BY <1>3 DEF Arrive
<1>4. CASE Stop \/ Exit
  BY <1>4 DEF Stop, Exit
<1>5. CASE Tick
  BY <1>5 DEF Next
<1>6. CASE UNCHANGED allVars
  BY <1>6 DEF allVars
<1> QED
  BY <1>1, <1>2, <1>3, <1>4, <1>5, <1>6 DEF ServerNext

\* The middleware chain of the server implements the rate limiter: whatever is proved of
\* RateLimit holds of the requests on their way through Auth, Tenant, RateLimit and Audit
\* (router.go:32-37).
THEOREM ServerLimits == ServerSpec => Spec
<1>1. ServerInit => Init
  BY DEF ServerInit
<1> QED
  BY <1>1, LimiterStep, PTL DEF ServerSpec, Spec

-----------------------------------------------------------------------------
(***************************************************************************)
(* The inductive invariant of the server.  While a request is being served *)
(* its gin.Context is its own, with user and tenant set once the request   *)
(* is identified; what its audit goroutine has read is the request's own   *)
(* as long as the gin.Context still is.                                    *)
(***************************************************************************)

\* The requests whose handler was called.
Handled == {"handling", "returning", "answered", "panicked"}

ExclusiveInv == \A r \in Requests :
  /\ request[r] # "new" => owner[context[r]] \in Requests
  /\ request[r] \in Active => owner[context[r]] = r

KnownInv == \A r \in Requests :
  /\ request[r] \in {"identified", "handling", "returning"} => known[context[r]]
  /\ audit[r] # "none" /\ owner[context[r]] = r => known[context[r]]

AuditInv == \A r \in Requests :
  /\ audit[r] = "what" => what[r] \in Requests
  /\ audit[r] \in {"who", "what"} /\ owner[context[r]] = r => who[r] = r
  /\ audit[r] = "what" /\ owner[context[r]] = r => what[r] = r

AdmissionInv == \A r \in Requests : request[r] \in Handled => stage[r] = "admitted"

ServerInv == ServerTypeOK /\ ExclusiveInv /\ KnownInv /\ AuditInv

\* A gin.Context that is taken is one no other request is being served with.
LEMMA ArriveStep ==
  ASSUME ServerInv, NEW r \in Requests, NEW c \in Contexts, Arrive(r, c)
  PROVE  ServerInv'
<1> USE ApiServerAssumption DEF ServerInv, ServerTypeOK, Arrive, Pass, auditing, Active
<1>1. /\ request[r] = "new" /\ audit[r] = "none" /\ audit' = audit
      /\ request'[r] = "arrived" /\ context'[r] = c /\ owner'[c] = r
      /\ \A q \in Requests \ {r} : request'[q] = request[q] /\ context'[q] = context[q]
      /\ \A d \in Contexts \ {c} : owner'[d] = owner[d] /\ known'[d] = known[d]
  OBVIOUS
<1>2. ServerTypeOK'
  OBVIOUS
<1>3. ASSUME NEW q \in Requests \ {r}, request[q] \in Active
      PROVE  context[q] \in Contexts \ {c}
  BY <1>3 DEF InUse
<1>4. ExclusiveInv'
  <2> SUFFICES ASSUME NEW q \in Requests
               PROVE  /\ request'[q] # "new" => owner'[context'[q]] \in Requests
                      /\ request'[q] \in Active => owner'[context'[q]] = q
    BY DEF ExclusiveInv
  <2>1. CASE q = r
    BY <1>1, <2>1
  <2>2. CASE q # r
    <3>1. request[q] # "new" => owner'[context[q]] \in Requests
      BY <1>1, <2>2 DEF ExclusiveInv
    <3>2. request[q] \in Active => owner'[context[q]] = q
      BY <1>1, <1>3, <2>2 DEF ExclusiveInv
    <3> QED BY <1>1, <2>2, <3>1, <3>2
  <2> QED BY <2>1, <2>2
<1>5. KnownInv'
  <2> SUFFICES ASSUME NEW q \in Requests
               PROVE  /\ request'[q] \in {"identified", "handling", "returning"} => known'[context'[q]]
                      /\ audit'[q] # "none" /\ owner'[context'[q]] = q => known'[context'[q]]
    BY DEF KnownInv
  <2>1. CASE q = r
    BY <1>1, <2>1
  <2>2. CASE q # r
    <3>1. request[q] \in {"identified", "handling", "returning"} => known'[context[q]]
      BY <1>1, <1>3, <2>2 DEF KnownInv
    <3>2. audit[q] # "none" /\ owner'[context[q]] = q => known'[context[q]]
      <4> SUFFICES ASSUME audit[q] # "none", owner'[context[q]] = q PROVE known'[context[q]]
        OBVIOUS
      <4>1. context[q] \in Contexts \ {c}
        BY <1>1, <2>2
      <4> QED BY <1>1, <2>2, <4>1 DEF KnownInv
    <3> QED BY <1>1, <2>2, <3>1, <3>2
  <2> QED BY <2>1, <2>2
<1>6. AuditInv'
  <2> SUFFICES ASSUME NEW q \in Requests, audit[q] \in {"who", "what"}
               PROVE  /\ audit[q] = "what" => what[q] \in Requests
                      /\ owner'[context'[q]] = q => who[q] = q
                      /\ audit[q] = "what" /\ owner'[context'[q]] = q => what[q] = q
    BY <1>1 DEF AuditInv
  <2>1. q # r /\ context'[q] = context[q] /\ context[q] \in Contexts
    BY <1>1
  <2>2. owner'[context[q]] = q => owner[context[q]] = q
    BY <1>1, <2>1
  <2> QED BY <2>1, <2>2 DEF AuditInv
<1> QED
  BY <1>2, <1>4, <1>5, <1>6

\* A request that is served keeps its gin.Context; its audit goroutine starts when user
\* and tenant are set.
LEMMA ServeStep ==
  ASSUME ServerInv, NEW r \in Requests, Serve(r)
  PROVE  ServerInv'
<1> USE ApiServerAssumption DEF ServerInv, ServerTypeOK, ExclusiveInv, KnownInv, AuditInv, Active, auditing
<1>1. CASE Refuse(r) \/ Return(r)
  BY <1>1 DEF Refuse, Return, Pass
<1>2. CASE Identify(r)
  BY <1>2 DEF Identify, Pass
<1>3. CASE Consult(r)
  BY <1>3 DEF Consult, serverVars
<1>4. CASE Limited(r) \/ Proceed(r)
  BY <1>4 DEF Limited, Proceed, Pass
<1>5. CASE Handle(r)
  BY <1>5 DEF Handle, Pass
<1>6. CASE Panic(r)
  BY <1>6 DEF Panic, Pass, Failure
<1> QED
  BY <1>1, <1>2, <1>3, <1>4, <1>5, <1>6 DEF Serve

\* The audit goroutine of a request whose gin.Context is still its own reads its own data.
LEMMA LogStep ==
  ASSUME ServerInv, NEW r \in Requests, Log(r)
  PROVE  ServerInv'
<1> USE ApiServerAssumption DEF ServerInv, ServerTypeOK, ExclusiveInv, KnownInv, AuditInv, Active
<1>1. CASE ReadWho(r)
  BY <1>1 DEF ReadWho
<1>2. CASE ReadWhat(r)
  BY <1>2 DEF ReadWhat
<1>3. CASE InsertRow(r)
  BY <1>3 DEF InsertRow
<1>4. CASE InsertFails(r)
  BY <1>4 DEF InsertFails, Failure
<1> QED
  BY <1>1, <1>2, <1>3, <1>4 DEF Log

LEMMA ServerStep == ServerInv /\ [ServerNext]_allVars => ServerInv'
<1> SUFFICES ASSUME ServerInv, [ServerNext]_allVars PROVE ServerInv'
  OBVIOUS
<1>1. ASSUME NEW r \in Requests, NEW c \in Contexts, Arrive(r, c) PROVE ServerInv'
  BY <1>1, ArriveStep
<1>2. ASSUME NEW r \in Requests, Serve(r) PROVE ServerInv'
  BY <1>2, ServeStep
<1>3. ASSUME NEW r \in Requests, Log(r) PROVE ServerInv'
  BY <1>3, LogStep
<1>4. CASE Stop
  BY <1>4 DEF Stop, auditing, ServerInv, ServerTypeOK, ExclusiveInv, KnownInv, AuditInv
<1>5. CASE Exit
  BY <1>5 DEF Exit, auditing, Active, ServerInv, ServerTypeOK, ExclusiveInv, KnownInv, AuditInv
<1>6. CASE UNCHANGED serverVars
  BY <1>6 DEF serverVars, ServerInv, ServerTypeOK, ExclusiveInv, KnownInv, AuditInv
<1> QED
  BY <1>1, <1>2, <1>3, <1>4, <1>5, <1>6 DEF ServerNext, allVars

\* The invariant holds in every reachable state of the server.
THEOREM ServerInvariance == ServerSpec => []ServerInv
<1>1. ServerInit => ServerInv
  BY ApiServerAssumption DEF ServerInit, ServerInv, ServerTypeOK, ExclusiveInv, KnownInv, AuditInv, Active
<1> QED
  BY <1>1, ServerStep, PTL DEF ServerSpec

\* Every variable of the server keeps its type, for every number of requests and of
\* gin.Contexts; only a request whose handler is through is audited (audit.go:15-17).
THEOREM ServerTypes == ServerSpec => []ServerTypeOK
<1>1. ServerInv => ServerTypeOK
  BY DEF ServerInv
<1> QED
  BY <1>1, ServerInvariance, PTL

\* The row an audit goroutine writes while the gin.Context is still its request's shows
\* that request's user, tenant, path and status (audit.go:17-31).
THEOREM RowIsOwn == ServerSpec => OwnRowUntilReused
<1> DEFINE Own == \A r \in Requests :
                    /\ audit[r] = "what"
                    /\ owner[context[r]] = r
                    /\ rows' # rows
                    /\ audit'[r] = "done"
                    => who[r] = r /\ what[r] = r
<1>1. ServerInv => Own
  BY DEF ServerInv, AuditInv
<1>2. ServerInv /\ [ServerNext]_allVars => [Own]_allVars
  BY <1>1
<1> QED
  BY <1>2, ServerInvariance, PTL DEF ServerSpec, OwnRowUntilReused

-----------------------------------------------------------------------------
\* No handler is called without the rate limiter's word.
LEMMA AdmissionStep == AdmissionInv /\ ServerTypeOK /\ Types /\ [ServerNext]_allVars => AdmissionInv'
<1> SUFFICES ASSUME AdmissionInv, ServerTypeOK, Types, [ServerNext]_allVars PROVE AdmissionInv'
  OBVIOUS
<1> USE DEF AdmissionInv, ServerTypeOK, Types, Handled, auditing
<1>1. ASSUME NEW r \in Requests, NEW c \in Contexts, Arrive(r, c) PROVE AdmissionInv'
  BY <1>1 DEF Arrive, Pass, vars
<1>2. ASSUME NEW r \in Requests, Serve(r) PROVE AdmissionInv'
  <2>1. CASE Consult(r)
    <3>1. /\ request' = request /\ request[r] = "identified"
          /\ \A q \in Requests \ {r} : stage'[q] = stage[q]
      BY <2>1 DEF Consult, serverVars, ReadClock, Count, CountAgain, CountFails, Goto
    <3> QED BY <3>1
  <2>2. CASE Proceed(r)
    BY <2>2 DEF Proceed, Admit, Goto, Pass
  <2>3. CASE Limited(r)
    BY <2>3 DEF Limited, Abort, Goto, Pass
  <2>4. CASE Refuse(r) \/ Identify(r)
    BY <2>4 DEF Refuse, Identify, Pass, vars
  <2>5. CASE Handle(r) \/ Panic(r) \/ Return(r)
    BY <2>5 DEF Handle, Panic, Return, Pass, vars
  <2> QED BY <1>2, <2>1, <2>2, <2>3, <2>4, <2>5 DEF Serve
<1>3. ASSUME NEW r \in Requests, Log(r) PROVE AdmissionInv'
  BY <1>3 DEF Log, ReadWho, ReadWhat, InsertRow, InsertFails, vars
<1>4. CASE Stop \/ Exit
  BY <1>4 DEF Stop, Exit, Active, vars
<1>5. CASE Tick /\ UNCHANGED serverVars
  BY <1>5 DEF Tick, serverVars
<1>6. CASE UNCHANGED allVars
  BY <1>6 DEF allVars, serverVars, vars
<1> QED
  BY <1>1, <1>2, <1>3, <1>4, <1>5, <1>6 DEF ServerNext

\* Of a tenant's requests that carry the same calendar minute at most Limit ever reach
\* their handler, and one more for each failure of Redis, in a process that may stop at
\* any time (router.go:32-37, ratelimit.go:24-48).
HandlersWithinLimit == \A t \in Tenants, m \in Minutes :
  Cardinality({r \in Requests : /\ TenantOf[r] = t /\ key[r] = m
                                /\ request[r] \in Handled}) <= Limit + faults

\* The rate limiter's budget bounds the calls of the handlers themselves.
THEOREM HandlersLimited == ServerSpec => []HandlersWithinLimit
<1>1. ServerInit => AdmissionInv
  BY DEF ServerInit, AdmissionInv, Handled
<1>2. ASSUME AdmissionInv, WindowBudget, Types, NEW t \in Tenants, NEW m \in Minutes
      PROVE  Cardinality({r \in Requests : /\ TenantOf[r] = t /\ key[r] = m
                                           /\ request[r] \in Handled}) <= Limit + faults
  <2> DEFINE H == {r \in Requests : TenantOf[r] = t /\ key[r] = m /\ request[r] \in Handled}
  <2>1. H \subseteq Admitted(t, m) /\ Admitted(t, m) \subseteq Requests
    BY <1>2 DEF AdmissionInv, Admitted
  <2>2. Cardinality(Admitted(t, m)) <= Limit + faults
    BY <1>2 DEF WindowBudget
  <2> HIDE DEF H
  <2>3. IsFiniteSet(Admitted(t, m))
    BY <2>1, RateLimitAssumption, FS_Subset
  <2>4. IsFiniteSet(H) /\ Cardinality(H) <= Cardinality(Admitted(t, m))
    BY <2>1, <2>3, FS_Subset
  <2>5. /\ Cardinality(H) \in Nat /\ Cardinality(Admitted(t, m)) \in Nat
        /\ Limit \in Nat /\ faults \in Nat
    BY <1>2, <2>3, <2>4, FS_CardinalityType, RateLimitAssumption DEF Types
  <2> QED BY <2>2, <2>4, <2>5 DEF H
<1>3. AdmissionInv /\ WindowBudget /\ Types => HandlersWithinLimit
  BY <1>2 DEF HandlersWithinLimit
<1>4. IInv => Types
  BY DEF IInv
<1> QED
  BY <1>1, <1>3, <1>4, AdmissionStep, ServerLimits, AtMostLimit, Invariance, ServerTypes, PTL DEF ServerSpec
=============================================================================
