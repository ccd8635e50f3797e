----------------------- MODULE DiagnosticsCacheProofs -----------------------
(***************************************************************************)
(* Proofs about DiagnosticsCache, for any number of requests, limits and   *)
(* faults.                                                                 *)
(***************************************************************************)
EXTENDS DiagnosticsCache, TLAPS

(***************************************************************************)
(* The inductive invariant.  AnswerAge needs the age of the issues at      *)
(* every step on the way from the query to a page: at each, what is older  *)
(* than the limits passed so far is made up of stalls.  RetryFindsAnswer   *)
(* needs that without stalls an answer is as old as its request, or has    *)
(* just been stored.                                                       *)
(***************************************************************************)
LookupAge == \A r \in Requests : stage[r] = "lookup" => read[r] <= now /\ now - read[r] <= faults

AskingAge == \A r \in Requests : stage[r] = "asking" =>
               asked[r] - read[r] <= faults /\ now <= asked[r] + ModelTimeout

StoringAge == \A r \in Requests : stage[r] = "storing" =>
                shown[r] = read[r] /\ now - read[r] <= ModelTimeout + faults

CacheAge == \A e \in cache :
              /\ e.stored - e.read <= ModelTimeout + faults
              /\ now <= e.stored + TTL
              /\ e.stored <= now

AgeInv == LookupAge /\ AskingAge /\ StoringAge /\ CacheAge /\ AnswerAge

CancelInv ==
  /\ \A r \in Requests : stage[r] = "storing" /\ outcome[r] = "cancelled" => r \in left
  /\ CancelNotCached

FreshAnswer ==
  \A r \in Requests : stage[r] = "answering" /\ r \notin left /\ faults = 0 =>
    now = read[r] \/ \E e \in cache : e.stored = now

CutIsCached ==
  \A r \in Requests : /\ ended[r] <= now
                      /\ stage[r] = "cut" /\ faults = 0 /\ now < ended[r] + TTL =>
                           \E e \in cache : e.stored >= ended[r]

IInv == TypeOK /\ AgeInv /\ CancelInv /\ FreshAnswer /\ CutIsCached

-----------------------------------------------------------------------------
\* Initially nothing is asked, stored or answered.
LEMMA InitInv == Init => IInv
BY CacheAssumption DEF Init, IInv, TypeOK, Times, Outcomes, Stages, AgeInv, LookupAge, AskingAge,
   StoringAge, CacheAge, AnswerAge, CancelInv, CancelNotCached, FreshAnswer, CutIsCached

\* A fault is one more fault within the bound.
LEMMA FaultType == TypeOK /\ Fault => faults' \in 0..MaxFaults /\ faults' = faults + 1
BY CacheAssumption DEF TypeOK, Fault

\* Every step keeps the types.
LEMMA NextType == TypeOK /\ [Next]_vars => TypeOK'
<1> SUFFICES ASSUME TypeOK, [Next]_vars PROVE TypeOK'
  OBVIOUS
<1> USE CacheAssumption DEF Stages, Outcomes, Goto
<1>1. ASSUME NEW r \in Requests, Query(r) PROVE TypeOK'
  BY <1>1 DEF Query, TypeOK
<1>2. ASSUME NEW r \in Requests, QueryEmpty(r) PROVE TypeOK'
  BY <1>2 DEF QueryEmpty, TypeOK
<1>3. ASSUME NEW r \in Requests, Hit(r) PROVE TypeOK'
  <2>1. shown' \in [Requests -> Times]
    BY <1>3 DEF Hit, TypeOK, Entries
  <2>2. QED
    BY <1>3, <2>1 DEF Hit, TypeOK
<1>4. ASSUME NEW r \in Requests, Miss(r) PROVE TypeOK'
  <2>1. faults' \in 0..MaxFaults
    BY <1>4, FaultType DEF Miss, TypeOK
  <2>2. QED
    BY <1>4, <2>1 DEF Miss, TypeOK
<1>5. ASSUME NEW r \in Requests, NEW result \in Outcomes, ModelReturns(r, result) PROVE TypeOK'
  BY <1>5 DEF ModelReturns, TypeOK
<1>6. ASSUME NEW r \in Requests, Store(r) PROVE TypeOK'
  <2>1. Analysis(r) \in Entries
    BY DEF Analysis, Entries, TypeOK
  <2>2. cache' \subseteq Entries /\ \A d, e \in cache' : d = e
    BY <1>6, <2>1 DEF Store
  <2>3. QED
    BY <1>6, <2>2 DEF Store, TypeOK
<1>7. ASSUME NEW r \in Requests, StoreFails(r) PROVE TypeOK'
  <2>1. faults' \in 0..MaxFaults
    BY <1>7, FaultType DEF StoreFails, TypeOK
  <2>2. QED
    BY <1>7, <2>1 DEF StoreFails, TypeOK
<1>8. ASSUME NEW r \in Requests, Reply(r) PROVE TypeOK'
  BY <1>8 DEF Reply, TypeOK
<1>9. ASSUME NEW r \in Requests, CutOff(r) PROVE TypeOK'
  BY <1>9 DEF CutOff, TypeOK
<1>10. ASSUME NEW r \in Requests, Vanish(r) PROVE TypeOK'
  BY <1>10 DEF Vanish, TypeOK
<1>11. ASSUME NEW r \in Requests, Leave(r) PROVE TypeOK'
  BY <1>11 DEF Leave, TypeOK
<1>12. CASE Expire
  BY <1>12 DEF Expire, TypeOK
<1>13. CASE Evict
  BY <1>13, FaultType DEF Evict, TypeOK
<1>14. CASE Tick
  <2>1. faults' \in 0..MaxFaults
    BY <1>14, FaultType DEF Tick, TypeOK
  <2>2. now' \in Times
    BY <1>14 DEF Tick, TypeOK, Times
  <2>3. QED
    BY <1>14, <2>1, <2>2 DEF Tick, TypeOK
<1>15. CASE UNCHANGED vars
  BY <1>15 DEF vars, TypeOK
<1>16. QED
  BY <1>1, <1>2, <1>3, <1>4, <1>5, <1>6, <1>7, <1>8, <1>9, <1>10, <1>11, <1>12, <1>13, <1>14,
     <1>15 DEF Next, Serve

\* What the types say of the numbers.
LEMMA Numbers ==
  ASSUME TypeOK
  PROVE  /\ now \in Nat /\ faults \in Nat
         /\ \A r \in Requests : read[r] \in Nat /\ asked[r] \in Nat /\ shown[r] \in Nat /\ ended[r] \in Nat
         /\ \A e \in cache : e.read \in Nat /\ e.stored \in Nat
<1>1. now \in Nat /\ faults \in Nat
  BY CacheAssumption DEF TypeOK, Times
<1>2. \A r \in Requests : read[r] \in Nat /\ asked[r] \in Nat /\ shown[r] \in Nat /\ ended[r] \in Nat
  BY CacheAssumption DEF TypeOK, Times
<1>3. \A e \in cache : e.read \in Nat /\ e.stored \in Nat
  BY CacheAssumption DEF TypeOK, Times, Entries
<1>4. QED
  BY <1>1, <1>2, <1>3

\* No step makes anything older than its limits and the stalls explain.
LEMMA AgeStep == TypeOK /\ AgeInv /\ [Next]_vars => AgeInv'
<1> SUFFICES ASSUME TypeOK, AgeInv, [Next]_vars PROVE AgeInv'
  OBVIOUS
<1> USE CacheAssumption, Numbers DEF Goto
<1>0. Fault => faults' = faults + 1
  BY DEF Fault
<1>1. ASSUME NEW r \in Requests, Query(r) PROVE AgeInv'
  BY <1>1 DEF Query, TypeOK, AgeInv, LookupAge, AskingAge, StoringAge, CacheAge, AnswerAge
<1>2. ASSUME NEW r \in Requests, QueryEmpty(r) PROVE AgeInv'
  BY <1>2 DEF QueryEmpty, TypeOK, AgeInv, LookupAge, AskingAge, StoringAge, CacheAge, AnswerAge
<1>3. ASSUME NEW r \in Requests, Hit(r) PROVE AgeInv'
  <2>1. PICK e \in cache : shown' = [shown EXCEPT ![r] = e.read]
    BY <1>3 DEF Hit
  <2>2. now - e.read <= TTL + ModelTimeout + faults
    BY DEF AgeInv, CacheAge
  <2>3. AnswerAge'
    BY <1>3, <2>1, <2>2 DEF Hit, TypeOK, AgeInv, AnswerAge
  <2>4. QED
    BY <1>3, <2>1, <2>3 DEF Hit, TypeOK, AgeInv, LookupAge, AskingAge, StoringAge, CacheAge
<1>4. ASSUME NEW r \in Requests, Miss(r) PROVE AgeInv'
  <2>1. faults' \in {faults, faults + 1}
    BY <1>0, <1>4 DEF Miss
  <2>2. LookupAge' /\ AskingAge'
    BY <1>4, <2>1 DEF Miss, TypeOK, AgeInv, LookupAge, AskingAge
  <2>3. StoringAge' /\ CacheAge' /\ AnswerAge'
    BY <1>4, <2>1 DEF Miss, TypeOK, AgeInv, StoringAge, CacheAge, AnswerAge
  <2>4. QED
    BY <2>2, <2>3 DEF AgeInv
<1>5. ASSUME NEW r \in Requests, NEW result \in Outcomes, ModelReturns(r, result) PROVE AgeInv'
  <2>1. now - read[r] <= ModelTimeout + faults
    BY <1>5 DEF ModelReturns, AgeInv, AskingAge
  <2>2. StoringAge'
    BY <1>5, <2>1 DEF ModelReturns, TypeOK, AgeInv, StoringAge
  <2>3. LookupAge' /\ AskingAge' /\ CacheAge' /\ AnswerAge'
    BY <1>5 DEF ModelReturns, TypeOK, AgeInv, LookupAge, AskingAge, CacheAge, AnswerAge
  <2>4. QED
    BY <2>2, <2>3 DEF AgeInv
<1>6. ASSUME NEW r \in Requests, Store(r) PROVE AgeInv'
  <2>1. shown[r] = read[r] /\ now - read[r] <= ModelTimeout + faults
    BY <1>6 DEF Store, AgeInv, StoringAge
  <2>2. CacheAge'
    BY <1>6, <2>1 DEF Store, Analysis, CacheAge
  <2>3. AnswerAge'
    BY <1>6, <2>1 DEF Store, TypeOK, AgeInv, AnswerAge
  <2>4. LookupAge' /\ AskingAge' /\ StoringAge'
    BY <1>6 DEF Store, TypeOK, AgeInv, LookupAge, AskingAge, StoringAge
  <2>5. QED
    BY <2>2, <2>3, <2>4 DEF AgeInv
<1>7. ASSUME NEW r \in Requests, StoreFails(r) PROVE AgeInv'
  <2>1. shown[r] = read[r] /\ now - read[r] <= ModelTimeout + faults
    BY <1>7 DEF StoreFails, AgeInv, StoringAge
  <2>2. faults' \in {faults, faults + 1}
    BY <1>0, <1>7 DEF StoreFails
  <2>3. AnswerAge'
    BY <1>7, <2>1, <2>2 DEF StoreFails, TypeOK, AgeInv, AnswerAge
  <2>4. LookupAge' /\ AskingAge' /\ StoringAge' /\ CacheAge'
    BY <1>7, <2>2 DEF StoreFails, TypeOK, AgeInv, LookupAge, AskingAge, StoringAge, CacheAge
  <2>5. QED
    BY <2>3, <2>4 DEF AgeInv
<1>8. ASSUME NEW r \in Requests, Reply(r) \/ CutOff(r) \/ Vanish(r) PROVE AgeInv'
  BY <1>8 DEF Reply, CutOff, Vanish, TypeOK, AgeInv, LookupAge, AskingAge, StoringAge, CacheAge,
              AnswerAge
<1>9. ASSUME NEW r \in Requests, Leave(r) PROVE AgeInv'
  BY <1>9 DEF Leave, AgeInv, LookupAge, AskingAge, StoringAge, CacheAge, AnswerAge
<1>10. CASE Expire
  BY <1>10 DEF Expire, AgeInv, LookupAge, AskingAge, StoringAge, CacheAge, AnswerAge
<1>11. CASE Evict
  BY <1>0, <1>11 DEF Evict, AgeInv, LookupAge, AskingAge, StoringAge, CacheAge, AnswerAge
<1>12. CASE Tick
  <2>1. /\ now' = now + 1
        /\ UNCHANGED <<stage, read, asked, shown, cache>>
        /\ \/ faults' = faults /\ \A r \in Requests : stage[r] \notin Working
           \/ faults' = faults + 1
    BY <1>0, <1>12 DEF Tick
  <2>2. LookupAge' /\ StoringAge' /\ AnswerAge'
    BY <2>1 DEF AgeInv, LookupAge, StoringAge, AnswerAge, Working
  <2>3. AskingAge'
    BY <1>12, <2>1 DEF Tick, WithinLimits, AgeInv, AskingAge
  <2>4. CacheAge'
    BY <1>12, <2>1 DEF Tick, WithinLimits, AgeInv, CacheAge
  <2>5. QED
    BY <2>2, <2>3, <2>4 DEF AgeInv
<1>13. CASE UNCHANGED vars
  BY <1>13 DEF vars, AgeInv, LookupAge, AskingAge, StoringAge, CacheAge, AnswerAge
<1>14. QED
  BY <1>1, <1>2, <1>3, <1>4, <1>5, <1>6, <1>7, <1>8, <1>9, <1>10, <1>11, <1>12, <1>13
     DEF Next, Serve

\* A cancelled question stays in the hands of a request whose client has gone.
LEMMA CancelStep == TypeOK /\ CancelInv /\ [Next]_vars => CancelInv'
<1> SUFFICES ASSUME TypeOK, CancelInv, [Next]_vars PROVE CancelInv'
  OBVIOUS
<1> USE DEF Goto, CancelInv, CancelNotCached
<1>1. ASSUME NEW r \in Requests, Query(r) \/ QueryEmpty(r) \/ Hit(r) \/ Miss(r) PROVE CancelInv'
  BY <1>1 DEF Query, QueryEmpty, Hit, Miss, TypeOK
<1>2. ASSUME NEW r \in Requests, NEW result \in Outcomes, ModelReturns(r, result) PROVE CancelInv'
  BY <1>2 DEF ModelReturns, TypeOK
<1>3. ASSUME NEW r \in Requests, Store(r) PROVE CancelInv'
  BY <1>3 DEF Store, Analysis, TypeOK
<1>4. ASSUME NEW r \in Requests, StoreFails(r) PROVE CancelInv'
  BY <1>4 DEF StoreFails, TypeOK
<1>5. ASSUME NEW r \in Requests, Reply(r) \/ CutOff(r) \/ Vanish(r) PROVE CancelInv'
  BY <1>5 DEF Reply, CutOff, Vanish, TypeOK
<1>6. ASSUME NEW r \in Requests, Leave(r) PROVE CancelInv'
  BY <1>6 DEF Leave
<1>7. CASE Expire \/ Evict
  BY <1>7 DEF Expire, Evict
<1>8. CASE Tick
  BY <1>8 DEF Tick
<1>9. CASE UNCHANGED vars
  BY <1>9 DEF vars
<1>10. QED
  BY <1>1, <1>2, <1>3, <1>4, <1>5, <1>6, <1>7, <1>8, <1>9 DEF Next, Serve

\* Without a stall an answer is given at the time of its request or of its storing.
LEMMA FreshStep == TypeOK /\ AgeInv /\ FreshAnswer /\ [Next]_vars => FreshAnswer'
<1> SUFFICES ASSUME TypeOK, AgeInv, FreshAnswer, [Next]_vars PROVE FreshAnswer'
  OBVIOUS
<1> USE CacheAssumption, Numbers DEF Goto
<1>0. Fault => faults' # 0
  BY DEF Fault
<1>1. ASSUME NEW r \in Requests, Query(r) \/ QueryEmpty(r) PROVE FreshAnswer'
  BY <1>1 DEF Query, QueryEmpty, TypeOK, FreshAnswer
<1>2. ASSUME NEW r \in Requests, Hit(r) PROVE FreshAnswer'
  <2>1. faults = 0 => now = read[r]
    BY <1>2 DEF Hit, AgeInv, LookupAge
  <2>2. QED
    BY <1>2, <2>1 DEF Hit, TypeOK, FreshAnswer
<1>3. ASSUME NEW r \in Requests, Miss(r) PROVE FreshAnswer'
  BY <1>0, <1>3 DEF Miss, TypeOK, FreshAnswer
<1>4. ASSUME NEW r \in Requests, NEW result \in Outcomes, ModelReturns(r, result) PROVE FreshAnswer'
  BY <1>4 DEF ModelReturns, TypeOK, FreshAnswer
<1>5. ASSUME NEW r \in Requests, Store(r) PROVE FreshAnswer'
  <2>1. \E e \in cache' : e.stored = now
    BY <1>5 DEF Store, Analysis
  <2>2. QED
    BY <1>5, <2>1 DEF Store, FreshAnswer
<1>6. ASSUME NEW r \in Requests, StoreFails(r) PROVE FreshAnswer'
  BY <1>0, <1>6 DEF StoreFails, TypeOK, FreshAnswer
<1>7. ASSUME NEW r \in Requests, Reply(r) \/ CutOff(r) \/ Vanish(r) PROVE FreshAnswer'
  BY <1>7 DEF Reply, CutOff, Vanish, TypeOK, FreshAnswer
<1>8. ASSUME NEW r \in Requests, Leave(r) PROVE FreshAnswer'
  BY <1>8 DEF Leave, FreshAnswer
<1>9. CASE Expire
  <2>1. \A e \in cache : e.stored # now
    BY <1>9 DEF Expire, TypeOK
  <2>2. QED
    BY <1>9, <2>1 DEF Expire, FreshAnswer
<1>10. CASE Evict
  BY <1>0, <1>10 DEF Evict, FreshAnswer
<1>11. CASE Tick
  BY <1>0, <1>11 DEF Tick, FreshAnswer, Working
<1>12. CASE UNCHANGED vars
  BY <1>12 DEF vars, FreshAnswer
<1>13. QED
  BY <1>1, <1>2, <1>3, <1>4, <1>5, <1>6, <1>7, <1>8, <1>9, <1>10, <1>11, <1>12 DEF Next, Serve

\* An answer that was cut off is, or was for as long as the key lives, the key's value or
\* has been replaced by a later one.
LEMMA CutStep ==
  ASSUME TypeOK, AgeInv, FreshAnswer, CutIsCached, [Next]_vars
  PROVE  CutIsCached'
<1> USE CacheAssumption, Numbers DEF Goto
<1>0. Fault => faults' # 0
  BY DEF Fault
<1>1. ASSUME NEW r \in Requests, Query(r) \/ QueryEmpty(r) \/ Hit(r) PROVE CutIsCached'
  BY <1>1 DEF Query, QueryEmpty, Hit, TypeOK, CutIsCached
<1>2. ASSUME NEW r \in Requests, Miss(r) PROVE CutIsCached'
  BY <1>0, <1>2 DEF Miss, TypeOK, CutIsCached
<1>3. ASSUME NEW r \in Requests, NEW result \in Outcomes, ModelReturns(r, result) PROVE CutIsCached'
  BY <1>3 DEF ModelReturns, TypeOK, CutIsCached
<1>4. ASSUME NEW r \in Requests, Store(r) PROVE CutIsCached'
  <2>1. \E e \in cache' : e.stored = now
    BY <1>4 DEF Store, Analysis
  <2>2. \A q \in Requests : ended[q] <= now
    BY DEF CutIsCached
  <2>3. QED
    BY <1>4, <2>1, <2>2 DEF Store, TypeOK, CutIsCached
<1>5. ASSUME NEW r \in Requests, StoreFails(r) PROVE CutIsCached'
  BY <1>0, <1>5 DEF StoreFails, TypeOK, CutIsCached
<1>6. ASSUME NEW r \in Requests, Reply(r) \/ Vanish(r) PROVE CutIsCached'
  BY <1>6 DEF Reply, Vanish, TypeOK, CutIsCached
<1>7. ASSUME NEW r \in Requests, CutOff(r) PROVE CutIsCached'
  <2>1. faults = 0 => \E e \in cache : e.stored = now
    BY <1>7 DEF CutOff, FreshAnswer
  <2>2. QED
    BY <1>7, <2>1 DEF CutOff, TypeOK, CutIsCached
<1>8. ASSUME NEW r \in Requests, Leave(r) PROVE CutIsCached'
  BY <1>8 DEF Leave, CutIsCached
<1>9. CASE Expire
  <2>1. \A e \in cache : now >= e.stored + TTL
    BY <1>9 DEF Expire, TypeOK
  <2>2. QED
    BY <1>9, <2>1 DEF Expire, CutIsCached
<1>10. CASE Evict
  BY <1>0, <1>10 DEF Evict, CutIsCached
<1>11. CASE Tick
  BY <1>0, <1>11 DEF Tick, CutIsCached
<1>12. CASE UNCHANGED vars
  BY <1>12 DEF vars, CutIsCached
<1>13. QED
  BY <1>1, <1>2, <1>3, <1>4, <1>5, <1>6, <1>7, <1>8, <1>9, <1>10, <1>11, <1>12 DEF Next, Serve

-----------------------------------------------------------------------------
\* The inductive invariant holds of every behaviour.
THEOREM Invariance == Spec => []IInv
<1>1. Init => IInv
  BY InitInv
<1>2. IInv /\ [Next]_vars => IInv'
  BY NextType, AgeStep, CancelStep, FreshStep, CutStep DEF IInv
<1>3. QED
  BY <1>1, <1>2, PTL DEF Spec

\* The variables stay in their ranges, and the key has one value at most.
THEOREM TypeCorrect == Spec => []TypeOK
<1>1. IInv => TypeOK
  BY DEF IInv
<1>2. QED
  BY <1>1, Invariance, PTL

\* However long the model takes and whoever stores last, no page shows issues older than
\* the time-out of the model and the life of the key together, stalls aside.
THEOREM AgeBounded == Spec => []AnswerAge
<1>1. IInv => AnswerAge
  BY DEF IInv, AgeInv
<1>2. QED
  BY <1>1, Invariance, PTL

\* The error of a client that went away is never cached.
THEOREM CancelledNeverCached == Spec => []CancelNotCached
<1>1. IInv => CancelNotCached
  BY DEF IInv, CancelInv
<1>2. QED
  BY <1>1, Invariance, PTL

\* An answer cut off by the write timeout waits in Redis for the next request.
THEOREM RetryAnswered == Spec => []RetryFindsAnswer
<1>1. IInv => RetryFindsAnswer
  BY DEF IInv, CutIsCached, RetryFindsAnswer
<1>2. QED
  BY <1>1, Invariance, PTL
=============================================================================
