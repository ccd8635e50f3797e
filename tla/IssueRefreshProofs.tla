------------------------- MODULE IssueRefreshProofs -------------------------
(***************************************************************************)
(* Proofs about the ingest: its types, that an ingest that meets no fault  *)
(* leaves the table as its snapshot has it, and that every duplicate row   *)
(* has a fault of its own.                                                 *)
(***************************************************************************)
EXTENDS IssueRefresh, FiniteSetTheorems, TLAPS

(***************************************************************************)
(* The inductive invariant.                                                *)
(***************************************************************************)

\* Requests at work that nobody waits for any more.
Strays == {h \in Handlers : pc[h] # "free" /\ h # waiting}

\* Those who may yet insert issue i: handlers, and statements already sent.
Inserting(i) == {h \in Handlers : pc[h] = "insert" /\ i \in todo[h]}
Sent(i)      == {e \in inFlight : e[2] = i}

\* The agent waits for a handler that is at work on the last snapshot; a handler has
\* all its issues to insert until the old ones are deleted.
WaitInv ==
  /\ \A h \in Handlers : waiting = h => pc[h] # "free" /\ found[h] = snapshot
  /\ \A h \in Handlers : pc[h] = "metrics" \/ pc[h] = Delete => todo[h] = found[h]
  /\ \A h \in Handlers : todo[h] \subseteq found[h]

\* Every request that goes on without its agent, and every statement in flight, has a
\* fault of its own.
StrayInv == IsFiniteSet(inFlight) /\ Cardinality(Strays) + Cardinality(inFlight) <= faults

\* Rows there are and rows to come.
CountInv ==
  \A i \in Issues : rows[i] + Cardinality(Inserting(i)) + Cardinality(Sent(i)) <= 1 + faults

\* Since the last ingest that started alone nothing else touched the table, which
\* holds what that ingest has inserted so far.
AloneInv ==
  ~troubled =>
    /\ inFlight = {}
    /\ Strays = {}
    /\ waiting = Nobody => rows = TableOf(snapshot)
    /\ \A h \in Handlers : waiting = h /\ pc[h] = "insert" => rows = TableOf(found[h] \ todo[h])

IInv == TypeOK /\ WaitInv /\ StrayInv /\ CountInv /\ AloneInv

(***************************************************************************)
(* Counting.                                                               *)
(***************************************************************************)

LEMMA Fewer ==
  ASSUME NEW S, NEW T, IsFiniteSet(S), T \subseteq S
  PROVE  IsFiniteSet(T) /\ Cardinality(T) \in Nat /\ Cardinality(S) \in Nat /\ Cardinality(T) <= Cardinality(S)
BY FS_Subset, FS_CardinalityType

LEMMA OneMore ==
  ASSUME NEW S, NEW T, NEW x, IsFiniteSet(S), T \subseteq S \union {x}
  PROVE  IsFiniteSet(T) /\ Cardinality(T) \in Nat /\ Cardinality(S) \in Nat /\ Cardinality(T) <= Cardinality(S) + 1
<1>1. IsFiniteSet(S \union {x}) /\ Cardinality(S \union {x}) <= Cardinality(S) + 1 /\ Cardinality(S) \in Nat
  BY FS_AddElement, FS_CardinalityType
<1> QED BY <1>1, Fewer

LEMMA OneLess ==
  ASSUME NEW S, NEW T, NEW x \in S, IsFiniteSet(S), T \subseteq S \ {x}
  PROVE  IsFiniteSet(T) /\ Cardinality(T) \in Nat /\ Cardinality(S) \in Nat /\ Cardinality(T) + 1 <= Cardinality(S)
<1>1. IsFiniteSet(S \ {x}) /\ Cardinality(S \ {x}) = Cardinality(S) - 1 /\ Cardinality(S) \in Nat
  BY FS_RemoveElement, FS_CardinalityType
<1> QED BY <1>1, Fewer

\* The sets of the invariant are finite, and their members in number.
LEMMA Finite ==
  ASSUME IInv
  PROVE  /\ IsFiniteSet(Strays) /\ IsFiniteSet(inFlight)
         /\ Cardinality(Strays) \in Nat /\ Cardinality(inFlight) \in Nat
         /\ \A i : /\ IsFiniteSet(Inserting(i)) /\ IsFiniteSet(Sent(i))
                   /\ Cardinality(Inserting(i)) \in Nat /\ Cardinality(Sent(i)) \in Nat
<1>1. IsFiniteSet(Handlers) /\ IsFiniteSet(inFlight)
  BY IssuesAssumption DEF IInv, StrayInv
<1>2. Strays \subseteq Handlers /\ \A i : Inserting(i) \subseteq Handlers /\ Sent(i) \subseteq inFlight
  BY DEF Strays, Inserting, Sent
<1> QED BY <1>1, <1>2, Fewer

\* Whatever becomes of the rows there are, those to come are no more than the faults
\* allow: one handler may still have its agent.
LEMMA ToCome ==
  ASSUME IInv, NEW i
  PROVE  Cardinality(Inserting(i)) + Cardinality(Sent(i)) <= 1 + faults
<1>1. Inserting(i) \subseteq Strays \union {waiting} /\ Sent(i) \subseteq inFlight
  BY DEF Inserting, Sent, Strays
<1>2. /\ Cardinality(Inserting(i)) <= Cardinality(Strays) + 1
      /\ Cardinality(Sent(i)) <= Cardinality(inFlight)
  BY <1>1, Finite, OneMore, Fewer
<1>3. Cardinality(Strays) + Cardinality(inFlight) <= faults /\ faults \in Nat
  BY IssuesAssumption DEF IInv, StrayInv, TypeOK
<1> QED BY <1>2, <1>3, Finite

(***************************************************************************)
(* Types.                                                                  *)
(***************************************************************************)

LEMMA TableTyped == ASSUME NEW issues PROVE TableOf(issues) \in [Issues -> Nat]
BY DEF TableOf

LEMMA EffectTyped ==
  ASSUME rows \in [Issues -> Nat], NEW s \in Statements
  PROVE  Effect(s) \in [Issues -> Nat]
<1>1. CASE s = Delete BY <1>1, TableTyped DEF Effect
<1>2. CASE s # Delete BY <1>2 DEF Effect, Statements
<1> QED BY <1>1, <1>2

LEMMA FaultTyped == ASSUME TypeOK, Fault PROVE faults' \in 0..MaxFaults /\ faults' = faults + 1 /\ troubled' = TRUE
BY IssuesAssumption DEF TypeOK, Fault

LEMMA ExecuteTyped ==
  ASSUME TypeOK, NEW s \in Statements, Execute(s)
  PROVE  rows' \in [Issues -> Nat] /\ faults' \in 0..MaxFaults /\ troubled' \in BOOLEAN
<1>1. rows \in [Issues -> Nat] /\ faults \in 0..MaxFaults /\ troubled \in BOOLEAN BY DEF TypeOK
<1> QED BY <1>1, EffectTyped, FaultTyped DEF Execute

LEMMA ReleaseTyped ==
  ASSUME TypeOK, NEW h \in Handlers, Release(h)
  PROVE  /\ pc' \in [Handlers -> {"free", "metrics", Delete, "insert"}]
         /\ found' \in [Handlers -> SUBSET Issues]
         /\ todo' \in [Handlers -> SUBSET Issues]
         /\ \A g \in Handlers : g # h => pc'[g] = pc[g]
BY DEF TypeOK, Release

LEMMA CancelTyped ==
  ASSUME TypeOK, NEW h \in Handlers, Cancel(h)
  PROVE  /\ pc' \in [Handlers -> {"free", "metrics", Delete, "insert"}]
         /\ found' \in [Handlers -> SUBSET Issues]
         /\ todo' \in [Handlers -> SUBSET Issues]
         /\ inFlight' \subseteq Handlers \X Statements
         /\ snapshot' = snapshot /\ rows' = rows
         /\ \A g \in Handlers : g # h => pc'[g] = pc[g]
<1>1. \A left \in Leftovers(h) : left \subseteq Handlers \X Statements
  BY DEF Leftovers, TypeOK, Statements
<1> QED BY <1>1, ReleaseTyped DEF Cancel, TypeOK

\* A new request takes a handler that is free.
LEMMA PostTakes ==
  ASSUME NEW issues, Post(issues)
  PROVE  \E h \in Handlers :
           /\ pc[h] = "free"
           /\ waiting = Nobody /\ waiting' = h
           /\ pc' = [pc EXCEPT ![h] = "metrics"]
           /\ found' = [found EXCEPT ![h] = issues]
           /\ todo' = [todo EXCEPT ![h] = issues]
           /\ snapshot' = issues
           /\ troubled' = (troubled /\ ~Quiet)
           /\ UNCHANGED <<inFlight, rows, faults>>
<1> DEFINE c == CHOOSE f \in Handlers : pc[f] = "free"
<1>1. c \in Handlers /\ pc[c] = "free" BY DEF Post
<1> QED BY <1>1 DEF Post

LEMMA TypesKept == TypeOK /\ [Next]_vars => TypeOK'
<1> SUFFICES ASSUME TypeOK, [Next]_vars PROVE TypeOK' OBVIOUS
<1>1. ASSUME NEW issues \in SUBSET Issues, Post(issues) PROVE TypeOK'
  <2>1. PICK h \in Handlers :
          /\ waiting' = h
          /\ pc' = [pc EXCEPT ![h] = "metrics"]
          /\ found' = [found EXCEPT ![h] = issues]
          /\ todo' = [todo EXCEPT ![h] = issues]
    BY <1>1, PostTakes
  <2>2. snapshot' = issues /\ troubled' \in BOOLEAN /\ UNCHANGED <<inFlight, rows, faults>>
    BY <1>1, PostTakes
  <2> QED BY <2>1, <2>2 DEF TypeOK
<1>2. ASSUME Abandon PROVE TypeOK'
  BY <1>2, FaultTyped DEF Abandon, TypeOK
<1>3. ASSUME NEW h \in Handlers, StoreMetrics(h) PROVE TypeOK'
  BY <1>3 DEF StoreMetrics, TypeOK, Delete
<1>4. ASSUME NEW h \in Handlers, DeleteOld(h) PROVE TypeOK'
  BY <1>4, ExecuteTyped DEF DeleteOld, TypeOK, Statements
<1>5. ASSUME NEW h \in Handlers, NEW i \in Issues, InsertIssue(h, i) PROVE TypeOK'
  BY <1>5, ExecuteTyped DEF InsertIssue, TypeOK, Statements
<1>6. ASSUME NEW h \in Handlers, Finish(h) PROVE TypeOK'
  <2>1. waiting' # Nobody => waiting' \in Handlers /\ pc'[waiting'] # "free"
    BY <1>6, ReleaseTyped DEF Finish, TypeOK
  <2> QED BY <1>6, <2>1, ReleaseTyped DEF Finish, TypeOK
<1>7. ASSUME NEW h \in Handlers, Notice(h) PROVE TypeOK'
  <2>1. waiting' # Nobody => waiting' \in Handlers /\ pc'[waiting'] # "free"
    BY <1>7, CancelTyped DEF Notice, TypeOK
  <2> QED BY <1>7, <2>1, CancelTyped DEF Notice, TypeOK
<1>8. ASSUME NEW h \in Handlers, LoseServer(h) PROVE TypeOK'
  <2>1. waiting' # Nobody => waiting' \in Handlers /\ pc'[waiting'] # "free"
    BY <1>8, CancelTyped, FaultTyped DEF LoseServer, TypeOK
  <2> QED BY <1>8, <2>1, CancelTyped, FaultTyped DEF LoseServer, TypeOK
<1>9. ASSUME NEW e \in inFlight, Land(e) PROVE TypeOK'
  <2>1. e[2] \in Statements BY DEF TypeOK
  <2>2. rows' \in [Issues -> Nat] BY <1>9, <2>1, EffectTyped DEF Land, TypeOK
  <2> QED BY <1>9, <2>2 DEF Land, TypeOK
<1>10. ASSUME SilentHour PROVE TypeOK'
  BY <1>10, TableTyped, FaultTyped DEF SilentHour, TypeOK
<1>11. ASSUME UNCHANGED vars PROVE TypeOK'
  BY <1>11 DEF vars, TypeOK
<1> QED BY <1>1, <1>2, <1>3, <1>4, <1>5, <1>6, <1>7, <1>8, <1>9, <1>10, <1>11 DEF Next, Ingest

(***************************************************************************)
(* The agent and its handler.                                              *)
(***************************************************************************)

\* A handler that is released is free, the others are as they were.
LEMMA Released ==
  ASSUME TypeOK, NEW h \in Handlers, Release(h), NEW g \in Handlers
  PROVE  IF g = h THEN pc'[g] = "free" /\ todo'[g] = {}
                  ELSE pc'[g] = pc[g] /\ found'[g] = found[g] /\ todo'[g] = todo[g]
BY DEF TypeOK, Release

LEMMA WaitKept == IInv /\ [Next]_vars => WaitInv'
<1> SUFFICES ASSUME IInv, [Next]_vars PROVE WaitInv' OBVIOUS
<1> USE DEF IInv
<1>1. ASSUME NEW issues \in SUBSET Issues, Post(issues) PROVE WaitInv'
  BY <1>1, PostTakes DEF TypeOK, WaitInv, Delete
<1>2. ASSUME Abandon PROVE WaitInv'
  BY <1>2, IssuesAssumption DEF Abandon, WaitInv
<1>3. ASSUME NEW h \in Handlers, StoreMetrics(h) PROVE WaitInv'
  BY <1>3 DEF StoreMetrics, TypeOK, WaitInv, Delete
<1>4. ASSUME NEW h \in Handlers, DeleteOld(h) PROVE WaitInv'
  BY <1>4 DEF DeleteOld, TypeOK, WaitInv, Delete
<1>5. ASSUME NEW h \in Handlers, NEW i \in Issues, InsertIssue(h, i) PROVE WaitInv'
  BY <1>5 DEF InsertIssue, TypeOK, WaitInv, Delete
<1>6. ASSUME NEW h \in Handlers, Finish(h) PROVE WaitInv'
  BY <1>6, Released, IssuesAssumption DEF Finish, WaitInv, Delete
<1>7. ASSUME NEW h \in Handlers, Notice(h) PROVE WaitInv'
  BY <1>7, Released, IssuesAssumption DEF Notice, Cancel, WaitInv, Delete
<1>8. ASSUME NEW h \in Handlers, LoseServer(h) PROVE WaitInv'
  BY <1>8, Released, IssuesAssumption DEF LoseServer, Cancel, WaitInv, Delete
<1>9. ASSUME NEW e \in inFlight, Land(e) PROVE WaitInv'
  BY <1>9 DEF Land, WaitInv
<1>10. ASSUME SilentHour PROVE WaitInv'
  BY <1>10 DEF SilentHour, WaitInv
<1>11. ASSUME UNCHANGED vars PROVE WaitInv'
  BY <1>11 DEF vars, WaitInv
<1> QED BY <1>1, <1>2, <1>3, <1>4, <1>5, <1>6, <1>7, <1>8, <1>9, <1>10, <1>11 DEF Next, Ingest

(***************************************************************************)
(* Counts.                                                                 *)
(***************************************************************************)

\* A cancelled handler leaves at most one statement in flight, and one that inserts
\* an issue only in place of itself.
LEMMA CancelCounts ==
  ASSUME IInv, NEW h \in Handlers, Cancel(h)
  PROVE  /\ IsFiniteSet(inFlight') /\ Cardinality(inFlight') \in Nat
         /\ Cardinality(inFlight') <= Cardinality(inFlight) + 1
         /\ \A i \in Issues : Cardinality(Inserting(i)') + Cardinality(Sent(i)')
                                <= Cardinality(Inserting(i)) + Cardinality(Sent(i))
<1>0. TypeOK BY DEF IInv
<1>1. PICK left \in Leftovers(h) : inFlight' = inFlight \union left BY DEF Cancel
<1>2. Release(h) BY DEF Cancel
<1>3. \E x : left \subseteq {x} BY DEF Leftovers
<1>4. PICK x : inFlight' \subseteq inFlight \union {x} BY <1>1, <1>3
<1>5. ASSUME NEW i \in Issues
      PROVE  Cardinality(Inserting(i)') + Cardinality(Sent(i)') <= Cardinality(Inserting(i)) + Cardinality(Sent(i))
  <2>1. Inserting(i)' \subseteq Inserting(i) \ {h}
    BY <1>0, <1>2, Released DEF Inserting
  <2>2. CASE h \in Inserting(i)
    <3>1. \A e \in left : e = <<h, e[2]>> BY DEF Leftovers
    <3>2. Sent(i)' \subseteq Sent(i) \union {<<h, i>>} BY <1>1, <3>1 DEF Sent
    <3>3. Cardinality(Sent(i)') <= Cardinality(Sent(i)) + 1 /\ Cardinality(Sent(i)') \in Nat
      BY <3>2, Finite, OneMore
    <3>4. Cardinality(Inserting(i)') + 1 <= Cardinality(Inserting(i)) /\ Cardinality(Inserting(i)') \in Nat
      BY <2>1, <2>2, Finite, OneLess
    <3> QED BY <3>3, <3>4, Finite
  <2>3. CASE h \notin Inserting(i)
    <3>1. \A e \in left : e[2] # i
      BY <2>3, IssuesAssumption DEF Leftovers, Inserting
    <3>2. Sent(i)' \subseteq Sent(i) BY <1>1, <3>1 DEF Sent
    <3>3. /\ Cardinality(Sent(i)') <= Cardinality(Sent(i)) /\ Cardinality(Sent(i)') \in Nat
          /\ Cardinality(Inserting(i)') <= Cardinality(Inserting(i)) /\ Cardinality(Inserting(i)') \in Nat
      BY <2>1, <3>2, Finite, Fewer
    <3> QED BY <3>3, Finite
  <2> QED BY <2>2, <2>3
<1> QED BY <1>4, <1>5, Finite, OneMore

\* A fault pays for one more request or statement that goes on alone.
LEMMA StrayKept == IInv /\ [Next]_vars => StrayInv'
<1> SUFFICES ASSUME IInv, [Next]_vars PROVE StrayInv' OBVIOUS
<1>0. TypeOK /\ WaitInv /\ StrayInv /\ faults \in Nat
  BY IssuesAssumption DEF IInv, TypeOK
\* Steps after which there are no more of them, or no more than faults.
<1>a. ASSUME Strays' \subseteq Strays, inFlight' \subseteq inFlight, faults' = faults \/ faults' = faults + 1
      PROVE  StrayInv'
  BY <1>0, <1>a, Finite, Fewer DEF StrayInv
<1>1. ASSUME NEW issues \in SUBSET Issues, Post(issues) PROVE StrayInv'
  <2>1. Strays' \subseteq Strays BY <1>0, <1>1, PostTakes, IssuesAssumption DEF Strays, TypeOK
  <2> QED BY <1>1, <2>1, <1>a, PostTakes
<1>2. ASSUME Abandon PROVE StrayInv'
  <2>1. Strays' \subseteq Strays \union {waiting} BY <1>2 DEF Strays, Abandon
  <2>2. IsFiniteSet(Strays') /\ Cardinality(Strays') \in Nat /\ Cardinality(Strays') <= Cardinality(Strays) + 1
    BY <2>1, Finite, OneMore
  <2> QED BY <1>0, <1>2, <2>2, Finite DEF Abandon, Fault, StrayInv
<1>3. ASSUME NEW h \in Handlers, StoreMetrics(h) PROVE StrayInv'
  <2>1. Strays' \subseteq Strays BY <1>0, <1>3 DEF Strays, TypeOK, StoreMetrics
  <2> QED BY <1>3, <2>1, <1>a DEF StoreMetrics
<1>4. ASSUME NEW h \in Handlers, DeleteOld(h) PROVE StrayInv'
  <2>1. Strays' \subseteq Strays BY <1>0, <1>4 DEF Strays, TypeOK, DeleteOld, Delete
  <2> QED BY <1>4, <2>1, <1>a DEF DeleteOld, Execute, Fault
<1>5. ASSUME NEW h \in Handlers, NEW i \in Issues, InsertIssue(h, i) PROVE StrayInv'
  <2>1. Strays' \subseteq Strays BY <1>5 DEF Strays, InsertIssue
  <2> QED BY <1>5, <2>1, <1>a DEF InsertIssue, Execute, Fault
<1>6. ASSUME NEW h \in Handlers, Finish(h) PROVE StrayInv'
  <2>1. Strays' \subseteq Strays BY <1>0, <1>6, Released DEF Strays, Finish
  <2> QED BY <1>6, <2>1, <1>a DEF Finish
<1>7. ASSUME NEW h \in Handlers, Notice(h) PROVE StrayInv'
  <2>1. h \in Strays BY <1>7 DEF Notice, Cancel, Strays
  <2>2. Strays' \subseteq Strays \ {h} BY <1>0, <1>7, Released DEF Strays, Notice, Cancel
  <2>3. Cardinality(Strays') + 1 <= Cardinality(Strays) /\ Cardinality(Strays') \in Nat
    BY <2>1, <2>2, Finite, OneLess
  <2>4. IsFiniteSet(inFlight') /\ Cardinality(inFlight') \in Nat /\ Cardinality(inFlight') <= Cardinality(inFlight) + 1
    BY <1>7, CancelCounts DEF Notice
  <2>5. faults' = faults BY <1>7 DEF Notice
  <2> QED BY <1>0, <2>3, <2>4, <2>5, Finite DEF StrayInv
<1>8. ASSUME NEW h \in Handlers, LoseServer(h) PROVE StrayInv'
  <2>2. Strays' \subseteq Strays BY <1>0, <1>8, Released DEF Strays, LoseServer, Cancel
  <2>3. Cardinality(Strays') <= Cardinality(Strays) /\ Cardinality(Strays') \in Nat
    BY <2>2, Finite, Fewer
  <2>4. IsFiniteSet(inFlight') /\ Cardinality(inFlight') \in Nat /\ Cardinality(inFlight') <= Cardinality(inFlight) + 1
    BY <1>8, CancelCounts DEF LoseServer
  <2>5. faults' = faults + 1 BY <1>8 DEF LoseServer, Fault
  <2> QED BY <1>0, <2>3, <2>4, <2>5, Finite DEF StrayInv
<1>9. ASSUME NEW e \in inFlight, Land(e) PROVE StrayInv'
  <2>1. Strays' = Strays BY <1>9 DEF Land, Strays
  <2> QED BY <1>9, <2>1, <1>a DEF Land
<1>10. ASSUME SilentHour PROVE StrayInv'
  <2>1. Strays' = Strays BY <1>10 DEF SilentHour, Strays
  <2> QED BY <1>10, <2>1, <1>a DEF SilentHour, Fault
<1>11. ASSUME UNCHANGED vars PROVE StrayInv'
  <2>1. Strays' = Strays BY <1>11 DEF vars, Strays
  <2> QED BY <1>11, <2>1, <1>a DEF vars
<1> QED BY <1>1, <1>2, <1>3, <1>4, <1>5, <1>6, <1>7, <1>8, <1>9, <1>10, <1>11 DEF Next, Ingest

\* A row that is inserted was to come before; a DELETE that fails is a fault, and one
\* that succeeds leaves only rows to come.
LEMMA CountKept == IInv /\ [Next]_vars => CountInv'
<1> SUFFICES ASSUME IInv, [Next]_vars, NEW i \in Issues
             PROVE  rows'[i] + Cardinality(Inserting(i)') + Cardinality(Sent(i)') <= 1 + faults'
  BY DEF CountInv
<1> DEFINE Kept == rows'[i] + Cardinality(Inserting(i)') + Cardinality(Sent(i)') <= 1 + faults'
<1> HIDE DEF Kept
<1> SUFFICES Kept BY DEF Kept
<1>0. /\ TypeOK /\ rows[i] \in Nat /\ faults \in Nat
      /\ rows[i] + Cardinality(Inserting(i)) + Cardinality(Sent(i)) <= 1 + faults
  BY IssuesAssumption DEF IInv, TypeOK, CountInv
<1>f. Cardinality(Inserting(i)) \in Nat /\ Cardinality(Sent(i)) \in Nat BY Finite
\* Steps that add neither a row nor one to come.
<1>a. ASSUME Inserting(i)' \subseteq Inserting(i), Sent(i)' \subseteq Sent(i), rows' = rows,
             faults' = faults \/ faults' = faults + 1
      PROVE  Kept
  <2>1. /\ Cardinality(Inserting(i)') <= Cardinality(Inserting(i)) /\ Cardinality(Inserting(i)') \in Nat
        /\ Cardinality(Sent(i)') <= Cardinality(Sent(i)) /\ Cardinality(Sent(i)') \in Nat
    BY <1>a, Finite, Fewer
  <2> QED BY <1>0, <1>f, <1>a, <2>1 DEF Kept
<1>1. ASSUME NEW issues \in SUBSET Issues, Post(issues) PROVE Kept
  <2>1. Inserting(i)' \subseteq Inserting(i) /\ Sent(i)' \subseteq Sent(i)
    BY <1>0, <1>1, PostTakes DEF Inserting, Sent, TypeOK
  <2> QED BY <1>1, <2>1, <1>a, PostTakes
<1>2. ASSUME Abandon PROVE Kept
  <2>1. Inserting(i)' = Inserting(i) /\ Sent(i)' = Sent(i) BY <1>2 DEF Inserting, Sent, Abandon
  <2> QED BY <1>2, <2>1, <1>a DEF Abandon, Fault
<1>3. ASSUME NEW h \in Handlers, StoreMetrics(h) PROVE Kept
  <2>1. Inserting(i)' \subseteq Inserting(i) /\ Sent(i)' = Sent(i)
    BY <1>0, <1>3 DEF Inserting, Sent, TypeOK, StoreMetrics, Delete
  <2> QED BY <1>3, <2>1, <1>a DEF StoreMetrics
<1>4. ASSUME NEW h \in Handlers, DeleteOld(h) PROVE Kept
  <2>1. Inserting(i)' \subseteq Inserting(i) \union {h} /\ Sent(i)' = Sent(i)
    BY <1>0, <1>4 DEF Inserting, Sent, TypeOK, DeleteOld
  <2>2. CASE Fault /\ rows' = rows
    <3>1. Cardinality(Inserting(i)') <= Cardinality(Inserting(i)) + 1 /\ Cardinality(Inserting(i)') \in Nat
      BY <2>1, Finite, OneMore
    <3>2. faults' = faults + 1 BY <2>2 DEF Fault
    <3> QED BY <1>0, <1>f, <2>1, <2>2, <3>1, <3>2 DEF Kept
  <2>3. CASE rows' = TableOf({}) /\ faults' = faults
    <3>1. Inserting(i)' \subseteq Strays \union {waiting} /\ Sent(i)' \subseteq inFlight
      BY <1>0, <1>4, <2>1 DEF Inserting, Sent, Strays, DeleteOld, Delete
    <3>2. /\ Cardinality(Inserting(i)') <= Cardinality(Strays) + 1 /\ Cardinality(Inserting(i)') \in Nat
          /\ Cardinality(Sent(i)') <= Cardinality(inFlight) /\ Cardinality(Sent(i)') \in Nat
      BY <3>1, Finite, OneMore, Fewer
    <3>3. Cardinality(Strays) + Cardinality(inFlight) <= faults BY DEF IInv, StrayInv
    <3>4. rows'[i] = 0 BY <2>3 DEF TableOf
    <3> QED BY <1>0, <2>3, <3>2, <3>3, <3>4, Finite DEF Kept
  <2> QED BY <1>4, <2>2, <2>3 DEF DeleteOld, Execute, Effect
<1>5. ASSUME NEW h \in Handlers, NEW j \in Issues, InsertIssue(h, j) PROVE Kept
  <2>1. Sent(i)' = Sent(i) BY <1>5 DEF InsertIssue, Sent
  <2>2. Inserting(i)' \subseteq Inserting(i) BY <1>0, <1>5 DEF InsertIssue, Inserting, TypeOK
  <2>3. CASE rows' = Effect(j) /\ faults' = faults
    <3>1. CASE j = i
      <4>1. h \in Inserting(i) /\ Inserting(i)' \subseteq Inserting(i) \ {h}
        BY <1>0, <1>5, <3>1 DEF InsertIssue, Inserting, TypeOK
      <4>2. Cardinality(Inserting(i)') + 1 <= Cardinality(Inserting(i)) /\ Cardinality(Inserting(i)') \in Nat
        BY <4>1, Finite, OneLess
      <4>3. rows'[i] = rows[i] + 1 BY <1>0, <2>3, <3>1, IssuesAssumption DEF Effect, TypeOK
      <4> QED BY <1>0, <1>f, <2>1, <2>3, <4>2, <4>3 DEF Kept
    <3>2. CASE j # i
      <4>1. rows'[i] = rows[i] BY <1>0, <2>3, <3>2, IssuesAssumption DEF Effect, TypeOK
      <4>2. Cardinality(Inserting(i)') <= Cardinality(Inserting(i)) /\ Cardinality(Inserting(i)') \in Nat
        BY <2>2, Finite, Fewer
      <4> QED BY <1>0, <1>f, <2>1, <2>3, <4>1, <4>2 DEF Kept
    <3> QED BY <3>1, <3>2
  <2>4. CASE Fault /\ rows' = rows
    BY <2>1, <2>2, <2>4, <1>a DEF Fault
  <2> QED BY <1>5, <2>3, <2>4 DEF InsertIssue, Execute
<1>6. ASSUME NEW h \in Handlers, Finish(h) PROVE Kept
  <2>1. Inserting(i)' \subseteq Inserting(i) /\ Sent(i)' = Sent(i)
    BY <1>0, <1>6, Released DEF Inserting, Sent, Finish
  <2> QED BY <1>6, <2>1, <1>a DEF Finish
<1>b. ASSUME NEW h \in Handlers, Cancel(h), faults' = faults \/ faults' = faults + 1 PROVE Kept
  <2>1. Cardinality(Inserting(i)') + Cardinality(Sent(i)') <= Cardinality(Inserting(i)) + Cardinality(Sent(i))
    BY <1>b, CancelCounts
  <2>2. rows' = rows BY <1>b DEF Cancel
  <2>3. Inserting(i)' \subseteq Inserting(i) BY <1>0, <1>b, Released DEF Inserting, Cancel
  <2>4. Sent(i)' \subseteq inFlight' /\ IsFiniteSet(inFlight') BY <1>b, CancelCounts DEF Sent
  <2>5. Cardinality(Inserting(i)') \in Nat /\ Cardinality(Sent(i)') \in Nat
    BY <2>3, <2>4, Finite, Fewer
  <2> QED BY <1>0, <1>f, <1>b, <2>1, <2>2, <2>5 DEF Kept
<1>7. ASSUME NEW h \in Handlers, Notice(h) PROVE Kept
  BY <1>7, <1>b DEF Notice
<1>8. ASSUME NEW h \in Handlers, LoseServer(h) PROVE Kept
  BY <1>8, <1>b DEF LoseServer, Fault
<1>9. ASSUME NEW e \in inFlight, Land(e) PROVE Kept
  <2>1. Inserting(i)' = Inserting(i) /\ faults' = faults BY <1>9 DEF Land, Inserting
  <2>2. Sent(i)' \subseteq Sent(i) BY <1>9 DEF Land, Sent
  <2>3. Cardinality(Sent(i)') <= Cardinality(Sent(i)) /\ Cardinality(Sent(i)') \in Nat
    BY <2>2, Finite, Fewer
  <2>4. CASE rows' = rows
    BY <2>1, <2>2, <2>4, <1>a
  <2>5. CASE rows' = Effect(e[2]) /\ e[2] = i
    <3>1. e \in Sent(i) /\ Sent(i)' \subseteq Sent(i) \ {e} BY <1>9, <2>5 DEF Land, Sent
    <3>2. Cardinality(Sent(i)') + 1 <= Cardinality(Sent(i)) BY <3>1, Finite, OneLess
    <3>3. rows'[i] = rows[i] + 1 BY <1>0, <2>5, IssuesAssumption DEF Effect, TypeOK
    <3> QED BY <1>0, <1>f, <2>1, <2>3, <3>2, <3>3 DEF Kept
  <2>6. CASE rows' = Effect(e[2]) /\ e[2] = Delete
    <3>1. rows'[i] = 0 BY <2>6 DEF Effect, TableOf
    <3>2. Cardinality(Inserting(i)) + Cardinality(Sent(i)) <= 1 + faults BY ToCome
    <3> QED BY <1>0, <1>f, <2>1, <2>3, <3>1, <3>2 DEF Kept
  <2>7. CASE rows' = Effect(e[2]) /\ e[2] # i /\ e[2] # Delete
    <3>1. rows'[i] = rows[i] BY <1>0, <2>7 DEF Effect, TypeOK
    <3> QED BY <1>0, <1>f, <2>1, <2>3, <3>1 DEF Kept
  <2> QED BY <1>9, <2>4, <2>5, <2>6, <2>7 DEF Land
<1>10. ASSUME SilentHour PROVE Kept
  <2>1. Inserting(i)' = Inserting(i) /\ Sent(i)' = Sent(i) /\ faults' = faults + 1
    BY <1>10 DEF SilentHour, Inserting, Sent, Fault
  <2>2. rows'[i] = 0 BY <1>10 DEF SilentHour, TableOf
  <2>3. Cardinality(Inserting(i)) + Cardinality(Sent(i)) <= 1 + faults BY ToCome
  <2> QED BY <1>0, <1>f, <2>1, <2>2, <2>3 DEF Kept
<1>11. ASSUME UNCHANGED vars PROVE Kept
  <2>1. Inserting(i)' = Inserting(i) /\ Sent(i)' = Sent(i) BY <1>11 DEF vars, Inserting, Sent
  <2> QED BY <1>11, <2>1, <1>a DEF vars
<1> QED BY <1>1, <1>2, <1>3, <1>4, <1>5, <1>6, <1>7, <1>8, <1>9, <1>10, <1>11 DEF Next, Ingest

(***************************************************************************)
(* An ingest alone.                                                        *)
(***************************************************************************)

\* What happens without a fault since it started is the doing of the one handler.
LEMMA AloneKept == IInv /\ [Next]_vars => AloneInv'
<1> SUFFICES ASSUME IInv, [Next]_vars, ~troubled' PROVE AloneInv'
  BY DEF AloneInv
<1>0. TypeOK /\ WaitInv /\ Nobody \notin Handlers /\ Delete \notin Issues
  BY IssuesAssumption DEF IInv
<1>a. ASSUME ~troubled
      PROVE  /\ inFlight = {} /\ \A h \in Handlers : pc[h] # "free" => h = waiting
             /\ waiting = Nobody => rows = TableOf(snapshot)
             /\ \A h \in Handlers : waiting = h /\ pc[h] = "insert" => rows = TableOf(found[h] \ todo[h])
  BY <1>a DEF IInv, AloneInv, Strays
<1>1. ASSUME NEW issues \in SUBSET Issues, Post(issues) PROVE AloneInv'
  <2>1. Quiet
    BY <1>0, <1>1, <1>a, PostTakes DEF Quiet, TypeOK
  <2>2. PICK h \in Handlers : waiting' = h /\ pc' = [pc EXCEPT ![h] = "metrics"] /\ inFlight' = inFlight
    BY <1>1, PostTakes
  <2>3. Strays' = {} BY <1>0, <2>1, <2>2 DEF Strays, Quiet, TypeOK
  <2> QED BY <1>0, <2>1, <2>2, <2>3 DEF AloneInv, Quiet, TypeOK
<1>2. ASSUME Abandon PROVE AloneInv'
  BY <1>2 DEF Abandon, Fault
<1>3. ASSUME NEW h \in Handlers, StoreMetrics(h) PROVE AloneInv'
  <2>1. ~troubled /\ h = waiting BY <1>3, <1>a DEF StoreMetrics
  <2> QED BY <1>0, <1>3, <1>a, <2>1 DEF StoreMetrics, AloneInv, Strays, TypeOK, Delete
<1>4. ASSUME NEW h \in Handlers, DeleteOld(h) PROVE AloneInv'
  <2>1. ~troubled /\ rows' = TableOf({}) BY <1>4 DEF DeleteOld, Execute, Fault, Effect
  <2>2. h = waiting /\ todo[h] = found[h] BY <1>0, <1>4, <1>a, <2>1 DEF DeleteOld, Delete, WaitInv
  <2>3. found[h] \ todo[h] = {} BY <2>2
  <2>4. Strays' = {} BY <1>0, <1>4, <1>a, <2>1, <2>2 DEF DeleteOld, Strays, TypeOK
  <2> QED BY <1>0, <1>4, <1>a, <2>1, <2>2, <2>3, <2>4 DEF DeleteOld, AloneInv
<1>5. ASSUME NEW h \in Handlers, NEW i \in Issues, InsertIssue(h, i) PROVE AloneInv'
  <2>1. ~troubled /\ rows' = [rows EXCEPT ![i] = @ + 1]
    BY <1>0, <1>5 DEF InsertIssue, Execute, Fault, Effect
  <2>2. h = waiting /\ pc[h] = "insert" /\ i \in todo[h] BY <1>5, <1>a, <2>1 DEF InsertIssue
  <2>3. rows = TableOf(found[h] \ todo[h]) BY <1>a, <2>1, <2>2
  <2>4. i \in found[h] BY <1>0, <2>2 DEF WaitInv
  <2>5. todo'[h] = todo[h] \ {i} BY <1>0, <1>5 DEF InsertIssue, TypeOK
  <2>6. rows' = TableOf(found[h] \ todo'[h]) BY <2>1, <2>2, <2>3, <2>4, <2>5 DEF TableOf
  <2>7. Strays' = {} BY <1>5, <1>a, <2>1, <2>2 DEF InsertIssue, Strays
  <2> QED BY <1>0, <1>5, <1>a, <2>1, <2>2, <2>6, <2>7 DEF InsertIssue, AloneInv
<1>6. ASSUME NEW h \in Handlers, Finish(h) PROVE AloneInv'
  <2>1. ~troubled /\ h = waiting /\ pc[h] = "insert" /\ todo[h] = {} BY <1>6, <1>a DEF Finish
  <2>2. found[h] = snapshot BY <1>0, <2>1 DEF WaitInv
  <2>3. found[h] \ todo[h] = snapshot BY <2>1, <2>2
  <2>4. rows = TableOf(snapshot) BY <1>a, <2>1, <2>3
  <2>5. Strays' = {} BY <1>0, <1>6, <1>a, <2>1, Released DEF Finish, Strays
  <2> QED BY <1>0, <1>6, <1>a, <2>1, <2>4, <2>5 DEF Finish, AloneInv
<1>7. ASSUME NEW h \in Handlers, Notice(h) PROVE AloneInv'
  BY <1>7, <1>a DEF Notice, Cancel
<1>8. ASSUME NEW h \in Handlers, LoseServer(h) PROVE AloneInv'
  BY <1>8 DEF LoseServer, Fault
<1>9. ASSUME NEW e \in inFlight, Land(e) PROVE AloneInv'
  BY <1>9, <1>a DEF Land
<1>10. ASSUME SilentHour PROVE AloneInv'
  BY <1>10 DEF SilentHour, Fault
<1>11. ASSUME UNCHANGED vars PROVE AloneInv'
  BY <1>11, <1>a DEF vars, AloneInv, Strays
<1> QED BY <1>1, <1>2, <1>3, <1>4, <1>5, <1>6, <1>7, <1>8, <1>9, <1>10, <1>11 DEF Next, Ingest

(***************************************************************************)
(* The theorems.                                                           *)
(***************************************************************************)

LEMMA InitHolds == Init => IInv
<1> SUFFICES ASSUME Init PROVE IInv OBVIOUS
<1>1. TypeOK
  <2>1. rows \in [Issues -> Nat] BY TableTyped DEF Init
  <2>2. faults \in 0..MaxFaults BY IssuesAssumption DEF Init
  <2> QED BY <2>1, <2>2 DEF Init, TypeOK
<1>2. WaitInv BY IssuesAssumption DEF Init, WaitInv, Delete
<1>3. Strays = {} /\ inFlight = {} /\ \A i : Inserting(i) = {} /\ Sent(i) = {}
  BY DEF Init, Strays, Inserting, Sent
<1>4. StrayInv BY <1>3, FS_EmptySet DEF Init, StrayInv
<1>5. CountInv
  <2>1. \A i \in Issues : rows[i] = 0 BY DEF Init, TableOf
  <2> QED BY <1>3, <2>1, FS_EmptySet DEF Init, CountInv
<1>6. AloneInv BY <1>3, IssuesAssumption DEF Init, AloneInv
<1> QED BY <1>1, <1>2, <1>4, <1>5, <1>6 DEF IInv

LEMMA StepKeeps == IInv /\ [Next]_vars => IInv'
BY TypesKept, WaitKept, StrayKept, CountKept, AloneKept DEF IInv

\* The invariant holds of every behaviour of the ingest.
THEOREM Invariance == Spec => []IInv
BY InitHolds, StepKeeps, PTL DEF Spec

\* Every variable stays in its range: in particular no row is counted below nought.
THEOREM TypeCorrect == Spec => []TypeOK
<1>1. IInv => TypeOK BY DEF IInv
<1> QED BY <1>1, Invariance, PTL

\* An ingest that starts alone and meets no fault leaves each issue of the last
\* snapshot in the table once, and no other, whatever it found there
\* (metrics.go:81-132).
THEOREM AccurateWhenQuiet == Spec => []QuietAccurate
<1>1. IInv => QuietAccurate BY DEF IInv, AloneInv, QuietAccurate
<1> QED BY <1>1, Invariance, PTL

\* However many requests go on without their agent, every row too many takes a
\* fault of its own (metrics.go:82-132 ignores every error).
THEOREM DuplicatesPaid == Spec => []DuplicatesBounded
<1>1. ASSUME IInv PROVE DuplicatesBounded
  <2>1. ASSUME NEW i \in Issues PROVE rows[i] <= 1 + faults
    <3>1. /\ rows[i] \in Nat /\ faults \in Nat
          /\ rows[i] + Cardinality(Inserting(i)) + Cardinality(Sent(i)) <= 1 + faults
      BY <1>1, IssuesAssumption DEF IInv, TypeOK, CountInv
    <3> QED BY <1>1, <3>1, Finite
  <2> QED BY <2>1 DEF DuplicatesBounded
<1> QED BY <1>1, Invariance, PTL
=============================================================================
