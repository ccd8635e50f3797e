------------------------ MODULE ModelManagementProofs ------------------------
(***************************************************************************)
(* TLAPS proofs about ModelManagement, for every number of replicas,       *)
(* requests, models and failures.                                          *)
(***************************************************************************)
EXTENDS ModelManagement, TLAPS

-----------------------------------------------------------------------------
(***************************************************************************)
(* The inductive invariant: what a request at a certain step may rely on.  *)
(***************************************************************************)

\* A replica's service is its backend's, and a request is only served by a replica that has what
\* its step needs.
ServiceInv ==
  /\ \A p \in Replicas : service[p] \in {"ollama", "external"} => backend = service[p]
  /\ \A r \in Requests :
       /\ stage[r] \notin {"new", "done", "cut"} => service[at[r]] # "down"
       /\ stage[r] \in {"listing", "deleting", "accepted", "returned", "reading", "waiting", "locking"} =>
            service[at[r]] \in {"ollama", "external"}
       /\ stage[r] = "writing" => service[at[r]] = "ollama"

\* Who writes holds the lock, and who holds it is writing or about to release it.
LockInv ==
  /\ \A r \in Requests : stage[r] = "writing" => writer[at[r]] = r /\ last[at[r]] = what[r].model
  /\ \A r \in Requests : stage[r] = "unlocking" /\ service[at[r]] # "none" => writer[at[r]] = r
  /\ \A p \in Replicas : writer[p] # Nobody =>
       at[writer[p]] = p /\ stage[writer[p]] \in {"writing", "unlocking"}

\* Unless somebody is writing, the name is that of the last switch.
NameInv ==
  /\ LastSwitchWins
  /\ \A r \in Requests : stage[r] = "unlocking" /\ service[at[r]] = "ollama" =>
       active[at[r]] = <<last[at[r]], last[at[r]]>>

\* The words a request has read are still those of the name, unless a switch wrote since, as long
\* as it reads; afterwards the label is the name that was asked.
LabelInv == \A r \in Requests :
  /\ stage[r] \in {"new", "client"} => words[r] = <<>>
  /\ stage[r] = "reading" => Len(words[r]) < WordsOf(what[r].op)
  /\ r \notin disturbed /\ stage[r] = "reading" =>
       \A i \in DOMAIN words[r] : words[r][i] = active[at[r]][IF i \in {1, 3} THEN 1 ELSE 2]
  /\ r \notin disturbed /\ Len(words[r]) = 4 =>
       words[r][1] = words[r][3] /\ words[r][2] = words[r][4]

IInv == TypeOK /\ ServiceInv /\ LockInv /\ NameInv /\ LabelInv /\ PanicOnlyWithoutOllama

-----------------------------------------------------------------------------
\* Initially no request has come and every replica is down.
LEMMA InitInv == Init => IInv
BY ModelAssumption DEF Init, IInv, TypeOK, ServiceInv, LockInv, NameInv, LastSwitchWins, LabelInv,
   PanicOnlyWithoutOllama, Operations, Stages, Answers, WordsOf

\* What a request asks for.
LEMMA WhatType ==
  ASSUME TypeOK, NEW r \in Requests
  PROVE  what[r].model \in Models /\ what[r].op \in {"switch", "pull", "delete", "list", "diagnose", "explain"}
BY ModelAssumption DEF TypeOK, Operations

\* What writing one word makes of the name.
LEMMA WriteWordName ==
  ASSUME TypeOK, NEW r \in Requests, NEW i \in {1, 2}, WriteWord(r, i)
  PROVE  /\ active' \in [Replicas -> Models \X Models]
         /\ \A p \in Replicas \ {at[r]} : active'[p] = active[p]
<1>1. at[r] \in Replicas /\ active[at[r]] \in Models \X Models
  BY DEF TypeOK
<1>2. [active[at[r]] EXCEPT ![i] = what[r].model] \in Models \X Models
  BY <1>1, WhatType
<1>3. active' = [active EXCEPT ![at[r]] = [active[at[r]] EXCEPT ![i] = what[r].model]]
  BY DEF WriteWord
<1> QED BY <1>1, <1>2, <1>3 DEF TypeOK

\* Counting a failure keeps the bound.
LEMMA FaultType ==
  ASSUME TypeOK, Fault \/ UNCHANGED faults
  PROVE  faults' \in Nat /\ faults' <= MaxFaults
BY ModelAssumption DEF TypeOK, Fault

\* A request that ends has an answer.
LEMMA FinishType ==
  ASSUME TypeOK, NEW r \in Requests, NEW from, NEW result \in Answers, Finish(r, from, result)
  PROVE  /\ stage' \in [Requests -> Stages]
         /\ answer' \in [Requests -> Answers]
         /\ words' = words /\ disturbed' = disturbed
BY DEF TypeOK, Finish, Goto, Stages

\* Every step keeps the types.
LEMMA TypeStep == TypeOK /\ ServiceInv /\ LabelInv /\ [Next]_vars => TypeOK'
<1> SUFFICES ASSUME TypeOK, ServiceInv, LabelInv, [Next]_vars PROVE TypeOK'
  OBVIOUS
<1>1. ASSUME NEW p \in Replicas, Start(p) PROVE TypeOK'
  <2>1. service' \in [Replicas -> {"down", "none", "ollama", "external"}]
    BY <1>1 DEF TypeOK, Start
  <2>2. active' \in [Replicas -> Models \X Models] /\ last' \in [Replicas -> Models]
    BY <1>1, ModelAssumption DEF TypeOK, Start
  <2>3. installed' \subseteq Models
    BY <1>1, ModelAssumption DEF TypeOK, Start
  <2>4. faults' \in Nat /\ faults' <= MaxFaults
    BY <1>1, FaultType DEF Start
  <2>5. UNCHANGED <<backend, what, at, writer, key, stage, words, disturbed, answer>>
    BY <1>1 DEF Start, given, requestVars
  <2> QED BY <2>1, <2>2, <2>3, <2>4, <2>5 DEF TypeOK
<1>2. ASSUME NEW p \in Replicas, Stop(p) PROVE TypeOK'
  BY <1>2, ModelAssumption DEF TypeOK, Stop, Down, given, Fault, Stages
<1>3. ASSUME NEW r \in Requests, Serve(r) PROVE TypeOK'
  <2>1. CASE Arrive(r)
    BY <2>1, WhatType, ModelAssumption DEF TypeOK, Arrive, given, replicaVars, Goto, Stages
  <2>2. CASE Client(r)
    BY <2>2, WhatType, ModelAssumption DEF TypeOK, Client, given, replicaVars, Goto, After, Stages
  <2>3. CASE NoService(r)
    BY <2>3, WhatType, ModelAssumption DEF TypeOK, NoService, given, replicaVars, Finish, Goto, Stages, Answers
  <2>4. CASE ReadWord(r)
    BY <2>4, WhatType, ModelAssumption DEF TypeOK, ReadWord, given, replicaVars, Goto, Stages, WordsOf, ServiceInv, LabelInv, Mine
  <2>5. CASE SkipWords(r)
    BY <2>5, WhatType, ModelAssumption DEF TypeOK, SkipWords, given, replicaVars, Goto, Stages
  <2>6. CASE Replies(r)
    BY <2>6, WhatType, ModelAssumption DEF TypeOK, Replies, given, replicaVars, Finish, Goto, Stages, Answers
  <2>7. CASE Refuses(r)
    BY <2>7, WhatType, ModelAssumption DEF TypeOK, Refuses, given, replicaVars, Finish, Goto, Fault, Stages, Answers
  <2>8. CASE List(r)
    <3>1. \E result \in Answers : Finish(r, "listing", result)
      BY <2>8 DEF List, Answers
    <3>2. faults' \in Nat /\ faults' <= MaxFaults
      BY <2>8, FaultType DEF List
    <3>3. UNCHANGED <<backend, what, at, service, active, writer, last, installed, key>>
      BY <2>8 DEF List, given, replicaVars
    <3> QED BY <3>1, <3>2, <3>3, FinishType DEF TypeOK
  <2>9. CASE Delete(r)
    <3>1. \E result \in Answers : Finish(r, "deleting", result)
      BY <2>9 DEF Delete, Answers
    <3>2. faults' \in Nat /\ faults' <= MaxFaults
      BY <2>9, FaultType DEF Delete
    <3>3. installed' \subseteq Models
      BY <2>9 DEF Delete, TypeOK
    <3>4. UNCHANGED <<backend, what, at, service, active, writer, last, key>>
      BY <2>9 DEF Delete, given, replicaVars
    <3> QED BY <3>1, <3>2, <3>3, <3>4, FinishType DEF TypeOK
  <2>10. CASE Recovered(r)
    BY <2>10, WhatType, ModelAssumption DEF TypeOK, Recovered, given, replicaVars, Finish, Goto, Stages, Answers
  <2>11. CASE Accept(r)
    BY <2>11, WhatType, ModelAssumption DEF TypeOK, Accept, given, replicaVars, Goto, Stages
  <2>12. CASE Downloaded(r)
    BY <2>12, WhatType, ModelAssumption DEF TypeOK, Downloaded, given, replicaVars, Finish, Goto, Stages, Answers
  <2>13. CASE NotDownloaded(r)
    <3>1. \E from : Finish(r, from, "failed")
      BY <2>13 DEF NotDownloaded
    <3>2. faults' \in Nat /\ faults' <= MaxFaults
      BY <2>13, FaultType DEF NotDownloaded
    <3>3. UNCHANGED <<backend, what, at, service, active, writer, last, installed, key>>
      BY <2>13 DEF NotDownloaded, given, replicaVars
    <3>4. "failed" \in Answers
      BY DEF Answers
    <3> QED BY <3>1, <3>2, <3>3, <3>4, FinishType DEF TypeOK
  <2>14. CASE Crash(r)
    BY <2>14, WhatType, ModelAssumption DEF TypeOK, Crash, given, Down, Stages, Answers
  <2>15. CASE StoreKey(r)
    BY <2>15, WhatType, ModelAssumption DEF TypeOK, StoreKey, given, replicaVars, Goto, Fault, Stages
  <2>16. CASE Lock(r)
    BY <2>16, WhatType, ModelAssumption DEF TypeOK, Lock, given, Goto, Stages
  <2>17. ASSUME NEW i \in {1, 2}, WriteWord(r, i) PROVE TypeOK'
    BY <2>17, WriteWordName, ModelAssumption DEF TypeOK, WriteWord, given, Goto, Stages
  <2>18. CASE Written(r)
    BY <2>18, WhatType, ModelAssumption DEF TypeOK, Written, given, replicaVars, Goto, Stages
  <2>19. CASE Unlock(r)
    BY <2>19, WhatType, ModelAssumption DEF TypeOK, Unlock, given, Finish, Goto, Stages, Answers
  <2> QED BY <1>3, <2>1, <2>2, <2>3, <2>4, <2>5, <2>6, <2>7, <2>8, <2>9, <2>10, <2>11, <2>12, <2>13, <2>14, <2>15, <2>16, <2>17, <2>18, <2>19 DEF Serve
<1>4. CASE UNCHANGED vars
  BY <1>4 DEF TypeOK, vars, given, replicaVars, requestVars
<1> QED BY <1>1, <1>2, <1>3, <1>4 DEF Next

\* A replica goes down only with its requests.
LEMMA ServiceStep == TypeOK /\ ServiceInv /\ [Next]_vars => ServiceInv'
<1> SUFFICES ASSUME TypeOK, ServiceInv, [Next]_vars PROVE ServiceInv'
  OBVIOUS
<1>1. ASSUME NEW p \in Replicas, Start(p) PROVE ServiceInv'
  BY <1>1 DEF Start, TypeOK, ServiceInv, Mine, given, requestVars
<1>2. ASSUME NEW p \in Replicas, Stop(p) PROVE ServiceInv'
  BY <1>2 DEF Stop, TypeOK, ServiceInv, Mine, Down, given
<1>3. ASSUME NEW r \in Requests, Serve(r) PROVE ServiceInv'
  <2>1. CASE Arrive(r)
    BY <2>1 DEF Arrive, TypeOK, ServiceInv, Mine, Goto, given, replicaVars
  <2>2. CASE Client(r)
    BY <2>2, WhatType DEF Client, TypeOK, ServiceInv, Mine, Goto, After, given, replicaVars
  <2>3. CASE NoService(r)
    BY <2>3 DEF NoService, TypeOK, ServiceInv, Mine, Finish, Goto, given, replicaVars
  <2>4. CASE ReadWord(r)
    BY <2>4 DEF ReadWord, TypeOK, ServiceInv, Mine, Goto, given, replicaVars
  <2>5. CASE SkipWords(r)
    BY <2>5 DEF SkipWords, TypeOK, ServiceInv, Mine, Goto, given, replicaVars
  <2>6. CASE Replies(r)
    BY <2>6 DEF Replies, TypeOK, ServiceInv, Mine, Finish, Goto, given, replicaVars
  <2>7. CASE Refuses(r)
    BY <2>7 DEF Refuses, TypeOK, ServiceInv, Mine, Finish, Goto, given, replicaVars
  <2>8. CASE List(r)
    BY <2>8 DEF List, TypeOK, ServiceInv, Mine, Finish, Goto, given, replicaVars
  <2>9. CASE Delete(r)
    BY <2>9 DEF Delete, TypeOK, ServiceInv, Mine, Finish, Goto, given, replicaVars
  <2>10. CASE Recovered(r)
    BY <2>10 DEF Recovered, TypeOK, ServiceInv, Mine, Finish, Goto, given, replicaVars
  <2>11. CASE Accept(r)
    BY <2>11 DEF Accept, TypeOK, ServiceInv, Mine, Goto, given, replicaVars
  <2>12. CASE Downloaded(r)
    BY <2>12 DEF Downloaded, TypeOK, ServiceInv, Mine, Finish, Goto, given, replicaVars
  <2>13. CASE NotDownloaded(r)
    BY <2>13 DEF NotDownloaded, TypeOK, ServiceInv, Mine, Finish, Goto, given, replicaVars
  <2>14. CASE Crash(r)
    BY <2>14 DEF Crash, TypeOK, ServiceInv, Mine, Down, given
  <2>15. CASE StoreKey(r)
    BY <2>15 DEF StoreKey, TypeOK, ServiceInv, Mine, Goto, given, replicaVars
  <2>16. CASE Lock(r)
    BY <2>16 DEF Lock, TypeOK, ServiceInv, Mine, Goto, given
  <2>17. ASSUME NEW i \in {1, 2}, WriteWord(r, i) PROVE ServiceInv'
    BY <2>17 DEF WriteWord, TypeOK, ServiceInv, Mine, Goto, given
  <2>18. CASE Written(r)
    BY <2>18 DEF Written, TypeOK, ServiceInv, Mine, Goto, given, replicaVars
  <2>19. CASE Unlock(r)
    BY <2>19 DEF Unlock, TypeOK, ServiceInv, Mine, Finish, Goto, given
  <2> QED BY <1>3, <2>1, <2>2, <2>3, <2>4, <2>5, <2>6, <2>7, <2>8, <2>9, <2>10, <2>11, <2>12, <2>13, <2>14, <2>15, <2>16, <2>17, <2>18, <2>19 DEF Serve
<1>4. CASE UNCHANGED vars
  BY <1>4 DEF TypeOK, ServiceInv, Mine, vars, given, replicaVars, requestVars
<1> QED BY <1>1, <1>2, <1>3, <1>4 DEF Next

\* A request that needs the client of a replica has passed the check that it has one.
LEMMA PanicStep == TypeOK /\ ServiceInv /\ PanicOnlyWithoutOllama /\ [Next]_vars => PanicOnlyWithoutOllama'
<1> SUFFICES ASSUME TypeOK, ServiceInv, PanicOnlyWithoutOllama, [Next]_vars PROVE PanicOnlyWithoutOllama'
  OBVIOUS
<1>1. ASSUME NEW p \in Replicas, Start(p) PROVE PanicOnlyWithoutOllama'
  BY <1>1 DEF Start, TypeOK, ServiceInv, PanicOnlyWithoutOllama, Mine, given, requestVars
<1>2. ASSUME NEW p \in Replicas, Stop(p) PROVE PanicOnlyWithoutOllama'
  BY <1>2 DEF Stop, TypeOK, ServiceInv, PanicOnlyWithoutOllama, Mine, Down, given
<1>3. ASSUME NEW r \in Requests, Serve(r) PROVE PanicOnlyWithoutOllama'
  <2>1. CASE Arrive(r)
    BY <2>1 DEF Arrive, TypeOK, ServiceInv, PanicOnlyWithoutOllama, Mine, Goto, given, replicaVars
  <2>2. CASE Client(r)
    BY <2>2 DEF Client, TypeOK, ServiceInv, PanicOnlyWithoutOllama, Mine, Goto, After, given, replicaVars
  <2>3. CASE NoService(r)
    BY <2>3 DEF NoService, TypeOK, ServiceInv, PanicOnlyWithoutOllama, Mine, Finish, Goto, given, replicaVars
  <2>4. CASE ReadWord(r)
    BY <2>4 DEF ReadWord, TypeOK, ServiceInv, PanicOnlyWithoutOllama, Mine, Goto, given, replicaVars
  <2>5. CASE SkipWords(r)
    BY <2>5 DEF SkipWords, TypeOK, ServiceInv, PanicOnlyWithoutOllama, Mine, Goto, given, replicaVars
  <2>6. CASE Replies(r)
    BY <2>6 DEF Replies, TypeOK, ServiceInv, PanicOnlyWithoutOllama, Mine, Finish, Goto, given, replicaVars
  <2>7. CASE Refuses(r)
    BY <2>7 DEF Refuses, TypeOK, ServiceInv, PanicOnlyWithoutOllama, Mine, Finish, Goto, given, replicaVars
  <2>8. CASE List(r)
    BY <2>8 DEF List, TypeOK, ServiceInv, PanicOnlyWithoutOllama, Mine, Finish, Goto, given, replicaVars
  <2>9. CASE Delete(r)
    BY <2>9 DEF Delete, TypeOK, ServiceInv, PanicOnlyWithoutOllama, Mine, Finish, Goto, given, replicaVars
  <2>10. CASE Recovered(r)
    BY <2>10 DEF Recovered, TypeOK, ServiceInv, PanicOnlyWithoutOllama, Mine, Finish, Goto, given, replicaVars
  <2>11. CASE Accept(r)
    BY <2>11 DEF Accept, TypeOK, ServiceInv, PanicOnlyWithoutOllama, Mine, Goto, given, replicaVars
  <2>12. CASE Downloaded(r)
    BY <2>12 DEF Downloaded, TypeOK, ServiceInv, PanicOnlyWithoutOllama, Mine, Finish, Goto, given, replicaVars
  <2>13. CASE NotDownloaded(r)
    BY <2>13 DEF NotDownloaded, TypeOK, ServiceInv, PanicOnlyWithoutOllama, Mine, Finish, Goto, given, replicaVars
  <2>14. CASE Crash(r)
    BY <2>14 DEF Crash, TypeOK, ServiceInv, PanicOnlyWithoutOllama, Mine, Down, given
  <2>15. CASE StoreKey(r)
    BY <2>15 DEF StoreKey, TypeOK, ServiceInv, PanicOnlyWithoutOllama, Mine, Goto, given, replicaVars
  <2>16. CASE Lock(r)
    BY <2>16 DEF Lock, TypeOK, ServiceInv, PanicOnlyWithoutOllama, Mine, Goto, given
  <2>17. ASSUME NEW i \in {1, 2}, WriteWord(r, i) PROVE PanicOnlyWithoutOllama'
    BY <2>17 DEF WriteWord, TypeOK, ServiceInv, PanicOnlyWithoutOllama, Mine, Goto, given
  <2>18. CASE Written(r)
    BY <2>18 DEF Written, TypeOK, ServiceInv, PanicOnlyWithoutOllama, Mine, Goto, given, replicaVars
  <2>19. CASE Unlock(r)
    BY <2>19 DEF Unlock, TypeOK, ServiceInv, PanicOnlyWithoutOllama, Mine, Finish, Goto, given
  <2> QED BY <1>3, <2>1, <2>2, <2>3, <2>4, <2>5, <2>6, <2>7, <2>8, <2>9, <2>10, <2>11, <2>12, <2>13, <2>14, <2>15, <2>16, <2>17, <2>18, <2>19 DEF Serve
<1>4. CASE UNCHANGED vars
  BY <1>4 DEF TypeOK, ServiceInv, PanicOnlyWithoutOllama, Mine, vars, given, replicaVars, requestVars
<1> QED BY <1>1, <1>2, <1>3, <1>4 DEF Next

\* The lock is taken by one switch at a time.
LEMMA LockStep == TypeOK /\ ServiceInv /\ LockInv /\ [Next]_vars => LockInv'
<1> SUFFICES ASSUME TypeOK, ServiceInv, LockInv, [Next]_vars PROVE LockInv'
  OBVIOUS
<1>1. ASSUME NEW p \in Replicas, Start(p) PROVE LockInv'
  BY <1>1, ModelAssumption DEF Start, TypeOK, ServiceInv, LockInv, Mine, given, requestVars
<1>2. ASSUME NEW p \in Replicas, Stop(p) PROVE LockInv'
  BY <1>2, ModelAssumption DEF Stop, TypeOK, ServiceInv, LockInv, Mine, Down, given
<1>3. ASSUME NEW r \in Requests, Serve(r) PROVE LockInv'
  <2>1. CASE Arrive(r)
    BY <2>1 DEF Arrive, TypeOK, ServiceInv, LockInv, Mine, Goto, given, replicaVars
  <2>2. CASE Client(r)
    BY <2>2 DEF Client, TypeOK, ServiceInv, LockInv, Mine, Goto, After, given, replicaVars
  <2>3. CASE NoService(r)
    BY <2>3 DEF NoService, TypeOK, ServiceInv, LockInv, Mine, Finish, Goto, given, replicaVars
  <2>4. CASE ReadWord(r)
    BY <2>4 DEF ReadWord, TypeOK, ServiceInv, LockInv, Mine, Goto, given, replicaVars
  <2>5. CASE SkipWords(r)
    BY <2>5 DEF SkipWords, TypeOK, ServiceInv, LockInv, Mine, Goto, given, replicaVars
  <2>6. CASE Replies(r)
    BY <2>6 DEF Replies, TypeOK, ServiceInv, LockInv, Mine, Finish, Goto, given, replicaVars
  <2>7. CASE Refuses(r)
    BY <2>7 DEF Refuses, TypeOK, ServiceInv, LockInv, Mine, Finish, Goto, given, replicaVars
  <2>8. CASE List(r)
    <3>1. stage' = [stage EXCEPT ![r] = "done"]
      BY <2>8 DEF List, Finish, Goto
    <3>2. UNCHANGED <<what, at, service, writer, last>>
      BY <2>8 DEF List, given, replicaVars
    <3>3. stage[r] \notin {"writing", "unlocking"}
      BY <2>8 DEF List, Finish, Goto
    <3>4. stage'[r] = "done" /\ \A q \in Requests \ {r} : stage'[q] = stage[q]
      BY <3>1 DEF TypeOK
    <3>5. \A p \in Replicas : writer[p] # Nobody => writer[p] \in Requests
      BY DEF TypeOK
    <3> QED BY <3>2, <3>3, <3>4, <3>5 DEF LockInv
  <2>9. CASE Delete(r)
    <3>1. stage' = [stage EXCEPT ![r] = "done"]
      BY <2>9 DEF Delete, Finish, Goto
    <3>2. UNCHANGED <<what, at, service, writer, last>>
      BY <2>9 DEF Delete, given, replicaVars
    <3>3. stage[r] \notin {"writing", "unlocking"}
      BY <2>9 DEF Delete, Finish, Goto
    <3>4. stage'[r] = "done" /\ \A q \in Requests \ {r} : stage'[q] = stage[q]
      BY <3>1 DEF TypeOK
    <3>5. \A p \in Replicas : writer[p] # Nobody => writer[p] \in Requests
      BY DEF TypeOK
    <3> QED BY <3>2, <3>3, <3>4, <3>5 DEF LockInv
  <2>10. CASE Recovered(r)
    BY <2>10 DEF Recovered, TypeOK, ServiceInv, LockInv, Mine, Finish, Goto, given, replicaVars
  <2>11. CASE Accept(r)
    BY <2>11 DEF Accept, TypeOK, ServiceInv, LockInv, Mine, Goto, given, replicaVars
  <2>12. CASE Downloaded(r)
    BY <2>12 DEF Downloaded, TypeOK, ServiceInv, LockInv, Mine, Finish, Goto, given, replicaVars
  <2>13. CASE NotDownloaded(r)
    <3>1. stage' = [stage EXCEPT ![r] = "done"]
      BY <2>13 DEF NotDownloaded, Finish, Goto
    <3>2. UNCHANGED <<what, at, service, writer, last>>
      BY <2>13 DEF NotDownloaded, given, replicaVars
    <3>3. stage[r] \notin {"writing", "unlocking"}
      BY <2>13 DEF NotDownloaded, Finish, Goto
    <3>4. stage'[r] = "done" /\ \A q \in Requests \ {r} : stage'[q] = stage[q]
      BY <3>1 DEF TypeOK
    <3>5. \A p \in Replicas : writer[p] # Nobody => writer[p] \in Requests
      BY DEF TypeOK
    <3> QED BY <3>2, <3>3, <3>4, <3>5 DEF LockInv
  <2>14. CASE Crash(r)
    BY <2>14, ModelAssumption DEF Crash, TypeOK, ServiceInv, LockInv, Mine, Down, given
  <2>15. CASE StoreKey(r)
    BY <2>15 DEF StoreKey, TypeOK, ServiceInv, LockInv, Mine, Goto, given, replicaVars
  <2>16. CASE Lock(r)
    BY <2>16, ModelAssumption DEF Lock, TypeOK, ServiceInv, LockInv, Mine, Goto, given
  <2>17. ASSUME NEW i \in {1, 2}, WriteWord(r, i) PROVE LockInv'
    BY <2>17 DEF WriteWord, TypeOK, ServiceInv, LockInv, Mine, Goto, given
  <2>18. CASE Written(r)
    BY <2>18 DEF Written, TypeOK, ServiceInv, LockInv, Mine, Goto, given, replicaVars
  <2>19. CASE Unlock(r)
    BY <2>19, ModelAssumption DEF Unlock, TypeOK, ServiceInv, LockInv, Mine, Finish, Goto, given
  <2> QED BY <1>3, <2>1, <2>2, <2>3, <2>4, <2>5, <2>6, <2>7, <2>8, <2>9, <2>10, <2>11, <2>12, <2>13, <2>14, <2>15, <2>16, <2>17, <2>18, <2>19 DEF Serve
<1>4. CASE UNCHANGED vars
  BY <1>4 DEF TypeOK, ServiceInv, LockInv, Mine, vars, given, replicaVars, requestVars
<1> QED BY <1>1, <1>2, <1>3, <1>4 DEF Next

\* The name changes under the lock only.
LEMMA NameStep == TypeOK /\ ServiceInv /\ LockInv /\ NameInv /\ [Next]_vars => NameInv'
<1> SUFFICES ASSUME TypeOK, ServiceInv, LockInv, NameInv, [Next]_vars PROVE NameInv'
  OBVIOUS
<1>1. ASSUME NEW p \in Replicas, Start(p) PROVE NameInv'
  BY <1>1 DEF Start, TypeOK, ServiceInv, LockInv, NameInv, LastSwitchWins, Mine, given, requestVars
<1>2. ASSUME NEW p \in Replicas, Stop(p) PROVE NameInv'
  BY <1>2 DEF Stop, TypeOK, ServiceInv, LockInv, NameInv, LastSwitchWins, Mine, Down, given
<1>3. ASSUME NEW r \in Requests, Serve(r) PROVE NameInv'
  <2>1. CASE Arrive(r)
    BY <2>1 DEF Arrive, TypeOK, ServiceInv, LockInv, NameInv, LastSwitchWins, Mine, Goto, given, replicaVars
  <2>2. CASE Client(r)
    BY <2>2 DEF Client, TypeOK, ServiceInv, LockInv, NameInv, LastSwitchWins, Mine, Goto, After, given, replicaVars
  <2>3. CASE NoService(r)
    BY <2>3 DEF NoService, TypeOK, ServiceInv, LockInv, NameInv, LastSwitchWins, Mine, Finish, Goto, given, replicaVars
  <2>4. CASE ReadWord(r)
    BY <2>4 DEF ReadWord, TypeOK, ServiceInv, LockInv, NameInv, LastSwitchWins, Mine, Goto, given, replicaVars
  <2>5. CASE SkipWords(r)
    BY <2>5 DEF SkipWords, TypeOK, ServiceInv, LockInv, NameInv, LastSwitchWins, Mine, Goto, given, replicaVars
  <2>6. CASE Replies(r)
    BY <2>6 DEF Replies, TypeOK, ServiceInv, LockInv, NameInv, LastSwitchWins, Mine, Finish, Goto, given, replicaVars
  <2>7. CASE Refuses(r)
    BY <2>7 DEF Refuses, TypeOK, ServiceInv, LockInv, NameInv, LastSwitchWins, Mine, Finish, Goto, given, replicaVars
  <2>8. CASE List(r)
    BY <2>8 DEF List, TypeOK, ServiceInv, LockInv, NameInv, LastSwitchWins, Mine, Finish, Goto, given, replicaVars
  <2>9. CASE Delete(r)
    BY <2>9 DEF Delete, TypeOK, ServiceInv, LockInv, NameInv, LastSwitchWins, Mine, Finish, Goto, given, replicaVars
  <2>10. CASE Recovered(r)
    BY <2>10 DEF Recovered, TypeOK, ServiceInv, LockInv, NameInv, LastSwitchWins, Mine, Finish, Goto, given, replicaVars
  <2>11. CASE Accept(r)
    BY <2>11 DEF Accept, TypeOK, ServiceInv, LockInv, NameInv, LastSwitchWins, Mine, Goto, given, replicaVars
  <2>12. CASE Downloaded(r)
    BY <2>12 DEF Downloaded, TypeOK, ServiceInv, LockInv, NameInv, LastSwitchWins, Mine, Finish, Goto, given, replicaVars
  <2>13. CASE NotDownloaded(r)
    BY <2>13 DEF NotDownloaded, TypeOK, ServiceInv, LockInv, NameInv, LastSwitchWins, Mine, Finish, Goto, given, replicaVars
  <2>14. CASE Crash(r)
    BY <2>14 DEF Crash, TypeOK, ServiceInv, LockInv, NameInv, LastSwitchWins, Mine, Down, given
  <2>15. CASE StoreKey(r)
    BY <2>15 DEF StoreKey, TypeOK, ServiceInv, LockInv, NameInv, LastSwitchWins, Mine, Goto, given, replicaVars
  <2>16. CASE Lock(r)
    <3>1. /\ UNCHANGED <<what, at, service, active>>
          /\ stage[r] = "locking" /\ writer[at[r]] = Nobody
          /\ \A q \in Requests \ {r} : stage'[q] = stage[q]
          /\ stage'[r] = "unlocking" => service[at[r]] # "ollama"
          /\ writer'[at[r]] # Nobody
          /\ \A p \in Replicas \ {at[r]} : writer'[p] = writer[p] /\ last'[p] = last[p]
      BY <2>16, ModelAssumption DEF Lock, TypeOK, Goto, Mine, given
    <3>2. LastSwitchWins'
      BY <3>1 DEF TypeOK, NameInv, LastSwitchWins
    <3>3. ASSUME NEW q \in Requests, stage'[q] = "unlocking", service[at[q]] = "ollama"
          PROVE  active[at[q]] = <<last'[at[q]], last'[at[q]]>>
      <4>1. q # r /\ stage[q] = "unlocking"
        BY <3>1, <3>3
      <4>2. at[q] # at[r] /\ at[q] \in Replicas
        <5>1. at[q] \in Replicas /\ q # Nobody
          BY ModelAssumption DEF TypeOK
        <5>2. writer[at[q]] = q
          BY <3>3, <4>1 DEF LockInv
        <5> QED BY <3>1, <5>1, <5>2
      <4> QED BY <3>1, <3>3, <4>1, <4>2 DEF NameInv
    <3> QED BY <3>1, <3>2, <3>3 DEF NameInv
  <2>17. ASSUME NEW i \in {1, 2}, WriteWord(r, i) PROVE NameInv'
    BY <2>17, WriteWordName, ModelAssumption DEF WriteWord, TypeOK, ServiceInv, LockInv, NameInv, LastSwitchWins, Mine, Goto, given
  <2>18. CASE Written(r)
    BY <2>18 DEF Written, TypeOK, ServiceInv, LockInv, NameInv, LastSwitchWins, Mine, Goto, given, replicaVars
  <2>19. CASE Unlock(r)
    BY <2>19 DEF Unlock, TypeOK, ServiceInv, LockInv, NameInv, LastSwitchWins, Mine, Finish, Goto, given
  <2> QED BY <1>3, <2>1, <2>2, <2>3, <2>4, <2>5, <2>6, <2>7, <2>8, <2>9, <2>10, <2>11, <2>12, <2>13, <2>14, <2>15, <2>16, <2>17, <2>18, <2>19 DEF Serve
<1>4. CASE UNCHANGED vars
  BY <1>4 DEF TypeOK, ServiceInv, LockInv, NameInv, LastSwitchWins, Mine, vars, given, replicaVars, requestVars
<1> QED BY <1>1, <1>2, <1>3, <1>4 DEF Next

\* A request reads the words of the name in turn; who writes between two of them disturbs it.
LEMMA LabelStep == TypeOK /\ ServiceInv /\ LabelInv /\ [Next]_vars => LabelInv'
<1> SUFFICES ASSUME TypeOK, ServiceInv, LabelInv, [Next]_vars PROVE LabelInv'
  OBVIOUS
<1>1. ASSUME NEW p \in Replicas, Start(p) PROVE LabelInv'
  BY <1>1 DEF Start, TypeOK, ServiceInv, LabelInv, Mine, given, requestVars
<1>2. ASSUME NEW p \in Replicas, Stop(p) PROVE LabelInv'
  BY <1>2 DEF Stop, TypeOK, ServiceInv, LabelInv, Mine, Down, given
<1>3. ASSUME NEW r \in Requests, Serve(r) PROVE LabelInv'
  <2>1. CASE Arrive(r)
    BY <2>1 DEF Arrive, TypeOK, ServiceInv, LabelInv, Mine, Goto, given, replicaVars
  <2>2. CASE Client(r)
    BY <2>2, WhatType DEF Client, TypeOK, ServiceInv, LabelInv, Mine, Goto, After, WordsOf, given, replicaVars
  <2>3. CASE NoService(r)
    BY <2>3 DEF NoService, TypeOK, ServiceInv, LabelInv, Mine, Finish, Goto, given, replicaVars
  <2>4. CASE ReadWord(r)
    <3> DEFINE n == Len(words[r])
              w == active[at[r]][1 + (n % 2)]
    <3>1. n \in Nat /\ n <= 3 /\ words[r] \in Seq(Models) /\ stage[r] = "reading"
      <4>1. stage[r] = "reading" /\ words[r] \in Seq(Models)
        BY <2>4 DEF ReadWord, Goto, TypeOK
      <4>2. n < WordsOf(what[r].op)
        BY <4>1 DEF LabelInv
      <4> QED BY <4>1, <4>2 DEF WordsOf
    <3>2. words' = [words EXCEPT ![r] = Append(words[r], w)]
      BY <2>4 DEF ReadWord, TypeOK
    <3>3. /\ UNCHANGED <<what, at, active, disturbed>>
          /\ stage' = [stage EXCEPT ![r] = IF n + 1 = WordsOf(what[r].op) THEN "waiting" ELSE "reading"]
      BY <2>4 DEF ReadWord, Goto, given, replicaVars
    <3>4. words'[r] = Append(words[r], w) /\ \A q \in Requests \ {r} : words'[q] = words[q] /\ stage'[q] = stage[q]
      BY <3>2, <3>3 DEF TypeOK
    <3>5. w = active[at[r]][IF n + 1 \in {1, 3} THEN 1 ELSE 2]
      <4>1. \A k \in Nat : k <= 3 => 1 + (k % 2) = IF k + 1 \in {1, 3} THEN 1 ELSE 2
        OBVIOUS
      <4>2. 1 + (n % 2) = IF n + 1 \in {1, 3} THEN 1 ELSE 2
        BY <3>1, <4>1
      <4> QED BY <4>2
    <3> HIDE DEF w
    <3>6. w \in Models
      <4>1. at[r] \in Replicas /\ active[at[r]] \in Models \X Models
        BY DEF TypeOK
      <4> QED BY <3>5, <4>1
    <3>7. /\ Len(words'[r]) = n + 1
          /\ \A i \in 1..n : words'[r][i] = words[r][i]
          /\ words'[r][n + 1] = w
      BY <3>1, <3>4, <3>6
    <3>8. /\ stage'[r] \in {"waiting", "reading"}
          /\ stage'[r] = "reading" => n + 1 # WordsOf(what[r].op)
          /\ n < WordsOf(what[r].op) /\ WordsOf(what[r].op) \in Nat
      BY <3>1, <3>3 DEF TypeOK, LabelInv, WordsOf
    <3>9. ASSUME r \notin disturbed, NEW i \in 1..(n + 1)
          PROVE  words'[r][i] = active[at[r]][IF i \in {1, 3} THEN 1 ELSE 2]
      <4>1. CASE i = n + 1
        BY <4>1, <3>5, <3>7
      <4>2. CASE i # n + 1
        <5>1. i \in 1..n /\ i \in DOMAIN words[r]
          BY <4>2, <3>1
        <5> QED BY <5>1, <3>1, <3>7, <3>9 DEF LabelInv
      <4> QED BY <4>1, <4>2
    <3>10. ASSUME r \notin disturbed, n + 1 = 4
           PROVE  words'[r][1] = words'[r][3] /\ words'[r][2] = words'[r][4]
      BY <3>9, <3>10
    <3>11. words'[r] \in Seq(Models) /\ DOMAIN words'[r] = 1..(n + 1)
      BY <3>1, <3>4, <3>6, <3>7
    <3> HIDE DEF n
    <3>12. UNCHANGED <<what, at, active, disturbed>>
      BY <3>3
    <3>13. stage'[r] \notin {"new", "client"}
      BY <3>8
    <3> DEFINE L(q) ==
          /\ stage[q] \in {"new", "client"} => words[q] = <<>>
          /\ stage[q] = "reading" => Len(words[q]) < WordsOf(what[q].op)
          /\ q \notin disturbed /\ stage[q] = "reading" =>
               \A i \in DOMAIN words[q] : words[q][i] = active[at[q]][IF i \in {1, 3} THEN 1 ELSE 2]
          /\ q \notin disturbed /\ Len(words[q]) = 4 =>
               words[q][1] = words[q][3] /\ words[q][2] = words[q][4]
    <3>14. ASSUME NEW q \in Requests \ {r} PROVE L(q)'
      BY <3>4, <3>12 DEF LabelInv
    <3>15. L(r)'
      <4>1. n + 1 # WordsOf(what[r].op) => n + 1 < WordsOf(what[r].op)
        BY <3>1, <3>8
      <4> QED BY <4>1, <3>7, <3>8, <3>9, <3>10, <3>11, <3>12, <3>13
    <3> HIDE DEF L
    <3>16. \A q \in Requests : L(q)'
      BY <3>14, <3>15
    <3> QED BY <3>16 DEF LabelInv, L
  <2>5. CASE SkipWords(r)
    BY <2>5 DEF SkipWords, TypeOK, ServiceInv, LabelInv, Mine, Goto, given, replicaVars
  <2>6. CASE Replies(r)
    BY <2>6 DEF Replies, TypeOK, ServiceInv, LabelInv, Mine, Finish, Goto, given, replicaVars
  <2>7. CASE Refuses(r)
    BY <2>7 DEF Refuses, TypeOK, ServiceInv, LabelInv, Mine, Finish, Goto, given, replicaVars
  <2>8. CASE List(r)
    BY <2>8 DEF List, TypeOK, ServiceInv, LabelInv, Mine, Finish, Goto, given, replicaVars
  <2>9. CASE Delete(r)
    BY <2>9 DEF Delete, TypeOK, ServiceInv, LabelInv, Mine, Finish, Goto, given, replicaVars
  <2>10. CASE Recovered(r)
    BY <2>10 DEF Recovered, TypeOK, ServiceInv, LabelInv, Mine, Finish, Goto, given, replicaVars
  <2>11. CASE Accept(r)
    BY <2>11 DEF Accept, TypeOK, ServiceInv, LabelInv, Mine, Goto, given, replicaVars
  <2>12. CASE Downloaded(r)
    BY <2>12 DEF Downloaded, TypeOK, ServiceInv, LabelInv, Mine, Finish, Goto, given, replicaVars
  <2>13. CASE NotDownloaded(r)
    BY <2>13 DEF NotDownloaded, TypeOK, ServiceInv, LabelInv, Mine, Finish, Goto, given, replicaVars
  <2>14. CASE Crash(r)
    BY <2>14 DEF Crash, TypeOK, ServiceInv, LabelInv, Mine, Down, given
  <2>15. CASE StoreKey(r)
    BY <2>15 DEF StoreKey, TypeOK, ServiceInv, LabelInv, Mine, Goto, given, replicaVars
  <2>16. CASE Lock(r)
    BY <2>16 DEF Lock, TypeOK, ServiceInv, LabelInv, Mine, Goto, given
  <2>17. ASSUME NEW i \in {1, 2}, WriteWord(r, i) PROVE LabelInv'
    BY <2>17, WriteWordName DEF WriteWord, TypeOK, ServiceInv, LabelInv, Mine, Goto, given
  <2>18. CASE Written(r)
    BY <2>18 DEF Written, TypeOK, ServiceInv, LabelInv, Mine, Goto, given, replicaVars
  <2>19. CASE Unlock(r)
    BY <2>19 DEF Unlock, TypeOK, ServiceInv, LabelInv, Mine, Finish, Goto, given
  <2> QED BY <1>3, <2>1, <2>2, <2>3, <2>4, <2>5, <2>6, <2>7, <2>8, <2>9, <2>10, <2>11, <2>12, <2>13, <2>14, <2>15, <2>16, <2>17, <2>18, <2>19 DEF Serve
<1>4. CASE UNCHANGED vars
  BY <1>4 DEF TypeOK, ServiceInv, LabelInv, Mine, vars, given, replicaVars, requestVars
<1> QED BY <1>1, <1>2, <1>3, <1>4 DEF Next

-----------------------------------------------------------------------------
\* The invariant holds in every reachable state.
THEOREM Invariance == Spec => []IInv
<1>1. Init => IInv
  BY InitInv
<1>2. IInv /\ [Next]_vars => IInv'
  BY TypeStep, ServiceStep, PanicStep, LockStep, NameStep, LabelStep DEF IInv
<1> QED BY <1>1, <1>2, PTL DEF Spec

\* The state always has its types: handlers/models.go and ai/ never read more of a name than they ask.
THEOREM TypeCorrect == Spec => []TypeOK
BY Invariance, PTL DEF IInv

\* SetModel's lock: the switch that takes the lock last decides what a replica asks.
THEOREM SwitchesSerialized == Spec => []LastSwitchWins
<1>1. IInv => LastSwitchWins
  BY DEF IInv, NameInv
<1> QED BY <1>1, Invariance, PTL

\* The label of a diagnosis is the model that was asked, unless a switch wrote in between.
THEOREM LabelCorrect == Spec => []LabelFitsModel
<1>1. IInv => LabelFitsModel
  <2> SUFFICES ASSUME IInv, NEW r \in Requests, Len(words[r]) = 4, r \notin disturbed
               PROVE  SubSeq(words[r], 1, 2) = Asked(r)
    BY DEF LabelFitsModel
  <2>1. words[r] \in Seq(Models) /\ words[r][1] = words[r][3] /\ words[r][2] = words[r][4]
    BY DEF IInv, TypeOK, LabelInv
  <2>2. Asked(r) = SubSeq(words[r], 3, 4)
    BY DEF Asked
  <2> QED BY <2>1, <2>2
<1> QED BY <1>1, Invariance, PTL

\* getOllamaClient's check: with Ollama as backend no request meets a nil client.
THEOREM PanicsExplained == Spec => []PanicOnlyWithoutOllama
BY Invariance, PTL DEF IInv
=============================================================================
