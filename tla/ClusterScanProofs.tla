-------------------------- MODULE ClusterScanProofs --------------------------
(***************************************************************************)
(* TLAPS proofs about ClusterScan, for every family of objects, and every  *)
(* number of changes and failures during a scan.                           *)
(***************************************************************************)
EXTENDS ClusterScan, FiniteSetTheorems, TLAPS

-----------------------------------------------------------------------------
(***************************************************************************)
(* What the analyzers return.                                              *)
(***************************************************************************)

\* Every finding weighs as one of the three severities, or is a fact of the snapshot.
Weighed(F) == \A f \in F : f.severity \in Severities

\* An issue has the severity it is made with.
LEMMA IssueSeverity ==
  ASSUME NEW a, NEW o, NEW type, NEW part
  PROVE  /\ Issue(a, o, type, "critical", part).severity = "critical"
         /\ Issue(a, o, type, "warning", part).severity = "warning"
         /\ Issue(a, o, type, "info", part).severity = "info"
         /\ Issue(a, o, type, "none", part).severity = "none"
BY DEF Issue

LEMMA IssueWeighed ==
  ASSUME NEW a, NEW o, NEW type, NEW part
  PROVE  /\ Weighed({Issue(a, o, type, "critical", part)})
         /\ Weighed({Issue(a, o, type, "warning", part)})
         /\ Weighed({Issue(a, o, type, "info", part)})
         /\ Weighed({Issue(a, o, type, "none", part)})
<1> HIDE DEF Issue
<1> QED BY IssueSeverity DEF Weighed, Severities

LEMMA NoneWeighed == Weighed({})
BY DEF Weighed

\* An issue under a condition.
LEMMA WhenWeighed ==
  ASSUME NEW a, NEW o, NEW type, NEW part, NEW c
  PROVE  /\ Weighed(When(c, Issue(a, o, type, "critical", part)))
         /\ Weighed(When(c, Issue(a, o, type, "warning", part)))
         /\ Weighed(When(c, Issue(a, o, type, "info", part)))
         /\ Weighed(When(c, Issue(a, o, type, "none", part)))
BY IssueWeighed, NoneWeighed DEF When

\* Two sets of findings, and many.
LEMMA BothWeighed ==
  ASSUME NEW F, NEW G, Weighed(F), Weighed(G) PROVE Weighed(F \union G)
BY DEF Weighed

LEMMA AllWeighed ==
  ASSUME NEW FF, \A F \in FF : Weighed(F) PROVE Weighed(UNION FF)
BY DEF Weighed

\* Each analyzer.
LEMMA AnalyzersWeighed ==
  ASSUME NEW o, NEW S
  PROVE  /\ Weighed(DeploymentAnalyzer(o))
         /\ Weighed(StatefulSetAnalyzer(o))
         /\ Weighed(RSAnalyzer(o))
         /\ Weighed(JobAnalyzer(o))
         /\ Weighed(CronJobAnalyzer(o))
         /\ Weighed(HPAAnalyzer(o))
         /\ Weighed(PDBAnalyzer(o))
         /\ Weighed(NodeAnalyzer(o))
         /\ Weighed(AnalyzeNode(o))
         /\ Weighed(PVCAnalyzer(o))
         /\ Weighed(StorageAnalyzer(o))
         /\ Weighed(NetworkPolicyAnalyzer(o, S))
         /\ Weighed(IngressAnalyzer(o))
         /\ Weighed(GatewayAnalyzers(o))
         /\ Weighed(EventAnalyzer(o, S))
         /\ Weighed(AnalyzeEvent(o, S))
         /\ Weighed(OLMAnalyzer(o))
         /\ Weighed(PodAnalyzer(o))
         /\ Weighed(AnalyzePod(o))
         /\ Weighed(SecurityAnalyzer(o))
         /\ Weighed(SnapshotFacts(o))
<1>1. Weighed(DeploymentAnalyzer(o))
  BY IssueWeighed, WhenWeighed, NoneWeighed, BothWeighed DEF DeploymentAnalyzer
<1>2. Weighed(StatefulSetAnalyzer(o))
  BY IssueWeighed, WhenWeighed, NoneWeighed, BothWeighed DEF StatefulSetAnalyzer
<1>3. Weighed(RSAnalyzer(o))
  BY IssueWeighed, WhenWeighed, NoneWeighed, BothWeighed DEF RSAnalyzer
<1>4. Weighed(JobAnalyzer(o))
  BY IssueWeighed, WhenWeighed, NoneWeighed, BothWeighed DEF JobAnalyzer
<1>5. Weighed(CronJobAnalyzer(o))
  BY WhenWeighed DEF Weighed, CronJobAnalyzer
<1>6. Weighed(HPAAnalyzer(o))
  BY IssueWeighed, WhenWeighed, NoneWeighed, BothWeighed DEF HPAAnalyzer
<1>7. Weighed(PDBAnalyzer(o))
  BY IssueWeighed, WhenWeighed, NoneWeighed, BothWeighed DEF PDBAnalyzer
<1>8. Weighed(NodeAnalyzer(o))
  BY WhenWeighed DEF Weighed, NodeAnalyzer
<1>9. Weighed(AnalyzeNode(o))
  BY IssueWeighed, WhenWeighed, NoneWeighed, BothWeighed DEF AnalyzeNode
<1>10. Weighed(PVCAnalyzer(o))
  BY IssueWeighed, WhenWeighed, NoneWeighed, BothWeighed DEF PVCAnalyzer
<1>11. Weighed(StorageAnalyzer(o))
  BY IssueWeighed, WhenWeighed, NoneWeighed, BothWeighed DEF StorageAnalyzer
<1>12. Weighed(NetworkPolicyAnalyzer(o, S))
  BY IssueWeighed, WhenWeighed, NoneWeighed, BothWeighed DEF NetworkPolicyAnalyzer
<1>13. Weighed(IngressAnalyzer(o))
  BY IssueWeighed, WhenWeighed, NoneWeighed, BothWeighed DEF IngressAnalyzer
<1>14. Weighed(GatewayAnalyzers(o))
  BY IssueWeighed, WhenWeighed, NoneWeighed, BothWeighed DEF GatewayAnalyzers
<1>15. Weighed(EventAnalyzer(o, S))
  BY IssueWeighed, WhenWeighed, NoneWeighed, BothWeighed DEF EventAnalyzer, EventIssue
<1>16. Weighed(AnalyzeEvent(o, S))
  BY IssueWeighed, WhenWeighed, NoneWeighed, BothWeighed DEF AnalyzeEvent, EventIssue
<1>17. Weighed(OLMAnalyzer(o))
  BY IssueWeighed, WhenWeighed, NoneWeighed, BothWeighed DEF OLMAnalyzer
<1>18. Weighed(PodAnalyzer(o))
  BY IssueWeighed, WhenWeighed, NoneWeighed DEF PodAnalyzer, Weighed
<1>19. Weighed(AnalyzePod(o))
  BY IssueWeighed, WhenWeighed, NoneWeighed DEF AnalyzePod, Weighed
<1>20. Weighed(SecurityAnalyzer(o))
  <2>1. ASSUME NEW c PROVE Weighed(SecurityOf(o, c))
    BY WhenWeighed, IssueSeverity DEF SecurityOf, Weighed, Severities
  <2>2. Weighed(UNION {SecurityOf(o, c) : c \in o.containers})
    BY <2>1 DEF Weighed
  <2> QED BY <2>2, WhenWeighed, BothWeighed DEF SecurityAnalyzer
<1>21. Weighed(SnapshotFacts(o))
  BY IssueWeighed, WhenWeighed, NoneWeighed DEF SnapshotFacts, PodCollector, DeploymentCollector, NamespaceCollector, Fact, Weighed
<1> QED BY <1>1, <1>2, <1>3, <1>4, <1>5, <1>6, <1>7, <1>8, <1>9, <1>10, <1>11, <1>12, <1>13, <1>14, <1>15, <1>16, <1>17, <1>18, <1>19, <1>20, <1>21

LEMMA DirectWeighed == ASSUME NEW a, NEW o, NEW S PROVE Weighed(Direct(a, o, S))
BY NoneWeighed, AnalyzersWeighed DEF Direct

LEMMA MissingWeighed == ASSUME NEW a, NEW o, NEW ref PROVE Weighed(OnMissing(a, o, ref))
BY IssueWeighed, WhenWeighed, NoneWeighed DEF OnMissing

LEMMA FoundWeighed == ASSUME NEW a, NEW o, NEW ref, NEW t PROVE Weighed(OnFound(a, o, ref, t))
<1>1. Weighed(ServiceAnalyzer(o, t))
  BY WhenWeighed, BothWeighed DEF ServiceAnalyzer
<1>2. ASSUME NEW c, NEW p PROVE Weighed(LogIssue(o, c, p))
  BY IssueWeighed, NoneWeighed DEF LogIssue
<1>3. ASSUME NEW c PROVE Weighed(UNION {LogIssue(o, c.name, p) : p \in c.log})
  BY <1>2 DEF Weighed
<1>4. Weighed(UNION {UNION {LogIssue(o, c.name, p) : p \in c.log} : c \in {d \in t.containers : d.name = ref.part}})
  BY <1>3 DEF Weighed
<1>5. \A type : Weighed({Fact("Namespace", o.ns, o.name, type, Empty)})
  BY IssueWeighed DEF Fact
<1> QED BY <1>1, <1>4, <1>5, NoneWeighed DEF OnFound

LEMMA AnswerWeighed == ASSUME NEW a, NEW o, NEW ref, NEW S PROVE Weighed(Answer(a, o, ref, S))
BY MissingWeighed, FoundWeighed DEF Answer, Weighed

\* Every reader has a list of kinds.
LEMMA ListingsType == \A a \in DOMAIN Listings : Len(Listings[a]) \in Nat
BY DEF Listings
-----------------------------------------------------------------------------
(***************************************************************************)
(* Types.                                                                  *)
(***************************************************************************)

\* Every step keeps the types, and the findings weighed.
LEMMA TypeStep == TypeOK /\ [Next]_vars => TypeOK'
<1> SUFFICES ASSUME TypeOK, [Next]_vars PROVE TypeOK'
  OBVIOUS
<1> USE ScanAssumption
<1>1. reader \in DOMAIN Listings /\ Len(Listings[reader]) \in Nat
  BY ListingsType DEF TypeOK
<1>2. ASSUME NEW S, Become(S), S \subseteq world PROVE TypeOK'
  BY <1>2 DEF TypeOK, Become, scanVars
<1>3. CASE Appear
  BY <1>2, <1>3 DEF Appear, TypeOK
<1>4. CASE Disappear
  BY <1>2, <1>4 DEF Disappear, TypeOK
<1>5. CASE Update
  BY <1>2, <1>5 DEF Update, TypeOK
<1>6. CASE List
  <2>1. next' \in Nat /\ next' >= 1 /\ next' <= Len(Listings[reader]) + 1
    BY <1>1, <1>6 DEF List, MayList, TypeOK
  <2>2. todo' \subseteq cluster
    BY <1>6 DEF List
  <2>3. UNCHANGED <<world, cluster, reader, past, refs, found, result, lost, health, changes, faults>>
    BY <1>6 DEF List, Scanning, pastVars
  <2> QED BY <2>1, <2>2, <2>3 DEF TypeOK
<1>7. CASE ListFails
  <2>1. next' \in Nat /\ next' >= 1 /\ next' <= Len(Listings[reader]) + 1
    BY <1>1, <1>7 DEF ListFails, MayList, TypeOK
  <2>2. found' \in {{}, found} /\ result' \in {"running", "ok", "error", "panic"} /\ lost' \in BOOLEAN
    BY <1>7 DEF ListFails, TypeOK
  <2>3. faults' \in Nat /\ faults' <= MaxFaults
    BY <1>7 DEF ListFails, TypeOK
  <2>4. UNCHANGED <<world, cluster, reader, past, refs, todo, health, changes>> /\ result = "running"
    BY <1>7 DEF ListFails, Scanning, pastVars
  <2> QED BY <2>1, <2>2, <2>3, <2>4 DEF TypeOK
<1>8. ASSUME NEW o \in todo, Examine(o) PROVE TypeOK'
  <2>1. Weighed(found')
    BY <1>8, DirectWeighed, BothWeighed DEF Examine, TypeOK, Weighed
  <2>2. \A p \in refs' : p[1] \in past' /\ p[2] \in References(reader', p[1])
    BY <1>8 DEF Examine, Scanning, TypeOK, pastVars
  <2> QED BY <1>1, <1>8, <2>1, <2>2 DEF Examine, Scanning, TypeOK, pastVars, Weighed
<1>9. ASSUME NEW p \in refs, LookUp(p) PROVE TypeOK'
  <2>1. Weighed(found')
    BY <1>9, AnswerWeighed, BothWeighed DEF LookUp, TypeOK, Weighed
  <2> QED BY <1>1, <1>9, <2>1 DEF LookUp, Scanning, TypeOK, pastVars, Weighed
<1>10. ASSUME NEW p \in refs, LookUpFails(p) PROVE TypeOK'
  <2>1. Weighed(found')
    BY <1>10, MissingWeighed, BothWeighed DEF LookUpFails, TypeOK, Weighed
  <2> QED BY <1>1, <1>10, <2>1 DEF LookUpFails, Scanning, TypeOK, pastVars, Weighed
<1>11. ASSUME NEW p \in refs, Panic(p) PROVE TypeOK'
  BY <1>1, <1>11 DEF Panic, Scanning, TypeOK, pastVars
<1>12. CASE Finish
  BY <1>1, <1>12 DEF Finish, Scored, Scanning, TypeOK, pastVars
<1>13. CASE UNCHANGED vars
  BY <1>13 DEF TypeOK, vars, scanVars, pastVars
<1> QED BY <1>3, <1>4, <1>5, <1>6, <1>7, <1>8, <1>9, <1>10, <1>11, <1>12, <1>13 DEF Next

LEMMA TypeInit == Init => TypeOK
<1> SUFFICES ASSUME Init PROVE TypeOK
  OBVIOUS
<1>1. reader \in Readers /\ reader \in DOMAIN Listings
  BY ScanAssumption DEF Init
<1>2. next \in Nat /\ next >= 1 /\ next <= Len(Listings[reader]) + 1
  BY <1>1, ListingsType DEF Init
<1>3. cluster \subseteq past /\ past \subseteq world
  BY DEF Init
<1>4. todo = {} /\ refs = {} /\ found = {} /\ result = "running" /\ lost = FALSE /\ health = Unscored /\ world \in Worlds
  BY DEF Init
<1>5. changes \in Nat /\ changes <= MaxChanges /\ faults \in Nat /\ faults <= MaxFaults
  BY ScanAssumption DEF Init
<1> QED BY <1>1, <1>2, <1>3, <1>4, <1>5 DEF TypeOK

\* The state of a scan has its types, and every finding a severity the health score knows.
THEOREM TypeCorrect == Spec => []TypeOK
BY TypeInit, TypeStep, PTL DEF Spec

-----------------------------------------------------------------------------
(***************************************************************************)
(* Events and ConfigMaps are reported once: what is found is remembered.   *)
(***************************************************************************)

\* Findings of the event analyzer are keyed by object and reason, those of the ConfigMap analyzer by
\* the ConfigMap; two of one key are one.
OnceInv ==
  /\ ReportedOnce
  /\ reader = "eventAnalyzer" => \A f \in found : <<f.ns, f.name, f.type>> \in seen
  /\ reader = "configMapAnalyzer" => \A f \in found : <<f.ns, f.name>> \in seen

LEMMA EventFindings ==
  ASSUME NEW o, NEW S, NEW f \in Direct("eventAnalyzer", o, S)
  PROVE  /\ <<f.ns, f.name, f.type>> = EventKey(o)
         /\ EventKey(o) \notin S
         /\ EventKey(o) \in Marks("eventAnalyzer", o)
         /\ \A g \in Direct("eventAnalyzer", o, S) : g = f
<1>1. Direct("eventAnalyzer", o, S) = EventAnalyzer(o, S) /\ Marks("eventAnalyzer", o) = When(Recent(o), EventKey(o))
  BY DEF Direct, Marks
<1> QED BY <1>1 DEF EventAnalyzer, When, EventIssue, Issue, EventKey

LEMMA ConfigMapFindings ==
  ASSUME NEW o, NEW ref
  PROVE  /\ \A s : Direct("configMapAnalyzer", o, s) = {}
         /\ \A f \in OnMissing("configMapAnalyzer", o, ref) : <<f.ns, f.name>> = Key(ref)
         /\ \A f, g \in OnMissing("configMapAnalyzer", o, ref) : f = g
         /\ \A S : Answer("configMapAnalyzer", o, ref, S) \subseteq OnMissing("configMapAnalyzer", o, ref)
<1>1. OnMissing("configMapAnalyzer", o, ref) =
        When(~ref.optional, Issue("configMapAnalyzer", ref, "ConfigMapMissing", "critical", o.name))
  BY DEF OnMissing
<1>2. \A t : OnFound("configMapAnalyzer", o, ref, t) = {}
  BY DEF OnFound
<1>3. \A s : Direct("configMapAnalyzer", o, s) = {}
  BY DEF Direct
<1>4. \A f \in OnMissing("configMapAnalyzer", o, ref) : <<f.ns, f.name>> = Key(ref)
  BY <1>1 DEF When, Issue, Key
<1>5. \A f, g \in OnMissing("configMapAnalyzer", o, ref) : f = g
  BY <1>1 DEF When
<1> QED BY <1>2, <1>3, <1>4, <1>5 DEF Answer

\* The event analyzer looks nothing up.
LEMMA EventLooksNothingUp == \A o : References("eventAnalyzer", o) = {}
BY DEF References

LEMMA OnceStep == TypeOK /\ OnceInv /\ [Next]_vars => OnceInv'
<1> SUFFICES ASSUME TypeOK, OnceInv, [Next]_vars PROVE OnceInv'
  OBVIOUS
<1>1. ASSUME found' = found, seen' = seen, reader' = reader PROVE OnceInv'
  BY <1>1 DEF OnceInv, ReportedOnce, SameIssue
<1>2. ASSUME found' = {}, reader' = reader PROVE OnceInv'
  BY <1>2 DEF OnceInv, ReportedOnce
<1>3. CASE Appear \/ Disappear \/ Update
  BY <1>1, <1>3 DEF Appear, Disappear, Update, Become, scanVars
<1>4. CASE List
  BY <1>1, <1>4 DEF List, Scanning
<1>5. CASE ListFails
  BY <1>1, <1>2, <1>5 DEF ListFails, Scanning
<1>6. ASSUME NEW o \in todo, Examine(o) PROVE OnceInv'
  <2>1. reader' = reader /\ found' = found \union Direct(reader, o, seen) /\ seen' = seen \union Marks(reader, o)
    BY <1>6 DEF Examine, Scanning
  <2>2. CASE reader = "eventAnalyzer"
    <3>1. \A f \in found' : <<f.ns, f.name, f.type>> \in seen'
      <4> SUFFICES ASSUME NEW f \in found' PROVE <<f.ns, f.name, f.type>> \in seen'
        OBVIOUS
      <4>1. CASE f \in found
        BY <2>1, <2>2, <4>1 DEF OnceInv
      <4>2. CASE f \in Direct("eventAnalyzer", o, seen)
        BY <2>1, <2>2, <4>2, EventFindings
      <4> QED BY <2>1, <2>2, <4>1, <4>2
    <3>2. ASSUME NEW f \in found', NEW g \in found', SameIssue(f, g) PROVE f = g
      <4>1. <<f.ns, f.name, f.type>> = <<g.ns, g.name, g.type>>
        BY <3>2 DEF SameIssue
      <4>2. CASE f \in found /\ g \in found
        BY <2>2, <3>2, <4>2 DEF OnceInv, ReportedOnce
      <4>3. CASE f \in Direct(reader, o, seen) /\ g \in Direct(reader, o, seen)
        BY <2>2, <4>3, EventFindings
      <4>4. CASE f \in found /\ g \in Direct(reader, o, seen)
        BY <2>2, <4>1, <4>4, EventFindings DEF OnceInv
      <4>5. CASE g \in found /\ f \in Direct(reader, o, seen)
        BY <2>2, <4>1, <4>5, EventFindings DEF OnceInv
      <4> QED BY <2>1, <4>2, <4>3, <4>4, <4>5
    <3> QED BY <2>1, <2>2, <3>1, <3>2 DEF OnceInv, ReportedOnce
  <2>3. CASE reader = "configMapAnalyzer"
    BY <2>1, <2>3, ConfigMapFindings DEF OnceInv, ReportedOnce, SameIssue
  <2> QED BY <2>1, <2>2, <2>3 DEF OnceInv, ReportedOnce
<1>7. ASSUME NEW p \in refs, LookUp(p) \/ LookUpFails(p) PROVE OnceInv'
  <2>1. reader' = reader /\ seen' = Remember(p[2])
    BY <1>7 DEF LookUp, LookUpFails, Scanning
  <2>2. CASE reader = "eventAnalyzer"
    BY <2>2, EventLooksNothingUp DEF TypeOK
  <2>3. CASE reader = "configMapAnalyzer"
    <3>1. seen' = seen \union {Key(p[2])}
      BY <2>1, <2>3 DEF Remember
    <3>2. \/ found' = found
          \/ /\ Key(p[2]) \notin seen
             /\ found \subseteq found'
             /\ found' \subseteq found \union OnMissing("configMapAnalyzer", p[1], p[2])
      BY <1>7, <2>3, ConfigMapFindings DEF LookUp, LookUpFails, Known
    <3>3. \A f \in found' : <<f.ns, f.name>> \in seen'
      <4> SUFFICES ASSUME NEW f \in found' PROVE <<f.ns, f.name>> \in seen'
        OBVIOUS
      <4>1. CASE f \in found
        BY <2>3, <3>1, <4>1 DEF OnceInv
      <4>2. CASE f \in OnMissing("configMapAnalyzer", p[1], p[2])
        BY <3>1, <4>2, ConfigMapFindings
      <4> QED BY <3>2, <4>1, <4>2
    <3>4. ASSUME NEW f \in found', NEW g \in found', SameIssue(f, g) PROVE f = g
      <4>1. <<f.ns, f.name>> = <<g.ns, g.name>>
        BY <3>4 DEF SameIssue
      <4>2. CASE f \in found /\ g \in found
        BY <2>3, <3>4, <4>2 DEF OnceInv, ReportedOnce
      <4>3. CASE f \notin found \/ g \notin found
        BY <2>3, <3>2, <4>1, <4>3, ConfigMapFindings DEF OnceInv
      <4> QED BY <4>2, <4>3
    <3> QED BY <2>1, <2>3, <3>3, <3>4 DEF OnceInv, ReportedOnce
  <2> QED BY <2>1, <2>2, <2>3 DEF OnceInv, ReportedOnce
<1>8. ASSUME NEW p \in refs, Panic(p) PROVE OnceInv'
  BY <1>2, <1>8 DEF Panic, Scanning
<1>9. CASE Finish
  BY <1>1, <1>9 DEF Finish, Scanning
<1>10. CASE UNCHANGED vars
  BY <1>1, <1>10 DEF vars, scanVars
<1> QED BY <1>3, <1>4, <1>5, <1>6, <1>7, <1>8, <1>9, <1>10 DEF Next

\* A repeated event and a ConfigMap that many pods miss are one issue each.
THEOREM RepeatsReportedOnce == Spec => []ReportedOnce
<1>1. Init => OnceInv
  BY DEF Init, OnceInv, ReportedOnce
<1>2. OnceInv => ReportedOnce
  BY DEF OnceInv
<1> QED BY <1>1, <1>2, TypeInit, TypeStep, OnceStep, PTL DEF Spec

-----------------------------------------------------------------------------
(***************************************************************************)
(* The diagnostics collector and the analyzers.                            *)
(***************************************************************************)

\* What analyzePod finds, PodAnalyzer finds.
LEMMA PodsAgree ==
  ASSUME NEW o, o.kind = "Pod", NEW f \in Direct("diagnostics", o, {})
  PROVE  \E g \in Direct("podAnalyzer", o, {}) :
           g.type = TypeOfAnalyzer(f) /\ g.severity = f.severity /\ g.part = f.part
<1>1. f \in AnalyzePod(o) /\ Direct("podAnalyzer", o, {}) = PodAnalyzer(o)
  BY DEF Direct
<1> DEFINE D(type, severity, part) == Issue("diagnostics", o, type, severity, part)
           P(type, severity, part) == Issue("podAnalyzer", o, type, severity, part)
<1>2. ASSUME NEW type, NEW severity, NEW part, f = D(type, severity, part)
      PROVE  f.type = type /\ f.severity = severity /\ f.part = part /\ f.kind = "Pod"
  BY <1>2 DEF Issue
<1>3. ASSUME NEW type, NEW severity, NEW part
      PROVE  /\ P(type, severity, part).type = type /\ P(type, severity, part).severity = severity
             /\ P(type, severity, part).part = part
  BY DEF Issue
<1>4. \/ o.phase = "Failed" /\ o.reason = "Evicted" /\ f = D("Evicted", "warning", Empty)
      \/ /\ o.phase = "Pending" /\ o.age > 5
         /\ f = D("Unschedulable", "critical", Empty) \/ f = D("Pending", "critical", Empty)
      \/ \E c \in Reported(o) :
           \/ c.waiting = "CrashLoopBackOff" /\ f = D("CrashLoopBackOff", "critical", c.name)
           \/ c.oom /\ f = D("OOMKilled", "critical", c.name)
           \/ c.waiting \in PullReasons /\ f = D("ImagePullError", "critical", c.name)
           \/ c.restarts > 10 /\ f = D("HighRestartCount", "warning", c.name)
  BY <1>1 DEF AnalyzePod, When, PullReasons
<1>5. /\ o.phase = "Failed" /\ o.reason = "Evicted" => P("PodEvicted", "warning", Empty) \in PodAnalyzer(o)
      /\ o.phase = "Pending" /\ o.age > 5 => P("PodPending", "critical", Empty) \in PodAnalyzer(o)
  BY DEF PodAnalyzer, When
<1>6. ASSUME NEW c \in Reported(o)
      PROVE  /\ c.waiting = "CrashLoopBackOff" => P("CrashLoopBackOff", "critical", c.name) \in PodAnalyzer(o)
             /\ c.oom => P("OOMKilled", "critical", c.name) \in PodAnalyzer(o)
             /\ c.waiting \in PullReasons => P("ImagePullError", "critical", c.name) \in PodAnalyzer(o)
             /\ c.restarts > 10 => P("HighRestartCount", "warning", c.name) \in PodAnalyzer(o)
  <2>1. c.waiting = "CrashLoopBackOff" => P("CrashLoopBackOff", "critical", c.name) \in PodAnalyzer(o)
    BY DEF PodAnalyzer, When
  <2>2. c.oom => P("OOMKilled", "critical", c.name) \in PodAnalyzer(o)
    BY DEF PodAnalyzer, When
  <2>3. c.waiting \in PullReasons => P("ImagePullError", "critical", c.name) \in PodAnalyzer(o)
    BY DEF PodAnalyzer, When
  <2>4. c.restarts > 10 => P("HighRestartCount", "warning", c.name) \in PodAnalyzer(o)
    BY DEF PodAnalyzer, When
  <2> QED BY <2>1, <2>2, <2>3, <2>4
<1> HIDE DEF D, P
<1>7. CASE o.phase = "Failed" /\ o.reason = "Evicted" /\ f = D("Evicted", "warning", Empty)
  BY <1>1, <1>2, <1>3, <1>5, <1>7 DEF TypeOfAnalyzer
<1>8. CASE /\ o.phase = "Pending" /\ o.age > 5
           /\ f = D("Unschedulable", "critical", Empty) \/ f = D("Pending", "critical", Empty)
  BY <1>1, <1>2, <1>3, <1>5, <1>8 DEF TypeOfAnalyzer
<1>9. ASSUME NEW c \in Reported(o),
             \/ c.waiting = "CrashLoopBackOff" /\ f = D("CrashLoopBackOff", "critical", c.name)
             \/ c.oom /\ f = D("OOMKilled", "critical", c.name)
             \/ c.waiting \in PullReasons /\ f = D("ImagePullError", "critical", c.name)
             \/ c.restarts > 10 /\ f = D("HighRestartCount", "warning", c.name)
      PROVE  \E g \in PodAnalyzer(o) : g.type = TypeOfAnalyzer(f) /\ g.severity = f.severity /\ g.part = f.part
  <2>1. CASE c.waiting = "CrashLoopBackOff" /\ f = D("CrashLoopBackOff", "critical", c.name)
    BY <1>2, <1>3, <1>6, <2>1 DEF TypeOfAnalyzer
  <2>2. CASE c.oom /\ f = D("OOMKilled", "critical", c.name)
    BY <1>2, <1>3, <1>6, <2>2 DEF TypeOfAnalyzer
  <2>3. CASE c.waiting \in PullReasons /\ f = D("ImagePullError", "critical", c.name)
    BY <1>2, <1>3, <1>6, <2>3 DEF TypeOfAnalyzer
  <2>4. CASE c.restarts > 10 /\ f = D("HighRestartCount", "warning", c.name)
    BY <1>2, <1>3, <1>6, <2>4 DEF TypeOfAnalyzer
  <2> QED BY <1>9, <2>1, <2>2, <2>3, <2>4
<1> QED BY <1>1, <1>4, <1>7, <1>8, <1>9

\* What analyzeNodes finds, NodeAnalyzer finds.
LEMMA NodesAgree ==
  ASSUME NEW o, o.kind = "Node", NEW f \in Direct("diagnostics", o, {})
  PROVE  \E g \in Direct("nodeAnalyzer", o, {}) :
           g.type = TypeOfAnalyzer(f) /\ g.severity = f.severity /\ g.part = f.part
<1>1. f \in AnalyzeNode(o) /\ Direct("nodeAnalyzer", o, {}) = NodeAnalyzer(o)
  BY DEF Direct
<1>2. NotReady(o) /\ f = Issue("diagnostics", o, "Pending", "critical", Empty)
  BY <1>1 DEF AnalyzeNode, When
<1>3. Issue("nodeAnalyzer", o, "NodeNotReady", "critical", Empty) \in NodeAnalyzer(o)
  BY <1>2 DEF NodeAnalyzer, When
<1>4. f.type = "Pending" /\ f.kind = "Node" /\ f.severity = "critical" /\ f.part = Empty
  BY <1>2 DEF Issue
<1>5. TypeOfAnalyzer(f) = "NodeNotReady"
  BY <1>4 DEF TypeOfAnalyzer
<1> DEFINE g == Issue("nodeAnalyzer", o, "NodeNotReady", "critical", Empty)
<1>6. g.type = "NodeNotReady" /\ g.severity = "critical" /\ g.part = Empty
  BY DEF Issue
<1> QED BY <1>1, <1>3, <1>4, <1>5, <1>6

\* What analyzeEvents shows, EventAnalyzer shows, unless it is a reason it ignores.
LEMMA EventsAgree ==
  ASSUME NEW o, o.kind = "Event", NEW f \in Direct("diagnostics", o, {}), f.type \notin ignoredReasons, o.age \in Int
  PROVE  \E g \in Direct("eventAnalyzer", o, {}) :
           SameIssue([f EXCEPT !.analyzer = "eventAnalyzer"], g) /\ g.severity # "info"
<1>1. f \in AnalyzeEvent(o, {}) /\ Direct("eventAnalyzer", o, {}) = EventAnalyzer(o, {})
  BY DEF Direct
<1>2. o.age <= 60 /\ f = EventIssue("diagnostics", o, "warning")
  BY <1>1 DEF AnalyzeEvent, When
<1>3. f.type = o.reason
  BY <1>2 DEF EventIssue, Issue
<1>4. Recent(o)
  BY <1>2, <1>3 DEF Recent
<1> DEFINE level == IF o.count > 10 THEN "critical" ELSE "warning"
           g == EventIssue("eventAnalyzer", o, level)
<1>5. g \in EventAnalyzer(o, {})
  BY <1>4 DEF EventAnalyzer, When
<1>6. level # "info"
  OBVIOUS
<1> HIDE DEF level
<1>7. SameIssue([f EXCEPT !.analyzer = "eventAnalyzer"], g) /\ g.severity = level
  BY <1>2 DEF SameIssue, EventIssue, Issue
<1> QED BY <1>1, <1>5, <1>6, <1>7

\* Two implementations of one idea agree, whatever is in the cluster.
THEOREM CollectorsAlike == Spec => []CollectorsAgree
<1>1. TypeOK => CollectorsAgree
  <2> SUFFICES ASSUME TypeOK, NEW o \in cluster
               PROVE  /\ o.kind \in {"Pod", "Node"} =>
                           \A f \in Direct("diagnostics", o, {}) :
                             \E g \in Direct(IF o.kind = "Pod" THEN "podAnalyzer" ELSE "nodeAnalyzer", o, {}) :
                               g.type = TypeOfAnalyzer(f) /\ g.severity = f.severity /\ g.part = f.part
                      /\ o.kind = "Event" =>
                           \A f \in Direct("diagnostics", o, {}) : f.type \in ignoredReasons \/
                             \E g \in Direct("eventAnalyzer", o, {}) :
                               SameIssue([f EXCEPT !.analyzer = "eventAnalyzer"], g) /\ g.severity # "info"
    BY DEF CollectorsAgree
  <2>1. CASE o.kind = "Pod"
    BY <2>1, PodsAgree
  <2>2. CASE o.kind = "Node"
    BY <2>2, NodesAgree
  <2>3. CASE o.kind = "Event"
    <3>1. o.age \in Nat
      BY <2>3, ScanAssumption DEF TypeOK
    <3> QED BY <2>3, <3>1, EventsAgree
  <2> QED BY <2>1, <2>2, <2>3
<1> QED BY <1>1, TypeCorrect, PTL

-----------------------------------------------------------------------------
(***************************************************************************)
(* No false alarm.  What is in a reader's hands was in the cluster when it *)
(* was listed, so what it finds was true then; what it looks up later is   *)
(* true now, unless the object that refers to it has changed since.        *)
(***************************************************************************)

\* Whatever has existed still does, or is known to have changed; the present is among the moments.
PastInv ==
  /\ \A o \in past : o \in cluster \/ Identity(o) \in touched
  /\ Truth(reader, cluster) \subseteq everTrue

\* The objects in hand are of the kind listed last, and those with look-ups of a kind listed before.
KindInv ==
  /\ \A o \in todo : next - 1 \in DOMAIN Listings[reader] /\ o.kind = Listings[reader][next - 1]
  /\ \A p \in refs : \E i \in DOMAIN Listings[reader] : p[1].kind = Listings[reader][i]

\* What an object shows by itself was true when it was listed.
TodoInv == reader # "networkPolicyAnalyzer" => \A o \in todo : Direct(reader, o, {}) \subseteq everTrue

\* The marks of the objects in hand.
Marked == UNION {Marks(reader, o) : o \in todo}

\* The policies are listed before the namespaces: a namespace that has not changed since and has
\* none among those listed had none when they were listed.
PolicyInv ==
  reader = "networkPolicyAnalyzer" /\ next > 1 =>
    \A o \in past : o.kind = "Namespace" /\ Identity(o) \notin touched =>
      Direct(reader, o, seen \union Marked) \subseteq everTrue

FindInv == PastInv /\ KindInv /\ TodoInv /\ PolicyInv /\ NothingInvented

\* A listing is a sequence.
LEMMA ListingsDomain == \A a \in DOMAIN Listings : DOMAIN Listings[a] = 1..Len(Listings[a])
BY DEF Listings

\* What is remembered can only hide an issue.
LEMMA DirectAntitone ==
  ASSUME NEW a, NEW o, NEW S, NEW T, S \subseteq T PROVE Direct(a, o, T) \subseteq Direct(a, o, S)
<1>1. EventAnalyzer(o, T) \subseteq EventAnalyzer(o, S)
  BY DEF EventAnalyzer, When
<1>2. AnalyzeEvent(o, T) \subseteq AnalyzeEvent(o, S)
  BY DEF AnalyzeEvent, When
<1>3. NetworkPolicyAnalyzer(o, T) \subseteq NetworkPolicyAnalyzer(o, S)
  BY DEF NetworkPolicyAnalyzer, When
<1> QED BY <1>1, <1>2, <1>3 DEF Direct

\* An instantaneous scan sees what each of its objects shows, and what its look-ups answer.
LEMMA TruthDirect ==
  ASSUME NEW a, NEW S, NEW o \in Listed(a, S) PROVE Direct(a, o, Policies(a, S)) \subseteq Truth(a, S)
BY DEF Truth

LEMMA TruthAnswer ==
  ASSUME NEW a, NEW S, NEW o \in Listed(a, S), NEW ref \in References(a, o), ref.name # Empty
  PROVE  Answer(a, o, ref, S) \subseteq Truth(a, S)
BY DEF Truth

\* The findings of a look-up point back to the object that refers.
LEMMA AnswerReferrer ==
  ASSUME NEW a, NEW o, NEW ref \in References(a, o), NEW S, NEW f \in Answer(a, o, ref, S),
         a = "configMapAnalyzer" => o.kind = "Pod"
  PROVE  Referrer(f) = Identity(o)
<1>1. CASE f \in OnMissing(a, o, ref)
  <2>1. CASE a = "configMapAnalyzer"
    <3>1. f = Issue(a, ref, "ConfigMapMissing", "critical", o.name)
      BY <1>1, <2>1 DEF OnMissing, When
    <3>2. ref.ns = o.ns
      BY <2>1 DEF References, ConfigMapRefs, To, Ref
    <3> QED BY <2>1, <3>1, <3>2 DEF Issue, Referrer, Identity
  <2>2. CASE a # "configMapAnalyzer"
    <3>1. \E part : \E type \in {"ServiceNotFound", "TLSSecretMissing", "HeadlessServiceMissing", "WebhookServiceMissing"} :
            f = Issue(a, o, type, "critical", part)
      BY <1>1, <2>2 DEF OnMissing
    <3> QED BY <3>1 DEF Issue, Referrer, Identity
  <2> QED BY <2>1, <2>2
<1>2. ASSUME NEW target, f \in OnFound(a, o, ref, target) PROVE Referrer(f) = Identity(o)
  <2>1. CASE a = "serviceAnalyzer"
    <3>1. \E type \in {"NoEndpoints", "LoadBalancerPending"} : f = Issue("serviceAnalyzer", o, type, "warning", Empty)
      BY <1>2, <2>1 DEF OnFound, ServiceAnalyzer, When
    <3> QED BY <3>1 DEF Issue, Referrer, Identity
  <2>2. CASE a = "logAnalyzer"
    <3>1. PICK c, pattern : f \in LogIssue(o, c, pattern)
      BY <1>2, <2>2 DEF OnFound
    <3>2. \E severity : \E type \in {"PanicInLogs", "FatalInLogs", "ConnectionRefused", "TimeoutInLogs",
            "CertificateError", "PermissionDenied"} : f = Issue("logAnalyzer", o, type, severity, c)
      BY <3>1 DEF LogIssue
    <3> QED BY <3>2 DEF Issue, Referrer, Identity
  <2>3. CASE a = "snapshot"
    <3>1. o.kind = "Namespace"
      BY <2>3 DEF References
    <3>2. \E type \in {"HasLimitRange", "HasResourceQuota"} : f = Fact("Namespace", o.ns, o.name, type, Empty)
      BY <1>2, <2>3 DEF OnFound
    <3> QED BY <3>1, <3>2 DEF Fact, Issue, Referrer, Identity
  <2>4. CASE a \notin {"serviceAnalyzer", "logAnalyzer", "snapshot"}
    BY <1>2, <2>4 DEF OnFound
  <2> QED BY <2>1, <2>2, <2>3, <2>4
<1> QED BY <1>1, <1>2 DEF Answer

\* The analyzer of network policies shows namespaces only, and looks nothing up.
LEMMA PolicyFindings ==
  ASSUME NEW o, NEW S
  PROVE  /\ \A f \in Direct("networkPolicyAnalyzer", o, S) : o.kind = "Namespace" /\ Referrer(f) = Identity(o)
         /\ o.kind # "NetworkPolicy" => Marks("networkPolicyAnalyzer", o) = {}
         /\ \A k : ~Tolerated("networkPolicyAnalyzer", k)
<1>1. Direct("networkPolicyAnalyzer", o, S) = NetworkPolicyAnalyzer(o, S)
  BY DEF Direct
<1>2. \A f \in NetworkPolicyAnalyzer(o, S) : o.kind = "Namespace" /\ Referrer(f) = Identity(o)
  BY DEF NetworkPolicyAnalyzer, When, Issue, Referrer, Identity
<1>3. o.kind # "NetworkPolicy" => Marks("networkPolicyAnalyzer", o) = {}
  BY DEF Marks
<1>4. \A k : ~Tolerated("networkPolicyAnalyzer", k)
  BY DEF Tolerated
<1> QED BY <1>1, <1>2, <1>3, <1>4

\* A change of the cluster.
LEMMA BecomeFind == ASSUME TypeOK, FindInv, NEW S, Become(S) PROVE FindInv'
<1> USE DEF FindInv
<1>1. /\ UNCHANGED <<reader, next, todo, refs, seen, found, lost>>
      /\ cluster' = S /\ past' = past \union S /\ everTrue' = everTrue \union Truth(reader, S)
      /\ touched' = touched \union {Identity(o) : o \in (S \ cluster) \union (cluster \ S)}
  BY DEF Become, scanVars
<1>2. PastInv'
  BY <1>1 DEF PastInv
<1>3. KindInv' /\ TodoInv'
  BY <1>1 DEF KindInv, TodoInv
<1>4. PolicyInv'
  <2> SUFFICES ASSUME reader = "networkPolicyAnalyzer", next > 1,
                      NEW o \in past', o.kind = "Namespace", Identity(o) \notin touched'
               PROVE  Direct(reader, o, seen \union Marked) \subseteq everTrue'
    BY <1>1 DEF PolicyInv, Marked
  <2>1. o \in past
    BY <1>1 DEF TypeOK
  <2> QED BY <1>1, <2>1 DEF PolicyInv
<1>5. NothingInvented'
  BY <1>1 DEF NothingInvented
<1> QED BY <1>2, <1>3, <1>4, <1>5

\* A listing: its objects are in the cluster, so what they show is true now.
LEMMA ListFind == ASSUME TypeOK, FindInv, List PROVE FindInv'
<1> USE DEF FindInv
<1>1. /\ UNCHANGED <<reader, cluster, refs, seen, found, lost, past, touched, everTrue>>
      /\ todo = {} /\ next' = next + 1 /\ next <= Len(Listings[reader])
      /\ todo' = {o \in cluster : o.kind = Listings[reader][next]}
  BY DEF List, Scanning, MayList, pastVars
<1>2. next \in Nat /\ next >= 1 /\ next' - 1 = next /\ next \in DOMAIN Listings[reader]
  BY <1>1, ScanAssumption, ListingsDomain, ListingsType DEF TypeOK
<1>3. todo' \subseteq Listed(reader, cluster)
  BY <1>1, <1>2 DEF Listed
<1>4. PastInv' /\ NothingInvented'
  BY <1>1 DEF PastInv, NothingInvented
<1>5. KindInv'
  BY <1>1, <1>2 DEF KindInv
<1>6. TodoInv'
  <2> SUFFICES ASSUME reader # "networkPolicyAnalyzer", NEW o \in todo'
               PROVE  Direct(reader, o, {}) \subseteq everTrue
    BY <1>1 DEF TodoInv
  <2>1. Policies(reader, cluster) = {}
    BY DEF Policies
  <2>2. Direct(reader, o, Policies(reader, cluster)) \subseteq Truth(reader, cluster)
    BY <1>3, TruthDirect
  <2> QED BY <2>1, <2>2 DEF PastInv
<1>7. PolicyInv'
  <2> SUFFICES ASSUME reader = "networkPolicyAnalyzer", NEW o \in past,
                      o.kind = "Namespace", Identity(o) \notin touched
               PROVE  Direct(reader, o, seen \union Marked') \subseteq everTrue
    BY <1>1 DEF PolicyInv, Marked
  <2>1. CASE next > 1
    <3>1. seen \union Marked \subseteq seen \union Marked'
      BY <1>1 DEF Marked
    <3>2. Direct(reader, o, seen \union Marked) \subseteq everTrue
      BY <2>1 DEF PolicyInv
    <3> QED BY <3>1, <3>2, DirectAntitone
  <2>2. CASE next = 1
    <3>1. Listings[reader] = <<"NetworkPolicy", "Namespace">>
      BY DEF Listings
    <3>2. o \in Listed(reader, cluster)
      <4>1. o \in cluster
        BY DEF PastInv
      <4>2. 2 \in DOMAIN Listings[reader] /\ Listings[reader][2] = "Namespace"
        BY <3>1
      <4> QED BY <4>1, <4>2 DEF Listed
    <3>3. Policies(reader, cluster) \subseteq Marked'
      <4> SUFFICES ASSUME NEW q \in Listed(reader, cluster), NEW m \in Marks(reader, q) PROVE m \in Marked'
        BY DEF Policies
      <4>1. q.kind = "NetworkPolicy"
        BY PolicyFindings
      <4>2. q \in todo'
        BY <1>1, <2>2, <3>1, <4>1 DEF Listed
      <4> QED BY <1>1, <4>2 DEF Marked
    <3>4. Direct(reader, o, Policies(reader, cluster)) \subseteq everTrue
      BY <3>2, TruthDirect DEF PastInv
    <3>5. Policies(reader, cluster) \subseteq seen \union Marked'
      BY <3>3
    <3> QED BY <3>4, <3>5, DirectAntitone
  <2>3. next > 1 \/ next = 1
    BY <1>2
  <2> QED BY <2>1, <2>2, <2>3
<1> QED BY <1>4, <1>5, <1>6, <1>7

\* A listing that fails: the findings are gone, or the error is dropped and counted.
LEMMA ListFailsFind == ASSUME TypeOK, FindInv, ListFails PROVE FindInv'
<1> USE DEF FindInv
<1>1. /\ UNCHANGED <<reader, cluster, refs, seen, todo, past, touched, everTrue>>
      /\ todo = {}
      /\ \/ Tolerated(reader, Listings[reader][next]) /\ lost' = TRUE
         \/ found' = {} /\ next' = next
  BY DEF ListFails, Scanning, MayList, pastVars
<1>2. PastInv' /\ NothingInvented'
  BY <1>1 DEF PastInv, NothingInvented
<1>3. KindInv' /\ TodoInv'
  BY <1>1 DEF KindInv, TodoInv
<1>4. PolicyInv'
  <2>1. reader = "networkPolicyAnalyzer" => next' = next
    BY <1>1, PolicyFindings
  <2> QED BY <1>1, <2>1 DEF PolicyInv, Marked
<1> QED BY <1>2, <1>3, <1>4

\* An object is looked at: what it shows was true when it was listed.
LEMMA ExamineFind == ASSUME TypeOK, FindInv, NEW o \in todo, Examine(o) PROVE FindInv'
<1> USE DEF FindInv
<1>1. /\ UNCHANGED <<reader, cluster, next, lost, past, touched, everTrue>>
      /\ todo' = todo \ {o} /\ seen' = seen \union Marks(reader, o)
      /\ found' = found \union Direct(reader, o, seen)
      /\ refs' = {<<o, ref>> : ref \in References(reader, o)}
  BY DEF Examine, Scanning, pastVars
<1>2. PastInv' /\ TodoInv'
  BY <1>1 DEF PastInv, TodoInv
<1>3. KindInv'
  BY <1>1 DEF KindInv
<1>4. seen' \union Marked' = seen \union Marked
  BY <1>1 DEF Marked
<1>5. PolicyInv'
  BY <1>1, <1>4 DEF PolicyInv
<1>6. NothingInvented'
  <2> SUFFICES ASSUME NEW f \in Direct(reader, o, seen)
               PROVE  f \in everTrue \/ Referrer(f) \in touched
    BY <1>1 DEF NothingInvented
  <2>1. CASE reader # "networkPolicyAnalyzer"
    <3>1. Direct(reader, o, seen) \subseteq Direct(reader, o, {})
      BY DirectAntitone
    <3> QED BY <2>1, <3>1 DEF TodoInv
  <2>2. CASE reader = "networkPolicyAnalyzer" /\ Identity(o) \notin touched
    <3>1. o.kind = "Namespace"
      BY <2>2, PolicyFindings
    <3>2. \A q \in todo : Marks(reader, q) = {}
      <4> SUFFICES ASSUME NEW q \in todo PROVE Marks(reader, q) = {}
        OBVIOUS
      <4>1. q.kind = o.kind
        BY DEF KindInv
      <4> QED BY <2>2, <3>1, <4>1, PolicyFindings
    <3>3. seen \union Marked = seen
      BY <3>2 DEF Marked
    <3>4. next > 1
      <4>1. next - 1 \in 1..Len(Listings[reader]) /\ next \in Nat
        BY ScanAssumption, ListingsDomain DEF KindInv, TypeOK
      <4> QED BY <4>1, ScanAssumption, ListingsType DEF TypeOK
    <3>5. o \in past
      BY DEF TypeOK
    <3> QED BY <2>2, <3>1, <3>3, <3>4, <3>5 DEF PolicyInv
  <2>3. CASE reader = "networkPolicyAnalyzer" /\ Identity(o) \in touched
    BY <2>3, PolicyFindings
  <2> QED BY <2>1, <2>2, <2>3
<1> QED BY <1>2, <1>3, <1>5, <1>6

\* A look-up: its answer is true now, or the object that refers has changed since it was listed.
LEMMA LookUpFind == ASSUME TypeOK, FindInv, NEW p \in refs, LookUp(p) PROVE FindInv'
<1> USE DEF FindInv
<1>1. /\ UNCHANGED <<reader, cluster, next, todo, lost, past, touched, everTrue>>
      /\ refs' \subseteq refs /\ p[2].name # Empty
      /\ found' \subseteq found \union Answer(reader, p[1], p[2], cluster)
      /\ seen \subseteq seen'
  BY DEF LookUp, Remember, Scanning, pastVars
<1>2. PastInv' /\ TodoInv' /\ KindInv'
  BY <1>1 DEF PastInv, TodoInv, KindInv
<1>3. PolicyInv'
  <2> SUFFICES ASSUME reader = "networkPolicyAnalyzer", next > 1, NEW o \in past,
                      o.kind = "Namespace", Identity(o) \notin touched
               PROVE  Direct(reader, o, seen' \union Marked) \subseteq everTrue
    BY <1>1 DEF PolicyInv, Marked
  <2>1. seen \union Marked \subseteq seen' \union Marked
    BY <1>1
  <2>2. Direct(reader, o, seen \union Marked) \subseteq everTrue
    BY DEF PolicyInv
  <2> QED BY <2>1, <2>2, DirectAntitone
<1>4. NothingInvented'
  <2> SUFFICES ASSUME NEW f \in Answer(reader, p[1], p[2], cluster)
               PROVE  f \in everTrue \/ Referrer(f) \in touched
    BY <1>1 DEF NothingInvented
  <2>1. p[1] \in past /\ p[2] \in References(reader, p[1])
    BY DEF TypeOK
  <2>2. PICK i \in DOMAIN Listings[reader] : p[1].kind = Listings[reader][i]
    BY DEF KindInv
  <2>3. CASE p[1] \in cluster
    <3>1. p[1] \in Listed(reader, cluster)
      BY <2>2, <2>3 DEF Listed
    <3> QED BY <1>1, <2>1, <3>1, TruthAnswer DEF PastInv
  <2>4. CASE p[1] \notin cluster
    <3>1. Identity(p[1]) \in touched
      BY <2>1, <2>4 DEF PastInv
    <3>2. reader = "configMapAnalyzer" => p[1].kind = "Pod"
      <4>1. Listings["configMapAnalyzer"] = <<"Pod">>
        BY DEF Listings
      <4> QED BY <2>2, <4>1
    <3>3. Referrer(f) = Identity(p[1])
      BY <2>1, <3>2, AnswerReferrer
    <3> QED BY <3>1, <3>3
  <2> QED BY <2>3, <2>4
<1> QED BY <1>2, <1>3, <1>4

\* A look-up that fails counts as a missing object, and is counted.
LEMMA LookUpFailsFind == ASSUME TypeOK, FindInv, NEW p \in refs, LookUpFails(p) PROVE FindInv'
<1> USE DEF FindInv
<1>1. /\ UNCHANGED <<reader, cluster, next, todo, past, touched, everTrue>>
      /\ refs' \subseteq refs /\ lost' = TRUE /\ seen \subseteq seen'
  BY DEF LookUpFails, Remember, Scanning, pastVars
<1>2. PastInv' /\ TodoInv' /\ KindInv' /\ NothingInvented'
  BY <1>1 DEF PastInv, TodoInv, KindInv, NothingInvented
<1>3. PolicyInv'
  <2> SUFFICES ASSUME reader = "networkPolicyAnalyzer", next > 1, NEW o \in past,
                      o.kind = "Namespace", Identity(o) \notin touched
               PROVE  Direct(reader, o, seen' \union Marked) \subseteq everTrue
    BY <1>1 DEF PolicyInv, Marked
  <2>1. seen \union Marked \subseteq seen' \union Marked
    BY <1>1
  <2>2. Direct(reader, o, seen \union Marked) \subseteq everTrue
    BY DEF PolicyInv
  <2> QED BY <2>1, <2>2, DirectAntitone
<1> QED BY <1>2, <1>3

LEMMA FindStep == TypeOK /\ FindInv /\ [Next]_vars => FindInv'
<1> SUFFICES ASSUME TypeOK, FindInv, [Next]_vars PROVE FindInv'
  OBVIOUS
<1>1. ASSUME UNCHANGED <<reader, cluster, next, todo, refs, seen, lost, past, touched, everTrue>>,
             found' \in {{}, found}
      PROVE  FindInv'
  BY <1>1 DEF FindInv, PastInv, KindInv, TodoInv, PolicyInv, Marked, NothingInvented
<1>2. CASE Appear \/ Disappear \/ Update
  BY <1>2, BecomeFind DEF Appear, Disappear, Update
<1>3. ASSUME NEW p \in refs, Panic(p) PROVE FindInv'
  BY <1>1, <1>3 DEF Panic, Scanning, pastVars
<1>4. CASE Finish
  BY <1>1, <1>4 DEF Finish, Scanning, pastVars
<1>5. CASE UNCHANGED vars
  BY <1>1, <1>5 DEF vars, scanVars, pastVars
<1> QED BY <1>2, <1>3, <1>4, <1>5, ListFind, ListFailsFind, ExamineFind, LookUpFind, LookUpFailsFind DEF Next

\* Whatever a reader reports was true of the cluster at one moment of its scan, unless a call failed
\* or the object that refers to another one was itself changed meanwhile.
THEOREM FindingsWereTrue == Spec => []NothingInvented
<1>1. Init => FindInv
  BY DEF Init, FindInv, PastInv, KindInv, TodoInv, PolicyInv, NothingInvented
<1>2. FindInv => NothingInvented
  BY DEF FindInv
<1> QED BY <1>1, <1>2, TypeInit, TypeStep, FindStep, PTL DEF Spec
-----------------------------------------------------------------------------
(***************************************************************************)
(* Nothing lasting is missed.                                              *)
(***************************************************************************)

\* The kind of the listed objects in which the reader finds f.
Source(f) ==
  IF reader = "diagnostics" /\ (\E e \in world : e.kind = "Event" /\ e.name = f.part) THEN "Event"
  ELSE IF reader = "snapshot" /\ f.type = "hpaSet" THEN "HorizontalPodAutoscaler"
  ELSE IF Len(Listings[reader]) = 1 THEN Listings[reader][1]
  ELSE f.kind

\* The look-up of ref, for o, would show f if it had the answer of some moment of the scan.
MayAnswer(f, o, ref) ==
  \/ f \in OnMissing(reader, o, ref)
  \/ \E t \in past : Identity(t) = <<ref.kind, ref.ns, ref.name>> /\ f \in OnFound(reader, o, ref, t)

\* The reader has still to list the objects that show f, to examine one, or to look up what it refers to.
Unlisted(f) == \E i \in DOMAIN Listings[reader] : i >= next /\ Listings[reader][i] = Source(f)

Waiting(f) ==
  \E o \in todo : \/ f \in Direct(reader, o, {})
                  \/ \E ref \in References(reader, o) : ref.name # Empty /\ MayAnswer(f, o, ref)

Asked(f) == \E p \in refs : p[2].name # Empty /\ MayAnswer(f, p[1], p[2])

\* Nothing hides what is critical from the health score.
Hideable(f) == \/ reader \in {"eventAnalyzer", "configMapAnalyzer"}
               \/ reader = "diagnostics" /\ f.severity # "critical"

Shown(f) == \/ f \in found
            \/ Hideable(f) /\ (Shadowed(f) \/ \E g \in found : SameIssue(f, g))

\* What lasts is so now.
LastsInv == alwaysTrue \subseteq Truth(reader, cluster)

\* An event whose key was met before was reported, or is one the diagnostics collector leaves out.
EventsSeen ==
  reader \in {"eventAnalyzer", "diagnostics"} /\ result = "running" =>
    \A key \in seen : \E e \in past :
      /\ e.kind = "Event" /\ EventKey(e) = key
      /\ \/ reader = "diagnostics" /\ (e.age > 60 \/ e.reason \in {"Scheduled", "Pulled", "Started"})
         \/ \E g \in found : SameIssue(EventIssue(reader, e, "warning"), g)

\* A ConfigMap that was looked up before and is missing all the time was reported, or was optional.
ConfigMapsSeen ==
  reader = "configMapAnalyzer" /\ result = "running" /\ ~lost =>
    \A f \in alwaysTrue : <<f.ns, f.name>> \in seen => Shown(f)

\* No policy was met in a namespace that never had one.
PoliciesSeen == reader = "networkPolicyAnalyzer" => \A f \in alwaysTrue : <<f.name>> \notin seen \union Marked

\* What lasts is shown, or the reader has still to come to it.
CoverInv ==
  ~lost => /\ result = "running" => \A f \in alwaysTrue : Unlisted(f) \/ Waiting(f) \/ Asked(f) \/ Shown(f)
           /\ result = "ok" => \A f \in alwaysTrue : Shown(f)

MissInv == LastsInv /\ EventsSeen /\ ConfigMapsSeen /\ PoliciesSeen /\ CoverInv

\* The fields of an issue.
LEMMA IssueFields ==
  ASSUME NEW a, NEW o, NEW type, NEW severity, NEW part, NEW f, f = Issue(a, o, type, severity, part)
  PROVE  /\ f.analyzer = a /\ f.kind = o.kind /\ f.ns = o.ns /\ f.name = o.name
         /\ f.type = type /\ f.severity = severity /\ f.part = part
BY DEF Issue

\* What an instantaneous scan sees comes from one of its objects.
LEMMA TruthSource ==
  ASSUME NEW a, NEW S, NEW f \in Truth(a, S)
  PROVE  \E o \in Listed(a, S) : \/ f \in Direct(a, o, Policies(a, S))
                                \/ \E ref \in References(a, o) : ref.name # Empty /\ f \in Answer(a, o, ref, S)
BY DEF Truth

\* The object whose presence or state decides a finding of a look-up.
RefersTo(f) ==
  CASE f.type \in {"ServiceNotFound", "HeadlessServiceMissing"} -> <<"Service", f.ns, f.part>>
    [] f.type = "TLSSecretMissing" -> <<"Secret", f.ns, f.part>>
    [] f.type = "WebhookServiceMissing" -> <<"Service", f.part[1], f.part[2]>>
    [] f.type \in {"NoEndpoints", "LoadBalancerPending"} -> <<"Endpoints", f.ns, f.name>>
    [] f.type = "HasLimitRange" -> <<"LimitRange", f.name, "limits">>
    [] f.type = "HasResourceQuota" -> <<"ResourceQuota", f.name, "quota">>
    [] OTHER -> <<"Pod", f.ns, f.name>>

MissingReaders == {"ingressAnalyzer", "statefulSetAnalyzer", "mutatingWebhookAnalyzer", "validatingWebhookAnalyzer"}
FoundReaders == {"serviceAnalyzer", "logAnalyzer", "snapshot"}

\* Readers that report what is not there.
LEMMA MissingAnswers ==
  ASSUME NEW a \in MissingReaders, NEW o, NEW ref \in References(a, o)
  PROVE  /\ \A t : OnFound(a, o, ref, t) = {}
         /\ \A f \in OnMissing(a, o, ref) :
              /\ RefersTo(f) = <<ref.kind, ref.ns, ref.name>>
              /\ f.type \in {"ServiceNotFound", "TLSSecretMissing", "HeadlessServiceMissing", "WebhookServiceMissing"}
<1> USE DEF MissingReaders
<1>1. \A t : OnFound(a, o, ref, t) = {}
  BY DEF OnFound
<1>2. ASSUME NEW f \in OnMissing(a, o, ref)
      PROVE  /\ RefersTo(f) = <<ref.kind, ref.ns, ref.name>>
             /\ f.type \in {"ServiceNotFound", "TLSSecretMissing", "HeadlessServiceMissing", "WebhookServiceMissing"}
  <2>1. CASE a = "ingressAnalyzer"
    <3>1. ref.ns = o.ns /\ ref.kind \in {"Service", "Secret"}
      BY <2>1 DEF References, IngressRefs, To, Ref
    <3>2. f = Issue(a, o, IF ref.kind = "Service" THEN "ServiceNotFound" ELSE "TLSSecretMissing", "critical", ref.name)
      BY <2>1, <3>1 DEF OnMissing
    <3> HIDE DEF Issue
    <3> QED BY <3>1, <3>2, IssueFields DEF RefersTo
  <2>2. CASE a = "statefulSetAnalyzer"
    <3>1. ref.ns = o.ns /\ ref.kind = "Service"
      BY <2>2 DEF References, To, Ref
    <3>2. f = Issue(a, o, "HeadlessServiceMissing", "critical", ref.name)
      BY <2>2 DEF OnMissing
    <3> QED BY <3>1, <3>2, IssueFields DEF RefersTo
  <2>3. CASE a \in {"mutatingWebhookAnalyzer", "validatingWebhookAnalyzer"}
    <3>1. ref.kind = "Service"
      BY <2>3 DEF References, WebhookRefs, To, Ref
    <3>2. f = Issue(a, o, "WebhookServiceMissing", "critical", <<ref.ns, ref.name>>)
      BY <2>3 DEF OnMissing
    <3> QED BY <3>1, <3>2, IssueFields DEF RefersTo
  <2> QED BY <2>1, <2>2, <2>3
<1> QED BY <1>1, <1>2

\* The issue of a line of a log.
LEMMA LogIssues ==
  ASSUME NEW o, NEW c, NEW pattern, NEW f \in LogIssue(o, c, pattern)
  PROVE  /\ f.kind = o.kind /\ f.ns = o.ns /\ f.name = o.name /\ f.part = c
         /\ f.type \in {"PanicInLogs", "FatalInLogs", "ConnectionRefused", "TimeoutInLogs", "CertificateError",
                        "PermissionDenied"}
<1>1. \E severity : \E type \in {"PanicInLogs", "FatalInLogs", "ConnectionRefused", "TimeoutInLogs",
        "CertificateError", "PermissionDenied"} : f = Issue("logAnalyzer", o, type, severity, c)
  BY DEF LogIssue
<1> QED BY <1>1, IssueFields

\* Readers that report what they look up.
LEMMA FoundAnswers ==
  ASSUME NEW a \in FoundReaders, NEW o, NEW ref \in References(a, o), a = "logAnalyzer" => o.kind = "Pod"
  PROVE  /\ OnMissing(a, o, ref) = {}
         /\ \A t : \A f \in OnFound(a, o, ref, t) :
              /\ RefersTo(f) = <<ref.kind, ref.ns, ref.name>>
              /\ f.kind = o.kind /\ f.ns = o.ns /\ f.name = o.name
              /\ a = "logAnalyzer" => f.part = ref.part
              /\ a = "snapshot" => f.type \in {"HasLimitRange", "HasResourceQuota"}
<1> USE DEF FoundReaders
<1>1. OnMissing(a, o, ref) = {}
  BY DEF OnMissing
<1>2. ASSUME NEW t, NEW f \in OnFound(a, o, ref, t)
      PROVE  /\ RefersTo(f) = <<ref.kind, ref.ns, ref.name>>
             /\ f.kind = o.kind /\ f.ns = o.ns /\ f.name = o.name
             /\ a = "logAnalyzer" => f.part = ref.part
             /\ a = "snapshot" => f.type \in {"HasLimitRange", "HasResourceQuota"}
  <2>1. CASE a = "serviceAnalyzer"
    <3>1. ref.ns = o.ns /\ ref.kind = "Endpoints" /\ ref.name = o.name
      BY <2>1 DEF References, To, Ref
    <3>2. \E type \in {"NoEndpoints", "LoadBalancerPending"} : f = Issue("serviceAnalyzer", o, type, "warning", Empty)
      BY <2>1 DEF OnFound, ServiceAnalyzer, When
    <3> QED BY <2>1, <3>1, <3>2, IssueFields DEF RefersTo
  <2>2. CASE a = "logAnalyzer"
    <3>1. ref.ns = o.ns /\ ref.kind = "Pod" /\ ref.name = o.name
      BY <2>2 DEF References, LogRefs, Ref
    <3>2. PICK c, pattern : c.name = ref.part /\ f \in LogIssue(o, c.name, pattern)
      BY <2>2 DEF OnFound
    <3> QED BY <2>2, <3>1, <3>2, LogIssues DEF RefersTo
  <2>3. CASE a = "snapshot"
    <3>1. /\ o.kind = "Namespace"
          /\ \/ ref.kind = "ResourceQuota" /\ ref.ns = o.name /\ ref.name = "quota"
             \/ ref.kind = "LimitRange" /\ ref.ns = o.name /\ ref.name = "limits"
      BY <2>3 DEF References, To, Ref
    <3>2. f = Fact("Namespace", o.ns, o.name,
                   IF ref.kind = "LimitRange" THEN "HasLimitRange" ELSE "HasResourceQuota", Empty)
      BY <2>3 DEF OnFound
    <3>3. /\ f.type = IF ref.kind = "LimitRange" THEN "HasLimitRange" ELSE "HasResourceQuota"
          /\ f.kind = "Namespace" /\ f.ns = o.ns /\ f.name = o.name
      BY <3>2, IssueFields DEF Fact
    <3> QED BY <2>3, <3>1, <3>3 DEF RefersTo
  <2> QED BY <2>1, <2>2, <2>3
<1> QED BY <1>1, <1>2

\* The other readers look nothing up.
LEMMA NoReferences ==
  ASSUME NEW a, a \notin MissingReaders \union FoundReaders \union {"configMapAnalyzer"}, NEW o
  PROVE  References(a, o) = {}
BY DEF References, MissingReaders, FoundReaders
\* The types of what a reader finds in an object that refers to others.
LEMMA DirectTypes ==
  ASSUME NEW a \in MissingReaders \union FoundReaders \union {"configMapAnalyzer"}, NEW o, NEW S,
         NEW f \in Direct(a, o, S)
  PROVE  f.type \notin {"ServiceNotFound", "TLSSecretMissing", "HeadlessServiceMissing", "WebhookServiceMissing",
                        "HasLimitRange", "HasResourceQuota"} /\ a \notin {"serviceAnalyzer", "logAnalyzer"}
<1> USE DEF MissingReaders, FoundReaders
<1>1. CASE a = "ingressAnalyzer"
  <2>1. f = Issue("ingressAnalyzer", o, "NoIngressClass", "warning", Empty)
    BY <1>1 DEF Direct, IngressAnalyzer, When
  <2> QED BY <1>1, <2>1, IssueFields
<1>2. CASE a = "statefulSetAnalyzer"
  <2>1. \E severity : \E type \in {"InsufficientReplicas", "UpdateStuck"} :
          f = Issue("statefulSetAnalyzer", o, type, severity, Empty)
    BY <1>2 DEF Direct, StatefulSetAnalyzer, When
  <2> QED BY <1>2, <2>1, IssueFields
<1>3. CASE a = "snapshot"
  <2>1. f \in SnapshotFacts(o)
    BY <1>3 DEF Direct
  <2>2. \E q, part : \E type \in {"Container", "Node", "Deployment", "hpaSet", "Namespace"} :
          f = Issue("snapshot", q, type, "none", part)
    BY <2>1 DEF SnapshotFacts, PodCollector, DeploymentCollector, NamespaceCollector, Fact, When
  <2> QED BY <1>3, <2>2, IssueFields
<1>4. CASE a \notin {"ingressAnalyzer", "statefulSetAnalyzer", "snapshot"}
  BY <1>4 DEF Direct
<1> QED BY <1>1, <1>2, <1>3, <1>4

\* What may be answered at some moment, and lasts, is answered now.
LEMMA AnswerStable ==
  ASSUME NEW o, NEW ref \in References(reader, o), reader # "configMapAnalyzer",
         reader = "logAnalyzer" => o.kind = "Pod",
         NEW S, NEW f \in Truth(reader, S), MayAnswer(f, o, ref),
         reader = "logAnalyzer" => \A q \in Listed(reader, S) : q.kind = "Pod"
  PROVE  f \in Answer(reader, o, ref, S)
<1>1. PICK q \in Listed(reader, S) : \/ f \in Direct(reader, q, Policies(reader, S))
                                     \/ \E r \in References(reader, q) : r.name # Empty /\ f \in Answer(reader, q, r, S)
  BY TruthSource
<1>2. CASE reader \in MissingReaders
  <2>1. f \in OnMissing(reader, o, ref) /\ RefersTo(f) = <<ref.kind, ref.ns, ref.name>>
    BY <1>2, MissingAnswers DEF MayAnswer
  <2>2. PICK r \in References(reader, q) : f \in Answer(reader, q, r, S)
    BY <1>1, <1>2, <2>1, MissingAnswers, DirectTypes
  <2>3. Targets(r, S) = {} /\ RefersTo(f) = <<r.kind, r.ns, r.name>>
    BY <1>2, <2>2, MissingAnswers DEF Answer
  <2>4. Targets(ref, S) = Targets(r, S)
    BY <2>1, <2>3 DEF Targets
  <2> QED BY <2>1, <2>3, <2>4 DEF Answer
<1>3. CASE reader \in FoundReaders
  <2>1. PICK t0 : f \in OnFound(reader, o, ref, t0)
    BY <1>3, FoundAnswers DEF MayAnswer
  <2>2. /\ RefersTo(f) = <<ref.kind, ref.ns, ref.name>>
        /\ f.kind = o.kind /\ f.ns = o.ns /\ f.name = o.name
        /\ reader = "logAnalyzer" => f.part = ref.part
        /\ reader = "snapshot" => f.type \in {"HasLimitRange", "HasResourceQuota"}
    BY <1>3, <2>1, FoundAnswers
  <2>3. PICK r \in References(reader, q) : f \in Answer(reader, q, r, S)
    BY <1>1, <1>3, <2>2, DirectTypes DEF FoundReaders
  <2>4. OnMissing(reader, q, r) = {}
    BY <1>3, FoundAnswers
  <2>5. PICK t \in Targets(r, S) : f \in OnFound(reader, q, r, t)
    BY <2>3, <2>4 DEF Answer
  <2>6. /\ RefersTo(f) = <<r.kind, r.ns, r.name>>
        /\ f.kind = q.kind /\ f.ns = q.ns /\ f.name = q.name
        /\ reader = "logAnalyzer" => f.part = r.part
    BY <1>3, <2>5, FoundAnswers
  <2>7. t \in Targets(ref, S)
    BY <2>2, <2>5, <2>6 DEF Targets
  <2>8. \A a, type, severity, part : Issue(a, o, type, severity, part) = Issue(a, q, type, severity, part)
    BY <2>2, <2>6 DEF Issue
  <2>9. f \in OnFound(reader, o, ref, t)
    <3>1. CASE reader = "serviceAnalyzer"
      <4>1. f \in ServiceAnalyzer(o, t0) /\ f \in ServiceAnalyzer(q, t)
        BY <2>1, <2>5, <3>1 DEF OnFound
      <4>2. CASE f = Issue("serviceAnalyzer", q, "NoEndpoints", "warning", Empty)
        <5>1. f.type = "NoEndpoints"
          BY <4>2, IssueFields
        <5>2. f # Issue("serviceAnalyzer", q, "LoadBalancerPending", "warning", Empty)
          BY <5>1, IssueFields
        <5>3. ~t.addresses
          BY <4>1, <5>2 DEF ServiceAnalyzer, When
        <5>4. f \in ServiceAnalyzer(o, t)
          BY <2>8, <4>2, <5>3 DEF ServiceAnalyzer, When
        <5> QED BY <3>1, <5>4 DEF OnFound
      <4>3. CASE f = Issue("serviceAnalyzer", q, "LoadBalancerPending", "warning", Empty)
        <5>1. f.type = "LoadBalancerPending"
          BY <4>3, IssueFields
        <5>2. f # Issue("serviceAnalyzer", o, "NoEndpoints", "warning", Empty)
          BY <5>1, IssueFields
        <5>3. o.type = "LoadBalancer" /\ ~o.external
          BY <4>1, <5>2 DEF ServiceAnalyzer, When
        <5>4. f \in ServiceAnalyzer(o, t)
          BY <2>8, <4>3, <5>3 DEF ServiceAnalyzer, When
        <5> QED BY <3>1, <5>4 DEF OnFound
      <4> QED BY <4>1, <4>2, <4>3 DEF ServiceAnalyzer, When
    <3>2. CASE reader = "logAnalyzer"
      <4>1. PICK c, pattern : c \in t.containers /\ pattern \in c.log /\ c.name = r.part /\ f \in LogIssue(q, c.name, pattern)
        BY <2>5, <3>2 DEF OnFound
      <4>2. LogIssue(q, c.name, pattern) = LogIssue(o, c.name, pattern)
        BY <2>8 DEF LogIssue
      <4>3. c.name = ref.part
        BY <2>2, <2>6, <3>2, <4>1
      <4> QED BY <3>2, <4>1, <4>2, <4>3 DEF OnFound
    <3>3. CASE reader = "snapshot"
      BY <2>1, <3>3 DEF OnFound
    <3> QED BY <1>3, <3>1, <3>2, <3>3 DEF FoundReaders
  <2> QED BY <2>7, <2>9 DEF Answer
<1> QED BY <1>2, <1>3, NoReferences
\* The kind of the object a finding was found in.
LEMMA PodFindings ==
  ASSUME NEW pod, NEW f \in AnalyzePod(pod)
  PROVE  f.kind = pod.kind /\ (f.part = Empty \/ \E c \in pod.containers : f.part = c.name)
<1>1. PICK type, severity, part : f = Issue("diagnostics", pod, type, severity, part)
                                  /\ (part = Empty \/ \E c \in pod.containers : part = c.name)
  <2> HIDE DEF Issue
  <2> QED BY DEF AnalyzePod, When, Reported
<1> QED BY <1>1, IssueFields

LEMMA SnapshotFindings ==
  ASSUME NEW o, o.kind \in {"Pod", "Node", "Deployment", "HorizontalPodAutoscaler", "Namespace"},
         NEW f \in SnapshotFacts(o)
  PROVE  o.kind = IF f.type = "hpaSet" THEN "HorizontalPodAutoscaler" ELSE f.kind
<1>1. CASE o.kind = "HorizontalPodAutoscaler"
  <2>1. f = Issue("snapshot", [kind |-> "Deployment", ns |-> o.ns, name |-> o.target], "hpaSet", "none", Empty)
    BY <1>1 DEF SnapshotFacts, DeploymentCollector, Fact
  <2> QED BY <1>1, <2>1, IssueFields
<1>2. CASE o.kind # "HorizontalPodAutoscaler"
  <2>1. \E type \in {"Container", "Node", "Deployment", "Namespace"} : \E part :
          f = Issue("snapshot", [kind |-> o.kind, ns |-> o.ns, name |-> o.name], type, "none", part)
    BY <1>2 DEF SnapshotFacts, PodCollector, DeploymentCollector, NamespaceCollector, Fact, When
  <2> QED BY <1>2, <2>1, IssueFields
<1> QED BY <1>1, <1>2

LEMMA KindFindings ==
  ASSUME NEW o, NEW S, NEW f \in OLMAnalyzer(o) \union StorageAnalyzer(o) \union NetworkPolicyAnalyzer(o, S)
                                   \union AnalyzeNode(o)
  PROVE  f.kind = o.kind
<1>1. \E a, type, severity, part : f = Issue(a, o, type, severity, part)
  BY DEF OLMAnalyzer, StorageAnalyzer, NetworkPolicyAnalyzer, AnalyzeNode, When
<1> QED BY <1>1, IssueFields

LEMMA EventFields ==
  ASSUME NEW a, NEW e, NEW severity, NEW f, f = EventIssue(a, e, severity)
  PROVE  /\ f.analyzer = a /\ f.kind = e.about.kind /\ f.ns = e.about.ns /\ f.name = e.about.name
         /\ f.type = e.reason /\ f.severity = severity /\ f.part = e.name
BY DEF EventIssue, Issue

\* Source names it, whichever object it is.
LEMMA SourceKind ==
  ASSUME TypeOK, NEW o \in world, NEW i \in DOMAIN Listings[reader], o.kind = Listings[reader][i], NEW f,
         \/ \E S : f \in Direct(reader, o, S)
         \/ \E ref \in References(reader, o) : MayAnswer(f, o, ref)
  PROVE  o.kind = Source(f)
<1>0. reader \in DOMAIN Listings
  BY ScanAssumption DEF TypeOK
<1>1. CASE reader \notin {"networkPolicyAnalyzer", "storageAnalyzer", "olmAnalyzer", "diagnostics", "snapshot"}
  <2>1. Len(Listings[reader]) = 1
    BY <1>0, <1>1 DEF Listings
  <2>2. DOMAIN Listings[reader] = {1}
    BY <1>0, <2>1, ListingsDomain
  <2> QED BY <1>1, <2>1, <2>2 DEF Source
<1>2. CASE reader \in {"networkPolicyAnalyzer", "storageAnalyzer", "olmAnalyzer"}
  <2>1. Len(Listings[reader]) # 1
    <3>1. /\ Listings.networkPolicyAnalyzer = <<"NetworkPolicy", "Namespace">>
          /\ Listings.storageAnalyzer = <<"PersistentVolume", "StorageClass">>
      BY DEF Listings
    <3>2. Listings.olmAnalyzer
            = <<"CatalogSource", "ClusterServiceVersion", "InstallPlan", "Subscription">>
      BY DEF Listings
    <3> QED BY <1>2, <3>1, <3>2
  <2>2. References(reader, o) = {}
    BY <1>2, NoReferences DEF MissingReaders, FoundReaders
  <2>3. PICK S : f \in OLMAnalyzer(o) \union StorageAnalyzer(o) \union NetworkPolicyAnalyzer(o, S) \union AnalyzeNode(o)
    BY <1>2, <2>2 DEF Direct
  <2> QED BY <1>2, <2>1, <2>3, KindFindings DEF Source
<1>3. CASE reader = "diagnostics"
  <2>1. Len(Listings[reader]) # 1 /\ o.kind \in {"Pod", "Event", "Node"}
    <3>1. Listings["diagnostics"] = <<"Pod", "Event", "Node">>
      BY DEF Listings
    <3> QED BY <1>3, <3>1
  <2>2. References(reader, o) = {}
    BY <1>3, NoReferences DEF MissingReaders, FoundReaders
  <2>3. PICK S : f \in Direct(reader, o, S)
    BY <2>2
  <2>4. world \in Worlds
    BY DEF TypeOK
  <2>5. CASE o.kind = "Event"
    <3>1. f = EventIssue("diagnostics", o, "warning")
      BY <1>3, <2>3, <2>5 DEF Direct, AnalyzeEvent, When
    <3>2. f.part = o.name
      BY <3>1, EventFields
    <3> QED BY <1>3, <2>5, <3>2 DEF Source
  <2>6. CASE o.kind = "Pod"
    <3>1. f \in AnalyzePod(o)
      BY <1>3, <2>3, <2>6 DEF Direct
    <3>2. f.kind = o.kind /\ (f.part = Empty \/ \E c \in o.containers : f.part = c.name)
      BY <3>1, PodFindings
    <3>3. ~\E e \in world : e.kind = "Event" /\ e.name = f.part
      BY <2>4, <2>6, <3>2, ScanAssumption
    <3> QED BY <1>3, <2>1, <3>2, <3>3 DEF Source
  <2>7. CASE o.kind = "Node"
    <3>1. f \in AnalyzeNode(o)
      BY <1>3, <2>3, <2>7 DEF Direct
    <3>2. f.kind = o.kind
      BY <3>1, KindFindings
    <3>3. f.part = Empty
      BY <3>1, IssueFields DEF AnalyzeNode, When
    <3>4. ~\E e \in world : e.kind = "Event" /\ e.name = f.part
      BY <2>4, <3>3, ScanAssumption
    <3> QED BY <1>3, <2>1, <3>2, <3>4 DEF Source
  <2> QED BY <2>1, <2>5, <2>6, <2>7
<1>4. CASE reader = "snapshot"
  <2>1. /\ Len(Listings[reader]) # 1
        /\ o.kind \in {"Pod", "Node", "Deployment", "HorizontalPodAutoscaler", "Namespace"}
    <3>1. Listings["snapshot"] = <<"Pod", "Node", "Deployment", "HorizontalPodAutoscaler", "Namespace">>
      BY DEF Listings
    <3> QED BY <1>4, <3>1
  <2>2. CASE f \in SnapshotFacts(o)
    BY <1>4, <2>1, <2>2, SnapshotFindings DEF Source
  <2>3. CASE \E ref \in References(reader, o) : MayAnswer(f, o, ref)
    <3>1. PICK ref \in References(reader, o) : MayAnswer(f, o, ref)
      BY <2>3
    <3>2. f.kind = o.kind /\ f.type \in {"HasLimitRange", "HasResourceQuota"}
      BY <1>4, <3>1, FoundAnswers DEF MayAnswer, FoundReaders
    <3> QED BY <1>4, <2>1, <3>2 DEF Source
  <2> QED BY <1>4, <2>2, <2>3 DEF Direct
<1> QED BY <1>1, <1>2, <1>3, <1>4
\* What a key in seen can hide.
LEMMA DirectHidden ==
  ASSUME NEW a, NEW o, NEW S, NEW f \in Direct(a, o, {}), f \notin Direct(a, o, S)
  PROVE  \/ /\ a = "eventAnalyzer" \/ (a = "diagnostics" /\ o.kind = "Event")
            /\ EventKey(o) \in S
            /\ \E severity : f = EventIssue(a, o, severity)
            /\ a = "diagnostics" => f.severity = "warning" /\ o.reason \notin {"Scheduled", "Pulled", "Started"}
         \/ a = "networkPolicyAnalyzer" /\ <<f.name>> \in S
<1>1. CASE a = "eventAnalyzer"
  <2>1. f \in EventAnalyzer(o, {}) /\ f \notin EventAnalyzer(o, S)
    BY <1>1 DEF Direct
  <2> QED BY <1>1, <2>1 DEF EventAnalyzer, When
<1>2. CASE a = "diagnostics" /\ o.kind = "Event"
  <2>1. f \in AnalyzeEvent(o, {}) /\ f \notin AnalyzeEvent(o, S)
    BY <1>2 DEF Direct
  <2>2. f = EventIssue(a, o, "warning") /\ EventKey(o) \in S /\ o.reason \notin {"Scheduled", "Pulled", "Started"}
    BY <1>2, <2>1 DEF AnalyzeEvent, When
  <2> QED BY <1>2, <2>2, EventFields
<1>3. CASE a = "networkPolicyAnalyzer"
  <2>1. f \in NetworkPolicyAnalyzer(o, {}) /\ f \notin NetworkPolicyAnalyzer(o, S)
    BY <1>3 DEF Direct
  <2>2. f = Issue("networkPolicyAnalyzer", o, "NoNetworkPolicy", "info", Empty) /\ <<o.name>> \in S
    BY <2>1 DEF NetworkPolicyAnalyzer, When
  <2> QED BY <1>3, <2>2, IssueFields
<1>4. CASE a \notin {"eventAnalyzer", "networkPolicyAnalyzer"} /\ ~(a = "diagnostics" /\ o.kind = "Event")
  <2>1. Direct(a, o, {}) = Direct(a, o, S)
    BY <1>4 DEF Direct
  <2> QED BY <2>1
<1> QED BY <1>1, <1>2, <1>3, <1>4

\* A ConfigMap that is missing at a moment is not there.
LEMMA ConfigMapTruth ==
  ASSUME NEW S, NEW f \in Truth("configMapAnalyzer", S)
  PROVE  /\ f.analyzer = "configMapAnalyzer" /\ f.kind = "ConfigMap" /\ f.type = "ConfigMapMissing"
         /\ \A t \in S : Identity(t) # <<"ConfigMap", f.ns, f.name>>
<1> DEFINE a == "configMapAnalyzer"
<1>1. PICK o \in Listed(a, S) : \/ f \in Direct(a, o, Policies(a, S))
                                \/ \E ref \in References(a, o) : f \in Answer(a, o, ref, S)
  BY TruthSource
<1>2. \A T : Direct(a, o, T) = {}
  BY DEF Direct
<1>3. PICK ref \in References(a, o) : f \in Answer(a, o, ref, S)
  BY <1>1, <1>2
<1>4. \A t : OnFound(a, o, ref, t) = {}
  BY DEF OnFound
<1>5. Targets(ref, S) = {} /\ f \in OnMissing(a, o, ref)
  BY <1>3, <1>4 DEF Answer
<1>6. f = Issue(a, ref, "ConfigMapMissing", "critical", o.name)
  BY <1>5 DEF OnMissing, When
<1>7. ref.kind = "ConfigMap"
  BY DEF References, ConfigMapRefs, To, Ref
<1>8. f.analyzer = a /\ f.kind = "ConfigMap" /\ f.ns = ref.ns /\ f.name = ref.name /\ f.type = "ConfigMapMissing"
  BY <1>6, <1>7, IssueFields
<1> QED BY <1>5, <1>7, <1>8 DEF Targets

\* A namespace that lacks a policy at a moment has none.
LEMMA PolicyTruth ==
  ASSUME NEW S, NEW f \in Truth("networkPolicyAnalyzer", S)
  PROVE  <<f.name>> \notin Policies("networkPolicyAnalyzer", S)
<1> DEFINE a == "networkPolicyAnalyzer"
<1>1. PICK o \in Listed(a, S) : \/ f \in Direct(a, o, Policies(a, S))
                                \/ \E ref \in References(a, o) : f \in Answer(a, o, ref, S)
  BY TruthSource
<1>2. References(a, o) = {}
  BY NoReferences DEF MissingReaders, FoundReaders
<1>3. f \in NetworkPolicyAnalyzer(o, Policies(a, S))
  BY <1>1, <1>2 DEF Direct
<1>4. f = Issue("networkPolicyAnalyzer", o, "NoNetworkPolicy", "info", Empty) /\ <<o.name>> \notin Policies(a, S)
  BY <1>3 DEF NetworkPolicyAnalyzer, When
<1> QED BY <1>4, IssueFields

\* What an instantaneous look-up answers, one of the scan may.
LEMMA AnswerMay ==
  ASSUME NEW o, NEW ref, NEW f \in Answer(reader, o, ref, cluster), TypeOK PROVE MayAnswer(f, o, ref)
BY DEF Answer, MayAnswer, Targets, TypeOK

\* What is shown stays shown while the scan goes on.
LEMMA ShownStays ==
  ASSUME NEW f, reader' = reader, past \subseteq past', found \subseteq found', Shown(f) PROVE Shown(f)'
BY DEF Shown, Hideable, Shadowed

\* A change of the cluster.
LEMMA BecomeMiss == ASSUME MissInv, NEW S, Become(S) PROVE MissInv'
<1> USE DEF MissInv
<1>1. /\ UNCHANGED <<world, reader, next, todo, refs, seen, found, result, lost>>
      /\ cluster' = S /\ past \subseteq past' /\ alwaysTrue' = alwaysTrue \intersect Truth(reader, S)
  BY DEF Become, scanVars
<1>2. LastsInv'
  BY <1>1 DEF LastsInv
<1>3. EventsSeen'
  BY <1>1 DEF EventsSeen
<1>4. \A f : Shown(f) => Shown(f)'
  BY <1>1, ShownStays
<1>5. ConfigMapsSeen'
  BY <1>1, <1>4 DEF ConfigMapsSeen
<1>6. PoliciesSeen'
  BY <1>1 DEF PoliciesSeen, Marked
<1>7. \A f : Unlisted(f) \/ Waiting(f) \/ Asked(f) => Unlisted(f)' \/ Waiting(f)' \/ Asked(f)'
  BY <1>1 DEF Unlisted, Source, Waiting, Asked, MayAnswer
<1>8. CoverInv'
  BY <1>1, <1>4, <1>7 DEF CoverInv
<1> QED BY <1>2, <1>3, <1>5, <1>6, <1>8

\* A listing: what lasts is so now, hence its object is listed.
LEMMA ListMiss == ASSUME TypeOK, MissInv, List PROVE MissInv'
<1> USE DEF MissInv
<1>1. /\ UNCHANGED <<world, reader, cluster, past, alwaysTrue, refs, seen, found, result, lost>>
      /\ todo = {} /\ refs = {} /\ next' = next + 1 /\ next <= Len(Listings[reader]) /\ result = "running"
      /\ todo' = {o \in cluster : o.kind = Listings[reader][next]}
  BY DEF List, Scanning, MayList, pastVars
<1>2. /\ reader \in DOMAIN Listings /\ Len(Listings[reader]) \in Nat
      /\ next \in Nat /\ next \in DOMAIN Listings[reader] /\ DOMAIN Listings[reader] = 1..Len(Listings[reader])
  BY <1>1, ScanAssumption, ListingsDomain, ListingsType DEF TypeOK
<1>3. LastsInv' /\ EventsSeen'
  BY <1>1 DEF LastsInv, EventsSeen
<1>4. \A f : Shown(f) => Shown(f)'
  BY <1>1, ShownStays
<1>5. ConfigMapsSeen'
  BY <1>1, <1>4 DEF ConfigMapsSeen
<1>6. PoliciesSeen'
  <2> SUFFICES ASSUME reader = "networkPolicyAnalyzer", NEW f \in alwaysTrue PROVE <<f.name>> \notin seen \union Marked'
    BY <1>1 DEF PoliciesSeen
  <2>1. Marked' \subseteq Policies(reader, cluster)
    BY <1>1, <1>2 DEF Marked, Policies, Listed
  <2>2. <<f.name>> \notin Policies(reader, cluster)
    BY PolicyTruth DEF LastsInv
  <2> QED BY <2>1, <2>2 DEF PoliciesSeen
<1>7. CoverInv'
  <2> SUFFICES ASSUME ~lost, NEW f \in alwaysTrue PROVE Unlisted(f)' \/ Waiting(f)' \/ Shown(f)'
    BY <1>1 DEF CoverInv
  <2>1. Unlisted(f) \/ Shown(f)
    BY <1>1 DEF CoverInv, Waiting, Asked
  <2>2. ASSUME NEW i \in DOMAIN Listings[reader], i >= next, i # next, Listings[reader][i] = Source(f)
        PROVE  Unlisted(f)'
    BY <1>1, <1>2, <2>2 DEF Unlisted, Source
  <2>3. CASE Listings[reader][next] = Source(f)
    <3>1. PICK o \in Listed(reader, cluster) :
            \/ f \in Direct(reader, o, Policies(reader, cluster))
            \/ \E ref \in References(reader, o) : ref.name # Empty /\ f \in Answer(reader, o, ref, cluster)
      BY TruthSource DEF LastsInv
    <3>2. o \in cluster /\ o \in world
      BY DEF Listed, TypeOK
    <3>3. \/ f \in Direct(reader, o, {})
          \/ \E ref \in References(reader, o) : ref.name # Empty /\ MayAnswer(f, o, ref)
      BY <3>1, DirectAntitone, AnswerMay
    <3>4. o.kind = Source(f)
      <4>1. PICK i \in DOMAIN Listings[reader] : o.kind = Listings[reader][i]
        BY DEF Listed
      <4>2. \/ \E T : f \in Direct(reader, o, T)
            \/ \E ref \in References(reader, o) : MayAnswer(f, o, ref)
        BY <3>3
      <4> QED BY <3>2, <4>1, <4>2, SourceKind
    <3>5. o \in todo'
      BY <1>1, <2>3, <3>2, <3>4
    <3>6. Waiting(f)'
      BY <1>1, <3>3, <3>5 DEF Waiting, MayAnswer
    <3> QED BY <3>6
  <2> QED BY <1>4, <2>1, <2>2, <2>3 DEF Unlisted
<1> QED BY <1>3, <1>5, <1>6, <1>7

\* A listing that fails: the scan ends, or something is lost.
LEMMA ListFailsMiss == ASSUME MissInv, ListFails PROVE MissInv'
<1>1. /\ UNCHANGED <<world, reader, cluster, past, alwaysTrue, todo, refs, seen>>
      /\ \/ lost' = TRUE /\ UNCHANGED <<found, result>>
         \/ result' = "error"
  BY DEF ListFails, Scanning, pastVars
<1> QED BY <1>1 DEF MissInv, LastsInv, EventsSeen, ConfigMapsSeen, PoliciesSeen, Marked, CoverInv
\* An object is looked at: what it shows is found, hidden by what was found before, or looked up.
LEMMA ExamineMiss == ASSUME TypeOK, KindInv, MissInv, NEW o \in todo, Examine(o) PROVE MissInv'
<1> USE DEF MissInv
<1>1. /\ UNCHANGED <<world, reader, cluster, next, past, alwaysTrue, result, lost>>
      /\ refs = {} /\ result = "running"
      /\ todo' = todo \ {o} /\ seen' = seen \union Marks(reader, o)
      /\ found' = found \union Direct(reader, o, seen)
      /\ refs' = {<<o, ref>> : ref \in References(reader, o)}
  BY DEF Examine, Scanning, pastVars
<1>2. o \in past /\ o \in world /\ world \in Worlds
  BY DEF TypeOK
<1>3. reader = "eventAnalyzer" => o.kind = "Event"
  <2>1. Listings["eventAnalyzer"] = <<"Event">>
    BY DEF Listings
  <2> QED BY <2>1 DEF KindInv
<1>4. \A f : Shown(f) => Shown(f)'
  BY <1>1, ShownStays
<1>5. LastsInv'
  BY <1>1 DEF LastsInv
<1>6. EventsSeen'
  <2> SUFFICES ASSUME reader \in {"eventAnalyzer", "diagnostics"}, NEW key \in seen'
               PROVE  \E e \in past :
                        /\ e.kind = "Event" /\ EventKey(e) = key
                        /\ \/ reader = "diagnostics" /\ (e.age > 60 \/ e.reason \in {"Scheduled", "Pulled", "Started"})
                           \/ \E g \in found' : SameIssue(EventIssue(reader, e, "warning"), g)
    BY <1>1 DEF EventsSeen
  <2>1. CASE key \in seen
    BY <1>1, <2>1 DEF EventsSeen
  <2>2. CASE key \notin seen
    <3>1. key \in Marks(reader, o)
      BY <1>1, <2>2
    <3>2. key = EventKey(o) /\ o.kind = "Event" /\ (reader = "eventAnalyzer" => Recent(o))
      BY <1>3, <3>1 DEF Marks, When
    <3>3. \A severity : SameIssue(EventIssue(reader, o, "warning"), EventIssue(reader, o, severity))
      BY DEF SameIssue, EventIssue, Issue
    <3>4. CASE reader = "eventAnalyzer"
      <4>1. EventAnalyzer(o, seen) \subseteq found' /\ EventAnalyzer(o, seen) # {}
        BY <1>1, <2>2, <3>2, <3>4 DEF Direct, EventAnalyzer, When
      <4>2. \A g \in EventAnalyzer(o, seen) : \E severity : g = EventIssue(reader, o, severity)
        BY <3>4 DEF EventAnalyzer, When
      <4> QED BY <1>2, <3>2, <3>3, <4>1, <4>2
    <3>5. CASE reader = "diagnostics" /\ o.age <= 60 /\ o.reason \notin {"Scheduled", "Pulled", "Started"}
      <4>1. AnalyzeEvent(o, seen) \subseteq found'
        BY <1>1, <3>2, <3>5 DEF Direct
      <4>2. EventIssue(reader, o, "warning") \in AnalyzeEvent(o, seen)
        BY <2>2, <3>2, <3>5 DEF AnalyzeEvent, When
      <4> QED BY <1>2, <3>2, <3>3, <4>1, <4>2
    <3>6. CASE reader = "diagnostics" /\ ~(o.age <= 60)
      <4>1. o.age > 60
        BY <1>2, <3>2, <3>6, ScanAssumption
      <4> QED BY <1>2, <3>2, <3>6, <4>1
    <3>7. CASE reader = "diagnostics" /\ o.reason \in {"Scheduled", "Pulled", "Started"}
      BY <1>2, <3>2, <3>7
    <3> QED BY <3>4, <3>5, <3>6, <3>7
  <2> QED BY <2>1, <2>2
<1>7. ConfigMapsSeen'
  <2>1. reader = "configMapAnalyzer" => Marks(reader, o) = {}
    BY DEF Marks
  <2> QED BY <1>1, <1>4, <2>1 DEF ConfigMapsSeen
<1>8. PoliciesSeen'
  <2>1. seen' \union Marked' = seen \union Marked
    BY <1>1 DEF Marked
  <2> QED BY <1>1, <2>1 DEF PoliciesSeen
<1>9. CoverInv'
  <2> SUFFICES ASSUME ~lost, NEW f \in alwaysTrue
               PROVE  Unlisted(f)' \/ Waiting(f)' \/ Asked(f)' \/ Shown(f)'
    BY <1>1 DEF CoverInv
  <2>1. Unlisted(f) \/ Waiting(f) \/ Shown(f)
    BY <1>1 DEF CoverInv, Asked
  <2>2. CASE Unlisted(f)
    BY <1>1, <2>2 DEF Unlisted, Source
  <2>3. CASE \E q \in todo : q # o /\ (\/ f \in Direct(reader, q, {})
                                      \/ \E ref \in References(reader, q) : ref.name # Empty /\ MayAnswer(f, q, ref))
    BY <1>1, <2>3 DEF Waiting, MayAnswer
  <2>4. CASE \E ref \in References(reader, o) : ref.name # Empty /\ MayAnswer(f, o, ref)
    <3>1. PICK ref \in References(reader, o) : ref.name # Empty /\ MayAnswer(f, o, ref)
      BY <2>4
    <3>2. <<o, ref>> \in refs' /\ MayAnswer(f, o, ref)'
      BY <1>1, <3>1 DEF MayAnswer
    <3>3. PICK p : p = <<o, ref>>
      OBVIOUS
    <3>4. p \in refs' /\ p[2].name # Empty /\ MayAnswer(f, p[1], p[2])'
      BY <3>1, <3>2, <3>3
    <3> QED BY <3>4 DEF Asked
  <2>5. CASE f \in Direct(reader, o, seen)
    BY <1>1, <2>5 DEF Shown
  <2>6. CASE f \in Direct(reader, o, {}) /\ f \notin Direct(reader, o, seen)
    <3>1. CASE reader = "networkPolicyAnalyzer" /\ <<f.name>> \in seen
      BY <3>1 DEF PoliciesSeen
    <3>2. CASE reader # "networkPolicyAnalyzer"
      <4>1. /\ reader = "eventAnalyzer" \/ (reader = "diagnostics" /\ o.kind = "Event")
            /\ EventKey(o) \in seen
            /\ \E severity : f = EventIssue(reader, o, severity)
            /\ reader = "diagnostics" => f.severity = "warning" /\ o.reason \notin {"Scheduled", "Pulled", "Started"}
        BY <2>6, <3>2, DirectHidden
      <4>2. /\ f.analyzer = reader /\ f.kind = o.about.kind
            /\ EventKey(o) = <<f.ns, f.name, f.type>> /\ f.type = o.reason
        BY <4>1, EventFields DEF EventKey
      <4>3. Hideable(f)
        BY <4>1 DEF Hideable
      <4>4. PICK e \in past :
              /\ e.kind = "Event" /\ EventKey(e) = EventKey(o)
              /\ \/ reader = "diagnostics" /\ (e.age > 60 \/ e.reason \in {"Scheduled", "Pulled", "Started"})
                 \/ \E g \in found : SameIssue(EventIssue(reader, e, "warning"), g)
        BY <1>1, <4>1 DEF EventsSeen
      <4>5. e.reason = o.reason /\ e.about.ns = f.ns /\ e.about.name = f.name
        BY <4>2, <4>4 DEF EventKey
      <4>6. CASE e.about.kind # f.kind
        <5>1. Shadowed(f)
          BY <4>1, <4>2, <4>4, <4>6 DEF Shadowed
        <5> QED BY <1>4, <4>3, <5>1 DEF Shown
      <4>7. CASE e.about.kind = f.kind /\ \E g \in found : SameIssue(EventIssue(reader, e, "warning"), g)
        <5>1. PICK g \in found : SameIssue(EventIssue(reader, e, "warning"), g)
          BY <4>7
        <5>2. SameIssue(f, g)
          BY <4>2, <4>5, <4>7, <5>1, EventFields DEF SameIssue
        <5>3. Shown(f)
          BY <4>3, <5>2 DEF Shown
        <5> QED BY <1>4, <5>3
      <4>8. CASE reader = "diagnostics" /\ e.age > 60
        <5>1. Shadowed(f)
          BY <4>2, <4>4, <4>8 DEF Shadowed
        <5> QED BY <1>4, <4>3, <5>1 DEF Shown
      <4> QED BY <4>1, <4>4, <4>5, <4>6, <4>7, <4>8
    <3> QED BY <2>6, <3>1, <3>2, DirectHidden
  <2> QED BY <1>4, <2>1, <2>2, <2>3, <2>4, <2>5, <2>6 DEF Waiting
<1> QED BY <1>5, <1>6, <1>7, <1>8, <1>9

\* A look-up: what lasts is answered, unless it was already.
LEMMA LookUpMiss == ASSUME TypeOK, KindInv, MissInv, NEW p \in refs, LookUp(p) PROVE MissInv'
<1> USE DEF MissInv
<1>1. /\ UNCHANGED <<world, reader, cluster, next, todo, past, alwaysTrue, result, lost>>
      /\ result = "running" /\ refs' = refs \ {p}
      /\ found' = IF Known(p[2]) THEN found ELSE found \union Answer(reader, p[1], p[2], cluster)
      /\ seen' = Remember(p[2])
  BY DEF LookUp, Scanning, pastVars
<1>2. p[1] \in past /\ p[2] \in References(reader, p[1])
  BY DEF TypeOK
<1>3. reader # "configMapAnalyzer" => seen' = seen /\ found' = found \union Answer(reader, p[1], p[2], cluster)
  BY <1>1 DEF Remember, Known
<1>4. \A f : Shown(f) => Shown(f)'
  BY <1>1, ShownStays
<1>5. LastsInv' /\ EventsSeen' /\ PoliciesSeen'
  BY <1>1, <1>3 DEF LastsInv, EventsSeen, PoliciesSeen, Marked
<1>6. /\ reader = "logAnalyzer" \/ reader = "configMapAnalyzer" => p[1].kind = "Pod"
      /\ reader = "logAnalyzer" => \A q \in Listed(reader, cluster) : q.kind = "Pod"
  <2>1. Listings["logAnalyzer"] = <<"Pod">> /\ Listings["configMapAnalyzer"] = <<"Pod">>
    BY DEF Listings
  <2> QED BY <2>1 DEF KindInv, Listed
<1>7. ConfigMapsSeen'
  <2> SUFFICES ASSUME reader = "configMapAnalyzer", ~lost, NEW f \in alwaysTrue, <<f.ns, f.name>> \in seen'
               PROVE  Shown(f)'
    BY <1>1 DEF ConfigMapsSeen
  <2>1. CASE <<f.ns, f.name>> \in seen
    BY <1>1, <1>4, <2>1 DEF ConfigMapsSeen
  <2>2. CASE <<f.ns, f.name>> \notin seen
    <3>1. Key(p[2]) = <<f.ns, f.name>> /\ ~Known(p[2])
      BY <1>1, <2>2 DEF Remember, Known
    <3>2. /\ f.analyzer = "configMapAnalyzer" /\ f.kind = "ConfigMap" /\ f.type = "ConfigMapMissing"
          /\ \A t \in cluster : Identity(t) # <<"ConfigMap", f.ns, f.name>>
      BY ConfigMapTruth DEF LastsInv
    <3>3. p[2] \in ConfigMapRefs(p[1]) /\ p[2].kind = "ConfigMap" /\ p[2].ns = f.ns /\ p[2].name = f.name
      BY <1>2, <3>1 DEF References, ConfigMapRefs, To, Ref, Key
    <3>4. OnMissing(reader, p[1], p[2]) \subseteq found'
      <4>1. Targets(p[2], cluster) = {}
        BY <3>2, <3>3 DEF Targets
      <4> QED BY <1>1, <3>1, <4>1 DEF Answer
    <3>5. CASE p[2].optional
      <4>1. Shadowed(f)
        BY <1>2, <1>6, <3>1, <3>2, <3>3, <3>5 DEF Shadowed
      <4> QED BY <1>4, <4>1 DEF Shown, Hideable
    <3>6. CASE ~p[2].optional
      <4> DEFINE g == Issue(reader, p[2], "ConfigMapMissing", "critical", p[1].name)
      <4>1. g \in found'
        BY <3>4, <3>6 DEF OnMissing, When
      <4>2. SameIssue(f, g)
        BY <3>2, <3>3, IssueFields DEF SameIssue
      <4> HIDE DEF g
      <4> QED BY <1>1, <4>1, <4>2 DEF Shown, Hideable
    <3> QED BY <3>5, <3>6
  <2> QED BY <2>1, <2>2
<1>8. CoverInv'
  <2> SUFFICES ASSUME ~lost, NEW f \in alwaysTrue
               PROVE  Unlisted(f)' \/ Waiting(f)' \/ Asked(f)' \/ Shown(f)'
    BY <1>1 DEF CoverInv
  <2>1. Unlisted(f) \/ Waiting(f) \/ Asked(f) \/ Shown(f)
    BY <1>1 DEF CoverInv
  <2>2. CASE Unlisted(f) \/ Waiting(f)
    BY <1>1, <2>2 DEF Unlisted, Source, Waiting, MayAnswer
  <2>3. CASE \E q \in refs : q # p /\ q[2].name # Empty /\ MayAnswer(f, q[1], q[2])
    BY <1>1, <2>3 DEF Asked, MayAnswer
  <2>4. CASE MayAnswer(f, p[1], p[2])
    <3>1. CASE reader # "configMapAnalyzer"
      <4>1. f \in Answer(reader, p[1], p[2], cluster)
        BY <1>2, <1>6, <2>4, <3>1, AnswerStable DEF LastsInv
      <4> QED BY <1>3, <3>1, <4>1 DEF Shown
    <3>2. CASE reader = "configMapAnalyzer"
      <4>1. f \in OnMissing(reader, p[1], p[2])
        BY <2>4, <3>2 DEF MayAnswer, OnFound
      <4>2. f = Issue(reader, p[2], "ConfigMapMissing", "critical", p[1].name)
        BY <3>2, <4>1 DEF OnMissing, When
      <4>3. <<f.ns, f.name>> = Key(p[2])
        BY <4>2, IssueFields DEF Key
      <4>4. Key(p[2]) \in seen'
        BY <1>1, <3>2 DEF Remember
      <4> QED BY <1>1, <1>7, <3>2, <4>3, <4>4 DEF ConfigMapsSeen
    <3> QED BY <3>1, <3>2
  <2> QED BY <1>4, <2>1, <2>2, <2>3, <2>4 DEF Asked
<1> QED BY <1>5, <1>7, <1>8

\* A look-up that fails is counted.
LEMMA LookUpFailsMiss == ASSUME TypeOK, MissInv, NEW p \in refs, LookUpFails(p) PROVE MissInv'
<1>1. /\ UNCHANGED <<world, reader, cluster, next, todo, past, alwaysTrue, result>>
      /\ lost' = TRUE /\ found \subseteq found' /\ seen' = Remember(p[2])
  BY DEF LookUpFails, Scanning, pastVars
<1>2. reader # "configMapAnalyzer" => seen' = seen
  BY <1>1 DEF Remember
<1> QED BY <1>1, <1>2 DEF MissInv, LastsInv, EventsSeen, ConfigMapsSeen, PoliciesSeen, Marked, CoverInv

\* At the end nothing is left to list, to examine or to look up.
LEMMA FinishMiss == ASSUME TypeOK, MissInv, Finish PROVE MissInv'
<1>1. /\ UNCHANGED <<world, reader, cluster, next, todo, past, alwaysTrue, refs, seen, found, lost>>
      /\ todo = {} /\ refs = {} /\ next > Len(Listings[reader]) /\ result = "running" /\ result' = "ok"
  BY DEF Finish, Scanning, pastVars
<1>2. DOMAIN Listings[reader] = 1..Len(Listings[reader]) /\ Len(Listings[reader]) \in Nat /\ next \in Nat
  BY ScanAssumption, ListingsDomain, ListingsType DEF TypeOK
<1>3. \A f : ~Unlisted(f) /\ ~Waiting(f) /\ ~Asked(f)
  BY <1>1, <1>2 DEF Unlisted, Waiting, Asked
<1>4. \A f : Shown(f) => Shown(f)'
  BY <1>1, ShownStays
<1>5. CoverInv'
  BY <1>1, <1>3, <1>4 DEF MissInv, CoverInv
<1>6. LastsInv' /\ EventsSeen' /\ ConfigMapsSeen' /\ PoliciesSeen'
  BY <1>1 DEF MissInv, LastsInv, EventsSeen, ConfigMapsSeen, PoliciesSeen, Marked
<1> QED BY <1>5, <1>6 DEF MissInv

LEMMA MissStep == TypeOK /\ KindInv /\ MissInv /\ [Next]_vars => MissInv'
<1> SUFFICES ASSUME TypeOK, KindInv, MissInv, [Next]_vars PROVE MissInv'
  OBVIOUS
<1>1. CASE Appear \/ Disappear \/ Update
  BY <1>1, BecomeMiss DEF Appear, Disappear, Update
<1>2. ASSUME NEW p \in refs, Panic(p) PROVE MissInv'
  <2>1. UNCHANGED <<world, reader, cluster, past, alwaysTrue, todo, seen>> /\ result' = "panic"
    BY <1>2 DEF Panic, Scanning, pastVars
  <2> QED BY <2>1 DEF MissInv, LastsInv, EventsSeen, ConfigMapsSeen, PoliciesSeen, Marked, CoverInv
<1>3. CASE UNCHANGED vars
  <2>1. /\ UNCHANGED <<world, reader, cluster, next, past, alwaysTrue, todo, refs, seen, found, lost, result>>
    BY <1>3 DEF vars, scanVars, pastVars
  <2>2. \A f : Shown(f) => Shown(f)'
    BY <2>1, ShownStays
  <2>3. \A f : Unlisted(f) \/ Waiting(f) \/ Asked(f) => Unlisted(f)' \/ Waiting(f)' \/ Asked(f)'
    BY <2>1 DEF Unlisted, Source, Waiting, Asked, MayAnswer
  <2>4. CoverInv' /\ ConfigMapsSeen'
    BY <2>1, <2>2, <2>3 DEF MissInv, CoverInv, ConfigMapsSeen
  <2> QED BY <2>1, <2>4 DEF MissInv, LastsInv, EventsSeen, PoliciesSeen, Marked
<1> QED BY <1>1, <1>2, <1>3, ListMiss, ListFailsMiss, ExamineMiss, LookUpMiss, LookUpFailsMiss, FinishMiss DEF Next

\* Before the first listing, every kind a finding can have its source in is still to be listed.
LEMMA MissInit == Init => MissInv
<1> SUFFICES ASSUME Init PROVE MissInv
  OBVIOUS
<1>1. LastsInv /\ EventsSeen /\ ConfigMapsSeen /\ PoliciesSeen
  BY DEF Init, LastsInv, EventsSeen, ConfigMapsSeen, PoliciesSeen, Marked
<1>2. ASSUME NEW f \in alwaysTrue PROVE Unlisted(f)
  <2>1. TypeOK
    BY TypeInit
  <2>2. f \in Truth(reader, cluster) /\ next = 1 /\ cluster \subseteq world
    BY DEF Init
  <2>3. PICK o \in Listed(reader, cluster) :
          \/ f \in Direct(reader, o, Policies(reader, cluster))
          \/ \E ref \in References(reader, o) : ref.name # Empty /\ f \in Answer(reader, o, ref, cluster)
    BY <2>2, TruthSource
  <2>4. PICK i \in DOMAIN Listings[reader] : o.kind = Listings[reader][i]
    BY DEF Listed
  <2>5. o \in world
    BY <2>2 DEF Listed
  <2>6. \/ \E T : f \in Direct(reader, o, T)
        \/ \E ref \in References(reader, o) : MayAnswer(f, o, ref)
    BY <2>1, <2>3, AnswerMay
  <2>7. o.kind = Source(f)
    BY <2>1, <2>4, <2>5, <2>6, SourceKind
  <2>8. i >= next
    BY <2>1, <2>2, <2>4, ScanAssumption, ListingsDomain, ListingsType DEF TypeOK
  <2> QED BY <2>4, <2>7, <2>8 DEF Unlisted
<1>3. CoverInv
  BY <1>2 DEF Init, CoverInv
<1> QED BY <1>1, <1>3 DEF MissInv

\* A problem that lasts during the whole scan is reported, whatever else changes, if the scan ends well
\* and no error was dropped; only the first event or reference of a kind may hide it.
THEOREM LastingProblemsShown == Spec => []NothingMissed
<1>1. FindInv => KindInv
  BY DEF FindInv
<1>2. MissInv => NothingMissed
  <2>1. ASSUME NEW f, f \in found PROVE \E g \in found : SameIssue(f, g)
    BY <2>1 DEF SameIssue
  <2> QED BY <2>1 DEF MissInv, CoverInv, Shown, NothingMissed
<1>3. Init => FindInv
  BY DEF Init, FindInv, PastInv, KindInv, TodoInv, PolicyInv, NothingInvented
<1> QED BY <1>1, <1>2, <1>3, MissInit, TypeInit, TypeStep, FindStep, MissStep, PTL DEF Spec
-----------------------------------------------------------------------------
(***************************************************************************)
(* The health score.                                                       *)
(***************************************************************************)

\* At most one finding under a condition; two sets of findings.
LEMMA WhenFinite == ASSUME NEW c, NEW f PROVE IsFiniteSet(When(c, f))
BY FS_EmptySet, FS_Singleton DEF When

LEMMA BothFinite == ASSUME NEW F, NEW G, IsFiniteSet(F), IsFiniteSet(G) PROVE IsFiniteSet(F \union G)
BY FS_Union

\* A pod has finitely many containers, each with finitely many findings.
LEMMA PodFinite == ASSUME NEW pod, IsFiniteSet(pod.containers) PROVE IsFiniteSet(AnalyzePod(pod))
<1> DEFINE Found(type, severity, part) == Issue("diagnostics", pod, type, severity, part)
           OfContainer(c) == When(c.waiting = "CrashLoopBackOff", Found("CrashLoopBackOff", "critical", c.name))
                             \union When(c.oom, Found("OOMKilled", "critical", c.name))
                             \union When(c.waiting \in {"ImagePullBackOff", "ErrImagePull"},
                                         Found("ImagePullError", "critical", c.name))
                             \union When(c.restarts > 10, Found("HighRestartCount", "warning", c.name))
           OfPod == When(pod.phase = "Failed" /\ pod.reason = "Evicted", Found("Evicted", "warning", Empty))
                    \union When(pod.phase = "Pending" /\ pod.age > 5,
                                Found(IF pod.condition = "Unschedulable" THEN "Unschedulable" ELSE "Pending",
                                      "critical", Empty))
           parts == {OfContainer(c) : c \in Reported(pod)}
<1>1. AnalyzePod(pod) = OfPod \union UNION parts
  BY DEF AnalyzePod
<1>2. IsFiniteSet(OfPod)
  <2> HIDE DEF Found
  <2> QED BY WhenFinite, BothFinite
<1>3. \A c : IsFiniteSet(OfContainer(c))
  <2> HIDE DEF Found
  <2> QED BY WhenFinite, BothFinite
<1> HIDE DEF OfContainer, OfPod
<1>4. IsFiniteSet(Reported(pod))
  BY FS_Subset DEF Reported
<1>5. [c \in Reported(pod) |-> OfContainer(c)] \in Surjection(Reported(pod), parts)
  BY DEF Surjection
<1>6. IsFiniteSet(parts)
  BY <1>4, <1>5, FS_Surjection
<1>7. IsFiniteSet(UNION parts)
  BY <1>3, <1>6, FS_UNION
<1> QED BY <1>1, <1>2, <1>7, BothFinite

\* What the collector has found is finite.
FoundFinite == reader = "diagnostics" => IsFiniteSet(found)

LEMMA DirectFinite ==
  ASSUME TypeOK, NEW o \in past, NEW S PROVE IsFiniteSet(Direct("diagnostics", o, S))
<1>1. o \in world /\ world \in Worlds
  BY DEF TypeOK
<1>2. CASE o.kind = "Pod"
  <2>1. IsFiniteSet(AnalyzePod(o))
    BY <1>1, <1>2, ScanAssumption, PodFinite
  <2> QED BY <1>2, <2>1 DEF Direct
<1>3. CASE o.kind = "Event"
  <2>1. IsFiniteSet(AnalyzeEvent(o, S))
    BY WhenFinite DEF AnalyzeEvent
  <2> QED BY <1>3, <2>1 DEF Direct
<1>4. CASE o.kind = "Node"
  <2>1. IsFiniteSet(AnalyzeNode(o))
    BY WhenFinite DEF AnalyzeNode
  <2> QED BY <1>4, <2>1 DEF Direct
<1>5. CASE o.kind \notin {"Pod", "Event", "Node"}
  BY <1>5, FS_EmptySet DEF Direct
<1> QED BY <1>2, <1>3, <1>4, <1>5

LEMMA FiniteStep == TypeOK /\ FoundFinite /\ [Next]_vars => FoundFinite'
<1> SUFFICES ASSUME TypeOK, FoundFinite, [Next]_vars, reader' = "diagnostics" PROVE IsFiniteSet(found')
  BY DEF FoundFinite
<1>1. ASSUME reader' = reader, found' \in {{}, found} PROVE IsFiniteSet(found')
  BY <1>1, FS_EmptySet DEF FoundFinite
<1>2. CASE Appear \/ Disappear \/ Update
  BY <1>1, <1>2 DEF Appear, Disappear, Update, Become, scanVars
<1>3. CASE List \/ ListFails \/ Finish
  BY <1>1, <1>3 DEF List, ListFails, Finish, Scanning
<1>4. ASSUME NEW o \in todo, Examine(o) PROVE IsFiniteSet(found')
  <2>1. reader = "diagnostics" /\ found' = found \union Direct(reader, o, seen) /\ o \in past
    BY <1>4 DEF Examine, Scanning, TypeOK
  <2> QED BY <2>1, DirectFinite, BothFinite DEF FoundFinite
<1>5. ASSUME NEW p \in refs, LookUp(p) \/ LookUpFails(p) \/ Panic(p) PROVE IsFiniteSet(found')
  <2>1. reader = "diagnostics" /\ p[2] \in References(reader, p[1])
    BY <1>5 DEF LookUp, LookUpFails, Panic, Scanning, TypeOK
  <2> QED BY <2>1, NoReferences DEF MissingReaders, FoundReaders
<1>6. CASE UNCHANGED vars
  BY <1>1, <1>6 DEF vars, scanVars
<1> QED BY <1>2, <1>3, <1>4, <1>5, <1>6 DEF Next

\* A finished collector has scored what it found.
ScoredInv == result = "ok" => health = Scored(found)

LEMMA ScoredStep == ScoredInv /\ [Next]_vars => ScoredInv'
BY DEF ScoredInv, Scored, Next, Appear, Disappear, Update, Become, List, ListFails, Examine, LookUp, LookUpFails,
       Panic, Finish, Scanning, vars, scanVars

\* The score of a finite set of findings, with its critical ones.
LEMMA ScoreOfCritical ==
  ASSUME NEW F, IsFiniteSet(F), NEW A, \A f \in A : f.severity = "critical" => f \in F
  PROVE  computeHealthScore(F) = 0 \/ computeHealthScore(F) + 15 * Severe(A, "critical") <= 100
<1>1. \A s : Severe(F, s) \in Nat
  <2> TAKE s
  <2>1. {f \in F : f.severity = s} \in SUBSET F
    OBVIOUS
  <2> HIDE DEF Severe
  <2> QED BY <2>1, FS_Subset, FS_CardinalityType DEF Severe
<1>2. Severe(A, "critical") \in Nat /\ Severe(A, "critical") <= Severe(F, "critical")
  <2>1. {f \in A : f.severity = "critical"} \in SUBSET {f \in F : f.severity = "critical"}
    OBVIOUS
  <2>2. IsFiniteSet({f \in F : f.severity = "critical"})
    BY FS_Subset
  <2> QED BY <2>1, <2>2, FS_Subset, FS_CardinalityType DEF Severe
<1> HIDE DEF Severe
<1> QED BY <1>1, <1>2 DEF computeHealthScore

\* Every critical problem that lasts during the scan of the diagnostics collector costs its 15 points,
\* whatever else is found and however the cluster changes, unless an error was dropped.
THEOREM CriticalProblemsWeigh == Spec => []HealthTellsTruth
<1>1. FindInv => KindInv
  BY DEF FindInv
<1>2. MissInv /\ FoundFinite /\ ScoredInv => HealthTellsTruth
  <2> SUFFICES ASSUME MissInv, FoundFinite, ScoredInv, reader = "diagnostics", result = "ok", ~lost
               PROVE  health = 0 \/ health + 15 * Severe(alwaysTrue, "critical") <= 100
    BY DEF HealthTellsTruth
  <2>1. \A f \in alwaysTrue : f.severity = "critical" => f \in found
    BY DEF MissInv, CoverInv, Shown, Hideable
  <2>2. health = computeHealthScore(found) /\ IsFiniteSet(found)
    BY DEF ScoredInv, Scored, FoundFinite
  <2> QED BY <2>1, <2>2, ScoreOfCritical
<1>3. Init => FindInv
  BY DEF Init, FindInv, PastInv, KindInv, TodoInv, PolicyInv, NothingInvented
<1>4. Init => FoundFinite /\ ScoredInv
  BY FS_EmptySet DEF Init, FoundFinite, ScoredInv
<1> QED BY <1>1, <1>2, <1>3, <1>4, MissInit, TypeInit, TypeStep, FindStep, MissStep, FiniteStep, ScoredStep, PTL
        DEF Spec
=============================================================================
