----------------------------- MODULE ClusterScan -----------------------------
(***************************************************************************)
(* One reader of the agent at work on a cluster that changes meanwhile: an *)
(* analyzer, the diagnostics collector or the collector of the snapshots.  *)
(* It lists objects kind by kind and looks up what they refer to one by    *)
(* one, so it never sees the cluster at one moment.  Readers share nothing *)
(* but the cluster: AnalyzerRegistry runs them side by side.               *)
(***************************************************************************)
EXTENDS Analyzers, FiniteSets

CONSTANTS Worlds,     \* families of objects; a cluster holds objects of one of them
          Configs,    \* what may be switched on in the registry
          MaxObjects, \* bound: objects of the cluster
          MaxChanges, \* bound: changes of the cluster during the scan
          MaxFaults   \* bound: calls to the cluster that fail

Readers == (UNION {Registered(c) : c \in Configs}) \union {"diagnostics", "snapshot"}

\* The name of an event has a dot, which that of a container has not.
ASSUME ScanAssumption == /\ Readers \subseteq DOMAIN Listings
                         /\ \A W \in Worlds : \A o \in W : o.kind = "Event" => o.age \in Nat /\ o.name # Empty
                         /\ \A W \in Worlds : \A o \in W : o.kind = "Pod" =>
                              /\ IsFiniteSet(o.containers)
                              /\ \A c \in o.containers : \A e \in W : e.kind = "Event" => e.name # c.name
                         /\ MaxObjects \in Nat
                         /\ MaxChanges \in Nat
                         /\ MaxFaults \in Nat

VARIABLES
  world,      \* the objects that may exist
  cluster,    \* the objects that exist
  reader,     \* who scans
  next,       \* the number of its next listing
  todo,       \* listed objects it has not examined
  refs,       \* look-ups it still has to do for the object it examined last
  seen,       \* what it remembers to have met
  found,      \* its findings
  result,     \* "running", then "ok", "error" or "panic"
  lost,       \* whether a call failed and it went on
  health,     \* the health score of the diagnostics collector, 101 without one
  past,       \* all objects that have existed since it began
  touched,    \* what has appeared, changed or gone since it began
  everTrue,   \* findings of an instantaneous scan at some moment since
  alwaysTrue, \* findings of an instantaneous scan at every moment since
  changes, faults

scanVars == <<next, todo, refs, seen, found, result, lost, health>>
pastVars == <<past, touched, everTrue, alwaysTrue, changes>>
vars == <<world, cluster, reader, scanVars, pastVars, faults>>

Unscored == 101

Severe(F, severity) == Cardinality({f \in F : f.severity = severity})

\* The penalties of the registry's score (HealthScore), in the collector's own code.
computeHealthScore(F) ==
  LET penalty == 15 * Severe(F, "critical") + 5 * Severe(F, "warning") + Severe(F, "info")
  IN IF penalty > 100 THEN 0 ELSE 100 - penalty

Identity(o) == <<o.kind, o.ns, o.name>>

\* One object of a name, and what belongs to a namespace does not outlive it.
Consistent(S) ==
  /\ Cardinality(S) <= MaxObjects
  /\ \A o, p \in S : Identity(o) = Identity(p) => o = p
  /\ \A o \in S : o.kind \in {"NetworkPolicy", "ResourceQuota", "LimitRange"} =>
                    \E n \in S : n.kind = "Namespace" /\ n.name = o.ns

(***************************************************************************)
(* The instantaneous scan: all listings and look-ups in one moment, no     *)
(* call fails, nothing is reported only once.                              *)
(***************************************************************************)

Listed(a, S) == {o \in S : \E i \in DOMAIN Listings[a] : o.kind = Listings[a][i]}

Targets(ref, S) == {t \in S : Identity(t) = <<ref.kind, ref.ns, ref.name>>}

Answer(a, o, ref, S) == IF Targets(ref, S) = {} THEN OnMissing(a, o, ref)
                        ELSE UNION {OnFound(a, o, ref, t) : t \in Targets(ref, S)}

Policies(a, S) == IF a = "networkPolicyAnalyzer" THEN UNION {Marks(a, o) : o \in Listed(a, S)} ELSE {}

Truth(a, S) ==
  UNION {Direct(a, o, Policies(a, S))
           \union UNION {Answer(a, o, ref, S) : ref \in {r \in References(a, o) : r.name # Empty}}
         : o \in Listed(a, S)}

Init ==
  /\ world \in Worlds
  /\ cluster \in {S \in SUBSET world : Consistent(S)}
  /\ reader \in {a \in Readers : Listed(a, world) # {}}
  /\ next = 1
  /\ todo = {}
  /\ refs = {}
  /\ seen = {}
  /\ found = {}
  /\ result = "running"
  /\ lost = FALSE
  /\ health = Unscored
  /\ past = cluster
  /\ touched = {}
  /\ everTrue = Truth(reader, cluster)
  /\ alwaysTrue = Truth(reader, cluster)
  /\ changes = 0
  /\ faults = 0

(***************************************************************************)
(* The cluster.                                                            *)
(***************************************************************************)

\* The cluster becomes S.
Become(S) ==
  /\ result = "running"
  /\ changes < MaxChanges
  /\ Consistent(S)
  /\ cluster' = S
  /\ past' = past \union S
  /\ touched' = touched \union {Identity(o) : o \in (S \ cluster) \union (cluster \ S)}
  /\ everTrue' = everTrue \union Truth(reader, S)
  /\ alwaysTrue' = alwaysTrue \intersect Truth(reader, S)
  /\ changes' = changes + 1
  /\ UNCHANGED <<world, reader, scanVars, faults>>

Appear == \E o \in world \ cluster : Become(cluster \union {o})

Disappear == \E o \in cluster : Become(cluster \ {o})

Update == \E o \in cluster, p \in world \ cluster :
            Identity(o) = Identity(p) /\ Become((cluster \ {o}) \union {p})

(***************************************************************************)
(* The reader.                                                             *)
(***************************************************************************)

Scanning == result = "running" /\ UNCHANGED <<world, cluster, reader, pastVars>>

MayList == todo = {} /\ refs = {} /\ next <= Len(Listings[reader])

\* A listing: the objects of one kind as they are now.
List ==
  /\ Scanning
  /\ MayList
  /\ todo' = {o \in cluster : o.kind = Listings[reader][next]}
  /\ next' = next + 1
  /\ UNCHANGED <<refs, seen, found, result, lost, health, faults>>

\* A listing fails: the reader gives up without findings, or drops the error.
ListFails ==
  /\ Scanning
  /\ MayList
  /\ faults < MaxFaults
  /\ faults' = faults + 1
  /\ IF Tolerated(reader, Listings[reader][next])
     THEN next' = next + 1 /\ lost' = TRUE /\ UNCHANGED <<found, result>>
     ELSE found' = {} /\ result' = "error" /\ UNCHANGED <<next, lost>>
  /\ UNCHANGED <<todo, refs, seen, health>>

\* Looks at a listed object.
Examine(o) ==
  /\ Scanning
  /\ refs = {}
  /\ todo' = todo \ {o}
  /\ found' = found \union Direct(reader, o, seen)
  /\ seen' = seen \union Marks(reader, o)
  /\ refs' = {<<o, ref>> : ref \in References(reader, o)}
  /\ UNCHANGED <<next, result, lost, health, faults>>

\* A ConfigMap is looked up for the first reference to it only.
Key(ref) == <<ref.ns, ref.name>>
Known(ref) == reader = "configMapAnalyzer" /\ Key(ref) \in seen
RememberNothing(ref) == seen  \* mutant
Remember(ref) == IF reader = "configMapAnalyzer" THEN seen \union {Key(ref)} ELSE seen

Due(p) == \A q \in refs : p[2].rank <= q[2].rank

LookUpInDefault(p) ==  \* mutant: the namespace is forgotten
  /\ Scanning
  /\ Due(p)
  /\ p[2].name # Empty
  /\ refs' = refs \ {p}
  /\ found' = IF Known(p[2]) THEN found
              ELSE found \union Answer(reader, p[1], [p[2] EXCEPT !.ns = "default"], cluster)
  /\ seen' = Remember(p[2])
  /\ UNCHANGED <<next, todo, result, lost, health, faults>>

\* Looks up what a reference names, as it is now.
LookUp(p) ==
  /\ Scanning
  /\ Due(p)
  /\ p[2].name # Empty
  /\ refs' = refs \ {p}
  /\ found' = IF Known(p[2]) THEN found ELSE found \union Answer(reader, p[1], p[2], cluster)
  /\ seen' = Remember(p[2])
  /\ UNCHANGED <<next, todo, result, lost, health, faults>>

\* The call fails: the code takes that for a missing object.
LookUpFails(p) ==
  /\ Scanning
  /\ Due(p)
  /\ p[2].name # Empty
  /\ ~Known(p[2])
  /\ faults < MaxFaults
  /\ faults' = faults + 1
  /\ lost' = TRUE
  /\ refs' = refs \ {p}
  /\ found' = found \union OnMissing(reader, p[1], p[2])
  /\ seen' = Remember(p[2])
  /\ UNCHANGED <<next, todo, result, health>>

\* A path of an ingress without service: a nil pointer, which ends the process.
Panic(p) ==
  /\ Scanning
  /\ p[2].name = Empty
  /\ result' = "panic"
  /\ found' = {}
  /\ UNCHANGED <<next, todo, refs, seen, lost, health, faults>>

ScoredById(F) ==  \* mutant: issues with one ID, as those of two containers may be, count once
  IF reader = "diagnostics" THEN computeHealthScore({[f EXCEPT !.part = Empty] : f \in F}) ELSE Unscored
Scored(F) == IF reader = "diagnostics" THEN computeHealthScore(F) ELSE Unscored

Finish ==
  /\ Scanning
  /\ todo = {}
  /\ refs = {}
  /\ next > Len(Listings[reader])
  /\ result' = "ok"
  /\ health' = Scored(found)
  /\ UNCHANGED <<next, todo, refs, seen, found, lost, faults>>

Next ==
  \/ Appear
  \/ Disappear
  \/ Update
  \/ List
  \/ ListFails
  \/ \E o \in todo : Examine(o)
  \/ \E p \in refs : LookUp(p) \/ LookUpFails(p) \/ Panic(p)
  \/ Finish

Spec == Init /\ [][Next]_vars

(***************************************************************************)
(* Properties.                                                             *)
(***************************************************************************)

Objects == UNION Worlds

\* Types: what is in the reader's hands existed, findings have a severity, and only a finished
\* diagnostics collector has a score.
TypeOK ==
  /\ world \in Worlds
  /\ cluster \subseteq past
  /\ reader \in Readers
  /\ next \in Nat /\ next >= 1 /\ next <= Len(Listings[reader]) + 1
  /\ todo \subseteq past
  /\ past \subseteq world
  /\ \A p \in refs : p[1] \in past /\ p[2] \in References(reader, p[1])
  /\ \A f \in found : f.severity \in Severities
  /\ result \in {"running", "ok", "error", "panic"}
  /\ lost \in BOOLEAN
  /\ health # Unscored => reader = "diagnostics" /\ result = "ok"
  /\ changes \in Nat /\ changes <= MaxChanges
  /\ faults \in Nat /\ faults <= MaxFaults

\* Where a finding comes from: the object it is about, or the pod that needs a ConfigMap.
Referrer(f) == IF f.type = "ConfigMapMissing" THEN <<"Pod", f.ns, f.part>> ELSE <<f.kind, f.ns, f.name>>

\* No false alarm by reading at different times (analyzers, collector): a finding was true of the
\* cluster at one moment of the scan, unless a call failed, which the code takes for a missing
\* object, or the object that refers to another one was itself changed or removed meanwhile.
NothingInvented ==
  \A f \in found : f \in everTrue \/ lost \/ Referrer(f) \in touched

SameIssue(f, g) == /\ f.analyzer = g.analyzer /\ f.kind = g.kind /\ f.ns = g.ns
                   /\ f.name = g.name /\ f.type = g.type

\* The three cases in which the first of several hides the others: an old event, which the diagnostics
\* collector marks before it looks at its age; an event about a namesake of another kind, which the keys
\* leave out; and an optional reference to a ConfigMap.
Shadowed(f) ==
  \/ /\ f.analyzer = "diagnostics"
     /\ \E e \in past : e.kind = "Event" /\ e.age > 60 /\ EventKey(e) = <<f.ns, f.name, f.type>>
  \/ /\ f.analyzer \in {"eventAnalyzer", "diagnostics"}
     /\ \E e \in past : e.kind = "Event" /\ e.about.kind # f.kind /\ EventKey(e) = <<f.ns, f.name, f.type>>
  \/ /\ f.type = "ConfigMapMissing"
     /\ \E pod \in past : pod.kind = "Pod" /\ \E r \in ConfigMapRefs(pod) :
          r.optional /\ Key(r) = <<f.ns, f.name>>

\* A problem that is there during the whole scan is reported, whatever else changes, if the scan ends
\* well and no error was dropped; only the first event or reference of a kind may hide it.
NothingMissed ==
  result = "ok" /\ ~lost =>
    \A f \in alwaysTrue : Shadowed(f) \/ \E g \in found : SameIssue(f, g)

\* The seen maps of the event and ConfigMap analyzers: an event that is repeated, or a ConfigMap that
\* many pods miss, is one issue and not many, so it weighs on the health score once.
ReportedOnce ==
  reader \in {"eventAnalyzer", "configMapAnalyzer"} =>
    \A f, g \in found : SameIssue(f, g) => f = g

\* computeHealthScore after Collect: every critical problem that lasts during the scan costs its 15
\* points, whatever else is found and however the cluster changes, unless an error was dropped.
HealthTellsTruth ==
  reader = "diagnostics" /\ result = "ok" /\ ~lost =>
    \/ health + 15 * Severe(alwaysTrue, "critical") <= 100
    \/ health = 0

\* The names PodAnalyzer and NodeAnalyzer have for what the diagnostics collector finds.
TypeOfAnalyzer(f) ==
  CASE f.type \in {"Pending", "Unschedulable"} -> IF f.kind = "Node" THEN "NodeNotReady" ELSE "PodPending"
    [] f.type = "Evicted" -> "PodEvicted"
    [] OTHER -> f.type

\* Two implementations of one idea: whatever the diagnostics collector finds in a pod or a node, the
\* analyzers find as well and weigh the same, and an event it shows, they show and weigh no less.
CollectorsAgree ==
  \A o \in cluster :
    /\ o.kind \in {"Pod", "Node"} =>
         \A f \in Direct("diagnostics", o, {}) :
           \E g \in Direct(IF o.kind = "Pod" THEN "podAnalyzer" ELSE "nodeAnalyzer", o, {}) :
             g.type = TypeOfAnalyzer(f) /\ g.severity = f.severity /\ g.part = f.part
    /\ o.kind = "Event" =>
         \A f \in Direct("diagnostics", o, {}) : f.type \in ignoredReasons \/
           \E g \in Direct("eventAnalyzer", o, {}) :
             SameIssue([f EXCEPT !.analyzer = "eventAnalyzer"], g) /\ g.severity # "info"
=============================================================================
