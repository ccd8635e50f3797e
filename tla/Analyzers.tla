------------------------------ MODULE Analyzers ------------------------------
(***************************************************************************)
(* What the agent finds in one object of the cluster: the analyzers of     *)
(* agent/internal/analyzers, the diagnostics collector and the collector   *)
(* of the snapshots, each as a function of an object.  ClusterScan reads   *)
(* the objects.                                                            *)
(*                                                                         *)
(* An object is a record with its kind, namespace and name and the part of *)
(* its state the readers look at; ages are in minutes.  Fields the API     *)
(* server always fills (replicas, minReplicas) are taken as filled.  A     *)
(* finding is an issue, or a fact of the snapshot (severity "none");       *)
(* "part" tells apart what is found in containers, paths or events of one  *)
(* object.  Messages are left out.                                         *)
(***************************************************************************)
EXTENDS Integers, Sequences

CONSTANT IncludeSystemNS \* whether snapshots hold what runs in the system namespaces

ASSUME SnapshotAssumption == IncludeSystemNS \in BOOLEAN

\* Go's empty string: a field that is not set, or nothing to tell apart.
Empty == "empty"

Severities == {"critical", "warning", "info", "none"}

\* issue: the finding that reader a has on object o.
Issue(a, o, type, severity, part) ==
  [analyzer |-> a, kind |-> o.kind, ns |-> o.ns, name |-> o.name,
   type |-> type, severity |-> severity, part |-> part]

When(condition, finding) == IF condition THEN {finding} ELSE {}

SystemNS == {"kube-system", "kube-public", "kube-node-lease"}

(***************************************************************************)
(* Workloads.                                                              *)
(***************************************************************************)

PullReasonsExact == {"ImagePullBackOff"}  \* mutant

\* The kubelet's reasons that contain "ImagePull".
PullReasons == {"ImagePullBackOff", "ErrImagePull"}

\* Containers whose status the kubelet has reported.
Reported(pod) == {c \in pod.containers : c.reported}

PodAnalyzer(pod) ==
  LET Found(type, severity, part) == Issue("podAnalyzer", pod, type, severity, part)
  IN When(pod.phase = "Pending" /\ pod.age > 5, Found("PodPending", "critical", Empty))
     \union When(pod.phase = "Failed" /\ pod.reason = "Evicted", Found("PodEvicted", "warning", Empty))
     \union UNION {When(c.waiting = "CrashLoopBackOff", Found("CrashLoopBackOff", "critical", c.name))
                   \union When(c.oom, Found("OOMKilled", "critical", c.name))
                   \union When(c.waiting \in PullReasons, Found("ImagePullError", "critical", c.name))
                   \union When(c.restarts > 10, Found("HighRestartCount", "warning", c.name))
                   \union When(~c.limits, Found("NoResourceLimits", "warning", c.name))
                   : c \in Reported(pod)}

\* analyzePod of the diagnostics collector; condition is the reason of the pod's first condition.
AnalyzePod(pod) ==
  LET Found(type, severity, part) == Issue("diagnostics", pod, type, severity, part)
  IN When(pod.phase = "Failed" /\ pod.reason = "Evicted", Found("Evicted", "warning", Empty))
     \union When(pod.phase = "Pending" /\ pod.age > 5,
                 Found(IF pod.condition = "Unschedulable" THEN "Unschedulable" ELSE "Pending", "critical", Empty))
     \union UNION {When(c.waiting = "CrashLoopBackOff", Found("CrashLoopBackOff", "critical", c.name))
                   \union When(c.oom, Found("OOMKilled", "critical", c.name))
                   \union When(c.waiting \in {"ImagePullBackOff", "ErrImagePull"},
                               Found("ImagePullError", "critical", c.name))
                   \union When(c.restarts > 10, Found("HighRestartCount", "warning", c.name))
                   : c \in Reported(pod)}

SecurityOf(pod, c) ==
  LET Found(type, severity) == Issue("securityAnalyzer", pod, type, severity, c.name)
  IN IF ~c.secured
     THEN {Found("NoSecurityContext", "warning")}
     ELSE When(c.nonRoot # "true" /\ c.user \in {"unset", "zero"}, Found("ContainerRunningAsRoot", "critical"))
          \union When(c.privileged, Found("PrivilegedContainer", "critical"))
          \union When(c.escalation # "false", Found("PrivilegeEscalationAllowed", "warning"))

SecurityAnalyzer(pod) ==
  (UNION {SecurityOf(pod, c) : c \in pod.containers})
    \union When(pod.account \in {Empty, "default"},
                Issue("securityAnalyzer", pod, "DefaultServiceAccount", "info", Empty))

DeploymentAnalyzer(d) ==
  LET Found(type, severity) == Issue("deploymentAnalyzer", d, type, severity, Empty)
  IN When(d.replicas > 0 /\ d.available = 0, Found("NoAvailableReplicas", "critical"))
     \union When(d.available > 0 /\ d.available < d.replicas, Found("PartialReplicas", "warning"))
     \union When(d.progressing = "False" /\ d.progressAge > 5, Found("RolloutStuck", "critical"))

\* The part without the headless service, which is a reference.
StatefulSetAnalyzer(s) ==
  LET Found(type, severity) == Issue("statefulSetAnalyzer", s, type, severity, Empty)
  IN When(s.ready < s.replicas, Found("InsufficientReplicas", "critical"))
     \union When(s.updated < s.replicas /\ s.current = s.replicas, Found("UpdateStuck", "warning"))

RSAnalyzer(rs) ==
  LET Found(type) == Issue("rsAnalyzer", rs, type, "warning", Empty)
  IN When(~rs.owned /\ rs.replicas > 0, Found("OrphanReplicaSet"))
     \union When(rs.replicas > 0 /\ rs.ready < rs.replicas, Found("InsufficientReplicas"))

\* A job without a deadline, written 0, is given an hour.
JobAnalyzer(job) ==
  LET Found(type, severity) == Issue("jobAnalyzer", job, type, severity, Empty)
      deadline == IF job.deadline = 0 THEN 60 ELSE job.deadline
  IN When(job.failed, Found("JobFailed", "critical"))
     \union When(job.started /\ ~job.completed /\ 2 * job.running > 3 * deadline,
                 Found("JobRunningTooLong", "warning"))
     \union When(job.failures > 3, Found("JobHighFailureCount", "warning"))

\* The check of failed children runs over Active when Active is empty: it finds nothing.
CronJobAnalyzer(cj) ==
  LET Found(type, severity) == Issue("cronJobAnalyzer", cj, type, severity, Empty)
  IN When(cj.suspended, Found("CronJobSuspended", "info"))
     \union When(~cj.scheduled /\ cj.age > 1440, Found("CronJobNeverRun", "warning"))
     \union When(cj.active > 3, Found("CronJobConcurrentOverload", "warning"))

HPAAnalyzer(hpa) ==
  LET Found(type, severity) == Issue("hpaAnalyzer", hpa, type, severity, Empty)
  IN When(hpa.current >= hpa.max, Found("HPAAtMaxReplicas", "warning"))
     \union When(hpa.active # "True", Found("HPAScalingInactive", "critical"))
     \union When(hpa.max > hpa.min * 10, Found("HPAWideRange", "info"))

\* IntValue of a percentage such as "10%" is 0.
PDBAnalyzer(pdb) ==
  LET Found(type, severity) == Issue("pdbAnalyzer", pdb, type, severity, Empty)
  IN When(pdb.allowed = 0 /\ pdb.current < pdb.desired, Found("PDBBlockingDisruptions", "critical"))
     \union When(pdb.maxUnavailable \in {"zero", "percent"}, Found("PDBTooRestrictive", "warning"))

(***************************************************************************)
(* Events.  seen holds the keys of the events before this one.             *)
(***************************************************************************)

EventKey(e) == <<e.about.ns, e.about.name, e.reason>>

ignoredReasons ==
  {"Scheduled", "Pulled", "Started", "Created", "Killing", "Preempting", "ScalingReplicaSet"}

\* What both readers make of an event: an issue of the object it is about.
EventIssue(a, e, severity) == Issue(a, e.about, e.reason, severity, e.name)

Recent(e) == e.reason \notin ignoredReasons /\ e.age <= 120

EventAnalyzerOwnLevel(e, seen) ==  \* mutant: the event's own type, in Kubernetes' spelling
  When(Recent(e) /\ EventKey(e) \notin seen, EventIssue("eventAnalyzer", e, "Warning"))

EventAnalyzer(e, seen) ==
  When(Recent(e) /\ EventKey(e) \notin seen,
       EventIssue("eventAnalyzer", e, IF e.count > 10 THEN "critical" ELSE "warning"))

\* analyzeEvents of the diagnostics collector.
AnalyzeEvent(e, seen) ==
  When(EventKey(e) \notin seen /\ e.age <= 60 /\ e.reason \notin {"Scheduled", "Pulled", "Started"},
       EventIssue("diagnostics", e, "warning"))

(***************************************************************************)
(* Nodes, storage, network, extensions.                                    *)
(***************************************************************************)

\* The status of a Ready condition that is not there is Empty: nothing is found.
NotReady(n) == n.ready \notin {"True", Empty}

\* The load compares the capacity with what is allocatable.
NodeAnalyzer(n) ==
  LET Found(type, severity) == Issue("nodeAnalyzer", n, type, severity, Empty)
  IN When(NotReady(n), Found("NodeNotReady", "critical"))
     \union When(n.memoryPressure, Found("MemoryPressure", "critical"))
     \union When(n.diskPressure, Found("DiskPressure", "critical"))
     \union When(n.pidPressure, Found("PIDPressure", "warning"))
     \union When(n.cordoned, Found("NodeCordoned", "warning"))
     \union When(100 * n.cpuCapacity > 90 * n.cpuAllocatable, Found("HighCPUUsage", "warning"))
     \union When(100 * n.memCapacity > 90 * n.memAllocatable, Found("HighMemoryUsage", "warning"))

\* analyzeNodes of the diagnostics collector.
AnalyzeNode(n) == When(NotReady(n), Issue("diagnostics", n, "Pending", "critical", Empty))

PVCAnalyzer(pvc) ==
  LET Found(type, severity) == Issue("pvcAnalyzer", pvc, type, severity, Empty)
  IN When(pvc.phase = "Pending" /\ pvc.age > 2, Found("PVCPending", "critical"))
     \union When(pvc.phase = "Lost", Found("PVCLost", "critical"))
     \union When(pvc.class = Empty, Found("NoStorageClass", "warning"))

StorageAnalyzer(o) ==
  LET Found(type, severity) == Issue("storageAnalyzer", o, type, severity, Empty)
  IN IF o.kind = "PersistentVolume"
     THEN When(o.phase = "Failed", Found("PVFailed", "critical"))
          \union When(o.phase = "Released" /\ o.policy = "Retain", Found("PVReleasedRetained", "warning"))
     ELSE When(o.provisioner \in {"no-provisioner", "kubernetes.io/no-provisioner"},
               Found("NoProvisioner", "info"))

\* seen holds the namespaces of the policies that were listed before.
NetworkPolicyAnalyzer(o, seen) ==
  When(o.kind = "Namespace" /\ o.name \notin SystemNS /\ <<o.name>> \notin seen,
       Issue("networkPolicyAnalyzer", o, "NoNetworkPolicy", "info", Empty))

\* The part without the services and secrets of the paths, which are references.
IngressAnalyzer(ing) ==
  When(ing.class = Empty, Issue("ingressAnalyzer", ing, "NoIngressClass", "warning", Empty))

\* The status of a condition that is not there is Empty.
GatewayAnalyzers(o) ==
  CASE o.kind = "GatewayClass" ->
         When(o.accepted \notin {"True", Empty},
              Issue("gatewayClassAnalyzer", o, "GatewayClassNotAccepted", "warning", Empty))
    [] o.kind = "Gateway" ->
         When(o.ready \notin {"True", Empty}, Issue("gatewayAnalyzer", o, "GatewayNotReady", "critical", Empty))
    [] o.kind = "HTTPRoute" ->
         When(o.accepted \notin {"True", Empty},
              Issue("httpRouteAnalyzer", o, "HTTPRouteNotAccepted", "warning", Empty))
    [] OTHER -> {}

\* A field of a status that is not there is Empty.
OLMAnalyzer(o) ==
  LET Found(type, severity) == Issue("olmAnalyzer", o, type, severity, Empty)
  IN CASE o.kind = "CatalogSource" ->
            When(o.observed \notin {"READY", Empty}, Found("CatalogSourceNotReady", "warning"))
       [] o.kind = "ClusterServiceVersion" ->
            When(o.phase \notin {"Succeeded", Empty},
                 Found("CSVNotSucceeded", IF o.phase = "Failed" THEN "critical" ELSE "warning"))
       [] o.kind = "InstallPlan" -> When(o.phase = "Failed", Found("InstallPlanFailed", "critical"))
       [] o.kind = "Subscription" ->
            When(o.installed = Empty /\ o.state \notin {Empty, "AtLatestKnown"},
                 Found("SubscriptionNotInstalled", "warning"))
       [] OTHER -> {}

(***************************************************************************)
(* Facts of a snapshot.                                                    *)
(***************************************************************************)

InSnapshot(o) == IncludeSystemNS \/ o.ns \notin SystemNS

Fact(kind, ns, name, type, part) ==
  Issue("snapshot", [kind |-> kind, ns |-> ns, name |-> name], type, "none", part)

PodCollector(pod) ==
  {Fact("Pod", pod.ns, pod.name, "Container", c.name) :
     c \in {d \in pod.containers : InSnapshot(pod) /\ pod.phase = "Running"}}

\* The autoscalers, listed after the deployments, fill hpaSet with what they scale, listed
\* or not; a listed deployment has an HPA if its name is there.
DeploymentCollector(o) ==
  IF o.kind = "Deployment"
  THEN When(InSnapshot(o), Fact("Deployment", o.ns, o.name, "Deployment", Empty))
  ELSE {Fact("Deployment", o.ns, o.target, "hpaSet", Empty)}

\* The part without the quotas and limits of the namespace, which are references.
NamespaceCollector(n) == When(n.name \notin SystemNS, Fact("Namespace", n.ns, n.name, "Namespace", Empty))

SnapshotFacts(o) ==
  CASE o.kind = "Pod" -> PodCollector(o)
    [] o.kind = "Node" -> {Fact("Node", o.ns, o.name, "Node", Empty)}
    [] o.kind \in {"Deployment", "HorizontalPodAutoscaler"} -> DeploymentCollector(o)
    [] o.kind = "Namespace" -> NamespaceCollector(o)
    [] OTHER -> {}

(***************************************************************************)
(* References: what a reader looks up one by one for an object.  Those of  *)
(* a lower rank come first; others in any order.                           *)
(***************************************************************************)

Ref(kind, ns, name, part, optional, rank) ==
  [kind |-> kind, ns |-> ns, name |-> name, part |-> part, optional |-> optional, rank |-> rank]

To(kind, ns, name) == Ref(kind, ns, name, Empty, FALSE, 0)

\* A path whose backend is a resource has the service Empty.
IngressRefs(ing) ==
  {To("Service", ing.ns, s) : s \in ing.services} \union {To("Secret", ing.ns, s) : s \in ing.secrets \ {Empty}}

WebhookRefs(wh) ==
  {To("Service", h.ns, h.service) : h \in {x \in wh.hooks : x.policy = "Fail" /\ x.service # Empty}}

\* Volumes first, and always as required; then the containers' envFrom, in their order.
ConfigMapRefs(pod) ==
  {To("ConfigMap", pod.ns, v) : v \in pod.volumes}
    \union {Ref("ConfigMap", pod.ns, e.name, Empty, e.optional, e.rank) : e \in pod.envFrom}

\* The previous log of each container that was restarted.
LogRefs(pod) ==
  {Ref("Pod", pod.ns, pod.name, c.name, FALSE, 0) :
     c \in {d \in Reported(pod) : pod.phase = "Running" /\ d.restarts # 0}}

References(a, o) ==
  CASE a = "ingressAnalyzer" -> IngressRefs(o)
    [] a = "statefulSetAnalyzer" -> {To("Service", o.ns, s) : s \in {o.service} \ {Empty}}
    [] a \in {"mutatingWebhookAnalyzer", "validatingWebhookAnalyzer"} -> WebhookRefs(o)
    [] a = "configMapAnalyzer" -> ConfigMapRefs(o)
    [] a = "serviceAnalyzer" -> {To("Endpoints", o.ns, n) : n \in IF o.type = "ExternalName" THEN {} ELSE {o.name}}
    [] a = "logAnalyzer" -> LogRefs(o)
    [] a = "snapshot" /\ o.kind = "Namespace" /\ o.name \notin SystemNS ->
         {To("ResourceQuota", o.name, "quota"), To("LimitRange", o.name, "limits")}
    [] OTHER -> {}

Missing == [kind |-> Empty]

\* Lines are lower-cased before the patterns are searched, so "OOMKilled" is never found.
LogIssue(pod, c, pattern) ==
  LET Found(type, severity) == {Issue("logAnalyzer", pod, type, severity, c)}
  IN CASE pattern = "panic:" -> Found("PanicInLogs", "critical")
       [] pattern = "fatal:" -> Found("FatalInLogs", "critical")
       [] pattern = "connection refused" -> Found("ConnectionRefused", "warning")
       [] pattern = "timeout" -> Found("TimeoutInLogs", "warning")
       [] pattern = "certificate" -> Found("CertificateError", "warning")
       [] pattern = "permission denied" -> Found("PermissionDenied", "warning")
       [] OTHER -> {}

ServiceAnalyzer(svc, endpoints) ==
  LET Found(type) == Issue("serviceAnalyzer", svc, type, "warning", Empty)
  IN When(~endpoints.addresses, Found("NoEndpoints"))
     \union When(svc.type = "LoadBalancer" /\ ~svc.external, Found("LoadBalancerPending"))

\* An error of the look-up counts as a missing object.
OnMissing(a, o, ref) ==
  CASE a = "ingressAnalyzer" /\ ref.kind = "Service" -> {Issue(a, o, "ServiceNotFound", "critical", ref.name)}
    [] a = "ingressAnalyzer" /\ ref.kind = "Secret" -> {Issue(a, o, "TLSSecretMissing", "critical", ref.name)}
    [] a = "statefulSetAnalyzer" -> {Issue(a, o, "HeadlessServiceMissing", "critical", ref.name)}
    [] a \in {"mutatingWebhookAnalyzer", "validatingWebhookAnalyzer"} ->
         {Issue(a, o, "WebhookServiceMissing", "critical", <<ref.ns, ref.name>>)}
    [] a = "configMapAnalyzer" ->
         When(~ref.optional, Issue(a, ref, "ConfigMapMissing", "critical", o.name))
    [] OTHER -> {}

OnFound(a, o, ref, target) ==
  CASE a = "serviceAnalyzer" -> ServiceAnalyzer(o, target)
    [] a = "logAnalyzer" ->
         UNION {UNION {LogIssue(o, c.name, p) : p \in c.log} : c \in {d \in target.containers : d.name = ref.part}}
    [] a = "snapshot" ->
         {Fact("Namespace", o.ns, o.name,
               IF ref.kind = "LimitRange" THEN "HasLimitRange" ELSE "HasResourceQuota", Empty)}
    [] OTHER -> {}

(***************************************************************************)
(* The readers: what they list, in which order, and what they do when a    *)
(* listing fails.                                                          *)
(***************************************************************************)

Listings ==
  [podAnalyzer |-> <<"Pod">>, pvcAnalyzer |-> <<"PersistentVolumeClaim">>, rsAnalyzer |-> <<"ReplicaSet">>,
   serviceAnalyzer |-> <<"Service">>, eventAnalyzer |-> <<"Event">>, ingressAnalyzer |-> <<"Ingress">>,
   statefulSetAnalyzer |-> <<"StatefulSet">>, deploymentAnalyzer |-> <<"Deployment">>,
   jobAnalyzer |-> <<"Job">>, cronJobAnalyzer |-> <<"CronJob">>, nodeAnalyzer |-> <<"Node">>,
   mutatingWebhookAnalyzer |-> <<"MutatingWebhookConfiguration">>,
   validatingWebhookAnalyzer |-> <<"ValidatingWebhookConfiguration">>, configMapAnalyzer |-> <<"Pod">>,
   hpaAnalyzer |-> <<"HorizontalPodAutoscaler">>, pdbAnalyzer |-> <<"PodDisruptionBudget">>,
   networkPolicyAnalyzer |-> <<"NetworkPolicy", "Namespace">>, securityAnalyzer |-> <<"Pod">>,
   logAnalyzer |-> <<"Pod">>, storageAnalyzer |-> <<"PersistentVolume", "StorageClass">>,
   gatewayClassAnalyzer |-> <<"GatewayClass">>, gatewayAnalyzer |-> <<"Gateway">>,
   httpRouteAnalyzer |-> <<"HTTPRoute">>,
   olmAnalyzer |-> <<"CatalogSource", "ClusterServiceVersion", "InstallPlan", "Subscription">>,
   diagnostics |-> <<"Pod", "Event", "Node">>,
   snapshot |-> <<"Pod", "Node", "Deployment", "HorizontalPodAutoscaler", "Namespace">>]

\* A listing whose error is dropped: the reader goes on as if it were empty.
Tolerated(a, kind) ==
  \/ a \in {"gatewayClassAnalyzer", "gatewayAnalyzer", "httpRouteAnalyzer", "olmAnalyzer"}
  \/ a = "diagnostics" /\ kind # "Pod"
  \/ a = "snapshot" /\ kind \in {"Deployment", "HorizontalPodAutoscaler"}

\* What reader a finds in a listed object by itself.
Direct(a, o, seen) ==
  CASE a = "podAnalyzer" -> PodAnalyzer(o)
    [] a = "pvcAnalyzer" -> PVCAnalyzer(o)
    [] a = "rsAnalyzer" -> RSAnalyzer(o)
    [] a = "eventAnalyzer" -> EventAnalyzer(o, seen)
    [] a = "ingressAnalyzer" -> IngressAnalyzer(o)
    [] a = "statefulSetAnalyzer" -> StatefulSetAnalyzer(o)
    [] a = "deploymentAnalyzer" -> DeploymentAnalyzer(o)
    [] a = "jobAnalyzer" -> JobAnalyzer(o)
    [] a = "cronJobAnalyzer" -> CronJobAnalyzer(o)
    [] a = "nodeAnalyzer" -> NodeAnalyzer(o)
    [] a = "hpaAnalyzer" -> HPAAnalyzer(o)
    [] a = "pdbAnalyzer" -> PDBAnalyzer(o)
    [] a = "networkPolicyAnalyzer" -> NetworkPolicyAnalyzer(o, seen)
    [] a = "securityAnalyzer" -> SecurityAnalyzer(o)
    [] a = "storageAnalyzer" -> StorageAnalyzer(o)
    [] a \in {"gatewayClassAnalyzer", "gatewayAnalyzer", "httpRouteAnalyzer"} -> GatewayAnalyzers(o)
    [] a = "olmAnalyzer" -> OLMAnalyzer(o)
    [] a = "diagnostics" /\ o.kind = "Pod" -> AnalyzePod(o)
    [] a = "diagnostics" /\ o.kind = "Event" -> AnalyzeEvent(o, seen)
    [] a = "diagnostics" /\ o.kind = "Node" -> AnalyzeNode(o)
    [] a = "snapshot" -> SnapshotFacts(o)
    [] OTHER -> {}

MarksEveryEvent(a, o) ==  \* mutant: marked before the age is checked
  CASE a = "eventAnalyzer" -> {EventKey(o)}
    [] a = "diagnostics" /\ o.kind = "Event" -> {EventKey(o)}
    [] a = "networkPolicyAnalyzer" /\ o.kind = "NetworkPolicy" -> {<<o.ns>>}
    [] OTHER -> {}

\* What it remembers of the object for those that follow.  The event analyzer marks
\* what it reports, the diagnostics collector every event, recent or not.
Marks(a, o) ==
  CASE a = "eventAnalyzer" -> When(Recent(o), EventKey(o))
    [] a = "diagnostics" /\ o.kind = "Event" -> {EventKey(o)}
    [] a = "networkPolicyAnalyzer" /\ o.kind = "NetworkPolicy" -> {<<o.ns>>}
    [] OTHER -> {}

\* NewRegistry: the analyzers a configuration registers.
Registered(config) ==
  {"podAnalyzer", "pvcAnalyzer", "rsAnalyzer", "serviceAnalyzer", "eventAnalyzer", "ingressAnalyzer",
   "statefulSetAnalyzer", "deploymentAnalyzer", "jobAnalyzer", "cronJobAnalyzer", "nodeAnalyzer",
   "mutatingWebhookAnalyzer", "validatingWebhookAnalyzer", "configMapAnalyzer"}
    \union When(config.EnableHPA, "hpaAnalyzer")
    \union When(config.EnablePDB, "pdbAnalyzer")
    \union When(config.EnableNetworkPolicy, "networkPolicyAnalyzer")
    \union When(config.EnableSecurity, "securityAnalyzer")
    \union When(config.EnableLog, "logAnalyzer")
    \union When(config.EnableStorage, "storageAnalyzer")
    \union (IF config.EnableGateway
            THEN {"gatewayClassAnalyzer", "gatewayAnalyzer", "httpRouteAnalyzer"} ELSE {})
    \union When(config.EnableOLM, "olmAnalyzer")

DefaultConfig ==
  [EnableHPA |-> TRUE, EnablePDB |-> TRUE, EnableNetworkPolicy |-> FALSE, EnableSecurity |-> TRUE,
   EnableLog |-> TRUE, EnableStorage |-> TRUE, EnableGateway |-> FALSE, EnableOLM |-> FALSE]
=============================================================================
