---------------------------- MODULE MCClusterScan ----------------------------
(***************************************************************************)
(* TLC instance of ClusterScan: families of objects, each with the values  *)
(* on both sides of every threshold and condition of its readers.          *)
(***************************************************************************)
EXTENDS ClusterScan

Named(kind, ns, name) == [kind |-> kind, ns |-> ns, name |-> name]

Fine == [name |-> "c", reported |-> TRUE, limits |-> TRUE, waiting |-> Empty, oom |-> FALSE, restarts |-> 0,
         log |-> {}, secured |-> TRUE, nonRoot |-> "true", user |-> "other", privileged |-> FALSE,
         escalation |-> "false"]

Pod(ns, name) ==
  [kind |-> "Pod", ns |-> ns, name |-> name, phase |-> "Running", reason |-> Empty, age |-> 60,
   condition |-> Empty, account |-> "app", containers |-> {Fine}, volumes |-> {}, envFrom |-> {}]

Holding(containers) == [Pod("shop", "p") EXCEPT !.containers = containers]

Pending(age, condition) ==
  [Pod("shop", "p") EXCEPT !.phase = "Pending", !.age = age, !.condition = condition,
                           !.containers = {[Fine EXCEPT !.reported = FALSE]}]

PodStates ==
  {Pending(5, Empty), Pending(6, Empty), Pending(6, "Unschedulable"),
   [Pod("shop", "p") EXCEPT !.phase = "Failed", !.reason = "Evicted"],
   Holding({[Fine EXCEPT !.waiting = "CrashLoopBackOff", !.restarts = 11, !.log = {"panic:", "OOMKilled"}],
            [Fine EXCEPT !.name = "d", !.oom = TRUE, !.limits = FALSE, !.restarts = 1,
                         !.log = {"fatal:", "timeout", "certificate"}]}),
   Holding({[Fine EXCEPT !.waiting = "ErrImagePull"],
            [Fine EXCEPT !.name = "d", !.waiting = "ImagePullBackOff", !.restarts = 10,
                         !.log = {"connection refused", "permission denied"}]}),
   [Holding({[Fine EXCEPT !.secured = FALSE],
             [Fine EXCEPT !.name = "d", !.nonRoot = "unset", !.user = "zero", !.privileged = TRUE,
                          !.escalation = "unset"]}) EXCEPT !.account = "default"],
   Pod("kube-system", "p")}

Env(name, optional, rank) == [name |-> name, optional |-> optional, rank |-> rank]

ConfigMapUse ==
  {[Pod("shop", "p") EXCEPT !.volumes = {"app"}],
   [Pod("shop", "p") EXCEPT !.envFrom = {Env("app", TRUE, 1), Env("db", FALSE, 2)}],
   [Pod("shop", "q") EXCEPT !.envFrom = {Env("app", FALSE, 1)}],
   [Pod("web", "q") EXCEPT !.volumes = {"db"}],
   Named("ConfigMap", "shop", "app"), Named("ConfigMap", "web", "db")}

Event(name, about, reason, age, count) ==
  [kind |-> "Event", ns |-> "shop", name |-> name, about |-> Named("Pod", "shop", about),
   reason |-> reason, age |-> age, count |-> count]

Events ==
  {Event("e1", "p", "BackOff", 60, 11), Event("e2", "p", "BackOff", 119, 3), Event("e3", "p", "BackOff", 121, 1),
   Event("e4", "q", "BackOff", 61, 10), Event("e5", "p", "Killing", 1, 1), Event("e6", "q", "Started", 1, 1),
   [Event("e7", "p", "BackOff", 2, 1) EXCEPT !.about = Named("StatefulSet", "shop", "p")]}

Node(ready, pressure, cordoned, cpu, mem) ==
  [kind |-> "Node", ns |-> Empty, name |-> "n", ready |-> ready, memoryPressure |-> pressure,
   diskPressure |-> pressure, pidPressure |-> pressure, cordoned |-> cordoned, cpuCapacity |-> 8,
   cpuAllocatable |-> cpu, memCapacity |-> 32, memAllocatable |-> mem]

Nodes == {Node("True", FALSE, FALSE, 8, 32), Node("Unknown", TRUE, TRUE, 7, 30), Node("False", FALSE, TRUE, 8, 30),
          Node(Empty, TRUE, FALSE, 8, 32)}

Deployment(name, replicas, available, progressing, age) ==
  [kind |-> "Deployment", ns |-> "shop", name |-> name, replicas |-> replicas, available |-> available,
   progressing |-> progressing, progressAge |-> age]

HPA(name, target, min, max, current, active) ==
  [kind |-> "HorizontalPodAutoscaler", ns |-> "shop", name |-> name, target |-> target, min |-> min,
   max |-> max, current |-> current, active |-> active]

Scaled ==
  {Deployment("d", 2, 0, "False", 6), Deployment("d", 2, 1, "False", 5), Deployment("d", 0, 0, "True", 9),
   HPA("h", "d", 1, 11, 11, Empty), HPA("h", "e", 1, 10, 9, "True"), Deployment("e", 1, 1, "True", 9)}

StatefulSet(ready, updated, current, service) ==
  [kind |-> "StatefulSet", ns |-> "shop", name |-> "s", replicas |-> 2, ready |-> ready, updated |-> updated,
   current |-> current, service |-> service]

ReplicaSet(owned, replicas, ready) ==
  [kind |-> "ReplicaSet", ns |-> "shop", name |-> "r", owned |-> owned, replicas |-> replicas, ready |-> ready]

Service(name, type, external) ==
  [kind |-> "Service", ns |-> "shop", name |-> name, type |-> type, external |-> external]

Endpoints(name, addresses) == [kind |-> "Endpoints", ns |-> "shop", name |-> name, addresses |-> addresses]

Ingress(class, services, secrets) ==
  [kind |-> "Ingress", ns |-> "shop", name |-> "i", class |-> class, services |-> services, secrets |-> secrets]

Hooks(kind, policy, service) ==
  [kind |-> kind, ns |-> Empty, name |-> "w", hooks |-> {[policy |-> policy, ns |-> "shop", service |-> service]}]

\* Who refers to services and secrets.
Served ==
  {Ingress("nginx", {"a"}, {"tls"}), Ingress(Empty, {"a", "b"}, {Empty}), Ingress("nginx", {"a", Empty}, {}),
   StatefulSet(1, 1, 2, "a"), StatefulSet(2, 2, 2, Empty),
   Hooks("MutatingWebhookConfiguration", "Fail", "a"), Hooks("ValidatingWebhookConfiguration", "Fail", "a"),
   Hooks("ValidatingWebhookConfiguration", "Ignore", "a"), Hooks("MutatingWebhookConfiguration", "Fail", Empty),
   [Hooks("ValidatingWebhookConfiguration", "Fail", "a") EXCEPT !.hooks =
      @ \union {[policy |-> "Fail", ns |-> "default", service |-> "a"]}],
   Service("a", "ClusterIP", FALSE), Named("Secret", "shop", "tls"), [Service("a", "ClusterIP", FALSE) EXCEPT !.ns = "default"]}

Endings ==
  {Service("a", "LoadBalancer", FALSE), Service("a", "LoadBalancer", TRUE), Service("a", "ExternalName", FALSE),
   Service("b", "ClusterIP", FALSE), Endpoints("a", TRUE), Endpoints("a", FALSE), Endpoints("b", FALSE)}

Job(failed, started, completed, running, deadline, failures) ==
  [kind |-> "Job", ns |-> "shop", name |-> "j", failed |-> failed, started |-> started,
   completed |-> completed, running |-> running, deadline |-> deadline, failures |-> failures]

CronJob(suspended, scheduled, age, active) ==
  [kind |-> "CronJob", ns |-> "shop", name |-> "c", suspended |-> suspended, scheduled |-> scheduled,
   age |-> age, active |-> active]

Batch ==
  {Job(TRUE, TRUE, FALSE, 91, 0, 4), Job(FALSE, TRUE, FALSE, 90, 0, 3), Job(FALSE, TRUE, FALSE, 16, 10, 0),
   CronJob(TRUE, FALSE, 1441, 0), CronJob(FALSE, FALSE, 1440, 3), CronJob(FALSE, TRUE, 9000, 4)}

Replicated == {ReplicaSet(FALSE, 1, 1), ReplicaSet(TRUE, 2, 1), ReplicaSet(FALSE, 0, 0)}

PVC(phase, age, class) ==
  [kind |-> "PersistentVolumeClaim", ns |-> "shop", name |-> "v", phase |-> phase, age |-> age, class |-> class]

PV(phase, policy) ==
  [kind |-> "PersistentVolume", ns |-> Empty, name |-> "v", phase |-> phase, policy |-> policy]

StorageClass(provisioner) ==
  [kind |-> "StorageClass", ns |-> Empty, name |-> "fast", provisioner |-> provisioner]

Stored ==
  {PVC("Pending", 3, "fast"), PVC("Pending", 2, "fast"), PVC("Lost", 9, Empty), PV("Failed", "Delete"),
   PV("Released", "Retain"), PV("Released", "Delete"), StorageClass("no-provisioner"), StorageClass("csi")}

PDB(allowed, current, maxUnavailable) ==
  [kind |-> "PodDisruptionBudget", ns |-> "shop", name |-> "b", allowed |-> allowed, current |-> current,
   desired |-> 2, maxUnavailable |-> maxUnavailable]

Budgets == {PDB(0, 1, "zero"), PDB(0, 2, "percent"), PDB(1, 3, "some"), PDB(0, 1, "unset")}

Policed ==
  {Named("Namespace", Empty, "shop"), Named("Namespace", Empty, "web"), Named("Namespace", Empty, "kube-system"),
   Named("NetworkPolicy", "shop", "deny"), Named("NetworkPolicy", "shop", "allow"),
   Named("NetworkPolicy", "web", "deny"), Named("ResourceQuota", "shop", "quota"),
   Named("LimitRange", "shop", "limits")}

Gate(kind, accepted, ready) ==
  [kind |-> kind, ns |-> "shop", name |-> "g", accepted |-> accepted, ready |-> ready]

Gates ==
  {Gate("GatewayClass", "False", Empty), Gate("GatewayClass", Empty, Empty), Gate("Gateway", Empty, "Unknown"),
   Gate("Gateway", Empty, "True"), Gate("HTTPRoute", "False", Empty)}

Operator(kind, phase, observed, installed, state) ==
  [kind |-> kind, ns |-> "shop", name |-> "o", phase |-> phase, observed |-> observed,
   installed |-> installed, state |-> state]

Operators ==
  {Operator("CatalogSource", Empty, "CONNECTING", Empty, Empty), Operator("CatalogSource", Empty, "READY", Empty, Empty),
   Operator("ClusterServiceVersion", "Failed", Empty, Empty, Empty),
   Operator("ClusterServiceVersion", "Installing", Empty, Empty, Empty),
   Operator("InstallPlan", "Failed", Empty, Empty, Empty), Operator("Subscription", Empty, Empty, Empty, "UpgradePending"),
   Operator("Subscription", Empty, Empty, Empty, "AtLatestKnown")}

\* The objects of a snapshot, and of the diagnostics collector, together.
Mixed ==
  {Pod("shop", "p"), Holding({[Fine EXCEPT !.waiting = "CrashLoopBackOff"]}), Node("Unknown", FALSE, FALSE, 8, 32),
   Deployment("d", 1, 1, "True", 9), HPA("h", "d", 1, 2, 1, "True"), Event("e1", "p", "BackOff", 60, 11),
   Event("e4", "p", "BackOff", 61, 1)}

MCWorlds == {PodStates, ConfigMapUse, Events, Nodes, Scaled, Served, Endings, Batch, Replicated, Stored,
             Budgets, Policed, Gates, Operators, Mixed}

MCConfigs == {DefaultConfig, [DefaultConfig EXCEPT !.EnableNetworkPolicy = TRUE, !.EnableGateway = TRUE,
                                                   !.EnableOLM = TRUE]}
=============================================================================
