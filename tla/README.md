# Formal models of the K8s green platform

TLA+ models of the parts of this repository where the order of steps, failures and restarts decide
whether the program is right, the TLC configurations that check them on small instances, and theorems
checked by TLAPS for all values of the constants.

`PROJECT.json` lists every definition that models code with the source lines it stands for, every run,
every theorem and every hazard at its line.

## 1. The system

A Kubernetes cluster of a tenant runs an **agent** (Go) that scans it every five minutes and sends a
snapshot. **NATS JetStream** carries snapshots to **worker** replicas (Go), which compute scores, waste,
carbon and cost and write them to **TimescaleDB**; an HTTP **API** (Go, gin) answers the **frontend** and,
on an internal route, takes the agent's snapshots over HTTP as well. Redis holds the API's rate counters
and a cache; a language model (Ollama) explains the issues.

| Component | State it keeps | Operations | Interacts by | What is hard | What makes it correct |
|---|---|---|---|---|---|
| Worker: consumer and processor (`backend/internal/worker`) | none of its own; the stream's deliveries, rows in the database | `Start`, the message handler, `Process` and its statements, ack or nak | JetStream messages, SQL, Slack | redelivery while the first handler still runs, lost acks, failing writes, a stop between two writes | no rows go missing without a trace; effects repeated no more often than delivered; every snapshot is worked off |
| Agent: loop and publisher (`agent/cmd/agent`, `agent/internal/publisher`) | the ticker | `collectAndPublish`, `Publish` | HTTP to the API, Kubernetes listings | a request the agent gives up on goes on at the server | one request at a time; a later tick repairs what a failed one left |
| API: ingest and diagnostics page (`handlers/metrics.go`, `handlers/diagnostics.go`) | `diagnostic_issues` | `IngestMetrics`, `GetDiagnostics` | SQL of two handlers and a page on one table | DELETE and INSERTs without a transaction | the table shows the last scan |
| Agent: analyzer registry (`agent/internal/analyzers/registry.go`) | channel, wait group, the report under construction | `NewRegistry`, `Run`, `computeScore` | goroutines | counting, closing, capacity, panics | each analyzer once, score of all issues, no deadlock |
| Agent: analyzers, diagnostics collector, snapshot collector (`analyzers/*.go`, `diagnostics/collector.go`, `collector`) | what one scan has seen and found | listings, look-ups of what an object refers to, one issue per problem | Kubernetes API calls, while the cluster changes | objects read at different moments, a failed call taken for a missing object, dropped errors, repeated events, two implementations of one check | nothing reported that was never so; nothing lasting overlooked; a repetition weighs once; both implementations agree |
| API: middleware and server (`middleware`, `server.go`, `cmd/api`) | rate counters in Redis, gin's pool of Contexts, `audit_logs` | `Auth`, `Tenant`, `RateLimit`, `Audit`, `Run` | shared Contexts, goroutines, signals | goroutines that outlive their request, a stop with requests in flight | at most the limit per calendar minute, but for failures of Redis; audit rows that show their own request |
| API: token validation (`auth/jwt.go`) | key set | `Validate`, `syncJWKS` | HTTP to Keycloak | unsynchronised map | a rotated key is picked up |
| API: cached read handlers, live view (`handlers/score.go`, `websocket.go`, `frontend/src/lib/websocket.ts`) | Redis entries with a TTL, a browser connection | read, fill, stream, reconnect | Redis, SQL, server-sent events | stale fills, reconnects after a close | staleness bounded |
| AI diagnostics, models (`ai`, `handlers/models.go`) | analysis cache, current model of each replica, models installed at Ollama | `AnalyzeIssues`, `SetModel`, `PullModel`, `ListModels`, `DeleteModel` | HTTP to Ollama, Redis | a name written under a lock and read without it, a download that outlives its request, a missing client, TTL, other replicas | the last switch holds; an answer is labelled with the model that was asked |
| Worker: scoring, waste, carbon, cost (`backend/internal/analyzer`) | none | functions of a snapshot | called by `Process` | zero divisors, bounds, figures in two tables | a score between its parts; pages that agree; proposals that are safe; promises that come true |
| Worker: reports and notifications (`scheduler.go`, `notifications`) | a ticker | weekly report, alerts | Slack, mail | restarts and replicas | once a week |
| Storage: repositories, tenants, migrations (`repository`, `cmd/migrate`) | the database | create tenant, migrate, save, latest | SQL | several statements without a transaction | schema and row together |
| API: remaining handlers | none | one query each | SQL | - | - |
| Frontend | browser state | pages | HTTP | - | - |
| Infrastructure, scripts, tools | - | deployment | - | - | - |

## 2. The modules

Each module translates the code named in its header. Actions carry the names of the functions or
statements they stand for; `map` in `PROJECT.json` has the lines.

### 2.1 `SnapshotDelivery`, `SnapshotWorker`: a snapshot's way through the worker

`SnapshotDelivery` is what the pipeline promises: a snapshot enters the stream once, its score is stored
at most `MaxDeliver` times, and it is settled either by an acknowledgement, which needs a stored score or
a logged error, or by the stream giving up on it.

`SnapshotWorker` is the code. The environment is the stream: `Publish`, `Deliver` and `AckWaitExpires`,
with `MaxDeliver` attempts for each snapshot. A replica takes the messages in its inbox one after the
other. A message without header or with an unreadable payload is refused (`Refuse`, with a nak); for any
other (`Accept`) the handler goes through the steps of `Process`: `InsertScore`, `BulkInsert` (not for an
empty snapshot), `Alert` when the score is under the threshold, `UpdateLastSeen`, and `Ack`. Every write is
a step with three outcomes: stored, failed, and stored although its caller sees an error. The error of a row
write is logged (`logged`); that of `UpdateLastSeen` is discarded, so `NoSilentLoss` can speak of a log line for the rows
only. Ack and nak may be lost. A replica can stop (`Stop`) between any two steps and loses its inbox and its handler; the
stream notices when the ack wait runs out. `MaxFaults` bounds stops, failing writes and lost answers together.

The module abstracts the numbers to what decides control: whether the payload is readable, whether the
snapshot is empty, and whether its score is under the alert threshold. Slack is assumed to be configured.
`consumer.go` also unsubscribes on shutdown, which in the client library may delete the consumer; that is
not modelled. The `latest` row is the last one inserted: clock differences between replicas are left
out. `SendScanReport`, which the processor calls on the notifier, is not defined in the repository at this
commit, so the worker is modelled as written, with that call taken for the message it is meant to send. The call is given no
context, so no fairness makes it return: `EverySnapshotWorkedOff` promises nothing once a call to Slack hangs for ever.
In the repository, snapshots reach the stream only from `tools/agent-sim` and the agent's NATS
publisher, which `main` does not construct; the module takes any publisher.

### 2.2 `IssueRefresh`: ingest against the diagnostics page

The agent (one process, `agent/k8s/deployment.yaml`) scans and posts; the request's handler deletes the
issues of the cluster and inserts the new ones, statement by statement, ignoring every error. The agent
gives up after 30 s: the request's context is cancelled, but a statement the database has begun may
finish. Up to as many handlers as the constant `Handlers` has members are at work at a time, which is
assumed to exceed the number of faults. The page reads the rows of the last hour; after an hour's silence of the agent it sees none (`SilentHour`).
Rows of `pod_metrics`, which the same handler writes, are not tracked. `LIMIT 20` and the textual order of
severities are not modelled.

### 2.3 `AnalyzerRegistry`, `HealthScore`, `DiagnosisReport`: one run of the analyzers

`HealthScore` is `computeScore`. `DiagnosisReport` promises that `Run` returns, in one step, a report with
each analyzer once and a score computed from all issues found, in some order. `AnalyzerRegistry` is
`Run`: the loop that adds to the wait group and starts a goroutine for each analyzer, the goroutines
(that find a list of issues, fail, or panic), the channel with its capacity, the wait, the close and the
loop that collects. A panic in a goroutine ends the process. An analyzer's error is only logged, so a
failed analyzer looks like one that found nothing. The context of an analysis has no deadline, so no fairness makes it end:
`RunReturns` starts from the moment every `Analyze` has returned, which a run that crashes never reaches. `cmd/agent` does not call the registry yet.

### 2.4 `RateLimit`: counters shared by all replicas

A request reads the minute, then its pipeline increments the counter of tenant and minute in Redis, then
it compares. Redis may fail before or after it counted; go-redis sends the command again, so that one
request may be counted twice (`CountAgain`), and after the last try the code goes on with the count 0
(`CountFails`), which admits the request: `WindowBudget` allows one request beyond the limit for each failure, and no more. The minute may change between any two steps. `EXPIRE` is not
modelled: a minute does not come back, so whether its key is still there makes no difference.

`RateWindow` puts a clock of half minutes beside the same steps and notes when each request arrived. It shows what the
calendar minute does to the sliding window that `docs/security.md` states (section 5).

### 2.5 `ApiServer`: a request's way through the middleware, and the stop

`ApiServer` extends `RateLimit`: it composes the limiter with what is around it. Requests take a `gin.Context` from the
pool, pass `Auth` and `Tenant`, take the limiter's own steps (`Consult`; then `Proceed` or `Limited`), pass `Audit` and the
handler, and give the Context back. `Audit` starts a goroutine that reads the
Context after the request is over and inserts a row under the request's context, which is
cancelled by then. A handler may panic: `Recovery` answers, and what follows `c.Next` in `Audit` is skipped. On
SIGTERM `ListenAndServe` returns at once and the process ends, whatever `Shutdown` is still waiting for: a request
in flight is `"cut"`. No property says that requests end, because nothing in the code bounds a handler.
`MaxFaults` bounds the limiter's lost answers, `MaxFailures` the failing statements and panics around it.

### 2.6 `DiagnosticsCache`: analyses by the language model

The page asks a language model about a cluster's issues and keeps the answer in Redis under one key for the
cluster, which the requests to all replicas of the API share. `Query` and `QueryEmpty` are the handler's
query, `Hit` and `Miss` the read of the key, `ModelReturns` the end of the question, `Store` and `StoreFails` the
write of the key, and `Reply`, `CutOff` and `Vanish` what becomes of the answer. One context serves for the query,
the key and the question; it is cancelled when the client goes (`Leave`), and the code goes on
with the next statement all the same. An analysis is identified by the time its issues were read. Time counts in half
minutes; a statement takes none, unless the machine stalls, which is one of the faults, as are failures of
Redis. The model behind the analysis is 2.9's. The module has no liveness property: no step of it has to happen.

### 2.7 `SnapshotAnalysis`, `ClusterFigures`: from a snapshot to the pages

`SnapshotAnalysis` is the worker's arithmetic: the sizes `WasteDetector.Analyze` recommends, the waste and its
cost, `ComputeSavings` and `ComputeScore`. Where the code has floating point the module has whole millicores, MiB,
cents, hundredths of a percent and ten-thousandths of the score, and rounds ratios down; money is rounded to
the cent as in the code. `ClusterFigures` follows the numbers. A scan of the cluster reaches the worker (`Publish`,
`Process`, which stores a score and rows, each of which may fail) or the API (`Ingest`, which stores rows without
usage and waste, and no score). The savings and recommendations pages read the latest score, the waste page and
the what-if page (`WhatIf`) the rows of a day; rows grow old (`Age`). The cluster changes (`Redeploy`), or the user
gives every container the proposed sizes (`Apply`). `proposal` remembers what the what-if page answered until the
cluster changes, `promise` what a user who applied it may expect of scans to come: only if the rows it had
averaged were all of the one container there is, for the page averages a namespace and takes figures of its own
for zeros. A snapshot is processed once and in order here; redelivery and its order are 2.1's. Pages are
read from the database, without their caches. Payloads are those of the agent's publishers, whose field names are the
worker's: `tools/agent-sim` writes snake_case keys (`main.go:70-81`), which the untagged fields of `processor.go:35-41` do not match,
so all figures of its snapshots would decode to zero. The module does not model the decoding.

With `cmd/agent` as it is, scans come by `Ingest` only (see 2.1), so no cluster ever has a score, and the page goes on
waiting for the first one; the module takes either path. On a day of several scans the waste page adds them
up, which is why `TablesAgree` speaks of a day with one. `ComputeSavings` has prices of its own where `WasteDetector` has the
configured ones, so that `TablesAgree` and `PromiseKept` speak of the default prices, at which they are the same. Carbon is a product of the waste with constants, and
`GenerateRecommendations` and `GeneratePatches` are called by nothing; they are not modelled.

### 2.8 `Analyzers`, `ClusterScan`: what the agent sees of a cluster that changes

`Analyzers` has each analyzer as a function of one object: `PodAnalyzer`, `NodeAnalyzer` and so on, with the thresholds
of the code, `AnalyzePod`, `AnalyzeNode` and `AnalyzeEvent` for the diagnostics collector's own copies of three of them,
and `SnapshotFacts` for the snapshot collector. `Listings` says which kinds a reader lists and in which order, `References`
which other objects it then looks up (endpoints, secrets, config maps, services, quotas, logs), `OnFound` and
`OnMissing` what it makes of the answer, `Registered` which analyzers a configuration switches on. An object is a
record of the fields somebody reads (the `HasHPA` of a deployment is the pair of its own fact and the entry that an
autoscaler left in `hpaSet`, each found where the code finds it); what the API server always fills in (replicas, minimal replicas) is filled in;
`Empty` is Go's empty string.

`ClusterScan` is one reader at work. It lists kind by kind (`List`, `ListFails`), takes what it has listed object by
object (`Examine`) and looks references up one by one (`LookUp`, `LookUpFails`), so it never sees the cluster at one moment;
`Appear`, `Disappear` and `Update` change the cluster between any two of these steps. A failing listing ends the
analyzer, or is dropped, as the code does it (`Tolerated`); a failing look-up is taken for a missing object. Each behaviour has one
reader, because readers share nothing but the cluster: `AnalyzerRegistry` runs them side by side. `Truth` is what a scan of
a single moment would find; `everTrue` and `alwaysTrue` gather it over the time of the scan, and the properties compare the
findings with them. `NothingInvented` allows for the two ways in which the code does report what never was: a failed call, and an
object that changed after it was listed. `NothingMissed` allows for the three in which the first of several hides the others
(`Shadowed`): an old event, which the collector remembers before it looks at its age; an event about a namesake of another
kind, for the keys leave the kind out; and an optional reference to a ConfigMap. Every event has a name, and one with a
dot in it, which is never that of a container (`ScanAssumption`).

`cronjob_analyzer.go:32` takes the length of a pointer, so the package does not compile as it stands; `cmd/agent` does not
import it. The check of a cron job's children behind that line runs over an empty list in any case and is left out. The agent's
calls have no deadline of their own, so nothing is claimed about a scan's end.

### 2.9 `ModelManagement`: the model behind the analyses

Every replica of the API has a client (`service`: none, Ollama, or one of the external backends) with the name of the model
it asks, and all share an Ollama server with the models `installed`. A name is a Go string, that is two words; `SetModel`
writes them under the service's lock (`Lock`, `WriteWord`, `Written`, `Unlock`), while `ModelName` and `Analyze` read them
without it (`ReadWord`), a diagnosis once for its label and once for the question. A download answers 202 (`Accept`) and
goes on in a goroutine under the request's context, which ends with the handler (`Downloaded`, `NotDownloaded`). With an
external backend `getOllamaClient` returns no client and no refusal: a list or a deletion panics and gin recovers
(`Recovered`), a download panics in its goroutine and the process ends (`Crash`). `Start` and `Stop` are the replicas'. The
switch is also written to a Redis key (`StoreKey`), which nothing reads. `disturbed` remembers the requests between whose
readings a switch wrote: theirs is the one label that may be wrong.

## 3. The runs

| Run | Instance | States | Shows |
|---|---|---|---|
| `snapshot_pipeline` | 2 replicas, 1 snapshot, 3 deliveries, 3 faults | 203 k | `NoSilentLoss`, `EffectsBounded`, that the code implements `SnapshotDelivery`, and under fairness `EverySnapshotWorkedOff` |
| `latest_score` | two snapshots, redelivery | stops | **violated**: a redelivered snapshot becomes the latest score again |
| `issue_refresh` | 2 issues, 3 handlers, 2 faults | 61 k | `QuietAccurate`, `DuplicatesBounded`, `EventuallyAccurate` |
| `analyzer_registry` | 3 analyzers, up to 2 issues each, any may panic | 4 k | no send after close, no blocking, no deadlock, `ImplementsReport`, `RunReturns` |
| `api_server` | 3 requests of two tenants, limit 1, 2 minutes, 2 Contexts, 1 failure of Redis, 1 other, a stop, symmetry | 2.11 M | `WindowBudget`, `LimitedForCause`, `OnceLimitedStaysLimited`, `OwnRowUntilReused` |
| `sliding_window` | 2 requests, limit 1, no fault | stops | **violated**: two requests less than a minute apart are let through |
| `graceful_shutdown` | no fault | stops | **violated**: the process exits with a request in flight |
| `audit_logged` | no fault | stops | **violated**: the audit row of an answered request is lost without any failure |
| `diagnostics_cache` | 2 requests, the code's own limits in half minutes, 1 fault, symmetry | 707 k | `AnswerAge`, `CancelNotCached`, `RetryFindsAnswer` |
| `cluster_figures` | up to 2 containers of 3 kinds, 2 scans, 2 changes, 1 fault, the default prices | 447 k | `ScoreBetweenParts`, `TablesAgree`, `PromiseKept`, `DefaultProposalSafe`, `PoorScoreExplained` |
| `cluster_scan` | 15 families of objects, up to 3 at a time, 2 changes, 1 failing call, two configurations | 1.14 M | `NothingInvented`, `NothingMissed`, `ReportedOnce`, `HealthTellsTruth`, `CollectorsAgree` |
| `model_management` | 2 replicas, 3 requests of any kind, 2 models, 3 backends, 1 fault, symmetry | 1.51 M | `LastSwitchWins`, `LabelFitsModel`, `PanicOnlyWithoutOllama` |

**Why the bounds suffice.** Two replicas and the code's own three deliveries give every overlap of two handlers of one
snapshot, a queue in which a redelivery waits behind its forerunner, and a late answer in every status of the stream; three
faults let each delivery of the snapshot be lost. The TLC instance has one snapshot, so that fairness can be checked beside the rest;
two appear in `latest_score`, and the theorems of `SnapshotWorkerProofs` hold for any number. Two issues let an ingest be interrupted between two INSERTs; three handlers let two
abandoned ones overlap with a third. Three analyzers let one be in each of the states before, in and
after its send. With a limit of one and two minutes, the second request of a tenant can be turned away, be
counted in the next minute, or be let through by a fault, and the other tenant's request must not count; with two Contexts for three requests one is reused
and another may not be. Two
requests to the page let one store what the other reads or overwrites, and ten half minutes are longer than
a full question followed by a full life of the key. Two containers are the least for which an average, and a
sum of rounded figures, differ from each; two scans put one before and one after a change, or one on each path;
the three kinds are idle, overloaded and without a request, so that every part of a score that varies takes low
and high values and memory is taken from the ladder of sizes and from above it. The families of `cluster_scan` hold, for each reader, objects
on both sides of every threshold and condition, and namesakes in other namespaces; three objects let one refer to a second
while a third hides or repeats it, and two changes let an object go and come back, or its referrer and its target both
change, within one scan. Three requests let two switches overlap while a third reads the name, and two replicas keep a switch
at one apart from an answer of the other. Every unbounded counter of a model has a named bound.

**Fairness.** The weak fairness assumed is of what the scheduler, a timer or an orchestrator does: the stream
goes on delivering and its ack timers run; a replica that is up continues its handler, whose statements have a context
with a deadline of 30 s, but for the call to Slack, which has none; a stopped replica is started again (`Deployment`); the agent's ticker ticks; a handler in
the API and a statement in the database end; the Go scheduler runs every goroutine that can run. No fairness makes an
analysis of the registry end, an agent publish, a write succeed, a Redis call succeed or a stop happen. Deadlock is checked for the agent and
the ingest, which go on for ever; the other models come to rest when all their requests, snapshots or
analyzers are done, and their configurations say so.

## 4. What is proved

TLAPS checks the following for all values of the constants that satisfy these assumptions, each named in
its module and evaluated by TLC in the runs: `WorkersAssumption` (bounds are naturals, at least one
delivery), `RegistryAssumption` (a number of analyzers, findings that are sequences of severities, the
empty one among them), `RateLimitAssumption` (finitely many requests, each of a tenant),
`ApiServerAssumption` (the mark of a free Context is neither a request nor a Context),
`CacheAssumption` (limits are naturals, the time to live and the write timeout not zero),
`PriceAssumption` (prices are natural multiples of the default ones), `FiguresAssumption` (requests and
usages are naturals), `IssuesAssumption` (finitely many handlers; "delete" is no issue), `SnapshotAssumption` and
`ScanAssumption` (every reader has listings; ages of events and bounds are naturals; events have names, which are no
container's; a pod has finitely many containers) and `ModelAssumption` (the configured
model is one; the backends are the code's).

* **`SnapshotWorkerProofs`**. `TypeOK`, `NoSilentLoss` and `EffectsBounded` follow from
  `IInv == TypeOK /\ StreamInv /\ InboxInv /\ JobInv /\ ProgressInv /\ AckInv /\ BudgetInv`. None of the three is
  inductive by itself: that an acknowledged snapshot left a trace needs to know how far the handler that sent
  the ack had come (`ProgressInv`, `AckInv`), and the bound on effects needs that every handler at work
  belongs to one of the deliveries counted by the stream (`InboxInv`, `JobInv`, `BudgetInv`). From the same
  invariant every step is a step of `SnapshotDelivery` or leaves its variables unchanged
  (`DeliveryImplemented`).
* **`AnalyzerRegistryProofs`**. `IInv == TypeOK /\ LoopInv /\ CrashInv /\ ChannelInv /\ ResultInv`. `LoopInv` relates the
  wait group to the goroutines that are not done, which gives that the close comes last (`ClosedLast`);
  `ChannelInv` relates the channel's length to the analyzers that have sent, which gives that no send has
  to wait (`SendsNeverBlock`). `ReportImplemented` shows the refinement of `DiagnosisReport`; it uses
  `ScoreUnordered`, that a score does not depend on the order in which the goroutines finished, and the lemma
  `ScoreRange` bounds the score by 0 and 100.
* **`ApiServerProofs`**, first about the limiter by itself. `IInv == Types /\ StageInv /\ AnswerInv /\ CounterInv /\ UnheardInv`: the answers Redis gave for one key are
  pairwise different and at most the counter, and the counter is at most the requests counted plus the
  faults spent; and the requests Redis did not answer are at most the faults, for each met one of its own (`UnheardInv`). That at most
  `Limit` requests pass with an answer is then an argument about an injection into an interval (`HeardWithinLimit`), and `AtMostLimit` adds
  those without one; `NoneWithoutCause` is its converse, and `StaysLimited` an
  action property. Then about the server: every step of it is one of the limiter or leaves the limiter's variables alone
  (`ServerLimits`, the composition's refinement), so what holds of the limiter holds of the server's requests; with
  `AdmissionInv`, that a handler runs only for an admitted request, the same bound holds of the handlers that run (`HandlersLimited`).
  `OwnRowUntilReused` needs `ServerInv == ServerTypeOK /\ ExclusiveInv /\ KnownInv /\ AuditInv`: a Context belongs to one request
  as long as that is served, has its user and tenant from `Auth` on, and an audit goroutine that has not read yet reads them
  unless the Context has been taken again.
* **`DiagnosticsCacheProofs`**. `IInv == TypeOK /\ AgeInv /\ CancelInv /\ FreshAnswer /\ CutIsCached`. `AgeInv` bounds the
  age of what is at each stage of its way: of a question, of an analysis waiting to be stored, of the key's value; the
  bound of an answer's age (`AnswerAge`) is their sum. `CancelInv` ties a cancelled question to its client's
  leaving. `RetryFindsAnswer` needs that without a fault an answer that took any time at all has just been stored
  (`FreshAnswer`), so that one cut off stays in the key until its time is up (`CutIsCached`).
* **`ClusterFiguresProofs`**. `IInv` adds to `TypeOK`, `ScoreBetweenParts`, `PoorScoreExplained` and
  `DefaultProposalSafe` the types of the stream and of a proposal's sizes. The work is in the lemmas about the
  functions: every part is clamped, hence a percentage, whatever the sum it comes from (`PartsTyped`); a weighted
  sum lies between its parts, and without advice it is 44.5 at least (`WeightedBetween`), which no failing
  grade has (`GradeTyped`); rounding never eats the safety buffer (`OptimalCoversUsage`), so the default proposal is
  safe and has no waste left (`DefaultAnswer`). `TablesAgree` and `PromiseKept` compare sums over all containers or rows. The library's
  induction over finite sets takes an operator, so sums have an induction of their own: over the subsets of the domain,
  as a set of the wanted subsets (`SubsetInduction`), from the least number of elements of a counterexample (`LeastNatural`). `SumExists` shows that
  the function by which `SumFunction` is defined exists, and `SumOfOne`, `SumOfEqual` and `SumOfRounded` say what it gives. The two tables
  agree because scans are numbered (`ScanInv`: what is in the stream, the score and the rows have different numbers unless they
  come from one snapshot), and because a sum of rounded amounts is off by half a cent for each (`Near`). The promise comes
  true because the average over rows of one container is that container (`MeanOfEqual`, `PresentIsContainer`), so that the proposal's
  waste less its savings is the waste of the proposed cluster (`ProposalInv`), and because every snapshot with a later number than the promise
  is one of the cluster as promised (`PromiseInv`).
* **`IssueRefreshProofs`**. `IInv == TypeOK /\ WaitInv /\ StrayInv /\ CountInv /\ AloneInv`. The bound on duplicates is
  not inductive, because a row may be still to come. `CountInv` counts the rows there are, the handlers that may yet insert
  the issue and the statements already sent, and bounds their sum; a DELETE that succeeds sets the first to zero, and then
  `StrayInv` is needed, that every handler without its agent and every statement in flight has had a fault of its own.
  `QuietAccurate` follows from `AloneInv`: without a fault since it started, the table holds what the one handler has inserted so far.
* **`ClusterScanProofs`**. `TypeOK` needs that every issue has one of the four severities, a lemma for each analyzer.
  For `NothingInvented` the induction is over what is in the reader's hands (`FindInv`): an object it has yet to examine, or
  whose references it has yet to look up, was in the cluster when it was listed (`PastInv`, `TodoInv`) and is of the kind
  listed (`KindInv`), so that either it has been touched since or it is still there and its issue is true now. The one
  analyzer whose verdict on an object depends on other objects is that of the network policies: it lists them first, and
  what it remembers can only hide an issue (`DirectAntitone`, `PolicyInv`). `ReportedOnce` needs that what is in `found` is in `seen`
  (`OnceInv`). `NothingMissed` is the converse of `NothingInvented` and needs an invariant of its own: a problem that lasts is of an
  object that has still to be listed, to be examined, or to have a reference looked up, or it is shown (`CoverInv`). What is skipped
  because something of its key was met before needs to know what was met: an event that was reported or left out (`EventsSeen`), a ConfigMap that was
  reported or optional (`ConfigMapsSeen`), a namespace that has a policy (`PoliciesSeen`). `HealthTellsTruth` follows from it, for the score counts
  every finding once (`ScoredInv`, `ScoreOfCritical`). `CollectorsAgree` is about the two implementations alone.
* **`ModelManagementProofs`**. `IInv == TypeOK /\ ServiceInv /\ LockInv /\ NameInv /\ LabelInv /\ PanicOnlyWithoutOllama`. `LockInv`
  says who may be writing, `NameInv` that the name is whole again before the lock is released, and `LabelInv` that the words a
  request has read are still those of the name unless a switch wrote since.

**Only model-checked:** the liveness properties (`EverySnapshotWorkedOff`, `EventuallyAccurate`, `RunReturns`),
for TLAPS does not do fairness here. Every invariant and action property that a passing run checks is a theorem as well. What the
arithmetic of `SnapshotAnalysis` says of the code's floating point is neither checked nor proved: the module rounds where 2.7 says.

## 5. Findings

Four runs are violated; `findings` in `PROJECT.json` quotes both sides of each disagreement.

* `latest_score`: a snapshot that is delivered again gets a row with the present time, so that an old score becomes the latest.
* `sliding_window`: the limiter counts per calendar minute, so that up to twice the limit passes within sixty seconds, where
  `docs/security.md:12` states a sliding window.
* `graceful_shutdown`: the process exits as soon as `ListenAndServe` returns, with requests in flight, where `server.go:34` and
  `cmd/api/main.go:42,50` announce a graceful shutdown.
* `audit_logged`: the audit row is inserted under the context of a request that is over, so it is lost without any failure.

Other behaviour that the models have because the code has it. The first two contradict the words of a comment or a log line as well, and
no run is spent on them; about the others no text of the repository says otherwise:

* The worker logs a graceful stop (`cmd/worker/main.go:44`, "arrêt gracieux worker..."), but `nc.Drain` only starts draining: its handler is
  cut off (`Stop` of `SnapshotWorker`). `NoSilentLoss` and `EverySnapshotWorkedOff` say what remains true.
* A download that was accepted is announced as asynchronous and in the background (`models.go:51` and `:60`), but it runs under the request's context
  and is cancelled when its handler returns, unless it has ended by then (`NotDownloaded` of `ModelManagement`).
* Between the DELETE and the INSERTs of an ingest the page tells its reader that the cluster was not scanned.
* `ListModels` and `SwitchModel` name the configured model as the current or previous one, whatever was switched to.
* A switch concerns the replica that got the request; the others, and this one after a restart, keep their model.
* With an external backend a download ends the process.
* With configured prices other than the default ones the savings page and the waste page disagree, and the what-if page,
  which computes with the configured ones, promises other savings than the savings page will show.
* A failed call to the cluster is reported as a missing object by the analyzers that look objects up, and a
  dropped listing error makes a snapshot or a scan look complete.

## 6. Not modelled, and what is left

The modules were written in this order: the worker, the ingest, the registry, the rate limiter, the server, the
cache of the analyses, the figures, the models, the scan. Not modelled are, and why:

* *Cache-aside of the read handlers and the live view* (`handlers/score.go`, `websocket.go`, the frontend's
  `websocket.ts`): the cache has a TTL and no invalidation, and no answer promises more than to be recent. In the reconnecting client
  `close` does not cancel a reconnect that is pending.
* *Token validation* (`auth/jwt.go`): what can go wrong is a race on a Go map, a fault of the runtime and not a state of a request.
* *Migrations and the creation of a tenant*: sequential programs run by hand; their hazards are listed at their lines.
* *The weekly report*: when it comes depends on the calendar and on restarts; nothing is kept that could be wrong.
* *NATS in the agent*: `cmd/agent` does not construct that publisher; the worker's model takes any.
* *The page's query* (`LIMIT 20`, severities sorted as text) and the rows of `pod_metrics`.
* *Left out for good*: rendering in the frontend, texts of messages, mails and prompts, the parsing of a language model's
  answers, deployment descriptions (their numbers of replicas and deadlines are constants of the models), and handlers that
  are one query.
