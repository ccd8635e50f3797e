---------------------------- MODULE IssueRefresh ----------------------------
(***************************************************************************)
(* How the issues of one cluster reach the table cluster_issues, whose     *)
(* rows of the last hour the diagnostics page shows: the agent's           *)
(* collection loop and HTTP publisher (agent/internal/collector and        *)
(* publisher/http.go) and the ingest handler (handlers/metrics.go).        *)
(*                                                                         *)
(* An ingest deletes the cluster's unresolved issues and inserts the new   *)
(* ones row by row, without a transaction and ignoring every error.  It    *)
(* runs under the request's context: when the agent gives up (its timeout  *)
(* is 30s) and the server notices, the statement in execution may still    *)
(* take effect, the remaining ones are not executed.  Until the server     *)
(* notices, the agent's next request runs beside it.                       *)
(***************************************************************************)
EXTENDS Naturals, FiniteSets

CONSTANTS Issues,     \* what can be wrong with a container (MissingLimits, ...)
          Handlers,   \* bound: the ingest requests in the server at one time
          MaxFaults,  \* bound: timeouts, lost servers, failed statements, silent hours
          Nobody      \* no handler: not a member of Handlers

VARIABLES
  waiting,   \* the handler whose answer the agent waits for
  snapshot,  \* the issues in the last snapshot the agent sent
  pc,        \* per handler: the statement it executes next, or "free"
  found,     \* per handler: the issues of its snapshot
  todo,      \* per handler: those it has yet to insert
  inFlight,  \* statements of cancelled handlers the database may still execute
  rows,      \* rows of cluster_issues of the last hour, per issue
  faults,    \* faults so far
  troubled   \* a fault happened since the last ingest that started alone

vars == <<waiting, snapshot, pc, found, todo, inFlight, rows, faults, troubled>>

Delete     == "delete"
Statements == Issues \union {Delete}  \* an issue stands for its INSERT

ASSUME IssuesAssumption ==
  MaxFaults \in Nat /\ IsFiniteSet(Handlers) /\ Nobody \notin Handlers /\ Delete \notin Issues

TableOf(issues) == [i \in Issues |-> IF i \in issues THEN 1 ELSE 0]

Init ==
  /\ waiting = Nobody
  /\ snapshot = {}
  /\ pc = [h \in Handlers |-> "free"]
  /\ found = [h \in Handlers |-> {}]
  /\ todo = [h \in Handlers |-> {}]
  /\ inFlight = {}
  /\ rows = TableOf({})
  /\ faults = 0
  /\ troubled = FALSE

Quiet == inFlight = {} /\ \A h \in Handlers : pc[h] = "free"

Fault == faults < MaxFaults /\ faults' = faults + 1 /\ troubled' = TRUE

(***************************************************************************)
(* The agent: it collects, posts the snapshot and waits for the answer.    *)
(***************************************************************************)

\* collect and HTTPPublisher.Publish, on a tick of the collection interval.
Post(issues) ==
  /\ waiting = Nobody
  /\ \E h \in Handlers : pc[h] = "free"
  /\ LET h == CHOOSE f \in Handlers : pc[f] = "free"
     IN  /\ waiting' = h
         /\ pc' = [pc EXCEPT ![h] = "metrics"]
         /\ found' = [found EXCEPT ![h] = issues]
         /\ todo' = [todo EXCEPT ![h] = issues]
  /\ snapshot' = issues
  /\ troubled' = (troubled /\ ~Quiet)
  /\ UNCHANGED <<inFlight, rows, faults>>

\* client.Do gives up after 30s, or the agent restarts.  Publish returns nil all
\* the same, and the next tick collects again.
Abandon ==
  /\ waiting # Nobody
  /\ Fault
  /\ waiting' = Nobody
  /\ UNCHANGED <<snapshot, pc, found, todo, inFlight, rows>>

(***************************************************************************)
(* IngestMetrics.                                                          *)
(***************************************************************************)

\* The rows of pod_metrics; the issues are untouched so far.
StoreMetrics(h) ==
  /\ pc[h] = "metrics"
  /\ pc' = [pc EXCEPT ![h] = Delete]
  /\ UNCHANGED <<waiting, snapshot, found, todo, inFlight, rows, faults, troubled>>

\* Mutant of Effect: the DELETE's condition matches no row.
EffectKeeping(s) == IF s = Delete THEN rows ELSE [rows EXCEPT ![s] = @ + 1]

\* What statement s makes of the table.
Effect(s) == IF s = Delete THEN TableOf({}) ELSE [rows EXCEPT ![s] = @ + 1]

\* A statement takes effect, or fails and the handler goes on all the same.
Execute(s) ==
  \/ rows' = Effect(s) /\ UNCHANGED <<faults, troubled>>
  \/ Fault /\ UNCHANGED rows

\* The DELETE of the unresolved issues.
DeleteOld(h) ==
  /\ pc[h] = Delete
  /\ Execute(Delete)
  /\ pc' = [pc EXCEPT ![h] = "insert"]
  /\ UNCHANGED <<waiting, snapshot, found, todo, inFlight>>

\* One INSERT; the order of the pods is the cluster's.
InsertIssue(h, i) ==
  /\ pc[h] = "insert"
  /\ i \in todo[h]
  /\ Execute(i)
  /\ todo' = [todo EXCEPT ![h] = @ \ {i}]
  /\ UNCHANGED <<waiting, snapshot, pc, found, inFlight>>

\* The handler is gone, and its snapshot with it.
Release(h) ==
  /\ pc' = [pc EXCEPT ![h] = "free"]
  /\ found' = [found EXCEPT ![h] = {}]
  /\ todo' = [todo EXCEPT ![h] = {}]

\* Mutant of Finish: the answer is sent before the issues are inserted.
FinishEarly(h) ==
  /\ pc[h] = "insert"
  /\ Release(h)
  /\ waiting' = IF waiting = h THEN Nobody ELSE waiting
  /\ UNCHANGED <<snapshot, inFlight, rows, faults, troubled>>

\* clusters.last_seen_at is refreshed and the answer, 200 whatever failed, is sent.
Finish(h) ==
  /\ pc[h] = "insert"
  /\ todo[h] = {}
  /\ Release(h)
  /\ waiting' = IF waiting = h THEN Nobody ELSE waiting
  /\ UNCHANGED <<snapshot, inFlight, rows, faults, troubled>>

\* What a handler may leave in flight: nothing, or the statement it is executing.
Leftovers(h) ==
  LET current == CASE pc[h] = Delete   -> {Delete}
                   [] pc[h] = "insert" -> todo[h]
                   [] OTHER            -> {}
  IN  {{}} \union {{<<h, s>>} : s \in current}

\* The handler ends because its context is cancelled: nothing more of it is
\* executed, but the statement left in flight may be.
Cancel(h) ==
  /\ pc[h] # "free"
  /\ \E left \in Leftovers(h) : inFlight' = inFlight \union left
  /\ Release(h)
  /\ UNCHANGED <<snapshot, rows>>

\* The server notices that the agent has gone.
Notice(h) ==
  /\ waiting # h
  /\ Cancel(h)
  /\ UNCHANGED <<waiting, faults, troubled>>

\* Mutant of LoseServer: without a client timeout the agent goes on waiting.
LoseServerUnnoticed(h) ==
  /\ Fault
  /\ Cancel(h)
  /\ UNCHANGED waiting

\* The API replica that runs the handler dies; the agent's request fails.
LoseServer(h) ==
  /\ Fault
  /\ Cancel(h)
  /\ waiting' = IF waiting = h THEN Nobody ELSE waiting

\* The database executes a statement whose client is gone, or rolls it back.
Land(e) ==
  /\ e \in inFlight
  /\ inFlight' = inFlight \ {e}
  /\ rows' \in {rows, Effect(e[2])}
  /\ UNCHANGED <<waiting, snapshot, pc, found, todo, faults, troubled>>

\* The agent is silent for an hour: no row is recent any more.
SilentHour ==
  /\ Quiet /\ waiting = Nobody
  /\ Fault
  /\ rows' = TableOf({})
  /\ UNCHANGED <<waiting, snapshot, pc, found, todo, inFlight>>

Ingest(h) ==
  \/ StoreMetrics(h)
  \/ DeleteOld(h)
  \/ \E i \in Issues : InsertIssue(h, i)
  \/ Finish(h)

Next ==
  \/ \E issues \in SUBSET Issues : Post(issues)
  \/ Abandon
  \/ \E h \in Handlers : Ingest(h)
  \/ \E h \in Handlers : Notice(h)
  \/ \E h \in Handlers : LoseServer(h)
  \/ \E e \in inFlight : Land(e)
  \/ SilentHour

Spec == Init /\ [][Next]_vars

(***************************************************************************)
(* Fairness: the agent's ticker goes on, handlers go on with their next    *)
(* statement, and the database finishes what it was sent.                  *)
(***************************************************************************)
FairSpec ==
  /\ Spec
  /\ WF_vars(\E issues \in SUBSET Issues : Post(issues))
  /\ \A h \in Handlers : WF_vars(Ingest(h))
  /\ WF_vars(\E e \in inFlight : Land(e))

(***************************************************************************)
(* Properties.                                                             *)
(***************************************************************************)

\* Every variable stays in its range, and the agent only ever waits for a handler that
\* is still at work for it: whoever ends it, its client's timeout frees the agent.
TypeOK ==
  /\ waiting \in Handlers \union {Nobody}
  /\ waiting # Nobody => pc[waiting] # "free"
  /\ snapshot \subseteq Issues
  /\ pc \in [Handlers -> {"free", "metrics", Delete, "insert"}]
  /\ found \in [Handlers -> SUBSET Issues]
  /\ todo \in [Handlers -> SUBSET Issues]
  /\ inFlight \subseteq Handlers \X Statements
  /\ rows \in [Issues -> Nat]
  /\ faults \in 0..MaxFaults
  /\ troubled \in BOOLEAN

\* One ingest that meets no fault and runs alone repairs whatever earlier ones left
\* behind: afterwards the table holds each issue of the last snapshot exactly once
\* and no other (metrics.go:81-132).
QuietAccurate == Quiet /\ waiting = Nobody /\ ~troubled => rows = TableOf(snapshot)

\* Without a transaction rows may double, but every extra row takes a fault of its
\* own: a handler that goes on after its agent gave up, a DELETE that failed, a
\* statement that takes effect late (metrics.go:82-132 ignores every error).
DuplicatesBounded == \A i \in Issues : rows[i] <= 1 + faults

\* Whatever goes wrong, the agent's next rounds bring the table back to what the
\* last snapshot found, again and again.
EventuallyAccurate == []<>(Quiet /\ waiting = Nobody /\ rows = TableOf(snapshot))
=============================================================================
