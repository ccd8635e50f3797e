--------------------------- MODULE SnapshotWorker ---------------------------
(***************************************************************************)
(* The backend worker: replicas of one process that consume the snapshots  *)
(* agents publish on the JetStream stream METRICS, compute a Green Score   *)
(* and persist it (backend/internal/worker/consumer.go, processor.go).     *)
(*                                                                         *)
(* JetStream hands a message to one replica of the queue group, starts an  *)
(* ack timer and delivers again, at most MaxDeliver times, when the        *)
(* message is refused (Nak) or the timer expires.  nats.go queues what a   *)
(* replica receives and runs the handler on one message after the other,   *)
(* so the timer of a queued message may expire before its handler starts:  *)
(* two replicas can process the same snapshot, and a replica can still be  *)
(* at work on a snapshot the stream has already settled.                   *)
(*                                                                         *)
(* A delivery is a pair <<s, n>>: the n-th time snapshot s was delivered.  *)
(* Snapshots are numbered in the order they were collected and published.  *)
(***************************************************************************)
EXTENDS Naturals, Sequences

CONSTANTS Workers,      \* the replicas of the worker process
          MaxSnapshot,  \* bound: how many snapshots are published
          MaxDeliver,   \* nats.MaxDeliver(3)
          MaxFaults     \* bound: replica stops, failed writes and lost acks, together

ASSUME WorkersAssumption == /\ MaxSnapshot \in Nat
                            /\ MaxDeliver \in Nat \ {0}
                            /\ MaxFaults \in Nat

Snapshots  == 1..MaxSnapshot
Delivery   == Snapshots \X (1..MaxDeliver)
NoDelivery == <<0, 0>>

(***************************************************************************)
(* What the handler can tell about a message: no X-Signature header, a     *)
(* payload json.Unmarshal refuses, a snapshot without pods, one whose      *)
(* score is under the alert threshold, any other snapshot.                 *)
(***************************************************************************)
Unprocessable == {"unsigned", "malformed"}
Alerting      == {"empty", "low"}
Processable   == Alerting \union {"fine"}
Contents      == Unprocessable \union Processable

\* Where Process stands for a delivery a replica works on, and where a delivery ends.
Working  == {"score", "metrics", "alert", "seen", "ack"}
InHand   == Working \union {"inbox"}
Statuses == {"unsent", "waiting", "pending", "acked", "exhausted"}

VARIABLES
  \* the stream and its durable consumer
  content,     \* what each published message holds
  status,      \* the consumer's view of each message
  deliveries,  \* how often each message was delivered
  \* the replicas
  up,          \* which replicas run
  inbox,       \* per replica: deliveries waiting for the handler, oldest first
  job,         \* per replica: the delivery its handler works on
  stage,       \* per delivery: how far its handling has come
  faults,      \* replica stops, failed writes and lost acks so far
  \* the database and the alert channel
  scoreRows,   \* rows of green_scores per snapshot
  latest,      \* the snapshot behind the newest row of green_scores, 0 if none
  metricRows,  \* batches of pod_metrics rows per snapshot
  seen,        \* snapshots whose handling refreshed clusters.last_seen_at
  alerts,      \* Slack messages per snapshot
  logged       \* snapshots of which a failed write left a line in the log

streamVars == <<content, status, deliveries>>
workerVars == <<up, inbox, job, stage, faults>>
dbVars     == <<scoreRows, latest, metricRows, seen, alerts, logged>>
vars       == <<content, status, deliveries, up, inbox, job, stage, faults,
                scoreRows, latest, metricRows, seen, alerts, logged>>

Init ==
  /\ content = [s \in Snapshots |-> "none"]
  /\ status = [s \in Snapshots |-> "unsent"]
  /\ deliveries = [s \in Snapshots |-> 0]
  /\ up = [w \in Workers |-> TRUE]
  /\ inbox = [w \in Workers |-> <<>>]
  /\ job = [w \in Workers |-> NoDelivery]
  /\ stage = [d \in Delivery |-> "none"]
  /\ faults = 0
  /\ scoreRows = [s \in Snapshots |-> 0]
  /\ latest = 0
  /\ metricRows = [s \in Snapshots |-> 0]
  /\ seen = {}
  /\ alerts = [s \in Snapshots |-> 0]
  /\ logged = {}

(***************************************************************************)
(* The stream.                                                             *)
(***************************************************************************)

\* A producer appends the next snapshot to the stream.
Publish(s, c) ==
  /\ status[s] = "unsent"
  /\ \A t \in Snapshots : t < s => status[t] # "unsent"
  /\ content' = [content EXCEPT ![s] = c]
  /\ status' = [status EXCEPT ![s] = "waiting"]
  /\ UNCHANGED <<deliveries, workerVars, dbVars>>

\* Mutant of Deliver: deliveries are numbered from 0.
DeliverFromZero(s, w) ==
  /\ status[s] = "waiting"
  /\ up[w]
  /\ deliveries[s] < MaxDeliver
  /\ LET d == <<s, deliveries[s]>>
     IN  /\ stage' = [stage EXCEPT ![d] = "inbox"]
         /\ inbox' = [inbox EXCEPT ![w] = Append(@, d)]
  /\ deliveries' = [deliveries EXCEPT ![s] = @ + 1]
  /\ status' = [status EXCEPT ![s] = "pending"]
  /\ UNCHANGED <<content, up, job, faults, dbVars>>

\* The consumer delivers: first deliveries follow the stream's order.
Deliver(s, w) ==
  /\ status[s] = "waiting"
  /\ up[w]
  /\ deliveries[s] < MaxDeliver
  /\ deliveries[s] = 0 => \A t \in Snapshots : t < s => deliveries[t] > 0
  /\ LET d == <<s, deliveries[s] + 1>>
     IN  /\ stage' = [stage EXCEPT ![d] = "inbox"]
         /\ inbox' = [inbox EXCEPT ![w] = Append(@, d)]
  /\ deliveries' = [deliveries EXCEPT ![s] = @ + 1]
  /\ status' = [status EXCEPT ![s] = "pending"]
  /\ UNCHANGED <<content, up, job, faults, dbVars>>

\* The status of a message that is not going to be acknowledged by this delivery.
Retry(s) == IF deliveries[s] < MaxDeliver THEN "waiting" ELSE "exhausted"

\* AckWait (60s) runs out, wherever the delivery is: queued, in a handler or lost.
AckWaitExpires(s) ==
  /\ status[s] = "pending"
  /\ status' = [status EXCEPT ![s] = Retry(s)]
  /\ UNCHANGED <<content, deliveries, workerVars, dbVars>>

(***************************************************************************)
(* handle: one replica runs it on one delivery at a time.                  *)
(***************************************************************************)

\* Something goes wrong; MaxFaults bounds how often.
Fault == faults < MaxFaults /\ faults' = faults + 1

\* The answer of handle takes message s from one of these statuses to next, or
\* is lost: Ack and Nak are fire-and-forget, their errors are ignored.
Answer(s, from, next) ==
  \/ /\ status' = IF status[s] \in from THEN [status EXCEPT ![s] = next] ELSE status
     /\ UNCHANGED faults
  \/ Fault /\ UNCHANGED status

\* handle returns early: the header is missing, or Process cannot read the
\* payload, and the message is refused.
Refuse(w) ==
  /\ job[w] = NoDelivery
  /\ inbox[w] # <<>>
  /\ LET d == Head(inbox[w])
     IN  /\ content[d[1]] \in Unprocessable
         /\ stage' = [stage EXCEPT ![d] = "refused"]
         /\ Answer(d[1], {"pending"}, Retry(d[1]))
  /\ inbox' = [inbox EXCEPT ![w] = Tail(@)]
  /\ UNCHANGED <<content, deliveries, up, job, dbVars>>

\* Mutant of Accept: the message is acknowledged before it is processed.
AcceptAndAck(w) ==
  /\ job[w] = NoDelivery
  /\ inbox[w] # <<>>
  /\ LET d == Head(inbox[w])
     IN  /\ content[d[1]] \in Processable
         /\ job' = [job EXCEPT ![w] = d]
         /\ stage' = [stage EXCEPT ![d] = "score"]
         /\ status' = [status EXCEPT ![d[1]] = "acked"]
  /\ inbox' = [inbox EXCEPT ![w] = Tail(@)]
  /\ UNCHANGED <<content, deliveries, up, faults, dbVars>>

\* Mutant of Accept: a redelivery is taken for a duplicate and acknowledged.
AcceptFirstOnly(w) ==
  /\ job[w] = NoDelivery
  /\ inbox[w] # <<>>
  /\ LET d == Head(inbox[w])
     IN  /\ content[d[1]] \in Processable
         /\ IF d[2] = 1
            THEN /\ job' = [job EXCEPT ![w] = d]
                 /\ stage' = [stage EXCEPT ![d] = "score"]
                 /\ UNCHANGED status
            ELSE /\ stage' = [stage EXCEPT ![d] = "acked"]
                 /\ status' = [status EXCEPT ![d[1]] = "acked"]
                 /\ UNCHANGED job
  /\ inbox' = [inbox EXCEPT ![w] = Tail(@)]
  /\ UNCHANGED <<content, deliveries, up, faults, dbVars>>

\* Process reads the payload and computes reports, score, carbon and savings.
Accept(w) ==
  /\ job[w] = NoDelivery
  /\ inbox[w] # <<>>
  /\ LET d == Head(inbox[w])
     IN  /\ content[d[1]] \in Processable
         /\ job' = [job EXCEPT ![w] = d]
         /\ stage' = [stage EXCEPT ![d] = "score"]
  /\ inbox' = [inbox EXCEPT ![w] = Tail(@)]
  /\ UNCHANGED <<streamVars, up, faults, dbVars>>

\* Worker w's handler is at this step of Process.
At(w, step) == job[w] # NoDelivery /\ stage[job[w]] = step

MoveTo(w, step) == stage' = [stage EXCEPT ![job[w]] = step]

(***************************************************************************)
(* A write ends in one of three ways: stored, not stored, or stored while  *)
(* its caller sees an error (deadline or connection lost after the         *)
(* commit).  Process goes on in every case.                                *)
(***************************************************************************)
Stored  == {"ok", "unknown"}
Results == Stored \union {"error"}

\* Mutant of Note: the error is discarded, as that of UpdateLastSeen is.
NoteDiscarding(s, result) ==
  /\ UNCHANGED logged
  /\ IF result = "ok" THEN UNCHANGED faults ELSE Fault

\* The rows of snapshot s are written with this result; an error is logged.
Note(s, result) ==
  IF result = "ok" THEN UNCHANGED <<logged, faults>>
                   ELSE Fault /\ logged' = logged \union {s}

\* Mutant of InsertScore: a write that reports an error is tried again.
InsertScoreRetrying(w, result) ==
  /\ At(w, "score")
  /\ LET s == job[w][1]
     IN  /\ scoreRows' = IF result \in Stored
                         THEN [scoreRows EXCEPT ![s] = @ + 1] ELSE scoreRows
         /\ latest' = IF result \in Stored THEN s ELSE latest
         /\ Note(s, result)
  /\ MoveTo(w, IF result = "ok" THEN "metrics" ELSE "score")
  /\ UNCHANGED <<streamVars, up, inbox, job, metricRows, seen, alerts>>

\* TimescaleRepo.InsertScore stamps the row with the time of the insert.
InsertScore(w, result) ==
  /\ At(w, "score")
  /\ LET s == job[w][1]
     IN  /\ scoreRows' = IF result \in Stored
                         THEN [scoreRows EXCEPT ![s] = @ + 1] ELSE scoreRows
         /\ latest' = IF result \in Stored THEN s ELSE latest
         /\ Note(s, result)
  /\ MoveTo(w, "metrics")
  /\ UNCHANGED <<streamVars, up, inbox, job, metricRows, seen, alerts>>

\* MetricsRepo.BulkInsert writes all rows in one transaction; without rows
\* Process does not call it.
BulkInsert(w, result) ==
  /\ At(w, "metrics")
  /\ LET s == job[w][1]
     IN  /\ IF content[s] = "empty"
            THEN UNCHANGED <<metricRows, logged, faults>>
            ELSE /\ metricRows' = IF result \in Stored
                                  THEN [metricRows EXCEPT ![s] = @ + 1] ELSE metricRows
                 /\ Note(s, result)
         /\ MoveTo(w, IF content[s] \in Alerting THEN "alert" ELSE "seen")
  /\ UNCHANGED <<streamVars, up, inbox, job, scoreRows, latest, seen, alerts>>

\* The score is under ScoreAlertThreshold (an empty snapshot scores 0).
Alert(w) ==
  /\ At(w, "alert")
  /\ alerts' = [alerts EXCEPT ![job[w][1]] = @ + 1]
  /\ MoveTo(w, "seen")
  /\ UNCHANGED <<streamVars, up, inbox, job, faults, scoreRows, latest, metricRows,
                 seen, logged>>

\* ClusterRepo.UpdateLastSeen; Process discards its error without logging it.
UpdateLastSeen(w, result) ==
  /\ At(w, "seen")
  /\ seen' = IF result \in Stored THEN seen \union {job[w][1]} ELSE seen
  /\ IF result = "ok" THEN UNCHANGED faults ELSE Fault
  /\ MoveTo(w, "ack")
  /\ UNCHANGED <<streamVars, up, inbox, job, scoreRows, latest, metricRows,
                 alerts, logged>>

\* handle ends with msg.Ack().  It settles the message even when this delivery's
\* timer has expired, unless the stream has given up.
Ack(w) ==
  /\ At(w, "ack")
  /\ Answer(job[w][1], {"pending", "waiting"}, "acked")
  /\ MoveTo(w, "acked")
  /\ job' = [job EXCEPT ![w] = NoDelivery]
  /\ UNCHANGED <<content, deliveries, up, inbox, dbVars>>

(***************************************************************************)
(* A replica stops: a crash, or a SIGTERM.  Start calls nc.Drain(), which  *)
(* only starts draining, and returns; main then exits, so the handler and  *)
(* the queued messages are cut off as in a crash.                          *)
(***************************************************************************)
HeldBy(w) == {inbox[w][i] : i \in 1..Len(inbox[w])} \union ({job[w]} \ {NoDelivery})

Stop(w) ==
  /\ up[w]
  /\ Fault
  /\ up' = [up EXCEPT ![w] = FALSE]
  /\ stage' = [d \in Delivery |-> IF d \in HeldBy(w) THEN "lost" ELSE stage[d]]
  /\ inbox' = [inbox EXCEPT ![w] = <<>>]
  /\ job' = [job EXCEPT ![w] = NoDelivery]
  /\ UNCHANGED <<streamVars, dbVars>>

\* The Deployment starts the replica again; it binds to the durable consumer.
Start(w) ==
  /\ ~up[w]
  /\ up' = [up EXCEPT ![w] = TRUE]
  /\ UNCHANGED <<streamVars, inbox, job, stage, faults, dbVars>>

\* The steps of the handler that end by themselves or with its 30s context.
Prompt(w) ==
  \/ Refuse(w)
  \/ Accept(w)
  \/ \E r \in Results : InsertScore(w, r)
  \/ \E r \in Results : BulkInsert(w, r)
  \/ \E r \in Results : UpdateLastSeen(w, r)
  \/ Ack(w)

Handle(w) == Prompt(w) \/ Alert(w)

Next ==
  \/ \E s \in Snapshots, c \in Contents : Publish(s, c)
  \/ \E s \in Snapshots, w \in Workers : Deliver(s, w)
  \/ \E s \in Snapshots : AckWaitExpires(s)
  \/ \E w \in Workers : Handle(w)
  \/ \E w \in Workers : Stop(w)
  \/ \E w \in Workers : Start(w)

Spec == Init /\ [][Next]_vars

(***************************************************************************)
(* Fairness: the server goes on delivering and its timers run; a running   *)
(* replica goes on with its handler, whose statements end with the 30s     *)
(* context of handle; a stopped replica is started again.  Nothing makes   *)
(* an agent publish, a write succeed or an ack arrive, and nothing makes   *)
(* the call to Slack return: SendScanReport is given no context.           *)
(***************************************************************************)
Fairness ==
  /\ \A s \in Snapshots : /\ WF_vars(\E w \in Workers : Deliver(s, w))
                          /\ WF_vars(AckWaitExpires(s))
  /\ \A w \in Workers : WF_vars(Prompt(w)) /\ WF_vars(Start(w))

FairSpec == Spec /\ Fairness

(***************************************************************************)
(* Properties.                                                             *)
(***************************************************************************)

\* Every variable stays in its range; the counts are of the order of the
\* deliveries the consumer (consumer.go:68-76) allows.
TypeOK ==
  /\ content \in [Snapshots -> Contents \union {"none"}]
  /\ status \in [Snapshots -> Statuses]
  /\ deliveries \in [Snapshots -> 0..MaxDeliver]
  /\ up \in [Workers -> BOOLEAN]
  /\ inbox \in [Workers -> Seq(Delivery)]
  /\ job \in [Workers -> Delivery \union {NoDelivery}]
  /\ stage \in [Delivery -> InHand \union {"none", "refused", "acked", "lost"}]
  /\ faults \in 0..MaxFaults
  /\ scoreRows \in [Snapshots -> Nat]
  /\ latest \in Snapshots \union {0}
  /\ metricRows \in [Snapshots -> Nat]
  /\ seen \subseteq Snapshots
  /\ alerts \in [Snapshots -> Nat]
  /\ logged \subseteq Snapshots

\* The rows Process has to leave behind for snapshot s are in the database.
FullyStored(s) ==
  /\ scoreRows[s] > 0
  /\ content[s] # "empty" => metricRows[s] > 0

\* Some delivery of s is queued at a replica or in its handler.
InProgress(s) == \E n \in 1..MaxDeliver : stage[<<s, n>>] \in InHand

\* Every delivery of s died with the replica that held it.
LostWithReplicas(s) == \A n \in 1..MaxDeliver : stage[<<s, n>>] = "lost"

\* No rows of a snapshot are missing without a trace.  Once the stream is done with a
\* readable snapshot, by an ack or by giving up, its rows are stored, or the error of
\* one of its writes was logged (processor.go:114-117, 141-145), or a replica is still
\* working on it, or every one of its deliveries died with the replica that held it;
\* an ack implies one of the first two.  Of clusters.last_seen_at it can only say that
\* an acknowledged snapshot misses its refresh after a fault, because the error of
\* that statement goes unseen (processor.go:153).
NoSilentLoss ==
  \A s \in Snapshots :
    /\ status[s] = "acked" => FullyStored(s) \/ s \in logged
    /\ status[s] = "acked" => s \in seen \/ faults > 0
    /\ (status[s] = "exhausted" /\ content[s] \in Processable) =>
          FullyStored(s) \/ s \in logged \/ InProgress(s) \/ LostWithReplicas(s)

\* However deliveries overlap, expire, fail half-way or are repeated after an
\* answer was lost, one snapshot leaves at most MaxDeliver score rows, MaxDeliver
\* batches of metric rows and MaxDeliver Slack messages (none of these writes is
\* idempotent: timescale.go:15-25, metrics_repo.go:44-55, processor.go:148-150).
EffectsBounded ==
  \A s \in Snapshots : /\ scoreRows[s] <= MaxDeliver
                       /\ metricRows[s] <= MaxDeliver
                       /\ alerts[s] <= MaxDeliver

\* What the backend presents as the current Green Score never goes back to an
\* older snapshot (timescale.go:55, docs/api-reference.md:15).
LatestScoreNeverRegresses == [][latest' >= latest]_latest

\* Every readable snapshot is worked off: whatever acks are lost, whatever timers
\* expire and however often replicas stop in its way, its rows are stored in the end,
\* or an error of theirs is logged, or all its deliveries died with their replicas;
\* unless a call to Slack never returns, which holds up the deliveries queued behind
\* it (consumer.go:91-110, processor.go:149).
EverySnapshotWorkedOff ==
  \/ \A s \in Snapshots : content[s] \in Processable ~>
                            FullyStored(s) \/ s \in logged \/ LostWithReplicas(s)
  \/ <>[](\E w \in Workers : At(w, "alert"))

\* The worker implements the promise of SnapshotDelivery.
Outcome(s) == IF status[s] \in {"waiting", "pending"} THEN "live" ELSE status[s]

Delivered == INSTANCE SnapshotDelivery
               WITH outcome <- [s \in Snapshots |-> Outcome(s)],
                    scores <- scoreRows, failed <- logged

ImplementsDelivery == Delivered!ASpec
=============================================================================
