------------------------ MODULE SnapshotWorkerProofs ------------------------
(***************************************************************************)
(* TLAPS proofs about SnapshotWorker, for every number of replicas,        *)
(* snapshots, deliveries and faults.                                       *)
(***************************************************************************)
EXTENDS SnapshotWorker, FiniteSetTheorems, SequenceTheorems, TLAPS

(***************************************************************************)
(* The inductive invariant.                                                *)
(***************************************************************************)

\* The stream's books: what the consumer thinks of a message fits the number of
\* deliveries, and exactly the deliveries made have left the stage "none".
StreamInv ==
  \A s \in Snapshots :
    /\ status[s] = "unsent" => deliveries[s] = 0
    /\ status[s] = "exhausted" => deliveries[s] = MaxDeliver
    /\ \A n \in 1..MaxDeliver : stage[<<s, n>>] = "none" <=> n > deliveries[s]

\* A delivery is queued at one place of one replica.
InboxInv ==
  /\ \A w \in Workers : \A i \in 1..Len(inbox[w]) : stage[inbox[w][i]] = "inbox"
  /\ \A v, w \in Workers : \A i \in 1..Len(inbox[v]), j \in 1..Len(inbox[w]) :
       inbox[v][i] = inbox[w][j] => v = w /\ i = j

\* A handler works on a readable snapshot, and no two on the same delivery.
JobInv ==
  /\ \A w \in Workers : job[w] # NoDelivery =>
       stage[job[w]] \in Working /\ content[job[w][1]] \in Processable
  /\ \A v, w \in Workers : (job[v] = job[w] /\ job[v] # NoDelivery) => v = w

\* What a delivery of s at this stage has left behind: each step it is past has
\* stored its rows or has logged an error, and has refreshed clusters.last_seen_at or
\* has met a fault.
LeftBehind(s, at) ==
  /\ at = "refused" => content[s] \in Unprocessable
  /\ s \notin logged =>
       /\ at \in {"metrics", "alert", "seen", "ack", "acked"} => scoreRows[s] > 0
       /\ at \in {"alert", "seen", "ack", "acked"} =>
            (content[s] # "empty" => metricRows[s] > 0)
  /\ at \in {"ack", "acked"} => s \in seen \/ faults > 0

\* The stages of all deliveries are backed by the database.
ProgressInv ==
  \A s \in Snapshots, n \in 1..MaxDeliver : LeftBehind(s, stage[<<s, n>>])

\* What an acknowledgement of s vouches for: its rows or a logged error, and the
\* refresh of clusters.last_seen_at or a fault.
Vouched(s) == /\ FullyStored(s) \/ s \in logged
              /\ s \in seen \/ faults > 0

AckInv == \A s \in Snapshots : status[s] = "acked" => Vouched(s)

\* The deliveries of s that can still cause an effect: those at these stages.
Able(s, stages) == {n \in 1..MaxDeliver : stage[<<s, n>>] \in stages}

BeforeScore   == {"none", "inbox", "score"}
BeforeMetrics == BeforeScore \union {"metrics"}
BeforeAlert   == BeforeMetrics \union {"alert"}

\* Each effect so far and each delivery that may still cause one fit together
\* under MaxDeliver: an effect uses up a delivery.
BudgetInv ==
  \A s \in Snapshots :
    /\ scoreRows[s] + Cardinality(Able(s, BeforeScore)) <= MaxDeliver
    /\ metricRows[s] + Cardinality(Able(s, BeforeMetrics)) <= MaxDeliver
    /\ alerts[s] + Cardinality(Able(s, BeforeAlert)) <= MaxDeliver

IInv == TypeOK /\ StreamInv /\ InboxInv /\ JobInv /\ ProgressInv /\ AckInv /\ BudgetInv

-----------------------------------------------------------------------------
(***************************************************************************)
(* Type correctness.                                                       *)
(***************************************************************************)

\* The initial state of the worker and its stream is well typed.
LEMMA InitType == Init => TypeOK
BY WorkersAssumption DEF Init, TypeOK, Snapshots, Delivery, Statuses

\* The next delivery of a message that may still be delivered is a delivery.
LEMMA NextDelivery ==
  ASSUME TypeOK, NEW s \in Snapshots, deliveries[s] < MaxDeliver
  PROVE  /\ deliveries[s] + 1 \in 1..MaxDeliver
         /\ deliveries[s] + 1 > deliveries[s]
         /\ <<s, deliveries[s] + 1>> \in Delivery
BY WorkersAssumption DEF TypeOK, Delivery

\* The head of an inbox is a delivery, and what stays behind is an inbox.
LEMMA HeadOfInbox ==
  ASSUME TypeOK, NEW w \in Workers, inbox[w] # <<>>
  PROVE  /\ Head(inbox[w]) \in Delivery
         /\ Head(inbox[w]) = inbox[w][1]
         /\ Head(inbox[w])[1] \in Snapshots
         /\ Tail(inbox[w]) \in Seq(Delivery)
         /\ Len(inbox[w]) \in Nat \ {0}
<1>1. inbox[w] \in Seq(Delivery)
  BY DEF TypeOK
<1>2. Head(inbox[w]) \in Delivery /\ Tail(inbox[w]) \in Seq(Delivery)
  BY <1>1, HeadTailProperties
<1>3. Len(inbox[w]) \in Nat \ {0} /\ Head(inbox[w]) = inbox[w][1]
  BY <1>1, EmptySeq, SMTT(30)
<1>4. QED
  BY <1>2, <1>3 DEF Delivery

\* The delivery a handler works on is one of a published snapshot.
LEMMA JobIsDelivery ==
  ASSUME TypeOK, NEW w \in Workers, job[w] # NoDelivery
  PROVE  job[w] \in Delivery /\ job[w][1] \in Snapshots
BY DEF TypeOK, Delivery

\* An answer leaves a status, and a lost one is a fault.
LEMMA AnswerType ==
  ASSUME TypeOK, NEW s \in Snapshots, NEW from, NEW next \in Statuses,
         Answer(s, from, next)
  PROVE  status' \in [Snapshots -> Statuses] /\ faults' \in 0..MaxFaults
<1>1. status' \in [Snapshots -> Statuses]
  BY DEF Answer, TypeOK
<1>2. faults' \in 0..MaxFaults
  BY WorkersAssumption DEF Answer, Fault, TypeOK
<1>3. QED
  BY <1>1, <1>2

\* It changes no other message's status, and this one's only from the given ones.
LEMMA AnswerEffect ==
  ASSUME TypeOK, NEW s \in Snapshots, NEW from, NEW next, Answer(s, from, next)
  PROVE  \A t \in Snapshots : \/ status'[t] = status[t]
                              \/ t = s /\ status[t] \in from /\ status'[t] = next
BY DEF Answer, TypeOK

\* So does the result of a write.
LEMMA NoteType ==
  ASSUME TypeOK, NEW s \in Snapshots, NEW result, Note(s, result)
  PROVE  logged' \subseteq Snapshots /\ faults' \in 0..MaxFaults
BY WorkersAssumption DEF Note, Fault, TypeOK

\* Every action of the stream, of a handler or of a replica's life keeps the types.
LEMMA NextType == TypeOK /\ [Next]_vars => TypeOK'
<1> SUFFICES ASSUME TypeOK, [Next]_vars PROVE TypeOK'
  OBVIOUS
<1> USE WorkersAssumption DEF Contents, Statuses, InHand, Working
<1>1. ASSUME NEW s \in Snapshots, NEW c \in Contents, Publish(s, c) PROVE TypeOK'
  BY <1>1 DEF Publish, TypeOK, workerVars, dbVars
<1>2. ASSUME NEW s \in Snapshots, NEW w \in Workers, Deliver(s, w) PROVE TypeOK'
  <2> DEFINE d == <<s, deliveries[s] + 1>>
  <2>1. d \in Delivery /\ inbox[w] \in Seq(Delivery)
    BY <1>2, NextDelivery DEF Deliver, TypeOK
  <2>2. Append(inbox[w], d) \in Seq(Delivery)
    BY <2>1, AppendProperties
  <2>3. inbox' \in [Workers -> Seq(Delivery)]
    BY <1>2, <2>2 DEF Deliver, TypeOK
  <2>4. stage' \in [Delivery -> InHand \union {"none", "refused", "acked", "lost"}]
    BY <1>2 DEF Deliver, TypeOK
  <2>5. deliveries' \in [Snapshots -> 0..MaxDeliver]
    <3>1. deliveries[s] + 1 \in 0..MaxDeliver
      BY <1>2, NextDelivery DEF Deliver
    <3>2. QED
      BY <1>2, <3>1 DEF Deliver, TypeOK
  <2>6. QED
    BY <1>2, <2>3, <2>4, <2>5 DEF Deliver, TypeOK, dbVars
<1>3. ASSUME NEW s \in Snapshots, AckWaitExpires(s) PROVE TypeOK'
  BY <1>3 DEF AckWaitExpires, TypeOK, workerVars, dbVars, Retry
<1>4. ASSUME NEW w \in Workers, Refuse(w) PROVE TypeOK'
  <2> DEFINE d == Head(inbox[w])
  <2>1. d \in Delivery /\ d[1] \in Snapshots /\ Tail(inbox[w]) \in Seq(Delivery)
    BY <1>4, HeadOfInbox DEF Refuse
  <2>2. Retry(d[1]) \in Statuses
    BY DEF Retry
  <2>3. status' \in [Snapshots -> Statuses] /\ faults' \in 0..MaxFaults
    BY <1>4, <2>1, <2>2, AnswerType DEF Refuse
  <2>4. inbox' \in [Workers -> Seq(Delivery)]
    BY <1>4, <2>1 DEF Refuse, TypeOK
  <2>5. stage' \in [Delivery -> InHand \union {"none", "refused", "acked", "lost"}]
    BY <1>4, <2>1 DEF Refuse, TypeOK
  <2>6. QED
    BY <1>4, <2>3, <2>4, <2>5 DEF Refuse, TypeOK, dbVars
<1>5. ASSUME NEW w \in Workers, Accept(w) PROVE TypeOK'
  BY <1>5, HeadOfInbox DEF Accept, TypeOK, streamVars, dbVars
<1>6. ASSUME NEW w \in Workers, NEW r \in Results, InsertScore(w, r) PROVE TypeOK'
  <2>1. job[w] \in Delivery /\ job[w][1] \in Snapshots
    BY <1>6, JobIsDelivery DEF InsertScore, At
  <2>2. logged' \subseteq Snapshots /\ faults' \in 0..MaxFaults
    BY <1>6, <2>1, NoteType DEF InsertScore
  <2>3. scoreRows' \in [Snapshots -> Nat] /\ latest' \in Snapshots \union {0}
    BY <1>6, <2>1 DEF InsertScore, TypeOK
  <2>4. stage' \in [Delivery -> InHand \union {"none", "refused", "acked", "lost"}]
    BY <1>6, <2>1 DEF InsertScore, MoveTo, TypeOK
  <2>5. QED
    BY <1>6, <2>2, <2>3, <2>4 DEF InsertScore, TypeOK, streamVars
<1>7. ASSUME NEW w \in Workers, NEW r \in Results, BulkInsert(w, r) PROVE TypeOK'
  <2>1. job[w] \in Delivery /\ job[w][1] \in Snapshots
    BY <1>7, JobIsDelivery DEF BulkInsert, At
  <2>2. logged' \subseteq Snapshots /\ faults' \in 0..MaxFaults
    BY <1>7, <2>1, NoteType DEF BulkInsert, TypeOK
  <2>3. metricRows' \in [Snapshots -> Nat]
    <3>1. CASE content[job[w][1]] = "empty"
      BY <1>7, <3>1 DEF BulkInsert, TypeOK
    <3>2. CASE content[job[w][1]] # "empty"
      <4>1. \/ metricRows' = [metricRows EXCEPT ![job[w][1]] = @ + 1]
            \/ metricRows' = metricRows
        BY <1>7, <3>2 DEF BulkInsert
      <4>2. metricRows \in [Snapshots -> Nat]
        BY DEF TypeOK
      <4>3. CASE metricRows' = [metricRows EXCEPT ![job[w][1]] = @ + 1]
        BY <4>2, <4>3, <2>1
      <4>4. QED
        BY <4>1, <4>2, <4>3
    <3>3. QED
      BY <3>1, <3>2
  <2>4. stage' \in [Delivery -> InHand \union {"none", "refused", "acked", "lost"}]
    BY <1>7, <2>1 DEF BulkInsert, MoveTo, TypeOK
  <2>5. QED
    BY <1>7, <2>2, <2>3, <2>4 DEF BulkInsert, TypeOK, streamVars
<1>8. ASSUME NEW w \in Workers, Alert(w) PROVE TypeOK'
  <2>1. job[w] \in Delivery /\ job[w][1] \in Snapshots
    BY <1>8, JobIsDelivery DEF Alert, At
  <2>2. alerts' \in [Snapshots -> Nat]
    <3>1. alerts \in [Snapshots -> Nat] /\ alerts' = [alerts EXCEPT ![job[w][1]] = @ + 1]
      BY <1>8 DEF Alert, TypeOK
    <3>2. QED
      BY <2>1, <3>1
  <2>3. stage' \in [Delivery -> InHand \union {"none", "refused", "acked", "lost"}]
    BY <1>8, <2>1 DEF Alert, MoveTo, TypeOK
  <2>4. QED
    BY <1>8, <2>2, <2>3 DEF Alert, TypeOK, streamVars
<1>9. ASSUME NEW w \in Workers, NEW r \in Results, UpdateLastSeen(w, r) PROVE TypeOK'
  <2>1. job[w] \in Delivery /\ job[w][1] \in Snapshots
    BY <1>9, JobIsDelivery DEF UpdateLastSeen, At
  <2>2. logged' \subseteq Snapshots /\ faults' \in 0..MaxFaults
    BY <1>9 DEF UpdateLastSeen, Fault, TypeOK
  <2>3. seen' \subseteq Snapshots
    BY <1>9, <2>1 DEF UpdateLastSeen, TypeOK
  <2>4. stage' \in [Delivery -> InHand \union {"none", "refused", "acked", "lost"}]
    BY <1>9, <2>1 DEF UpdateLastSeen, MoveTo, TypeOK
  <2>5. QED
    BY <1>9, <2>2, <2>3, <2>4 DEF UpdateLastSeen, TypeOK, streamVars
<1>10. ASSUME NEW w \in Workers, Ack(w) PROVE TypeOK'
  <2>1. job[w] \in Delivery /\ job[w][1] \in Snapshots
    BY <1>10, JobIsDelivery DEF Ack, At
  <2>2. status' \in [Snapshots -> Statuses] /\ faults' \in 0..MaxFaults
    BY <1>10, <2>1, AnswerType DEF Ack
  <2>3. QED
    BY <1>10, <2>1, <2>2 DEF Ack, MoveTo, TypeOK, dbVars
<1>11. ASSUME NEW w \in Workers, Stop(w) PROVE TypeOK'
  BY <1>11 DEF Stop, Fault, TypeOK, streamVars, dbVars
<1>12. ASSUME NEW w \in Workers, Start(w) PROVE TypeOK'
  BY <1>12 DEF Start, TypeOK, streamVars, dbVars
<1>13. CASE UNCHANGED vars
  BY <1>13 DEF vars, TypeOK
<1>14. QED
  BY <1>1, <1>2, <1>3, <1>4, <1>5, <1>6, <1>7, <1>8, <1>9, <1>10, <1>11, <1>12, <1>13
     DEF Next, Handle, Prompt

\* The worker, its stream and its database stay well typed for every number of
\* replicas, snapshots and deliveries.
THEOREM TypeCorrect == Spec => []TypeOK
<1>1. QED BY InitType, NextType, PTL DEF Spec

-----------------------------------------------------------------------------
(***************************************************************************)
(* The stream, the inboxes and the jobs.  The four steps of Process that   *)
(* stay in the handler look alike to them: one delivery moves on.          *)
(***************************************************************************)

Process(w) == \/ \E r \in Results : InsertScore(w, r)
              \/ \E r \in Results : BulkInsert(w, r)
              \/ Alert(w)
              \/ \E r \in Results : UpdateLastSeen(w, r)

\* A step of Process moves one delivery from a working stage to a later one.
LEMMA ProcessMoves ==
  ASSUME NEW w \in Workers, Process(w)
  PROVE  /\ job[w] # NoDelivery
         /\ stage[job[w]] \in Working
         /\ \E x \in Working : stage' = [stage EXCEPT ![job[w]] = x]
         /\ UNCHANGED <<content, status, deliveries, inbox, job>>
BY DEF Process, InsertScore, BulkInsert, Alert, UpdateLastSeen, At, MoveTo, Working,
       streamVars

\* The cases of a step, with the steps of Process as one of them.
LEMMA NextCases ==
  ASSUME [Next]_vars
  PROVE  \/ \E s \in Snapshots, c \in Contents : Publish(s, c)
         \/ \E s \in Snapshots, w \in Workers : Deliver(s, w)
         \/ \E s \in Snapshots : AckWaitExpires(s)
         \/ \E w \in Workers : Refuse(w)
         \/ \E w \in Workers : Accept(w)
         \/ \E w \in Workers : Process(w)
         \/ \E w \in Workers : Ack(w)
         \/ \E w \in Workers : Stop(w)
         \/ UNCHANGED <<streamVars, inbox, job, stage, dbVars>>
BY DEF Next, Handle, Prompt, Process, Start, vars, streamVars, dbVars

\* What a replica holds are deliveries that are in hand.
LEMMA HeldInHand ==
  ASSUME TypeOK, InboxInv, JobInv, NEW w \in Workers
  PROVE  HeldBy(w) \subseteq Delivery /\ \A d \in HeldBy(w) : stage[d] \in InHand
<1>1. inbox[w] \in Seq(Delivery) /\ job[w] \in Delivery \union {NoDelivery}
  BY DEF TypeOK
<1>2. \A i \in 1..Len(inbox[w]) : inbox[w][i] \in Delivery
  BY <1>1, LenProperties
<1>3. HeldBy(w) \subseteq Delivery
  BY <1>1, <1>2 DEF HeldBy
<1>4. \A d \in HeldBy(w) : stage[d] \in InHand
  BY <1>2 DEF HeldBy, InboxInv, JobInv, InHand
<1>5. QED
  BY <1>3, <1>4

\* The consumer's books stay right.
LEMMA StreamStep ==
  ASSUME TypeOK, TypeOK', StreamInv, InboxInv, JobInv, [Next]_vars
  PROVE  StreamInv'
<1> USE WorkersAssumption
<1>1. ASSUME NEW s \in Snapshots, NEW c \in Contents, Publish(s, c) PROVE StreamInv'
  BY <1>1 DEF Publish, StreamInv, TypeOK, workerVars
<1>2. ASSUME NEW s \in Snapshots, NEW w \in Workers, Deliver(s, w) PROVE StreamInv'
  <2>1. \A t \in Snapshots : /\ status'[t] = IF t = s THEN "pending" ELSE status[t]
                             /\ deliveries'[t] = IF t = s THEN deliveries[s] + 1
                                                           ELSE deliveries[t]
    BY <1>2 DEF Deliver, TypeOK
  <2>2. \A t \in Snapshots, n \in 1..MaxDeliver :
          stage'[<<t, n>>] = IF t = s /\ n = deliveries[s] + 1 THEN "inbox"
                                                              ELSE stage[<<t, n>>]
    BY <1>2, NextDelivery DEF Deliver, TypeOK, Delivery
  <2>3. \A t \in Snapshots : deliveries[t] \in Nat
    BY DEF TypeOK
  <2>4. QED
    BY <2>1, <2>2, <2>3 DEF StreamInv
<1>3. ASSUME NEW s \in Snapshots, AckWaitExpires(s) PROVE StreamInv'
  <2>1. \A t \in Snapshots : status'[t] = IF t = s THEN Retry(s) ELSE status[t]
    BY <1>3 DEF AckWaitExpires, TypeOK
  <2>2. status[s] = "pending" /\ UNCHANGED <<deliveries, stage>>
    BY <1>3 DEF AckWaitExpires, workerVars
  <2>3. Retry(s) = "waiting" \/ (Retry(s) = "exhausted" /\ deliveries[s] = MaxDeliver)
    <3>1. deliveries[s] \in 0..MaxDeliver
      BY DEF TypeOK
    <3>2. QED
      BY <3>1 DEF Retry
  <2>4. QED
    BY <2>1, <2>2, <2>3 DEF StreamInv
<1>4. ASSUME NEW w \in Workers, Refuse(w) PROVE StreamInv'
  <2> DEFINE d == Head(inbox[w])
  <2>1. d \in Delivery /\ d[1] \in Snapshots /\ stage[d] = "inbox"
    BY <1>4, HeadOfInbox DEF Refuse, InboxInv
  <2>2. \A e \in Delivery : (stage'[e] = "none") <=> (stage[e] = "none")
    BY <1>4, <2>1 DEF Refuse, TypeOK
  <2>3. \A t \in Snapshots :
          \/ status'[t] = status[t]
          \/ status[t] = "pending" /\ status'[t] = Retry(t)
    <3>1. Answer(d[1], {"pending"}, Retry(d[1]))
      BY <1>4 DEF Refuse
    <3>2. QED
      BY <2>1, <3>1, AnswerEffect
  <2>4. UNCHANGED deliveries
    BY <1>4 DEF Refuse
  <2>5. \A t \in Snapshots : deliveries[t] \in 0..MaxDeliver
    BY DEF TypeOK
  <2>6. QED
    BY <2>2, <2>3, <2>4, <2>5 DEF StreamInv, Retry, Delivery
<1>5. ASSUME NEW w \in Workers, Accept(w) PROVE StreamInv'
  <2>1. Head(inbox[w]) \in Delivery /\ stage[Head(inbox[w])] = "inbox"
    BY <1>5, HeadOfInbox DEF Accept, InboxInv
  <2>2. \A e \in Delivery : (stage'[e] = "none") <=> (stage[e] = "none")
    BY <1>5, <2>1 DEF Accept, TypeOK
  <2>3. QED
    BY <1>5, <2>2 DEF Accept, streamVars, StreamInv, Delivery
<1>6. ASSUME NEW w \in Workers, Process(w) PROVE StreamInv'
  <2>1. \A e \in Delivery : (stage'[e] = "none") <=> (stage[e] = "none")
    <3>1. PICK x \in Working : stage' = [stage EXCEPT ![job[w]] = x]
      BY <1>6, ProcessMoves
    <3>2. job[w] \in Delivery /\ stage[job[w]] \in Working
      BY <1>6, ProcessMoves, JobIsDelivery
    <3>3. QED
      BY <3>1, <3>2 DEF TypeOK, Working
  <2>2. QED
    BY <1>6, <2>1, ProcessMoves DEF StreamInv, Delivery
<1>7. ASSUME NEW w \in Workers, Ack(w) PROVE StreamInv'
  <2>1. \A e \in Delivery : (stage'[e] = "none") <=> (stage[e] = "none")
    BY <1>7, JobIsDelivery DEF Ack, At, MoveTo, TypeOK
  <2>2. \A t \in Snapshots : \/ status'[t] = status[t]
                             \/ status[t] # "unsent" /\ status'[t] = "acked"
    <3>1. job[w][1] \in Snapshots
      BY <1>7, JobIsDelivery DEF Ack, At
    <3>2. \A t \in Snapshots :
            \/ status'[t] = status[t]
            \/ status[t] \in {"pending", "waiting"} /\ status'[t] = "acked"
      BY <1>7, <3>1, AnswerEffect DEF Ack
    <3>3. QED
      BY <3>2
  <2>3. UNCHANGED deliveries
    BY <1>7 DEF Ack
  <2>4. QED
    BY <2>1, <2>2, <2>3 DEF StreamInv, Delivery
<1>8. ASSUME NEW w \in Workers, Stop(w) PROVE StreamInv'
  <2>1. \A e \in Delivery : (stage'[e] = "none") <=> (stage[e] = "none")
    BY <1>8, HeldInHand DEF Stop, InHand, Working
  <2>2. QED
    BY <1>8, <2>1 DEF Stop, StreamInv, streamVars, Delivery
<1>9. CASE UNCHANGED <<streamVars, inbox, job, stage, dbVars>>
  BY <1>9 DEF streamVars, StreamInv
<1>10. QED
  BY <1>1, <1>2, <1>3, <1>4, <1>5, <1>6, <1>7, <1>8, <1>9, NextCases

\* What a step takes from the inboxes leaves the rest where it was.
LEMMA InboxStep ==
  ASSUME TypeOK, TypeOK', StreamInv, InboxInv, JobInv, [Next]_vars
  PROVE  InboxInv'
<1> USE WorkersAssumption
<1>0. /\ \A w \in Workers : inbox[w] \in Seq(Delivery) /\ Len(inbox[w]) \in Nat
      /\ \A w \in Workers : \A i \in 1..Len(inbox[w]) : inbox[w][i] \in Delivery
  <2>1. \A w \in Workers : inbox[w] \in Seq(Delivery)
    BY DEF TypeOK
  <2>2. \A q \in Seq(Delivery) :
          Len(q) \in Nat /\ \A i \in 1..Len(q) : q[i] \in Delivery
    BY LenProperties
  <2>3. QED
    BY <2>1, <2>2
<1>1. ASSUME NEW s \in Snapshots, NEW c \in Contents, Publish(s, c) PROVE InboxInv'
  BY <1>1 DEF Publish, InboxInv, workerVars
<1>2. ASSUME NEW s \in Snapshots, NEW w \in Workers, Deliver(s, w) PROVE InboxInv'
  <2> DEFINE d == <<s, deliveries[s] + 1>>
  <2>1. d \in Delivery /\ stage[d] = "none"
    <3>1. deliveries[s] + 1 \in 1..MaxDeliver /\ deliveries[s] + 1 > deliveries[s]
      BY <1>2, NextDelivery DEF Deliver
    <3>2. QED
      BY <1>2, <3>1, NextDelivery DEF Deliver, StreamInv
  <2>2. \A v \in Workers : \A i \in 1..Len(inbox[v]) : inbox[v][i] # d
    BY <2>1 DEF InboxInv
  <2>3. \A v \in Workers : v # w => inbox'[v] = inbox[v]
    BY <1>2 DEF Deliver, TypeOK
  <2>4. inbox'[w] = Append(inbox[w], d)
    BY <1>2 DEF Deliver, TypeOK
  <2>5. /\ Len(inbox'[w]) = Len(inbox[w]) + 1
        /\ inbox'[w][Len(inbox[w]) + 1] = d
        /\ \A i \in 1..Len(inbox[w]) : inbox'[w][i] = inbox[w][i]
    BY <1>0, <2>1, <2>4, AppendProperties
  <2>6. \A e \in Delivery : stage'[e] = IF e = d THEN "inbox" ELSE stage[e]
    BY <1>2, <2>1 DEF Deliver, TypeOK
  <2>7. \A i \in 1..Len(inbox'[w]) :
          \/ i \in 1..Len(inbox[w]) /\ inbox'[w][i] = inbox[w][i]
          \/ i = Len(inbox[w]) + 1 /\ inbox'[w][i] = d
    BY <1>0, <2>5
  <2>8. ASSUME NEW v \in Workers, NEW i \in 1..Len(inbox'[v])
        PROVE  stage'[inbox'[v][i]] = "inbox"
    <3>1. CASE v = w
      <4>1. CASE i \in 1..Len(inbox[w]) /\ inbox'[w][i] = inbox[w][i]
        BY <1>0, <2>6, <3>1, <4>1 DEF InboxInv
      <4>2. CASE inbox'[w][i] = d
        BY <2>1, <2>6, <3>1, <4>2
      <4>3. QED
        BY <2>7, <3>1, <4>1, <4>2
    <3>2. CASE v # w
      <4>1. i \in 1..Len(inbox[v]) /\ inbox'[v][i] = inbox[v][i]
        BY <2>3, <3>2
      <4>2. QED
        BY <1>0, <2>6, <4>1 DEF InboxInv
    <3>3. QED
      BY <3>1, <3>2
  <2>9. ASSUME NEW u \in Workers, NEW v \in Workers,
               NEW i \in 1..Len(inbox'[u]), NEW j \in 1..Len(inbox'[v]),
               inbox'[u][i] = inbox'[v][j]
        PROVE  u = v /\ i = j
    <3>1. \/ i \in 1..Len(inbox[u]) /\ inbox'[u][i] = inbox[u][i]
          \/ u = w /\ i = Len(inbox[w]) + 1 /\ inbox'[u][i] = d
      BY <2>3, <2>7
    <3>2. \/ j \in 1..Len(inbox[v]) /\ inbox'[v][j] = inbox[v][j]
          \/ v = w /\ j = Len(inbox[w]) + 1 /\ inbox'[v][j] = d
      BY <2>3, <2>7
    <3>3. QED
      <4>1. CASE /\ i \in 1..Len(inbox[u]) /\ inbox'[u][i] = inbox[u][i]
                 /\ j \in 1..Len(inbox[v]) /\ inbox'[v][j] = inbox[v][j]
        <5>1. inbox[u][i] = inbox[v][j]
          BY <2>9, <4>1
        <5>2. QED
          BY <4>1, <5>1 DEF InboxInv
      <4>2. CASE i \in 1..Len(inbox[u]) /\ inbox'[u][i] = inbox[u][i] /\ inbox'[v][j] = d
        BY <2>2, <2>9, <4>2
      <4>3. CASE j \in 1..Len(inbox[v]) /\ inbox'[v][j] = inbox[v][j] /\ inbox'[u][i] = d
        BY <2>2, <2>9, <4>3
      <4>4. QED
        BY <3>1, <3>2, <4>1, <4>2, <4>3
  <2>10. QED
    BY <2>8, <2>9 DEF InboxInv
<1>3. ASSUME NEW s \in Snapshots, AckWaitExpires(s) PROVE InboxInv'
  BY <1>3 DEF AckWaitExpires, InboxInv, workerVars
<1>4. ASSUME NEW w \in Workers, NEW x, inbox[w] # <<>>,
             inbox' = [inbox EXCEPT ![w] = Tail(@)],
             stage' = [stage EXCEPT ![Head(inbox[w])] = x]
      PROVE  InboxInv'
  <2> DEFINE d == Head(inbox[w])
  <2>1. d \in Delivery /\ d = inbox[w][1] /\ 1 \in 1..Len(inbox[w])
    BY <1>4, HeadOfInbox
  <2>2. \A v \in Workers : v # w => inbox'[v] = inbox[v]
    BY <1>4 DEF TypeOK
  <2>3. inbox'[w] = Tail(inbox[w])
    BY <1>4 DEF TypeOK
  <2>4. /\ Len(inbox'[w]) = Len(inbox[w]) - 1
        /\ \A i \in 1..Len(inbox'[w]) : inbox'[w][i] = inbox[w][i + 1]
    BY <1>0, <1>4, <2>3, HeadTailProperties
  <2>5. \A i \in 1..Len(inbox'[w]) : i + 1 \in 1..Len(inbox[w]) /\ i + 1 # 1
    BY <1>0, <2>4
  <2>6. \A e \in Delivery : e # d => stage'[e] = stage[e]
    BY <1>4, <2>1 DEF TypeOK
  <2>7. \A v \in Workers : \A i \in 1..Len(inbox'[v]) :
          inbox'[v][i] # d /\ inbox'[v][i] \in Delivery /\ stage[inbox'[v][i]] = "inbox"
    <3>1. ASSUME NEW v \in Workers, v # w, NEW i \in 1..Len(inbox'[v])
          PROVE  /\ inbox'[v][i] # d
                 /\ inbox'[v][i] \in Delivery /\ stage[inbox'[v][i]] = "inbox"
      BY <1>0, <2>1, <2>2, <3>1 DEF InboxInv
    <3>2. ASSUME NEW i \in 1..Len(inbox'[w])
          PROVE  /\ inbox'[w][i] # d
                 /\ inbox'[w][i] \in Delivery /\ stage[inbox'[w][i]] = "inbox"
      BY <1>0, <2>1, <2>4, <2>5 DEF InboxInv
    <3>3. QED
      BY <3>1, <3>2
  <2>8. ASSUME NEW u \in Workers, NEW v \in Workers,
               NEW i \in 1..Len(inbox'[u]), NEW j \in 1..Len(inbox'[v]),
               inbox'[u][i] = inbox'[v][j]
        PROVE  u = v /\ i = j
    <3>1. \/ u = w /\ i + 1 \in 1..Len(inbox[u]) /\ inbox'[u][i] = inbox[u][i + 1]
          \/ u # w /\ i \in 1..Len(inbox[u]) /\ inbox'[u][i] = inbox[u][i]
      BY <2>2, <2>4, <2>5
    <3>2. \/ v = w /\ j + 1 \in 1..Len(inbox[v]) /\ inbox'[v][j] = inbox[v][j + 1]
          \/ v # w /\ j \in 1..Len(inbox[v]) /\ inbox'[v][j] = inbox[v][j]
      BY <2>2, <2>4, <2>5
    <3>3. u = v /\ (u = w => i + 1 = j + 1) /\ (u # w => i = j)
      BY <2>8, <3>1, <3>2 DEF InboxInv
    <3>4. QED
      BY <3>3
  <2>9. QED
    BY <2>6, <2>7, <2>8 DEF InboxInv
<1>5. ASSUME NEW w \in Workers, NEW x, job[w] # NoDelivery, stage[job[w]] \in Working,
             stage' = [stage EXCEPT ![job[w]] = x], UNCHANGED inbox
      PROVE  InboxInv'
  <2>1. \A e \in Delivery : stage[e] = "inbox" => stage'[e] = "inbox"
    BY <1>5, JobIsDelivery DEF TypeOK, Working
  <2>2. QED
    BY <1>0, <1>5, <2>1 DEF InboxInv
<1>6. ASSUME NEW w \in Workers, Stop(w) PROVE InboxInv'
  <2>1. \A v \in Workers : inbox'[v] = IF v = w THEN <<>> ELSE inbox[v]
    BY <1>6 DEF Stop, TypeOK
  <2>2. \A v \in Workers : v # w => \A i \in 1..Len(inbox[v]) : inbox[v][i] \notin HeldBy(w)
    <3> SUFFICES ASSUME NEW v \in Workers, v # w, NEW i \in 1..Len(inbox[v])
                 PROVE  inbox[v][i] \notin HeldBy(w)
      OBVIOUS
    <3>1. inbox[v][i] \notin {inbox[w][j] : j \in 1..Len(inbox[w])}
      BY DEF InboxInv
    <3>2. stage[inbox[v][i]] = "inbox"
      BY DEF InboxInv
    <3>3. inbox[v][i] \notin {job[w]} \ {NoDelivery}
      BY <3>2 DEF JobInv, Working
    <3>4. QED
      BY <3>1, <3>3 DEF HeldBy
  <2>3. \A e \in Delivery : e \notin HeldBy(w) => stage'[e] = stage[e]
    BY <1>6 DEF Stop
  <2>4. QED
    BY <1>0, <2>1, <2>2, <2>3 DEF InboxInv
<1>7. CASE UNCHANGED <<streamVars, inbox, job, stage, dbVars>>
  BY <1>7 DEF InboxInv
<1>8. ASSUME NEW w \in Workers, Refuse(w) \/ Accept(w) PROVE InboxInv'
  BY <1>4, <1>8 DEF Refuse, Accept
<1>9. ASSUME NEW w \in Workers, Process(w) PROVE InboxInv'
  BY <1>5, <1>9, ProcessMoves
<1>10. ASSUME NEW w \in Workers, Ack(w) PROVE InboxInv'
  BY <1>5, <1>10 DEF Ack, At, MoveTo, Working
<1>11. QED
  BY <1>1, <1>2, <1>3, <1>6, <1>7, <1>8, <1>9, <1>10, NextCases

\* A message that holds no content yet has not been delivered.
LEMMA PublishedOnly ==
  ASSUME TypeOK, StreamInv, NEW d \in Delivery, stage[d] # "none"
  PROVE  d[1] \in Snapshots /\ status[d[1]] # "unsent"
<1>1. PICK s \in Snapshots, n \in 1..MaxDeliver : d = <<s, n>>
  BY DEF Delivery
<1>2. deliveries[s] \in Nat /\ n \in Nat /\ n > 0
  BY WorkersAssumption DEF TypeOK
<1>3. QED
  BY <1>1, <1>2 DEF StreamInv

\* The content of a published message does not change.
LEMMA ContentStable ==
  ASSUME TypeOK, [Next]_vars
  PROVE  \A s \in Snapshots : status[s] # "unsent" => content'[s] = content[s]
<1>1. ASSUME NEW t \in Snapshots, NEW c \in Contents, Publish(t, c)
      PROVE  \A s \in Snapshots : status[s] # "unsent" => content'[s] = content[s]
  BY <1>1 DEF Publish, TypeOK
<1>2. CASE UNCHANGED content
  BY <1>2
<1>3. ASSUME NEW w \in Workers, Process(w) PROVE UNCHANGED content
  BY <1>3, ProcessMoves
<1>4. QED
  BY <1>1, <1>2, <1>3, NextCases
     DEF Deliver, AckWaitExpires, Refuse, Accept, Ack, Stop, streamVars

\* A handler goes on with the delivery it took until it is done with it.
LEMMA JobStep ==
  ASSUME TypeOK, TypeOK', StreamInv, InboxInv, JobInv, [Next]_vars
  PROVE  JobInv'
<1>0. ASSUME NEW v \in Workers, job[v] # NoDelivery
      PROVE  /\ job[v] \in Delivery /\ stage[job[v]] \in Working
             /\ content'[job[v][1]] \in Processable
  <2>1. job[v] \in Delivery /\ stage[job[v]] \in Working
    BY <1>0, JobIsDelivery DEF JobInv
  <2>2. QED
    BY <1>0, <2>1, PublishedOnly, ContentStable DEF JobInv, Working
<1>1. ASSUME UNCHANGED job,
             \A e \in Delivery : stage[e] \in Working => stage'[e] \in Working
      PROVE  JobInv'
  BY <1>0, <1>1 DEF JobInv
<1>2. ASSUME NEW s \in Snapshots, NEW c \in Contents, Publish(s, c) PROVE JobInv'
  BY <1>1, <1>2 DEF Publish, workerVars
<1>3. ASSUME NEW s \in Snapshots, NEW w \in Workers, Deliver(s, w) PROVE JobInv'
  <2> DEFINE d == <<s, deliveries[s] + 1>>
  <2>1. d \in Delivery /\ stage[d] = "none"
    <3>1. deliveries[s] + 1 \in 1..MaxDeliver /\ deliveries[s] + 1 > deliveries[s]
      BY <1>3, NextDelivery DEF Deliver
    <3>2. QED
      BY <1>3, <3>1, NextDelivery DEF Deliver, StreamInv
  <2>2. UNCHANGED job /\ \A e \in Delivery : e # d => stage'[e] = stage[e]
    BY <1>3, <2>1 DEF Deliver, TypeOK
  <2>3. QED
    BY <1>1, <2>1, <2>2 DEF Working
<1>4. ASSUME NEW s \in Snapshots, AckWaitExpires(s) PROVE JobInv'
  BY <1>1, <1>4 DEF AckWaitExpires, workerVars
<1>5. ASSUME NEW w \in Workers, Refuse(w) PROVE JobInv'
  <2> DEFINE d == Head(inbox[w])
  <2>1. d \in Delivery /\ stage[d] = "inbox"
    BY <1>5, HeadOfInbox DEF Refuse, InboxInv
  <2>2. UNCHANGED job /\ \A e \in Delivery : e # d => stage'[e] = stage[e]
    BY <1>5, <2>1 DEF Refuse, TypeOK
  <2>3. QED
    BY <1>1, <2>1, <2>2 DEF Working
<1>6. ASSUME NEW w \in Workers, Accept(w) PROVE JobInv'
  <2> DEFINE d == Head(inbox[w])
  <2>1. d \in Delivery /\ stage[d] = "inbox" /\ content[d[1]] \in Processable
    BY <1>6, HeadOfInbox DEF Accept, InboxInv
  <2>2. /\ \A v \in Workers : job'[v] = IF v = w THEN d ELSE job[v]
        /\ \A e \in Delivery : stage'[e] = IF e = d THEN "score" ELSE stage[e]
        /\ UNCHANGED content
    BY <1>6, <2>1 DEF Accept, TypeOK, streamVars
  <2>3. \A v \in Workers : job[v] # NoDelivery => job[v] # d
    BY <1>0, <2>1 DEF Working
  <2>4. ASSUME NEW v \in Workers, job'[v] # NoDelivery
        PROVE  stage'[job'[v]] \in Working /\ content'[job'[v][1]] \in Processable
    <3>1. CASE v = w
      BY <2>1, <2>2, <3>1 DEF Working
    <3>2. CASE v # w
      BY <1>0, <2>2, <2>3, <2>4, <3>2
    <3>3. QED
      BY <3>1, <3>2
  <2>5. \A u, v \in Workers : (job'[u] = job'[v] /\ job'[u] # NoDelivery) => u = v
    BY <2>1, <2>2, <2>3 DEF JobInv, Delivery, NoDelivery
  <2>6. QED
    BY <2>4, <2>5 DEF JobInv
<1>7. ASSUME NEW w \in Workers, Process(w) PROVE JobInv'
  <2>1. PICK x \in Working : stage' = [stage EXCEPT ![job[w]] = x]
    BY <1>7, ProcessMoves
  <2>2. job[w] \in Delivery
    BY <1>7, ProcessMoves, JobIsDelivery
  <2>3. \A e \in Delivery : stage[e] \in Working => stage'[e] \in Working
    BY <2>1, <2>2 DEF TypeOK
  <2>4. QED
    BY <1>1, <1>7, <2>3, ProcessMoves
<1>8. ASSUME NEW w \in Workers, job' = [job EXCEPT ![w] = NoDelivery],
             \A v \in Workers : (v # w /\ job[v] # NoDelivery) => stage'[job[v]] = stage[job[v]]
      PROVE  JobInv'
  <2>1. \A v \in Workers : job'[v] = IF v = w THEN NoDelivery ELSE job[v]
    BY <1>8 DEF TypeOK
  <2>2. QED
    BY <1>0, <1>8, <2>1 DEF JobInv
<1>9. ASSUME NEW w \in Workers, Ack(w) PROVE JobInv'
  <2>1. job[w] # NoDelivery /\ stage' = [stage EXCEPT ![job[w]] = "acked"]
    BY <1>9 DEF Ack, At, MoveTo
  <2>2. \A v \in Workers : (v # w /\ job[v] # NoDelivery) =>
          job[v] # job[w] /\ job[v] \in Delivery
    BY <1>0, <2>1 DEF JobInv
  <2>3. \A v \in Workers : (v # w /\ job[v] # NoDelivery) =>
          stage'[job[v]] = stage[job[v]]
    BY <2>1, <2>2 DEF TypeOK
  <2>4. QED
    BY <1>8, <1>9, <2>3 DEF Ack
<1>10. ASSUME NEW w \in Workers, Stop(w) PROVE JobInv'
  <2>1. \A v \in Workers : (v # w /\ job[v] # NoDelivery) => job[v] \notin HeldBy(w)
    <3>1. inbox[w] \in Seq(Delivery)
      BY DEF TypeOK
    <3>2. QED
      BY <1>0, <3>1 DEF HeldBy, InboxInv, JobInv, Working
  <2>2. \A v \in Workers : (v # w /\ job[v] # NoDelivery) =>
          stage'[job[v]] = stage[job[v]]
    BY <1>0, <1>10, <2>1 DEF Stop
  <2>3. QED
    BY <1>8, <1>10, <2>2 DEF Stop
<1>11. CASE UNCHANGED <<streamVars, inbox, job, stage, dbVars>>
  BY <1>1, <1>11
<1>12. QED
  BY <1>2, <1>3, <1>4, <1>5, <1>6, <1>7, <1>9, <1>10, <1>11, NextCases

-----------------------------------------------------------------------------
(***************************************************************************)
(* What the handlers leave in the database.                                *)
(***************************************************************************)

\* The four steps of Process on delivery d: where it moves, and what of it is now
\* in the database or noted as an error.
ScoreEffect(d) ==
  /\ stage[d] = "score" /\ stage' = [stage EXCEPT ![d] = "metrics"]
  /\ \/ scoreRows' = [scoreRows EXCEPT ![d[1]] = @ + 1]
     \/ scoreRows' = scoreRows /\ d[1] \in logged'
  /\ logged' = logged \/ logged' = logged \union {d[1]}
  /\ UNCHANGED <<metricRows, seen, alerts>>

MetricsEffect(d) ==
  /\ stage[d] = "metrics"
  /\ \E x \in {"alert", "seen"} : stage' = [stage EXCEPT ![d] = x]
  /\ \/ metricRows' = [metricRows EXCEPT ![d[1]] = @ + 1]
     \/ metricRows' = metricRows /\ (content[d[1]] = "empty" \/ d[1] \in logged')
  /\ logged' = logged \/ logged' = logged \union {d[1]}
  /\ UNCHANGED <<scoreRows, seen, alerts>>

AlertEffect(d) ==
  /\ stage[d] = "alert" /\ stage' = [stage EXCEPT ![d] = "seen"]
  /\ alerts' = [alerts EXCEPT ![d[1]] = @ + 1]
  /\ UNCHANGED <<scoreRows, metricRows, seen, logged>>

SeenEffect(d) ==
  /\ stage[d] = "seen" /\ stage' = [stage EXCEPT ![d] = "ack"]
  /\ d[1] \in seen' \/ faults' = faults + 1
  /\ seen' = seen \/ seen' = seen \union {d[1]}
  /\ UNCHANGED <<scoreRows, metricRows, alerts, logged>>

\* A step of Process has one of these four effects on the delivery at hand.
LEMMA ProcessEffect ==
  ASSUME TypeOK, NEW w \in Workers, Process(w)
  PROVE  /\ job[w] \in Delivery /\ job[w][1] \in Snapshots
         /\ \/ ScoreEffect(job[w])
            \/ MetricsEffect(job[w])
            \/ AlertEffect(job[w])
            \/ SeenEffect(job[w])
<1>0. job[w] \in Delivery /\ job[w][1] \in Snapshots
  BY ProcessMoves, JobIsDelivery
<1>1. ASSUME NEW r \in Results, InsertScore(w, r) PROVE ScoreEffect(job[w])
  BY <1>1 DEF InsertScore, ScoreEffect, At, MoveTo, Note, Results, Stored
<1>2. ASSUME NEW r \in Results, BulkInsert(w, r) PROVE MetricsEffect(job[w])
  BY <1>2 DEF BulkInsert, MetricsEffect, At, MoveTo, Note, Results, Stored
<1>3. ASSUME Alert(w) PROVE AlertEffect(job[w])
  BY <1>3 DEF Alert, AlertEffect, At, MoveTo
<1>4. ASSUME NEW r \in Results, UpdateLastSeen(w, r) PROVE SeenEffect(job[w])
  BY <1>4 DEF UpdateLastSeen, SeenEffect, At, MoveTo, Fault, Results, Stored
<1>5. QED
  BY <1>0, <1>1, <1>2, <1>3, <1>4 DEF Process

\* No step takes anything back from the database or from the notes of errors.
LEMMA Monotone ==
  ASSUME TypeOK, [Next]_vars
  PROVE  /\ seen \subseteq seen' /\ logged \subseteq logged'
         /\ \A s \in Snapshots : scoreRows[s] > 0 => scoreRows'[s] > 0
         /\ \A s \in Snapshots : metricRows[s] > 0 => metricRows'[s] > 0
<1>1. CASE UNCHANGED dbVars
  BY <1>1 DEF dbVars
<1>2. ASSUME NEW w \in Workers, Process(w)
      PROVE  /\ seen \subseteq seen' /\ logged \subseteq logged'
             /\ \A s \in Snapshots : scoreRows[s] > 0 => scoreRows'[s] > 0
             /\ \A s \in Snapshots : metricRows[s] > 0 => metricRows'[s] > 0
  <2>1. scoreRows \in [Snapshots -> Nat] /\ metricRows \in [Snapshots -> Nat]
    BY DEF TypeOK
  <2>2. \/ scoreRows' = scoreRows
        \/ scoreRows' = [scoreRows EXCEPT ![job[w][1]] = @ + 1]
    BY <1>2, ProcessEffect DEF ScoreEffect, MetricsEffect, AlertEffect, SeenEffect
  <2>3. \/ metricRows' = metricRows
        \/ metricRows' = [metricRows EXCEPT ![job[w][1]] = @ + 1]
    BY <1>2, ProcessEffect DEF ScoreEffect, MetricsEffect, AlertEffect, SeenEffect
  <2>4. seen \subseteq seen' /\ logged \subseteq logged'
    BY <1>2, ProcessEffect DEF ScoreEffect, MetricsEffect, AlertEffect, SeenEffect
  <2>5. QED
    BY <2>1, <2>2, <2>3, <2>4
<1>3. QED
  BY <1>1, <1>2, NextCases DEF Publish, Deliver, AckWaitExpires, Refuse, Accept, Ack, Stop

\* Nor does a fault go away.
LEMMA FaultsStay ==
  ASSUME TypeOK, [Next]_vars
  PROVE  faults \in Nat /\ (faults > 0 => faults' > 0)
<1> DEFINE Goal == faults' = faults \/ faults' = faults + 1
<1>0. faults \in Nat
  BY WorkersAssumption DEF TypeOK
<1>1. ASSUME NEW w \in Workers, Refuse(w) \/ Ack(w) PROVE Goal
  BY <1>1 DEF Refuse, Ack, Answer, Fault
<1>2. ASSUME NEW w \in Workers, NEW r \in Results,
             InsertScore(w, r) \/ BulkInsert(w, r) \/ UpdateLastSeen(w, r)
      PROVE  Goal
  BY <1>2 DEF InsertScore, BulkInsert, UpdateLastSeen, Note, Fault
<1>3. ASSUME NEW w \in Workers, Accept(w) \/ Alert(w) \/ Stop(w) \/ Start(w) PROVE Goal
  BY <1>3 DEF Accept, Alert, Stop, Start, Fault
<1>4. ASSUME NEW s \in Snapshots, NEW w \in Workers, Deliver(s, w) PROVE Goal
  BY <1>4 DEF Deliver
<1>5. ASSUME NEW s \in Snapshots, NEW c \in Contents, Publish(s, c) \/ AckWaitExpires(s)
      PROVE  Goal
  BY <1>5 DEF Publish, AckWaitExpires, workerVars
<1>6. Goal
  <2>1. CASE UNCHANGED vars
    BY <2>1 DEF vars
  <2>2. CASE \E s \in Snapshots : AckWaitExpires(s)
    BY <2>2 DEF AckWaitExpires, workerVars
  <2>3. QED
    BY <1>1, <1>2, <1>3, <1>4, <1>5, <2>1, <2>2 DEF Next, Handle, Prompt
<1>7. QED
  BY <1>0, <1>6

\* A delivery that does not move has left behind what it had left behind before.
LEMMA ProgressKept ==
  ASSUME TypeOK, StreamInv, ProgressInv, [Next]_vars,
         NEW s \in Snapshots, NEW n \in 1..MaxDeliver,
         stage'[<<s, n>>] = stage[<<s, n>>]
  PROVE  LeftBehind(s, stage[<<s, n>>])'
<1>1. CASE stage[<<s, n>>] = "none"
  BY <1>1 DEF LeftBehind
<1>2. CASE stage[<<s, n>>] # "none"
  <2>1. <<s, n>> \in Delivery
    BY DEF Delivery
  <2>2. content'[s] = content[s]
    BY <1>2, <2>1, PublishedOnly, ContentStable
  <2>3. LeftBehind(s, stage[<<s, n>>])
    BY DEF ProgressInv
  <2>4. seen \subseteq seen' /\ logged \subseteq logged'
    BY Monotone
  <2>5. /\ \A t \in Snapshots : scoreRows[t] > 0 => scoreRows'[t] > 0
        /\ \A t \in Snapshots : metricRows[t] > 0 => metricRows'[t] > 0
    BY Monotone
  <2>6. faults > 0 => faults' > 0
    BY FaultsStay
  <2>7. QED
    BY <1>2, <2>2, <2>3, <2>4, <2>5, <2>6 DEF LeftBehind
<1>3. QED
  BY <1>1, <1>2

\* One that a step of Process moves has stored the step's part or noted an error.
LEMMA ProgressMade ==
  ASSUME TypeOK, TypeOK', StreamInv, ProgressInv, [Next]_vars,
         NEW w \in Workers, Process(w), NEW d \in Delivery, d = job[w]
  PROVE  LeftBehind(d[1], stage[d])'
<1> DEFINE s == d[1]
<1>1. s \in Snapshots
  BY DEF Delivery
<1>2. PICK n \in 1..MaxDeliver : d = <<s, n>>
  BY <1>1 DEF Delivery
<1>3. LeftBehind(s, stage[d]) /\ content'[s] = content[s]
  BY <1>1, <1>2, ProcessMoves DEF ProgressInv
<1>4. \A x : stage' = [stage EXCEPT ![d] = x] => stage'[d] = x
  BY <1>1 DEF TypeOK
<1>5. CASE ScoreEffect(d)
  <2>1. scoreRows'[s] > 0 \/ s \in logged'
    BY <1>1, <1>5 DEF ScoreEffect, TypeOK
  <2>2. stage'[d] = "metrics"
    BY <1>4, <1>5 DEF ScoreEffect
  <2>3. QED
    BY <2>1, <2>2 DEF LeftBehind
<1>6. CASE MetricsEffect(d)
  <2>1. metricRows'[s] > 0 \/ content[s] = "empty" \/ s \in logged'
    BY <1>1, <1>6 DEF MetricsEffect, TypeOK
  <2>2. stage'[d] \in {"alert", "seen"}
    BY <1>4, <1>6 DEF MetricsEffect
  <2>3. s \notin logged' => scoreRows'[s] > 0
    BY <1>1, <1>3, <1>6, Monotone DEF MetricsEffect, LeftBehind
  <2>4. QED
    BY <1>3, <2>1, <2>2, <2>3 DEF LeftBehind
<1>7. CASE AlertEffect(d)
  <2>1. stage'[d] = "seen" /\ stage[d] = "alert"
    BY <1>4, <1>7 DEF AlertEffect
  <2>2. QED
    BY <1>3, <1>7, <2>1 DEF AlertEffect, LeftBehind
<1>8. CASE SeenEffect(d)
  <2>1. stage'[d] = "ack" /\ stage[d] = "seen"
    BY <1>4, <1>8 DEF SeenEffect
  <2>2. s \in seen' \/ faults' > 0
    BY <1>8, FaultsStay DEF SeenEffect
  <2>3. QED
    BY <1>1, <1>3, <1>8, <2>1, <2>2, Monotone DEF SeenEffect, LeftBehind
<1>9. QED
  BY <1>5, <1>6, <1>7, <1>8, ProcessEffect

\* Every step keeps the stages backed by the database.
LEMMA ProgressStep ==
  ASSUME TypeOK, TypeOK', StreamInv, InboxInv, JobInv, ProgressInv, [Next]_vars
  PROVE  ProgressInv'
<1>1. ASSUME UNCHANGED stage PROVE ProgressInv'
  BY <1>1, ProgressKept DEF ProgressInv
<1>2. ASSUME NEW d \in Delivery, NEW x, stage' = [stage EXCEPT ![d] = x],
             LeftBehind(d[1], x)'
      PROVE  ProgressInv'
  <2>1. \A e \in Delivery : e # d => stage'[e] = stage[e]
    BY <1>2 DEF TypeOK
  <2>2. stage'[d] = x
    BY <1>2 DEF TypeOK
  <2>3. ASSUME NEW s \in Snapshots, NEW n \in 1..MaxDeliver
        PROVE  LeftBehind(s, stage[<<s, n>>])'
    <3>1. <<s, n>> \in Delivery
      BY DEF Delivery
    <3>2. CASE <<s, n>> # d
      BY <2>1, <3>1, <3>2, ProgressKept
    <3>3. CASE <<s, n>> = d
      BY <1>2, <2>2, <3>3
    <3>4. QED
      BY <3>2, <3>3
  <2>4. QED
    BY <2>3 DEF ProgressInv
<1>3. ASSUME NEW s \in Snapshots, NEW w \in Workers, Deliver(s, w) PROVE ProgressInv'
  <2>1. LeftBehind(s, "inbox")'
    BY DEF LeftBehind
  <2>2. QED
    BY <1>2, <1>3, <2>1, NextDelivery DEF Deliver
<1>4. ASSUME NEW w \in Workers, Refuse(w) PROVE ProgressInv'
  <2>1. PICK d \in Delivery : d = Head(inbox[w])
    BY <1>4, HeadOfInbox DEF Refuse
  <2>2. LeftBehind(d[1], "refused")'
    BY <1>4, <2>1 DEF Refuse, LeftBehind
  <2>3. QED
    BY <1>2, <1>4, <2>1, <2>2 DEF Refuse
<1>5. ASSUME NEW w \in Workers, Accept(w) PROVE ProgressInv'
  <2>1. PICK d \in Delivery : d = Head(inbox[w])
    BY <1>5, HeadOfInbox DEF Accept
  <2>2. LeftBehind(d[1], "score")'
    BY DEF LeftBehind
  <2>3. QED
    BY <1>2, <1>5, <2>1, <2>2 DEF Accept
<1>6. ASSUME NEW w \in Workers, Process(w) PROVE ProgressInv'
  <2>1. PICK d \in Delivery : d = job[w]
    BY <1>6, ProcessEffect
  <2>2. PICK x \in Working : stage' = [stage EXCEPT ![d] = x]
    BY <1>6, <2>1, ProcessMoves
  <2>3. stage'[d] = x
    BY <2>2 DEF TypeOK
  <2>4. LeftBehind(d[1], stage[d])'
    BY <1>6, <2>1, ProgressMade
  <2>5. LeftBehind(d[1], x)'
    BY <2>3, <2>4
  <2>6. QED
    BY <1>2, <2>2, <2>5
<1>7. ASSUME NEW w \in Workers, Ack(w) PROVE ProgressInv'
  <2>1. PICK d \in Delivery : d = job[w]
    BY <1>7, JobIsDelivery DEF Ack, At
  <2>2. stage' = [stage EXCEPT ![d] = "acked"] /\ stage[d] = "ack"
    BY <1>7, <2>1 DEF Ack, At, MoveTo
  <2>3. LeftBehind(d[1], stage[d])
    BY DEF ProgressInv, Delivery
  <2>4. faults > 0 => faults' > 0
    BY FaultsStay
  <2>5. LeftBehind(d[1], "acked")'
    BY <1>7, <2>2, <2>3, <2>4 DEF Ack, dbVars, LeftBehind
  <2>6. QED
    BY <1>2, <2>2, <2>5
<1>8. ASSUME NEW w \in Workers, Stop(w) PROVE ProgressInv'
  <2>1. ASSUME NEW s \in Snapshots, NEW n \in 1..MaxDeliver
        PROVE  LeftBehind(s, stage[<<s, n>>])'
    <3>1. stage'[<<s, n>>] \in {"lost", stage[<<s, n>>]}
      BY <1>8 DEF Stop, Delivery
    <3>2. CASE stage'[<<s, n>>] = stage[<<s, n>>]
      BY <3>2, ProgressKept
    <3>3. CASE stage'[<<s, n>>] = "lost"
      BY <3>3 DEF LeftBehind
    <3>4. QED
      BY <3>1, <3>2, <3>3
  <2>2. QED
    BY <2>1 DEF ProgressInv
<1>9. QED
  BY <1>1, <1>3, <1>4, <1>5, <1>6, <1>7, <1>8, NextCases
     DEF Publish, AckWaitExpires, workerVars

-----------------------------------------------------------------------------
(***************************************************************************)
(* Acknowledgements.                                                       *)
(***************************************************************************)

\* What an acknowledgement vouched for stays true, and a new one comes from a
\* handler that is past every write.
LEMMA AckStep ==
  ASSUME TypeOK, StreamInv, ProgressInv, AckInv, [Next]_vars
  PROVE  AckInv'
<1>0. faults > 0 => faults' > 0
  BY FaultsStay
<1>1. ASSUME NEW s \in Snapshots, status[s] = "acked" PROVE Vouched(s)'
  <2>1. content'[s] = content[s]
    BY <1>1, ContentStable
  <2>2. seen \subseteq seen' /\ logged \subseteq logged'
    BY Monotone
  <2>3. /\ \A t \in Snapshots : scoreRows[t] > 0 => scoreRows'[t] > 0
        /\ \A t \in Snapshots : metricRows[t] > 0 => metricRows'[t] > 0
    BY Monotone
  <2>4. QED
    BY <1>0, <1>1, <2>1, <2>2, <2>3 DEF AckInv, Vouched, FullyStored
<1>2. ASSUME NEW s \in Snapshots, status[s] # "acked", status'[s] = "acked"
      PROVE  \E w \in Workers : Ack(w) /\ job[w] \in Delivery /\ job[w][1] = s
  <2>1. ASSUME NEW t \in Snapshots, NEW c \in Contents, Publish(t, c) PROVE FALSE
    BY <1>2, <2>1 DEF Publish, TypeOK
  <2>2. ASSUME NEW t \in Snapshots, NEW w \in Workers, Deliver(t, w) PROVE FALSE
    BY <1>2, <2>2 DEF Deliver, TypeOK
  <2>3. ASSUME NEW t \in Snapshots, AckWaitExpires(t) PROVE FALSE
    BY <1>2, <2>3 DEF AckWaitExpires, Retry, TypeOK
  <2>4. ASSUME NEW w \in Workers, Refuse(w) PROVE FALSE
    <3>1. /\ Head(inbox[w])[1] \in Snapshots
          /\ Answer(Head(inbox[w])[1], {"pending"}, Retry(Head(inbox[w])[1]))
      BY <2>4, HeadOfInbox DEF Refuse
    <3>2. status'[s] = status[s] \/ status'[s] = Retry(Head(inbox[w])[1])
      BY <3>1, AnswerEffect
    <3>3. QED
      BY <1>2, <3>2 DEF Retry
  <2>5. ASSUME NEW w \in Workers, Accept(w) PROVE FALSE
    BY <1>2, <2>5 DEF Accept, streamVars
  <2>6. ASSUME NEW w \in Workers, Process(w) PROVE FALSE
    BY <1>2, <2>6, ProcessMoves
  <2>7. ASSUME NEW w \in Workers, Ack(w)
        PROVE  job[w] \in Delivery /\ job[w][1] = s
    <3>1. job[w] \in Delivery /\ job[w][1] \in Snapshots
      BY <2>7, JobIsDelivery DEF Ack, At
    <3>2. status'[s] = status[s] \/ s = job[w][1]
      BY <2>7, <3>1, AnswerEffect DEF Ack
    <3>3. QED
      BY <1>2, <3>1, <3>2
  <2>8. ASSUME NEW w \in Workers, Stop(w) PROVE FALSE
    BY <1>2, <2>8 DEF Stop, streamVars
  <2>9. QED
    BY <1>2, <2>1, <2>2, <2>3, <2>4, <2>5, <2>6, <2>7, <2>8, NextCases DEF streamVars
<1>3. ASSUME NEW s \in Snapshots, NEW w \in Workers, Ack(w), job[w] \in Delivery,
             job[w][1] = s
      PROVE  Vouched(s)'
  <2>1. LeftBehind(s, "ack")
    BY <1>3 DEF Ack, At, ProgressInv, Delivery
  <2>2. QED
    BY <1>0, <1>3, <2>1 DEF LeftBehind, Ack, dbVars, Vouched, FullyStored
<1>4. QED
  BY <1>1, <1>2, <1>3 DEF AckInv

-----------------------------------------------------------------------------
(***************************************************************************)
(* The budget of effects.                                                  *)
(***************************************************************************)

\* Deliveries of one snapshot are few.
LEMMA AbleFinite ==
  ASSUME NEW s, NEW stages
  PROVE  /\ IsFiniteSet(Able(s, stages))
         /\ Cardinality(Able(s, stages)) \in Nat
         /\ Cardinality(Able(s, stages)) <= MaxDeliver
<1>1. IsFiniteSet(1..MaxDeliver) /\ Cardinality(1..MaxDeliver) = MaxDeliver
  BY WorkersAssumption, FS_Interval
<1>2. Able(s, stages) \subseteq 1..MaxDeliver
  BY DEF Able
<1>3. QED
  BY <1>1, <1>2, FS_Subset, FS_CardinalityType

\* When no delivery of s enters these stages, their number does not grow.
LEMMA AbleShrinks ==
  ASSUME NEW s, NEW stages,
         \A n \in 1..MaxDeliver : stage'[<<s, n>>] \in stages => stage[<<s, n>>] \in stages
  PROVE  /\ Cardinality(Able(s, stages)') \in Nat
         /\ Cardinality(Able(s, stages)') <= Cardinality(Able(s, stages))
<1>1. Able(s, stages)' \subseteq Able(s, stages)
  BY DEF Able
<1>2. QED
  BY <1>1, AbleFinite, FS_Subset, FS_CardinalityType

\* When one leaves them besides, it falls.
LEMMA AbleSpent ==
  ASSUME NEW s, NEW stages, NEW k \in 1..MaxDeliver,
         stage[<<s, k>>] \in stages, stage'[<<s, k>>] \notin stages,
         \A n \in 1..MaxDeliver : stage'[<<s, n>>] \in stages => stage[<<s, n>>] \in stages
  PROVE  /\ Cardinality(Able(s, stages)') \in Nat
         /\ Cardinality(Able(s, stages)') + 1 <= Cardinality(Able(s, stages))
<1> DEFINE rest == Able(s, stages) \ {k}
<1>1. k \in Able(s, stages) /\ Able(s, stages)' \subseteq rest
  BY DEF Able
<1>2. IsFiniteSet(rest) /\ Cardinality(rest) = Cardinality(Able(s, stages)) - 1
  BY <1>1, AbleFinite, FS_RemoveElement
<1>3. Cardinality(Able(s, stages)') \in Nat /\ Cardinality(Able(s, stages)') <= Cardinality(rest)
  BY <1>1, <1>2, FS_Subset, FS_CardinalityType
<1>4. QED
  BY <1>2, <1>3, AbleFinite

\* A delivery never comes back to a stage from which it can cause an effect.
LEMMA NoWayBack ==
  ASSUME TypeOK, StreamInv, InboxInv, JobInv, [Next]_vars
  PROVE  \A d \in Delivery, stages \in {BeforeScore, BeforeMetrics, BeforeAlert} :
           stage'[d] \in stages => stage[d] \in stages
<1> USE DEF BeforeScore, BeforeMetrics, BeforeAlert
<1> DEFINE Goal == \A d \in Delivery, stages \in {BeforeScore, BeforeMetrics, BeforeAlert} :
                     stage'[d] \in stages => stage[d] \in stages
<1>1. ASSUME NEW e \in Delivery, NEW x, stage' = [stage EXCEPT ![e] = x],
             \/ x = "inbox" /\ stage[e] = "none"
             \/ x = "score" /\ stage[e] = "inbox"
             \/ x = "metrics" /\ stage[e] = "score"
             \/ x = "alert" /\ stage[e] = "metrics"
             \/ x \in {"seen", "ack", "acked", "refused"}
      PROVE  Goal
  <2>1. \A d \in Delivery : stage'[d] = IF d = e THEN x ELSE stage[d]
    BY <1>1 DEF TypeOK
  <2>2. QED
    BY <1>1, <2>1
<1>2. ASSUME UNCHANGED stage PROVE Goal
  BY <1>2
<1>3. ASSUME NEW s \in Snapshots, NEW w \in Workers, Deliver(s, w) PROVE Goal
  <2>1. /\ deliveries[s] + 1 \in 1..MaxDeliver /\ <<s, deliveries[s] + 1>> \in Delivery
        /\ deliveries[s] + 1 > deliveries[s]
    <3>1. deliveries[s] < MaxDeliver /\ deliveries[s] \in 0..MaxDeliver
      BY <1>3 DEF Deliver, TypeOK
    <3>2. QED
      BY <3>1, NextDelivery
  <2>2. stage[<<s, deliveries[s] + 1>>] = "none"
    BY <2>1 DEF StreamInv
  <2>3. QED
    BY <1>1, <1>3, <2>1, <2>2 DEF Deliver
<1>4. ASSUME NEW w \in Workers, Refuse(w) PROVE Goal
  BY <1>1, <1>4, HeadOfInbox DEF Refuse
<1>5. ASSUME NEW w \in Workers, Accept(w) PROVE Goal
  <2>1. Head(inbox[w]) \in Delivery /\ stage[Head(inbox[w])] = "inbox"
    BY <1>5, HeadOfInbox DEF Accept, InboxInv
  <2>2. QED
    BY <1>1, <1>5, <2>1 DEF Accept
<1>6. ASSUME NEW w \in Workers, Process(w) PROVE Goal
  <2>1. PICK d \in Delivery : d = job[w]
    BY <1>6, ProcessEffect
  <2>2. CASE ScoreEffect(d)
    BY <1>1, <2>2 DEF ScoreEffect
  <2>3. CASE MetricsEffect(d)
    BY <1>1, <2>3 DEF MetricsEffect
  <2>4. CASE AlertEffect(d)
    BY <1>1, <2>4 DEF AlertEffect
  <2>5. CASE SeenEffect(d)
    BY <1>1, <2>5 DEF SeenEffect
  <2>6. QED
    BY <1>6, <2>1, <2>2, <2>3, <2>4, <2>5, ProcessEffect
<1>7. ASSUME NEW w \in Workers, Ack(w) PROVE Goal
  BY <1>1, <1>7, JobIsDelivery DEF Ack, At, MoveTo
<1>8. ASSUME NEW w \in Workers, Stop(w) PROVE Goal
  <2>1. \A d \in Delivery : stage'[d] \in {"lost", stage[d]}
    BY <1>8 DEF Stop
  <2>2. QED
    BY <2>1
<1>9. QED
  BY <1>2, <1>3, <1>4, <1>5, <1>6, <1>7, <1>8, NextCases
     DEF Publish, AckWaitExpires, workerVars

\* Every effect is paid for by the delivery that causes it.
LEMMA BudgetStep ==
  ASSUME TypeOK, StreamInv, InboxInv, JobInv, BudgetInv, [Next]_vars
  PROVE  BudgetInv'
<1> DEFINE Shrunk(s, stages) ==
             /\ Cardinality(Able(s, stages)') \in Nat
             /\ Cardinality(Able(s, stages)') <= Cardinality(Able(s, stages))
           Spent(s, stages) ==
             /\ Cardinality(Able(s, stages)') \in Nat
             /\ Cardinality(Able(s, stages)') + 1 <= Cardinality(Able(s, stages))
<1> USE WorkersAssumption
<1>1. \A s \in Snapshots, stages \in {BeforeScore, BeforeMetrics, BeforeAlert} :
        Shrunk(s, stages)
  BY NoWayBack, AbleShrinks DEF Delivery
<1>2. ASSUME NEW d \in Delivery, NEW stages \in {BeforeScore, BeforeMetrics, BeforeAlert},
             stage[d] \in stages, stage'[d] \notin stages
      PROVE  Spent(d[1], stages)
  <2>1. PICK s \in Snapshots, k \in 1..MaxDeliver : d = <<s, k>>
    BY DEF Delivery
  <2>2. \A n \in 1..MaxDeliver : stage'[<<s, n>>] \in stages => stage[<<s, n>>] \in stages
    BY NoWayBack DEF Delivery
  <2>3. QED
    BY <1>2, <2>1, <2>2, AbleSpent
<1>3. \A s \in Snapshots, stages \in {BeforeScore, BeforeMetrics, BeforeAlert} :
        Cardinality(Able(s, stages)) \in Nat
  BY AbleFinite
<1>4. ASSUME \A s \in Snapshots :
               /\ \/ scoreRows'[s] = scoreRows[s]
                  \/ scoreRows'[s] = scoreRows[s] + 1 /\ Spent(s, BeforeScore)
               /\ \/ metricRows'[s] = metricRows[s]
                  \/ metricRows'[s] = metricRows[s] + 1 /\ Spent(s, BeforeMetrics)
               /\ \/ alerts'[s] = alerts[s]
                  \/ alerts'[s] = alerts[s] + 1 /\ Spent(s, BeforeAlert)
      PROVE  BudgetInv'
  <2>1. ASSUME NEW s \in Snapshots
        PROVE  /\ scoreRows'[s] + Cardinality(Able(s, BeforeScore)') <= MaxDeliver
               /\ metricRows'[s] + Cardinality(Able(s, BeforeMetrics)') <= MaxDeliver
               /\ alerts'[s] + Cardinality(Able(s, BeforeAlert)') <= MaxDeliver
    <3>1. /\ Shrunk(s, BeforeScore) /\ Cardinality(Able(s, BeforeScore)) \in Nat
          /\ Shrunk(s, BeforeMetrics) /\ Cardinality(Able(s, BeforeMetrics)) \in Nat
          /\ Shrunk(s, BeforeAlert) /\ Cardinality(Able(s, BeforeAlert)) \in Nat
      BY <1>1, <1>3
    <3>2. scoreRows[s] \in Nat /\ metricRows[s] \in Nat /\ alerts[s] \in Nat
      BY DEF TypeOK
    <3>3. /\ scoreRows[s] + Cardinality(Able(s, BeforeScore)) <= MaxDeliver
          /\ metricRows[s] + Cardinality(Able(s, BeforeMetrics)) <= MaxDeliver
          /\ alerts[s] + Cardinality(Able(s, BeforeAlert)) <= MaxDeliver
      BY DEF BudgetInv
    <3>4. scoreRows'[s] + Cardinality(Able(s, BeforeScore)') <= MaxDeliver
      BY <1>4, <3>1, <3>2, <3>3
    <3>5. metricRows'[s] + Cardinality(Able(s, BeforeMetrics)') <= MaxDeliver
      BY <1>4, <3>1, <3>2, <3>3
    <3>6. alerts'[s] + Cardinality(Able(s, BeforeAlert)') <= MaxDeliver
      BY <1>4, <3>1, <3>2, <3>3
    <3>7. QED
      BY <3>4, <3>5, <3>6
  <2>2. QED
    BY <2>1 DEF BudgetInv
<1>5. ASSUME NEW w \in Workers, Process(w) PROVE BudgetInv'
  <2>1. PICK d \in Delivery : d = job[w]
    BY <1>5, ProcessEffect
  <2>2. d[1] \in Snapshots
    BY DEF Delivery
  <2>3. \A x : stage' = [stage EXCEPT ![d] = x] => stage'[d] = x
    BY DEF TypeOK
  <2>4. CASE ScoreEffect(d)
    <3>1. Spent(d[1], BeforeScore)
      BY <1>2, <2>3, <2>4 DEF ScoreEffect, BeforeScore
    <3>2. \A s \in Snapshots : /\ scoreRows'[s] \in {scoreRows[s], scoreRows[s] + 1}
                               /\ s # d[1] => scoreRows'[s] = scoreRows[s]
      <4>1. scoreRows \in [Snapshots -> Nat]
        BY DEF TypeOK
      <4>2. \/ scoreRows' = scoreRows
            \/ scoreRows' = [scoreRows EXCEPT ![d[1]] = @ + 1]
        BY <2>4 DEF ScoreEffect
      <4>3. QED
        BY <2>2, <4>1, <4>2
    <3>3. UNCHANGED <<metricRows, alerts>>
      BY <2>4 DEF ScoreEffect
    <3>4. QED
      BY <1>4, <3>1, <3>2, <3>3
  <2>5. CASE MetricsEffect(d)
    <3>1. Spent(d[1], BeforeMetrics)
      BY <1>2, <2>3, <2>5 DEF MetricsEffect, BeforeMetrics, BeforeScore
    <3>2. \A s \in Snapshots : /\ metricRows'[s] \in {metricRows[s], metricRows[s] + 1}
                               /\ s # d[1] => metricRows'[s] = metricRows[s]
      BY <2>2, <2>5 DEF MetricsEffect, TypeOK
    <3>3. UNCHANGED <<scoreRows, alerts>>
      BY <2>5 DEF MetricsEffect
    <3>4. QED
      BY <1>4, <3>1, <3>2, <3>3
  <2>6. CASE AlertEffect(d)
    <3>1. Spent(d[1], BeforeAlert)
      BY <1>2, <2>3, <2>6 DEF AlertEffect, BeforeAlert, BeforeMetrics, BeforeScore
    <3>2. \A s \in Snapshots : /\ alerts'[s] \in {alerts[s], alerts[s] + 1}
                               /\ s # d[1] => alerts'[s] = alerts[s]
      BY <2>2, <2>6 DEF AlertEffect, TypeOK
    <3>3. UNCHANGED <<scoreRows, metricRows>>
      BY <2>6 DEF AlertEffect
    <3>4. QED
      BY <1>4, <3>1, <3>2, <3>3
  <2>7. CASE SeenEffect(d)
    BY <1>4, <2>7 DEF SeenEffect
  <2>8. QED
    BY <1>5, <2>1, <2>4, <2>5, <2>6, <2>7, ProcessEffect
<1>6. QED
  BY <1>4, <1>5, NextCases
     DEF Publish, Deliver, AckWaitExpires, Refuse, Accept, Ack, Stop, dbVars

-----------------------------------------------------------------------------
(***************************************************************************)
(* The inductive invariant and the theorems about it.                      *)
(***************************************************************************)

\* The worker starts with empty books, and every delivery still to be made.
LEMMA InitInv == Init => IInv
<1> SUFFICES ASSUME Init PROVE IInv
  OBVIOUS
<1>1. TypeOK
  BY InitType
<1>2. \A d \in Delivery : stage[d] = "none"
  BY DEF Init
<1>3. StreamInv
  BY <1>2, WorkersAssumption DEF Init, StreamInv, Delivery
<1>4. InboxInv /\ JobInv
  BY DEF Init, InboxInv, JobInv
<1>5. ProgressInv
  BY <1>2 DEF ProgressInv, LeftBehind, Delivery
<1>6. AckInv
  BY DEF Init, AckInv
<1>7. BudgetInv
  BY AbleFinite, WorkersAssumption DEF Init, BudgetInv
<1>8. QED
  BY <1>1, <1>3, <1>4, <1>5, <1>6, <1>7 DEF IInv

\* Every step keeps the whole invariant.
LEMMA NextInv == IInv /\ [Next]_vars => IInv'
<1> SUFFICES ASSUME IInv, [Next]_vars PROVE IInv'
  OBVIOUS
<1>1. TypeOK'
  BY NextType DEF IInv
<1>2. StreamInv' /\ InboxInv' /\ JobInv'
  BY <1>1, StreamStep, InboxStep, JobStep DEF IInv
<1>3. ProgressInv' /\ AckInv' /\ BudgetInv'
  BY <1>1, ProgressStep, AckStep, BudgetStep DEF IInv
<1>4. QED
  BY <1>1, <1>2, <1>3 DEF IInv

\* The inductive invariant holds throughout every run of the worker.
THEOREM Invariance == Spec => []IInv
<1>1. QED BY InitInv, NextInv, PTL DEF Spec

\* Where every delivery of a readable snapshot ended, when the stream has given up.
LEMMA InvNoSilentLoss == IInv => NoSilentLoss
<1> SUFFICES ASSUME IInv, NEW s \in Snapshots,
                    status[s] = "exhausted", content[s] \in Processable,
                    ~FullyStored(s), s \notin logged, ~InProgress(s)
             PROVE  LostWithReplicas(s)
  BY DEF IInv, AckInv, Vouched, NoSilentLoss
<1> SUFFICES ASSUME NEW n \in 1..MaxDeliver PROVE stage[<<s, n>>] = "lost"
  BY DEF LostWithReplicas
<1>1. stage[<<s, n>>] \in InHand \union {"none", "refused", "acked", "lost"}
  BY DEF IInv, TypeOK, Delivery
<1>2. stage[<<s, n>>] \notin InHand
  BY DEF InProgress
<1>3. stage[<<s, n>>] # "none"
  <2>1. deliveries[s] = MaxDeliver /\ ~(n > MaxDeliver)
    BY WorkersAssumption DEF IInv, StreamInv
  <2>2. QED
    BY <2>1 DEF IInv, StreamInv
<1>4. LeftBehind(s, stage[<<s, n>>])
  BY DEF IInv, ProgressInv
<1>5. stage[<<s, n>>] # "refused"
  BY <1>4 DEF LeftBehind, Processable, Unprocessable, Alerting
<1>6. stage[<<s, n>>] # "acked"
  BY <1>4 DEF LeftBehind, FullyStored
<1>7. QED
  BY <1>1, <1>2, <1>3, <1>5, <1>6

\* For every number of replicas, snapshots, deliveries and faults: the rows of a readable
\* snapshot the stream is done with are stored, or an error of theirs was logged, or a
\* replica still works on it, or each of its deliveries died with the replica that
\* held it; the refresh of last_seen_at is missing, unlogged, only after a fault.
THEOREM SilentLossNever == Spec => []NoSilentLoss
<1>1. QED BY Invariance, InvNoSilentLoss, PTL

\* What the budget leaves for each effect.
LEMMA InvEffectsBounded == IInv => EffectsBounded
<1> SUFFICES ASSUME IInv, NEW s \in Snapshots
             PROVE  /\ scoreRows[s] <= MaxDeliver
                    /\ metricRows[s] <= MaxDeliver
                    /\ alerts[s] <= MaxDeliver
  BY DEF EffectsBounded
<1>1. /\ Cardinality(Able(s, BeforeScore)) \in Nat
      /\ Cardinality(Able(s, BeforeMetrics)) \in Nat
      /\ Cardinality(Able(s, BeforeAlert)) \in Nat
  BY AbleFinite
<1>2. scoreRows[s] \in Nat /\ metricRows[s] \in Nat /\ alerts[s] \in Nat
  BY DEF IInv, TypeOK
<1>3. QED
  BY <1>1, <1>2, WorkersAssumption DEF IInv, BudgetInv

\* However often handlers overlap, fail or lose their answers, a snapshot leaves at
\* most MaxDeliver score rows, metric batches and Slack messages.
THEOREM EffectsStayBounded == Spec => []EffectsBounded
<1>1. QED BY Invariance, InvEffectsBounded, PTL

-----------------------------------------------------------------------------
(***************************************************************************)
(* The worker implements SnapshotDelivery.                                 *)
(***************************************************************************)

\* A step that changes neither the stream's verdicts nor the scores nor the notes
\* of errors is invisible to SnapshotDelivery.
LEMMA Invisible ==
  ASSUME \A s \in Snapshots : Outcome(s)' = Outcome(s), UNCHANGED <<scoreRows, logged>>
  PROVE  UNCHANGED Delivered!absVars
BY DEF Delivered!absVars

\* A verdict on one snapshot only.
LEMMA OutcomeOf ==
  ASSUME TypeOK, NEW s \in Snapshots, NEW x \in Statuses,
         status' = [status EXCEPT ![s] = x]
  PROVE  [t \in Snapshots |-> Outcome(t)]' =
           [[t \in Snapshots |-> Outcome(t)] EXCEPT ![s] =
              IF x \in {"waiting", "pending"} THEN "live" ELSE x]
BY DEF TypeOK, Outcome

\* Every step of the worker is a step of SnapshotDelivery or invisible to it.
LEMMA StepRefines ==
  ASSUME IInv, [Next]_vars
  PROVE  [Delivered!ANext]_(Delivered!absVars)
<1> USE DEF IInv, Statuses
<1> DEFINE Goal == [Delivered!ANext]_(Delivered!absVars)
<1>0. ASSUME UNCHANGED <<scoreRows, logged>>,
             \A s \in Snapshots : status'[s] = status[s] \/
               {status[s], status'[s]} \subseteq {"waiting", "pending"}
      PROVE  Goal
  BY <1>0, Invisible DEF Outcome
<1>1. ASSUME NEW s \in Snapshots, NEW c \in Contents, Publish(s, c) PROVE Goal
  <2>1. Delivered!Enter(s)
    BY <1>1, OutcomeOf DEF Publish, dbVars, Delivered!Enter, Outcome
  <2>2. QED
    BY <2>1 DEF Delivered!ANext
<1>2. ASSUME NEW s \in Snapshots, NEW w \in Workers, Deliver(s, w) PROVE Goal
  BY <1>0, <1>2 DEF Deliver, dbVars, TypeOK
<1>3. ASSUME NEW s \in Snapshots, status[s] = "pending", UNCHANGED <<scoreRows, logged>>,
             status' = [status EXCEPT ![s] = Retry(s)]
      PROVE  Goal
  <2>1. CASE Retry(s) = "waiting"
    BY <1>0, <1>3, <2>1 DEF TypeOK
  <2>2. CASE Retry(s) = "exhausted"
    <3>1. Delivered!GiveUp(s)
      BY <1>3, <2>2, OutcomeOf DEF Delivered!GiveUp, Outcome
    <3>2. QED
      BY <3>1 DEF Delivered!ANext
  <2>3. QED
    BY <2>1, <2>2 DEF Retry
<1>4. ASSUME NEW w \in Workers, Refuse(w) PROVE Goal
  <2>1. PICK s \in Snapshots : Answer(s, {"pending"}, Retry(s))
    BY <1>4, HeadOfInbox DEF Refuse
  <2>2. UNCHANGED <<scoreRows, logged>>
    BY <1>4 DEF Refuse, dbVars
  <2>3. CASE UNCHANGED status
    BY <1>0, <2>2, <2>3
  <2>4. QED
    BY <1>3, <2>1, <2>2, <2>3 DEF Answer
<1>5. ASSUME NEW w \in Workers, Process(w) PROVE Goal
  <2>1. PICK d \in Delivery : d = job[w]
    BY <1>5, ProcessEffect
  <2>2. d[1] \in Snapshots /\ status[d[1]] # "unsent" /\ UNCHANGED status
    BY <1>5, <2>1, ProcessMoves, PublishedOnly DEF Working
  <2>3. Outcome(d[1]) # "unsent" /\ UNCHANGED [s \in Snapshots |-> Outcome(s)]
    BY <2>2 DEF Outcome
  <2>4. CASE ScoreEffect(d)
    <3>1. scoreRows' = [scoreRows EXCEPT ![d[1]] = @ + 1] => scoreRows[d[1]] < MaxDeliver
      <4>1. IInv'
        BY NextInv
      <4>2. EffectsBounded'
        BY <4>1, InvEffectsBounded, PTL
      <4>3. scoreRows'[d[1]] <= MaxDeliver
        BY <2>2, <4>2 DEF EffectsBounded
      <4>4. QED
        BY <2>2, <4>3, WorkersAssumption DEF TypeOK
    <3>2. Delivered!Store(d[1]) \/ Delivered!Fail(d[1])
      BY <2>2, <2>3, <2>4, <3>1 DEF ScoreEffect, Delivered!Store, Delivered!Fail
    <3>3. QED
      BY <2>2, <3>2 DEF Delivered!ANext
  <2>5. CASE UNCHANGED <<scoreRows, logged>>
    BY <1>0, <2>2, <2>5
  <2>6. CASE scoreRows' = scoreRows /\ logged' = logged \union {d[1]}
    <3>1. Delivered!Fail(d[1])
      BY <2>2, <2>3, <2>6 DEF Delivered!Fail
    <3>2. QED
      BY <2>2, <3>1 DEF Delivered!ANext
  <2>7. QED
    BY <1>5, <2>1, <2>4, <2>5, <2>6, ProcessEffect
       DEF MetricsEffect, AlertEffect, SeenEffect
<1>6. ASSUME NEW w \in Workers, Ack(w) PROVE Goal
  <2>1. PICK d \in Delivery : d = job[w]
    BY <1>6, JobIsDelivery DEF Ack, At
  <2>2. d[1] \in Snapshots /\ UNCHANGED <<scoreRows, logged>>
        /\ Answer(d[1], {"pending", "waiting"}, "acked")
    BY <1>6, <2>1 DEF Ack, dbVars, Delivery
  <2>3. scoreRows[d[1]] > 0 \/ d[1] \in logged
    <3>1. LeftBehind(d[1], "ack")
      BY <1>6, <2>1 DEF Ack, At, ProgressInv, Delivery
    <3>2. QED
      BY <3>1 DEF LeftBehind
  <2>4. CASE UNCHANGED status
    BY <1>0, <2>2, <2>4
  <2>5. CASE status[d[1]] \in {"pending", "waiting"} /\
             status' = [status EXCEPT ![d[1]] = "acked"]
    <3>1. Delivered!Acknowledge(d[1])
      BY <2>2, <2>3, <2>5, OutcomeOf DEF Delivered!Acknowledge, Outcome
    <3>2. QED
      BY <2>2, <3>1 DEF Delivered!ANext
  <2>6. QED
    BY <2>2, <2>4, <2>5 DEF Answer
<1>7. CASE UNCHANGED <<status, dbVars>>
  BY <1>0, <1>7 DEF dbVars
<1>8. QED
  BY <1>1, <1>2, <1>3, <1>4, <1>5, <1>6, <1>7, NextCases
     DEF AckWaitExpires, Accept, Stop, streamVars, dbVars

\* The worker, its queue group and its database implement the promise of
\* SnapshotDelivery: an acknowledgement only ever follows a stored score or a
\* logged error.
THEOREM DeliveryImplemented == Spec => ImplementsDelivery
<1>1. Init => Delivered!AInit
  BY DEF Init, Delivered!AInit, Outcome
<1>2. IInv /\ [Next]_vars => [Delivered!ANext]_(Delivered!absVars)
  BY StepRefines
<1>3. QED
  BY <1>1, <1>2, Invariance, PTL DEF Spec, ImplementsDelivery, Delivered!ASpec
=============================================================================
