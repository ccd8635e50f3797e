-------------------------- MODULE SnapshotDelivery --------------------------
(***************************************************************************)
(* What the snapshot pipeline promises, without workers, inboxes, ack      *)
(* timers or crashes: each snapshot is published once, its Green Score is  *)
(* stored at most MaxDeliver times, and it is settled either by an         *)
(* acknowledgement, which needs a stored score or an error that was only   *)
(* logged, or by the stream giving up on it.  SnapshotWorker implements    *)
(* this module.                                                            *)
(***************************************************************************)
EXTENDS Naturals

CONSTANTS Snapshots,   \* the snapshots agents may publish
          MaxDeliver   \* nats.MaxDeliver of the durable consumer

VARIABLES outcome,     \* what became of each snapshot
          scores,      \* how many score rows each snapshot has produced
          failed       \* snapshots of which a failed write was logged, and not repeated

absVars == <<outcome, scores, failed>>

AInit == /\ outcome = [s \in Snapshots |-> "unsent"]
         /\ scores = [s \in Snapshots |-> 0]
         /\ failed = {}

\* The snapshot enters the stream.
Enter(s) == /\ outcome[s] = "unsent"
            /\ outcome' = [outcome EXCEPT ![s] = "live"]
            /\ UNCHANGED <<scores, failed>>

\* A score row is stored, possibly for a snapshot that is already settled; its
\* writer may also see an error (the answer was lost after the commit).
Store(s) == /\ outcome[s] # "unsent"
            /\ scores[s] < MaxDeliver
            /\ scores' = [scores EXCEPT ![s] = @ + 1]
            /\ failed' \in {failed, failed \union {s}}
            /\ UNCHANGED outcome

\* A write of the snapshot's rows fails and the failure is logged, no more.
Fail(s) == /\ outcome[s] # "unsent"
           /\ failed' = failed \union {s}
           /\ UNCHANGED <<outcome, scores>>

\* An acknowledgement is only ever for a stored or a failed snapshot.
Acknowledge(s) == /\ outcome[s] = "live"
                  /\ scores[s] > 0 \/ s \in failed
                  /\ outcome' = [outcome EXCEPT ![s] = "acked"]
                  /\ UNCHANGED <<scores, failed>>

\* The stream gives up after MaxDeliver deliveries.
GiveUp(s) == /\ outcome[s] = "live"
             /\ outcome' = [outcome EXCEPT ![s] = "exhausted"]
             /\ UNCHANGED <<scores, failed>>

ANext == \E s \in Snapshots :
           Enter(s) \/ Store(s) \/ Fail(s) \/ Acknowledge(s) \/ GiveUp(s)

ASpec == AInit /\ [][ANext]_absVars
=============================================================================
