-------------------------- MODULE AnalyzerRegistry --------------------------
(***************************************************************************)
(* Registry.Run (agent/internal/analyzers/registry.go): one goroutine per  *)
(* analyzer, a wait group, and a buffered channel that is closed and read  *)
(* only after all goroutines are through.  An analyzer that panics takes   *)
(* the process with it: nothing recovers.                                  *)
(***************************************************************************)
EXTENDS HealthScore

CONSTANTS N,        \* how many analyzers are registered
          Findings  \* the lists of severities an analyzer may end with

ASSUME RegistryAssumption == /\ N \in Nat
                             /\ Findings \subseteq Seq(Severities)
                             /\ <<>> \in Findings

Analyzers == 1..N

\* Mutant of Capacity: the channel is a slot short.
CapacityOneShort == N - 1

\* make(chan partial, len(r.analyzers))
Capacity == N

Partial == [name : Analyzers, issues : Findings]

Unscored == 101

\* A goroutine in one of these places has its analyzer's issues.
Through == {"send", "finish", "gone"}

VARIABLES
  pc,         \* where Run stands: "spawn", "close", "collect", "done" or "crashed"
  spawned,    \* how many goroutines the loop has started
  wg,         \* the wait group's counter
  open,       \* the channel is not closed
  buffer,     \* what the channel holds, oldest first
  goroutine,  \* per analyzer: "none", "analyze", "send", "finish", "gone" or "dead"
  found,      \* per analyzer: the issues Analyze returned
  collected,  \* the partials Run has taken from the channel
  health      \* result.HealthScore

vars == <<pc, spawned, wg, open, buffer, goroutine, found, collected, health>>

Init ==
  /\ pc = "spawn"
  /\ spawned = 0
  /\ wg = 0
  /\ open = TRUE
  /\ buffer = <<>>
  /\ goroutine = [a \in Analyzers |-> "none"]
  /\ found = [a \in Analyzers |-> <<>>]
  /\ collected = <<>>
  /\ health = Unscored

(***************************************************************************)
(* Run.                                                                    *)
(***************************************************************************)

\* One round of the loop: wg.Add(1) and go.
Spawn ==
  /\ pc = "spawn"
  /\ spawned < N
  /\ spawned' = spawned + 1
  /\ wg' = wg + 1
  /\ goroutine' = [goroutine EXCEPT ![spawned + 1] = "analyze"]
  /\ UNCHANGED <<pc, open, buffer, found, collected, health>>

\* Mutant of Wait: Run waits for the first analyzer only.
WaitForOne ==
  /\ pc = "spawn"
  /\ spawned = N
  /\ wg < N
  /\ pc' = "close"
  /\ UNCHANGED <<spawned, wg, open, buffer, goroutine, found, collected, health>>

\* wg.Wait()
Wait ==
  /\ pc = "spawn"
  /\ spawned = N
  /\ wg = 0
  /\ pc' = "close"
  /\ UNCHANGED <<spawned, wg, open, buffer, goroutine, found, collected, health>>

\* close(ch)
Close ==
  /\ pc = "close"
  /\ open' = FALSE
  /\ pc' = "collect"
  /\ UNCHANGED <<spawned, wg, buffer, goroutine, found, collected, health>>

\* One round of the loop that ranges over the channel.
Collect ==
  /\ pc = "collect"
  /\ buffer # <<>>
  /\ collected' = Append(collected, Head(buffer))
  /\ buffer' = Tail(buffer)
  /\ UNCHANGED <<pc, spawned, wg, open, goroutine, found, health>>

\* Mutant of Finish: the last partial is left in the channel.
FinishUnread ==
  /\ pc = "collect"
  /\ Len(buffer) <= 1
  /\ health' = Score([i \in 1..Len(collected) |-> collected[i].issues])
  /\ pc' = "done"
  /\ UNCHANGED <<spawned, wg, open, buffer, goroutine, found, collected>>

\* The channel is closed and empty: the score is computed and Run returns.
Finish ==
  /\ pc = "collect"
  /\ buffer = <<>>
  /\ health' = Score([i \in 1..Len(collected) |-> collected[i].issues])
  /\ pc' = "done"
  /\ UNCHANGED <<spawned, wg, open, buffer, goroutine, found, collected>>

(***************************************************************************)
(* The goroutine of analyzer a.                                            *)
(***************************************************************************)

\* Analyze returns its issues; with an error, which is only logged, none.
Analyze(a, issues) ==
  /\ goroutine[a] = "analyze"
  /\ found' = [found EXCEPT ![a] = issues]
  /\ goroutine' = [goroutine EXCEPT ![a] = "send"]
  /\ UNCHANGED <<pc, spawned, wg, open, buffer, collected, health>>

\* Analyze panics: the process ends, and Run with it.
Panic(a) ==
  /\ goroutine[a] = "analyze"
  /\ pc' = "crashed"
  /\ goroutine' = [b \in Analyzers |->
                     IF goroutine[b] \in Through THEN "gone" ELSE "dead"]
  /\ UNCHANGED <<spawned, wg, open, buffer, found, collected, health>>

\* ch <- partial: it waits while the channel is full.  On a closed channel it
\* would panic; NoSendAfterClose says that it never comes to that.
Send(a) ==
  /\ goroutine[a] = "send"
  /\ Len(buffer) < Capacity
  /\ buffer' = Append(buffer, [name |-> a, issues |-> found[a]])
  /\ goroutine' = [goroutine EXCEPT ![a] = "finish"]
  /\ UNCHANGED <<pc, spawned, wg, open, found, collected, health>>

\* Mutant of Done: wg.Done is called explicitly and deferred as well.
DoneTwice(a) ==
  /\ goroutine[a] = "finish"
  /\ wg' = IF wg >= 2 THEN wg - 2 ELSE N + 1
  /\ goroutine' = [goroutine EXCEPT ![a] = "gone"]
  /\ UNCHANGED <<pc, spawned, open, buffer, found, collected, health>>

\* The deferred wg.Done().
Done(a) ==
  /\ goroutine[a] = "finish"
  /\ wg' = wg - 1
  /\ goroutine' = [goroutine EXCEPT ![a] = "gone"]
  /\ UNCHANGED <<pc, spawned, open, buffer, found, collected, health>>

Run == Spawn \/ Wait \/ Close \/ Collect \/ Finish

\* What is left of the goroutine once Analyze has returned.
Leave(a) == Send(a) \/ Done(a)

Goroutine(a) == (\E issues \in Findings : Analyze(a, issues)) \/ Leave(a)

Next == \/ Run
        \/ \E a \in Analyzers : Goroutine(a)
        \/ \E a \in Analyzers : Panic(a)

Spec == Init /\ [][Next]_vars

(***************************************************************************)
(* Fairness: the Go scheduler runs every goroutine that can run.  Analyze  *)
(* is none of its business: it waits for the Kubernetes API under a        *)
(* context that has no deadline, and may never return.                     *)
(***************************************************************************)
FairSpec == /\ Spec
            /\ WF_vars(Run)
            /\ \A a \in Analyzers : WF_vars(Leave(a))

(***************************************************************************)
(* Properties.                                                             *)
(***************************************************************************)

\* Every variable stays in its range; the wait group never exceeds the number of
\* analyzers and never becomes negative, which would be a panic.
TypeOK ==
  /\ pc \in {"spawn", "close", "collect", "done", "crashed"}
  /\ spawned \in 0..N
  /\ wg \in 0..N
  /\ open \in BOOLEAN
  /\ buffer \in Seq(Partial)
  /\ goroutine \in [Analyzers -> Through \union {"none", "analyze", "dead"}]
  /\ found \in [Analyzers -> Findings]
  /\ collected \in Seq(Partial)
  /\ health \in 0..100 \union {Unscored}

\* The channel is closed only when no goroutine will ever send on it again
\* (registry.go:119, 123-124): a send would be a panic.
NoSendAfterClose ==
  ~open => \A a \in Analyzers : goroutine[a] \notin {"none", "analyze", "send"}

\* A goroutine that wants to send finds room in the channel, however many have sent
\* and although nobody reads before wg.Wait returns (registry.go:108, 119, 123).
SendNeverBlocks ==
  \A a \in Analyzers : goroutine[a] = "send" => Len(buffer) < Capacity

\* The analyzers that have ended, and the order of result.Analyzers.
Ended == {a \in Analyzers : goroutine[a] \in Through}

\* Run waits for nothing but its analyzers: when Analyze of each of them has returned, so
\* does Run, although the goroutines still have to find room in the channel and nobody
\* reads it before the last of them is gone (registry.go:108, 119, 123).  Of an Analyze
\* that never returns, or panics, it says nothing.
RunReturns == (Ended = Analyzers) ~> (pc = "done")

Order == IF pc = "done" THEN [i \in 1..Len(collected) |-> collected[i].name] ELSE <<>>

Reported == INSTANCE DiagnosisReport WITH ended <- Ended, findings <- found, order <- Order

\* Whatever the order in which the goroutines run and send, Run implements
\* DiagnosisReport: one report, each analyzer in it once, all issues scored.
ImplementsReport == Reported!ASpec
=============================================================================
