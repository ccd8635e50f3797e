------------------------------ MODULE RateLimit ------------------------------
(***************************************************************************)
(* The rate limiter of the /v1 routes (api/middleware/ratelimit.go): a     *)
(* counter in Redis per tenant and minute, that every request of every     *)
(* replica increments before it compares.  A request is a goroutine; which *)
(* replica runs it makes no difference to the shared counters.             *)
(***************************************************************************)
EXTENDS Naturals, FiniteSets

CONSTANTS Requests,   \* the requests that may come
          Tenants,
          TenantOf,   \* the tenant each request belongs to
          Limit,      \* rateLimit, 1000 in the code
          MaxMinute,  \* bound: the minutes that pass
          MaxFaults   \* bound: the answers of Redis that fail

ASSUME RateLimitAssumption == /\ IsFiniteSet(Requests)
                              /\ TenantOf \in [Requests -> Tenants]
                              /\ Limit \in Nat
                              /\ MaxMinute \in Nat
                              /\ MaxFaults \in Nat

Minutes == 0..MaxMinute

VARIABLES
  minute,   \* the clock, in minutes
  counter,  \* per tenant and minute: the value of the key in Redis
  stage,    \* per request: "new", "counting", "deciding", "admitted" or "limited"
  key,      \* per request: the minute in its key
  count,    \* per request: incr.Val(), 0 if Redis gave no answer
  faults

vars == <<minute, counter, stage, key, count, faults>>

Init ==
  /\ minute = 0
  /\ counter = [t \in Tenants |-> [m \in Minutes |-> 0]]
  /\ stage = [r \in Requests |-> "new"]
  /\ key = [r \in Requests |-> 0]
  /\ count = [r \in Requests |-> 0]
  /\ faults = 0

Goto(r, from, to) == /\ stage[r] = from
                     /\ stage' = [stage EXCEPT ![r] = to]

Fault == /\ faults < MaxFaults
         /\ faults' = faults + 1

Tick == /\ minute < MaxMinute
        /\ minute' = minute + 1
        /\ UNCHANGED <<counter, stage, key, count, faults>>

\* The request reaches RateLimit with its tenant set, and reads the clock.
ReadClock(r) ==
  /\ Goto(r, "new", "counting")
  /\ key' = [key EXCEPT ![r] = minute]
  /\ UNCHANGED <<minute, counter, count, faults>>

Incremented(r) == [counter EXCEPT ![TenantOf[r]][key[r]] = @ + 1]

\* Mutant of Count: INCR is issued once for the header and once for the comparison.
CountTwice(r) ==
  /\ Goto(r, "counting", "deciding")
  /\ counter' = [counter EXCEPT ![TenantOf[r]][key[r]] = @ + 2]
  /\ count' = [count EXCEPT ![r] = counter'[TenantOf[r]][key[r]]]
  /\ UNCHANGED <<minute, key, faults>>

\* Mutant of Count: the key lacks the tenant.
CountAllTenants(r) ==
  /\ Goto(r, "counting", "deciding")
  /\ counter' = [t \in Tenants |-> [counter[t] EXCEPT ![key[r]] = @ + 1]]
  /\ count' = [count EXCEPT ![r] = counter'[TenantOf[r]][key[r]]]
  /\ UNCHANGED <<minute, key, faults>>

\* Mutant of Count: a request beyond the limit resets the counter.
CountCapped(r) ==
  /\ Goto(r, "counting", "deciding")
  /\ count' = [count EXCEPT ![r] = counter[TenantOf[r]][key[r]] + 1]
  /\ counter' = IF count'[r] > Limit
                  THEN [counter EXCEPT ![TenantOf[r]][key[r]] = 0]
                  ELSE Incremented(r)
  /\ UNCHANGED <<minute, key, faults>>

\* The pipeline's INCR, and its answer.
Count(r) ==
  /\ Goto(r, "counting", "deciding")
  /\ counter' = Incremented(r)
  /\ count' = [count EXCEPT ![r] = counter[TenantOf[r]][key[r]] + 1]
  /\ UNCHANGED <<minute, key, faults>>

\* INCR took effect but its answer is lost: the Redis client sends the pipeline again.
CountAgain(r) ==
  /\ stage[r] = "counting"
  /\ Fault
  /\ counter' = Incremented(r)
  /\ UNCHANGED <<minute, stage, key, count>>

\* Redis cannot be reached: the error of pipe.Exec is ignored and incr.Val() is 0.
CountFails(r) ==
  /\ Goto(r, "counting", "deciding")
  /\ Fault
  /\ count' = [count EXCEPT ![r] = 0]
  /\ UNCHANGED <<minute, counter, key>>

\* Mutant of Admit: the comparison is off by one.
AdmitOneMore(r) ==
  /\ count[r] <= Limit + 1
  /\ Goto(r, "deciding", "admitted")
  /\ UNCHANGED <<minute, counter, key, count, faults>>

\* The request goes on to Audit and its handler.
Admit(r) ==
  /\ count[r] <= Limit
  /\ Goto(r, "deciding", "admitted")
  /\ UNCHANGED <<minute, counter, key, count, faults>>

\* 429
Abort(r) ==
  /\ count[r] > Limit
  /\ Goto(r, "deciding", "limited")
  /\ UNCHANGED <<minute, counter, key, count, faults>>

Request(r) == \/ ReadClock(r)
              \/ Count(r) \/ CountAgain(r) \/ CountFails(r)
              \/ Admit(r) \/ Abort(r)

Next == Tick \/ \E r \in Requests : Request(r)

Spec == Init /\ [][Next]_vars

(***************************************************************************)
(* Properties.                                                             *)
(***************************************************************************)

\* Every variable stays in its range, and the counters of Redis within the number of
\* requests and of lost answers.
TypeOK ==
  /\ minute \in Minutes
  /\ counter \in [Tenants -> [Minutes -> 0..(Cardinality(Requests) + MaxFaults)]]
  /\ stage \in [Requests -> {"new", "counting", "deciding", "admitted", "limited"}]
  /\ key \in [Requests -> Minutes]
  /\ count \in [Requests -> 0..(Cardinality(Requests) + MaxFaults)]
  /\ faults \in 0..MaxFaults

\* The requests of tenant t that Redis counted for minute m.
Counted(t, m) == {r \in Requests : TenantOf[r] = t /\ key[r] = m /\ count[r] > 0}

\* The requests of tenant t that RateLimit let through with the key of minute m, those
\* among them that Redis never answered for.
Admitted(t, m) == {r \in Requests : TenantOf[r] = t /\ key[r] = m /\ stage[r] = "admitted"}

\* Of all the requests of a tenant that carry the same calendar minute, at most Limit are
\* let through, and one more for each failure of Redis, however their steps interleave
\* and however long a request pauses between the clock and the counter: a failure opens
\* the limiter to the one request it meets, and to no other (ratelimit.go:24-40).
WindowBudget ==
  \A t \in Tenants, m \in Minutes : Cardinality(Admitted(t, m)) <= Limit + faults

\* Nobody is turned away for another tenant's, or another minute's, requests: a 429
\* means that Limit other requests of the tenant were counted in the minute, or fewer
\* by as many answers of Redis as were lost (ratelimit.go:25, 40).
LimitedForCause ==
  \A r \in Requests : stage[r] = "limited" =>
    Cardinality(Counted(TenantOf[r], key[r]) \ {r}) + faults >= Limit

\* Once a request was turned away, no request of the same tenant that Redis counts
\* later for the same minute is let through (ratelimit.go:30, 40).
OnceLimitedStaysLimited ==
  [][\A q, r \in Requests :
       /\ stage[q] = "limited"
       /\ TenantOf[r] = TenantOf[q]
       /\ key[r] = key[q]
       /\ stage[r] = "counting"
       /\ stage'[r] = "deciding"
       => count'[r] > Limit \/ count'[r] = 0]_vars
=============================================================================
