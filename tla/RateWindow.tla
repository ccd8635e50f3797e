------------------------------ MODULE RateWindow ------------------------------
(***************************************************************************)
(* The rate limiter of module RateLimit on a finer clock: when, to the     *)
(* half minute, each request reached it.  The counter only knows calendar  *)
(* minutes.                                                                *)
(***************************************************************************)
EXTENDS RateLimit

VARIABLES
  half,       \* the half of the minute the clock shows, 0 or 1
  arrivedAt   \* per request: the half minute in which it read the clock

windowVars == <<vars, half, arrivedAt>>

HalfMinutes == 0..(2 * MaxMinute + 1)

WindowInit ==
  /\ Init
  /\ half = 0
  /\ arrivedAt = [r \in Requests |-> 0]

\* The first half of a minute ends, or the minute does.
HalfTick ==
  /\ \/ half = 0 /\ half' = 1 /\ UNCHANGED vars
     \/ half = 1 /\ half' = 0 /\ Tick
  /\ UNCHANGED arrivedAt

\* time.Now() has seconds; Format("200601021504") drops them.
ReadClockAt(r) ==
  /\ ReadClock(r)
  /\ arrivedAt' = [arrivedAt EXCEPT ![r] = 2 * minute + half]
  /\ UNCHANGED half

Decide(r) == /\ Count(r) \/ CountAgain(r) \/ CountFails(r) \/ Admit(r) \/ Abort(r)
             /\ UNCHANGED <<half, arrivedAt>>

WindowNext == HalfTick \/ \E r \in Requests : ReadClockAt(r) \/ Decide(r)

WindowSpec == WindowInit /\ [][WindowNext]_windowVars

\* What docs/security.md states: the limit holds in a sliding window of one minute.  Here:
\* of a tenant's requests that arrive in two consecutive half minutes, which lie less
\* than sixty seconds apart, at most Limit are let through.
SlidingWindow ==
  \A t \in Tenants, h \in HalfMinutes :
    Cardinality({r \in Requests : /\ TenantOf[r] = t
                                  /\ stage[r] = "admitted"
                                  /\ arrivedAt[r] \in {h, h + 1}}) <= Limit
=============================================================================
