-------------------------- MODULE DiagnosticsCache --------------------------
(***************************************************************************)
(* The diagnostics page asks a language model about the issues of a        *)
(* cluster and keeps the answer in Redis (handlers/diagnostics.go,         *)
(* ai/diagnostics_service.go).  Requests to all API replicas share the one *)
(* key of the cluster.  The model may take minutes, the answer must leave  *)
(* the server within its write timeout, and the client may go away at any  *)
(* moment.  An analysis is identified by the time its issues were read;    *)
(* the name of the model is left out.                                      *)
(***************************************************************************)
EXTENDS Integers

CONSTANTS Requests,      \* requests for the diagnostics of one cluster
          TTL,           \* of the key in Redis: 2 minutes
          ModelTimeout,  \* of the model's HTTP client: 120 seconds for Ollama
          WriteTimeout,  \* of the API's HTTP server: 30 seconds
          MaxTime,       \* bound: how long time goes on
          MaxFaults      \* bound: failures of Redis, and stalls

ASSUME CacheAssumption == /\ TTL \in Nat \ {0}
                          /\ ModelTimeout \in Nat
                          /\ WriteTimeout \in Nat \ {0}
                          /\ MaxTime \in Nat
                          /\ MaxFaults \in Nat

Times == 0..MaxTime

VARIABLES
  now,
  stage,    \* per request: the step it has reached
  read,     \* per request: when it came and read the issues
  asked,    \* per request: when it asked the model
  outcome,  \* per request: what llm.Analyze returned
  shown,    \* per request: when the issues of its answer were read
  ended,    \* per request: when its answer was cut off
  left,     \* requests whose client has gone: their context is cancelled
  cache,    \* the value of the key in Redis, or nothing
  faults

vars == <<now, stage, read, asked, outcome, shown, ended, left, cache, faults>>

Outcomes == {"answer", "error", "cancelled"}
Stages   == {"new", "lookup", "asking", "storing", "answering",
             "empty", "answered", "cut", "gone"}
Working  == {"lookup", "storing", "answering"}
Entries  == [read : Times, stored : Times, outcome : Outcomes]

Init ==
  /\ now = 0
  /\ stage = [r \in Requests |-> "new"]
  /\ read = [r \in Requests |-> 0]
  /\ asked = [r \in Requests |-> 0]
  /\ outcome = [r \in Requests |-> "answer"]
  /\ shown = [r \in Requests |-> 0]
  /\ ended = [r \in Requests |-> 0]
  /\ left = {}
  /\ cache = {}
  /\ faults = 0

Goto(r, from, to) == /\ stage[r] = from
                     /\ stage' = [stage EXCEPT ![r] = to]

Fault == faults < MaxFaults /\ faults' = faults + 1

(***************************************************************************)
(* GetDiagnostics and AnalyzeIssues.                                       *)
(***************************************************************************)

\* The query finds issues.
Query(r) ==
  /\ Goto(r, "new", "lookup")
  /\ read' = [read EXCEPT ![r] = now]
  /\ UNCHANGED <<now, asked, outcome, shown, ended, left, cache, faults>>

\* The query finds none, or fails: the answer needs no analysis.
QueryEmpty(r) ==
  /\ Goto(r, "new", "empty")
  /\ UNCHANGED <<now, read, asked, outcome, shown, ended, left, cache, faults>>

\* The value of the key is the answer.
Hit(r) ==
  /\ r \notin left
  /\ Goto(r, "lookup", "answering")
  /\ \E e \in cache : shown' = [shown EXCEPT ![r] = e.read]
  /\ UNCHANGED <<now, read, asked, outcome, ended, left, cache, faults>>

\* The key is not there, the context is cancelled or Redis fails: the model is asked.
Miss(r) ==
  /\ Goto(r, "lookup", "asking")
  /\ \/ (cache = {} \/ r \in left) /\ UNCHANGED faults
     \/ Fault
  /\ asked' = [asked EXCEPT ![r] = now]
  /\ UNCHANGED <<now, read, outcome, shown, ended, left, cache>>

\* llm.Analyze returns.  An error, that of the client's timeout included, becomes the
\* summary; a cancelled context ends the call with an error, too.
ModelReturns(r, result) ==
  /\ Goto(r, "asking", "storing")
  /\ (result = "cancelled") = (r \in left)
  /\ outcome' = [outcome EXCEPT ![r] = result]
  /\ shown' = [shown EXCEPT ![r] = read[r]]
  /\ UNCHANGED <<now, read, asked, ended, left, cache, faults>>

Analysis(r) == [read |-> read[r], stored |-> now, outcome |-> outcome[r]]

\* Mutant of Store: the key holds the analysis's own time as well.
StoreBeside(r) ==
  /\ r \notin left
  /\ Goto(r, "storing", "answering")
  /\ cache' = cache \union {Analysis(r)}
  /\ UNCHANGED <<now, read, asked, outcome, shown, ended, left, faults>>

\* Mutant of Store: SetNX in place of Set.
StoreIfAbsent(r) ==
  /\ r \notin left
  /\ Goto(r, "storing", "answering")
  /\ cache' = IF cache = {} THEN {Analysis(r)} ELSE cache
  /\ UNCHANGED <<now, read, asked, outcome, shown, ended, left, faults>>

\* Mutant of Store: the write has a context of its own.
StoreDetached(r) ==
  /\ Goto(r, "storing", "answering")
  /\ cache' = {Analysis(r)}
  /\ UNCHANGED <<now, read, asked, outcome, shown, ended, left, faults>>

\* Set, whatever the model returned, under the context of the request.
Store(r) ==
  /\ r \notin left
  /\ Goto(r, "storing", "answering")
  /\ cache' = {Analysis(r)}
  /\ UNCHANGED <<now, read, asked, outcome, shown, ended, left, faults>>

\* The error of Set is ignored.
StoreFails(r) ==
  /\ Goto(r, "storing", "answering")
  /\ \/ r \in left /\ UNCHANGED faults
     \/ Fault
  /\ UNCHANGED <<now, read, asked, outcome, shown, ended, left, cache>>

\* The answer is written in time.
Reply(r) ==
  /\ r \notin left
  /\ now - read[r] <= WriteTimeout
  /\ Goto(r, "answering", "answered")
  /\ UNCHANGED <<now, read, asked, outcome, shown, ended, left, cache, faults>>

\* The write timeout is over: the connection is closed without an answer.
CutOff(r) ==
  /\ r \notin left
  /\ now - read[r] >= WriteTimeout
  /\ Goto(r, "answering", "cut")
  /\ ended' = [ended EXCEPT ![r] = now]
  /\ UNCHANGED <<now, read, asked, outcome, shown, left, cache, faults>>

\* Nobody is there to receive the answer.
Vanish(r) ==
  /\ r \in left
  /\ Goto(r, "answering", "gone")
  /\ UNCHANGED <<now, read, asked, outcome, shown, ended, left, cache, faults>>

(***************************************************************************)
(* Clients, Redis and time.                                                *)
(***************************************************************************)

\* The client gives up (the frontend after 60 seconds) or goes away.
Leave(r) ==
  /\ stage[r] \in Working \union {"asking"}
  /\ left' = left \union {r}
  /\ UNCHANGED <<now, stage, read, asked, outcome, shown, ended, cache, faults>>

\* The key's time is up.
Expire == /\ \E e \in cache : now >= e.stored + TTL
          /\ cache' = {}
          /\ UNCHANGED <<now, stage, read, asked, outcome, shown, ended, left, faults>>

\* Redis loses the key: it restarts, or needs the memory.
Evict == /\ cache # {}
         /\ Fault
         /\ cache' = {}
         /\ UNCHANGED <<now, stage, read, asked, outcome, shown, ended, left>>

\* Mutant of WithinLimits: the model's client has no timeout.
KeyWithinLimit == \A e \in cache : now < e.stored + TTL

\* Neither the key nor a question to the model is at the end of its time.
WithinLimits ==
  /\ \A e \in cache : now < e.stored + TTL
  /\ \A r \in Requests : stage[r] = "asking" => now < asked[r] + ModelTimeout

\* Time goes on.  Every step of a request but the question is short: time that passes
\* meanwhile is a stall, one of the faults.
Tick ==
  /\ now < MaxTime
  /\ WithinLimits
  /\ now' = now + 1
  /\ \/ (\A r \in Requests : stage[r] \notin Working) /\ UNCHANGED faults
     \/ Fault
  /\ UNCHANGED <<stage, read, asked, outcome, shown, ended, left, cache>>

Serve(r) ==
  \/ Query(r) \/ QueryEmpty(r)
  \/ Hit(r) \/ Miss(r)
  \/ \E result \in Outcomes : ModelReturns(r, result)
  \/ Store(r) \/ StoreFails(r)
  \/ Reply(r) \/ CutOff(r) \/ Vanish(r)

Next == \/ \E r \in Requests : Serve(r) \/ Leave(r)
        \/ Expire \/ Evict \/ Tick

Spec == Init /\ [][Next]_vars

(***************************************************************************)
(* Properties.                                                             *)
(***************************************************************************)

\* Every variable stays in its range, and there is one value under the key at most.
TypeOK ==
  /\ now \in Times
  /\ stage \in [Requests -> Stages]
  /\ read \in [Requests -> Times]
  /\ asked \in [Requests -> Times]
  /\ outcome \in [Requests -> Outcomes]
  /\ shown \in [Requests -> Times]
  /\ ended \in [Requests -> Times]
  /\ left \subseteq Requests
  /\ cache \subseteq Entries /\ \A d, e \in cache : d = e
  /\ faults \in 0..MaxFaults

\* No page shows issues that are older than a full question and a full life of the
\* key allow, however requests overlap: a slow analysis may replace a newer one, but
\* not prolong its own life (diagnostics_service.go:78-84, 127-129, ollama.go:48).
AnswerAge ==
  \A r \in Requests : stage[r] = "answering" =>
    now - shown[r] <= TTL + ModelTimeout + faults

\* A client that goes away spoils nobody else's page: the error its leaving causes is
\* never the value of the key (diagnostics_service.go:116-129 uses one context for all).
CancelNotCached == \A e \in cache : e.outcome # "cancelled"

\* An answer that was ready too late for the server's write timeout was not in vain: if
\* nothing failed, who asks again within the key's time is answered from Redis
\* (diagnostics_service.go:127-129, server.go:30).
RetryFindsAnswer ==
  \A r \in Requests : stage[r] = "cut" /\ faults = 0 /\ now < ended[r] + TTL => cache # {}
=============================================================================
