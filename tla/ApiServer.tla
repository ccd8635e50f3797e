------------------------------ MODULE ApiServer ------------------------------
(***************************************************************************)
(* A request of the /v1 routes on its way through one API process          *)
(* (api/router.go): Auth and Tenant, the rate limiter of module RateLimit, *)
(* whose steps it takes, Audit (middleware/audit.go) with its goroutine,   *)
(* the handler, and the stop of the process (api/server.go,                *)
(* cmd/api/main.go).                                                       *)
(*                                                                         *)
(* gin keeps its Contexts in a pool: when ServeHTTP returns, the request's *)
(* context.Context is cancelled and its gin.Context is free for the next   *)
(* request, while the audit goroutine still holds it.                      *)
(***************************************************************************)
EXTENDS RateLimit

CONSTANTS Contexts,     \* the gin.Contexts in the pool
          MaxFailures,  \* bound: database failures and handler panics
          Nobody        \* no request, no context

ASSUME ApiServerAssumption == /\ MaxFailures \in Nat
                              /\ Nobody \notin Requests \union Contexts

VARIABLES
  phase,    \* of the process: "serving", "stopping" or "gone"
  request,  \* per request: the stage it has reached
  context,  \* per request: the gin.Context it was given
  owner,    \* per gin.Context: the request it was last reset for
  known,    \* per gin.Context: user and tenant are set
  audit,    \* per request: "none", "pending", "who", "what" or "done"
  who,      \* per request: whose user and tenant its audit goroutine has read
  what,     \* per request: whose path and status its audit goroutine has read
  rows,     \* audit_logs: whose user, and whose path, each row shows
  failures

serverVars == <<phase, request, context, owner, known, audit, who, what, rows, failures>>

allVars == <<vars, serverVars>>

auditing == <<audit, who, what, rows>>

\* Between the start of ServeHTTP and its return.
Active == {"arrived", "identified", "handling", "returning"}

InUse(c) == \E r \in Requests : context[r] = c /\ request[r] \in Active

ServerInit ==
  /\ Init
  /\ phase = "serving"
  /\ request = [r \in Requests |-> "new"]
  /\ context = [r \in Requests |-> Nobody]
  /\ owner = [c \in Contexts |-> Nobody]
  /\ known = [c \in Contexts |-> FALSE]
  /\ audit = [r \in Requests |-> "none"]
  /\ who = [r \in Requests |-> Nobody]
  /\ what = [r \in Requests |-> Nobody]
  /\ rows = {}
  /\ failures = 0

Pass(r, from, to) == /\ request[r] = from
                     /\ request' = [request EXCEPT ![r] = to]

Failure == /\ failures < MaxFailures
           /\ failures' = failures + 1

(***************************************************************************)
(* The request.                                                            *)
(***************************************************************************)

\* Mutant of Arrive: Audit comes first, and starts its goroutine before c.Next().
ArriveAuditing(r, c) ==
  /\ phase = "serving"
  /\ ~InUse(c)
  /\ Pass(r, "new", "arrived")
  /\ context' = [context EXCEPT ![r] = c]
  /\ owner' = [owner EXCEPT ![c] = r]
  /\ known' = [known EXCEPT ![c] = FALSE]
  /\ audit' = [audit EXCEPT ![r] = "pending"]
  /\ UNCHANGED <<phase, who, what, rows, failures, vars>>

\* gin takes a Context from its pool and resets it.
Arrive(r, c) ==
  /\ phase = "serving"
  /\ ~InUse(c)
  /\ Pass(r, "new", "arrived")
  /\ context' = [context EXCEPT ![r] = c]
  /\ owner' = [owner EXCEPT ![c] = r]
  /\ known' = [known EXCEPT ![c] = FALSE]
  /\ UNCHANGED <<phase, failures, auditing, vars>>

\* Auth or Tenant answers 401 or 400: the request gets no further.
Refuse(r) == /\ Pass(r, "arrived", "refused")
             /\ UNCHANGED <<phase, context, owner, known, failures, auditing, vars>>

\* Auth and Tenant set the user and the tenant.
Identify(r) ==
  /\ Pass(r, "arrived", "identified")
  /\ known' = [known EXCEPT ![context[r]] = TRUE]
  /\ UNCHANGED <<phase, context, owner, failures, auditing, vars>>

\* RateLimit reads the clock and counts the request.
Consult(r) == /\ request[r] = "identified"
              /\ ReadClock(r) \/ Count(r) \/ CountAgain(r) \/ CountFails(r)
              /\ UNCHANGED serverVars

\* RateLimit answers 429: the request leaves no trace in the audit log.
Limited(r) == /\ Abort(r)
              /\ Pass(r, "identified", "limited")
              /\ UNCHANGED <<phase, context, owner, known, failures, auditing>>

\* RateLimit and Audit call c.Next().
Proceed(r) == /\ Admit(r)
              /\ Pass(r, "identified", "handling")
              /\ UNCHANGED <<phase, context, owner, known, failures, auditing>>

\* The handler is through, and Audit starts its goroutine.
Handle(r) ==
  /\ Pass(r, "handling", "returning")
  /\ audit' = [audit EXCEPT ![r] = "pending"]
  /\ UNCHANGED <<phase, context, owner, known, who, what, rows, failures, vars>>

\* The handler panics: the panic passes Audit by, and Recovery answers 500.
Panic(r) ==
  /\ Pass(r, "handling", "panicked")
  /\ Failure
  /\ UNCHANGED <<phase, context, owner, known, auditing, vars>>

\* ServeHTTP returns: its context.Context is cancelled, its gin.Context is free.
Return(r) ==
  /\ Pass(r, "returning", "answered")
  /\ UNCHANGED <<phase, context, owner, known, failures, auditing, vars>>

(***************************************************************************)
(* The audit goroutine of request r.  It reads the gin.Context r had,      *)
(* whoever that belongs to by now.                                         *)
(***************************************************************************)

\* TenantID(c), UserID(c), UserEmail(c).
ReadWho(r) ==
  /\ phase # "gone"
  /\ audit[r] = "pending"
  /\ audit' = [audit EXCEPT ![r] = "who"]
  /\ who' = [who EXCEPT ![r] = IF known[context[r]] THEN owner[context[r]] ELSE Nobody]
  /\ UNCHANGED <<phase, request, context, owner, known, what, rows, failures, vars>>

\* c.Request, c.FullPath(), c.Writer.Status().
ReadWhat(r) ==
  /\ phase # "gone"
  /\ audit[r] = "who"
  /\ audit' = [audit EXCEPT ![r] = "what"]
  /\ what' = [what EXCEPT ![r] = owner[context[r]]]
  /\ UNCHANGED <<phase, request, context, owner, known, who, rows, failures, vars>>

\* The insert runs under c.Request.Context(): it succeeds only as long as the request
\* that now owns the gin.Context is being served.
InsertRow(r) ==
  /\ phase # "gone"
  /\ audit[r] = "what"
  /\ request[owner[context[r]]] \in Active
  /\ audit' = [audit EXCEPT ![r] = "done"]
  /\ rows' = rows \union {[who |-> who[r], what |-> what[r]]}
  /\ UNCHANGED <<phase, request, context, owner, known, who, what, failures, vars>>

\* That context is cancelled, or the database fails: the error is logged at debug level.
InsertFails(r) ==
  /\ phase # "gone"
  /\ audit[r] = "what"
  /\ \/ request[owner[context[r]]] \notin Active /\ UNCHANGED failures
     \/ Failure
  /\ audit' = [audit EXCEPT ![r] = "done"]
  /\ UNCHANGED <<phase, request, context, owner, known, who, what, rows, vars>>

(***************************************************************************)
(* The process.                                                            *)
(***************************************************************************)

\* SIGTERM: Shutdown closes the listener and waits, in its own goroutine.
Stop ==
  /\ phase = "serving"
  /\ phase' = "stopping"
  /\ UNCHANGED <<request, context, owner, known, failures, auditing, vars>>

\* ListenAndServe has returned at once, main runs into its end and the process exits.
Exit ==
  /\ phase = "stopping"
  /\ phase' = "gone"
  /\ request' = [r \in Requests |-> IF request[r] \in Active THEN "cut" ELSE request[r]]
  /\ UNCHANGED <<context, owner, known, failures, auditing, vars>>

Serve(r) == \/ Refuse(r) \/ Identify(r)
            \/ Consult(r) \/ Limited(r) \/ Proceed(r)
            \/ Handle(r) \/ Panic(r)
            \/ Return(r)

Log(r) == ReadWho(r) \/ ReadWhat(r) \/ InsertRow(r) \/ InsertFails(r)

ServerNext == \/ \E r \in Requests, c \in Contexts : Arrive(r, c)
              \/ \E r \in Requests : Serve(r)
              \/ \E r \in Requests : Log(r)
              \/ Stop
              \/ Exit
              \/ Tick /\ UNCHANGED serverVars

ServerSpec == ServerInit /\ [][ServerNext]_allVars

(***************************************************************************)
(* Properties.                                                             *)
(***************************************************************************)

\* Every variable stays in its range; whoever came has a gin.Context, and only a request
\* whose handler is through is audited.
ServerTypeOK ==
  /\ phase \in {"serving", "stopping", "gone"}
  /\ request \in [Requests -> Active \union
                    {"new", "refused", "limited", "panicked", "answered", "cut"}]
  /\ context \in [Requests -> Contexts \union {Nobody}]
  /\ \A r \in Requests : /\ request[r] # "new" => context[r] \in Contexts
                         /\ audit[r] # "none" => request[r] \in {"returning", "answered", "cut"}
  /\ owner \in [Contexts -> Requests \union {Nobody}]
  /\ known \in [Contexts -> BOOLEAN]
  /\ audit \in [Requests -> {"none", "pending", "who", "what", "done"}]
  /\ who \in [Requests -> Requests \union {Nobody}]
  /\ what \in [Requests -> Requests \union {Nobody}]
  /\ rows \subseteq [who : Requests \union {Nobody}, what : Requests]
  /\ failures \in 0..MaxFailures

\* As long as no other request has taken the gin.Context over, the row the audit
\* goroutine writes shows its own request's user, tenant, path and status: Audit starts
\* it late enough (audit.go:14-17).
OwnRowUntilReused ==
  [][\A r \in Requests :
       /\ audit[r] = "what"
       /\ owner[context[r]] = r
       /\ rows' # rows
       /\ audit'[r] = "done"
       => who[r] = r /\ what[r] = r]_allVars

\* What docs/security.md promises: each API request is logged in audit_logs.  Here: when
\* the audit goroutine of an answered request has ended without any failure, the row
\* with the request's user and its path is there.
EveryRequestLogged ==
  \A r \in Requests : request[r] = "answered" /\ audit[r] = "done" /\ failures = 0 =>
    [who |-> r, what |-> r] \in rows

\* What api/server.go and cmd/api/main.go announce: a graceful shutdown.  The requests
\* that were being served when the signal came are answered before the process exits,
\* in a run in which the ten seconds that Shutdown grants are never used up.
GracefulShutdown == \A r \in Requests : request[r] # "cut"
=============================================================================
