--------------------------- MODULE ModelManagement ---------------------------
(***************************************************************************)
(* The model behind the diagnostics (handlers/models.go, ai/ollama.go,     *)
(* ai/diagnostics_service.go, ai/client.go): every API replica has a       *)
(* client of its own with the name of the model it asks, and all share one *)
(* Ollama server with the models that are installed.                       *)
(*                                                                         *)
(* A name is a Go string, two words: where its bytes are and how many.     *)
(* SetModel writes them under the service's lock; ModelName and Analyze    *)
(* read them without it, one after the other, so a reader may get the      *)
(* bytes of one name and the length of another.  The name of model m is    *)
(* <<m, m>>.  What is kept in Redis of an answer is DiagnosticsCache's.    *)
(***************************************************************************)
EXTENDS Naturals, Sequences

CONSTANTS Replicas,   \* of the API
          Requests,   \* the requests that may come
          Models,     \* names of models
          Configured, \* AI_MODEL
          Backends,   \* what AI_BACKEND may be: "ollama", "external" (OpenAI, Claude), "unusable"
          MaxFaults,  \* bound: failures of Redis and Ollama, stops of a replica
          Nobody      \* no request, no model

ASSUME ModelAssumption == /\ Configured \in Models
                          /\ Backends \subseteq {"ollama", "external", "unusable"}
                          /\ MaxFaults \in Nat
                          /\ Nobody \notin Requests \union Models

VARIABLES
  backend,   \* AI_BACKEND of all replicas
  service,   \* per replica: "down", "none", "ollama" or "external"
  active,    \* per replica: the two words of the client's model
  writer,    \* per replica: the request that holds the service's lock for writing
  last,      \* per replica: the model it should ask: of the last switch, or the configured one
  installed, \* the models at the Ollama server
  key,       \* ai:active_model in Redis, which nobody reads
  what,      \* per request: the operation and its model
  at,        \* per request: the replica it comes to
  stage,     \* per request: the step it has reached
  words,     \* per request: the words of names it has read: of the label, then of the question
  disturbed, \* requests whose name a switch changed between two words they read
  answer,    \* per request: the answer
  faults

replicaVars == <<service, active, writer, last>>
requestVars == <<stage, words, disturbed, answer>>
given == <<backend, what, at>>
vars == <<given, replicaVars, requestVars, installed, key, faults>>

Operations == [op : {"switch", "pull", "delete"}, model : Models]
                \union [op : {"list", "diagnose", "explain"}, model : {Configured}]
Stages == {"new", "client", "listing", "deleting", "accepted", "returned", "reading", "waiting",
           "storing", "locking", "writing", "unlocking", "done", "cut"}
Answers == {"none", "ok", "failed", "unavailable", "panic"}

\* The backend is one of a kind per deployment; the replicas start one by one.
Init ==
  /\ backend \in Backends
  /\ what \in [Requests -> Operations]
  /\ at \in [Requests -> Replicas]
  /\ service = [p \in Replicas |-> "down"]
  /\ active = [p \in Replicas |-> <<Configured, Configured>>]
  /\ writer = [p \in Replicas |-> Nobody]
  /\ last = [p \in Replicas |-> Configured]
  /\ installed = {}
  /\ key = Nobody
  /\ stage = [r \in Requests |-> "new"]
  /\ words = [r \in Requests |-> <<>>]
  /\ disturbed = {}
  /\ answer = [r \in Requests |-> "none"]
  /\ faults = 0

Fault == faults < MaxFaults /\ faults' = faults + 1

Mine(r) == service[at[r]]

Goto(r, from, to) == /\ stage[r] = from
                     /\ stage' = [stage EXCEPT ![r] = to]

Finish(r, from, result) == /\ Goto(r, from, "done")
                           /\ answer' = [answer EXCEPT ![r] = result]
                           /\ UNCHANGED <<words, disturbed>>

(***************************************************************************)
(* Replicas: NewHandler, NewClient, NewDiagnosticsService.                 *)
(***************************************************************************)

\* A replica that cannot reach Ollama when it starts goes without, until its next start.
\* One that can pulls the configured model; that this fails is only logged.
Start(p) ==
  /\ service[p] = "down"
  /\ \/ /\ backend = "ollama"
        /\ service' = [service EXCEPT ![p] = "ollama"]
        /\ \/ installed' = installed \union {Configured} /\ UNCHANGED faults
           \/ UNCHANGED installed /\ Fault
     \/ /\ backend = "ollama"
        /\ service' = [service EXCEPT ![p] = "none"]
        /\ UNCHANGED installed /\ Fault
     \/ /\ backend # "ollama"
        /\ service' = [service EXCEPT ![p] = IF backend = "external" THEN "external" ELSE "none"]
        /\ UNCHANGED <<installed, faults>>
  /\ active' = [active EXCEPT ![p] = <<Configured, Configured>>]
  /\ last' = [last EXCEPT ![p] = Configured]
  /\ UNCHANGED <<given, writer, requestVars, key>>

\* The process ends, and with it the requests it was serving.
Down(p) ==
  /\ service' = [service EXCEPT ![p] = "down"]
  /\ writer' = [writer EXCEPT ![p] = Nobody]
  /\ stage' = [q \in Requests |-> IF at[q] = p /\ stage[q] \notin {"new", "done"} THEN "cut" ELSE stage[q]]
  /\ UNCHANGED <<given, active, last, words, disturbed, installed, key>>

Stop(p) ==
  /\ service[p] # "down"
  /\ Down(p)
  /\ Fault
  /\ UNCHANGED answer

(***************************************************************************)
(* Requests that use the client.                                           *)
(***************************************************************************)

\* To the handler; a switch needs no client.
Arrive(r) ==
  /\ Mine(r) # "down"
  /\ Goto(r, "new", IF what[r].op = "switch" THEN "storing" ELSE "client")
  /\ UNCHANGED <<given, replicaVars, words, disturbed, answer, installed, key, faults>>

After(op) == CASE op = "list" -> "listing"
               [] op = "delete" -> "deleting"
               [] op = "pull" -> "accepted"
               [] OTHER -> "reading"

\* Mutant of Client: whether there is a service is not asked.
ClientUnchecked(r) ==
  /\ writer[at[r]] = Nobody
  /\ Goto(r, "client", After(what[r].op))
  /\ UNCHANGED <<given, replicaVars, words, disturbed, answer, installed, key, faults>>

\* Takes the client, under the read lock.
Client(r) ==
  /\ Mine(r) # "none"
  /\ writer[at[r]] = Nobody
  /\ Goto(r, "client", After(what[r].op))
  /\ UNCHANGED <<given, replicaVars, words, disturbed, answer, installed, key, faults>>

\* There is no service: 503, or for the diagnostics page the issues without an analysis.
NoService(r) ==
  /\ Mine(r) = "none"
  /\ Finish(r, "client", "unavailable")
  /\ UNCHANGED <<given, replicaVars, installed, key, faults>>

WordsOf(op) == IF op = "diagnose" THEN 4 ELSE 2

\* Mutant of ReadWord: the label is the configured model, as in ListModels and SwitchModel.
ReadWordOfConfig(r) ==
  /\ Mine(r) = "ollama"
  /\ Goto(r, "reading", IF Len(words[r]) + 1 = WordsOf(what[r].op) THEN "waiting" ELSE "reading")
  /\ words' = [words EXCEPT ![r] =
       Append(@, IF what[r].op = "diagnose" /\ Len(@) < 2 THEN Configured ELSE active[at[r]][1 + (Len(@) % 2)])]
  /\ UNCHANGED <<given, replicaVars, disturbed, answer, installed, key, faults>>

\* A diagnosis reads the model's name for its label and again for the question, an
\* explanation for the question only; word by word and without the lock.
ReadWord(r) ==
  /\ Mine(r) = "ollama"
  /\ Goto(r, "reading", IF Len(words[r]) + 1 = WordsOf(what[r].op) THEN "waiting" ELSE "reading")
  /\ words' = [words EXCEPT ![r] = Append(@, active[at[r]][1 + (Len(@) % 2)])]
  /\ UNCHANGED <<given, replicaVars, disturbed, answer, installed, key, faults>>

\* The other backends have one model, and no label.
SkipWords(r) ==
  /\ Mine(r) = "external"
  /\ Goto(r, "reading", "waiting")
  /\ UNCHANGED <<given, replicaVars, words, disturbed, answer, installed, key, faults>>

Asked(r) == SubSeq(words[r], Len(words[r]) - 1, Len(words[r]))

\* The answer of the model.  A name of mixed words is that of its first word if the two
\* names are equally long, and otherwise no model's.
Replies(r) ==
  /\ Finish(r, "waiting", "ok")
  /\ Mine(r) = "ollama" => Asked(r)[1] \in installed
  /\ UNCHANGED <<given, replicaVars, installed, key, faults>>

\* It becomes an error: a model that is not installed, or a call that fails.
Refuses(r) ==
  /\ Finish(r, "waiting", "failed")
  /\ \/ Mine(r) = "ollama" /\ (Asked(r)[1] \notin installed \/ Asked(r)[1] # Asked(r)[2]) /\ UNCHANGED faults
     \/ Fault
  /\ UNCHANGED <<given, replicaVars, installed, key>>

List(r) ==
  /\ \/ Mine(r) = "ollama" /\ Finish(r, "listing", "ok") /\ UNCHANGED faults
     \/ Mine(r) = "ollama" /\ Finish(r, "listing", "failed") /\ Fault
  /\ UNCHANGED <<given, replicaVars, installed, key>>

\* Ollama deletes the model, or answers that it is not there; the answer may get lost.
Delete(r) ==
  /\ Mine(r) = "ollama"
  /\ \/ /\ Finish(r, "deleting", IF what[r].model \in installed THEN "ok" ELSE "failed")
        /\ installed' = installed \ {what[r].model}
        /\ UNCHANGED faults
     \/ /\ Finish(r, "deleting", "failed")
        /\ installed' \in {installed, installed \ {what[r].model}}
        /\ Fault
  /\ UNCHANGED <<given, replicaVars, key>>

\* The client is nil without Ollama: a nil pointer, from which gin recovers.
Recovered(r) ==
  /\ Mine(r) # "ollama"
  /\ Finish(r, IF what[r].op = "list" THEN "listing" ELSE "deleting", "panic")
  /\ UNCHANGED <<given, replicaVars, installed, key, faults>>

(***************************************************************************)
(* PullModel: the download runs in a goroutine, under the context of the   *)
(* request, which ends when its handler returns.                           *)
(***************************************************************************)

\* 202: the handler returns.
Accept(r) ==
  /\ Goto(r, "accepted", "returned")
  /\ UNCHANGED <<given, replicaVars, words, disturbed, answer, installed, key, faults>>

\* The download ends well after all, before its context does or just about.
Downloaded(r) ==
  /\ Mine(r) = "ollama"
  /\ stage[r] \in {"accepted", "returned"}
  /\ Finish(r, stage[r], "ok")
  /\ installed' = installed \union {what[r].model}
  /\ UNCHANGED <<given, replicaVars, key, faults>>

\* It fails, or its context has been cancelled; nobody is told.
NotDownloaded(r) ==
  /\ Mine(r) = "ollama"
  /\ \/ Finish(r, "returned", "failed") /\ UNCHANGED faults
     \/ Finish(r, "accepted", "failed") /\ Fault
  /\ UNCHANGED <<given, replicaVars, installed, key>>

\* The client is nil, and nobody recovers in a goroutine: the process ends.
Crash(r) ==
  /\ Mine(r) # "ollama"
  /\ stage[r] \in {"accepted", "returned"}
  /\ answer' = [answer EXCEPT ![r] = "panic"]
  /\ Down(at[r])
  /\ UNCHANGED faults

(***************************************************************************)
(* SwitchModel and SetModel.                                               *)
(***************************************************************************)

\* The model is written to Redis; an error is ignored.
StoreKey(r) ==
  /\ Goto(r, "storing", IF Mine(r) = "none" THEN "unlocking" ELSE "locking")
  /\ \/ key' = what[r].model /\ UNCHANGED faults
     \/ UNCHANGED key /\ Fault
  /\ UNCHANGED <<given, replicaVars, words, disturbed, answer, installed>>

\* Mutant of Lock: SetModel takes the read lock.
LockShared(r) ==
  /\ Goto(r, "locking", IF Mine(r) = "ollama" THEN "writing" ELSE "unlocking")
  /\ writer' = [writer EXCEPT ![at[r]] = r]
  /\ last' = [last EXCEPT ![at[r]] = IF Mine(r) = "ollama" THEN what[r].model ELSE @]
  /\ UNCHANGED <<given, service, active, words, disturbed, answer, installed, key, faults>>

Lock(r) ==
  /\ writer[at[r]] = Nobody
  /\ Goto(r, "locking", IF Mine(r) = "ollama" THEN "writing" ELSE "unlocking")
  /\ writer' = [writer EXCEPT ![at[r]] = r]
  /\ last' = [last EXCEPT ![at[r]] = IF Mine(r) = "ollama" THEN what[r].model ELSE @]
  /\ UNCHANGED <<given, service, active, words, disturbed, answer, installed, key, faults>>

\* One word of the name, the length first or last, as the compiler has it.
WriteWord(r, i) ==
  /\ active[at[r]][i] # what[r].model
  /\ Goto(r, "writing", "writing")
  /\ active' = [active EXCEPT ![at[r]][i] = what[r].model]
  /\ disturbed' = disturbed \union {q \in Requests : at[q] = at[r] /\ stage[q] = "reading" /\ words[q] # <<>>}
  /\ UNCHANGED <<given, service, writer, last, words, answer, installed, key, faults>>

Written(r) ==
  /\ active[at[r]] = <<what[r].model, what[r].model>>
  /\ Goto(r, "writing", "unlocking")
  /\ UNCHANGED <<given, replicaVars, words, disturbed, answer, installed, key, faults>>

\* The answer is the same whether there was a model to change or not.
Unlock(r) ==
  /\ Finish(r, "unlocking", "ok")
  /\ writer' = [writer EXCEPT ![at[r]] = IF @ = r THEN Nobody ELSE @]
  /\ UNCHANGED <<given, service, active, last, installed, key, faults>>

Serve(r) ==
  \/ Arrive(r) \/ Client(r) \/ NoService(r)
  \/ ReadWord(r) \/ SkipWords(r) \/ Replies(r) \/ Refuses(r)
  \/ List(r) \/ Delete(r) \/ Recovered(r)
  \/ Accept(r) \/ Downloaded(r) \/ NotDownloaded(r) \/ Crash(r)
  \/ StoreKey(r) \/ Lock(r) \/ (\E i \in {1, 2} : WriteWord(r, i)) \/ Written(r) \/ Unlock(r)

Next == \/ \E p \in Replicas : Start(p) \/ Stop(p)
        \/ \E r \in Requests : Serve(r)

Spec == Init /\ [][Next]_vars

(***************************************************************************)
(* Properties.                                                             *)
(***************************************************************************)

\* Types: a replica that is down serves nobody, and a request reads no more words than it needs.
TypeOK ==
  /\ backend \in Backends
  /\ what \in [Requests -> Operations]
  /\ at \in [Requests -> Replicas]
  /\ service \in [Replicas -> {"down", "none", "ollama", "external"}]
  /\ active \in [Replicas -> Models \X Models]
  /\ writer \in [Replicas -> Requests \union {Nobody}]
  /\ last \in [Replicas -> Models]
  /\ installed \subseteq Models
  /\ key \in Models \union {Nobody}
  /\ stage \in [Requests -> Stages]
  /\ words \in [Requests -> Seq(Models)]
  /\ \A r \in Requests : Len(words[r]) <= WordsOf(what[r].op)
  /\ disturbed \subseteq Requests
  /\ answer \in [Requests -> Answers]
  /\ faults \in Nat /\ faults <= MaxFaults

\* The lock of SetModel: however switches overlap, a replica asks the model of the switch that took
\* the lock last, by its whole name, or since its start the configured one.
LastSwitchWins ==
  \A p \in Replicas : service[p] = "ollama" /\ writer[p] = Nobody => active[p] = <<last[p], last[p]>>

\* The label of a diagnosis, read before the question is asked (diagnostics_service.go:87, ollama.go:57),
\* names the model that was asked, unless a switch at the same replica wrote between the two readings;
\* switches elsewhere, restarts and deleted models do not matter.
LabelFitsModel ==
  \A r \in Requests :
    what[r].op = "diagnose" /\ Len(words[r]) = 4 /\ r \notin disturbed =>
      SubSeq(words[r], 1, 2) = Asked(r)

\* getOllamaClient's check: with Ollama as backend no request meets a nil client, even at a replica that
\* could not reach Ollama when it started; with another backend a download ends the process.
PanicOnlyWithoutOllama == \A r \in Requests : answer[r] = "panic" => backend = "external"
=============================================================================
