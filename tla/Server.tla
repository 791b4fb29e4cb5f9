------------------------------- MODULE Server -------------------------------
(***************************************************************************)
(* A replica at work: requests pass the metrics middleware and the request *)
(* log on their way to a handler.  Both put a writer of their own around   *)
(* the response that remembers the status code, and use it when the        *)
(* handler has returned.                                                   *)
(*                                                                         *)
(* A handler is what it calls on the writer, in order: WriteHeader with a  *)
(* status, or Write.  The first call sends the header, with 200 if it is a *)
(* Write; a later WriteHeader changes nothing that is sent, and after a    *)
(* handler without any call net/http sends 200.  A page whose request was  *)
(* cancelled is not written at all, or not to its end.                     *)
(***************************************************************************)
EXTENDS Startup, FiniteSets, Sequences

CONSTANT Requests   \* requests, each served once

ASSUME RequestsAssumption == IsFiniteSet(Requests)

VARIABLES
  req,     \* the requests that were accepted
  count    \* http_requests_total of each replica, by code and path

vars == <<env, schema, phase, req, count>>

Write == 0   \* a call of Write; as a status, that none was recorded

\* A path stands for those that are treated alike, and "none" for those that
\* no pattern of the mux matches.
Paths == {"/", "/todos", "/todos/assets", "/notifications", "/api/healthcheck",
          "/assets", "/favicon.ico", "/metrics", "none"}

\* Not counted: a path that contains "assets", and the two named ones.
Skipped == {"/assets", "/todos/assets", "/favicon.ico", "/metrics"}

Returning(path, C) == {[path |-> path, calls |-> c, panics |-> FALSE] : c \in C}

Panicking(path, C) == {[path |-> path, calls |-> c, panics |-> TRUE] : c \in C}

Index == Returning("/", {<<Write>>, <<>>, <<405>>})

HealthCheck == Returning("/api/healthcheck", {<<200>>, <<405>>})

\* The redirect of /todos/, paths below it and methods without a handler.
TodosRefused ==
  Returning("/todos", {<<308, Write>>, <<404>>, <<405>>})
    \cup Returning("/todos/assets", {<<404>>})

\* The board and the error page.  Notify may panic before get has written the
\* page or, where get is deferred, after it.
TodosServed ==
  Returning("/todos", {<<200, Write>>, <<200>>, <<Write>>, <<>>})
    \cup Panicking("/todos", {<<>>, <<200>>, <<200, Write>>})

\* Mutated Stream: the deferred WriteHeader says there was no content.
Stream_NoContent ==
  Returning("/notifications", {<<401, Write>>, <<204>>, <<Write, 204>>})

\* The refusal, a stream without events and one with events.
Stream ==
  Returning("/notifications", {<<401, Write>>, <<200>>, <<Write, 200>>})

\* Files, the icon among them.
Assets ==
  LET answers == {<<200, Write>>, <<304>>, <<404, Write>>}
  IN  Returning("/assets", answers) \cup Returning("/favicon.ico", answers)

\* ServeMux finds no handler: the metrics have a port of their own.
Unrouted ==
  Returning("none", {<<404, Write>>}) \cup Returning("/metrics", {<<404, Write>>})

Handlers ==
  Index \cup HealthCheck \cup TodosRefused \cup TodosServed \cup Stream
    \cup Assets \cup Unrouted

Codes == {Write, 200, 204, 304, 308, 401, 404, 405}

\* The fields logged and counted are the status codes in the two wrappers, in
\* the end those in the log line and in the label; sent is what the client got.
Request ==
  [stage   : {"handler", "logged", "done"},
   replica : Replicas,
   path    : Paths,
   query   : BOOLEAN,
   calls   : Seq(Codes),
   panics  : BOOLEAN,
   logged  : Codes,
   counted : Codes,
   sent    : Codes]

New == [stage |-> "new"]

Over == [stage |-> "over"]   \* cut off, or counted by a process that is gone

NoCount == [k \in Codes \X Paths |-> 0]

TypeOK ==
  /\ StartupTypeOK
  /\ req \in [Requests -> Request \cup {New, Over}]
  /\ count \in [Replicas -> [Codes \X Paths -> 0..Cardinality(Requests)]]

\* Registration creates every metric at zero.
Init ==
  /\ StartupInit
  /\ req = [q \in Requests |-> New]
  /\ count = [rep \in Replicas |-> NoCount]

-----------------------------------------------------------------------------
Accept(q, rep) ==
  /\ phase[rep] = "serving"
  /\ req[q] = New
  /\ \E h \in Handlers, query \in BOOLEAN :
       req' = [req EXCEPT ![q] =
                 [stage  |-> "handler", replica |-> rep,
                  path   |-> h.path, query |-> query,
                  calls  |-> h.calls, panics |-> h.panics,
                  logged |-> Write, counted |-> Write, sent |-> Write]]
  /\ UNCHANGED <<env, schema, phase, count>>

In(q, stage) == req[q].stage = stage

\* The test is of the whole URL: a health check with a query is logged.
Logged(r) == r.path # "/api/healthcheck" \/ r.query

\* The status a wrapper holds after a call.
Recorded(status, call) == IF call = Write THEN status ELSE call

\* Mutated Called: the wrapper of the log keeps the status to itself.
Called_LogOnly(r) ==
  LET call == Head(r.calls)
      seen == IF Logged(r) THEN Write ELSE call
  IN  [r EXCEPT !.calls   = Tail(@),
                !.logged  = IF Logged(r) THEN Recorded(@, call) ELSE @,
                !.counted = Recorded(@, seen),
                !.sent    = IF @ # Write THEN @
                            ELSE IF seen = Write THEN 200 ELSE seen]

\* One call passes the wrapper of the log, which a health check is spared,
\* that of the metrics, and reaches the client.
Called(r) ==
  LET call == Head(r.calls)
  IN  [r EXCEPT !.calls   = Tail(@),
                !.logged  = IF Logged(r) THEN Recorded(@, call) ELSE @,
                !.counted = Recorded(@, call),
                !.sent    = IF @ # Write THEN @
                            ELSE IF call = Write THEN 200 ELSE call]

Call(q) ==
  /\ In(q, "handler") /\ req[q].calls # <<>>
  /\ req' = [req EXCEPT ![q] = Called(req[q])]
  /\ UNCHANGED <<env, schema, phase, count>>

\* The panic unwinds both middlewares; net/http closes the connection.
Panic(q) ==
  /\ In(q, "handler") /\ req[q].calls = <<>> /\ req[q].panics
  /\ req' = [req EXCEPT ![q] = Over]
  /\ UNCHANGED <<env, schema, phase, count>>

\* The handler has returned, and the line is logged.
Log(q) ==
  /\ In(q, "handler") /\ req[q].calls = <<>> /\ ~req[q].panics
  /\ req' = [req EXCEPT ![q].stage = "logged"]
  /\ UNCHANGED <<env, schema, phase, count>>

\* The labels of the counter.
Label(r) == <<r.counted, r.path>>

\* The middlewares have returned: net/http sends 200 if nothing was sent.
Ended(r) == [r EXCEPT !.stage = "done",
                      !.sent  = IF @ = Write THEN 200 ELSE @]

\* Mutated Count: the middleware is also around the handler inside the log.
Count_Twice(q) ==
  /\ In(q, "logged")
  /\ req' = [req EXCEPT ![q] = Ended(req[q])]
  /\ count' = IF req[q].path \in Skipped THEN count
              ELSE [count EXCEPT ![req[q].replica][Label(req[q])] = @ + 2]
  /\ UNCHANGED <<env, schema, phase>>

\* The duration is observed as well, on the same condition.
Count(q) ==
  /\ In(q, "logged")
  /\ req' = [req EXCEPT ![q] = Ended(req[q])]
  /\ count' = IF req[q].path \in Skipped THEN count
              ELSE [count EXCEPT ![req[q].replica][Label(req[q])] = @ + 1]
  /\ UNCHANGED <<env, schema, phase>>

\* The process ends, wherever it is, with its requests and its counters.
Die(rep) ==
  /\ phase[rep] # "down"
  /\ phase' = [phase EXCEPT ![rep] = "down"]
  /\ req' = [q \in Requests |->
               IF req[q] \notin {New, Over} /\ req[q].replica = rep
               THEN Over ELSE req[q]]
  /\ count' = [count EXCEPT ![rep] = NoCount]
  /\ UNCHANGED <<env, schema>>

-----------------------------------------------------------------------------
RequestStep(q) == Call(q) \/ Panic(q) \/ Log(q) \/ Count(q)

Next ==
  \/ \E rep \in Replicas : StartupStep(rep) /\ UNCHANGED <<req, count>>
  \/ \E rep \in Replicas : Die(rep)
  \/ \E q \in Requests, rep \in Replicas : Accept(q, rep)
  \/ \E q \in Requests : RequestStep(q)

Starts(rep) ==
  Boot(rep) \/ GetConfig(rep) \/ Ping(rep) \/ FindSchema(rep) \/ ApplySchema(rep)
    \/ ApplyMigration(rep) \/ Listen(rep)

\* Each step of the start that is attempted again and again succeeds again and
\* again: the database and the container runtime fail any number of times.
Spec ==
  /\ Init /\ [][Next]_vars
  /\ \A rep \in Replicas :
       /\ WF_vars(Boot(rep) /\ UNCHANGED <<req, count>>)
       /\ SF_vars(GetConfig(rep) /\ UNCHANGED <<req, count>>)
       /\ SF_vars(Ping(rep) /\ UNCHANGED <<req, count>>)
       /\ SF_vars(FindSchema(rep) /\ UNCHANGED <<req, count>>)
       /\ SF_vars(ApplySchema(rep) /\ UNCHANGED <<req, count>>)
       /\ SF_vars(ApplyMigration(rep) /\ UNCHANGED <<req, count>>)
       /\ SF_vars(Listen(rep) /\ UNCHANGED <<req, count>>)

-----------------------------------------------------------------------------
(***************************************************************************)
(* The start.                                                              *)
(***************************************************************************)

(***************************************************************************)
(* No replica takes requests before the table exists, although replicas    *)
(* find the schema in the making by others, and although one of the errors *)
(* of ApplySchemaUp is passed over.                                        *)
(***************************************************************************)
ServesOnSchema ==
  \A rep \in Replicas : phase[rep] \in {"migrate", "listen", "serving"} => schema

(***************************************************************************)
(* A replica that has its configuration always serves again, whatever      *)
(* failed, also when it starts on a schema that is already there.          *)
(***************************************************************************)
ServesInTheEnd ==
  \A rep \in Replicas : Required \subseteq env => []<>(phase[rep] = "serving")

-----------------------------------------------------------------------------
(***************************************************************************)
(* The requests.                                                           *)
(***************************************************************************)
Done(q) == In(q, "done")

Counted(q) == Done(q) /\ req[q].path \notin Skipped

(***************************************************************************)
(* The log line and the metric of a request name the same status.  There   *)
(* are two wrappers, and the request passes both.                          *)
(***************************************************************************)
LogAgreesWithMetrics ==
  \A q \in Requests :
    Done(q) /\ Logged(req[q]) => req[q].logged = req[q].counted

(***************************************************************************)
(* A status that is counted is the one the client got, also when a handler *)
(* sets the status after the header went out, as a stream does.            *)
(***************************************************************************)
NeverMiscounted ==
  \A q \in Requests : Counted(q) => req[q].counted \in {Write, req[q].sent}

(***************************************************************************)
(* "Total HTTP requests by status code" (metrics.go:45): a request that is *)
(* counted is counted under its status code.  A handler that only writes,  *)
(* as the index page does, is counted under 0.                             *)
(***************************************************************************)
CodeIsSent == \A q \in Requests : Counted(q) => req[q].counted = req[q].sent

=============================================================================
