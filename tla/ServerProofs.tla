---------------------------- MODULE ServerProofs ----------------------------
(***************************************************************************)
(* Theorems about module Server, for any number of replicas, variables and *)
(* requests.                                                               *)
(***************************************************************************)
EXTENDS Server, FiniteSetTheorems, TLAPS

(***************************************************************************)
(* The phases alone: what a step of the start needs of them.               *)
(***************************************************************************)
PhaseInv ==
  /\ schema \in BOOLEAN
  /\ phase \in [Replicas -> Phases]
  /\ ServesOnSchema

LEMMA PhaseInit == Init => PhaseInv
BY DEF Init, StartupInit, PhaseInv, ServesOnSchema, Phases

\* A replica's own step: what it comes to needs the schema only if the schema
\* is there, and the others keep theirs.
LEMMA PhaseMove ==
  ASSUME PhaseInv, NEW rep \in Replicas, NEW p \in Phases, NEW r \in Phases,
         Goes(rep, p, r), schema' \in {schema, TRUE},
         r \in {"migrate", "listen", "serving"} => schema'
  PROVE  PhaseInv'
<1>1. phase' = [phase EXCEPT ![rep] = r] BY DEF Goes
<1>2. schema' \in BOOLEAN /\ (schema => schema') BY DEF PhaseInv
<1>3. phase' \in [Replicas -> Phases] BY <1>1 DEF PhaseInv
<1>4. ASSUME NEW s \in Replicas, phase'[s] \in {"migrate", "listen", "serving"}
      PROVE  schema'
  <2>1. CASE s = rep BY <1>1, <1>4, <2>1 DEF PhaseInv
  <2>2. CASE s # rep
    <3>1. phase'[s] = phase[s] BY <1>1, <2>2 DEF PhaseInv
    <3> QED BY <1>2, <1>4, <3>1 DEF PhaseInv, ServesOnSchema
  <2> QED BY <2>1, <2>2
<1> QED BY <1>2, <1>3, <1>4 DEF PhaseInv, ServesOnSchema

LEMMA PhaseStep == PhaseInv /\ [Next]_vars => PhaseInv'
<1> SUFFICES ASSUME PhaseInv, [Next]_vars PROVE PhaseInv' OBVIOUS
<1>1. ASSUME NEW rep \in Replicas, StartupStep(rep) PROVE PhaseInv'
  <2> DEFINE At(p) == phase[rep] = p
  <2>0. ASSUME NEW p, At(p) PROVE p \in {"migrate", "listen"} => schema
    BY <2>0 DEF PhaseInv, ServesOnSchema
  <2>1. CASE Boot(rep)
    BY <2>1, PhaseMove DEF Boot, Phases
  <2>2. CASE GetConfig(rep)
    <3>1. Goes(rep, "config", "ping") \/ Goes(rep, "config", "down")
      BY <2>2 DEF GetConfig
    <3> QED BY <2>2, <3>1, PhaseMove DEF GetConfig, Phases
  <2>3. CASE Ping(rep)
    BY <2>3, PhaseMove DEF Ping, Phases
  <2>4. CASE PingFails(rep)
    BY <2>4, PhaseMove DEF PingFails, Fails, Phases
  <2>5. CASE FindSchema(rep)
    <3>1. (schema /\ Goes(rep, "schema", "migrate"))
            \/ Goes(rep, "schema", "applying")
      BY <2>5 DEF FindSchema
    <3> QED BY <2>5, <3>1, PhaseMove DEF FindSchema, Phases
  <2>6. CASE ApplySchema(rep)
    BY <2>6, PhaseMove DEF ApplySchema, Phases
  <2>7. CASE ApplySchemaFails(rep)
    BY <2>7, PhaseMove DEF ApplySchemaFails, Phases
  <2>8. CASE ApplyMigration(rep)
    <3>1. schema BY <2>8, <2>0 DEF ApplyMigration, Goes
    <3> QED BY <2>8, <3>1, PhaseMove DEF ApplyMigration, Phases
  <2>9. CASE ApplyMigrationFails(rep)
    BY <2>9, PhaseMove DEF ApplyMigrationFails, Fails, Phases
  <2>10. CASE Listen(rep)
    <3>1. schema BY <2>10, <2>0 DEF Listen, Goes
    <3> QED BY <2>10, <3>1, PhaseMove DEF Listen, Phases
  <2>11. CASE ListenFails(rep)
    BY <2>11, PhaseMove DEF ListenFails, Fails, Phases
  <2> QED BY <1>1, <2>1, <2>2, <2>3, <2>4, <2>5, <2>6, <2>7, <2>8, <2>9, <2>10,
             <2>11 DEF StartupStep
<1>2. ASSUME NEW rep \in Replicas, Die(rep) PROVE PhaseInv'
  <2>1. Goes(rep, phase[rep], "down") BY <1>2 DEF Die, Goes
  <2> QED BY <1>2, <2>1, PhaseMove DEF Die, PhaseInv, Phases
<1>3. ASSUME UNCHANGED <<schema, phase>> PROVE PhaseInv'
  BY <1>3 DEF PhaseInv, ServesOnSchema
<1>4. ASSUME NEW q \in Requests, NEW rep \in Replicas, Accept(q, rep)
      PROVE  PhaseInv'
  BY <1>3, <1>4 DEF Accept
<1>5. ASSUME NEW q \in Requests, RequestStep(q) PROVE PhaseInv'
  BY <1>3, <1>5 DEF RequestStep, Call, Panic, Log, Count
<1>6. CASE UNCHANGED vars BY <1>3, <1>6 DEF vars
<1> QED BY <1>1, <1>2, <1>4, <1>5, <1>6 DEF Next

(***************************************************************************)
(* No replica serves before the table exists, whichever of them apply the  *)
(* schema, fail at it or are started again.                                *)
(***************************************************************************)
THEOREM SchemaCorrect == Spec => []ServesOnSchema
<1>1. PhaseInv => ServesOnSchema BY DEF PhaseInv
<1> QED BY PhaseInit, PhaseStep, <1>1, PTL DEF Spec

-----------------------------------------------------------------------------
(***************************************************************************)
(* The requests: what holds of one that was accepted, at every stage.      *)
(***************************************************************************)
\* Some status is the only one the handler names, now and later; it is the one
\* that was sent.
Settles(r) ==
  \E s \in Codes \ {Write} :
    /\ \A i \in 1..Len(r.calls) : r.calls[i] \in {Write, s}
    /\ r.sent \in {Write, s}
    /\ (r.sent = Write /\ r.calls # <<>> /\ r.calls[1] = Write) => s = 200

\* The metrics hold what was sent, if anything.
Steady(r) ==
  /\ r.counted \in {Write, r.sent}
  /\ r.stage = "handler" => Settles(r)

\* Both wrappers hold the same, although only the stage "done" is of interest.
Agrees(r) == Logged(r) => r.logged = r.counted

RequestInv ==
  /\ req \in [Requests -> Request \cup {New, Over}]
  /\ \A q \in Requests :
       req[q] \in Request => Steady(req[q]) /\ Agrees(req[q])

\* New and Over are told from the rest by their stage.
LEMMA Stages ==
  /\ New \notin Request /\ Over \notin Request
  /\ New.stage = "new" /\ Over.stage = "over"
BY DEF New, Over, Request

\* What Called leaves of a request.
LEMMA CalledFields ==
  ASSUME NEW r \in Request, r.calls # <<>>
  PROVE  /\ Called(r) \in Request
         /\ Called(r).stage = r.stage
         /\ Called(r).path = r.path /\ Called(r).query = r.query
         /\ Called(r).calls = Tail(r.calls)
         /\ Called(r).logged =
              IF Logged(r) THEN Recorded(r.logged, Head(r.calls))
              ELSE r.logged
         /\ Called(r).counted = Recorded(r.counted, Head(r.calls))
         /\ Called(r).sent =
              IF r.sent # Write THEN r.sent
              ELSE IF Head(r.calls) = Write THEN 200 ELSE Head(r.calls)
<1>1. Head(r.calls) \in Codes /\ Tail(r.calls) \in Seq(Codes)
  BY DEF Request
<1>2. 200 \in Codes BY DEF Codes
<1> QED BY <1>1, <1>2 DEF Called, Request, Recorded

\* A call leaves a request as it should be: what follows the status that is sent
\* is that status or Write.
LEMMA CalledFine ==
  ASSUME NEW r \in Request, r.calls # <<>>, r.stage = "handler",
         Steady(r), Agrees(r)
  PROVE  Steady(Called(r)) /\ Agrees(Called(r))
<1> DEFINE c == Head(r.calls)
           n == Called(r)
<1>1. PICK s \in Codes \ {Write} :
        /\ \A i \in 1..Len(r.calls) : r.calls[i] \in {Write, s}
        /\ r.sent \in {Write, s}
        /\ (r.sent = Write /\ r.calls # <<>> /\ r.calls[1] = Write) => s = 200
  BY DEF Steady, Settles
<1>2. r.calls \in Seq(Codes) /\ c = r.calls[1] /\ Len(r.calls) > 0
  BY DEF Request
<1>3. c \in {Write, s} BY <1>1, <1>2
<1>4. \A i \in 1..Len(Tail(r.calls)) : Tail(r.calls)[i] \in {Write, s}
  BY <1>1, <1>2
<1>5. n.sent = s
  BY <1>1, <1>2, <1>3, CalledFields
<1>6. n.counted \in {Write, s}
  BY <1>1, <1>3, CalledFields DEF Recorded, Steady
<1>7. Steady(n)
  BY <1>4, <1>5, <1>6, CalledFields DEF Steady, Settles
<1>8. Agrees(n) BY CalledFields DEF Agrees, Logged
<1> QED BY <1>7, <1>8

\* The request as Accept makes it.
Accepted(h, query, rep) ==
  [stage  |-> "handler", replica |-> rep,
   path   |-> h.path, query |-> query,
   calls  |-> h.calls, panics |-> h.panics,
   logged |-> Write, counted |-> Write, sent |-> Write]

\* The calls of a handler that does not change its mind: the status sent is
\* never followed by another.
Settled(c) ==
  /\ c \in Seq(Codes)
  /\ \E s \in Codes \ {Write} :
       /\ \A i \in 1..Len(c) : c[i] \in {Write, s}
       /\ c # <<>> /\ c[1] = Write => s = 200

LEMMA NoCallsSettled == Settled(<<>>)
BY DEF Settled, Codes, Write

LEMMA OneCallSettled == \A a \in Codes : Settled(<<a>>)
<1> TAKE a \in Codes
<1>1. CASE a = Write
  <2>1. 200 \in Codes \ {Write} BY DEF Codes, Write
  <2> QED BY <1>1, <2>1 DEF Settled
<1>2. CASE a # Write BY <1>2 DEF Settled
<1> QED BY <1>1, <1>2

LEMMA TwoCallsSettled ==
  \A a, b \in Codes :
    (a # Write /\ b = Write) \/ (a = Write /\ b = 200) => Settled(<<a, b>>)
<1> SUFFICES ASSUME NEW a \in Codes, NEW b \in Codes,
                    (a # Write /\ b = Write) \/ (a = Write /\ b = 200)
             PROVE  Settled(<<a, b>>)
  OBVIOUS
<1> DEFINE c == <<a, b>>
<1>1. c \in Seq(Codes) /\ Len(c) = 2 /\ c[1] = a /\ c[2] = b OBVIOUS
<1>2. \A i \in 1..2 : i = 1 \/ i = 2 OBVIOUS
<1>3. 200 \in Codes \ {Write} BY DEF Codes, Write
<1> SUFFICES Settled(c) OBVIOUS
<1> HIDE DEF c
<1>4. CASE a # Write BY <1>1, <1>2, <1>4 DEF Settled
<1>5. CASE a = Write BY <1>1, <1>2, <1>3, <1>5 DEF Settled
<1> QED BY <1>4, <1>5

\* No handler changes its mind.
LEMMA HandlersSettled ==
  ASSUME NEW h \in Handlers
  PROVE  h.path \in Paths /\ h.panics \in BOOLEAN /\ Settled(h.calls)
<1>1. \A s \in {200, 304, 308, 401, 404, 405} : s \in Codes /\ s # Write
  BY DEF Codes, Write
<1>2. Write \in Codes BY DEF Codes
<1>3. ASSUME NEW s \in {200, 304, 308, 401, 404, 405}
      PROVE  Settled(<<s>>) /\ Settled(<<s, Write>>)
  <2>1. s \in Codes /\ s # Write BY <1>1
  <2>2. Settled(<<s>>) BY <2>1, OneCallSettled
  <2>3. Settled(<<s, Write>>) BY <2>1, <1>2, TwoCallsSettled
  <2> QED BY <2>2, <2>3
<1>4. Settled(<<Write>>) /\ Settled(<<Write, 200>>)
  BY <1>1, <1>2, OneCallSettled, TwoCallsSettled
<1>5. ASSUME NEW p \in Paths, NEW C, \A c \in C : Settled(c),
             h \in Returning(p, C) \/ h \in Panicking(p, C)
      PROVE  h.path \in Paths /\ h.panics \in BOOLEAN /\ Settled(h.calls)
  <2>1. PICK c \in C, b \in BOOLEAN : h = [path |-> p, calls |-> c, panics |-> b]
    BY <1>5 DEF Returning, Panicking
  <2>2. h.path = p /\ h.calls = c /\ h.panics = b BY <2>1
  <2> QED BY <1>5, <2>2
<1>6. CASE h \in Index
  BY <1>3, <1>4, <1>5, <1>6, NoCallsSettled DEF Index, Paths
<1>7. CASE h \in HealthCheck
  BY <1>3, <1>5, <1>7 DEF HealthCheck, Paths
<1>8. CASE h \in TodosRefused
  BY <1>3, <1>5, <1>8 DEF TodosRefused, Paths
<1>9. CASE h \in TodosServed
  BY <1>3, <1>4, <1>5, <1>9, NoCallsSettled DEF TodosServed, Paths
<1>10. CASE h \in Stream
  BY <1>3, <1>4, <1>5, <1>10 DEF Stream, Paths
<1>11. CASE h \in Assets
  BY <1>3, <1>5, <1>11 DEF Assets, Paths
<1>12. CASE h \in Unrouted
  BY <1>3, <1>5, <1>12 DEF Unrouted, Paths
<1> QED BY <1>6, <1>7, <1>8, <1>9, <1>10, <1>11, <1>12 DEF Handlers

LEMMA AcceptedFine ==
  ASSUME NEW h \in Handlers, NEW query \in BOOLEAN, NEW rep \in Replicas
  PROVE  /\ Accepted(h, query, rep) \in Request
         /\ Steady(Accepted(h, query, rep)) /\ Agrees(Accepted(h, query, rep))
<1>1. Write \in Codes BY DEF Codes
<1>2. Accepted(h, query, rep) \in Request
  BY <1>1, HandlersSettled DEF Accepted, Request, Settled
<1>3. Steady(Accepted(h, query, rep))
  BY HandlersSettled DEF Steady, Settles, Accepted, Settled
<1> QED BY <1>2, <1>3 DEF Agrees, Accepted

\* A request that moves on without a call.
LoggedOf(r) == [r EXCEPT !.stage = "logged"]

LEMMA LoggedFields ==
  ASSUME NEW r \in Request
  PROVE  /\ LoggedOf(r) \in Request /\ LoggedOf(r).stage = "logged"
         /\ LoggedOf(r).path = r.path /\ LoggedOf(r).query = r.query
         /\ LoggedOf(r).logged = r.logged
         /\ LoggedOf(r).counted = r.counted /\ LoggedOf(r).sent = r.sent
BY DEF Request, LoggedOf

LEMMA EndedFields ==
  ASSUME NEW r \in Request
  PROVE  /\ Ended(r) \in Request /\ Ended(r).stage = "done"
         /\ Ended(r).path = r.path /\ Ended(r).query = r.query
         /\ Ended(r).replica = r.replica /\ Ended(r).logged = r.logged
         /\ Ended(r).counted = r.counted
         /\ Ended(r).sent = IF r.sent = Write THEN 200 ELSE r.sent
<1>1. 200 \in Codes BY DEF Codes
<1> QED BY <1>1 DEF Request, Ended

\* A request at one of the stages is one that was accepted.
LEMMA InRequest ==
  ASSUME RequestInv, NEW q \in Requests,
         NEW st \in {"handler", "logged", "done"}, In(q, st)
  PROVE  req[q] \in Request /\ Steady(req[q]) /\ Agrees(req[q])
<1>1. req[q] # New /\ req[q] # Over BY Stages DEF In
<1> QED BY <1>1 DEF RequestInv

\* One request changes.
LEMMA RequestChanged ==
  ASSUME RequestInv, NEW q \in Requests, NEW n,
         req' = [req EXCEPT ![q] = n],
         n = Over \/ (n \in Request /\ Steady(n) /\ Agrees(n))
  PROVE  RequestInv'
<1>1. req' \in [Requests -> Request \cup {New, Over}] BY DEF RequestInv
<1>2. ASSUME NEW p \in Requests, req'[p] \in Request
      PROVE  Steady(req'[p]) /\ Agrees(req'[p])
  <2>1. CASE p = q BY <1>2, <2>1, Stages DEF RequestInv
  <2>2. CASE p # q BY <1>2, <2>2 DEF RequestInv
  <2> QED BY <2>1, <2>2
<1> QED BY <1>1, <1>2 DEF RequestInv

\* The effects of Log and Count, one level of EXCEPT at a time.
LEMMA LogMove ==
  ASSUME NEW q \in Requests, Log(q)
  PROVE  req' = [req EXCEPT ![q] = LoggedOf(req[q])]
BY DEF Log, LoggedOf

LEMMA CountMove ==
  ASSUME NEW q \in Requests, Count(q)
  PROVE  /\ req' = [req EXCEPT ![q] = Ended(req[q])]
         /\ count' = IF req[q].path \in Skipped THEN count
              ELSE [count EXCEPT ![req[q].replica] =
                      [count[req[q].replica] EXCEPT ![Label(req[q])] =
                          count[req[q].replica][Label(req[q])] + 1]]
BY DEF Count

LEMMA RequestInit == Init => RequestInv
BY Stages DEF Init, RequestInv

LEMMA RequestInvStep == RequestInv /\ [Next]_vars => RequestInv'
<1> SUFFICES ASSUME RequestInv, [Next]_vars PROVE RequestInv' OBVIOUS
<1>1. ASSUME UNCHANGED req PROVE RequestInv'
  BY <1>1 DEF RequestInv
<1>2. ASSUME NEW q \in Requests, NEW rep \in Replicas, Accept(q, rep)
      PROVE  RequestInv'
  <2>1. PICK h \in Handlers, query \in BOOLEAN :
          req' = [req EXCEPT ![q] = Accepted(h, query, rep)]
    BY <1>2 DEF Accept, Accepted
  <2> QED BY <2>1, AcceptedFine, RequestChanged
<1>3. ASSUME NEW q \in Requests, Call(q) PROVE RequestInv'
  <2>1. req[q] \in Request /\ Steady(req[q]) /\ Agrees(req[q])
    BY <1>3, InRequest DEF Call
  <2>2. Called(req[q]) \in Request /\ Steady(Called(req[q]))
          /\ Agrees(Called(req[q]))
    BY <1>3, <2>1, CalledFields, CalledFine DEF Call, In
  <2> QED BY <1>3, <2>2, RequestChanged DEF Call
<1>4. ASSUME NEW q \in Requests, Panic(q) PROVE RequestInv'
  BY <1>4, RequestChanged DEF Panic
<1>5. ASSUME NEW q \in Requests, NEW was \in {"handler", "logged"}, In(q, was)
      PROVE  req[q] \in Request /\ Steady(req[q]) /\ Agrees(req[q])
  BY <1>5, InRequest
<1>6. ASSUME NEW q \in Requests, Log(q) PROVE RequestInv'
  <2>1. req[q] \in Request /\ Steady(req[q]) /\ Agrees(req[q])
    BY <1>5, <1>6 DEF Log
  <2>2. Steady(LoggedOf(req[q])) /\ Agrees(LoggedOf(req[q]))
    BY <2>1, LoggedFields DEF Steady, Agrees, Logged
  <2> QED BY <1>6, <2>1, <2>2, LoggedFields, LogMove, RequestChanged
<1>7. ASSUME NEW q \in Requests, Count(q) PROVE RequestInv'
  <2>1. req[q] \in Request /\ Steady(req[q]) /\ Agrees(req[q])
    BY <1>5, <1>7 DEF Count
  <2>2. Steady(Ended(req[q])) /\ Agrees(Ended(req[q]))
    BY <2>1, EndedFields DEF Steady, Agrees, Logged
  <2> QED BY <1>7, <2>1, <2>2, EndedFields, CountMove, RequestChanged
<1>8. ASSUME NEW rep \in Replicas, Die(rep) PROVE RequestInv'
  <2>1. \A q \in Requests : req'[q] = Over \/ req'[q] = req[q]
    BY <1>8 DEF Die
  <2>2. req' \in [Requests -> Request \cup {New, Over}]
    BY <1>8, <2>1 DEF Die, RequestInv
  <2> QED BY <2>1, <2>2, Stages DEF RequestInv
<1> QED
  BY <1>1, <1>2, <1>3, <1>4, <1>6, <1>7, <1>8 DEF Next, RequestStep, vars

(***************************************************************************)
(* The log line and the counter of a request always agree.                 *)
(***************************************************************************)
THEOREM LogsCorrect == Spec => []LogAgreesWithMetrics
<1>1. RequestInv => LogAgreesWithMetrics
  BY InRequest DEF LogAgreesWithMetrics, Done, Agrees
<1> QED BY RequestInit, RequestInvStep, <1>1, PTL DEF Spec

(***************************************************************************)
(* What is counted is what was sent, or nothing was recorded: it rests on  *)
(* no handler setting a second status, which HandlersSettled checks for each.*)
(***************************************************************************)
THEOREM StatusCorrect == Spec => []NeverMiscounted
<1>1. RequestInv => NeverMiscounted
  BY InRequest DEF NeverMiscounted, Counted, Done, Steady
<1> QED BY RequestInit, RequestInvStep, <1>1, PTL DEF Spec

-----------------------------------------------------------------------------
(***************************************************************************)
(* The counters: each is the number of the requests it stands for, so none *)
(* exceeds the number of requests.                                         *)
(***************************************************************************)
\* The requests a counter stands for.
Tally(rep, k) ==
  {q \in Requests : Counted(q) /\ req[q].replica = rep /\ Label(req[q]) = k}

CountInv ==
  /\ count \in [Replicas -> [Codes \X Paths -> Nat]]
  /\ \A rep \in Replicas, k \in Codes \X Paths :
       count[rep][k] = Cardinality(Tally(rep, k))

LEMMA TallyFinite ==
  \A rep, k : /\ IsFiniteSet(Tally(rep, k))
              /\ Cardinality(Tally(rep, k)) \in 0..Cardinality(Requests)
<1> TAKE rep, k
<1>1. Tally(rep, k) \in SUBSET Requests BY DEF Tally
<1> QED BY <1>1, RequestsAssumption, FS_Subset, FS_CardinalityType

\* A request on its way, wherever it was and is, is in no tally.
LEMMA Uncounted ==
  ASSUME RequestInv, NEW q \in Requests, NEW n,
         req' = [req EXCEPT ![q] = n], ~Done(q), n.stage # "done"
  PROVE  \A rep, k : Tally(rep, k)' = Tally(rep, k)
<1> TAKE rep, k
<1>1. \A p \in Requests : p # q => req'[p] = req[p] BY DEF RequestInv
<1>2. req'[q] = n BY DEF RequestInv
<1>3. ~Done(q)' BY <1>2 DEF Done, In
<1>4. ASSUME NEW p \in Requests
      PROVE  (p \in Tally(rep, k))' <=> p \in Tally(rep, k)
  <2>1. CASE p = q BY <1>3, <2>1 DEF Tally, Counted
  <2>2. CASE p # q BY <1>1, <2>2 DEF Tally, Counted, Done, In
  <2> QED BY <2>1, <2>2
<1> QED BY <1>4 DEF Tally

LEMMA CountInit == Init => CountInv
<1> SUFFICES ASSUME Init PROVE CountInv OBVIOUS
<1>1. ASSUME NEW rep \in Replicas, NEW k \in Codes \X Paths
      PROVE  count[rep][k] = Cardinality(Tally(rep, k))
  <2>1. Tally(rep, k) = {}
    BY Stages DEF Tally, Counted, Done, In, Init
  <2>2. count[rep][k] = 0 BY DEF Init, NoCount
  <2> QED BY <2>1, <2>2, FS_EmptySet
<1>2. count \in [Replicas -> [Codes \X Paths -> Nat]] BY DEF Init, NoCount
<1> QED BY <1>1, <1>2 DEF CountInv

LEMMA CountSame ==
  ASSUME CountInv, count' = count, \A rep, k : Tally(rep, k)' = Tally(rep, k)
  PROVE  CountInv'
BY DEF CountInv

\* Count adds the request to one tally, or to none when the path is skipped.
LEMMA CountAdds ==
  ASSUME RequestInv, CountInv, NEW q \in Requests, Count(q)
  PROVE  CountInv'
<1> DEFINE r == req[q]
<1>1. r \in Request /\ r.stage = "logged"
  BY InRequest DEF Count, In
<1> DEFINE n == Ended(r)
<1>2. req' = [req EXCEPT ![q] = n] BY CountMove
<1>3. /\ n.stage = "done" /\ n.path = r.path /\ n.replica = r.replica
      /\ n.counted = r.counted
  BY <1>1, EndedFields
<1>4. req'[q] = n /\ \A p \in Requests : p # q => req'[p] = req[p]
  BY <1>2 DEF RequestInv
<1>5. Label(req'[q]) = Label(r) BY <1>3, <1>4 DEF Label
<1>6. ~Done(q) BY <1>1 DEF Done, In
<1>7. /\ Counted(q)' <=> r.path \notin Skipped
      /\ req'[q].replica = r.replica
  BY <1>3, <1>4 DEF Counted, Done, In
<1> HIDE DEF n
<1>8. ASSUME NEW p \in Requests, p # q, NEW rep, NEW k
      PROVE  (p \in Tally(rep, k))' <=> p \in Tally(rep, k)
  BY <1>4, <1>8 DEF Tally, Counted, Done, In
<1>9. \A rep, k : q \notin Tally(rep, k) BY <1>6 DEF Tally, Counted
<1>10. CASE r.path \in Skipped
  <2>1. \A rep, k : (q \notin Tally(rep, k))' BY <1>7, <1>10 DEF Tally
  <2>2. \A rep, k : Tally(rep, k)' = Tally(rep, k)
    BY <1>8, <1>9, <2>1 DEF Tally
  <2>3. count' = count BY <1>10, CountMove
  <2> QED BY <2>2, <2>3, CountSame
<1>11. CASE r.path \notin Skipped
  <2> DEFINE l == Label(r)
  <2>1. r.replica \in Replicas /\ l \in Codes \X Paths
    BY <1>1 DEF Request, Label
  <2> HIDE DEF l
  <2>2. count' = [count EXCEPT ![r.replica] =
                    [count[r.replica] EXCEPT ![l] = count[r.replica][l] + 1]]
    BY <1>11, CountMove DEF l
  <2>3. count' \in [Replicas -> [Codes \X Paths -> Nat]]
    <3>1. count[r.replica] \in [Codes \X Paths -> Nat] BY <2>1 DEF CountInv
    <3>2. [count[r.replica] EXCEPT ![l] = count[r.replica][l] + 1]
            \in [Codes \X Paths -> Nat]
      BY <2>1, <3>1
    <3> QED BY <2>1, <2>2, <3>2 DEF CountInv
  <2>4. ASSUME NEW rep \in Replicas, NEW k \in Codes \X Paths
        PROVE  count'[rep][k] = Cardinality(Tally(rep, k))'
    <3>1. CASE rep = r.replica /\ k = l
      <4>1. q \in Tally(rep, k)'
        BY <1>5, <1>7, <1>11, <3>1 DEF Tally, l
      <4>2. Tally(rep, k)' = Tally(rep, k) \cup {q}
        BY <1>8, <4>1 DEF Tally
      <4>3. Cardinality(Tally(rep, k) \cup {q}) = Cardinality(Tally(rep, k)) + 1
        BY <1>9, TallyFinite, FS_AddElement
      <4>4. count'[rep][k] = count[rep][k] + 1
        BY <2>1, <2>2, <3>1 DEF CountInv
      <4> QED BY <4>2, <4>3, <4>4 DEF CountInv
    <3>2. CASE ~(rep = r.replica /\ k = l)
      <4>1. q \notin Tally(rep, k)'
        BY <1>5, <1>7, <3>2 DEF Tally, l
      <4>2. Tally(rep, k)' = Tally(rep, k) BY <1>8, <1>9, <4>1 DEF Tally
      <4>3. count'[rep][k] = count[rep][k]
        BY <2>1, <2>2, <3>2 DEF CountInv
      <4> QED BY <4>2, <4>3 DEF CountInv
    <3> QED BY <3>1, <3>2
  <2> QED BY <2>3, <2>4 DEF CountInv
<1> QED BY <1>10, <1>11

\* The requests of a replica that ends are counted nowhere any more, and its
\* counters start again: both together.
LEMMA CountDies ==
  ASSUME RequestInv, CountInv, NEW rep \in Replicas, Die(rep)
  PROVE  CountInv'
<1>1. count' = [count EXCEPT ![rep] = NoCount] BY DEF Die
<1>2. ASSUME NEW q \in Requests
      PROVE  /\ req'[q] = Over \/ (req'[q] = req[q]
                                   /\ (req[q] \in Request => req[q].replica # rep))
             /\ req[q] \in Request /\ req[q].replica # rep => req'[q] = req[q]
  BY <1>2, Stages DEF Die
<1>3. ASSUME NEW q \in Requests, Done(q) PROVE req[q] \in Request
  BY <1>3, InRequest DEF Done
<1>4. ASSUME NEW q \in Requests, NEW s, NEW k
      PROVE  (q \in Tally(s, k))' <=> s # rep /\ q \in Tally(s, k)
  <2>1. CASE req'[q] = Over
    <3>1. ~Counted(q)' BY <2>1, Stages DEF Counted, Done, In
    <3>2. CASE Done(q)
      <4>1. req[q].replica = rep BY <1>2, <1>3, <2>1, <3>2, Stages
      <4> QED BY <3>1, <4>1 DEF Tally
    <3>3. CASE ~Done(q) BY <3>1, <3>3 DEF Tally, Counted
    <3> QED BY <3>2, <3>3
  <2>2. CASE req'[q] # Over
    <3>1. req'[q] = req[q] BY <1>2, <2>2
    <3>2. Counted(q) => req[q].replica # rep
      BY <1>2, <1>3, <2>2 DEF Counted
    <3> QED BY <3>1, <3>2 DEF Tally, Counted, Done, In
  <2> QED BY <2>1, <2>2
<1>5. ASSUME NEW s \in Replicas, NEW k \in Codes \X Paths
      PROVE  count'[s][k] = Cardinality(Tally(s, k))'
  <2>1. CASE s = rep
    <3>1. Tally(s, k)' = {} BY <1>4, <2>1 DEF Tally
    <3>2. count'[s][k] = 0 BY <1>1, <2>1 DEF CountInv, NoCount
    <3> QED BY <3>1, <3>2, FS_EmptySet
  <2>2. CASE s # rep
    <3>1. Tally(s, k)' = Tally(s, k) BY <1>4, <2>2 DEF Tally
    <3>2. count'[s][k] = count[s][k] BY <1>1, <2>2 DEF CountInv
    <3> QED BY <3>1, <3>2 DEF CountInv
  <2> QED BY <2>1, <2>2
<1>6. count' \in [Replicas -> [Codes \X Paths -> Nat]]
  BY <1>1 DEF CountInv, NoCount
<1> QED BY <1>5, <1>6 DEF CountInv

LEMMA CountStep == RequestInv /\ CountInv /\ [Next]_vars => CountInv'
<1> SUFFICES ASSUME RequestInv, CountInv, [Next]_vars PROVE CountInv' OBVIOUS
<1>1. ASSUME UNCHANGED <<req, count>> PROVE CountInv'
  <2>1. \A rep, k : Tally(rep, k)' = Tally(rep, k)
    BY <1>1 DEF Tally, Counted, Done, In
  <2> QED BY <1>1, <2>1, CountSame
<1>2. ASSUME NEW q \in Requests, NEW rep \in Replicas, Accept(q, rep)
      PROVE  CountInv'
  <2>1. PICK h \in Handlers, query \in BOOLEAN :
          req' = [req EXCEPT ![q] = Accepted(h, query, rep)]
    BY <1>2 DEF Accept, Accepted
  <2>2. Accepted(h, query, rep).stage = "handler" BY DEF Accepted
  <2>3. ~Done(q) BY <1>2, Stages DEF Accept, Done, In
  <2> QED BY <1>2, <2>1, <2>2, <2>3, Uncounted, CountSame DEF Accept
<1>3. ASSUME NEW q \in Requests, Call(q) PROVE CountInv'
  <2>1. req[q] \in Request BY <1>3, InRequest DEF Call
  <2>2. Called(req[q]).stage = "handler"
    BY <1>3, <2>1, CalledFields DEF Call, In
  <2>3. ~Done(q) BY <1>3 DEF Call, Done, In
  <2> QED BY <1>3, <2>2, <2>3, Uncounted, CountSame DEF Call
<1>4. ASSUME NEW q \in Requests, Panic(q) PROVE CountInv'
  <2>1. ~Done(q) BY <1>4 DEF Panic, Done, In
  <2> QED BY <1>4, <2>1, Stages, Uncounted, CountSame DEF Panic
<1>5. ASSUME NEW q \in Requests, Log(q) PROVE CountInv'
  <2>1. req[q] \in Request BY <1>5, InRequest DEF Log
  <2>2. LoggedOf(req[q]).stage = "logged"
    BY <2>1, LoggedFields
  <2>3. ~Done(q) BY <1>5 DEF Log, Done, In
  <2> QED BY <1>5, <2>2, <2>3, LogMove, Uncounted, CountSame DEF Log
<1>6. ASSUME NEW q \in Requests, Count(q) PROVE CountInv'
  BY <1>6, CountAdds
<1>7. ASSUME NEW rep \in Replicas, Die(rep) PROVE CountInv'
  BY <1>7, CountDies
<1> QED
  BY <1>1, <1>2, <1>3, <1>4, <1>5, <1>6, <1>7 DEF Next, RequestStep, vars

-----------------------------------------------------------------------------
(***************************************************************************)
(* The types.  That no counter exceeds the number of requests follows from *)
(* what it stands for.                                                     *)
(***************************************************************************)
\* Nothing changes the environment.
LEMMA EnvStep == env \subseteq Required /\ [Next]_vars => (env \subseteq Required)'
BY DEF Next, vars, Accept, RequestStep, Call, Panic, Log, Count, Die, StartupStep,
       Boot, GetConfig, Ping, PingFails, FindSchema, ApplySchema,
       ApplySchemaFails, ApplyMigration, ApplyMigrationFails, Listen,
       ListenFails, Fails

LEMMA TypeFacts ==
  RequestInv /\ CountInv /\ PhaseInv /\ env \subseteq Required => TypeOK
<1> SUFFICES ASSUME RequestInv, CountInv, PhaseInv, env \subseteq Required
             PROVE  TypeOK
  OBVIOUS
<1>1. ASSUME NEW rep \in Replicas
      PROVE  count[rep] \in [Codes \X Paths -> 0..Cardinality(Requests)]
  <2>1. \A k \in Codes \X Paths : count[rep][k] \in 0..Cardinality(Requests)
    BY TallyFinite DEF CountInv
  <2>2. count[rep] \in [Codes \X Paths -> Nat] BY DEF CountInv
  <2> QED BY <2>1, <2>2
<1>2. count \in [Replicas -> [Codes \X Paths -> 0..Cardinality(Requests)]]
  BY <1>1 DEF CountInv
<1> QED BY <1>2 DEF TypeOK, StartupTypeOK, RequestInv, PhaseInv

(***************************************************************************)
(* Every variable stays within its type.                                   *)
(***************************************************************************)
THEOREM TypeCorrect == Spec => []TypeOK
<1>1. Init => env \subseteq Required BY DEF Init, StartupInit
<1> QED
  BY RequestInit, RequestInvStep, CountInit, CountStep, PhaseInit, PhaseStep, <1>1,
     EnvStep, TypeFacts, PTL DEF Spec

=============================================================================
