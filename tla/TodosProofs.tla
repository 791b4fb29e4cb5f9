---------------------------- MODULE TodosProofs ----------------------------
(***************************************************************************)
(* Theorems about module Todos, for any number of browsers, replicas,      *)
(* requests in flight, users and tokens.                                   *)
(*                                                                         *)
(* The first part says what each action does to the requests, the second   *)
(* that browsers own their tokens and users, the third what a request      *)
(* knows of the session it copied; the theorems follow.                    *)
(***************************************************************************)
EXTENDS Todos, TLAPS

\* A request whose handler has not responded.
Working(q) == InFlight(q) /\ req[q].phase # "sent"

\* The request n is r, but may not be alone any more.
Same(n, r) ==
  /\ (n \in Request <=> r \in Request) /\ (n \in Response <=> r \in Response)
  /\ n.phase = r.phase /\ n.browser = r.browser /\ n.replica = r.replica
  /\ n.token = r.token /\ n.user = r.user
  /\ r \in Request =>
       n.kind = r.kind /\ n.loaded = r.loaded /\ n.modified = r.modified
  /\ n.alone => r.alone

\* A request, an answer and an idle slot are told apart by their phases.
LEMMA Phases ==
  /\ \A r \in Request : r.phase \in {"handler", "create", "render"}
  /\ \A r \in Response : r.phase = "sent"
  /\ Idle.phase = "idle" /\ Idle \notin Request /\ Idle \notin Response
BY DEF Idle, Request, Response

LEMMA RequestFields ==
  ASSUME NEW r \in Request
  PROVE  /\ r.kind \in {"get", "post", "put", "delete", "reset"}
         /\ r.browser \in Browsers /\ r.replica \in Replicas
         /\ r.token \in Tokens \cup {NoToken}
         /\ r.loaded \in AnyUser /\ r.user \in AnyUser
         /\ r.modified \in BOOLEAN /\ r.alone \in BOOLEAN
BY DEF Request

LEMMA ResponseFields ==
  ASSUME NEW r \in Response
  PROVE  /\ r.browser \in Browsers /\ r.replica \in Replicas
         /\ r.token \in Tokens \cup {NoToken} /\ r.user \in AnyUser
         /\ r.alone \in BOOLEAN
BY DEF Response

\* What taking away the history field leaves.
LEMMA AloneOff ==
  ASSUME NEW r \in Request \cup Response
  PROVE  /\ [r EXCEPT !.alone = FALSE] \in Request \cup Response
         /\ Same([r EXCEPT !.alone = FALSE], r)
         /\ ~[r EXCEPT !.alone = FALSE].alone
<1> DEFINE n == [r EXCEPT !.alone = FALSE]
<1>1. CASE r \in Request
  <2>1. n \in Request BY <1>1 DEF Request
  <2>2. /\ n.phase = r.phase /\ n.browser = r.browser /\ n.replica = r.replica
        /\ n.token = r.token /\ n.user = r.user /\ n.kind = r.kind
        /\ n.loaded = r.loaded /\ n.modified = r.modified /\ n.alone = FALSE
    BY <1>1 DEF Request
  <2>3. n \notin Response /\ r \notin Response BY <1>1, <2>1, Phases
  <2> QED BY <1>1, <2>1, <2>2, <2>3 DEF Same
<1>2. CASE r \in Response
  <2>1. n \in Response BY <1>2 DEF Response
  <2>2. /\ n.phase = r.phase /\ n.browser = r.browser /\ n.replica = r.replica
        /\ n.token = r.token /\ n.user = r.user /\ n.alone = FALSE
    BY <1>2 DEF Response
  <2>3. n \notin Request /\ r \notin Request BY <1>2, <2>1, Phases
  <2> QED BY <1>2, <2>1, <2>2, <2>3 DEF Same
<1> QED BY <1>1, <1>2

\* What a slot holds, by its phase.
LEMMA InFlightKind ==
  ASSUME TypeOK, NEW q \in Requests
  PROVE  /\ InFlight(q) <=> req[q] \in Request \cup Response
         /\ Working(q) <=> req[q] \in Request
         /\ (InFlight(q) /\ req[q].phase = "sent") <=> req[q] \in Response
         /\ InFlight(q) <=> req[q] # Idle
BY Phases DEF TypeOK, InFlight, Working

-----------------------------------------------------------------------------
(***************************************************************************)
(* What the actions do to the requests.                                    *)
(***************************************************************************)
Kinds == {"get", "post", "put", "delete", "reset"}

\* Start(q, b, k), at replica rep.
Started(q, b, k, rep, n) ==
  /\ rep \in Route(b) /\ rep \in Replicas
  /\ n \in Request /\ n.browser = b /\ n.kind = k /\ n.replica = rep
  /\ n.token = (IF Known(rep, cookie[b]) THEN cookie[b] ELSE NoToken)
  /\ n.loaded = UserOf(rep, cookie[b]) /\ n.user = UserOf(rep, cookie[b])
  /\ ~n.modified
  /\ n.phase = "create" => n.user = NoUser
  /\ n.alone => \A p \in Requests \ {q} : InFlight(p) => req[p].browser # b

LEMMA UserOfType ==
  ASSUME TypeOK, NEW rep \in Replicas, NEW t
  PROVE  UserOf(rep, t) \in AnyUser
BY DEF TypeOK, UserOf, Known, AnyUser

\* The request that starts, and the others of its browser.
LEMMA StartEffect ==
  ASSUME TypeOK, NEW q \in Requests, NEW b \in Browsers,
         NEW k \in Kinds, Start(q, b, k)
  PROVE  /\ \E rep \in Replicas : Started(q, b, k, rep, req'[q])
         /\ req' \in [Requests -> Request \cup Response \cup {Idle}]
         /\ \A p \in Requests \ {q} :
              /\ req[p] = Idle => req'[p] = Idle
              /\ req[p] # Idle =>
                   /\ Same(req'[p], req[p])
                   /\ req[p].browser = b => ~req'[p].alone
<1>1. PICK rep \in Route(b) :
        LET r == Loaded(b, k, rep, Others(q, b) = {})
        IN  req' = [p \in Requests |->
                     IF p = q THEN IF k = "get" THEN ToGet(r) ELSE r
                     ELSE IF p \in Others(q, b)
                          THEN [req[p] EXCEPT !.alone = FALSE]
                          ELSE req[p]]
  BY DEF Start
<1> DEFINE r == Loaded(b, k, rep, Others(q, b) = {})
<1>2. rep \in Replicas
  BY DEF TypeOK, Route
<1>3. /\ r \in Request /\ r.phase = "handler" /\ r.browser = b /\ r.kind = k
      /\ r.replica = rep
      /\ r.token = (IF Known(rep, cookie[b]) THEN cookie[b] ELSE NoToken)
      /\ r.loaded = UserOf(rep, cookie[b]) /\ r.user = UserOf(rep, cookie[b])
      /\ ~r.modified
      /\ r.alone => Others(q, b) = {}
  <2>1. UserOf(rep, cookie[b]) \in AnyUser BY <1>2, UserOfType
  <2>2. (IF Known(rep, cookie[b]) THEN cookie[b] ELSE NoToken) \in Tokens \cup {NoToken}
    BY DEF Known
  <2> QED BY <1>2, <2>1, <2>2 DEF Loaded, Request, Kinds
<1>4. /\ ToGet(r) \in Request /\ ToGet(r).browser = b /\ ToGet(r).kind = k
      /\ ToGet(r).phase = "create" => r.user = NoUser
      /\ ToGet(r).replica = rep /\ ToGet(r).token = r.token
      /\ ToGet(r).loaded = r.loaded /\ ToGet(r).user = r.user
      /\ ToGet(r).modified = r.modified /\ ToGet(r).alone = r.alone
  <2> HIDE DEF r
  <2> QED BY <1>3 DEF ToGet, Request, Kinds
<1>5. req'[q] = IF k = "get" THEN ToGet(r) ELSE r BY <1>1
<1>6. req'[q] \in Request /\ Started(q, b, k, rep, req'[q])
  <2>1. Others(q, b) = {} =>
          \A p \in Requests \ {q} : InFlight(p) => req[p].browser # b
    BY DEF Others
  <2> HIDE DEF r
  <2> QED BY <1>2, <1>3, <1>4, <1>5, <2>1 DEF Started
<1>7. ASSUME NEW p \in Requests \ {q}
      PROVE  /\ req'[p] \in Request \cup Response \cup {Idle}
             /\ req[p] = Idle => req'[p] = Idle
             /\ req[p] # Idle =>
                  /\ Same(req'[p], req[p])
                  /\ req[p].browser = b => ~req'[p].alone
  <2>1. CASE p \in Others(q, b)
    <3>1. req'[p] = [req[p] EXCEPT !.alone = FALSE] BY <1>1, <2>1
    <3>2. req[p] # Idle /\ req[p] \in Request \cup Response
      BY <2>1, InFlightKind DEF Others
    <3> QED BY <3>1, <3>2, AloneOff
  <2>2. CASE p \notin Others(q, b)
    <3>1. req'[p] = req[p] BY <1>1, <2>2
    <3>2. req[p] # Idle => req[p].browser # b
      BY <2>2 DEF Others, InFlight
    <3> QED BY <3>1, <3>2 DEF Same, TypeOK
  <2> QED BY <2>1, <2>2
<1>8. req' \in [Requests -> Request \cup Response \cup {Idle}]
  <2>1. req' = [p \in Requests |-> req'[p]] BY <1>1
  <2> QED BY <1>6, <1>7, <2>1
<1> QED BY <1>2, <1>6, <1>7, <1>8

\* A working request stays one, and the browser, the replica and what was loaded
\* stay the same.
Goes(n, r) ==
  /\ n \in Request
  /\ n.kind = r.kind /\ n.browser = r.browser /\ n.replica = r.replica
  /\ n.token = r.token /\ n.loaded = r.loaded /\ n.alone = r.alone

\* A handler up to its call of get.
Handled(n, r) ==
  /\ r.phase = "handler"
  /\ Goes(n, r)
  /\ n.phase \in {"create", "render"}
  /\ n.phase = "create" => n.user = NoUser
  /\ n.user = r.user \/ (r.kind = "reset" /\ n.user = NoUser)
  /\ n.modified => \/ r.modified
                   \/ r.kind = "post"
                   \/ r.kind = "reset" /\ n.user = NoUser
  /\ ~n.modified => n.user = r.user

Handles(q) == SessionReset(q) \/ Delete(q) \/ Post(q) \/ Put(q)

Ends(q) == RenderPanics(q) \/ Lose(q)

\* Put and delete modify nothing, post the user that is there, reset removes it.
LEMMA ToGetHandled ==
  ASSUME NEW r \in Request, r.phase = "handler", NEW u \in AnyUser,
         NEW m \in BOOLEAN,
         \/ u = r.user /\ m = r.modified
         \/ u = r.user /\ r.kind = "post"
         \/ u = NoUser /\ r.kind = "reset" /\ (m <=> r.user # NoUser)
  PROVE  Handled(ToGet([r EXCEPT !.user = u, !.modified = m]), r)
<1> DEFINE s == [r EXCEPT !.user = u, !.modified = m]
<1>1. /\ s \in Request /\ s.kind = r.kind /\ s.browser = r.browser
      /\ s.replica = r.replica /\ s.token = r.token /\ s.loaded = r.loaded
      /\ s.alone = r.alone /\ s.user = u /\ s.modified = m
  BY DEF Request
<1> HIDE DEF s
<1> DEFINE n == ToGet(s)
<1>2. /\ n \in Request /\ n.kind = r.kind /\ n.browser = r.browser
      /\ n.replica = r.replica /\ n.token = r.token /\ n.loaded = r.loaded
      /\ n.alone = r.alone /\ n.user = u /\ n.modified = m
      /\ n.phase = IF u = NoUser THEN "create" ELSE "render"
  BY <1>1 DEF ToGet, Request
<1> HIDE DEF n
<1>3. Handled(n, r) BY <1>2 DEF Handled, Goes
<1> QED BY <1>3 DEF n, s

\* Put and post as instances of ToGetHandled.
LEMMA Fields ==
  ASSUME NEW r \in Request
  PROVE  /\ r = [r EXCEPT !.user = r.user, !.modified = r.modified]
         /\ \A m \in BOOLEAN :
              [r EXCEPT !.modified = m] = [r EXCEPT !.user = r.user, !.modified = m]
BY DEF Request

\* Every handler calls get or ends with a panic.
LEMMA HandlerEffect ==
  ASSUME TypeOK, NEW q \in Requests, Handles(q)
  PROVE  /\ req[q] \in Request
         /\ \E n : Become(q, n) /\ (n = Idle \/ Handled(n, req[q]))
<1>1. req[q] \in Request /\ req[q].phase = "handler"
  BY InFlightKind, Phases DEF Handles, SessionReset, Delete, Post, Put, Handling
<1>2. /\ req[q].user \in AnyUser /\ req[q].modified \in BOOLEAN
      /\ NoUser \in AnyUser /\ (req[q].user # NoUser) \in BOOLEAN
  BY <1>1, RequestFields DEF AnyUser
<1>3. Abort(q) => Become(q, Idle) BY DEF Abort
<1>4. ASSUME Become(q, ToGet(req[q]))
      PROVE  \E n : Become(q, n) /\ Handled(n, req[q])
  <2>1. Handled(ToGet([req[q] EXCEPT !.user = req[q].user,
                                     !.modified = req[q].modified]), req[q])
    BY <1>1, <1>2, ToGetHandled
  <2>2. Handled(ToGet(req[q]), req[q]) BY <1>1, <2>1, Fields
  <2> QED BY <1>4, <2>2
<1>5. CASE SessionReset(q)
  <2> DEFINE n == ToGet([req[q] EXCEPT !.user = NoUser,
                                       !.modified = req[q].user # NoUser])
  <2>1. req[q].kind = "reset" BY <1>5 DEF SessionReset, Handling
  <2>2. Handled(n, req[q]) BY <1>1, <1>2, <2>1, ToGetHandled
  <2>3. Become(q, n) \/ Become(q, Idle) BY <1>3, <1>5 DEF SessionReset
  <2> HIDE DEF n
  <2> QED BY <1>1, <2>2, <2>3
<1>6. CASE Delete(q)
  BY <1>1, <1>3, <1>4, <1>6 DEF Delete
<1>7. CASE Post(q)
  <2>1. PICK added \in BOOLEAN :
          Become(q, ToGet([req[q] EXCEPT !.modified = added]))
    BY <1>7 DEF Post
  <2>2. req[q].kind = "post" BY <1>7 DEF Post, Handling
  <2>3. Handled(ToGet([req[q] EXCEPT !.user = req[q].user,
                                     !.modified = added]), req[q])
    BY <1>1, <1>2, <2>2, ToGetHandled
  <2>4. Handled(ToGet([req[q] EXCEPT !.modified = added]), req[q])
    BY <1>1, <2>3, Fields
  <2> QED BY <1>1, <2>1, <2>4
<1>8. CASE Put(q)
  BY <1>1, <1>4, <1>8 DEF Put
<1> QED BY <1>5, <1>6, <1>7, <1>8 DEF Handles

\* A user nobody had before.
LEMMA CreateEffect ==
  ASSUME TypeOK, NEW q \in Requests, CreateUser(q)
  PROVE  /\ req[q] \in Request /\ req[q].phase = "create"
         /\ UNCHANGED <<sessions, issued, cookie, home>>
         /\ \E u \in Users \ drawn : \E n :
              /\ drawn' = drawn \cup {u} /\ rows' = rows \cup {u}
              /\ req' = [req EXCEPT ![q] = n]
              /\ Goes(n, req[q]) /\ n.phase = "render"
              /\ n.user = u /\ n.modified
<1>1. PICK u \in Users \ drawn :
        /\ drawn' = drawn \cup {u}
        /\ rows' = rows \cup {u}
        /\ req' = [req EXCEPT ![q].user = u, ![q].modified = TRUE,
                              ![q].phase = "render"]
  BY DEF CreateUser
<1>2. req[q] \in Request /\ req[q].phase = "create"
  BY InFlightKind, Phases DEF CreateUser, Creating
<1> DEFINE r == req[q]
           n == [r EXCEPT !.user = u, !.modified = TRUE, !.phase = "render"]
<1>3. req' = [req EXCEPT ![q] = n]
  BY <1>1, <1>2 DEF TypeOK
<1>4. Goes(n, r) /\ n.phase = "render" /\ n.user = u /\ n.modified
  <2> HIDE DEF r
  <2> r \in Request BY <1>2 DEF r
  <2>1. u \in AnyUser BY DEF AnyUser
  <2> QED BY <2>1 DEF Goes, Request
<1> QED BY <1>1, <1>2, <1>3, <1>4 DEF CreateUser

\* The answer q gives when its request is r, with a token t.
LEMMA AnswerEffect ==
  ASSUME TypeOK, NEW q \in Requests, Responds(q)
  PROVE  /\ req[q] \in Request
         /\ req[q].phase \in {"create", "render"}
         /\ UNCHANGED <<rows, drawn, cookie, home>>
         /\ \E t \in TokenFor(req[q]), n \in Response :
              /\ req' = [req EXCEPT ![q] = n]
              /\ n.browser = req[q].browser /\ n.replica = req[q].replica
              /\ n.token = (IF req[q].modified THEN t ELSE NoToken)
              /\ n.user = req[q].user /\ n.alone = req[q].alone
              /\ sessions' = Committed(req[q], t)
              /\ issued' = IF req[q].modified THEN issued \cup {t} ELSE issued
<1>1. /\ req[q] \in Request
      /\ req[q].phase \in {"create", "render"}
      /\ Answer(q, req[q])
  BY InFlightKind, Phases DEF Responds, Respond, CreateUserFails, Creating
<1> DEFINE r == req[q]
           Sent(t) == [phase   |-> "sent",
                       browser |-> r.browser,
                       replica |-> r.replica,
                       token   |-> IF r.modified THEN t ELSE NoToken,
                       user    |-> r.user,
                       alone   |-> r.alone]
<1>2. PICK t \in TokenFor(r) :
        /\ req' = [req EXCEPT ![q] = Sent(t)]
        /\ sessions' = Committed(r, t)
        /\ issued' = IF r.modified THEN issued \cup {t} ELSE issued
  BY <1>1 DEF Answer
<1>3. t \in Tokens \cup {NoToken}
  BY <1>1, RequestFields DEF TokenFor
<1>4. /\ Sent(t) \in Response
      /\ Sent(t).browser = r.browser /\ Sent(t).replica = r.replica
      /\ Sent(t).token = (IF r.modified THEN t ELSE NoToken)
      /\ Sent(t).user = r.user /\ Sent(t).alone = r.alone
  <2> HIDE DEF r
  <2> r \in Request BY <1>1 DEF r
  <2> QED BY <1>3, RequestFields DEF Response
<1>5. UNCHANGED <<rows, drawn, cookie, home>> BY <1>1 DEF Answer
<1> HIDE DEF Sent
<1> QED BY <1>1, <1>2, <1>4, <1>5

\* A panic before the response, a lost answer.
LEMMA EndEffect ==
  ASSUME NEW q \in Requests, Ends(q)
  PROVE  InFlight(q) /\ Become(q, Idle)
BY DEF Ends, RenderPanics, Lose, Abort

LEMMA ReceiveEffect ==
  ASSUME TypeOK, NEW q \in Requests, Receive(q)
  PROVE  /\ req[q] \in Response
         /\ req' = [req EXCEPT ![q] = Idle]
         /\ cookie' = IF req[q].token # NoToken
                      THEN [cookie EXCEPT ![req[q].browser] = req[q].token]
                      ELSE cookie
         /\ UNCHANGED <<rows, drawn, sessions, issued, home>>
BY InFlightKind DEF Receive

\* Requests with the token are not alone any more.
LEMMA ExpireEffect ==
  ASSUME TypeOK, NEW rep \in Replicas, NEW t \in Tokens, Expire(rep, t)
  PROVE  /\ req' \in [Requests -> Request \cup Response \cup {Idle}]
         /\ \A p \in Requests :
              /\ req[p] = Idle => req'[p] = Idle
              /\ req[p] # Idle =>
                   /\ Same(req'[p], req[p])
                   /\ t \in {req[p].token, cookie[req[p].browser]} => ~req'[p].alone
<1>1. ASSUME NEW p \in Requests
      PROVE  /\ req'[p] \in Request \cup Response \cup {Idle}
             /\ req[p] = Idle => req'[p] = Idle
             /\ req[p] # Idle =>
                  /\ Same(req'[p], req[p])
                  /\ t \in {req[p].token, cookie[req[p].browser]} => ~req'[p].alone
  <2>1. CASE InFlight(p) /\ t \in {req[p].token, cookie[req[p].browser]}
    <3>1. req'[p] = [req[p] EXCEPT !.alone = FALSE] BY <2>1 DEF Expire
    <3>2. req[p] \in Request \cup Response /\ req[p] # Idle
      BY <2>1, InFlightKind
    <3> QED BY <3>1, <3>2, AloneOff
  <2>2. CASE ~(InFlight(p) /\ t \in {req[p].token, cookie[req[p].browser]})
    <3>1. req'[p] = req[p] BY <2>2 DEF Expire
    <3> QED BY <2>2, <3>1 DEF Same, TypeOK, InFlight
  <2> QED BY <2>1, <2>2
<1>2. req' = [p \in Requests |-> req'[p]] BY DEF Expire
<1> QED BY <1>1, <1>2

\* Requests at the replica are gone, answers from it are not alone any more.
LEMMA RestartEffect ==
  ASSUME TypeOK, NEW rep \in Replicas, Restart(rep)
  PROVE  /\ req' \in [Requests -> Request \cup Response \cup {Idle}]
         /\ \A p \in Requests :
              /\ req[p] = Idle => req'[p] = Idle
              /\ req[p] # Idle /\ req[p].replica # rep => req'[p] = req[p]
              /\ req[p] \in Request /\ req[p].replica = rep => req'[p] = Idle
              /\ req[p] \in Response /\ req[p].replica = rep =>
                   Same(req'[p], req[p]) /\ ~req'[p].alone
         /\ sessions' = [sessions EXCEPT ![rep] = [t \in Tokens |-> Absent]]
         /\ home' \in [Browsers -> Replicas \cup {Anywhere}]
         /\ \A b \in Browsers :
              /\ home[b] # rep => home'[b] = home[b]
              /\ home[b] = rep => home'[b] \in Replicas
         /\ UNCHANGED <<rows, drawn, issued, cookie>>
<1>1. ASSUME NEW p \in Requests
      PROVE  /\ req'[p] \in Request \cup Response \cup {Idle}
             /\ req[p] = Idle => req'[p] = Idle
             /\ req[p] # Idle /\ req[p].replica # rep => req'[p] = req[p]
             /\ req[p] \in Request /\ req[p].replica = rep => req'[p] = Idle
             /\ req[p] \in Response /\ req[p].replica = rep =>
                  Same(req'[p], req[p]) /\ ~req'[p].alone
  <2>1. CASE ~InFlight(p) \/ req[p].replica # rep
    <3>1. req'[p] = req[p] BY <2>1 DEF Restart
    <3> QED BY <2>1, <3>1, InFlightKind DEF TypeOK
  <2>2. CASE InFlight(p) /\ req[p].replica = rep /\ req[p].phase = "sent"
    <3>1. req'[p] = [req[p] EXCEPT !.alone = FALSE] BY <2>2 DEF Restart
    <3>2. req[p] \in Response /\ req[p] # Idle /\ req[p] \notin Request
      BY <2>2, InFlightKind, Phases
    <3> QED BY <2>2, <3>1, <3>2, AloneOff
  <2>3. CASE InFlight(p) /\ req[p].replica = rep /\ req[p].phase # "sent"
    <3>1. req'[p] = Idle BY <2>3 DEF Restart
    <3>2. req[p] \notin Response BY <2>3, Phases
    <3> QED BY <2>3, <3>1, <3>2
  <2> QED BY <2>1, <2>2, <2>3
<1>2. req' = [p \in Requests |-> req'[p]] BY DEF Restart
<1>3. PICK h \in [Browsers -> Replicas] :
        home' = [b \in Browsers |-> IF home[b] = rep THEN h[b] ELSE home[b]]
  BY DEF Restart
<1>4. home' \in [Browsers -> Replicas \cup {Anywhere}]
  BY <1>3 DEF TypeOK
<1> QED BY <1>1, <1>2, <1>3, <1>4 DEF Restart

-----------------------------------------------------------------------------
(***************************************************************************)
(* Types.  TypeOK is not inductive: a cookie is set to the token of an     *)
(* answer, which must have been drawn.                                     *)
(***************************************************************************)
\* No token is in use that was not drawn.
TokensIssued ==
  /\ \A q \in Requests : InFlight(q) => req[q].token \in issued \cup {NoToken}
  /\ \A rep \in Replicas, t \in Tokens : sessions[rep][t] # Absent => t \in issued

LEMMA TypeInit == Init => TypeOK
BY NamesAssumption DEF Init, TypeOK, AnyUser

\* A token the session of r is written back under.
LEMMA TokenForType ==
  ASSUME TypeOK, NEW r \in Request, NEW t \in TokenFor(r)
  PROVE  /\ r.modified => t \in Tokens
         /\ r.modified /\ r.token = NoToken => t \notin issued
         /\ r.token # NoToken => t = r.token
BY RequestFields DEF TokenFor

LEMMA CommittedType ==
  ASSUME TypeOK, NEW r \in Request, NEW t \in TokenFor(r)
  PROVE  Committed(r, t) \in [Replicas -> [Tokens -> AnyUser \cup {Absent}]]
<1>1. CASE r.modified /\ (r.token = NoToken \/ Known(r.replica, t))
  <2>1. t \in Tokens /\ r.replica \in Replicas /\ r.user \in AnyUser
    BY <1>1, TokenForType, RequestFields
  <2>2. sessions[r.replica] \in [Tokens -> AnyUser \cup {Absent}]
    BY <2>1 DEF TypeOK
  <2>3. Committed(r, t) = [sessions EXCEPT ![r.replica] =
                             [sessions[r.replica] EXCEPT ![t] = r.user]]
    BY <1>1 DEF Committed
  <2> QED BY <2>1, <2>2, <2>3 DEF TypeOK
<1>2. CASE ~(r.modified /\ (r.token = NoToken \/ Known(r.replica, t)))
  BY <1>2 DEF Committed, TypeOK
<1> QED BY <1>1, <1>2

\* The types, action by action.
LEMMA TypeStep == TypeOK /\ TokensIssued /\ [Next]_vars => TypeOK'
<1> SUFFICES ASSUME TypeOK, TokensIssued, [Next]_vars PROVE TypeOK' OBVIOUS
<1>1. ASSUME NEW q \in Requests, NEW b \in Browsers,
             NEW k \in Kinds, Start(q, b, k)
      PROVE  TypeOK'
  <2>1. req' \in [Requests -> Request \cup Response \cup {Idle}]
    BY <1>1, StartEffect
  <2> QED BY <1>1, <2>1 DEF Start, TypeOK
<1>2. ASSUME NEW q \in Requests, Handles(q) PROVE TypeOK'
  <2>1. PICK n : Become(q, n) /\ (n = Idle \/ Handled(n, req[q]))
    BY <1>2, HandlerEffect
  <2>2. n = Idle \/ n \in Request BY <2>1 DEF Handled, Goes
  <2> QED BY <2>1, <2>2 DEF Become, TypeOK
<1>3. ASSUME NEW q \in Requests, CreateUser(q) PROVE TypeOK'
  BY <1>3, CreateEffect DEF Goes, TypeOK
<1>4. ASSUME NEW q \in Requests, Responds(q) PROVE TypeOK'
  <2>1. PICK t \in TokenFor(req[q]), n \in Response :
          /\ req' = [req EXCEPT ![q] = n]
          /\ sessions' = Committed(req[q], t)
          /\ issued' = IF req[q].modified THEN issued \cup {t} ELSE issued
    BY <1>4, AnswerEffect
  <2>2. req[q] \in Request /\ UNCHANGED <<rows, drawn, cookie, home>>
    BY <1>4, AnswerEffect
  <2>3. sessions' \in [Replicas -> [Tokens -> AnyUser \cup {Absent}]]
    BY <2>1, <2>2, CommittedType
  <2>4. issued \subseteq issued' /\ issued' \subseteq Tokens
    BY <2>1, <2>2, TokenForType DEF TypeOK
  <2>5. req' \in [Requests -> Request \cup Response \cup {Idle}]
    BY <2>1 DEF TypeOK
  <2>6. cookie' \in [Browsers -> issued' \cup {NoToken}]
    BY <2>2, <2>4 DEF TypeOK
  <2> QED BY <2>2, <2>3, <2>4, <2>5, <2>6 DEF TypeOK
<1>5. ASSUME NEW q \in Requests, Ends(q) PROVE TypeOK'
  BY <1>5, EndEffect DEF Become, TypeOK
<1>6. ASSUME NEW q \in Requests, Receive(q) PROVE TypeOK'
  <2>1. req[q] \in Response /\ req[q].browser \in Browsers
    BY <1>6, ReceiveEffect, ResponseFields
  <2>2. req[q].token \in issued \cup {NoToken}
    BY <2>1, InFlightKind DEF TokensIssued
  <2>3. cookie' \in [Browsers -> issued \cup {NoToken}]
    BY <1>6, <2>1, <2>2, ReceiveEffect DEF TypeOK
  <2> QED BY <1>6, <2>3, ReceiveEffect DEF TypeOK
<1>7. ASSUME NEW u \in Users, Sweep(u) PROVE TypeOK'
  BY <1>7 DEF Sweep, TypeOK
<1>8. ASSUME NEW rep \in Replicas, NEW t \in Tokens, Expire(rep, t) PROVE TypeOK'
  <2>1. req' \in [Requests -> Request \cup Response \cup {Idle}]
    BY <1>8, ExpireEffect
  <2>2. sessions' = [sessions EXCEPT ![rep] = [sessions[rep] EXCEPT ![t] = Absent]]
    BY <1>8 DEF Expire
  <2>3. sessions[rep] \in [Tokens -> AnyUser \cup {Absent}] BY DEF TypeOK
  <2>4. sessions' \in [Replicas -> [Tokens -> AnyUser \cup {Absent}]]
    BY <2>2, <2>3 DEF TypeOK
  <2> QED BY <1>8, <2>1, <2>4 DEF Expire, TypeOK
<1>9. ASSUME NEW rep \in Replicas, Restart(rep) PROVE TypeOK'
  <2>1. req' \in [Requests -> Request \cup Response \cup {Idle}]
    BY <1>9, RestartEffect
  <2>2. sessions' \in [Replicas -> [Tokens -> AnyUser \cup {Absent}]]
    BY <1>9, RestartEffect DEF TypeOK
  <2> QED BY <1>9, <2>1, <2>2, RestartEffect DEF TypeOK
<1>10. CASE UNCHANGED vars BY <1>10 DEF vars, TypeOK
<1> QED BY <1>1, <1>2, <1>3, <1>4, <1>5, <1>6, <1>7, <1>8, <1>9, <1>10
     DEF Next, HandlerStep, Handles, Ends, Responds, Kinds

-----------------------------------------------------------------------------
\* A step that draws no user and no token: requests go on, become idle or lose
\* their user, and sessions are lost.
Quiet ==
  /\ cookie' = cookie /\ drawn' = drawn /\ issued' = issued
  /\ \A rep \in Replicas, t \in Tokens :
       sessions'[rep][t] = sessions[rep][t] \/ sessions'[rep][t] = Absent
  /\ \A p \in Requests :
       \/ req'[p] = Idle
       \/ /\ req[p] # Idle
          /\ req'[p].browser = req[p].browser /\ req'[p].token = req[p].token
          /\ req'[p].user = req[p].user \/ req'[p].user = NoUser

\* Most actions are quiet.
LEMMA QuietSteps ==
  ASSUME TypeOK
  PROVE  /\ \A q \in Requests : Handles(q) \/ Ends(q) => Quiet
         /\ \A u \in Users : Sweep(u) => Quiet
         /\ \A rep \in Replicas, t \in Tokens : Expire(rep, t) => Quiet
         /\ \A rep \in Replicas : Restart(rep) => Quiet
         /\ UNCHANGED vars => Quiet
<1>1. ASSUME NEW q \in Requests, NEW n, Become(q, n),
             n = Idle \/ (req[q] \in Request /\ Handled(n, req[q]))
      PROVE  Quiet
  <2>1. \A p \in Requests : p # q => req'[p] = req[p]
    BY <1>1 DEF Become, TypeOK
  <2>2. req'[q] = n BY <1>1 DEF Become, TypeOK
  <2> QED BY <1>1, <2>1, <2>2, Phases DEF Quiet, Become, Handled, Goes
<1>2. ASSUME NEW q \in Requests, Handles(q) PROVE Quiet
  BY <1>1, <1>2, HandlerEffect
<1>3. ASSUME NEW q \in Requests, Ends(q) PROVE Quiet
  BY <1>1, <1>3, EndEffect
<1>4. ASSUME NEW u \in Users, Sweep(u) PROVE Quiet
  BY <1>4 DEF Sweep, Quiet
<1>5. ASSUME NEW rep \in Replicas, NEW t \in Tokens, Expire(rep, t) PROVE Quiet
  <2>1. \A s \in Replicas, v \in Tokens :
          sessions'[s][v] = sessions[s][v] \/ sessions'[s][v] = Absent
    BY <1>5 DEF Expire, TypeOK
  <2> QED BY <1>5, <2>1, ExpireEffect DEF Expire, Quiet, Same
<1>6. ASSUME NEW rep \in Replicas, Restart(rep) PROVE Quiet
  <2>1. \A s \in Replicas, v \in Tokens :
          sessions'[s][v] = sessions[s][v] \/ sessions'[s][v] = Absent
    BY <1>6, RestartEffect DEF TypeOK
  <2>2. \A p \in Requests : req[p] \in Request \cup Response \cup {Idle}
    BY DEF TypeOK
  <2> QED BY <1>6, <2>1, <2>2, RestartEffect DEF Quiet, Same
<1>7. ASSUME UNCHANGED vars PROVE Quiet
  BY <1>7 DEF vars, Quiet
<1> QED BY <1>2, <1>3, <1>4, <1>5, <1>6, <1>7

\* The other steps draw a user or a token, hand one on or load a session.
LEMMA Steps ==
  ASSUME TypeOK, [Next]_vars
  PROVE  \/ \E q \in Requests, b \in Browsers, k \in Kinds : Start(q, b, k)
         \/ \E q \in Requests : CreateUser(q)
         \/ \E q \in Requests : Responds(q)
         \/ \E q \in Requests : Receive(q)
         \/ Quiet
<1>1. CASE UNCHANGED vars BY <1>1, QuietSteps
<1>2. CASE \E q \in Requests : HandlerStep(q)
  <2>1. PICK q \in Requests : HandlerStep(q) BY <1>2
  <2>2. Handles(q) \/ Ends(q) \/ CreateUser(q) \/ Responds(q)
    BY <2>1 DEF HandlerStep, Handles, Ends, Responds
  <2> QED BY <2>2, QuietSteps
<1>3. CASE \E q \in Requests : Lose(q) BY <1>3, QuietSteps DEF Ends
<1>4. CASE \E u \in Users : Sweep(u) BY <1>4, QuietSteps
<1>5. CASE \E rep \in Replicas, t \in Tokens : Expire(rep, t) BY <1>5, QuietSteps
<1>6. CASE \E rep \in Replicas : Restart(rep) BY <1>6, QuietSteps
<1> QED BY <1>1, <1>2, <1>3, <1>4, <1>5, <1>6 DEF Next, Kinds

LEMMA IssuedInit == Init => TokensIssued
BY DEF Init, TokensIssued, InFlight

\* How a session is written back.
LEMMA CommittedAt ==
  ASSUME TypeOK, NEW r \in Request, NEW t \in TokenFor(r),
         sessions' = Committed(r, t),
         NEW rep \in Replicas, NEW v \in Tokens
  PROVE  \/ sessions'[rep][v] = sessions[rep][v]
         \/ /\ sessions'[rep][v] = r.user
            /\ r.modified /\ rep = r.replica /\ v = t
            /\ r.token = NoToken \/ (v = r.token /\ Known(rep, v))
<1>1. CASE r.modified /\ (r.token = NoToken \/ Known(r.replica, t))
  <2>1. sessions' = [sessions EXCEPT ![r.replica][t] = r.user]
    BY <1>1 DEF Committed
  <2>2. r.token # NoToken => t = r.token BY TokenForType
  <2> QED BY <1>1, <2>1, <2>2 DEF TypeOK
<1>2. CASE ~(r.modified /\ (r.token = NoToken \/ Known(r.replica, t)))
  BY <1>2 DEF Committed
<1> QED BY <1>1, <1>2

LEMMA IssuedStep == TypeOK /\ TokensIssued /\ [Next]_vars => TokensIssued'
<1> SUFFICES ASSUME TypeOK, TokensIssued, [Next]_vars PROVE TokensIssued' OBVIOUS
<1>1. ASSUME NEW q \in Requests, NEW b \in Browsers,
             NEW k \in Kinds, Start(q, b, k)
      PROVE  TokensIssued'
  <2>1. PICK rep \in Replicas : Started(q, b, k, rep, req'[q])
    BY <1>1, StartEffect
  <2>2. req'[q].token \in issued \cup {NoToken}
    BY <2>1 DEF Started, TypeOK
  <2>3. \A p \in Requests \ {q} :
          req'[p] # Idle => req[p] # Idle /\ req'[p].token = req[p].token
    BY <1>1, StartEffect DEF Same
  <2> QED BY <1>1, <2>2, <2>3 DEF Start, TokensIssued, InFlight
<1>2. ASSUME NEW q \in Requests, CreateUser(q) PROVE TokensIssued'
  <2>1. PICK n : req' = [req EXCEPT ![q] = n] /\ Goes(n, req[q])
    BY <1>2, CreateEffect
  <2>2. req[q] # Idle BY <1>2, CreateEffect, Phases
  <2> QED BY <1>2, <2>1, <2>2, CreateEffect DEF Goes, TokensIssued, InFlight, TypeOK
<1>3. ASSUME NEW q \in Requests, Responds(q)
      PROVE  TokensIssued'
  <2>1. req[q] \in Request BY <1>3, AnswerEffect
  <2>2. PICK t \in TokenFor(req[q]), n \in Response :
          /\ req' = [req EXCEPT ![q] = n]
          /\ n.token = (IF req[q].modified THEN t ELSE NoToken)
          /\ sessions' = Committed(req[q], t)
          /\ issued' = IF req[q].modified THEN issued \cup {t} ELSE issued
    BY <1>3, AnswerEffect
  <2>3. ASSUME NEW rep \in Replicas, NEW v \in Tokens, sessions'[rep][v] # Absent
        PROVE  v \in issued'
    BY <2>1, <2>2, <2>3, CommittedAt DEF TokensIssued
  <2> QED BY <2>2, <2>3 DEF TokensIssued, InFlight, TypeOK
<1>4. ASSUME NEW q \in Requests, Receive(q) PROVE TokensIssued'
  BY <1>4, ReceiveEffect DEF TokensIssued, InFlight, TypeOK
<1>5. CASE Quiet BY <1>5 DEF Quiet, TokensIssued, InFlight
<1> QED
  BY <1>1, <1>2, <1>3, <1>4, <1>5, Steps

-----------------------------------------------------------------------------
(***************************************************************************)
(* Ownership, one token and one user at a time: what a browser has a token *)
(* for, and whom it acts for.  Every step leaves each browser with less or *)
(* with the same, but for CreateUser, which draws a user nobody had, and   *)
(* the answers, which draw a token nobody had.                             *)
(***************************************************************************)
Holds(b, t) ==
  \/ cookie[b] = t
  \/ \E q \in Requests : InFlight(q) /\ req[q].browser = b /\ req[q].token = t

Acts(b, u) ==
  \/ \E q \in Requests : InFlight(q) /\ req[q].browser = b /\ req[q].user = u
  \/ \E rep \in Replicas, t \in Tokens : Holds(b, t) /\ sessions[rep][t] = u

OwnTokens ==
  \A b, c \in Browsers, t \in Tokens : Holds(b, t) /\ Holds(c, t) => b = c

OwnUsers ==
  /\ \A b \in Browsers, u \in Users : Acts(b, u) => u \in drawn
  /\ \A b, c \in Browsers, u \in Users : Acts(b, u) /\ Acts(c, u) => b = c

OwnInv == TypeOK /\ TokensIssued /\ OwnTokens /\ OwnUsers

LEMMA OwnInit == Init => OwnInv
<1> SUFFICES ASSUME Init PROVE OwnInv OBVIOUS
<1>1. TypeOK /\ TokensIssued BY TypeInit, IssuedInit
<1>2. \A b \in Browsers, t \in Tokens : ~Holds(b, t)
  BY NamesAssumption DEF Init, Holds, InFlight
<1>3. \A b \in Browsers, u \in Users : ~Acts(b, u)
  BY <1>2 DEF Init, Acts, InFlight
<1> QED BY <1>1, <1>2, <1>3 DEF OwnInv, OwnTokens, OwnUsers

\* A fresh token is nobody's.
LEMMA HeldIssued ==
  ASSUME TypeOK, TokensIssued, NEW b \in Browsers, NEW t \in Tokens, Holds(b, t)
  PROVE  t \in issued
BY NamesAssumption DEF TypeOK, TokensIssued, Holds

\* A step after which no browser has more than before.
LEMMA OwnShrinks ==
  ASSUME OwnInv, [Next]_vars,
         \A b \in Browsers, t \in Tokens : Holds(b, t)' => Holds(b, t),
         \A b \in Browsers, u \in Users : Acts(b, u)' => Acts(b, u),
         drawn \subseteq drawn'
  PROVE  OwnInv'
<1>1. TypeOK' /\ TokensIssued' BY TypeStep, IssuedStep DEF OwnInv
<1>2. OwnTokens' BY DEF OwnInv, OwnTokens
<1>3. OwnUsers' BY DEF OwnInv, OwnUsers
<1> QED BY <1>1, <1>2, <1>3 DEF OwnInv

\* A session is loaded by a browser that has its token already.
LEMMA OwnStart ==
  ASSUME OwnInv, NEW q \in Requests, NEW b \in Browsers, NEW k \in Kinds,
         Start(q, b, k)
  PROVE  /\ \A c \in Browsers, t \in Tokens : Holds(c, t)' => Holds(c, t)
         /\ \A c \in Browsers, u \in Users : Acts(c, u)' => Acts(c, u)
<1>1. PICK rep \in Replicas : Started(q, b, k, rep, req'[q])
  BY StartEffect DEF OwnInv
<1>2. \A p \in Requests \ {q} :
        InFlight(p)' => /\ InFlight(p) /\ req'[p].browser = req[p].browser
                        /\ req'[p].token = req[p].token
                        /\ req'[p].user = req[p].user
  BY StartEffect DEF OwnInv, Same, InFlight
<1>3. UNCHANGED <<sessions, cookie>> BY DEF Start
<1>4. ASSUME NEW c \in Browsers, NEW t \in Tokens, Holds(c, t)'
      PROVE  Holds(c, t)
  <2>1. CASE cookie'[c] = t BY <1>3, <2>1 DEF Holds
  <2>2. ASSUME NEW p \in Requests, InFlight(p)', req'[p].browser = c,
               req'[p].token = t
        PROVE  Holds(c, t)
    <3>1. CASE p = q BY <1>1, <2>2, <3>1, NamesAssumption DEF Started, Holds
    <3>2. CASE p # q BY <1>2, <2>2, <3>2 DEF Holds
    <3> QED BY <3>1, <3>2
  <2> QED BY <1>4, <2>1, <2>2 DEF Holds
<1>5. ASSUME NEW c \in Browsers, NEW u \in Users, Acts(c, u)'
      PROVE  Acts(c, u)
  <2>1. ASSUME NEW p \in Requests, InFlight(p)', req'[p].browser = c,
               req'[p].user = u
        PROVE  Acts(c, u)
    <3>1. CASE p = q
      <4>1. u = UserOf(rep, cookie[b]) /\ u # NoUser /\ c = b
        BY <1>1, <2>1, <3>1, NamesAssumption DEF Started
      <4>2. Known(rep, cookie[b]) /\ sessions[rep][cookie[b]] = u
        BY <4>1 DEF UserOf
      <4>3. cookie[b] \in Tokens /\ Holds(b, cookie[b])
        BY <4>2 DEF Known, Holds
      <4> QED BY <4>1, <4>2, <4>3 DEF Acts
    <3>2. CASE p # q BY <1>2, <2>1, <3>2 DEF Acts
    <3> QED BY <3>1, <3>2
  <2>2. ASSUME NEW s \in Replicas, NEW t \in Tokens, Holds(c, t)',
               sessions'[s][t] = u
        PROVE  Acts(c, u)
    BY <1>3, <1>4, <2>2 DEF Acts
  <2> QED BY <1>5, <2>1, <2>2 DEF Acts
<1> QED BY <1>4, <1>5

\* A token that arrives was the browser's when it was sent.
LEMMA OwnReceive ==
  ASSUME OwnInv, NEW q \in Requests, Receive(q)
  PROVE  /\ \A c \in Browsers, t \in Tokens : Holds(c, t)' => Holds(c, t)
         /\ \A c \in Browsers, u \in Users : Acts(c, u)' => Acts(c, u)
<1>1. /\ req[q] \in Response /\ InFlight(q) /\ UNCHANGED sessions
      /\ \A p \in Requests : req'[p] = Idle \/ req'[p] = req[p]
      /\ cookie' = IF req[q].token # NoToken
                   THEN [cookie EXCEPT ![req[q].browser] = req[q].token]
                   ELSE cookie
  BY ReceiveEffect, InFlightKind DEF OwnInv, TypeOK
<1>2. ASSUME NEW c \in Browsers, NEW t \in Tokens, Holds(c, t)'
      PROVE  Holds(c, t)
  <2>1. cookie'[c] = cookie[c] \/ (c = req[q].browser /\ cookie'[c] = req[q].token)
    BY <1>1 DEF OwnInv, TypeOK
  <2> QED BY <1>1, <1>2, <2>1 DEF Holds, InFlight
<1>3. ASSUME NEW c \in Browsers, NEW u \in Users, Acts(c, u)'
      PROVE  Acts(c, u)
  BY <1>1, <1>2, <1>3 DEF Acts, InFlight
<1> QED BY <1>2, <1>3

LEMMA OwnQuiet ==
  ASSUME OwnInv, Quiet
  PROVE  /\ \A c \in Browsers, t \in Tokens : Holds(c, t)' => Holds(c, t)
         /\ \A c \in Browsers, u \in Users : Acts(c, u)' => Acts(c, u)
<1>1. ASSUME NEW c \in Browsers, NEW t \in Tokens, Holds(c, t)'
      PROVE  Holds(c, t)
  BY <1>1 DEF Quiet, Holds, InFlight
<1>2. ASSUME NEW c \in Browsers, NEW u \in Users, Acts(c, u)'
      PROVE  Acts(c, u)
  <2>1. ASSUME NEW p \in Requests, InFlight(p)', req'[p].browser = c,
               req'[p].user = u
        PROVE  Acts(c, u)
    BY <2>1, NamesAssumption DEF Quiet, Acts, InFlight
  <2>2. ASSUME NEW s \in Replicas, NEW t \in Tokens, Holds(c, t)',
               sessions'[s][t] = u
        PROVE  Acts(c, u)
    BY <1>1, <2>2, NamesAssumption DEF Quiet, Acts
  <2> QED BY <1>2, <2>1, <2>2 DEF Acts
<1> QED BY <1>1, <1>2

\* An answer hands its browser a token at most, and one nobody has.
LEMMA AnswerHolds ==
  ASSUME OwnInv, NEW q \in Requests, Responds(q),
         NEW c \in Browsers, NEW v \in Tokens, Holds(c, v)'
  PROVE  Holds(c, v) \/ (c = req[q].browser /\ v \notin issued)
<1> DEFINE r == req[q]
<1>1. r \in Request /\ InFlight(q) /\ UNCHANGED cookie
  BY AnswerEffect, InFlightKind DEF OwnInv
<1>2. PICK t \in TokenFor(r), n \in Response :
        /\ req' = [req EXCEPT ![q] = n]
        /\ n.browser = r.browser
        /\ n.token = (IF r.modified THEN t ELSE NoToken)
  BY AnswerEffect DEF OwnInv
<1>3. /\ r.modified /\ r.token = NoToken => t \notin issued
      /\ r.token # NoToken => t = r.token
  BY <1>1, TokenForType DEF OwnInv
<1>4. /\ req'[q] = n
      /\ \A p \in Requests : p # q => req'[p] = req[p]
  BY <1>2 DEF OwnInv, TypeOK
<1>5. CASE cookie'[c] = v BY <1>1, <1>5 DEF Holds
<1>6. ASSUME NEW p \in Requests, InFlight(p)', req'[p].browser = c,
             req'[p].token = v
      PROVE  Holds(c, v) \/ (c = r.browser /\ v \notin issued)
  <2>1. CASE p = q
    <3>1. c = r.browser /\ v = t /\ r.modified
      BY <1>2, <1>4, <1>6, <2>1, NamesAssumption
    <3>2. CASE r.token = NoToken BY <1>3, <3>1, <3>2
    <3>3. CASE r.token # NoToken BY <1>1, <1>3, <3>1, <3>3 DEF Holds
    <3> QED BY <3>2, <3>3
  <2>2. CASE p # q BY <1>4, <1>6, <2>2 DEF Holds, InFlight
  <2> QED BY <2>1, <2>2
<1> QED BY <1>5, <1>6 DEF Holds

\* What it writes back is its user, and only its browser can tell.
LEMMA AnswerSessions ==
  ASSUME OwnInv, NEW q \in Requests, Responds(q),
         NEW c \in Browsers, NEW v \in Tokens, Holds(c, v)',
         NEW s \in Replicas, sessions'[s][v] # sessions[s][v]
  PROVE  /\ c = req[q].browser /\ s = req[q].replica
         /\ sessions'[s][v] = req[q].user /\ req[q].modified
         /\ v \in issued => v = req[q].token /\ Known(s, v)
<1> DEFINE r == req[q]
<1>1. r \in Request /\ InFlight(q) /\ r.browser \in Browsers
  BY AnswerEffect, InFlightKind, RequestFields DEF OwnInv
<1>2. PICK t \in TokenFor(r) : sessions' = Committed(r, t)
  BY AnswerEffect DEF OwnInv
<1>3. /\ sessions'[s][v] = r.user /\ r.modified /\ s = r.replica /\ v = t
      /\ r.token = NoToken \/ (v = r.token /\ Known(s, v))
  BY <1>1, <1>2, CommittedAt DEF OwnInv
<1>4. CASE r.token = NoToken
  <2>1. v \notin issued BY <1>1, <1>3, <1>4, TokenForType DEF OwnInv
  <2>2. c = r.browser BY <2>1, AnswerHolds, HeldIssued DEF OwnInv
  <2> QED BY <1>3, <2>1, <2>2
<1>5. CASE r.token # NoToken
  <2>1. Holds(r.browser, v) BY <1>1, <1>3, <1>5 DEF Holds
  <2>2. v \in issued BY <1>1, <2>1, HeldIssued DEF OwnInv
  <2>3. Holds(c, v) BY <2>2, AnswerHolds
  <2>4. c = r.browser BY <1>1, <2>1, <2>3 DEF OwnInv, OwnTokens
  <2> QED BY <1>3, <1>5, <2>4
<1> QED BY <1>4, <1>5

LEMMA OwnAnswer ==
  ASSUME OwnInv, [Next]_vars, NEW q \in Requests, Responds(q)
  PROVE  OwnInv'
<1> DEFINE r == req[q]
<1>1. r \in Request /\ InFlight(q) /\ UNCHANGED drawn
  BY AnswerEffect, InFlightKind DEF OwnInv
<1>2. PICK n \in Response :
        req' = [req EXCEPT ![q] = n] /\ n.browser = r.browser /\ n.user = r.user
  BY AnswerEffect DEF OwnInv
<1>3. /\ req'[q] = n
      /\ \A p \in Requests : p # q => req'[p] = req[p]
  BY <1>2 DEF OwnInv, TypeOK
<1>4. OwnTokens'
  <2> SUFFICES ASSUME NEW b \in Browsers, NEW c \in Browsers, NEW v \in Tokens,
                      Holds(b, v)', Holds(c, v)'
               PROVE  b = c
    BY DEF OwnTokens
  <2>1. CASE v \in issued BY <2>1, AnswerHolds DEF OwnInv, OwnTokens
  <2>2. CASE v \notin issued BY <2>2, AnswerHolds, HeldIssued DEF OwnInv
  <2> QED BY <2>1, <2>2
<1>5. ASSUME NEW c \in Browsers, NEW u \in Users, Acts(c, u)'
      PROVE  Acts(c, u)
  <2>1. ASSUME NEW p \in Requests, InFlight(p)', req'[p].browser = c,
               req'[p].user = u
        PROVE  Acts(c, u)
    BY <1>1, <1>2, <1>3, <2>1 DEF Acts, InFlight
  <2>2. ASSUME NEW s \in Replicas, NEW v \in Tokens, Holds(c, v)',
               sessions'[s][v] = u
        PROVE  Acts(c, u)
    <3>1. CASE sessions'[s][v] = sessions[s][v]
      <4>1. v \in issued
        BY <2>2, <3>1, NamesAssumption DEF OwnInv, TokensIssued
      <4>2. Holds(c, v) BY <2>2, <4>1, AnswerHolds
      <4> QED BY <2>2, <3>1, <4>2 DEF Acts
    <3>2. CASE sessions'[s][v] # sessions[s][v]
      <4>1. c = r.browser /\ u = r.user BY <2>2, <3>2, AnswerSessions
      <4> QED BY <1>1, <4>1 DEF Acts
    <3> QED BY <3>1, <3>2
  <2> QED BY <1>5, <2>1, <2>2 DEF Acts
<1>6. OwnUsers' BY <1>1, <1>5 DEF OwnInv, OwnUsers
<1> QED BY <1>4, <1>6, TypeStep, IssuedStep DEF OwnInv

\* The user drawn is nobody's, as every user of a browser was drawn before.
LEMMA OwnCreate ==
  ASSUME OwnInv, [Next]_vars, NEW q \in Requests, CreateUser(q)
  PROVE  OwnInv'
<1> DEFINE b == req[q].browser
<1>1. /\ req[q] \in Request /\ InFlight(q) /\ b \in Browsers
      /\ UNCHANGED <<sessions, cookie>>
  BY CreateEffect, InFlightKind, RequestFields DEF OwnInv
<1>2. PICK u, n :
        /\ u \in Users \ drawn
        /\ drawn' = drawn \cup {u}
        /\ req' = [req EXCEPT ![q] = n]
        /\ Goes(n, req[q])
        /\ n.user = u
  BY CreateEffect DEF OwnInv
<1>3. /\ req'[q].browser = b /\ req'[q].token = req[q].token
      /\ req'[q].user = u
      /\ \A p \in Requests : p # q => req'[p] = req[p]
  BY <1>2 DEF OwnInv, TypeOK, Goes
<1>4. ASSUME NEW c \in Browsers, NEW t \in Tokens, Holds(c, t)'
      PROVE  Holds(c, t)
  BY <1>1, <1>3, <1>4 DEF Holds, InFlight
<1>5. ASSUME NEW c \in Browsers, NEW w \in Users, Acts(c, w)'
      PROVE  Acts(c, w) \/ (c = b /\ w = u)
  BY <1>1, <1>3, <1>4, <1>5 DEF Acts, InFlight
<1>6. \A c \in Browsers : ~Acts(c, u) BY <1>2 DEF OwnInv, OwnUsers
<1>7. OwnUsers' BY <1>1, <1>2, <1>5, <1>6 DEF OwnInv, OwnUsers
<1>8. OwnTokens' BY <1>4 DEF OwnInv, OwnTokens
<1> QED BY <1>7, <1>8, TypeStep, IssuedStep DEF OwnInv

LEMMA OwnStep == OwnInv /\ [Next]_vars => OwnInv'
<1> SUFFICES ASSUME OwnInv, [Next]_vars PROVE OwnInv' OBVIOUS
<1>1. ASSUME NEW q \in Requests, NEW b \in Browsers, NEW k \in Kinds, Start(q, b, k)
      PROVE  OwnInv'
  BY <1>1, OwnStart, OwnShrinks DEF Start
<1>2. ASSUME NEW q \in Requests, CreateUser(q) PROVE OwnInv'
  BY <1>2, OwnCreate
<1>3. ASSUME NEW q \in Requests, Responds(q) PROVE OwnInv'
  BY <1>3, OwnAnswer
<1>4. ASSUME NEW q \in Requests, Receive(q) PROVE OwnInv'
  BY <1>4, OwnReceive, OwnShrinks DEF Receive
<1>5. CASE Quiet BY <1>5, OwnQuiet, OwnShrinks DEF Quiet
<1> QED BY <1>1, <1>2, <1>3, <1>4, <1>5, Steps DEF OwnInv

\* The sets of module Todos in these terms.
LEMMA ActsForActs ==
  ASSUME OwnInv, NEW b \in Browsers, NEW u \in ActsFor(b)
  PROVE  u \in Users /\ Acts(b, u)
<1>1. u # NoUser BY DEF ActsFor
<1>2. ASSUME NEW rep \in Replicas, NEW t \in TokensOf(b), u = UserOf(rep, t)
      PROVE  u \in Users /\ Acts(b, u)
  <2>1. Known(rep, t) /\ u = sessions[rep][t] /\ t \in Tokens
    BY <1>1, <1>2 DEF UserOf, Known
  <2>2. Holds(b, t) BY DEF TokensOf, RequestsOf, Holds
  <2>3. u \in AnyUser BY <1>2, UserOfType DEF OwnInv
  <2> QED BY <1>1, <2>1, <2>2, <2>3 DEF Acts, AnyUser
<1>3. ASSUME NEW q \in RequestsOf(b), u = req[q].user
      PROVE  u \in Users /\ Acts(b, u)
  <2>1. q \in Requests /\ InFlight(q) /\ req[q].browser = b
    BY DEF RequestsOf
  <2>2. u \in AnyUser
    BY <1>3, <2>1, InFlightKind, RequestFields, ResponseFields DEF OwnInv
  <2> QED BY <1>1, <1>3, <2>1, <2>2 DEF Acts, AnyUser
<1> QED BY <1>2, <1>3 DEF ActsFor

(***************************************************************************)
(* Every variable stays within its type.                                   *)
(***************************************************************************)
THEOREM TypeCorrect == Spec => []TypeOK
<1>1. OwnInv => TypeOK BY DEF OwnInv
<1> QED BY OwnInit, OwnStep, <1>1, PTL DEF Spec

(***************************************************************************)
(* No two browsers ever act for the same user, whatever requests overlap and*)
(* whatever replicas forget.                                               *)
(***************************************************************************)
THEOREM OwnerCorrect == Spec => []OneOwner
<1>1. OwnInv => OneOwner
  BY ActsForActs DEF OwnInv, OwnUsers, OneOwner
<1> QED BY OwnInit, OwnStep, <1>1, PTL DEF Spec

(***************************************************************************)
(* Nobody acts for a user whose row was never inserted.                    *)
(***************************************************************************)
THEOREM GhostsCorrect == Spec => []NoGhosts
<1>1. OwnInv => NoGhosts
  BY ActsForActs DEF OwnInv, OwnUsers, NoGhosts
<1> QED BY OwnInit, OwnStep, <1>1, PTL DEF Spec

-----------------------------------------------------------------------------
(***************************************************************************)
(* The copies of the sessions.                                             *)
(***************************************************************************)
\* What a request did to its copy so far: a user that was loaded stays unless it
\* is a reset, and a copy is modified to another user, or to the same by post.
Sound(r) ==
  /\ r.phase = "handler" => ~r.modified /\ r.user = r.loaded
  /\ r.phase = "create" => r.user = NoUser
  /\ ~r.modified => r.user = r.loaded
  /\ r.kind # "reset" /\ r.loaded # NoUser => r.user = r.loaded
  /\ r.modified /\ r.user = r.loaded /\ r.user # NoUser => r.kind = "post"

CopyInv ==
  \A q \in Requests :
    req[q] \in Request => Sound(req[q]) /\ req[q].loaded \in drawn \cup {NoUser}

LEMMA CopyInit == Init => CopyInv
BY Phases DEF Init, CopyInv

\* Both say nothing of whether a request is alone.
LEMMA SameSound ==
  ASSUME NEW r, NEW n, Same(n, r), n \in Request, Sound(r)
  PROVE  r \in Request /\ Sound(n) /\ n.loaded = r.loaded
BY DEF Same, Sound

\* A step of requests that stay what they are, but for q.
LEMMA CopyKept ==
  ASSUME TypeOK, CopyInv, NEW q \in Requests, drawn \subseteq drawn',
         \A p \in Requests \ {q} :
           \/ req'[p] = req[p] \/ req'[p] = Idle
           \/ Same(req'[p], req[p]),
         req'[q] \in Request =>
           Sound(req'[q]) /\ req'[q].loaded \in drawn \cup {NoUser}
  PROVE  CopyInv'
<1> SUFFICES ASSUME NEW p \in Requests, req'[p] \in Request
             PROVE  Sound(req'[p]) /\ req'[p].loaded \in drawn' \cup {NoUser}
  BY DEF CopyInv
<1>1. CASE p = q BY <1>1
<1>2. CASE p # q /\ req'[p] = req[p] BY <1>2 DEF CopyInv
<1>3. CASE p # q /\ Same(req'[p], req[p])
  <2>1. req[p] \in Request BY <1>3 DEF Same
  <2> QED BY <1>3, <2>1, SameSound DEF CopyInv
<1> QED BY <1>1, <1>2, <1>3, Phases

\* What the handlers do to their copies, action by action.
LEMMA CopyStep == OwnInv /\ CopyInv /\ [Next]_vars => CopyInv'
<1> SUFFICES ASSUME OwnInv, CopyInv, [Next]_vars PROVE CopyInv' OBVIOUS
<1>0. TypeOK BY DEF OwnInv
<1>1. ASSUME NEW q \in Requests, NEW b \in Browsers, NEW k \in Kinds, Start(q, b, k)
      PROVE  CopyInv'
  <2>1. PICK rep \in Replicas : Started(q, b, k, rep, req'[q])
    BY <1>0, <1>1, StartEffect
  <2>2. \A p \in Requests \ {q} : req'[p] = Idle \/ Same(req'[p], req[p])
    BY <1>0, <1>1, StartEffect
  <2>3. Sound(req'[q]) BY <2>1 DEF Started, Sound
  <2>4. UserOf(rep, cookie[b]) \in drawn \cup {NoUser}
    <3>1. CASE ~Known(rep, cookie[b]) BY <3>1 DEF UserOf
    <3>2. CASE Known(rep, cookie[b])
      <4>1. cookie[b] \in Tokens /\ Holds(b, cookie[b])
        BY <3>2 DEF Known, Holds
      <4>2. sessions[rep][cookie[b]] = UserOf(rep, cookie[b]) BY <3>2 DEF UserOf
      <4>3. UserOf(rep, cookie[b]) \in AnyUser BY <1>0, UserOfType
      <4>4. Acts(b, UserOf(rep, cookie[b])) BY <4>1, <4>2 DEF Acts
      <4> QED BY <4>3, <4>4 DEF OwnInv, OwnUsers, AnyUser
    <3> QED BY <3>1, <3>2
  <2>5. req'[q].loaded \in drawn \cup {NoUser} BY <2>1, <2>4 DEF Started
  <2> QED BY <1>0, <1>1, <2>2, <2>3, <2>5, CopyKept DEF Start
<1>2. ASSUME NEW q \in Requests, NEW n, req' = [req EXCEPT ![q] = n],
             drawn \subseteq drawn',
             n \in Request => Sound(n) /\ n.loaded \in drawn \cup {NoUser}
      PROVE  CopyInv'
  <2>1. req'[q] = n /\ \A p \in Requests \ {q} : req'[p] = req[p]
    BY <1>0, <1>2 DEF TypeOK
  <2> QED BY <1>0, <1>2, <2>1, CopyKept
<1>3. ASSUME NEW q \in Requests, Handles(q) PROVE CopyInv'
  <2>1. req[q] \in Request BY <1>0, <1>3, HandlerEffect
  <2>2. PICK n : Become(q, n) /\ (n = Idle \/ Handled(n, req[q]))
    BY <1>0, <1>3, HandlerEffect
  <2>3. n \in Request => Sound(n) /\ n.loaded \in drawn \cup {NoUser}
    BY <2>1, <2>2, Phases DEF CopyInv, Sound, Handled, Goes
  <2> QED BY <1>2, <2>2, <2>3 DEF Become
<1>4. ASSUME NEW q \in Requests, CreateUser(q) PROVE CopyInv'
  <2>1. req[q] \in Request /\ req[q].phase = "create"
    BY <1>0, <1>4, CreateEffect
  <2>2. PICK u, n :
          /\ u \in Users \ drawn
          /\ drawn' = drawn \cup {u} /\ req' = [req EXCEPT ![q] = n]
          /\ Goes(n, req[q]) /\ n.phase = "render"
          /\ n.user = u /\ n.modified
    BY <1>0, <1>4, CreateEffect
  <2>3. Sound(n) /\ n.loaded \in drawn \cup {NoUser}
    BY <2>1, <2>2, NamesAssumption DEF CopyInv, Sound, Goes
  <2> QED BY <1>2, <2>2, <2>3
<1>5. ASSUME NEW q \in Requests, Responds(q) PROVE CopyInv'
  <2>1. PICK n \in Response : req' = [req EXCEPT ![q] = n]
    BY <1>0, <1>5, AnswerEffect
  <2>2. n \notin Request BY Phases
  <2>3. UNCHANGED drawn BY <1>0, <1>5, AnswerEffect
  <2> QED BY <1>2, <2>1, <2>2, <2>3
<1>6. ASSUME NEW q \in Requests, Ends(q) PROVE CopyInv'
  BY <1>2, <1>6, EndEffect, Phases DEF Become
<1>7. ASSUME NEW q \in Requests, Receive(q) PROVE CopyInv'
  BY <1>2, <1>7, Phases DEF Receive
<1>8. ASSUME NEW u \in Users, Sweep(u) PROVE CopyInv'
  BY <1>8 DEF Sweep, CopyInv
<1>9. ASSUME NEW rep \in Replicas, NEW t \in Tokens, Expire(rep, t) PROVE CopyInv'
  <2> SUFFICES ASSUME NEW q \in Requests, req'[q] \in Request
               PROVE  Sound(req'[q]) /\ req'[q].loaded \in drawn' \cup {NoUser}
    BY DEF CopyInv
  <2>1. Same(req'[q], req[q]) BY <1>0, <1>9, ExpireEffect, Phases
  <2> QED BY <1>9, <2>1, SameSound DEF Same, CopyInv, Expire
<1>10. ASSUME NEW rep \in Replicas, Restart(rep) PROVE CopyInv'
  <2> SUFFICES ASSUME NEW q \in Requests, req'[q] \in Request
               PROVE  Sound(req'[q]) /\ req'[q].loaded \in drawn' \cup {NoUser}
    BY DEF CopyInv
  <2>1. req'[q] = req[q]
    <3>1. req[q] \in Request \cup Response \cup {Idle} BY <1>0 DEF TypeOK
    <3>2. req[q] \in Response /\ req[q].replica = rep => req'[q] \notin Request
      BY <1>0, <1>10, RestartEffect, Phases DEF Same
    <3> QED BY <1>0, <1>10, <3>1, <3>2, RestartEffect, Phases
  <2> QED BY <1>0, <1>10, <2>1, RestartEffect DEF CopyInv
<1>11. CASE UNCHANGED vars BY <1>11 DEF vars, CopyInv
<1> QED
  BY <1>1, <1>3, <1>4, <1>5, <1>6, <1>7, <1>8, <1>9, <1>10, <1>11
     DEF Next, HandlerStep, Handles, Ends, Responds, Kinds

-----------------------------------------------------------------------------
(***************************************************************************)
(* Requests that nothing interfered with.                                  *)
(***************************************************************************)
\* No other request of the browser, and no expiry, since the copy was made.
Lone(q) == InFlight(q) /\ req[q].alone

\* Its copy is of the session its browser's cookie names, and its answer of the
\* session the cookie will name.
LoneAt(q) ==
  LET r == req[q]
      c == cookie[r.browser]
  IN  /\ \A p \in Requests : InFlight(p) /\ req[p].browser = r.browser => p = q
      /\ r \in Request =>
           /\ r.token = (IF Known(r.replica, c) THEN c ELSE NoToken)
           /\ r.loaded = UserOf(r.replica, c)
      /\ r \in Response =>
           /\ r.token = NoToken => r.user = UserOf(r.replica, c)
           /\ r.token # NoToken =>
                /\ r.user = UserOf(r.replica, r.token)
                /\ r.token = c \/ ~Known(r.replica, c)

LoneInv == \A q \in Requests : Lone(q) => LoneAt(q)

LEMMA LoneInit == Init => LoneInv
BY DEF Init, LoneInv, Lone, InFlight

\* A step elsewhere.
LEMMA Undisturbed ==
  ASSUME OwnInv, LoneInv, NEW q \in Requests, Lone(q), Same(req'[q], req[q]),
         cookie'[req[q].browser] = cookie[req[q].browser],
         \A v \in Tokens : v \in {cookie[req[q].browser], req[q].token} =>
           sessions'[req[q].replica][v] = sessions[req[q].replica][v],
         \A p \in Requests \ {q} :
           InFlight(p)' /\ req'[p].browser = req[q].browser =>
             InFlight(p) /\ req[p].browser = req[q].browser
  PROVE  LoneAt(q)'
<1>0. PICK r, n, c : r = req[q] /\ n = req'[q] /\ c = cookie[r.browser]
  OBVIOUS
<1>1. LoneAt(q) BY DEF LoneInv
<1>2. /\ n.browser = r.browser /\ n.replica = r.replica /\ n.token = r.token
      /\ n.user = r.user
      /\ n \in Request => r \in Request /\ n.loaded = r.loaded
      /\ n \in Response => r \in Response
      /\ cookie'[n.browser] = c
  BY <1>0 DEF Same
<1>3. ASSUME NEW v, v \in {c, r.token}
      PROVE  /\ Known(r.replica, v)' <=> Known(r.replica, v)
             /\ UserOf(r.replica, v)' = UserOf(r.replica, v)
  BY <1>0, <1>3 DEF Known, UserOf
<1>4. \A p \in Requests : InFlight(p)' /\ req'[p].browser = n.browser => p = q
  BY <1>0, <1>1, <1>2 DEF LoneAt
<1>5. n \in Request =>
        /\ n.token = (IF Known(n.replica, c)' THEN c ELSE NoToken)
        /\ n.loaded = UserOf(n.replica, c)'
  BY <1>0, <1>1, <1>2, <1>3 DEF LoneAt
<1>6. n \in Response =>
        /\ n.token = NoToken => n.user = UserOf(n.replica, c)'
        /\ n.token # NoToken =>
             /\ n.user = UserOf(n.replica, n.token)'
             /\ n.token = c \/ ~Known(n.replica, c)'
  BY <1>0, <1>1, <1>2, <1>3 DEF LoneAt
<1>7. req'[q] = n /\ cookie'[req'[q].browser] = c BY <1>0, <1>2
<1> QED BY <1>4, <1>5, <1>6, <1>7 DEF LoneAt, Known, UserOf

\* Where a slot stays what it is, it is still what it was.
LEMMA SameItself ==
  ASSUME TypeOK, NEW p \in Requests, req'[p] = req[p]
  PROVE  Same(req'[p], req[p])
BY DEF Same

\* A request that starts alone has just read the session.
LEMMA LoneStart ==
  ASSUME OwnInv, LoneInv, NEW q \in Requests, NEW b \in Browsers, NEW k \in Kinds,
         Start(q, b, k)
  PROVE  LoneInv'
<1>1. PICK rep \in Replicas : Started(q, b, k, rep, req'[q])
  BY StartEffect DEF OwnInv
<1>2. \A p \in Requests \ {q} :
        req'[p] # Idle =>
          /\ req[p] # Idle /\ Same(req'[p], req[p])
          /\ req[p].browser = b => ~req'[p].alone
  BY StartEffect DEF OwnInv
<1>3. UNCHANGED <<sessions, cookie>> BY DEF Start
<1>4. ASSUME Lone(q)' PROVE LoneAt(q)'
  <2>1. PICK n : n = req'[q] OBVIOUS
  <2>2. \A p \in Requests \ {q} : req'[p] # Idle => req'[p].browser # b
    BY <1>1, <1>2, <1>4, <2>1 DEF Started, Lone, InFlight, Same
  <2>3. /\ n \in Request /\ n \notin Response /\ n.browser = b
        /\ n.token = (IF Known(n.replica, cookie[b]) THEN cookie[b] ELSE NoToken)
        /\ n.loaded = UserOf(n.replica, cookie[b])
    BY <1>1, <2>1, Phases DEF Started
  <2> QED BY <1>3, <2>1, <2>2, <2>3 DEF LoneAt, Known, UserOf, InFlight
<1>5. ASSUME NEW p \in Requests \ {q}, Lone(p)' PROVE LoneAt(p)'
  <2>1. /\ req[p] # Idle /\ Same(req'[p], req[p]) /\ req'[p].alone
        /\ req[p].browser # b
    BY <1>2, <1>5 DEF Lone, InFlight
  <2>2. Lone(p) BY <2>1 DEF Lone, InFlight, Same
  <2>3. ASSUME NEW s \in Requests \ {p}, InFlight(s)', req'[s].browser = req[p].browser
        PROVE  InFlight(s) /\ req[s].browser = req[p].browser
    BY <1>1, <1>2, <2>1, <2>3 DEF Started, Same, InFlight
  <2> QED BY <1>3, <2>1, <2>2, <2>3, Undisturbed
<1> QED BY <1>4, <1>5 DEF LoneInv

\* Requests that go on or end.
LEMMA LoneMoves ==
  ASSUME OwnInv, LoneInv, NEW q \in Requests, NEW n,
         req' = [req EXCEPT ![q] = n], UNCHANGED <<sessions, cookie>>,
         req[q] \in Request, n = Idle \/ Goes(n, req[q])
  PROVE  LoneInv'
<1>1. req'[q] = n /\ \A p \in Requests : p # q => req'[p] = req[p]
  BY DEF OwnInv, TypeOK
<1>2. InFlight(q) BY Phases DEF InFlight
<1>3. ASSUME Lone(q)' PROVE LoneAt(q)'
  <2>1. /\ n \in Request /\ n.browser = req[q].browser /\ n.replica = req[q].replica
        /\ n.token = req[q].token /\ n.loaded = req[q].loaded /\ n.alone
        /\ req[q].alone
    BY <1>1, <1>3 DEF Lone, InFlight, Goes
  <2>2. LoneAt(q) BY <1>2, <2>1 DEF LoneInv, Lone
  <2>3. \A p \in Requests : InFlight(p)' /\ req'[p].browser = n.browser => p = q
    BY <1>1, <2>1, <2>2 DEF LoneAt, InFlight
  <2>4. n \notin Response BY <2>1, Phases
  <2> QED BY <1>1, <2>1, <2>2, <2>3, <2>4 DEF LoneAt, Known, UserOf
<1>4. ASSUME NEW p \in Requests, p # q, Lone(p)' PROVE LoneAt(p)'
  <2>1. Lone(p) BY <1>1, <1>4 DEF Lone, InFlight
  <2>2. \A s \in Requests : InFlight(s)' => InFlight(s) /\ req'[s].browser = req[s].browser
    BY <1>1, <1>2 DEF InFlight, Goes
  <2>3. Same(req'[p], req[p]) BY <1>1, <1>4, SameItself DEF OwnInv
  <2> QED BY <2>1, <2>2, <2>3, Undisturbed
<1> QED BY <1>3, <1>4 DEF LoneInv

\* The answer names the session as it is written back; another browser's token
\* is not touched.
LEMMA LoneAnswer ==
  ASSUME OwnInv, CopyInv, LoneInv, NEW q \in Requests, Responds(q)
  PROVE  LoneInv'
<1>0. PICK r, c : r = req[q] /\ c = cookie[r.browser] OBVIOUS
<1>1. r \in Request /\ InFlight(q) /\ UNCHANGED cookie
  BY <1>0, AnswerEffect, InFlightKind DEF OwnInv
<1>2. PICK t \in TokenFor(r), n \in Response :
        /\ req' = [req EXCEPT ![q] = n]
        /\ n.browser = r.browser /\ n.replica = r.replica
        /\ n.token = (IF r.modified THEN t ELSE NoToken)
        /\ n.user = r.user /\ n.alone = r.alone
        /\ sessions' = Committed(r, t)
  BY <1>0, AnswerEffect DEF OwnInv
<1>3. /\ r.modified => t \in Tokens
      /\ r.modified /\ r.token = NoToken => t \notin issued
      /\ r.token # NoToken => t = r.token
  BY <1>1, TokenForType DEF OwnInv
<1>4. req'[q] = n /\ \A p \in Requests : p # q => req'[p] = req[p]
  BY <1>2 DEF OwnInv, TypeOK
<1>5. r.browser \in Browsers /\ r.replica \in Replicas /\ r.user \in AnyUser
  BY <1>1, RequestFields
<1>6. c \in issued \cup {NoToken} BY <1>0, <1>5 DEF OwnInv, TypeOK
<1>7. ASSUME Lone(q)' PROVE LoneAt(q)'
  <2>1. n.alone /\ r.alone BY <1>2, <1>4, <1>7 DEF Lone
  <2>2. LoneAt(q) BY <1>0, <1>1, <2>1 DEF LoneInv, Lone
  <2>3. \A p \in Requests : InFlight(p)' /\ req'[p].browser = n.browser => p = q
    BY <1>0, <1>2, <1>4, <2>2 DEF LoneAt, InFlight
  <2>4. /\ r.token = (IF Known(r.replica, c) THEN c ELSE NoToken)
        /\ r.loaded = UserOf(r.replica, c)
    BY <1>0, <1>1, <2>2 DEF LoneAt
  <2>5. n \notin Request BY Phases
  <2>6. /\ n.token = NoToken => n.user = UserOf(n.replica, c)'
        /\ n.token # NoToken =>
             /\ n.user = UserOf(n.replica, n.token)'
             /\ n.token = c \/ ~Known(n.replica, c)'
    <3>1. CASE ~r.modified
      <4>1. sessions' = sessions BY <1>2, <3>1 DEF Committed
      <4>2. r.user = r.loaded BY <1>0, <1>1, <3>1 DEF CopyInv, Sound
      <4> QED BY <1>2, <2>4, <3>1, <4>1, <4>2 DEF UserOf, Known
    <3>2. CASE r.modified
      <4>1. n.token = t /\ t \in Tokens /\ t # NoToken
        BY <1>2, <1>3, <3>2, NamesAssumption
      <4>2. r.token # NoToken => t = c /\ Known(r.replica, c)
        BY <1>3, <2>4
      <4>3. sessions' = [sessions EXCEPT ![r.replica][t] = r.user]
        BY <1>2, <3>2, <4>2 DEF Committed
      <4>4. sessions'[r.replica][t] = r.user
        BY <1>5, <4>1, <4>3 DEF OwnInv, TypeOK
      <4>5. n.user = UserOf(n.replica, n.token)'
        BY <1>2, <1>5, <4>1, <4>4, NamesAssumption DEF UserOf, Known, AnyUser
      <4>6. CASE r.token = NoToken
        <5>1. ~Known(r.replica, c)
          BY <2>4, <4>6, NamesAssumption DEF Known
        <5>2. c # t BY <1>3, <1>6, <3>2, <4>1, <4>6
        <5>3. sessions'[r.replica][c] = sessions[r.replica][c]
          BY <1>5, <4>1, <4>3, <5>2 DEF OwnInv, TypeOK
        <5> QED BY <1>2, <4>1, <4>5, <5>1, <5>3 DEF Known
      <4> QED BY <4>1, <4>2, <4>5, <4>6
    <3> QED BY <3>1, <3>2
  <2>7. cookie'[req'[q].browser] = c BY <1>0, <1>1, <1>2, <1>4
  <2> QED BY <1>4, <2>3, <2>5, <2>6, <2>7 DEF LoneAt, UserOf, Known
<1>8. ASSUME NEW p \in Requests, p # q, Lone(p)' PROVE LoneAt(p)'
  <2>1. Lone(p) BY <1>4, <1>8 DEF Lone, InFlight
  <2>2. req[p].browser \in Browsers /\ req[p].replica \in Replicas
    BY <2>1, InFlightKind, RequestFields, ResponseFields DEF Lone, OwnInv
  <2>3. req[p].browser # req[q].browser
    BY <1>1, <1>8, <2>1 DEF LoneInv, LoneAt
  <2>4. ASSUME NEW v \in Tokens, v \in {cookie[req[p].browser], req[p].token}
        PROVE  sessions'[req[p].replica][v] = sessions[req[p].replica][v]
    <3>1. PICK b \in Browsers, s \in Replicas :
            b = req[p].browser /\ s = req[p].replica
      BY <2>2
    <3>2. Holds(b, v)'
      BY <1>1, <1>4, <1>8, <2>1, <2>4, <3>1 DEF Holds, Lone, InFlight
    <3>3. sessions'[s][v] # sessions[s][v] => b = req[q].browser
      BY <3>2, AnswerSessions
    <3> QED BY <2>3, <3>1, <3>3
  <2>5. \A s \in Requests : InFlight(s)' => InFlight(s) /\ req'[s].browser = req[s].browser
    BY <1>0, <1>1, <1>2, <1>4 DEF InFlight
  <2>6. Same(req'[p], req[p]) BY <1>4, <1>8, SameItself DEF OwnInv
  <2> QED BY <1>1, <2>1, <2>4, <2>5, <2>6, Undisturbed
<1> QED BY <1>7, <1>8 DEF LoneInv

\* Requests that are alone, action by action.
LEMMA LoneStep == OwnInv /\ CopyInv /\ LoneInv /\ [Next]_vars => LoneInv'
<1> SUFFICES ASSUME OwnInv, CopyInv, LoneInv, [Next]_vars PROVE LoneInv' OBVIOUS
<1>0. TypeOK BY DEF OwnInv
<1>1. ASSUME NEW q \in Requests, NEW b \in Browsers, NEW k \in Kinds, Start(q, b, k)
      PROVE  LoneInv'
  BY <1>1, LoneStart
<1>2. ASSUME NEW q \in Requests, Handles(q) PROVE LoneInv'
  BY <1>0, <1>2, HandlerEffect, LoneMoves DEF Handled, Become
<1>3. ASSUME NEW q \in Requests, CreateUser(q) PROVE LoneInv'
  BY <1>0, <1>3, CreateEffect, LoneMoves
<1>4. ASSUME NEW q \in Requests, Responds(q) PROVE LoneInv'
  BY <1>4, LoneAnswer
\* Nothing changes but that requests are gone or not alone any more.
<1>5. ASSUME cookie' = cookie,
             \A q \in Requests :
               req'[q] # Idle => req[q] # Idle /\ Same(req'[q], req[q]),
             \A q \in Requests : Lone(q)' =>
               \A v \in Tokens : v \in {cookie[req[q].browser], req[q].token} =>
                 sessions'[req[q].replica][v] = sessions[req[q].replica][v]
      PROVE  LoneInv'
  <2> SUFFICES ASSUME NEW q \in Requests, Lone(q)' PROVE LoneAt(q)'
    BY DEF LoneInv
  <2>1. Lone(q) /\ Same(req'[q], req[q])
    BY <1>5 DEF Lone, InFlight, Same
  <2>2. \A p \in Requests : InFlight(p)' => InFlight(p) /\ req'[p].browser = req[p].browser
    BY <1>5 DEF InFlight, Same
  <2> QED BY <1>5, <2>1, <2>2, Undisturbed
<1>6. ASSUME NEW q \in Requests, Ends(q) PROVE LoneInv'
  <2>1. /\ UNCHANGED <<sessions, cookie>>
        /\ \A p \in Requests : req'[p] = Idle \/ req'[p] = req[p]
    BY <1>0, <1>6, EndEffect DEF Become, TypeOK
  <2> QED BY <1>0, <1>5, <2>1, SameItself
<1>7. ASSUME NEW q \in Requests, Receive(q) PROVE LoneInv'
  <2>1. /\ req[q] \in Response /\ InFlight(q) /\ UNCHANGED sessions
        /\ req'[q] = Idle
        /\ \A p \in Requests : p # q => req'[p] = req[p]
        /\ cookie' = IF req[q].token # NoToken
                     THEN [cookie EXCEPT ![req[q].browser] = req[q].token]
                     ELSE cookie
    BY <1>0, <1>7, ReceiveEffect, InFlightKind DEF TypeOK
  <2> SUFFICES ASSUME NEW p \in Requests, Lone(p)' PROVE LoneAt(p)'
    BY DEF LoneInv
  <2>2. p # q /\ Lone(p) BY <2>1 DEF Lone, InFlight
  <2>3. req[p].browser # req[q].browser
    BY <2>1, <2>2 DEF LoneInv, LoneAt
  <2>4. req[p].browser \in Browsers
    BY <1>0, <2>2, InFlightKind, RequestFields, ResponseFields DEF Lone
  <2>5. cookie'[req[p].browser] = cookie[req[p].browser]
    BY <1>0, <2>1, <2>3, <2>4 DEF TypeOK
  <2>6. \A s \in Requests : InFlight(s)' => req'[s] = req[s] /\ InFlight(s)
    BY <2>1 DEF InFlight
  <2>7. Same(req'[p], req[p]) BY <1>0, <2>1, <2>2, SameItself
  <2> QED BY <2>1, <2>2, <2>5, <2>6, <2>7, Undisturbed
<1>8. ASSUME NEW u \in Users, Sweep(u) PROVE LoneInv'
  BY <1>0, <1>5, <1>8, SameItself DEF Sweep
<1>9. ASSUME NEW rep \in Replicas, NEW t \in Tokens, Expire(rep, t) PROVE LoneInv'
  <2>1. ASSUME NEW q \in Requests, Lone(q)',
               NEW v \in Tokens, v \in {cookie[req[q].browser], req[q].token}
        PROVE  sessions'[req[q].replica][v] = sessions[req[q].replica][v]
    <3>1. t \notin {req[q].token, cookie[req[q].browser]}
      BY <1>0, <1>9, <2>1, ExpireEffect DEF Lone, InFlight
    <3>2. v # t BY <2>1, <3>1
    <3>3. \A s \in Replicas : sessions'[s][v] = sessions[s][v]
      BY <1>0, <1>9, <3>2 DEF Expire, TypeOK
    <3>4. req[q] # Idle BY <1>0, <1>9, <2>1, ExpireEffect DEF Lone, InFlight
    <3>5. req[q].replica \in Replicas
      BY <1>0, <3>4, InFlightKind, RequestFields, ResponseFields
    <3> QED BY <3>3, <3>5
  <2>2. \A q \in Requests :
          req'[q] # Idle => req[q] # Idle /\ Same(req'[q], req[q])
    BY <1>0, <1>9, ExpireEffect
  <2>3. UNCHANGED cookie BY <1>9 DEF Expire
  <2> QED BY <1>5, <2>1, <2>2, <2>3
<1>10. ASSUME NEW rep \in Replicas, Restart(rep) PROVE LoneInv'
  <2>1. ASSUME NEW q \in Requests, req'[q] # Idle
        PROVE  /\ req[q] # Idle /\ Same(req'[q], req[q])
               /\ req'[q].alone => req[q].replica # rep
    <3>1. req[q] \in Request \cup Response
      BY <1>0, <1>10, <2>1, RestartEffect DEF TypeOK
    <3>2. CASE req[q].replica # rep
      BY <1>0, <1>10, <3>1, <3>2, RestartEffect, SameItself, Phases
    <3>3. CASE req[q].replica = rep
      BY <1>0, <1>10, <2>1, <3>1, <3>3, RestartEffect, Phases
    <3> QED BY <3>2, <3>3
  <2>2. ASSUME NEW q \in Requests, Lone(q)'
        PROVE  \A v \in Tokens :
                 sessions'[req[q].replica][v] = sessions[req[q].replica][v]
    <3>1. req[q].replica # rep /\ req[q] # Idle
      BY <2>1, <2>2 DEF Lone, InFlight
    <3>2. req[q].replica \in Replicas
      BY <1>0, <3>1, InFlightKind, RequestFields, ResponseFields
    <3> QED BY <1>0, <1>10, <3>1, <3>2, RestartEffect DEF TypeOK
  <2>3. UNCHANGED cookie BY <1>10 DEF Restart
  <2> QED BY <1>5, <2>1, <2>2, <2>3
<1>11. CASE UNCHANGED vars BY <1>0, <1>5, <1>11, SameItself DEF vars
<1> QED
  BY <1>1, <1>2, <1>3, <1>4, <1>6, <1>7, <1>8, <1>9, <1>10, <1>11
     DEF Next, HandlerStep, Handles, Ends, Responds, Kinds

-----------------------------------------------------------------------------
(***************************************************************************)
(* The sticky cookie: what a browser has is at home.                       *)
(***************************************************************************)
HomeTokens ==
  \A b \in Browsers, rep \in Replicas, t \in Tokens :
    home[b] # Anywhere /\ Holds(b, t) /\ Known(rep, t) => rep = home[b]

\* An answer may come from a replica that was restarted, but it is not alone then.
HomeRequests ==
  \A q \in Requests :
    InFlight(q) /\ (Working(q) \/ req[q].alone) /\ home[req[q].browser] # Anywhere =>
      req[q].replica = home[req[q].browser]

HomeInv == HomeTokens /\ HomeRequests

LEMMA HomeInit == Init => HomeInv
BY DEF Init, HomeInv, HomeTokens, HomeRequests, InFlight, Known

\* Steps that leave the homes alone, and take no session to another replica.
LEMMA HomeKept ==
  ASSUME TypeOK, HomeInv, home' = home,
         \A b \in Browsers, t \in Tokens : Holds(b, t)' => Holds(b, t),
         \A rep \in Replicas, t \in Tokens : Known(rep, t)' => Known(rep, t),
         \A q \in Requests : InFlight(q)' /\ (Working(q)' \/ req'[q].alone) =>
           \/ /\ InFlight(q) /\ (Working(q) \/ req[q].alone)
              /\ req'[q].browser = req[q].browser
              /\ req'[q].replica = req[q].replica
           \/ home[req'[q].browser] \in {Anywhere, req'[q].replica}
  PROVE  HomeInv'
<1>1. HomeTokens' BY DEF HomeInv, HomeTokens
<1>2. HomeRequests' BY DEF HomeInv, HomeRequests
<1> QED BY <1>1, <1>2 DEF HomeInv

\* A session is written where its request was routed.
LEMMA HomeAnswer ==
  ASSUME OwnInv, HomeInv, NEW q \in Requests, Responds(q)
  PROVE  HomeInv'
<1>1. /\ req[q] \in Request /\ Working(q) /\ InFlight(q) /\ home' = home
      /\ req[q].browser \in Browsers
  BY AnswerEffect, InFlightKind, RequestFields DEF OwnInv
<1>2. PICK n \in Response :
        /\ req' = [req EXCEPT ![q] = n]
        /\ n.browser = req[q].browser /\ n.replica = req[q].replica
  BY AnswerEffect DEF OwnInv
<1>3. req'[q] = n /\ \A p \in Requests : p # q => req'[p] = req[p]
  BY <1>2 DEF OwnInv, TypeOK
<1>4. HomeTokens'
  <2> SUFFICES ASSUME NEW b \in Browsers, NEW rep \in Replicas, NEW t \in Tokens,
                      home[b] # Anywhere, Holds(b, t)', Known(rep, t)'
               PROVE  rep = home[b]
    BY <1>1 DEF HomeTokens
  <2>1. CASE sessions'[rep][t] = sessions[rep][t]
    <3>1. Known(rep, t) BY <2>1 DEF Known
    <3>2. t \in issued BY <3>1 DEF Known, OwnInv, TokensIssued
    <3>3. Holds(b, t) BY <3>2, AnswerHolds
    <3> QED BY <3>1, <3>3 DEF HomeInv, HomeTokens
  <2>2. CASE sessions'[rep][t] # sessions[rep][t]
    <3>1. b = req[q].browser /\ rep = req[q].replica BY <2>2, AnswerSessions
    <3> QED BY <1>1, <3>1 DEF HomeInv, HomeRequests
  <2> QED BY <2>1, <2>2
<1>5. HomeRequests'
  <2> SUFFICES ASSUME NEW p \in Requests, InFlight(p)',
                      Working(p)' \/ req'[p].alone,
                      home[req'[p].browser] # Anywhere
               PROVE  req'[p].replica = home[req'[p].browser]
    BY <1>1 DEF HomeRequests
  <2>1. CASE p = q BY <1>1, <1>2, <1>3, <2>1 DEF HomeInv, HomeRequests
  <2>2. CASE p # q
    BY <1>3, <2>2 DEF HomeInv, HomeRequests, Working, InFlight
  <2> QED BY <2>1, <2>2
<1> QED BY <1>4, <1>5 DEF HomeInv

\* A browser that gets a new home has no session left at the old one.
LEMMA HomeRestart ==
  ASSUME OwnInv, HomeInv, NEW rep \in Replicas, Restart(rep)
  PROVE  HomeInv'
<1>0. TypeOK BY DEF OwnInv
<1>1. /\ UNCHANGED cookie
      /\ \A b \in Browsers :
           \/ home[b] # rep /\ home'[b] = home[b]
           \/ home[b] = rep /\ home'[b] \in Replicas
  BY <1>0, RestartEffect
<1>2. \A s \in Replicas, t \in Tokens : Known(s, t)' => s # rep /\ Known(s, t)
  BY <1>0, RestartEffect DEF TypeOK, Known
<1>3. ASSUME NEW p \in Requests, InFlight(p)'
      PROVE  /\ InFlight(p) /\ req[p].browser \in Browsers
             /\ req'[p].browser = req[p].browser
             /\ req'[p].replica = req[p].replica /\ req'[p].token = req[p].token
             /\ Working(p)' \/ req'[p].alone =>
                  req[p].replica # rep /\ (Working(p) \/ req[p].alone)
  <2>1. req[p] \in Request \cup Response
    BY <1>0, <1>3, RestartEffect DEF TypeOK, InFlight
  <2>2. InFlight(p) /\ req[p].browser \in Browsers
    BY <1>0, <2>1, InFlightKind, RequestFields, ResponseFields
  <2>3. CASE req[p].replica # rep
    <3>1. req'[p] = req[p] BY <1>0, <2>1, <2>3, RestartEffect, Phases
    <3> QED BY <2>2, <2>3, <3>1 DEF Working, InFlight
  <2>4. CASE req[p].replica = rep
    <3>1. /\ req[p] \in Response /\ Same(req'[p], req[p]) /\ ~req'[p].alone
      BY <1>0, <1>3, <2>1, <2>4, RestartEffect DEF InFlight
    <3>2. req'[p].phase = "sent" BY <3>1, Phases DEF Same
    <3> QED BY <2>2, <3>1, <3>2 DEF Same, Working
  <2> QED BY <2>3, <2>4
<1>4. \A b \in Browsers, t \in Tokens : Holds(b, t)' => Holds(b, t)
  BY <1>1, <1>3 DEF Holds
<1>5. HomeTokens'
  BY <1>1, <1>2, <1>4, NamesAssumption DEF HomeInv, HomeTokens
<1>6. HomeRequests'
  BY <1>1, <1>3, NamesAssumption DEF HomeInv, HomeRequests
<1> QED BY <1>5, <1>6 DEF HomeInv

\* The homes, action by action.
LEMMA HomeStep == OwnInv /\ HomeInv /\ [Next]_vars => HomeInv'
<1> SUFFICES ASSUME OwnInv, HomeInv, [Next]_vars PROVE HomeInv' OBVIOUS
<1>0. TypeOK BY DEF OwnInv
<1>1. ASSUME NEW q \in Requests, NEW b \in Browsers, NEW k \in Kinds, Start(q, b, k)
      PROVE  HomeInv'
  <2>1. PICK rep \in Replicas : Started(q, b, k, rep, req'[q])
    BY <1>0, <1>1, StartEffect
  <2>2. home[b] \in {Anywhere, rep} BY <2>1 DEF Started, Route
  <2>3. ASSUME NEW p \in Requests, p # q, InFlight(p)'
        PROVE  /\ InFlight(p) /\ req'[p].browser = req[p].browser
               /\ req'[p].replica = req[p].replica
               /\ Working(p)' \/ req'[p].alone => Working(p) \/ req[p].alone
    BY <1>0, <1>1, <2>3, StartEffect DEF InFlight, Working, Same
  <2>4. UNCHANGED <<home, sessions>> BY <1>1 DEF Start
  <2>5. req'[q].browser = b /\ req'[q].replica = rep BY <2>1 DEF Started
  <2> QED BY <1>0, <1>1, <2>2, <2>3, <2>4, <2>5, OwnStart, HomeKept DEF Known
\* Nothing but requests changes, and the tokens they have do not.
<1>2. ASSUME NEW q \in Requests, NEW n, req' = [req EXCEPT ![q] = n],
             UNCHANGED <<home, sessions>>, n = Idle \/ Goes(n, req[q]),
             req[q] \in Request,
             \A b \in Browsers, t \in Tokens : Holds(b, t)' => Holds(b, t)
      PROVE  HomeInv'
  <2>1. req'[q] = n /\ \A p \in Requests : p # q => req'[p] = req[p]
    BY <1>0, <1>2 DEF TypeOK
  <2>2. Working(q) /\ InFlight(q) BY <1>0, <1>2, InFlightKind
  <2>3. ASSUME NEW p \in Requests, InFlight(p)'
        PROVE  /\ InFlight(p) /\ req'[p].browser = req[p].browser
               /\ req'[p].replica = req[p].replica
               /\ Working(p)' \/ req'[p].alone => Working(p) \/ req[p].alone
    <3>1. CASE p = q BY <1>2, <2>1, <2>2, <2>3, <3>1 DEF Goes, InFlight
    <3>2. CASE p # q BY <2>1, <2>3, <3>2 DEF InFlight, Working
    <3> QED BY <3>1, <3>2
  <2> QED BY <1>0, <1>2, <2>3, HomeKept DEF Known
<1>3. ASSUME NEW q \in Requests, Handles(q) PROVE HomeInv'
  <2>1. PICK n : Become(q, n) /\ (n = Idle \/ Handled(n, req[q]))
    BY <1>0, <1>3, HandlerEffect
  <2>2. \A b \in Browsers, t \in Tokens : Holds(b, t)' => Holds(b, t)
    BY <1>0, <1>3, QuietSteps, OwnQuiet
  <2> QED BY <1>0, <1>2, <1>3, <2>1, <2>2, HandlerEffect DEF Become, Handled
<1>4. ASSUME NEW q \in Requests, CreateUser(q) PROVE HomeInv'
  <2>1. PICK n : req' = [req EXCEPT ![q] = n] /\ Goes(n, req[q])
    BY <1>0, <1>4, CreateEffect
  <2>2. req[q] \in Request /\ InFlight(q) /\ UNCHANGED <<home, sessions, cookie>>
    BY <1>0, <1>4, CreateEffect, InFlightKind
  <2>3. /\ req'[q].browser = req[q].browser /\ req'[q].token = req[q].token
        /\ \A p \in Requests : p # q => req'[p] = req[p]
    BY <1>0, <2>1 DEF TypeOK, Goes
  <2>4. \A b \in Browsers, t \in Tokens : Holds(b, t)' => Holds(b, t)
    BY <2>2, <2>3 DEF Holds, InFlight
  <2> QED BY <1>2, <2>1, <2>2, <2>4
<1>5. ASSUME NEW q \in Requests, Responds(q) PROVE HomeInv'
  BY <1>5, HomeAnswer
\* Steps after which requests are what they were or gone.
<1>6. ASSUME UNCHANGED home,
             \A b \in Browsers, t \in Tokens : Holds(b, t)' => Holds(b, t),
             \A rep \in Replicas, t \in Tokens : Known(rep, t)' => Known(rep, t),
             \A p \in Requests : req'[p] # Idle =>
               req[p] # Idle /\ Same(req'[p], req[p])
      PROVE  HomeInv'
  <2>1. ASSUME NEW p \in Requests, InFlight(p)'
        PROVE  /\ InFlight(p) /\ req'[p].browser = req[p].browser
               /\ req'[p].replica = req[p].replica
               /\ Working(p)' \/ req'[p].alone => Working(p) \/ req[p].alone
    BY <1>6, <2>1 DEF InFlight, Working, Same
  <2> QED BY <1>0, <1>6, <2>1, HomeKept
<1>7. ASSUME NEW q \in Requests, Ends(q) PROVE HomeInv'
  <2>1. /\ UNCHANGED <<sessions, home>>
        /\ \A p \in Requests : req'[p] = Idle \/ req'[p] = req[p]
    BY <1>0, <1>7, EndEffect DEF Become, TypeOK
  <2>2. \A b \in Browsers, t \in Tokens : Holds(b, t)' => Holds(b, t)
    BY <1>0, <1>7, QuietSteps, OwnQuiet
  <2> QED BY <1>0, <1>6, <2>1, <2>2, SameItself DEF Known
<1>8. ASSUME NEW q \in Requests, Receive(q) PROVE HomeInv'
  <2>1. /\ UNCHANGED <<sessions, home>>
        /\ \A p \in Requests : req'[p] = Idle \/ req'[p] = req[p]
    BY <1>0, <1>8, ReceiveEffect DEF TypeOK
  <2> QED BY <1>0, <1>6, <1>8, <2>1, OwnReceive, SameItself DEF Known
<1>9. ASSUME NEW u \in Users, Sweep(u) PROVE HomeInv'
  BY <1>0, <1>6, <1>9, QuietSteps, OwnQuiet, SameItself DEF Sweep, Known
<1>10. ASSUME NEW rep \in Replicas, NEW t \in Tokens, Expire(rep, t) PROVE HomeInv'
  <2>1. \A s \in Replicas, v \in Tokens : Known(s, v)' => Known(s, v)
    BY <1>0, <1>10 DEF Expire, Known, TypeOK
  <2>2. \A b \in Browsers, v \in Tokens : Holds(b, v)' => Holds(b, v)
    BY <1>0, <1>10, QuietSteps, OwnQuiet
  <2>3. UNCHANGED home BY <1>10 DEF Expire
  <2> QED BY <1>0, <1>6, <1>10, <2>1, <2>2, <2>3, ExpireEffect
<1>11. ASSUME NEW rep \in Replicas, Restart(rep) PROVE HomeInv'
  BY <1>11, HomeRestart
<1>12. CASE UNCHANGED vars
  BY <1>0, <1>6, <1>12, QuietSteps, OwnQuiet, SameItself DEF vars, Known
<1> QED
  BY <1>1, <1>3, <1>4, <1>5, <1>7, <1>8, <1>9, <1>10, <1>11, <1>12
     DEF Next, HandlerStep, Handles, Ends, Responds, Kinds

-----------------------------------------------------------------------------
(***************************************************************************)
(* The action properties follow from the four invariants together.         *)
(***************************************************************************)
SessionInv == OwnInv /\ CopyInv /\ LoneInv /\ HomeInv

LEMMA SessionInvariant == Spec => []SessionInv
<1>1. Init => SessionInv
  BY OwnInit, CopyInit, LoneInit, HomeInit DEF SessionInv
<1>2. SessionInv /\ [Next]_vars => SessionInv'
  BY OwnStep, CopyStep, LoneStep, HomeStep DEF SessionInv
<1> QED BY <1>1, <1>2, PTL DEF Spec

\* The property for one request.
PageOk(q) ==
  Receive(q) /\ req[q].alone =>
    UserOf(req[q].replica, cookie'[req[q].browser]) = req[q].user

(***************************************************************************)
(* The page that arrives for a request that was alone is the board of the  *)
(* session the browser then has: LoneAt of an answer is exactly this.      *)
(***************************************************************************)
THEOREM PagesCorrect == Spec => PageMatchesSession
<1>1. ASSUME SessionInv, NEW q \in Requests, Receive(q), req[q].alone
      PROVE  UserOf(req[q].replica, cookie'[req[q].browser]) = req[q].user
  <2>1. /\ req[q] \in Response /\ InFlight(q)
        /\ cookie' = IF req[q].token # NoToken
                     THEN [cookie EXCEPT ![req[q].browser] = req[q].token]
                     ELSE cookie
    BY <1>1, ReceiveEffect, InFlightKind DEF SessionInv, OwnInv
  <2>2. LoneAt(q) BY <1>1, <2>1 DEF SessionInv, LoneInv, Lone
  <2>3. req[q].browser \in Browsers BY <2>1, ResponseFields
  <2>4. cookie'[req[q].browser] =
          IF req[q].token # NoToken THEN req[q].token ELSE cookie[req[q].browser]
    <3>1. DOMAIN cookie = Browsers BY <1>1 DEF SessionInv, OwnInv, TypeOK
    <3> QED BY <2>1, <2>3, <3>1
  <2> QED BY <2>1, <2>2, <2>4 DEF LoneAt
<1>2. SessionInv /\ [Next]_vars => [\A q \in Requests : PageOk(q)]_vars
  BY <1>1 DEF PageOk
<1> QED BY <1>2, SessionInvariant, PTL DEF Spec, PageMatchesSession, PageOk

\* Only an answer gives a session another user.
LEMMA SessionsMove ==
  ASSUME TypeOK, [Next]_vars, NEW rep \in Replicas, NEW t \in Tokens,
         sessions'[rep][t] \notin {sessions[rep][t], Absent}
  PROVE  \E q \in Requests : Responds(q)
BY Steps DEF Start, CreateUser, Receive, Quiet

(***************************************************************************)
(* A user is put into a session again only by POST (handler.go:193).       *)
(***************************************************************************)
THEOREM StoresCorrect == Spec => UserReturnsOnlyByPost
<1> DEFINE Stored(rep, t) ==
      LET u == sessions'[rep][t]
      IN  u \in Users /\ u # sessions[rep][t] =>
            \E q \in Requests :
              /\ Responds(q)
              /\ req[q].replica = rep /\ req[q].user = u
              /\ req[q].loaded = u => req[q].kind = "post"
<1>1. ASSUME SessionInv, [Next]_vars, NEW rep \in Replicas, NEW t \in Tokens,
             sessions'[rep][t] \in Users, sessions'[rep][t] # sessions[rep][t]
      PROVE  Stored(rep, t)
  <2>0. TypeOK BY <1>1 DEF SessionInv, OwnInv
  <2>1. PICK q \in Requests : Responds(q)
    BY <1>1, <2>0, SessionsMove, NamesAssumption
  <2>2. req[q] \in Request BY <2>0, <2>1, AnswerEffect
  <2>3. PICK v \in TokenFor(req[q]) : sessions' = Committed(req[q], v)
    BY <2>0, <2>1, AnswerEffect
  <2>4. /\ sessions'[rep][t] = req[q].user /\ req[q].modified
        /\ rep = req[q].replica
    BY <1>1, <2>0, <2>2, <2>3, CommittedAt
  <2>5. req[q].loaded = req[q].user => req[q].kind = "post"
    BY <1>1, <2>2, <2>4, NamesAssumption DEF SessionInv, CopyInv, Sound
  <2> QED BY <2>1, <2>4, <2>5
<1>2. SessionInv /\ [Next]_vars =>
        [\A rep \in Replicas, t \in Tokens : Stored(rep, t)]_vars
  BY <1>1
<1> QED BY <1>2, SessionInvariant, PTL DEF Spec, UserReturnsOnlyByPost

\* The three ways the session of a cookie loses its user.
Explained(b, rep, u) ==
  \/ \E q \in RequestsOf(b) :
       Responds(q) /\ (req[q].kind = "reset" \/ req[q].loaded # u)
  \/ \E q \in RequestsOf(b) :
       /\ Receive(q)
       /\ \/ ~req[q].alone
          \/ home[b] = Anywhere /\ req[q].replica # rep
  \/ sessions'[rep][cookie[b]] = Absent

\* Either the session loses the user, to its own request or to an expiry,
LEMMA LosesBySession ==
  ASSUME SessionInv, [Next]_vars, NEW b \in Browsers, NEW rep \in Replicas,
         UserOf(rep, cookie[b]) \in Users, cookie'[b] = cookie[b],
         UserOf(rep, cookie[b])' # UserOf(rep, cookie[b])
  PROVE  Explained(b, rep, UserOf(rep, cookie[b]))
<1>0. OwnInv /\ TypeOK BY DEF SessionInv, OwnInv
<1>1. PICK c : c = cookie[b] OBVIOUS
<1>2. Known(rep, c) /\ UserOf(rep, c) = sessions[rep][c] /\ c \in Tokens
  BY <1>1, NamesAssumption DEF UserOf, Known
<1>3. sessions'[rep][c] # sessions[rep][c]
  BY <1>1, <1>2 DEF UserOf, Known
<1>4. CASE sessions'[rep][c] = Absent BY <1>1, <1>4 DEF Explained
<1>5. CASE sessions'[rep][c] # Absent
  <2>1. PICK q \in Requests : Responds(q)
    BY <1>0, <1>2, <1>3, <1>5, SessionsMove
  <2>2. Holds(b, c)' BY <1>1 DEF Holds
  <2>3. /\ b = req[q].browser /\ sessions'[rep][c] = req[q].user
    BY <1>0, <1>2, <1>3, <2>1, <2>2, AnswerSessions
  <2>4. req[q] \in Request /\ InFlight(q)
    BY <1>0, <2>1, AnswerEffect, InFlightKind
  <2>5. req[q].kind = "reset" \/ req[q].loaded # UserOf(rep, c)
    BY <1>1, <1>2, <1>3, <2>3, <2>4, NamesAssumption
       DEF SessionInv, CopyInv, Sound
  <2>6. q \in RequestsOf(b) BY <2>3, <2>4 DEF RequestsOf
  <2> QED BY <1>1, <2>1, <2>5, <2>6 DEF Explained
<1> QED BY <1>4, <1>5

\* or the cookie names another session.  A request that was alone brings one only
\* if its replica did not know the old, and so was not at home.
LEMMA LosesByCookie ==
  ASSUME SessionInv, [Next]_vars, NEW b \in Browsers, NEW rep \in Replicas,
         UserOf(rep, cookie[b]) \in Users, cookie'[b] # cookie[b]
  PROVE  Explained(b, rep, UserOf(rep, cookie[b]))
<1>0. OwnInv /\ TypeOK BY DEF SessionInv, OwnInv
<1>1. PICK q \in Requests : Receive(q)
  BY <1>0, Steps, AnswerEffect DEF Start, CreateUser, Quiet
<1>2. /\ req[q] \in Response /\ InFlight(q) /\ req[q].browser \in Browsers
      /\ cookie' = IF req[q].token # NoToken
                   THEN [cookie EXCEPT ![req[q].browser] = req[q].token]
                   ELSE cookie
  BY <1>0, <1>1, ReceiveEffect, InFlightKind, ResponseFields
<1>3. b = req[q].browser /\ req[q].token # NoToken /\ req[q].token # cookie[b]
  BY <1>0, <1>2 DEF TypeOK
<1>4. q \in RequestsOf(b) BY <1>2, <1>3 DEF RequestsOf
<1>5. CASE ~req[q].alone BY <1>1, <1>4, <1>5 DEF Explained
<1>6. CASE req[q].alone
  <2>1. LoneAt(q) BY <1>2, <1>6 DEF SessionInv, LoneInv, Lone
  <2>2. ~Known(req[q].replica, cookie[b])
    BY <1>2, <1>3, <2>1 DEF LoneAt
  <2>3. Known(rep, cookie[b]) /\ cookie[b] \in Tokens /\ Holds(b, cookie[b])
    BY NamesAssumption DEF UserOf, Known, Holds
  <2>4. home[b] # Anywhere => rep = home[b]
    BY <2>3 DEF SessionInv, HomeInv, HomeTokens
  <2>5. home[b] # Anywhere => req[q].replica = home[b]
    BY <1>2, <1>3, <1>6 DEF SessionInv, HomeInv, HomeRequests
  <2> QED BY <1>1, <1>4, <2>2, <2>3, <2>4, <2>5 DEF Explained
<1> QED BY <1>5, <1>6

(***************************************************************************)
(* A browser's session keeps its user, but for the three reasons named.    *)
(***************************************************************************)
THEOREM SessionsCorrect == Spec => SessionKept
<1> DEFINE Kept(b, rep) ==
      LET u == UserOf(rep, cookie[b])
      IN  u \in Users /\ UserOf(rep, cookie[b])' # u => Explained(b, rep, u)
<1>1. ASSUME SessionInv, [Next]_vars, NEW b \in Browsers, NEW rep \in Replicas
      PROVE  Kept(b, rep)
  <2>1. CASE cookie'[b] = cookie[b] BY <1>1, <2>1, LosesBySession
  <2>2. CASE cookie'[b] # cookie[b] BY <1>1, <2>2, LosesByCookie
  <2> QED BY <2>1, <2>2
<1>2. SessionInv /\ [Next]_vars =>
        [\A b \in Browsers, rep \in Replicas : Kept(b, rep)]_vars
  BY <1>1
<1> QED BY <1>2, SessionInvariant, PTL DEF Spec, SessionKept, Explained

=============================================================================
