------------------------------- MODULE Todos -------------------------------
(***************************************************************************)
(* Whose board a browser works on: the handlers of                         *)
(* internal/web/todos/handler.go with the sessions that main.go puts       *)
(* around them, on replicas that share only the database.                  *)
(*                                                                         *)
(* A session is copied when a request starts and written back, if it was   *)
(* modified, when the response starts; requests of one browser therefore   *)
(* work on copies.  It lives in the memory of one replica.  What happens   *)
(* to the tickets of a user is the subject of UserStore and Board; here a  *)
(* user is a row that exists or not.                                       *)
(***************************************************************************)
EXTENDS FiniteSets

CONSTANTS
  Browsers,   \* cookie jars
  Replicas,   \* server processes
  Requests,   \* slots for requests in flight
  Users,      \* user ids that CreateUser can draw
  Tokens,     \* session tokens that can be drawn
  NoUser,     \* the empty user id
  NoToken,    \* no session cookie
  Absent,     \* no session under this token
  Anywhere    \* no replica in particular, or none

\* What stands for nothing is none of the things.
ASSUME NamesAssumption ==
  /\ NoUser \notin Users
  /\ NoToken \notin Tokens
  /\ Absent \notin Users \cup {NoUser}
  /\ Anywhere \notin Replicas

VARIABLES
  rows,       \* users that have a row in the table
  drawn,      \* the users CreateUser returned so far
  sessions,   \* for each replica, the user of each token's session
  issued,     \* tokens drawn so far
  cookie,     \* the session token each browser has
  home,       \* the replica the sticky cookie of each browser names
  req         \* the requests in flight

vars == <<rows, drawn, sessions, issued, cookie, home, req>>

AnyUser == Users \cup {NoUser}

Idle == [phase |-> "idle"]

\* A handler at work on its copy of the session.  The fields loaded and alone
\* are history: the user of the session when it was copied, and whether nothing
\* else touched the browser's session since.
Request ==
  [phase    : {"handler", "create", "render"},
   kind     : {"get", "post", "put", "delete", "reset"},
   browser  : Browsers,
   replica  : Replicas,
   token    : Tokens \cup {NoToken},
   loaded   : AnyUser,
   user     : AnyUser,
   modified : BOOLEAN,
   alone    : BOOLEAN]

\* An answer on its way, with the cookie it sets.
Response ==
  [phase   : {"sent"},
   browser : Browsers,
   replica : Replicas,
   token   : Tokens \cup {NoToken},
   user    : AnyUser,
   alone   : BOOLEAN]

InFlight(q) == req[q] # Idle

TypeOK ==
  /\ rows \subseteq drawn /\ drawn \subseteq Users
  /\ sessions \in [Replicas -> [Tokens -> AnyUser \cup {Absent}]]
  /\ issued \subseteq Tokens
  /\ cookie \in [Browsers -> issued \cup {NoToken}]
  /\ home \in [Browsers -> Replicas \cup {Anywhere}]
  /\ req \in [Requests -> Request \cup Response \cup {Idle}]

\* With the sticky cookie of docker-compose.production.yml every browser has a
\* home; with docker-compose.yml none has.
Init ==
  /\ rows = {} /\ drawn = {} /\ issued = {}
  /\ sessions = [rep \in Replicas |-> [t \in Tokens |-> Absent]]
  /\ cookie = [b \in Browsers |-> NoToken]
  /\ home \in [Browsers -> Replicas] \cup {[b \in Browsers |-> Anywhere]}
  /\ req = [q \in Requests |-> Idle]

-----------------------------------------------------------------------------
(***************************************************************************)
(* A request starts: LoadAndSave looks the cookie's token up and copies    *)
(* the session.  A token the replica does not know counts as none.         *)
(***************************************************************************)
Known(rep, t) == t \in Tokens /\ sessions[rep][t] # Absent

UserOf(rep, t) == IF Known(rep, t) THEN sessions[rep][t] ELSE NoUser

Route(b) == IF home[b] = Anywhere THEN Replicas ELSE {home[b]}

\* Mutated ToGet: a new user for every page, the test for "" being gone.
ToGet_AlwaysCreates(r) == [r EXCEPT !.phase = "create"]

\* The call of get, which ends every handler.
ToGet(r) ==
  [r EXCEPT !.phase = IF r.user = NoUser THEN "create" ELSE "render"]

Loaded(b, k, rep, lonely) ==
  [phase     |-> "handler",
   kind      |-> k,
   browser   |-> b,
   replica   |-> rep,
   token     |-> IF Known(rep, cookie[b]) THEN cookie[b] ELSE NoToken,
   loaded    |-> UserOf(rep, cookie[b]),
   user      |-> UserOf(rep, cookie[b]),
   modified  |-> FALSE,
   alone     |-> lonely]

Others(q, b) == {p \in Requests \ {q} : InFlight(p) /\ req[p].browser = b}

Start(q, b, k) ==
  /\ req[q] = Idle
  /\ \E rep \in Route(b) :
       LET r == Loaded(b, k, rep, Others(q, b) = {})
       IN  req' = [p \in Requests |->
                     IF p = q THEN IF k = "get" THEN ToGet(r) ELSE r
                     ELSE IF p \in Others(q, b)
                          THEN [req[p] EXCEPT !.alone = FALSE]
                          ELSE req[p]]
  /\ UNCHANGED <<rows, drawn, sessions, issued, cookie, home>>

-----------------------------------------------------------------------------
(***************************************************************************)
(* The handlers, up to their call of get.  Notify can panic (see module    *)
(* Notifications) when the user may have a stream, that is, when the user  *)
(* comes from a session.                                                   *)
(***************************************************************************)
MayPanic(r) == r.user # NoUser /\ r.user = r.loaded

Handling(q, k) == InFlight(q) /\ req[q].phase = "handler" /\ req[q].kind = k

Become(q, r) ==
  /\ req' = [req EXCEPT ![q] = r]
  /\ UNCHANGED <<rows, drawn, sessions, issued, cookie, home>>

\* A panic that nothing was written before: the session is not written back.
Abort(q) == MayPanic(req[q]) /\ Become(q, Idle)

\* Removing the user of a session that has none does not modify it.
SessionReset(q) ==
  /\ Handling(q, "reset")
  /\ \/ Become(q, ToGet([req[q] EXCEPT !.user = NoUser,
                                       !.modified = req[q].user # NoUser]))
     \/ Abort(q)

\* The result of DeleteTodoByUserAndTodoId makes no difference to what follows.
Delete(q) ==
  /\ Handling(q, "delete")
  /\ Become(q, ToGet(req[q])) \/ Abort(q)

\* The user is put into the session again when the ticket was added.  A panic
\* in Notify, here and in Put, runs the deferred get all the same.
Post(q) ==
  /\ Handling(q, "post")
  /\ \E added \in BOOLEAN :
       /\ added => req[q].user \in rows
       /\ Become(q, ToGet([req[q] EXCEPT !.modified = added]))

\* Mutated Put: it puts the user into the session as POST does.
Put_StoresUser(q) ==
  /\ Handling(q, "put")
  /\ Become(q, ToGet([req[q] EXCEPT !.modified = req[q].user # NoUser]))

\* The session is as it was, whether the tickets were updated or not.
Put(q) == Handling(q, "put") /\ Become(q, ToGet(req[q]))

-----------------------------------------------------------------------------
(***************************************************************************)
(* get: create a user unless the session has one, render, respond.         *)
(***************************************************************************)
Creating(q) == InFlight(q) /\ req[q].phase = "create"

\* Mutated CreateUser: the id is drawn once per process, as those of the
\* default tickets are.
CreateUser_OnceDrawn(q) ==
  /\ Creating(q)
  /\ \E u \in IF drawn = {} THEN Users ELSE drawn :
       /\ drawn' = drawn \cup {u}
       /\ rows' = rows \cup {u}
       /\ req' = [req EXCEPT ![q].user = u, ![q].modified = TRUE,
                             ![q].phase = "render"]
  /\ UNCHANGED <<sessions, issued, cookie, home>>

CreateUser(q) ==
  /\ Creating(q)
  /\ \E u \in Users \ drawn :
       /\ drawn' = drawn \cup {u}
       /\ rows' = rows \cup {u}
       /\ req' = [req EXCEPT ![q].user = u, ![q].modified = TRUE,
                             ![q].phase = "render"]
  /\ UNCHANGED <<sessions, issued, cookie, home>>

\* The tickets cannot be read, which is posted to the user.
RenderPanics(q) == InFlight(q) /\ req[q].phase = "render" /\ Abort(q)

\* Mutated Committed: the header is written before the new user is put into
\* the session, and the session is written back with the header.
Committed_TooEarly(r, t) ==
  IF r.modified /\ (r.token = NoToken \/ Known(r.replica, t))
  THEN [sessions EXCEPT ![r.replica][t] = r.loaded]
  ELSE sessions

\* The store after a session was written back under its token: one that has
\* expired stays expired.
Committed(r, t) ==
  IF r.modified /\ (r.token = NoToken \/ Known(r.replica, t))
  THEN [sessions EXCEPT ![r.replica][t] = r.user]
  ELSE sessions

\* Mutated TokenFor: a new session is written back without a token.
TokenFor_None(r) == {r.token}

\* A session that has no token yet gets one when it is written back.
TokenFor(r) ==
  IF r.modified /\ r.token = NoToken THEN Tokens \ issued ELSE {r.token}

\* The first write of the response.
Answer(q, r) ==
  /\ \E t \in TokenFor(r) :
       /\ req' = [req EXCEPT ![q] =
                   [phase   |-> "sent",
                    browser |-> r.browser,
                    replica |-> r.replica,
                    token   |-> IF r.modified THEN t ELSE NoToken,
                    user    |-> r.user,
                    alone   |-> r.alone]]
       /\ sessions' = Committed(r, t)
       /\ issued' = IF r.modified THEN issued \cup {t} ELSE issued
  /\ UNCHANGED <<rows, drawn, cookie, home>>

\* The page of the user's board.
Respond(q) == InFlight(q) /\ req[q].phase = "render" /\ Answer(q, req[q])

\* Mutated CreateUserFails: the error is logged, and the id used all the same.
CreateUserFails_GoesOn(q) ==
  /\ Creating(q)
  /\ \E u \in Users \ drawn :
       Answer(q, [req[q] EXCEPT !.user = u, !.modified = TRUE])

\* The error page.  A row that was inserted all the same belongs to nobody.
CreateUserFails(q) == Creating(q) /\ Answer(q, req[q])

-----------------------------------------------------------------------------
(***************************************************************************)
(* The answer arrives: a modified session sets the cookie.                 *)
(***************************************************************************)
Receive(q) ==
  /\ InFlight(q) /\ req[q].phase = "sent"
  /\ cookie' = IF req[q].token # NoToken
               THEN [cookie EXCEPT ![req[q].browser] = req[q].token]
               ELSE cookie
  /\ req' = [req EXCEPT ![q] = Idle]
  /\ UNCHANGED <<rows, drawn, sessions, issued, home>>

\* The browser has left, or the connection breaks before the header arrives.
Lose(q) == InFlight(q) /\ req[q].phase = "sent" /\ Become(q, Idle)

-----------------------------------------------------------------------------
(***************************************************************************)
(* What happens to rows, sessions and replicas meanwhile.                  *)
(***************************************************************************)

\* The TTL worker of some replica.
Sweep(u) ==
  /\ u \in rows
  /\ rows' = rows \ {u}
  /\ UNCHANGED <<drawn, sessions, issued, cookie, home, req>>

\* The lifetime of a session ends.
Expire(rep, t) ==
  /\ Known(rep, t)
  /\ sessions' = [sessions EXCEPT ![rep][t] = Absent]
  /\ req' = [q \in Requests |->
               IF InFlight(q) /\ t \in {req[q].token, cookie[req[q].browser]}
               THEN [req[q] EXCEPT !.alone = FALSE] ELSE req[q]]
  /\ UNCHANGED <<rows, drawn, issued, cookie, home>>

\* A replica stops and comes back without its sessions; the load balancer
\* sends its browsers to any replica.
Restart(rep) ==
  /\ sessions' = [sessions EXCEPT ![rep] = [t \in Tokens |-> Absent]]
  /\ req' = [q \in Requests |->
               IF      ~InFlight(q) \/ req[q].replica # rep THEN req[q]
               ELSE IF req[q].phase = "sent" THEN [req[q] EXCEPT !.alone = FALSE]
               ELSE Idle]
  /\ \E h \in [Browsers -> Replicas] :
       home' = [b \in Browsers |-> IF home[b] = rep THEN h[b] ELSE home[b]]
  /\ UNCHANGED <<rows, drawn, issued, cookie>>

-----------------------------------------------------------------------------
HandlerStep(q) ==
  \/ SessionReset(q)
  \/ Delete(q)
  \/ Post(q)
  \/ Put(q)
  \/ CreateUser(q)
  \/ CreateUserFails(q)
  \/ RenderPanics(q)
  \/ Respond(q)

Next ==
  \/ \E q \in Requests, b \in Browsers :
       \E k \in {"get", "post", "put", "delete", "reset"} : Start(q, b, k)
  \/ \E q \in Requests : HandlerStep(q)
  \/ \E q \in Requests : Receive(q)
  \/ \E q \in Requests : Lose(q)
  \/ \E u \in Users : Sweep(u)
  \/ \E rep \in Replicas, t \in Tokens : Expire(rep, t)
  \/ \E rep \in Replicas : Restart(rep)

Spec == Init /\ [][Next]_vars

-----------------------------------------------------------------------------
(***************************************************************************)
(* Safety.                                                                 *)
(***************************************************************************)

\* The users a browser acts for: those of its sessions, of its requests in
\* flight and of the sessions these were written back to.
RequestsOf(b) == {q \in Requests : InFlight(q) /\ req[q].browser = b}

TokensOf(b) == {cookie[b]} \cup {req[q].token : q \in RequestsOf(b)}

ActsFor(b) ==
  ({UserOf(rep, t) : rep \in Replicas, t \in TokensOf(b)}
     \cup {req[q].user : q \in RequestsOf(b)}) \ {NoUser}

(***************************************************************************)
(* Nobody sees or changes another browser's board, whatever the replicas   *)
(* do to tokens they do not know and however requests overlap.             *)
(***************************************************************************)
OneOwner ==
  \A b, c \in Browsers : b # c => ActsFor(b) \cap ActsFor(c) = {}

(***************************************************************************)
(* A user is only ever acted for after CreateUser succeeded: its row is    *)
(* there, or was until the TTL worker deleted it.                          *)
(***************************************************************************)
NoGhosts == \A b \in Browsers : ActsFor(b) \subseteq drawn

Responds(q) == Respond(q) \/ CreateUserFails(q)

(***************************************************************************)
(* What you see is what you act on: when no other request of the browser   *)
(* overlapped, and its session did not expire meanwhile, the page that     *)
(* arrives is of the very user whom the browser's session then names       *)
(* (nobody, after the error page).                                         *)
(***************************************************************************)
PageMatchesSession ==
  [][\A q \in Requests :
       Receive(q) /\ req[q].alone =>
         UserOf(req[q].replica, cookie'[req[q].browser]) = req[q].user]_vars

(***************************************************************************)
(* handler.go:193: the user a request found in its copy of the session is  *)
(* stored over another one, which a reset put there in between, by POST    *)
(* alone; everything else stores only users it created itself.             *)
(***************************************************************************)
UserReturnsOnlyByPost ==
  [][\A rep \in Replicas, t \in Tokens :
       LET u == sessions'[rep][t]
       IN  u \in Users /\ u # sessions[rep][t] =>
             \E q \in Requests :
               /\ Responds(q)
               /\ req[q].replica = rep /\ req[q].user = u
               /\ req[q].loaded = u => req[q].kind = "post"]_vars

(***************************************************************************)
(* A browser keeps its user.  The session of its cookie loses one only to  *)
(* its own session reset, to its own request that copied the session       *)
(* before the user came, to an expiry or a restart; and the cookie is      *)
(* replaced only by requests that overlapped or, without a sticky cookie,  *)
(* by one that the load balancer sent to another replica.                  *)
(***************************************************************************)
SessionKept ==
  [][\A b \in Browsers, rep \in Replicas :
       LET u == UserOf(rep, cookie[b])
       IN  u \in Users /\ UserOf(rep, cookie[b])' # u =>
             \/ \E q \in RequestsOf(b) :
                  Responds(q) /\ (req[q].kind = "reset" \/ req[q].loaded # u)
             \/ \E q \in RequestsOf(b) :
                  /\ Receive(q)
                  /\ \/ ~req[q].alone
                     \/ home[b] = Anywhere /\ req[q].replica # rep
             \/ sessions'[rep][cookie[b]] = Absent]_vars

=============================================================================
