----------------------------- MODULE UserStore -----------------------------
(***************************************************************************)
(* The users table and its client, internal/db/client.go.                  *)
(*                                                                         *)
(* The table holds one row per user: the whole board as one JSON array,    *)
(* and updated_at.  Every change of a board is a read, a change of the     *)
(* slice in memory and a write, in two statements without a transaction;   *)
(* PUT /todos does the same through GetAllByUser and UpdateUser.  The      *)
(* statements of different calls interleave freely, also across replicas,  *)
(* which share the database.  On each replica a worker deletes the rows    *)
(* that were not updated for TTL.                                          *)
(*                                                                         *)
(* The order of the tickets of a board is left to module Board: here a     *)
(* board is a set.                                                         *)
(***************************************************************************)
EXTENDS Integers, FiniteSets

CONSTANTS
  Users,       \* user ids (uuids)
  Ids,         \* ticket ids (uuids)
  DefaultSets, \* what each process drew as the ids of its defaultTickets
  Statuses,    \* what a ticket's status can be
  FirstStatus, \* "todo", the status of the default tickets
  Callers,     \* goroutines that call the client
  Workers,     \* TTL workers, one per replica
  TTL,         \* olderThan
  MaxTime,     \* bound on the clock
  None         \* no row, no owner, no request, no time

Ticket == [id : Ids, status : Statuses]
Row    == [tickets : SUBSET Ticket, updated_at : 0..MaxTime]

\* What one PUT form can say: a status for each of some ticket ids.
Forms == UNION {[S -> Statuses] : S \in SUBSET Ids}

\* The calls of the client.
Request ==
  [kind : {"create"}, user : Users, ids : DefaultSets]
    \cup [kind : {"add"}, user : Users, card : Ticket]
    \cup [kind : {"remove"}, user : Users, id : Ids]
    \cup [kind : {"put"}, user : Users, form : Forms]

ASSUME TimeAssumption     == TTL \in Nat /\ MaxTime \in Nat
ASSUME DefaultsAssumption == /\ DefaultSets \subseteq SUBSET Ids
                             /\ FirstStatus \in Statuses
ASSUME NoneAssumption     == /\ None \notin Row
                             /\ None \notin Users
                             /\ None \notin Request

VARIABLES
  users,        \* the table
  born,         \* the uuids CreateUser has drawn
  owner,        \* the user each ticket uuid was drawn for
  now,          \* time.Now, the same on every replica
  stage,        \* how far each call is
  req,          \* its arguments
  buf,          \* its slice of tickets
  stamp,        \* the updated_at it is going to write
  overtaken,    \* has its row been written or deleted since it was read?
  reply,        \* what the last call returned
  worker,       \* the state of each TTL worker
  cutoff,       \* its cutoff
  cancelled     \* has main's context been cancelled?

callVars   == <<born, owner, stage, req, buf, stamp, reply>>
workerVars == <<worker, cutoff, cancelled>>
vars       == <<users, now, overtaken, callVars, workerVars>>

Stages == {"idle", "fetched", "ready"}

TypeOK ==
  /\ users     \in [Users -> Row \cup {None}]
  /\ born      \in SUBSET Users
  /\ owner     \in [Ids -> Users \cup {None}]
  /\ now       \in 0..MaxTime
  /\ stage     \in [Callers -> Stages]
  /\ req       \in [Callers -> Request \cup {None}]
  /\ buf       \in [Callers -> SUBSET Ticket]
  /\ stamp     \in [Callers -> 0..MaxTime \cup {None}]
  /\ overtaken \in [Callers -> BOOLEAN]
  /\ reply     \in [Callers -> {"none", "ok", "error"}]
  /\ worker    \in [Workers -> {"waiting", "sweeping", "stopped"}]
  /\ cutoff    \in [Workers -> Int]
  /\ cancelled \in BOOLEAN

Init ==
  /\ users     = [u \in Users |-> None]
  /\ born      = {}
  /\ owner     = [id \in Ids |-> None]
  /\ now       = 0
  /\ stage     = [c \in Callers |-> "idle"]
  /\ req       = [c \in Callers |-> None]
  /\ buf       = [c \in Callers |-> {}]
  /\ stamp     = [c \in Callers |-> None]
  /\ overtaken = [c \in Callers |-> FALSE]
  /\ reply     = [c \in Callers |-> "none"]
  /\ worker    = [w \in Workers |-> "waiting"]
  /\ cutoff    = [w \in Workers |-> -TTL]
  /\ cancelled = FALSE

-----------------------------------------------------------------------------
(***************************************************************************)
(* The first half of a call, up to and including its SELECT.               *)
(***************************************************************************)
DefaultIds == UNION DefaultSets

\* The board of a new user: a process draws the ids once, when it starts.
Defaults(D) == {[id |-> id, status |-> FirstStatus] : id \in D}

\* The call has its tickets in memory.
Begin(c, r, T) ==
  /\ stage[c] = "idle"
  /\ stage' = [stage EXCEPT ![c] = "fetched"]
  /\ req' = [req EXCEPT ![c] = r]
  /\ buf' = [buf EXCEPT ![c] = T]
  /\ overtaken' = [overtaken EXCEPT ![c] = FALSE]
  /\ reply' = [reply EXCEPT ![c] = "none"]
  /\ UNCHANGED <<users, now, stamp, workerVars>>

\* The SELECT finds no row, or fails: the call returns its error.
Refuse(c) ==
  /\ stage[c] = "idle"
  /\ reply' = [reply EXCEPT ![c] = "error"]
  /\ UNCHANGED <<users, now, overtaken, born, owner, stage, req, buf, stamp,
                 workerVars>>

\* CreateUser draws a fresh uuid and reads no row; any process may serve it.
CreateUser(c, u, D) ==
  /\ u \notin born
  /\ born' = born \cup {u}
  /\ Begin(c, [kind |-> "create", user |-> u, ids |-> D], {})
  /\ UNCHANGED owner

\* POST /todos draws a fresh uuid for the ticket, then AddToUser reads the row.
AddToUser(c, u, t) ==
  /\ t.id \notin DefaultIds
  /\ owner[t.id] = None
  /\ owner' = [owner EXCEPT ![t.id] = u]
  /\ users[u] # None
  /\ Begin(c, [kind |-> "add", user |-> u, card |-> t], users[u].tickets)
  /\ UNCHANGED born

\* The id is the client's: any, also of a ticket that is another user's.
DeleteTodoByUserAndTodoId(c, u, id) ==
  /\ users[u] # None
  /\ Begin(c, [kind |-> "remove", user |-> u, id |-> id], users[u].tickets)
  /\ UNCHANGED <<born, owner>>

\* PUT /todos: GetAllByUser, and UpdateUser later.  The form is the client's.
GetAllByUser(c, u, form) ==
  /\ users[u] # None
  /\ Begin(c, [kind |-> "put", user |-> u, form |-> form], users[u].tickets)
  /\ UNCHANGED <<born, owner>>

-----------------------------------------------------------------------------
(***************************************************************************)
(* The change in memory, and the clock read for updated_at.                *)
(***************************************************************************)
Appended(T, t) == T \cup {t}

Without(T, id) == {t \in T : t.id # id}

\* Mutated Rearranged: the loop appends to the current tickets.
Rearranged_Appends(T, form) ==
  T \cup {t \in Ticket : /\ t.id \in DOMAIN form
                         /\ t.status = form[t.id]
                         /\ \E x \in T : x.id = t.id}

\* Mutated Rearranged: the form is stored as it comes.
Rearranged_Trusts(T, form) ==
  {t \in Ticket : t.id \in DOMAIN form /\ t.status = form[t.id]}

\* The current tickets that the form names, with the form's status.
Rearranged(T, form) ==
  {t \in Ticket : /\ t.id \in DOMAIN form
                  /\ t.status = form[t.id]
                  /\ \E x \in T : x.id = t.id}

Changed(T, r) ==
  IF      r.kind = "create" THEN Defaults(r.ids)
  ELSE IF r.kind = "add"    THEN Appended(T, r.card)
  ELSE IF r.kind = "remove" THEN Without(T, r.id)
  ELSE                           Rearranged(T, r.form)

\* Mutated Prepare: updated_at keeps its zero value.
Prepare_NoStamp(c) ==
  /\ stage[c] = "fetched"
  /\ stage' = [stage EXCEPT ![c] = "ready"]
  /\ buf' = [buf EXCEPT ![c] = Changed(@, req[c])]
  /\ UNCHANGED <<users, born, owner, now, req, stamp, overtaken, reply,
                 workerVars>>

Prepare(c) ==
  /\ stage[c] = "fetched"
  /\ stage' = [stage EXCEPT ![c] = "ready"]
  /\ buf' = [buf EXCEPT ![c] = Changed(@, req[c])]
  /\ stamp' = [stamp EXCEPT ![c] = now]
  /\ UNCHANGED <<users, born, owner, now, req, overtaken, reply, workerVars>>

-----------------------------------------------------------------------------
(***************************************************************************)
(* The INSERT or UPDATE, and the return.                                   *)
(***************************************************************************)

\* An UPDATE of a row that is gone changes nothing and is not an error.
Hits(c) == req[c].kind = "create" \/ users[req[c].user] # None

Return(c, result) ==
  /\ stage' = [stage EXCEPT ![c] = "idle"]
  /\ req' = [req EXCEPT ![c] = None]
  /\ buf' = [buf EXCEPT ![c] = {}]
  /\ stamp' = [stamp EXCEPT ![c] = None]
  /\ reply' = [reply EXCEPT ![c] = result]

\* Calls in flight whose row is among those of S.
Overtake(S) ==
  overtaken' = [d \in Callers |->
                  overtaken[d] \/ (stage[d] # "idle" /\ req[d].user \in S)]

\* Mutated Execute: the UPDATE has no WHERE clause.
Execute_NoWhere(c) ==
  /\ users' = [u \in Users |->
                IF users[u] # None \/ u = req[c].user
                THEN [tickets |-> buf[c], updated_at |-> stamp[c]] ELSE None]
  /\ Overtake(Users)

\* Mutated Execute: an UPDATE that finds no row inserts it.
Execute_Upsert(c) ==
  /\ users' = [users EXCEPT ![req[c].user] =
                 [tickets |-> buf[c], updated_at |-> stamp[c]]]
  /\ Overtake({req[c].user})

\* Mutated Execute: the array is merged into the row's.
Execute_Merge(c) ==
  LET u == req[c].user IN
  /\ Hits(c)
  /\ users' = [users EXCEPT ![u] =
                 [tickets |-> buf[c] \cup (IF @ = None THEN {} ELSE @.tickets),
                  updated_at |-> stamp[c]]]
  /\ Overtake({u})

\* The statement reaches the database.
Execute(c) ==
  IF Hits(c)
  THEN /\ users' = [users EXCEPT ![req[c].user] =
                      [tickets |-> buf[c], updated_at |-> stamp[c]]]
       /\ Overtake({req[c].user})
  ELSE UNCHANGED <<users, overtaken>>

WriteOk(c) ==
  /\ stage[c] = "ready"
  /\ Execute(c)
  /\ Return(c, "ok")
  /\ UNCHANGED <<born, owner, now, workerVars>>

\* ExecContext fails: the statement was executed, or it was not.
WriteError(c) ==
  /\ stage[c] = "ready"
  /\ Execute(c) \/ UNCHANGED <<users, overtaken>>
  /\ Return(c, "error")
  /\ UNCHANGED <<born, owner, now, workerVars>>

-----------------------------------------------------------------------------
(***************************************************************************)
(* InitTTLCleanup.                                                         *)
(***************************************************************************)

\* Mutated TickerFires: the cutoff is the present.
TickerFires_Now(w) ==
  /\ worker[w] = "waiting"
  /\ worker' = [worker EXCEPT ![w] = "sweeping"]
  /\ cutoff' = [cutoff EXCEPT ![w] = now]
  /\ UNCHANGED <<users, now, overtaken, callVars, cancelled>>

TickerFires(w) ==
  /\ worker[w] = "waiting"
  /\ worker' = [worker EXCEPT ![w] = "sweeping"]
  /\ cutoff' = [cutoff EXCEPT ![w] = now - TTL]
  /\ UNCHANGED <<users, now, overtaken, callVars, cancelled>>

Expired(w) == {u \in Users : users[u] # None /\ users[u].updated_at < cutoff[w]}

Delete(w) ==
  /\ users' = [u \in Users |-> IF u \in Expired(w) THEN None ELSE users[u]]
  /\ Overtake(Expired(w))

SweepOk(w) ==
  /\ worker[w] = "sweeping"
  /\ ~cancelled
  /\ Delete(w)
  /\ worker' = [worker EXCEPT ![w] = "waiting"]
  /\ UNCHANGED <<now, callVars, cutoff, cancelled>>

\* Mutated SweepError: the worker returns on an error.
SweepError_Returns(w) ==
  /\ worker[w] = "sweeping"
  /\ Delete(w) \/ UNCHANGED <<users, overtaken>>
  /\ worker' = [worker EXCEPT ![w] = "stopped"]
  /\ UNCHANGED <<now, callVars, cutoff, cancelled>>

\* The error is logged, and the worker waits for the next tick.
SweepError(w) ==
  /\ worker[w] = "sweeping"
  /\ Delete(w) \/ UNCHANGED <<users, overtaken>>
  /\ worker' = [worker EXCEPT ![w] = "waiting"]
  /\ UNCHANGED <<now, callVars, cutoff, cancelled>>

StopWorker(w) ==
  /\ worker[w] = "waiting"
  /\ cancelled
  /\ worker' = [worker EXCEPT ![w] = "stopped"]
  /\ UNCHANGED <<users, now, overtaken, callVars, cutoff, cancelled>>

\* main returns, and its deferred cancel runs.
Cancel ==
  /\ ~cancelled
  /\ cancelled' = TRUE
  /\ UNCHANGED <<users, now, overtaken, callVars, worker, cutoff>>

Tick ==
  /\ now < MaxTime
  /\ now' = now + 1
  /\ UNCHANGED <<users, overtaken, callVars, workerVars>>

-----------------------------------------------------------------------------
Call(c) ==
  \/ \E u \in Users, D \in DefaultSets : CreateUser(c, u, D)
  \/ \E u \in Users, t \in Ticket : AddToUser(c, u, t)
  \/ \E u \in Users, id \in Ids : DeleteTodoByUserAndTodoId(c, u, id)
  \/ \E u \in Users, form \in Forms : GetAllByUser(c, u, form)
  \/ Refuse(c)

CallStep(c) == Call(c) \/ Prepare(c) \/ WriteOk(c) \/ WriteError(c)

WorkerStep(w) == TickerFires(w) \/ SweepOk(w) \/ SweepError(w) \/ StopWorker(w)

Next ==
  \/ \E c \in Callers : CallStep(c)
  \/ \E w \in Workers : WorkerStep(w)
  \/ Cancel
  \/ Tick

Spec == Init /\ [][Next]_vars

(***************************************************************************)
(* The ticker goes on firing, and the database does not fail for ever.     *)
(***************************************************************************)
FairSpec ==
  /\ Spec
  /\ \A w \in Workers : WF_vars(TickerFires(w)) /\ SF_vars(SweepOk(w))

-----------------------------------------------------------------------------
(***************************************************************************)
(* Safety.                                                                 *)
(***************************************************************************)

(***************************************************************************)
(* However reads and writes interleave, a board never shows one ticket in  *)
(* two columns: the two statuses are never merged.                         *)
(***************************************************************************)
OneCard(T) == \A s, t \in T : s.id = t.id => s = t

OneCardPerId ==
  /\ \A u \in Users : users[u] # None => OneCard(users[u].tickets)
  /\ \A c \in Callers : OneCard(buf[c])

(***************************************************************************)
(* A ticket is only ever on the board of the user it was created for, and  *)
(* in the memory of that user's calls, although a client may name any      *)
(* ticket in a DELETE or in a form; the default tickets are everyone's.    *)
(***************************************************************************)
OwnIds(u) == DefaultIds \cup {id \in Ids : owner[id] = u}

OwnTickets ==
  /\ \A u \in Users : users[u] # None =>
       \A t \in users[u].tickets : t.id \in OwnIds(u)
  /\ \A c \in Callers : \A t \in buf[c] : t.id \in OwnIds(req[c].user)

(***************************************************************************)
(* A write that nobody overtook does exactly what was asked, to the row    *)
(* and to no other; what the two statements can lose is lost to an         *)
(* overlapping call or sweep.                                              *)
(***************************************************************************)
UncontendedWritesExact ==
  [][\A c \in Callers :
       /\ stage[c] = "ready" /\ stage'[c] = "idle"
       /\ ~overtaken[c]
       /\ reply'[c] = "ok"
       => users' = [users EXCEPT ![req[c].user] =
                      [tickets |-> Changed(IF @ = None THEN {} ELSE @.tickets,
                                           req[c]),
                       updated_at |-> stamp[c]]]]_vars

(***************************************************************************)
(* A deleted row stays deleted: a call that still holds the tickets of a   *)
(* swept user does not bring the user back.                                *)
(***************************************************************************)
DeletedStaysDeleted ==
  [][\A u \in Users : users[u] = None /\ users'[u] # None =>
       \E c \in Callers : /\ stage[c] = "ready"
                          /\ req[c].kind = "create"
                          /\ req[c].user = u]_vars

(***************************************************************************)
(* client.go:77 "deletes users whose updated_at is older than olderThan":  *)
(* whenever the DELETE reaches the database, the rows it removes are older *)
(* than TTL by the clock of that moment.                                   *)
(***************************************************************************)
SweepSparesFresh ==
  [][\A u \in Users : users[u] # None /\ users'[u] = None =>
       now - users[u].updated_at > TTL]_vars

(***************************************************************************)
(* What the comments of client.go promise of each operation.               *)
(***************************************************************************)
Returns(c, kind) ==
  stage[c] = "ready" /\ req[c].kind = kind /\ reply'[c] = "ok"

(***************************************************************************)
(* client.go:110 "AddToUser adds a ticket to the user's tickets array in   *)
(* the users table": the array that was there, and the ticket.             *)
(***************************************************************************)
AddOnlyAdds ==
  [][\A c \in Callers : Returns(c, "add") /\ users[req[c].user] # None =>
       users'[req[c].user].tickets
         = users[req[c].user].tickets \cup {req[c].card}]_vars

(***************************************************************************)
(* The same line: an AddToUser that returns nil has stored its ticket.     *)
(***************************************************************************)
AddIsStored ==
  [][\A c \in Callers : Returns(c, "add") => users'[req[c].user] # None]_vars

-----------------------------------------------------------------------------
(***************************************************************************)
(* With calls that do not overlap the table implements AtomicBoards.       *)
(***************************************************************************)
Boards == INSTANCE AtomicBoards WITH
            NewBoards <- {Defaults(D) : D \in DefaultSets},
            boards    <- [u \in {v \in Users : users[v] # None} |->
                            users[u].tickets]

\* Every client operation takes effect at once, or not at all.
ImplementsAtomicBoards == Boards!Spec

(***************************************************************************)
(* Liveness.                                                               *)
(***************************************************************************)

(***************************************************************************)
(* A user who stays away is deleted in the end, whatever happens to single *)
(* sweeps, unless the program is shutting down.                            *)
(***************************************************************************)
ExpiredRowsSwept ==
  \A u \in Users :
    (users[u] # None /\ users[u].updated_at < now - TTL) ~>
      \/ users[u] = None
      \/ users[u].updated_at >= now - TTL
      \/ cancelled

=============================================================================
