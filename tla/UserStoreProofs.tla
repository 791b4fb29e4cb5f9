-------------------------- MODULE UserStoreProofs --------------------------
(***************************************************************************)
(* Proofs about the users table and its client, for every number of users, *)
(* tickets, callers and workers, every TTL and every length of time.       *)
(***************************************************************************)
EXTENDS UserStore, TLAPS

-----------------------------------------------------------------------------
(***************************************************************************)
(* The inductive invariants.                                               *)
(***************************************************************************)

\* A call in flight has arguments, and a stamp from the past when it writes.
CallSound ==
  \A c \in Callers :
    /\ IF stage[c] = "idle" THEN buf[c] = {} ELSE req[c] \in Request
    /\ stage[c] = "ready" => stamp[c] \in 0..now

\* However long ago a cutoff was computed, it is no later than one of now.
ClockSound == \A w \in Workers : cutoff[w] <= now - TTL

StoreInv == TypeOK /\ CallSound /\ ClockSound

-----------------------------------------------------------------------------
(***************************************************************************)
(* Lemmas about requests and what they change in memory.                   *)
(***************************************************************************)

\* The arguments of a call, by its kind.
LEMMA RequestShape ==
  ASSUME NEW r \in Request
  PROVE  /\ r.user \in Users
         /\ r.kind \in {"create", "add", "remove", "put"}
         /\ r.kind = "create" => r.ids \in DefaultSets
         /\ r.kind = "add" => r.card \in Ticket
         /\ r.kind = "remove" => r.id \in Ids
         /\ r.kind = "put" => r.form \in Forms
<1>1. CASE r \in [kind : {"create"}, user : Users, ids : DefaultSets]
  BY <1>1
<1>2. CASE r \in [kind : {"add"}, user : Users, card : Ticket]
  BY <1>2
<1>3. CASE r \in [kind : {"remove"}, user : Users, id : Ids]
  BY <1>3
<1>4. CASE r \in [kind : {"put"}, user : Users, form : Forms]
  BY <1>4
<1> QED
  BY <1>1, <1>2, <1>3, <1>4 DEF Request

LEMMA ChangedType ==
  ASSUME NEW T \in SUBSET Ticket, NEW r \in Request
  PROVE  Changed(T, r) \in SUBSET Ticket
<1>1. \A D \in DefaultSets : Defaults(D) \in SUBSET Ticket
  BY DefaultsAssumption DEF Defaults, Ticket
<1> QED
  BY <1>1, RequestShape DEF Changed, Appended, Without, Rearranged

-----------------------------------------------------------------------------
(***************************************************************************)
(* What the steps have in common.                                          *)
(***************************************************************************)

\* A call begins with arguments of its kind and the tickets it read.
LEMMA CallBegins ==
  ASSUME TypeOK, NEW c \in Callers, Call(c)
  PROVE  \/ Refuse(c)
         \/ \E r \in Request, T \in SUBSET Ticket : Begin(c, r, T)
<1> USE DEF TypeOK
<1>1. ASSUME NEW u \in Users, NEW D \in DefaultSets, CreateUser(c, u, D)
      PROVE  \E r \in Request, T \in SUBSET Ticket : Begin(c, r, T)
  <2>1. [kind |-> "create", user |-> u, ids |-> D] \in Request
    BY DEF Request
  <2> QED
    BY <1>1, <2>1 DEF CreateUser
<1>2. ASSUME NEW u \in Users, users[u] # None
      PROVE  users[u].tickets \in SUBSET Ticket
  BY <1>2 DEF Row
<1>3. ASSUME NEW u \in Users, NEW t \in Ticket, AddToUser(c, u, t)
      PROVE  \E r \in Request, T \in SUBSET Ticket : Begin(c, r, T)
  <2>1. [kind |-> "add", user |-> u, card |-> t] \in Request
    BY DEF Request
  <2> QED
    BY <1>2, <1>3, <2>1 DEF AddToUser
<1>4. ASSUME NEW u \in Users, NEW id \in Ids, DeleteTodoByUserAndTodoId(c, u, id)
      PROVE  \E r \in Request, T \in SUBSET Ticket : Begin(c, r, T)
  <2>1. [kind |-> "remove", user |-> u, id |-> id] \in Request
    BY DEF Request
  <2> QED
    BY <1>2, <1>4, <2>1 DEF DeleteTodoByUserAndTodoId
<1>5. ASSUME NEW u \in Users, NEW form \in Forms, GetAllByUser(c, u, form)
      PROVE  \E r \in Request, T \in SUBSET Ticket : Begin(c, r, T)
  <2>1. [kind |-> "put", user |-> u, form |-> form] \in Request
    BY DEF Request
  <2> QED
    BY <1>2, <1>5, <2>1 DEF GetAllByUser
<1> QED
  BY <1>1, <1>3, <1>4, <1>5 DEF Call

\* A statement writes the row of its call and marks the others, or nothing.
Written(c) == [tickets |-> buf[c], updated_at |-> stamp[c]]

LEMMA WriteEffect ==
  ASSUME StoreInv, NEW c \in Callers, WriteOk(c) \/ WriteError(c)
  PROVE  /\ stage[c] = "ready" /\ req[c] \in Request
         /\ Written(c) \in Row
         /\ UNCHANGED <<born, owner, now, worker, cutoff, cancelled>>
         /\ stage' = [stage EXCEPT ![c] = "idle"]
         /\ req' = [req EXCEPT ![c] = None]
         /\ buf' = [buf EXCEPT ![c] = {}]
         /\ stamp' = [stamp EXCEPT ![c] = None]
         /\ reply' \in [Callers -> {"none", "ok", "error"}]
         /\ \/ UNCHANGED <<users, overtaken>>
            \/ /\ Hits(c)
               /\ users' = [users EXCEPT ![req[c].user] = Written(c)]
               /\ Overtake({req[c].user})
<1>1. stage[c] = "ready" /\ (Execute(c) \/ UNCHANGED <<users, overtaken>>)
  BY DEF WriteOk, WriteError
<1>2. stage[c] = "ready" /\ req[c] \in Request /\ stamp[c] \in 0..now
  BY DEF WriteOk, WriteError, StoreInv, CallSound
<1>3. Written(c) \in Row
  BY <1>2, TimeAssumption DEF Written, Row, StoreInv, TypeOK
<1>4. PICK result \in {"ok", "error"} : Return(c, result)
  BY DEF WriteOk, WriteError
<1> QED
  BY <1>1, <1>2, <1>3, <1>4
     DEF WriteOk, WriteError, Execute, Return, Written, workerVars, StoreInv,
         TypeOK

\* A sweep deletes the expired rows and marks the calls on them, or nothing.
LEMMA SweepEffect ==
  ASSUME NEW w \in Workers, SweepOk(w) \/ SweepError(w)
  PROVE  /\ UNCHANGED <<now, callVars, cutoff, cancelled>>
         /\ worker' = [worker EXCEPT ![w] = "waiting"]
         /\ Delete(w) \/ UNCHANGED <<users, overtaken>>
BY DEF SweepOk, SweepError

LEMMA OvertakeType ==
  ASSUME TypeOK, NEW S, Overtake(S)
  PROVE  overtaken' \in [Callers -> BOOLEAN]
<1>1. \A d \in Callers :
        (overtaken[d] \/ (stage[d] # "idle" /\ req[d].user \in S)) \in BOOLEAN
  OBVIOUS
<1> QED
  BY <1>1, Zenon DEF Overtake

-----------------------------------------------------------------------------
(***************************************************************************)
(* Type correctness.                                                       *)
(***************************************************************************)

LEMMA StoreStep ==
  ASSUME StoreInv, [Next]_vars
  PROVE  StoreInv'
<1> USE TimeAssumption DEF StoreInv, TypeOK, CallSound, ClockSound
<1>1. ASSUME NEW c \in Callers, NEW r \in Request, NEW T \in SUBSET Ticket,
             Begin(c, r, T), born' \in SUBSET Users,
             owner' \in [Ids -> Users \cup {None}]
      PROVE  StoreInv'
  BY <1>1 DEF Begin, Stages, workerVars
<1>2. ASSUME NEW c \in Callers, Call(c)
      PROVE  /\ born' \in SUBSET Users
             /\ owner' \in [Ids -> Users \cup {None}]
  <2>1. \A u \in Users, D \in DefaultSets : CreateUser(c, u, D) =>
          born' \in SUBSET Users /\ UNCHANGED owner
    BY DEF CreateUser
  <2>2. \A u \in Users, t \in Ticket : AddToUser(c, u, t) =>
          UNCHANGED born /\ owner' \in [Ids -> Users \cup {None}]
    BY DEF AddToUser
  <2>3. \A u \in Users, id \in Ids : DeleteTodoByUserAndTodoId(c, u, id) =>
          UNCHANGED <<born, owner>>
    BY DEF DeleteTodoByUserAndTodoId
  <2>4. \A u \in Users, form \in Forms : GetAllByUser(c, u, form) =>
          UNCHANGED <<born, owner>>
    BY DEF GetAllByUser
  <2>5. Refuse(c) => UNCHANGED <<born, owner>>
    BY DEF Refuse
  <2> QED
    BY <1>2, <2>1, <2>2, <2>3, <2>4, <2>5 DEF Call
<1>3. ASSUME NEW c \in Callers, Refuse(c) PROVE StoreInv'
  BY <1>3 DEF Refuse, workerVars
<1>4. ASSUME NEW c \in Callers, Call(c) PROVE StoreInv'
  BY <1>1, <1>2, <1>3, <1>4, CallBegins
<1>5. ASSUME NEW c \in Callers, Prepare(c) PROVE StoreInv'
  <2>1. Changed(buf[c], req[c]) \in SUBSET Ticket
    BY <1>5, ChangedType DEF Prepare
  <2> QED
    BY <1>5, <2>1 DEF Prepare, Stages, workerVars
<1>6. ASSUME NEW c \in Callers, WriteOk(c) \/ WriteError(c) PROVE StoreInv'
  <2>1. users' \in [Users -> Row \cup {None}]
    BY <1>6, WriteEffect
  <2>2. overtaken' \in [Callers -> BOOLEAN]
    <3>1. UNCHANGED overtaken \/ Overtake({req[c].user})
      BY <1>6, WriteEffect
    <3> QED
      BY <3>1, OvertakeType
  <2>3. /\ stage' = [stage EXCEPT ![c] = "idle"]
        /\ req' = [req EXCEPT ![c] = None]
        /\ buf' = [buf EXCEPT ![c] = {}]
        /\ stamp' = [stamp EXCEPT ![c] = None]
        /\ reply' \in [Callers -> {"none", "ok", "error"}]
        /\ UNCHANGED <<born, owner, now, worker, cutoff, cancelled>>
    BY <1>6, WriteEffect
  <2>4. TypeOK'
    BY <2>1, <2>2, <2>3 DEF Stages
  <2>5. CallSound' /\ ClockSound'
    BY <2>3
  <2> QED
    BY <2>4, <2>5
<1>7. ASSUME NEW w \in Workers, TickerFires(w) PROVE StoreInv'
  BY <1>7 DEF TickerFires, callVars
<1>8. ASSUME NEW w \in Workers, SweepOk(w) \/ SweepError(w) PROVE StoreInv'
  <2>1. users' \in [Users -> Row \cup {None}]
    BY <1>8, SweepEffect DEF Delete
  <2>2. overtaken' \in [Callers -> BOOLEAN]
    <3>1. UNCHANGED overtaken \/ Overtake(Expired(w))
      BY <1>8, SweepEffect DEF Delete
    <3> QED
      BY <3>1, OvertakeType
  <2> QED
    BY <1>8, <2>1, <2>2, SweepEffect DEF callVars
<1>9. ASSUME NEW w \in Workers, StopWorker(w) PROVE StoreInv'
  BY <1>9 DEF StopWorker, callVars
<1>10. ASSUME Cancel PROVE StoreInv'
  BY <1>10 DEF Cancel, callVars
<1>11. ASSUME Tick PROVE StoreInv'
  BY <1>11 DEF Tick, callVars, workerVars
<1>12. CASE UNCHANGED vars
  BY <1>12 DEF vars, callVars, workerVars
<1> QED
  BY <1>4, <1>5, <1>6, <1>7, <1>8, <1>9, <1>10, <1>11, <1>12
     DEF Next, CallStep, WorkerStep

LEMMA StoreInduction == Spec => []StoreInv
<1>1. Init => StoreInv
  <2>1. Init => 0 \in 0..MaxTime /\ -TTL \in Int /\ -TTL <= 0 - TTL
    BY TimeAssumption
  <2>2. Init => overtaken \in [Callers -> BOOLEAN] /\ cancelled \in BOOLEAN
    BY Zenon DEF Init
  <2>3. Init => cutoff \in [Workers -> Int] /\ now \in 0..MaxTime
    BY <2>1, Zenon DEF Init
  <2>4. Init => TypeOK
    BY <2>2, <2>3 DEF Init, TypeOK, Stages
  <2> QED
    BY <2>1, <2>4 DEF Init, StoreInv, CallSound, ClockSound
<1> QED
  BY <1>1, StoreStep, PTL DEF Spec

\* The table and the calls keep their types: no row is written without a
\* stamp, and no call has tickets that are none.
THEOREM TypeCorrect == Spec => []TypeOK
<1>1. StoreInv => TypeOK
  BY DEF StoreInv
<1> QED
  BY <1>1, StoreInduction, PTL

-----------------------------------------------------------------------------
(***************************************************************************)
(* Rows that disappear and rows that appear.                               *)
(***************************************************************************)

\* A statement of a call leaves no row missing, and adds one only for create.
LEMMA WriteKeepsRows ==
  ASSUME StoreInv, NEW c \in Callers, WriteOk(c) \/ WriteError(c),
         NEW u \in Users
  PROVE  /\ users[u] # None => users'[u] # None
         /\ users[u] = None /\ users'[u] # None =>
              req[c].kind = "create" /\ req[c].user = u
<1>1. CASE UNCHANGED users
  BY <1>1
<1>2. CASE /\ Hits(c)
           /\ users' = [users EXCEPT ![req[c].user] = Written(c)]
  <2>1. req[c] \in Request /\ Written(c) # None
    BY WriteEffect, NoneAssumption
  <2>2. CASE u = req[c].user
    BY <1>2, <2>1, <2>2, RequestShape DEF Hits, StoreInv, TypeOK
  <2>3. CASE u # req[c].user
    BY <1>2, <2>3 DEF StoreInv, TypeOK
  <2> QED
    BY <2>2, <2>3
<1> QED
  BY <1>1, <1>2, WriteEffect

\* Only statements of calls and sweeps touch the table.
LEMMA TableFrame ==
  ASSUME [Next]_vars
  PROVE  \/ UNCHANGED users
         \/ \E c \in Callers : WriteOk(c) \/ WriteError(c)
         \/ \E w \in Workers : SweepOk(w) \/ SweepError(w)
<1>1. ASSUME NEW c \in Callers, Call(c) PROVE UNCHANGED users
  BY <1>1 DEF Call, CreateUser, AddToUser, DeleteTodoByUserAndTodoId,
              GetAllByUser, Begin, Refuse
<1>2. ASSUME NEW c \in Callers, Prepare(c) PROVE UNCHANGED users
  BY <1>2 DEF Prepare
<1>3. ASSUME NEW w \in Workers, TickerFires(w) \/ StopWorker(w)
      PROVE  UNCHANGED users
  BY <1>3 DEF TickerFires, StopWorker
<1>4. Cancel \/ Tick \/ UNCHANGED vars => UNCHANGED users
  BY DEF Cancel, Tick, vars
<1> QED
  BY <1>1, <1>2, <1>3, <1>4 DEF Next, CallStep, WorkerStep

(***************************************************************************)
(* client.go:77: a row that a sweep removes is older than TTL when it goes,*)
(* however long ago the cutoff was computed, and nothing else removes one. *)
(***************************************************************************)
THEOREM SweepCorrect == Spec => SweepSparesFresh
<1> DEFINE Spared(u) == users[u] # None /\ users'[u] = None =>
                          now - users[u].updated_at > TTL
<1>1. ASSUME StoreInv, [Next]_vars, NEW u \in Users PROVE Spared(u)
  <2>1. ASSUME NEW w \in Workers, SweepOk(w) \/ SweepError(w) PROVE Spared(u)
    <3>1. CASE UNCHANGED users
      BY <3>1
    <3>2. CASE Delete(w) /\ u \in Expired(w)
      <4>1. users[u] \in Row /\ users[u].updated_at < cutoff[w]
        BY <1>1, <3>2 DEF Expired, StoreInv, TypeOK
      <4>2. users[u].updated_at \in Int /\ cutoff[w] \in Int /\ now \in Int
        BY <1>1, <4>1, TimeAssumption DEF Row, StoreInv, TypeOK
      <4> QED
        BY <1>1, <4>1, <4>2, TimeAssumption DEF StoreInv, ClockSound
    <3>3. CASE Delete(w) /\ u \notin Expired(w)
      BY <3>3 DEF Delete
    <3> QED
      BY <2>1, <3>1, <3>2, <3>3, SweepEffect
  <2>2. ASSUME NEW c \in Callers, WriteOk(c) \/ WriteError(c) PROVE Spared(u)
    BY <1>1, <2>2, WriteKeepsRows
  <2> QED
    BY <1>1, <2>1, <2>2, TableFrame
<1>2. StoreInv /\ [Next]_vars => [\A u \in Users : Spared(u)]_vars
  BY <1>1
<1> QED
  BY <1>2, StoreInduction, PTL DEF Spec, SweepSparesFresh

(***************************************************************************)
(* A row that a sweep deleted comes back through no call but the one that  *)
(* creates its user.                                                       *)
(***************************************************************************)
THEOREM DeletedCorrect == Spec => DeletedStaysDeleted
<1> DEFINE Created(u) == users[u] = None /\ users'[u] # None =>
             \E c \in Callers : /\ stage[c] = "ready"
                                /\ req[c].kind = "create"
                                /\ req[c].user = u
<1>1. ASSUME StoreInv, [Next]_vars, NEW u \in Users PROVE Created(u)
  <2>1. ASSUME NEW w \in Workers, SweepOk(w) \/ SweepError(w)
        PROVE  users[u] = None => users'[u] = None
    BY <2>1, SweepEffect DEF Delete, Expired
  <2>2. ASSUME NEW c \in Callers, WriteOk(c) \/ WriteError(c)
        PROVE  Created(u)
    BY <1>1, <2>2, WriteKeepsRows, WriteEffect
  <2> QED
    BY <1>1, <2>1, <2>2, TableFrame
<1>2. StoreInv /\ [Next]_vars => [\A u \in Users : Created(u)]_vars
  BY <1>1
<1> QED
  BY <1>2, StoreInduction, PTL DEF Spec, DeletedStaysDeleted

-----------------------------------------------------------------------------
(***************************************************************************)
(* Cards and their owners.                                                 *)
(***************************************************************************)

\* A set of tickets that the board of u could be.
Proper(T, u) == OneCard(T) /\ \A t \in T : t.id \in OwnIds(u)

\* The new ticket of an AddToUser is its user's, and not on the board it read.
AddSound ==
  \A c \in Callers : stage[c] # "idle" /\ req[c].kind = "add" =>
    /\ req[c].card.id \in OwnIds(req[c].user)
    /\ stage[c] = "fetched" => \A t \in buf[c] : t.id # req[c].card.id

CardInv == StoreInv /\ OneCardPerId /\ OwnTickets /\ AddSound

\* A change in memory merges no statuses and takes no foreign ticket.
LEMMA ChangedProper ==
  ASSUME NEW r \in Request, NEW T \in SUBSET Ticket, Proper(T, r.user),
         r.kind = "add" => /\ r.card.id \in OwnIds(r.user)
                           /\ \A t \in T : t.id # r.card.id
  PROVE  Proper(Changed(T, r), r.user)
<1> USE RequestShape DEF Proper, OneCard, Changed
<1>1. CASE r.kind = "create"
  BY <1>1 DEF Defaults, DefaultIds, OwnIds
<1>2. CASE r.kind = "add"
  BY <1>2 DEF Appended
<1>3. CASE r.kind = "remove"
  BY <1>3 DEF Without
<1>4. CASE r.kind = "put"
  <2>1. \A s, t \in Ticket : s.id = t.id /\ s.status = t.status => s = t
    BY DEF Ticket
  <2> QED
    BY <1>4, <2>1 DEF Rearranged
<1> QED
  BY <1>1, <1>2, <1>3, <1>4

\* Who may have a ticket never changes.
LEMMA OwnGrows ==
  ASSUME StoreInv, [Next]_vars, NEW u \in Users
  PROVE  OwnIds(u) \subseteq OwnIds(u)'
<1>1. ASSUME NEW c \in Callers, NEW v \in Users, NEW t \in Ticket,
             AddToUser(c, v, t)
      PROVE  OwnIds(u) \subseteq OwnIds(u)'
  BY <1>1, NoneAssumption DEF AddToUser, OwnIds, StoreInv, TypeOK
<1>2. ASSUME NEW c \in Callers, Call(c) PROVE OwnIds(u) \subseteq OwnIds(u)'
  <2>1. UNCHANGED owner \/ \E v \in Users, t \in Ticket : AddToUser(c, v, t)
    BY <1>2 DEF Call, CreateUser, DeleteTodoByUserAndTodoId, GetAllByUser,
                Refuse
  <2> QED
    BY <1>1, <2>1 DEF OwnIds
<1>3. ASSUME NEW c \in Callers, Prepare(c) \/ WriteOk(c) \/ WriteError(c)
      PROVE  UNCHANGED owner
  BY <1>3 DEF Prepare, WriteOk, WriteError
<1>4. ASSUME NEW w \in Workers, WorkerStep(w) PROVE UNCHANGED owner
  BY <1>4 DEF WorkerStep, TickerFires, SweepOk, SweepError, StopWorker, callVars
<1>5. Cancel \/ Tick \/ UNCHANGED vars => UNCHANGED owner
  BY DEF Cancel, Tick, vars, callVars
<1> QED
  BY <1>2, <1>3, <1>4, <1>5 DEF Next, CallStep, OwnIds

\* A call begins with what its row may have, and a fresh ticket if it adds one.
LEMMA BeginProper ==
  ASSUME CardInv, NEW c \in Callers, Call(c), ~Refuse(c)
  PROVE  \E r \in Request, T \in SUBSET Ticket :
           /\ Begin(c, r, T)
           /\ Proper(T, r.user)
           /\ r.kind = "add" => /\ r.card.id \in OwnIds(r.user)'
                                /\ \A t \in T : t.id # r.card.id
<1> DEFINE Goal == \E r \in Request, T \in SUBSET Ticket :
                     /\ Begin(c, r, T)
                     /\ Proper(T, r.user)
                     /\ r.kind = "add" => /\ r.card.id \in OwnIds(r.user)'
                                          /\ \A t \in T : t.id # r.card.id
<1>1. ASSUME NEW u \in Users, users[u] # None
      PROVE  /\ users[u].tickets \in SUBSET Ticket
             /\ Proper(users[u].tickets, u)
  BY <1>1 DEF CardInv, OneCardPerId, OwnTickets, Proper, StoreInv, TypeOK, Row
<1>2. ASSUME NEW u \in Users, NEW D \in DefaultSets, CreateUser(c, u, D)
      PROVE  Goal
  <2>1. [kind |-> "create", user |-> u, ids |-> D] \in Request
    BY DEF Request
  <2>2. Proper({}, u)
    BY DEF Proper, OneCard
  <2> QED
    BY <1>2, <2>1, <2>2 DEF CreateUser
<1>3. ASSUME NEW u \in Users, NEW t \in Ticket, AddToUser(c, u, t) PROVE Goal
  <2> DEFINE r == [kind |-> "add", user |-> u, card |-> t]
  <2>1. r \in Request
    BY DEF Request
  <2>2. t.id \in Ids /\ t.id \in OwnIds(u)'
    BY <1>3 DEF AddToUser, OwnIds, CardInv, StoreInv, TypeOK, Ticket
  <2>3. t.id \notin OwnIds(u)
    BY <1>3, NoneAssumption DEF AddToUser, OwnIds
  <2>4. \A x \in users[u].tickets : x.id # t.id
    BY <1>1, <1>3, <2>3 DEF AddToUser, Proper
  <2>5. /\ Begin(c, r, users[u].tickets)
        /\ users[u].tickets \in SUBSET Ticket
        /\ Proper(users[u].tickets, u)
    BY <1>1, <1>3 DEF AddToUser
  <2>6. r.user = u /\ r.card = t
    OBVIOUS
  <2> HIDE DEF r
  <2> QED
    BY <2>1, <2>2, <2>4, <2>5, <2>6
<1>4. ASSUME NEW u \in Users, NEW id \in Ids, DeleteTodoByUserAndTodoId(c, u, id)
      PROVE  Goal
  <2>1. [kind |-> "remove", user |-> u, id |-> id] \in Request
    BY DEF Request
  <2> QED
    BY <1>1, <1>4, <2>1 DEF DeleteTodoByUserAndTodoId
<1>5. ASSUME NEW u \in Users, NEW form \in Forms, GetAllByUser(c, u, form)
      PROVE  Goal
  <2>1. [kind |-> "put", user |-> u, form |-> form] \in Request
    BY DEF Request
  <2> QED
    BY <1>1, <1>5, <2>1 DEF GetAllByUser
<1> QED
  BY <1>2, <1>3, <1>4, <1>5 DEF Call

LEMMA CardStep ==
  ASSUME CardInv, [Next]_vars
  PROVE  CardInv'
<1> DEFINE Rows  == \A u \in Users : users[u] # None => Proper(users[u].tickets, u)
           Calls == \A c \in Callers : stage[c] # "idle" =>
                      /\ Proper(buf[c], req[c].user)
                      /\ req[c].kind = "add" =>
                           /\ req[c].card.id \in OwnIds(req[c].user)
                           /\ stage[c] = "fetched" =>
                                \A t \in buf[c] : t.id # req[c].card.id
<1>1. StoreInv /\ StoreInv'
  BY StoreStep DEF CardInv
<1>2. Rows /\ Calls
  BY DEF CardInv, OneCardPerId, OwnTickets, AddSound, Proper
<1>3. ASSUME Rows', Calls' PROVE CardInv'
  <2>1. \A c \in Callers : stage'[c] = "idle" => buf'[c] = {}
    BY <1>1 DEF StoreInv, CallSound
  <2> QED
    BY <1>1, <1>3, <2>1
       DEF CardInv, OneCardPerId, OwnTickets, AddSound, Proper, OneCard
<1>4. \A u \in Users : OwnIds(u) \subseteq OwnIds(u)'
  BY <1>1, OwnGrows
<1>5. \A T, u : u \in Users /\ Proper(T, u) => Proper(T, u)'
  BY <1>4 DEF Proper, OneCard
<1>6. \A c \in Callers : stage[c] # "idle" => req[c].user \in Users
  BY <1>1, RequestShape DEF StoreInv, CallSound
<1>7. ASSUME UNCHANGED users PROVE Rows'
  BY <1>2, <1>5, <1>7
<1>8. ASSUME UNCHANGED <<stage, req, buf>> PROVE Calls'
  BY <1>2, <1>4, <1>5, <1>6, <1>8
<1>9. ASSUME NEW c \in Callers, Call(c) PROVE CardInv'
  <2>1. CASE Refuse(c)
    BY <1>3, <1>7, <1>8, <2>1 DEF Refuse
  <2>2. CASE ~Refuse(c)
    <3>1. PICK r \in Request, T \in SUBSET Ticket :
            /\ Begin(c, r, T)
            /\ Proper(T, r.user)
            /\ r.kind = "add" => /\ r.card.id \in OwnIds(r.user)'
                                 /\ \A t \in T : t.id # r.card.id
      BY <1>9, <2>2, BeginProper
    <3>2. /\ stage' = [stage EXCEPT ![c] = "fetched"]
          /\ req' = [req EXCEPT ![c] = r]
          /\ buf' = [buf EXCEPT ![c] = T]
          /\ UNCHANGED users
      BY <3>1 DEF Begin
    <3>3. Proper(T, r.user)'
      BY <1>5, <3>1, RequestShape
    <3>4. Calls'
      BY <1>1, <1>2, <1>4, <1>5, <1>6, <3>1, <3>2, <3>3 DEF StoreInv, TypeOK
    <3> QED
      BY <1>3, <1>7, <3>2, <3>4
  <2> QED
    BY <2>1, <2>2
<1>10. ASSUME NEW c \in Callers, Prepare(c) PROVE CardInv'
  <2>1. /\ stage[c] = "fetched"
        /\ stage' = [stage EXCEPT ![c] = "ready"]
        /\ buf' = [buf EXCEPT ![c] = Changed(@, req[c])]
        /\ UNCHANGED <<users, req>>
    BY <1>10 DEF Prepare
  <2>2. Proper(Changed(buf[c], req[c]), req[c].user)
    BY <1>1, <1>2, <2>1, ChangedProper DEF StoreInv, TypeOK, CallSound
  <2>3. Calls'
    BY <1>1, <1>2, <1>4, <1>5, <1>6, <2>1, <2>2 DEF StoreInv, TypeOK
  <2> QED
    BY <1>3, <1>7, <2>1, <2>3
<1>11. ASSUME NEW c \in Callers, WriteOk(c) \/ WriteError(c) PROVE CardInv'
  <2>1. /\ stage[c] = "ready"
        /\ stage' = [stage EXCEPT ![c] = "idle"]
        /\ req' = [req EXCEPT ![c] = None]
        /\ buf' = [buf EXCEPT ![c] = {}]
        /\ UNCHANGED users \/ users' = [users EXCEPT ![req[c].user] = Written(c)]
    BY <1>1, <1>11, WriteEffect
  <2>2. Calls'
    BY <1>1, <1>2, <1>4, <1>5, <1>6, <2>1 DEF StoreInv, TypeOK
  <2>3. ASSUME users' = [users EXCEPT ![req[c].user] = Written(c)] PROVE Rows'
    <3>1. Written(c).tickets = buf[c] /\ Proper(buf[c], req[c].user)
      BY <1>2, <2>1 DEF Written
    <3> QED
      BY <1>1, <1>2, <1>5, <1>6, <2>1, <2>3, <3>1 DEF StoreInv, TypeOK
  <2> QED
    BY <1>3, <1>7, <2>1, <2>2, <2>3
<1>12. ASSUME NEW w \in Workers, WorkerStep(w) PROVE CardInv'
  <2>1. UNCHANGED <<stage, req, buf>>
    BY <1>12 DEF WorkerStep, TickerFires, SweepOk, SweepError, StopWorker,
                 callVars
  <2>2. UNCHANGED users \/ Delete(w)
    BY <1>12 DEF WorkerStep, TickerFires, SweepOk, SweepError, StopWorker
  <2>3. Delete(w) => Rows'
    BY <1>2, <1>5 DEF Delete
  <2> QED
    BY <1>3, <1>7, <1>8, <2>1, <2>2, <2>3
<1>13. CASE Cancel \/ Tick \/ UNCHANGED vars
  <2>1. UNCHANGED <<users, stage, req, buf>>
    BY <1>13 DEF Cancel, Tick, vars, callVars
  <2> QED
    BY <1>3, <1>7, <1>8, <2>1
<1> QED
  BY <1>9, <1>10, <1>11, <1>12, <1>13 DEF Next, CallStep

LEMMA CardInduction == Spec => []CardInv
<1>1. Init /\ StoreInv => CardInv
  BY DEF Init, CardInv, OneCardPerId, OwnTickets, AddSound, OneCard
<1>2. Init /\ []StoreInv => CardInv
  BY <1>1, PTL
<1> QED
  BY <1>2, StoreInduction, CardStep, PTL DEF Spec

(***************************************************************************)
(* However calls and sweeps overlap, no board has a ticket in two columns. *)
(***************************************************************************)
THEOREM CardsCorrect == Spec => []OneCardPerId
<1>1. CardInv => OneCardPerId
  BY DEF CardInv
<1> QED
  BY <1>1, CardInduction, PTL

(***************************************************************************)
(* A ticket never gets to the board, or into the memory of a call, of a    *)
(* user it was not created for.                                            *)
(***************************************************************************)
THEOREM OwnersCorrect == Spec => []OwnTickets
<1>1. CardInv => OwnTickets
  BY DEF CardInv
<1> QED
  BY <1>1, CardInduction, PTL

-----------------------------------------------------------------------------
(***************************************************************************)
(* Calls that nobody overtook.                                             *)
(***************************************************************************)

\* What the row of u has, if there is one.
Stored(u) == IF users[u] = None THEN {} ELSE users[u].tickets

\* A row is only ever written for a uuid that CreateUser drew.
BornFirst ==
  /\ \A u \in Users : users[u] # None => u \in born
  /\ \A c \in Callers : stage[c] # "idle" => req[c].user \in born

\* What call c, not overtaken, has in memory is its row, or its row changed.
InStep(c) ==
  /\ buf[c] = IF stage[c] = "fetched" THEN Stored(req[c].user)
              ELSE Changed(Stored(req[c].user), req[c])
  /\ Hits(c)

Snapshot == \A c \in Callers : stage[c] # "idle" /\ ~overtaken[c] => InStep(c)

SnapshotInv == StoreInv /\ BornFirst /\ Snapshot

\* A call begins on a row, or on a uuid that has none.
LEMMA BeginSnapshot ==
  ASSUME SnapshotInv, NEW c \in Callers, Call(c), ~Refuse(c)
  PROVE  \E r \in Request :
           /\ Begin(c, r, Stored(r.user))
           /\ r.user \in born' /\ born \subseteq born'
           /\ r.kind = "create" \/ users[r.user] # None
<1> DEFINE Goal == \E r \in Request :
                     /\ Begin(c, r, Stored(r.user))
                     /\ r.user \in born' /\ born \subseteq born'
                     /\ r.kind = "create" \/ users[r.user] # None
<1>0. \A u \in Users : users[u] # None => u \in born
  BY DEF SnapshotInv, BornFirst
<1>1. ASSUME NEW u \in Users, NEW D \in DefaultSets, CreateUser(c, u, D)
      PROVE  Goal
  <2>1. [kind |-> "create", user |-> u, ids |-> D] \in Request
    BY DEF Request
  <2>2. Stored(u) = {}
    BY <1>0, <1>1 DEF CreateUser, Stored
  <2> QED
    BY <1>1, <2>1, <2>2 DEF CreateUser
<1>2. ASSUME NEW u \in Users, NEW t \in Ticket, AddToUser(c, u, t) PROVE Goal
  <2>1. [kind |-> "add", user |-> u, card |-> t] \in Request
    BY DEF Request
  <2> QED
    BY <1>0, <1>2, <2>1 DEF AddToUser, Stored
<1>3. ASSUME NEW u \in Users, NEW id \in Ids, DeleteTodoByUserAndTodoId(c, u, id)
      PROVE  Goal
  <2>1. [kind |-> "remove", user |-> u, id |-> id] \in Request
    BY DEF Request
  <2> QED
    BY <1>0, <1>3, <2>1 DEF DeleteTodoByUserAndTodoId, Stored
<1>4. ASSUME NEW u \in Users, NEW form \in Forms, GetAllByUser(c, u, form)
      PROVE  Goal
  <2>1. [kind |-> "put", user |-> u, form |-> form] \in Request
    BY DEF Request
  <2> QED
    BY <1>0, <1>4, <2>1 DEF GetAllByUser, Stored
<1> QED
  BY <1>1, <1>2, <1>3, <1>4 DEF Call

\* A call whose row is not among those of S keeps in step.
LEMMA OvertakeKeeps ==
  ASSUME StoreInv, Snapshot, NEW S, Overtake(S), NEW d \in Callers,
         UNCHANGED <<stage[d], req[d], buf[d]>>,
         \A u \in Users \ S : users'[u] = users[u]
  PROVE  (stage[d] # "idle" /\ ~overtaken[d] => InStep(d))'
<1> SUFFICES ASSUME stage'[d] # "idle", ~overtaken'[d]
             PROVE  InStep(d)'
  OBVIOUS
<1>1. stage[d] # "idle" /\ ~overtaken[d] /\ req[d].user \notin S
  BY DEF Overtake
<1>2. req[d].user \in Users
  BY <1>1, RequestShape DEF StoreInv, CallSound
<1>3. users'[req[d].user] = users[req[d].user] /\ InStep(d)
  BY <1>1, <1>2 DEF Snapshot
<1>4. Stored(req[d].user)' = Stored(req[d].user)
  BY <1>3 DEF Stored
<1> QED
  BY <1>3, <1>4 DEF InStep, Hits, Changed

LEMMA SnapshotStep ==
  ASSUME SnapshotInv, [Next]_vars
  PROVE  SnapshotInv'
<1> DEFINE InStepIf(c) == stage[c] # "idle" /\ ~overtaken[c] => InStep(c)
<1>1. StoreInv /\ StoreInv' /\ TypeOK
  BY StoreStep DEF SnapshotInv, StoreInv
<1>2. Snapshot /\ BornFirst
  BY DEF SnapshotInv
<1>3. ASSUME NEW d \in Callers,
             UNCHANGED <<users, stage[d], req[d], buf[d], overtaken[d]>>
      PROVE  InStepIf(d)'
  BY <1>2, <1>3 DEF Snapshot, InStep, Hits, Changed, Stored
<1>4. ASSUME NEW c \in Callers, Call(c) PROVE SnapshotInv'
  <2>1. CASE Refuse(c)
    BY <1>1, <1>2, <1>3, <2>1 DEF Refuse, SnapshotInv, BornFirst, Snapshot
  <2>2. CASE ~Refuse(c)
    <3>1. PICK r \in Request :
            /\ Begin(c, r, Stored(r.user))
            /\ r.user \in born' /\ born \subseteq born'
            /\ r.kind = "create" \/ users[r.user] # None
      BY <1>4, <2>2, BeginSnapshot
    <3>2. /\ stage' = [stage EXCEPT ![c] = "fetched"]
          /\ req' = [req EXCEPT ![c] = r]
          /\ buf' = [buf EXCEPT ![c] = Stored(r.user)]
          /\ overtaken' = [overtaken EXCEPT ![c] = FALSE]
          /\ UNCHANGED users
      BY <3>1 DEF Begin
    <3>3. BornFirst'
      BY <1>1, <1>2, <3>1, <3>2 DEF BornFirst, TypeOK
    <3>4. InStep(c)'
      BY <1>1, <3>1, <3>2 DEF InStep, Hits, Stored, TypeOK
    <3>5. ASSUME NEW d \in Callers \ {c} PROVE InStepIf(d)'
      BY <1>1, <1>3, <3>2 DEF TypeOK
    <3> QED
      BY <1>1, <3>3, <3>4, <3>5 DEF SnapshotInv, Snapshot
  <2> QED
    BY <2>1, <2>2
<1>5. ASSUME NEW c \in Callers, Prepare(c) PROVE SnapshotInv'
  <2>1. /\ stage[c] = "fetched"
        /\ stage' = [stage EXCEPT ![c] = "ready"]
        /\ buf' = [buf EXCEPT ![c] = Changed(@, req[c])]
        /\ UNCHANGED <<users, born, req, overtaken>>
    BY <1>5 DEF Prepare
  <2>2. BornFirst'
    BY <1>1, <1>2, <2>1 DEF BornFirst, TypeOK
  <2>3. InStepIf(c)'
    BY <1>1, <1>2, <2>1 DEF Snapshot, InStep, Hits, Stored, Changed, TypeOK
  <2>4. ASSUME NEW d \in Callers \ {c} PROVE InStepIf(d)'
    BY <1>1, <1>3, <2>1 DEF TypeOK
  <2> QED
    BY <1>1, <2>2, <2>3, <2>4 DEF SnapshotInv, Snapshot
<1>6. ASSUME NEW c \in Callers, WriteOk(c) \/ WriteError(c) PROVE SnapshotInv'
  <2>1. /\ stage[c] = "ready" /\ req[c] \in Request
        /\ stage' = [stage EXCEPT ![c] = "idle"]
        /\ req' = [req EXCEPT ![c] = None]
        /\ buf' = [buf EXCEPT ![c] = {}]
        /\ UNCHANGED born
        /\ \/ UNCHANGED <<users, overtaken>>
           \/ /\ users' = [users EXCEPT ![req[c].user] = Written(c)]
              /\ Overtake({req[c].user})
    BY <1>1, <1>6, WriteEffect
  <2>2. BornFirst'
    BY <1>1, <1>2, <2>1 DEF BornFirst, TypeOK
  <2>3. ASSUME NEW d \in Callers \ {c} PROVE InStepIf(d)'
    <3>1. UNCHANGED <<stage[d], req[d], buf[d]>>
      BY <1>1, <2>1 DEF TypeOK
    <3>2. CASE UNCHANGED <<users, overtaken>>
      BY <1>3, <3>1, <3>2
    <3>3. CASE /\ users' = [users EXCEPT ![req[c].user] = Written(c)]
               /\ Overtake({req[c].user})
      <4>1. \A u \in Users \ {req[c].user} : users'[u] = users[u]
        BY <1>1, <3>3 DEF TypeOK
      <4> QED
        BY <1>1, <1>2, <3>1, <3>3, <4>1, OvertakeKeeps
    <3> QED
      BY <2>1, <3>2, <3>3
  <2>4. InStepIf(c)'
    BY <1>1, <2>1 DEF TypeOK
  <2> QED
    BY <1>1, <2>2, <2>3, <2>4 DEF SnapshotInv, Snapshot
<1>7. ASSUME NEW w \in Workers, SweepOk(w) \/ SweepError(w) PROVE SnapshotInv'
  <2>1. /\ UNCHANGED <<stage, req, buf, born>>
        /\ Delete(w) \/ UNCHANGED <<users, overtaken>>
    BY <1>7, SweepEffect DEF callVars
  <2>2. CASE UNCHANGED <<users, overtaken>>
    BY <1>1, <1>2, <1>3, <2>1, <2>2 DEF SnapshotInv, BornFirst, Snapshot
  <2>3. CASE Delete(w)
    <3>1. \A u \in Users \ Expired(w) : users'[u] = users[u]
      BY <2>3 DEF Delete
    <3>2. BornFirst'
      BY <1>2, <2>1, <2>3 DEF BornFirst, Delete
    <3>3. ASSUME NEW d \in Callers PROVE InStepIf(d)'
      BY <1>1, <1>2, <2>1, <2>3, <3>1, OvertakeKeeps DEF Delete
    <3> QED
      BY <1>1, <3>2, <3>3 DEF SnapshotInv, Snapshot
  <2> QED
    BY <2>1, <2>2, <2>3
<1>8. ASSUME UNCHANGED <<users, born, stage, req, buf, overtaken>>
      PROVE  SnapshotInv'
  BY <1>1, <1>2, <1>3, <1>8 DEF SnapshotInv, BornFirst, Snapshot
<1>9. ASSUME NEW w \in Workers, TickerFires(w) \/ StopWorker(w)
      PROVE  SnapshotInv'
  BY <1>8, <1>9 DEF TickerFires, StopWorker, callVars
<1>10. CASE Cancel \/ Tick \/ UNCHANGED vars
  BY <1>8, <1>10 DEF Cancel, Tick, vars, callVars
<1> QED
  BY <1>4, <1>5, <1>6, <1>7, <1>9, <1>10 DEF Next, CallStep, WorkerStep

LEMMA SnapshotInduction == Spec => []SnapshotInv
<1>1. Init /\ StoreInv => SnapshotInv
  BY DEF Init, SnapshotInv, BornFirst, Snapshot
<1>2. Init /\ []StoreInv => SnapshotInv
  BY <1>1, PTL
<1> QED
  BY <1>2, StoreInduction, SnapshotStep, PTL DEF Spec

(***************************************************************************)
(* A write that nobody overtook, when it succeeds, does to its row what    *)
(* was asked, and nothing to another.                                      *)
(***************************************************************************)
THEOREM UncontendedCorrect == Spec => UncontendedWritesExact
<1> DEFINE Exact(c) ==
      /\ stage[c] = "ready" /\ stage'[c] = "idle"
      /\ ~overtaken[c]
      /\ reply'[c] = "ok"
      => users' = [users EXCEPT ![req[c].user] =
                     [tickets |-> Changed(IF @ = None THEN {} ELSE @.tickets,
                                          req[c]),
                      updated_at |-> stamp[c]]]
<1>1. ASSUME SnapshotInv, [Next]_vars, NEW c \in Callers PROVE Exact(c)
  <2> DEFINE Asked == [users EXCEPT ![req[c].user] =
                        [tickets |-> Changed(IF @ = None THEN {} ELSE @.tickets,
                                             req[c]),
                         updated_at |-> stamp[c]]]
  <2> SUFFICES ASSUME stage[c] = "ready", stage'[c] = "idle", ~overtaken[c],
                      reply'[c] = "ok"
               PROVE  users' = Asked
    OBVIOUS
  <2>0. InStep(c) /\ req[c].user \in Users
    <3>1. req[c] \in Request
      BY <1>1 DEF SnapshotInv, StoreInv, CallSound
    <3>2. stage[c] # "idle"
      OBVIOUS
    <3>3. InStep(c)
      BY <1>1, <3>2, Zenon DEF SnapshotInv, Snapshot
    <3> QED
      BY <3>1, <3>3, RequestShape
  <2>1. TypeOK /\ StoreInv /\ Hits(c)
    BY <1>1, <2>0 DEF SnapshotInv, InStep, StoreInv
  <2>2. ASSUME NEW d \in Callers, CallStep(d) PROVE d = c
    BY <2>1, <2>2 DEF CallStep, Call, CreateUser, AddToUser,
       DeleteTodoByUserAndTodoId, GetAllByUser, Begin, Refuse, Prepare,
       WriteOk, WriteError, Return, TypeOK
  <2>3. CallStep(c)
    <3>1. ~UNCHANGED stage
      OBVIOUS
    <3>2. ASSUME NEW w \in Workers, WorkerStep(w) PROVE UNCHANGED stage
      BY <3>2 DEF WorkerStep, TickerFires, SweepOk, SweepError, StopWorker,
                  callVars
    <3>3. Cancel \/ Tick \/ UNCHANGED vars => UNCHANGED stage
      BY DEF Cancel, Tick, vars, callVars
    <3> QED
      BY <1>1, <2>2, <3>1, <3>2, <3>3 DEF Next
  <2>4. WriteOk(c)
    <3>1. ~WriteError(c)
      BY <2>1 DEF WriteError, Return, TypeOK
    <3>2. ~Call(c) /\ ~Prepare(c)
      BY DEF Call, CreateUser, AddToUser, DeleteTodoByUserAndTodoId,
             GetAllByUser, Begin, Refuse, Prepare
    <3> QED
      BY <2>3, <3>1, <3>2 DEF CallStep
  <2>5. users' = [users EXCEPT ![req[c].user] = Written(c)]
    BY <2>1, <2>4 DEF WriteOk, Execute, Written
  <2>6. Asked = [users EXCEPT ![req[c].user] = Written(c)]
    BY <2>0, <2>1 DEF InStep, Stored, Written, TypeOK
  <2> QED
    BY <2>5, <2>6
<1>2. SnapshotInv /\ [Next]_vars => [\A c \in Callers : Exact(c)]_vars
  BY <1>1
<1> QED
  BY <1>2, SnapshotInduction, PTL DEF Spec, UncontendedWritesExact

=============================================================================
