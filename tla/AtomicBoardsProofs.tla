------------------------- MODULE AtomicBoardsProofs -------------------------
(***************************************************************************)
(* A proof that the users table implements AtomicBoards when calls do not  *)
(* overlap one another, for every number of users, tickets and TTL workers.*)
(***************************************************************************)
EXTENDS UserStoreProofs

\* There is one caller: a call begins after the one before it returned.
OneCaller == \A c, d \in Callers : c = d

\* The call in flight is in step with its row unless a sweep deleted the row.
Alone ==
  \A c \in Callers : stage[c] # "idle" =>
    LET u == req[c].user IN
    IF req[c].kind = "create"
    THEN users[u] = None /\ (stage[c] = "ready" => buf[c] = Defaults(req[c].ids))
    ELSE users[u] # None =>
           /\ buf[c] = IF stage[c] = "fetched" THEN users[u].tickets
                       ELSE Changed(users[u].tickets, req[c])
           /\ req[c].kind = "add" =>
                \A t \in users[u].tickets : t.id # req[c].card.id

AloneInv == SnapshotInv /\ CardInv /\ Alone

\* A call begins alone: with its row's tickets, or with a uuid that has no row.
LEMMA BeginAlone ==
  ASSUME AloneInv, NEW c \in Callers, Call(c), ~Refuse(c)
  PROVE  \E r \in Request, T \in SUBSET Ticket :
           /\ Begin(c, r, T)
           /\ r.kind = "create" => users[r.user] = None
           /\ r.kind # "create" => T = users[r.user].tickets
           /\ r.kind = "add" => \A t \in T : t.id # r.card.id
<1> DEFINE Goal == \E r \in Request, T \in SUBSET Ticket :
                     /\ Begin(c, r, T)
                     /\ r.kind = "create" => users[r.user] = None
                     /\ r.kind # "create" => T = users[r.user].tickets
                     /\ r.kind = "add" => \A t \in T : t.id # r.card.id
<1>1. ASSUME NEW u \in Users, users[u] # None
      PROVE  users[u].tickets \in SUBSET Ticket
  BY <1>1 DEF AloneInv, CardInv, StoreInv, TypeOK, Row
<1>2. ASSUME NEW u \in Users, NEW D \in DefaultSets, CreateUser(c, u, D)
      PROVE  Goal
  <2>1. [kind |-> "create", user |-> u, ids |-> D] \in Request
    BY DEF Request
  <2>2. users[u] = None
    BY <1>2 DEF CreateUser, AloneInv, SnapshotInv, BornFirst
  <2> QED
    BY <1>2, <2>1, <2>2 DEF CreateUser
<1>3. ASSUME NEW u \in Users, NEW t \in Ticket, AddToUser(c, u, t) PROVE Goal
  <2> DEFINE r == [kind |-> "add", user |-> u, card |-> t]
  <2>1. r \in Request
    BY DEF Request
  <2>2. t.id \notin OwnIds(u)
    BY <1>3, NoneAssumption DEF AddToUser, OwnIds
  <2>3. \A x \in users[u].tickets : x.id # t.id
    BY <1>3, <2>2 DEF AddToUser, AloneInv, CardInv, OwnTickets
  <2>4. r.user = u /\ r.card = t /\ r.kind = "add"
    OBVIOUS
  <2>5. Begin(c, r, users[u].tickets) /\ users[u].tickets \in SUBSET Ticket
    BY <1>1, <1>3 DEF AddToUser
  <2> HIDE DEF r
  <2> QED
    BY <2>1, <2>3, <2>4, <2>5
<1>4. ASSUME NEW u \in Users, NEW id \in Ids, DeleteTodoByUserAndTodoId(c, u, id)
      PROVE  Goal
  <2>1. [kind |-> "remove", user |-> u, id |-> id] \in Request
    BY DEF Request
  <2> QED
    BY <1>1, <1>4, <2>1 DEF DeleteTodoByUserAndTodoId
<1>5. ASSUME NEW u \in Users, NEW form \in Forms, GetAllByUser(c, u, form)
      PROVE  Goal
  <2>1. [kind |-> "put", user |-> u, form |-> form] \in Request
    BY DEF Request
  <2> QED
    BY <1>1, <1>5, <2>1 DEF GetAllByUser
<1> QED
  BY <1>2, <1>3, <1>4, <1>5 DEF Call

LEMMA AloneStep ==
  ASSUME OneCaller, AloneInv, [Next]_vars
  PROVE  AloneInv'
<1>1. SnapshotInv' /\ CardInv'
  BY SnapshotStep, CardStep DEF AloneInv
<1>2. Alone /\ StoreInv /\ TypeOK
  BY DEF AloneInv, CardInv, StoreInv
<1>3. SUFFICES Alone'
  BY <1>1 DEF AloneInv
<1>4. ASSUME NEW c \in Callers, Call(c) PROVE Alone'
  <2>1. CASE Refuse(c)
    BY <1>2, <2>1 DEF Refuse, Alone, Changed
  <2>2. CASE ~Refuse(c)
    <3>1. PICK r \in Request, T \in SUBSET Ticket :
            /\ Begin(c, r, T)
            /\ r.kind = "create" => users[r.user] = None
            /\ r.kind # "create" => T = users[r.user].tickets
            /\ r.kind = "add" => \A t \in T : t.id # r.card.id
      BY <1>4, <2>2, BeginAlone
    <3> QED
      BY <1>2, <3>1 DEF Begin, Alone, OneCaller, TypeOK
  <2> QED
    BY <2>1, <2>2
<1>5. ASSUME NEW c \in Callers, Prepare(c) PROVE Alone'
  <2>1. Changed(buf[c], req[c]) = Defaults(req[c].ids) \/ req[c].kind # "create"
    BY DEF Changed
  <2> QED
    BY <1>2, <1>5, <2>1 DEF Prepare, Alone, OneCaller, TypeOK, Changed
<1>6. ASSUME NEW c \in Callers, WriteOk(c) \/ WriteError(c) PROVE Alone'
  <2>1. stage' = [stage EXCEPT ![c] = "idle"]
    BY <1>2, <1>6, WriteEffect
  <2>2. \A d \in Callers : stage'[d] = "idle"
    BY <1>2, <2>1 DEF OneCaller, TypeOK
  <2> QED
    BY <2>2 DEF Alone
<1>7. ASSUME NEW w \in Workers, SweepOk(w) \/ SweepError(w) PROVE Alone'
  <2>1. UNCHANGED <<stage, req, buf>>
    BY <1>7, SweepEffect DEF callVars
  <2>2. \A u \in Users : users'[u] = users[u] \/ users'[u] = None
    BY <1>7, SweepEffect DEF Delete
  <2>3. \A c \in Callers : stage[c] # "idle" => req[c].user \in Users
    BY <1>2, RequestShape DEF StoreInv, CallSound
  <2> QED
    BY <1>2, <2>1, <2>2, <2>3 DEF Alone, Changed
<1>8. ASSUME NEW w \in Workers, TickerFires(w) \/ StopWorker(w) PROVE Alone'
  BY <1>2, <1>8 DEF TickerFires, StopWorker, callVars, Alone, Changed
<1>9. CASE Cancel \/ Tick \/ UNCHANGED vars
  BY <1>2, <1>9 DEF Cancel, Tick, vars, callVars, Alone, Changed
<1> QED
  BY <1>4, <1>5, <1>6, <1>7, <1>8, <1>9 DEF Next, CallStep, WorkerStep

LEMMA AloneInduction == ASSUME OneCaller PROVE Spec => []AloneInv
<1>1. Init /\ SnapshotInv /\ CardInv => AloneInv
  BY DEF Init, AloneInv, Alone
<1>2. Init /\ []SnapshotInv /\ []CardInv => AloneInv
  BY <1>1, PTL
<1>3. AloneInv /\ [Next]_vars => AloneInv'
  BY AloneStep
<1> QED
  BY <1>2, <1>3, SnapshotInduction, CardInduction, PTL DEF Spec

-----------------------------------------------------------------------------
(***************************************************************************)
(* The refinement: a board is the tickets of a row.                        *)
(***************************************************************************)
RowsNow == {v \in Users : users[v] # None}
Boarded == [u \in RowsNow |-> users[u].tickets]

\* A row that a statement writes is a board that one operation changes.
LEMMA WriteRefines ==
  ASSUME AloneInv, NEW c \in Callers, WriteOk(c) \/ WriteError(c)
  PROVE  Boards!Next \/ UNCHANGED Boarded
<1>r. PICK r \in Request : r = req[c]
  BY WriteEffect DEF AloneInv, CardInv
<1>u. PICK u \in Users : u = r.user
  BY RequestShape
<1>1. /\ stage[c] = "ready"
      /\ \/ UNCHANGED users
         \/ Hits(c) /\ users' = [users EXCEPT ![u] = Written(c)]
      /\ Written(c) # None
  BY <1>r, <1>u, WriteEffect, NoneAssumption DEF AloneInv, CardInv
<1>2. TypeOK
  BY DEF AloneInv, CardInv, StoreInv
<1>3. CASE UNCHANGED users
  BY <1>3 DEF Boarded, RowsNow
<1>4. CASE Hits(c) /\ users' = [users EXCEPT ![u] = Written(c)]
  <2>1. RowsNow' = RowsNow \cup {u}
    BY <1>1, <1>2, <1>4 DEF RowsNow, TypeOK
  <2>2. Boarded' = [v \in RowsNow \cup {u} |->
                      IF v = u THEN buf[c] ELSE Boarded[v]]
    <3>1. users'[u].tickets = buf[c]
      BY <1>2, <1>4 DEF Written, TypeOK
    <3>2. \A v \in RowsNow \ {u} : users'[v].tickets = Boarded[v]
      BY <1>2, <1>4 DEF TypeOK, RowsNow, Boarded
    <3> QED
      BY <2>1, <3>1, <3>2 DEF Boarded
  <2>3. CASE r.kind = "create"
    <3>1. u \notin RowsNow /\ buf[c] = Defaults(r.ids)
      BY <1>r, <1>u, <1>1, <2>3 DEF AloneInv, Alone, RowsNow
    <3>2. Boards!Create(u, Defaults(r.ids))
      BY <2>2, <3>1 DEF Boards!Create, Boards!Owners, Boarded, RowsNow
    <3>3. Defaults(r.ids) \in {Defaults(D) : D \in DefaultSets}
      BY <2>3, RequestShape
    <3> QED
      BY <3>2, <3>3 DEF Boards!Next
  <2>4. CASE r.kind # "create"
    <3>1. u \in RowsNow
      BY <1>r, <1>u, <1>4, <2>4 DEF Hits, RowsNow
    <3>2. /\ buf[c] = Changed(Boarded[u], r)
          /\ r.kind = "add" => \A t \in Boarded[u] : t.id # r.card.id
      BY <1>r, <1>u, <1>1, <2>4, <3>1 DEF AloneInv, Alone, RowsNow, Boarded
    <3>3. Boarded' = [Boarded EXCEPT ![u] = Changed(Boarded[u], r)]
      BY <2>2, <3>1, <3>2 DEF Boarded
    <3>4. CASE r.kind = "add"
      <4>1. r.card \in Boards!Ticket
        BY <3>4, RequestShape DEF Ticket, Boards!Ticket
      <4>2. Boards!Add(u, r.card)
        BY <3>1, <3>2, <3>3, <3>4
           DEF Boards!Add, Boards!Owners, Boarded, RowsNow, Changed, Appended
      <4> QED
        BY <4>1, <4>2 DEF Boards!Next
    <3>5. CASE r.kind = "remove"
      <4>1. Boards!Remove(u, r.id)
        BY <3>1, <3>3, <3>5
           DEF Boards!Remove, Boards!Owners, Boarded, RowsNow, Changed, Without
      <4> QED
        BY <3>5, <4>1, RequestShape DEF Boards!Next
    <3>6. CASE r.kind = "put"
      <4>1. r.form \in Boards!Forms
        BY <3>6, RequestShape DEF Forms, Boards!Forms
      <4>2. Boards!Rearrange(u, r.form)
        BY <3>1, <3>3, <3>6
           DEF Boards!Rearrange, Boards!Owners, Boards!Ticket, Ticket, Boarded,
               RowsNow, Changed, Rearranged
      <4> QED
        BY <4>1, <4>2 DEF Boards!Next
    <3> QED
      BY <2>4, <3>4, <3>5, <3>6, RequestShape
  <2> QED
    BY <2>3, <2>4
<1> QED
  BY <1>1, <1>3, <1>4

\* A sweep expires boards, all at once.
LEMMA SweepRefines ==
  ASSUME TypeOK, NEW w \in Workers, SweepOk(w) \/ SweepError(w)
  PROVE  Boards!Next \/ UNCHANGED Boarded
<1>1. CASE UNCHANGED users
  BY <1>1 DEF Boarded, RowsNow
<1>2. CASE Delete(w)
  <2>1. PICK S \in SUBSET Users : S = Expired(w)
    BY DEF Expired
  <2>2. RowsNow' = RowsNow \ S
    BY <1>2, <2>1 DEF Delete, RowsNow
  <2>3. \A u \in RowsNow \ S : users'[u] = users[u]
    BY <1>2, <2>1 DEF Delete, RowsNow
  <2>4. Boarded' = [u \in RowsNow \ S |-> Boarded[u]]
    BY <2>2, <2>3 DEF Boarded
  <2>5. Boards!Expire(S)
    BY <2>4 DEF Boards!Expire, Boards!Owners, Boarded, RowsNow
  <2> QED
    BY <2>5 DEF Boards!Next
<1> QED
  BY <1>1, <1>2, SweepEffect

(***************************************************************************)
(* With one caller every operation of the client takes effect at once, or  *)
(* not at all, however the sweeps of any number of replicas fall between   *)
(* its statements and whichever of them fail.                              *)
(***************************************************************************)
THEOREM AtomicCorrect == ASSUME OneCaller PROVE Spec => ImplementsAtomicBoards
<1>1. Init => Boards!Init
  <2>1. ASSUME Init PROVE RowsNow = {}
    BY <2>1 DEF Init, RowsNow
  <2> QED
    BY <2>1 DEF Boards!Init, RowsNow
<1>2. AloneInv /\ [Next]_vars => [Boards!Next]_Boarded
  <2> SUFFICES ASSUME AloneInv, [Next]_vars
               PROVE  Boards!Next \/ UNCHANGED Boarded
    OBVIOUS
  <2>1. UNCHANGED users => UNCHANGED Boarded
    BY DEF Boarded, RowsNow
  <2>2. TypeOK
    BY DEF AloneInv, CardInv, StoreInv
  <2> QED
    BY <2>1, <2>2, TableFrame, WriteRefines, SweepRefines
<1> QED
  BY <1>1, <1>2, AloneInduction, PTL
     DEF Spec, ImplementsAtomicBoards, Boards!Spec, Boarded, RowsNow

=============================================================================
