------------------------------- MODULE Board -------------------------------
(***************************************************************************)
(* One user's board: the ordered array of tickets in its row, the handlers *)
(* of internal/web/todos/handler.go that change it, and the pages that     *)
(* browser tabs show of it (page.templ).                                   *)
(*                                                                         *)
(* A page is the form that a later drag submits, so a tab acts on what it  *)
(* was shown, which other clients may have changed since.  A handler reads *)
(* the array, writes a changed one, and reads again what it renders: three *)
(* steps, with those of other handlers between them.  The row exists       *)
(* throughout; module UserStore has the sweeps that delete rows, but not   *)
(* the order of the tickets.                                               *)
(***************************************************************************)
EXTENDS Integers, FiniteSets, SequencesExt

CONSTANTS
  Tabs,        \* browser tabs of one session
  Scripts,     \* its clients that are not the page, such as a shell script
  Ids,         \* ticket ids
  DefaultIds,  \* ids of defaultTickets, in order
  Statuses,    \* what a client can send as a status: any string
  Columns,     \* the statuses that are columns of the page, left to right
  ScriptForms, \* the forms that scripts submit
  None         \* no user, no request, no answer

Clients   == Tabs \cup Scripts
ColumnSet == ToSet(Columns)
Ticket    == [id : Ids, status : Statuses]

\* A form: the hidden inputs "id" and "status", in document order.
Form == [ids : Seq(Ids), statuss : Seq(Statuses)]

ASSUME ColumnsAssumption ==
  Columns \in Seq(Statuses) \ {<<>>} /\ IsInjective(Columns)
ASSUME DefaultsAssumption == DefaultIds \in Seq(Ids) /\ IsInjective(DefaultIds)
ASSUME FormsAssumption == \A form \in ScriptForms : form \in Form

VARIABLES
  tickets,    \* users.tickets of the session's user
  used,       \* ticket uuids drawn so far
  page,       \* for each tab, the ids in each column
  request,    \* the request each client has in flight
  stage,      \* how far its handler is
  snapshot,   \* the array that the handler read and writes a change of
  overtaken,  \* whether another handler wrote after its last statement
  answer      \* the page the server has rendered for each client

vars == <<tickets, used, page, request, stage, snapshot, overtaken, answer>>

IdsOf(T) == [i \in DOMAIN T |-> T[i].id]

\* The loops of the database client that append, one after another, those
\* tickets of an array that are in S.
Chosen(T, S) ==
  LET kept[i \in 0..Len(T)] ==
        IF      i = 0      THEN <<>>
        ELSE IF T[i] \in S THEN Append(kept[i - 1], T[i])
        ELSE                    kept[i - 1]
  IN  kept[Len(T)]

\* Mutated Split: the switch has no case for the last column.
Split_NoDone(T) ==
  [s \in ColumnSet |->
     IdsOf(Chosen(T, [id : Ids, status : {s} \ {Columns[Len(Columns)]}]))]

\* GetAllByUserSplitByStatus: each column keeps the order of the array; a
\* ticket whose status is no column is left out.
Split(T) == [s \in ColumnSet |-> IdsOf(Chosen(T, [id : Ids, status : {s}]))]

Blank == [s \in ColumnSet |-> <<>>]

Pages == [ColumnSet -> Seq(Ids)]

ASSUME NoneAssumption == None \notin Pages

Request ==
  [kind : {"get"}]
    \cup [kind : {"add"}, ticket : Ticket]
    \cup [kind : {"remove"}, id : Ids]
    \cup [kind : {"put"}, form : Form]

Stages == {"idle", "sent", "fetched", "stored", "unstored", "answered"}

TypeOK ==
  /\ tickets \in Seq(Ticket)
  /\ used \in SUBSET Ids
  /\ page \in [Tabs -> Pages]
  /\ request \in [Clients -> Request \cup {None}]
  /\ stage \in [Clients -> Stages]
  /\ snapshot \in [Clients -> Seq(Ticket)]
  /\ overtaken \in [Clients -> BOOLEAN]
  /\ answer \in [Clients -> Pages \cup {None}]

\* The user exists with its default tickets, and no tab has loaded yet.
Init ==
  /\ tickets = [i \in DOMAIN DefaultIds |->
                  [id |-> DefaultIds[i], status |-> Columns[1]]]
  /\ used    = ToSet(DefaultIds)
  /\ page    = [tab \in Tabs |-> Blank]
  /\ request = [cl \in Clients |-> None]
  /\ stage   = [cl \in Clients |-> "idle"]
  /\ snapshot  = [cl \in Clients |-> <<>>]
  /\ overtaken = [cl \in Clients |-> FALSE]
  /\ answer  = [cl \in Clients |-> None]

-----------------------------------------------------------------------------
(***************************************************************************)
(* The browser.  A client has at most one request in flight.               *)
(***************************************************************************)
Send(cl, r) ==
  /\ stage[cl] = "idle"
  /\ stage' = [stage EXCEPT ![cl] = "sent"]
  /\ request' = [request EXCEPT ![cl] = r]
  /\ UNCHANGED <<tickets, snapshot, overtaken, answer>>

Load(cl) == Send(cl, [kind |-> "get"]) /\ UNCHANGED <<used, page>>

\* The "New Ticket" form, whose select offers the columns; a script sends any
\* status.  The server draws the id.
Create(cl, id, s) ==
  /\ cl \in Tabs => s \in ColumnSet
  /\ id \notin used
  /\ used' = used \cup {id}
  /\ Send(cl, [kind |-> "add", ticket |-> [id |-> id, status |-> s]])
  /\ UNCHANGED page

Shown(tab) == UNION {ToSet(page[tab][s]) : s \in ColumnSet}

\* The confirmation dialogue of a card on the page; a script sends any id.
Delete(cl, id) ==
  /\ cl \in Tabs => id \in Shown(cl)
  /\ Send(cl, [kind |-> "remove", id |-> id])
  /\ UNCHANGED <<used, page>>

\* The page after the card at place i of column s is dropped at place j of r.
Dropped(p, s, i, r, j) ==
  LET lifted == [p EXCEPT ![s] = RemoveAt(@, i)]
  IN  [lifted EXCEPT ![r] = InsertAt(@, j, p[s][i])]

\* Mutated FormOf: the hidden status still names the column of the last card.
FormOf_LastStatus(p) ==
  LET ids == FlattenSeq([k \in DOMAIN Columns |-> p[Columns[k]]])
  IN  [ids |-> ids, statuss |-> [i \in DOMAIN ids |-> Columns[Len(Columns)]]]

\* The board_form of a page: the cards column by column.
FormOf(p) ==
  [ids     |-> FlattenSeq([k \in DOMAIN Columns |-> p[Columns[k]]]),
   statuss |-> FlattenSeq([k \in DOMAIN Columns |->
                             [i \in DOMAIN p[Columns[k]] |-> Columns[k]]])]

\* Sortable's onEnd: the card moves, its status input follows, the form is sent.
Drag(tab, s, i, r, j) ==
  LET p == Dropped(page[tab], s, i, r, j)
  IN  /\ Send(tab, [kind |-> "put", form |-> FormOf(p)])
      /\ page' = [page EXCEPT ![tab] = p]
      /\ UNCHANGED used

\* A script submits a form of its own making.
Submit(script, form) ==
  Send(script, [kind |-> "put", form |-> form]) /\ UNCHANGED <<used, page>>

\* The client has its answer, or knows that it gets none.
Finish(cl) ==
  /\ request' = [request EXCEPT ![cl] = None]
  /\ stage' = [stage EXCEPT ![cl] = "idle"]
  /\ snapshot' = [snapshot EXCEPT ![cl] = <<>>]
  /\ overtaken' = [overtaken EXCEPT ![cl] = FALSE]
  /\ answer' = [answer EXCEPT ![cl] = None]
  /\ UNCHANGED <<tickets, used>>

\* The answer arrives; in a tab htmx swaps it in for the page.
Receive(cl) ==
  /\ stage[cl] = "answered"
  /\ page' = [tab \in Tabs |-> IF tab = cl THEN answer[cl] ELSE page[tab]]
  /\ Finish(cl)

\* No answer arrives: a Notify panicked, or the connection broke.
Lose(cl) ==
  /\ stage[cl] \notin {"idle", "fetched"}
  /\ Finish(cl)
  /\ UNCHANGED page

-----------------------------------------------------------------------------
(***************************************************************************)
(* The server.                                                             *)
(***************************************************************************)

\* Mutated Placed: the map of the tickets already done is missing.
Placed_NoDone(T, form, out, i) ==
  LET k == SelectInSeq(T, LAMBDA t : t.id = form.ids[i])
  IN  IF k = 0 THEN out
      ELSE Append(out, [T[k] EXCEPT !.status = form.statuss[i]])

\* Mutated Placed: an id that is not stored yields a ticket all the same.
Placed_Resurrects(T, form, out, i) ==
  IF form.ids[i] \in ToSet(IdsOf(out)) THEN out
  ELSE Append(out, [id |-> form.ids[i], status |-> form.statuss[i]])

\* Mutated Placed: an id that is not stored yields an empty ticket.
Placed_ZeroTicket(T, form, out, i) ==
  LET k == SelectInSeq(T, LAMBDA t : t.id = form.ids[i])
  IN  IF k = 0 THEN Append(out, [id |-> None, status |-> form.statuss[i]])
      ELSE Append(out, [T[k] EXCEPT !.status = form.statuss[i]])

\* What place i of a form adds: the first current ticket with its id, unless
\* that one was done before.
Placed(T, form, out, i) ==
  LET k == SelectInSeq(T, LAMBDA t : t.id = form.ids[i])
  IN  IF k = 0 \/ form.ids[i] \in ToSet(IdsOf(out)) THEN out
      ELSE Append(out, [T[k] EXCEPT !.status = form.statuss[i]])

\* The double loop of put.
Rearranged(T, form) ==
  LET out[i \in 0..Len(form.ids)] ==
        IF i = 0 THEN <<>> ELSE Placed(T, form, out[i - 1], i)
  IN  out[Len(form.ids)]

\* Mutated Stored: DELETE keeps the ticket and drops the others.
Stored_KeepsDeleted(T, r) ==
  IF      r.kind = "add"    THEN Append(T, r.ticket)
  ELSE IF r.kind = "remove" THEN Chosen(T, [id : {r.id}, status : Statuses])
  ELSE                           Rearranged(T, r.form)

\* The array that a handler writes, of the array T that it read.
Stored(T, r) ==
  IF      r.kind = "add"    THEN Append(T, r.ticket)
  ELSE IF r.kind = "remove" THEN Chosen(T, [id : Ids \ {r.id}, status : Statuses])
  ELSE                           Rearranged(T, r.form)

\* post, delete and put change the board, but put refuses a form with more ids
\* than statuses, or fewer.
Changes(r) ==
  \/ r.kind \in {"add", "remove"}
  \/ r.kind = "put" /\ Len(r.form.ids) = Len(r.form.statuss)

\* The SELECT of AddToUser, DeleteTodoByUserAndTodoId or put.
Fetch(cl) ==
  /\ stage[cl] = "sent"
  /\ Changes(request[cl])
  /\ stage' = [stage EXCEPT ![cl] = "fetched"]
  /\ snapshot' = [snapshot EXCEPT ![cl] = tickets]
  /\ UNCHANGED <<tickets, used, page, request, overtaken, answer>>

\* The UPDATE, of the whole array.  Whether the driver reports an error for
\* an UPDATE that took place makes no difference to the board.
Write(cl) ==
  /\ stage[cl] = "fetched"
  /\ stage' = [stage EXCEPT ![cl] = "stored"]
  /\ tickets' = Stored(snapshot[cl], request[cl])
  /\ overtaken' = [d \in Clients |-> d # cl /\ stage[d] \in {"fetched", "stored"}]
  /\ UNCHANGED <<used, page, request, snapshot, answer>>

\* The SELECT or the UPDATE fails.
Fail(cl) ==
  /\ \/ stage[cl] = "sent" /\ Changes(request[cl])
     \/ stage[cl] = "fetched"
  /\ stage' = [stage EXCEPT ![cl] = "unstored"]
  /\ snapshot' = [snapshot EXCEPT ![cl] = <<>>]
  /\ overtaken' = [overtaken EXCEPT ![cl] = FALSE]
  /\ UNCHANGED <<tickets, used, page, request, answer>>

\* get, in which post, put and delete end, after an error too: it renders the
\* tickets it reads, or, when it cannot read them, an empty board.
Render(cl) ==
  /\ \/ stage[cl] \in {"stored", "unstored"}
     \/ stage[cl] = "sent" /\ ~Changes(request[cl])
  /\ stage' = [stage EXCEPT ![cl] = "answered"]
  /\ \E shown \in {Split(tickets), Blank} :
       answer' = [answer EXCEPT ![cl] = shown]
  /\ snapshot' = [snapshot EXCEPT ![cl] = <<>>]
  /\ overtaken' = [overtaken EXCEPT ![cl] = FALSE]
  /\ UNCHANGED <<tickets, used, page, request>>

-----------------------------------------------------------------------------
ClientStep(cl) ==
  \/ Load(cl)
  \/ \E id \in Ids, s \in Statuses : Create(cl, id, s)
  \/ \E id \in Ids : Delete(cl, id)
  \/ Receive(cl)
  \/ Lose(cl)

HandlerStep(cl) == Fetch(cl) \/ Write(cl) \/ Fail(cl) \/ Render(cl)

TabStep(tab) ==
  \E s, r \in ColumnSet : \E i \in DOMAIN page[tab][s] :
    \E j \in 1..Len(page[tab][r]) + 1 :
      /\ s = r => j <= Len(page[tab][s])
      /\ Drag(tab, s, i, r, j)

ScriptStep(script) == \E form \in ScriptForms : Submit(script, form)

Next ==
  \/ \E cl \in Clients : ClientStep(cl)
  \/ \E cl \in Clients : HandlerStep(cl)
  \/ \E tab \in Tabs : TabStep(tab)
  \/ \E script \in Scripts : ScriptStep(script)

Spec == Init /\ [][Next]_vars

-----------------------------------------------------------------------------
(***************************************************************************)
(* Safety.                                                                 *)
(***************************************************************************)

(***************************************************************************)
(* handler.go:243 "to avoid dups": whatever forms arrive, stale, repeating *)
(* an id or naming unknown ones, no ticket is stored twice.                *)
(***************************************************************************)
NoDuplicates == IsInjective(IdsOf(tickets))

\* The step is the UPDATE of the client's handler.
Writes(cl) == stage[cl] = "fetched" /\ stage'[cl] = "stored"

\* The tickets a form keeps, by the places of the form that decide: the first
\* place of each stored id, in the order of the form.
Deciding(T, form) ==
  {i \in DOMAIN form.ids :
     /\ form.ids[i] \in ToSet(IdsOf(T))
     /\ \A k \in 1..i - 1 : form.ids[k] # form.ids[i]}

(***************************************************************************)
(* A PUT makes of the array that it read the form, less what was not in    *)
(* that array and less repetitions (handler.go:241-262).                   *)
(***************************************************************************)
PutFollowsForm ==
  [][\A cl \in Clients :
       Writes(cl) /\ request[cl].kind = "put"
       => LET form   == request[cl].form
              places == Deciding(snapshot[cl], form)
          IN  \E order \in [DOMAIN tickets' -> places] :
                /\ ToSet(order) = places
                /\ \A i, j \in DOMAIN order : i < j => order[i] < order[j]
                /\ tickets' = [i \in DOMAIN order |->
                                 [id     |-> form.ids[order[i]],
                                  status |-> form.statuss[order[i]]]]]_vars

\* The step renders the page that answers the client.
Answers(cl) == stage[cl] # "answered" /\ stage'[cl] = "answered"

FromPage(tab) ==
  request[tab].kind = "put" /\ request[tab].form = FormOf(page[tab])

(***************************************************************************)
(* What you drop is what you get: a stored drag is answered with the very  *)
(* page that it left in the tab, each card in its column and at its place, *)
(* unless another handler wrote between its UPDATE and the SELECT of its   *)
(* answer, or the page showed a card that was no longer stored, or the     *)
(* tickets cannot be read.                                                 *)
(***************************************************************************)
DropIsKept ==
  [][\A tab \in Tabs :
       /\ Answers(tab)
       /\ stage[tab] = "stored" /\ ~overtaken[tab]
       /\ FromPage(tab)
       /\ Shown(tab) \subseteq ToSet(IdsOf(snapshot[tab]))
       => answer'[tab] \in {page[tab], Blank}]_vars

(***************************************************************************)
(* A ticket enters the board through its own POST and leaves it through a  *)
(* DELETE that names it or a form that does not.  Otherwise it comes back  *)
(* only when a handler that read it writes after the one that removed it,  *)
(* and is lost only when a handler that read the array without it writes   *)
(* after the one that added it: a stale page alone does neither.           *)
(***************************************************************************)
CardsComeAndGoByName ==
  [][\A cl \in Clients :
       Writes(cl)
       => LET before == ToSet(IdsOf(tickets))
              after  == ToSet(IdsOf(tickets'))
              read   == ToSet(IdsOf(snapshot[cl]))
              r      == request[cl]
          IN  /\ \A id \in after \ before :
                   \/ r.kind = "add" /\ r.ticket.id = id
                   \/ overtaken[cl] /\ id \in read
              /\ \A id \in before \ after :
                   \/ r.kind = "remove" /\ r.id = id
                   \/ r.kind = "put" /\ id \notin ToSet(r.form.ids)
                   \/ overtaken[cl] /\ id \notin read]_vars

(***************************************************************************)
(* A page that is not blank shows no ticket twice, and shows in each       *)
(* column the stored tickets of its status.  A ticket with another status, *)
(* which handler.go:178 and :255 store, is on no page.                     *)
(***************************************************************************)
RenderShowsEach ==
  [][\A cl \in Clients : Answers(cl) /\ answer'[cl] # Blank =>
       /\ IsInjective(FlattenSeq([k \in DOMAIN Columns |->
                                    answer'[cl][Columns[k]]]))
       /\ \A s \in ColumnSet :
            ToSet(answer'[cl][s]) =
              {t.id : t \in {x \in ToSet(tickets) : x.status = s}}]_vars

-----------------------------------------------------------------------------
(***************************************************************************)
(* The array, its order forgotten, is a board of AtomicBoards.             *)
(***************************************************************************)
Boards == INSTANCE AtomicBoards WITH
            Users     <- {None},
            NewBoards <- {},
            boards    <- [u \in {None} |-> ToSet(tickets)]

\* What a request means for the set of tickets.
Operation(r) ==
  \/ r.kind = "add" /\ Boards!Add(None, r.ticket)
  \/ r.kind = "remove" /\ Boards!Remove(None, r.id)
  \/ /\ r.kind = "put"
     /\ \E form \in [ToSet(r.form.ids) -> Statuses] : Boards!Rearrange(None, form)

(***************************************************************************)
(* The loops over arrays and forms compute the operations on sets that     *)
(* UserStore and AtomicBoards are written with, and a handler's SELECT and *)
(* UPDATE are one atomic operation unless another handler's UPDATE comes   *)
(* between them.                                                           *)
(***************************************************************************)
AtomicUnlessOvertaken ==
  [][\A cl \in Clients :
       Writes(cl) /\ ~overtaken[cl] => Operation(request[cl])]_vars

=============================================================================
