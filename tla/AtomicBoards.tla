---------------------------- MODULE AtomicBoards ----------------------------
(***************************************************************************)
(* What the users table is meant to be: one board of tickets per user, on  *)
(* which every operation of the database client takes effect in one step.  *)
(***************************************************************************)
CONSTANTS
  Users,      \* user ids
  Ids,        \* ticket ids
  Statuses,   \* what a ticket's status can be
  NewBoards   \* what a new board can have on it

VARIABLE boards   \* the boards of the users that have one

Ticket == [id : Ids, status : Statuses]

\* What one PUT form can say: a status for each of some ticket ids.
Forms == UNION {[S -> Statuses] : S \in SUBSET Ids}

Owners == DOMAIN boards

Init == boards = [u \in {} |-> {}]

Create(u, T) ==
  /\ u \notin Owners
  /\ boards' = [v \in Owners \cup {u} |-> IF v = u THEN T ELSE boards[v]]

Add(u, t) ==
  /\ u \in Owners
  /\ \A x \in boards[u] : x.id # t.id
  /\ boards' = [boards EXCEPT ![u] = @ \cup {t}]

Remove(u, id) ==
  /\ u \in Owners
  /\ boards' = [boards EXCEPT ![u] = {t \in @ : t.id # id}]

\* The tickets of the form keep their place on the board in its new columns;
\* the others leave it.
Rearrange(u, form) ==
  /\ u \in Owners
  /\ boards' = [boards EXCEPT ![u] =
                  {t \in Ticket : /\ t.id \in DOMAIN form
                                  /\ t.status = form[t.id]
                                  /\ \E x \in @ : x.id = t.id}]

\* Some boards expire at once.
Expire(S) == boards' = [u \in Owners \ S |-> boards[u]]

Next ==
  \/ \E u \in Users, T \in NewBoards : Create(u, T)
  \/ \E u \in Users, t \in Ticket : Add(u, t)
  \/ \E u \in Users, id \in Ids : Remove(u, id)
  \/ \E u \in Users, form \in Forms : Rearrange(u, form)
  \/ \E S \in SUBSET Users : Expire(S)

Spec == Init /\ [][Next]_boards

=============================================================================
