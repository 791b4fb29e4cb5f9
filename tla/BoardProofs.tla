---------------------------- MODULE BoardProofs ----------------------------
(***************************************************************************)
(* Proofs about the board of one user, for every number of clients,        *)
(* tickets and columns, and for arrays and forms of every length.          *)
(***************************************************************************)
EXTENDS Board, LoopTheorems

\* The ids of the tickets of an array.
IdSet(T) == ToSet(IdsOf(T))

\* No ticket is in the array twice.
NoDup(T) == IsInjective(IdsOf(T))

-----------------------------------------------------------------------------
(***************************************************************************)
(* Arrays of tickets.                                                      *)
(***************************************************************************)
LEMMA IdsAre ==
  ASSUME NEW T \in Seq(Ticket)
  PROVE  /\ IdsOf(T) \in Seq(Ids)
         /\ IdSet(T) = {t.id : t \in ToSet(T)}
         /\ IdSet(T) \subseteq Ids
         /\ ToSet(T) \subseteq Ticket
         /\ NoDup(T) <=> \A i, j \in 1..Len(T) : T[i].id = T[j].id => i = j
<1>1. /\ Len(T) \in Nat
      /\ DOMAIN T = 1..Len(T)
      /\ \A i \in 1..Len(T) : T[i] \in Ticket /\ T[i].id \in Ids
  <2>1. \A t \in Ticket : t.id \in Ids
    BY DEF Ticket
  <2>2. \A i \in 1..Len(T) : T[i] \in Ticket
    BY ElementOfSeq
  <2> QED BY <2>1, <2>2, LenProperties
<1>2. /\ IdsOf(T) = [i \in 1..Len(T) |-> T[i].id]
      /\ IdsOf(T) \in [1..Len(T) -> Ids]
  BY <1>1 DEF IdsOf
<1>3. IdsOf(T) \in Seq(Ids)
  BY <1>1, <1>2, SeqDef
<1>4. IdSet(T) = {T[i].id : i \in 1..Len(T)} /\ ToSet(T) = {T[i] : i \in 1..Len(T)}
  BY <1>1, <1>2 DEF IdSet, ToSet
<1>5. NoDup(T) <=> \A i, j \in 1..Len(T) : T[i].id = T[j].id => i = j
  BY <1>2 DEF NoDup, IsInjective
<1> QED BY <1>1, <1>3, <1>4, <1>5

LEMMA EmptyIds ==
  /\ <<>> \in Seq(Ticket)
  /\ ToSet(<<>>) = {}
  /\ IdSet(<<>>) = {}
  /\ NoDup(<<>>)
<1>1. <<>> \in Seq(Ticket) /\ DOMAIN <<>> = {}
  BY EmptySeq, LenProperties
<1>2. ToSet(<<>>) = {}
  BY <1>1 DEF ToSet
<1>3. IdsOf(<<>>) = <<>> /\ IdSet(<<>>) = {}
  BY <1>1, <1>2 DEF IdsOf, IdSet
<1>4. NoDup(<<>>)
  BY <1>1, <1>3 DEF NoDup, IsInjective
<1> QED BY <1>1, <1>2, <1>3, <1>4

\* A ticket whose id is new at the end of an array.
LEMMA Appended ==
  ASSUME NEW T \in Seq(Ticket), NEW t \in Ticket
  PROVE  /\ Append(T, t) \in Seq(Ticket)
         /\ ToSet(Append(T, t)) = ToSet(T) \cup {t}
         /\ IdSet(Append(T, t)) = IdSet(T) \cup {t.id}
         /\ NoDup(Append(T, t)) <=> NoDup(T) /\ t.id \notin IdSet(T)
<1> DEFINE A == Append(T, t)
           n == Len(T)
<1>1. /\ n \in Nat /\ Len(A) = n + 1
      /\ A \in Seq(Ticket)
      /\ DOMAIN T = 1..n /\ DOMAIN A = 1..(n + 1)
      /\ A[n + 1] = t
      /\ \A i \in 1..n : A[i] = T[i]
  BY AppendProperties, LenProperties
<1>2. 1..(n + 1) = (1..n) \cup {n + 1}
  BY <1>1
<1>3. ToSet(A) = ToSet(T) \cup {t}
  <2> HIDE DEF A, n
  <2> QED BY <1>1, <1>2 DEF ToSet
<1>4. IdSet(A) = IdSet(T) \cup {t.id}
  <2> HIDE DEF A, n
  <2> QED BY <1>1, <1>3, IdsAre
<1>5. ASSUME NoDup(T), t.id \notin IdSet(T) PROVE NoDup(A)
  <2>1. \A i \in 1..n : T[i].id \in IdSet(T)
    BY <1>1, IdsAre DEF ToSet
  <2>2. \A i, j \in 1..n : T[i].id = T[j].id => i = j
    BY <1>5, IdsAre
  <2>3. \A i, j \in 1..(n + 1) : A[i].id = A[j].id => i = j
    <3> HIDE DEF A, n
    <3> QED BY <1>1, <1>2, <1>5, <2>1, <2>2
  <2> QED BY <1>1, <2>3, IdsAre
<1>6. ASSUME NoDup(A) PROVE NoDup(T) /\ t.id \notin IdSet(T)
  <2>1. \A i, j \in 1..(n + 1) : A[i].id = A[j].id => i = j
    BY <1>1, <1>6, IdsAre
  <2>2. \A i, j \in 1..n : T[i].id = T[j].id => i = j
    <3> HIDE DEF A, n
    <3> QED BY <1>1, <1>2, <2>1
  <2>3. \A i \in 1..n : T[i].id # t.id
    <3> HIDE DEF A, n
    <3> QED BY <1>1, <1>2, <2>1
  <2>4. IdSet(T) = {u.id : u \in ToSet(T)} /\ ToSet(T) = {T[i] : i \in 1..n}
    BY <1>1, IdsAre DEF ToSet
  <2> QED BY <2>2, <2>3, <2>4, IdsAre
<1> QED BY <1>1, <1>3, <1>4, <1>5, <1>6

-----------------------------------------------------------------------------
(***************************************************************************)
(* The loops that select tickets.                                          *)
(***************************************************************************)
\* The loop has a run, and computes what it ends with.
LEMMA ChosenRun ==
  ASSUME NEW T \in Seq(Ticket), NEW S
  PROVE  \E f : /\ f[0] = <<>>
                /\ \A i \in 1..Len(T) :
                     f[i] = IF T[i] \in S THEN Append(f[i - 1], T[i])
                            ELSE f[i - 1]
                /\ Chosen(T, S) = f[Len(T)]
<1> DEFINE n == Len(T)
           A == Seq(Ticket)
           step == [i \in 0 + 1..n |-> [s \in A |->
                      IF T[i] \in S THEN Append(s, T[i]) ELSE s]]
           Eq(f) == f = [i \in 0..n |->
                           IF i = 0 THEN <<>>
                           ELSE IF T[i] \in S THEN Append(f[i - 1], T[i])
                           ELSE f[i - 1]]
<1>1. n \in Nat /\ \A i \in 1..n : T[i] \in Ticket
  BY ElementOfSeq
<1>2. step \in [0 + 1..n -> [A -> A]]
  <2> SUFFICES ASSUME NEW i \in 0 + 1..n, NEW s \in A
               PROVE  (IF T[i] \in S THEN Append(s, T[i]) ELSE s) \in A
    OBVIOUS
  <2>1. T[i] \in Ticket
    BY <1>1
  <2> QED BY <2>1, AppendProperties
<1>3. Runs(A, <<>>, 0, n, step) # {}
  <2>1. <<>> \in A /\ 0 \in Nat /\ 0 <= n
    BY <1>1, EmptySeq
  <2> HIDE DEF n, step, A
  <2> QED BY <1>1, <1>2, <2>1, RunExists
<1>4. PICK f \in [0..n -> A] :
        \A i \in 0..n : f[i] = IF i = 0 THEN <<>> ELSE step[i][f[i - 1]]
  <2> HIDE DEF n, step, A
  <2> QED BY <1>3 DEF Runs
<1>5. Eq(f)
  <2> SUFFICES ASSUME NEW i \in 0..n
               PROVE  f[i] = IF i = 0 THEN <<>>
                             ELSE IF T[i] \in S THEN Append(f[i - 1], T[i])
                             ELSE f[i - 1]
    BY <1>4
  <2>1. CASE i = 0
    BY <1>4, <2>1
  <2>2. CASE i # 0
    <3>1. i \in 0 + 1..n /\ i - 1 \in 0..n
      BY <1>1, <2>2
    <3>2. f[i - 1] \in A
      BY <3>1, Zenon
    <3>3. f[i] = step[i][f[i - 1]]
      BY <1>4, <2>2, Zenon
    <3>4. step[i][f[i - 1]] = IF T[i] \in S THEN Append(f[i - 1], T[i])
                              ELSE f[i - 1]
      BY <3>1, <3>2, Zenon
    <3> QED BY <2>2, <3>3, <3>4, Zenon
  <2> QED BY <2>1, <2>2
<1> DEFINE c == CHOOSE g : Eq(g)
<1>6. Eq(c)
  <2> HIDE DEF Eq
  <2> QED BY <1>5, Zenon
<1>7. Chosen(T, S) = c[n]
  BY Zenon DEF Chosen
<1>8. \A i \in 0..n : c[i] = IF i = 0 THEN <<>>
                             ELSE IF T[i] \in S THEN Append(c[i - 1], T[i])
                             ELSE c[i - 1]
  <2> HIDE DEF c
  <2> QED BY <1>6, Zenon
<1>9. /\ 0 \in 0..n
      /\ \A i \in 1..n : i \in 0..n /\ i # 0
  BY <1>1
<1> HIDE DEF c
<1> QED BY <1>7, <1>8, <1>9, Zenon

LEMMA ChosenEmpty ==
  ASSUME NEW S
  PROVE  Chosen(<<>>, S) = <<>>
BY ChosenRun, EmptySeq

LEMMA ChosenAppend ==
  ASSUME NEW T \in Seq(Ticket), NEW t \in Ticket, NEW S
  PROVE  Chosen(Append(T, t), S) =
           IF t \in S THEN Append(Chosen(T, S), t) ELSE Chosen(T, S)
<1> DEFINE n == Len(T)
           A == Append(T, t)
<1>1. /\ n \in Nat /\ A \in Seq(Ticket) /\ Len(A) = n + 1
      /\ A[n + 1] = t /\ \A i \in 1..n : A[i] = T[i]
  BY AppendProperties, LenProperties
<1> HIDE DEF A
<1>2. PICK f : /\ f[0] = <<>>
               /\ \A i \in 1..n :
                    f[i] = IF T[i] \in S THEN Append(f[i - 1], T[i]) ELSE f[i - 1]
               /\ Chosen(T, S) = f[n]
  BY ChosenRun
<1>3. PICK g : /\ g[0] = <<>>
               /\ \A i \in 1..(n + 1) :
                    g[i] = IF A[i] \in S THEN Append(g[i - 1], A[i]) ELSE g[i - 1]
               /\ Chosen(A, S) = g[n + 1]
  <2>1. \E g : /\ g[0] = <<>>
               /\ \A i \in 1..Len(A) :
                    g[i] = IF A[i] \in S THEN Append(g[i - 1], A[i]) ELSE g[i - 1]
               /\ Chosen(A, S) = g[Len(A)]
    BY <1>1, ChosenRun
  <2> QED BY <1>1, <2>1
<1> HIDE DEF n
<1> DEFINE G == {i \in Nat : i <= n => g[i] = f[i]}
<1>4. 0 \in G
  BY <1>2, <1>3
<1>5. ASSUME NEW i \in Nat, i \in G PROVE i + 1 \in G
  <2> SUFFICES ASSUME i + 1 <= n PROVE g[i + 1] = f[i + 1]
    OBVIOUS
  <2>1. i + 1 \in 1..n /\ i + 1 \in 1..(n + 1) /\ i + 1 - 1 = i /\ g[i] = f[i]
    BY <1>1, <1>5
  <2>2. A[i + 1] = T[i + 1]
    BY <1>1, <2>1
  <2>3. g[i + 1] = IF A[i + 1] \in S THEN Append(g[i], A[i + 1]) ELSE g[i]
    BY <1>3, <2>1
  <2>4. f[i + 1] = IF T[i + 1] \in S THEN Append(f[i], T[i + 1]) ELSE f[i]
    BY <1>2, <2>1
  <2> QED BY <2>1, <2>2, <2>3, <2>4
<1>6. g[n] = f[n]
  <2>1. Nat \subseteq G
    <3> HIDE DEF G
    <3> QED BY <1>4, <1>5, Induction
  <2> QED BY <1>1, <2>1
<1>7. n + 1 \in 1..(n + 1) /\ n + 1 - 1 = n
  BY <1>1
<1>8. g[n + 1] = IF t \in S THEN Append(g[n], t) ELSE g[n]
  BY <1>1, <1>3, <1>7
<1> QED BY <1>2, <1>3, <1>6, <1>8 DEF A

\* What is chosen are the tickets in S, none twice if none was there twice.
LEMMA ChosenIs ==
  ASSUME NEW T \in Seq(Ticket), NEW S
  PROVE  /\ Chosen(T, S) \in Seq(Ticket)
         /\ ToSet(Chosen(T, S)) = ToSet(T) \cap S
         /\ NoDup(T) => NoDup(Chosen(T, S))
<1> DEFINE G == {s \in Seq(Ticket) : /\ Chosen(s, S) \in Seq(Ticket)
                                     /\ ToSet(Chosen(s, S)) = ToSet(s) \cap S
                                     /\ NoDup(s) => NoDup(Chosen(s, S))}
<1>1. <<>> \in G
  BY EmptyIds, ChosenEmpty
<1>2. ASSUME NEW s \in Seq(Ticket), NEW t \in Ticket, s \in G
      PROVE  Append(s, t) \in G
  <2> DEFINE C == Chosen(s, S)
             A == Append(s, t)
  <2> SUFFICES A \in G
    OBVIOUS
  <2>1. /\ C \in Seq(Ticket) /\ ToSet(C) = ToSet(s) \cap S
        /\ NoDup(s) => NoDup(C)
    BY <1>2
  <2>2. /\ A \in Seq(Ticket) /\ ToSet(A) = ToSet(s) \cup {t}
        /\ NoDup(A) => NoDup(s) /\ t.id \notin IdSet(s)
    BY Appended
  <2>3. Chosen(A, S) = IF t \in S THEN Append(C, t) ELSE C
    BY ChosenAppend
  <2>4. IdSet(C) \subseteq IdSet(s)
    BY <2>1, IdsAre
  <2>5. CASE t \notin S
    <3> HIDE DEF A, C
    <3> QED BY <2>1, <2>2, <2>3, <2>5
  <2>6. CASE t \in S
    <3>1. /\ Append(C, t) \in Seq(Ticket)
          /\ ToSet(Append(C, t)) = ToSet(C) \cup {t}
          /\ NoDup(C) /\ t.id \notin IdSet(C) => NoDup(Append(C, t))
      BY <2>1, Appended
    <3> HIDE DEF A, C
    <3> QED BY <2>1, <2>2, <2>3, <2>4, <2>6, <3>1
  <2> QED BY <2>5, <2>6
<1>3. Seq(Ticket) \subseteq G
  <2> HIDE DEF G
  <2> QED BY <1>1, <1>2, AppendInduction
<1> QED BY <1>3

-----------------------------------------------------------------------------
(***************************************************************************)
(* The loop of put.                                                        *)
(***************************************************************************)

\* A form with a status for each id.
Forms == {form \in [ids : Seq(Ids), statuss : Seq(Statuses)] :
            Len(form.ids) = Len(form.statuss)}

LEMMA FormIs ==
  ASSUME NEW form \in Forms
  PROVE  /\ Len(form.ids) \in Nat
         /\ form.ids \in Seq(Ids)
         /\ \A i \in 1..Len(form.ids) :
              /\ form.ids[i] \in Ids
              /\ form.statuss[i] \in Statuses
              /\ [id |-> form.ids[i], status |-> form.statuss[i]] \in Ticket
<1>1. /\ form.ids \in Seq(Ids) /\ form.statuss \in Seq(Statuses)
      /\ Len(form.ids) = Len(form.statuss)
  BY DEF Forms
<1>2. \A i \in 1..Len(form.ids) :
         form.ids[i] \in Ids /\ form.statuss[i] \in Statuses
  BY <1>1, ElementOfSeq
<1> QED BY <1>1, <1>2, LenProperties DEF Ticket

\* A place adds the ticket it names, if that is stored and was not added yet.
LEMMA PlacedIs ==
  ASSUME NEW T \in Seq(Ticket), NEW form \in Forms, NEW out \in Seq(Ticket),
         NEW i \in 1..Len(form.ids)
  PROVE  /\ form.ids[i] \in IdSet(T) \ IdSet(out) =>
              Placed(T, form, out, i) =
                Append(out, [id |-> form.ids[i], status |-> form.statuss[i]])
         /\ form.ids[i] \notin IdSet(T) \ IdSet(out) =>
              Placed(T, form, out, i) = out
<1> DEFINE I == {k \in 1..Len(T) : T[k].id = form.ids[i]}
           place == IF I # {} THEN Min(I) ELSE 0
           added == [T[place] EXCEPT !.status = form.statuss[i]]
<1>1. Placed(T, form, out, i) =
        IF place = 0 \/ form.ids[i] \in IdSet(out) THEN out ELSE Append(out, added)
  BY Zenon DEF Placed, SelectInSeq, IdSet
<1>2. Len(T) \in Nat /\ I \in SUBSET Nat /\ 0 \notin I
  BY LenProperties
<1>3. I # {} <=> form.ids[i] \in IdSet(T)
  <2>1. IdSet(T) = {t.id : t \in ToSet(T)} /\ ToSet(T) = {T[k] : k \in 1..Len(T)}
    BY IdsAre, LenProperties DEF ToSet
  <2> QED BY <2>1
<1>4. CASE I = {}
  <2> HIDE DEF I, added
  <2> QED BY <1>1, <1>3, <1>4
<1>5. CASE I # {}
  <2>1. place \in I
    <3> HIDE DEF I
    <3> QED BY <1>2, <1>5, LeastIsMember
  <2>2. place # 0 /\ place \in 1..Len(T) /\ T[place].id = form.ids[i]
    <3> HIDE DEF place
    <3> QED BY <1>2, <2>1
  <2>3. added = [id |-> form.ids[i], status |-> form.statuss[i]]
    <3>1. T[place] \in Ticket
      <4> HIDE DEF place
      <4> QED BY <2>2, ElementOfSeq
    <3> HIDE DEF place
    <3> QED BY <2>2, <3>1 DEF Ticket
  <2> HIDE DEF place, added, I
  <2> QED BY <1>1, <1>3, <1>5, <2>2, <2>3
<1> QED BY <1>4, <1>5

LEMMA PlacedType ==
  ASSUME NEW T \in Seq(Ticket), NEW form \in Forms, NEW out \in Seq(Ticket),
         NEW i \in 1..Len(form.ids)
  PROVE  Placed(T, form, out, i) \in Seq(Ticket)
<1> DEFINE new == [id |-> form.ids[i], status |-> form.statuss[i]]
<1>1. new \in Ticket
  BY FormIs
<1>2. Append(out, new) \in Seq(Ticket)
  BY <1>1, Appended
<1>3. Placed(T, form, out, i) \in {out, Append(out, new)}
  BY PlacedIs
<1> QED BY <1>2, <1>3

\* The loop of put has a run, and computes what it ends with.
LEMMA RearrangedRun ==
  ASSUME NEW T \in Seq(Ticket), NEW form \in Forms
  PROVE  \E f : /\ f[0] = <<>>
                /\ \A i \in 1..Len(form.ids) : f[i] = Placed(T, form, f[i - 1], i)
                /\ Rearranged(T, form) = f[Len(form.ids)]
<1> DEFINE n == Len(form.ids)
           A == Seq(Ticket)
           step == [i \in 0 + 1..n |-> [s \in A |-> Placed(T, form, s, i)]]
           Eq(f) == f = [i \in 0..n |->
                           IF i = 0 THEN <<>> ELSE Placed(T, form, f[i - 1], i)]
<1>1. n \in Nat
  BY FormIs
<1>2. step \in [0 + 1..n -> [A -> A]]
  <2>1. \A i \in 0 + 1..n, s \in A : Placed(T, form, s, i) \in A
    BY PlacedType
  <2> HIDE DEF A
  <2> QED BY <2>1
<1>3. Runs(A, <<>>, 0, n, step) # {}
  <2>1. <<>> \in A /\ 0 \in Nat /\ 0 <= n
    BY <1>1, EmptySeq
  <2> HIDE DEF n, step, A
  <2> QED BY <1>1, <1>2, <2>1, RunExists
<1>4. PICK f \in [0..n -> A] :
        \A i \in 0..n : f[i] = IF i = 0 THEN <<>> ELSE step[i][f[i - 1]]
  <2> HIDE DEF n, step, A
  <2> QED BY <1>3 DEF Runs
<1>5. Eq(f)
  <2> SUFFICES ASSUME NEW i \in 0..n
               PROVE  f[i] = IF i = 0 THEN <<>> ELSE Placed(T, form, f[i - 1], i)
    BY <1>4
  <2>1. CASE i = 0
    BY <1>4, <2>1
  <2>2. CASE i # 0
    <3>1. i \in 0 + 1..n /\ i - 1 \in 0..n
      BY <1>1, <2>2
    <3>2. f[i - 1] \in A
      BY <3>1, Zenon
    <3>3. f[i] = step[i][f[i - 1]]
      BY <1>4, <2>2, Zenon
    <3>4. step[i][f[i - 1]] = Placed(T, form, f[i - 1], i)
      BY <3>1, <3>2, Zenon
    <3> QED BY <2>2, <3>3, <3>4, Zenon
  <2> QED BY <2>1, <2>2
<1> DEFINE c == CHOOSE g : Eq(g)
<1>6. Eq(c)
  <2> HIDE DEF Eq
  <2> QED BY <1>5, Zenon
<1>7. Rearranged(T, form) = c[n]
  BY Zenon DEF Rearranged
<1>8. \A i \in 0..n : c[i] = IF i = 0 THEN <<>> ELSE Placed(T, form, c[i - 1], i)
  <2> HIDE DEF c
  <2> QED BY <1>6, Zenon
<1>9. /\ 0 \in 0..n
      /\ \A i \in 1..n : i \in 0..n /\ i # 0
  BY <1>1
<1> HIDE DEF c
<1> QED BY <1>7, <1>8, <1>9, Zenon

\* The tickets of s are what the places of P, in increasing order, say.
Follows(s, form, P, order) ==
  /\ order \in [1..Len(s) -> P]
  /\ ToSet(order) = P
  /\ \A i, j \in 1..Len(s) : i < j => order[i] < order[j]
  /\ \A i \in 1..Len(s) :
       s[i] = [id |-> form.ids[order[i]], status |-> form.statuss[order[i]]]

\* A ticket appended for a later place.
LEMMA FollowsOn ==
  ASSUME NEW form \in Forms, NEW s \in Seq(Ticket), NEW P \in SUBSET Nat,
         NEW order, Follows(s, form, P, order),
         NEW k \in 1..Len(form.ids), \A p \in P : p < k,
         NEW t \in Ticket, t = [id |-> form.ids[k], status |-> form.statuss[k]]
  PROVE  \E o : Follows(Append(s, t), form, P \cup {k}, o)
<1> DEFINE n == Len(s)
           A == Append(s, t)
           o == [i \in 1..(n + 1) |-> IF i = n + 1 THEN k ELSE order[i]]
<1>1. /\ n \in Nat /\ Len(A) = n + 1 /\ A[n + 1] = t
      /\ \A i \in 1..n : A[i] = s[i]
  BY AppendProperties, LenProperties
<1>2. /\ 1..(n + 1) = (1..n) \cup {n + 1}
      /\ \A i \in 1..n : i # n + 1
      /\ \A i, j \in 1..(n + 1) : i < j => i \in 1..n
  BY <1>1
<1>3. /\ order \in [1..n -> P] /\ ToSet(order) = P
      /\ \A i, j \in 1..n : i < j => order[i] < order[j]
      /\ \A i \in 1..n : s[i] = [id     |-> form.ids[order[i]],
                                 status |-> form.statuss[order[i]]]
  BY DEF Follows
<1>4. k \in Nat /\ \A i \in 1..n : order[i] \in P
  BY <1>3
<1> HIDE DEF n, A
<1>5. o[n + 1] = k /\ \A i \in 1..n : o[i] = order[i]
  BY <1>2
<1>6. o \in [1..(n + 1) -> P \cup {k}]
  BY <1>2, <1>4
<1>7. ToSet(o) = P \cup {k}
  <2>1. P = {order[i] : i \in 1..n}
    BY <1>3 DEF ToSet
  <2>2. ToSet(o) = {o[i] : i \in 1..(n + 1)}
    BY <1>6 DEF ToSet
  <2> HIDE DEF o
  <2> QED BY <1>2, <1>5, <2>1, <2>2
<1> HIDE DEF o
<1>8. \A i, j \in 1..(n + 1) : i < j => o[i] < o[j]
  <2> SUFFICES ASSUME NEW i \in 1..(n + 1), NEW j \in 1..(n + 1), i < j
               PROVE  o[i] < o[j]
    OBVIOUS
  <2>1. i \in 1..n /\ o[i] = order[i] /\ order[i] \in P
    BY <1>2, <1>4, <1>5
  <2>2. CASE j = n + 1
    BY <1>5, <2>1, <2>2
  <2>3. CASE j \in 1..n
    BY <1>3, <1>5, <2>1, <2>3
  <2> QED BY <1>2, <2>2, <2>3
<1>9. \A i \in 1..(n + 1) :
        A[i] = [id |-> form.ids[o[i]], status |-> form.statuss[o[i]]]
  BY <1>1, <1>2, <1>3, <1>5
<1>10. Follows(A, form, P \cup {k}, o)
  BY <1>1, <1>6, <1>7, <1>8, <1>9 DEF Follows
<1> QED BY <1>10 DEF A

\* What put stores: the stored tickets that the form names, each once, as the
\* first places that name them say.
LEMMA RearrangedIs ==
  ASSUME NEW T \in Seq(Ticket), NEW form \in Forms
  PROVE  /\ Rearranged(T, form) \in Seq(Ticket)
         /\ NoDup(Rearranged(T, form))
         /\ IdSet(Rearranged(T, form)) = IdSet(T) \cap ToSet(form.ids)
         /\ \E order :
              Follows(Rearranged(T, form), form, Deciding(T, form), order)
<1> DEFINE n == Len(form.ids)
           Named(i) == {form.ids[k] : k \in 1..i}
           Places(i) == {p \in Deciding(T, form) : p <= i}
           Good(s, i) == /\ s \in Seq(Ticket)
                         /\ NoDup(s)
                         /\ IdSet(s) = IdSet(T) \cap Named(i)
                         /\ \E order : Follows(s, form, Places(i), order)
<1>1. n \in Nat
  BY FormIs
<1>2. PICK f : /\ f[0] = <<>>
               /\ \A i \in 1..n : f[i] = Placed(T, form, f[i - 1], i)
               /\ Rearranged(T, form) = f[n]
  BY RearrangedRun
<1> DEFINE G == {j \in Nat : j <= n => Good(f[j], j)}
<1>3. /\ Deciding(T, form) \subseteq 1..n
      /\ \A k \in 1..n :
           k \in Deciding(T, form) <=>
             /\ form.ids[k] \in IdSet(T)
             /\ \A l \in 1..k - 1 : form.ids[l] # form.ids[k]
  BY FormIs, LenProperties DEF Deciding, IdSet
<1>4. 0 \in G
  <2>1. Named(0) = {} /\ Places(0) = {}
    BY <1>3
  <2>2. Follows(<<>>, form, Places(0), <<>>)
    <3>1. /\ Len(<<>>) = 0 /\ 1..0 = {} /\ <<>> \in [1..0 -> {}]
      BY EmptySeq, LenProperties
    <3>2. ToSet(<<>>) = {}
      BY EmptyIds
    <3> HIDE DEF Places
    <3> QED BY <2>1, <3>1, <3>2 DEF Follows
  <2>3. Good(<<>>, 0)
    <3> HIDE DEF Named, Places
    <3> QED BY <2>1, <2>2, EmptyIds
  <2> HIDE DEF Good
  <2> QED BY <1>2, <2>3
<1>5. ASSUME NEW i \in Nat, i \in G PROVE i + 1 \in G
  <2> SUFFICES ASSUME i + 1 <= n PROVE Good(f[i + 1], i + 1)
    <3> HIDE DEF Good
    <3> QED OBVIOUS
  <2> DEFINE k == i + 1
             new == [id |-> form.ids[k], status |-> form.statuss[k]]
  <2>1. k \in 1..n /\ k - 1 = i /\ 1..k = (1..i) \cup {k}
    BY <1>1
  <2>2. Good(f[i], i)
    <3> HIDE DEF Good
    <3> QED BY <1>1, <1>5
  <2>3. f[k] = IF form.ids[k] \in IdSet(T) \ IdSet(f[i])
               THEN Append(f[i], new) ELSE f[i]
    <3>1. f[k] = Placed(T, form, f[i], k)
      <4> HIDE DEF k, Good
      <4> QED BY <1>2, <2>1
    <3>2. f[i] \in Seq(Ticket)
      BY <2>2
    <3>3. k \in 1..Len(form.ids)
      BY <2>1
    <3> HIDE DEF k, Good
    <3>4. /\ form.ids[k] \in IdSet(T) \ IdSet(f[i]) =>
               Placed(T, form, f[i], k) = Append(f[i], new)
          /\ form.ids[k] \notin IdSet(T) \ IdSet(f[i]) =>
               Placed(T, form, f[i], k) = f[i]
      BY <3>2, <3>3, PlacedIs
    <3> QED BY <3>1, <3>4
  <2>4. Named(k) = Named(i) \cup {form.ids[k]}
    <3> HIDE DEF k
    <3> QED BY <2>1
  <2>5. k \in Deciding(T, form) <=> form.ids[k] \in IdSet(T) \ IdSet(f[i])
    <3> HIDE DEF k
    <3> QED BY <1>3, <2>1, <2>2
  <2>6. CASE form.ids[k] \notin IdSet(T) \ IdSet(f[i])
    <3>1. Places(k) = Places(i)
      <4> HIDE DEF k
      <4> QED BY <1>3, <2>1, <2>5, <2>6
    <3> HIDE DEF k, Named, Places
    <3> QED BY <2>2, <2>3, <2>4, <2>6, <3>1 DEF k
  <2>7. CASE form.ids[k] \in IdSet(T) \ IdSet(f[i])
    <3>1. new \in Ticket /\ f[k] = Append(f[i], new) /\ new.id = form.ids[k]
      <4> HIDE DEF k
      <4> QED BY <2>1, <2>3, <2>7, FormIs
    <3>2. /\ Places(k) = Places(i) \cup {k}
          /\ Places(i) \in SUBSET Nat
          /\ \A p \in Places(i) : p < k
      <4> HIDE DEF k
      <4> QED BY <1>1, <1>3, <2>1, <2>5, <2>7
    <3>3. /\ f[k] \in Seq(Ticket)
          /\ NoDup(f[k])
          /\ IdSet(f[k]) = IdSet(f[i]) \cup {form.ids[k]}
      <4> HIDE DEF k, new, Named, Places
      <4> QED BY <2>2, <2>7, <3>1, Appended
    <3>4. IdSet(f[k]) = IdSet(T) \cap Named(k)
      <4> HIDE DEF k, Named, Places
      <4> QED BY <2>2, <2>4, <2>7, <3>3
    <3>5. \E order : Follows(f[k], form, Places(k), order)
      <4>1. PICK order : Follows(f[i], form, Places(i), order)
        BY <2>2
      <4>2. f[i] \in Seq(Ticket) /\ k \in 1..Len(form.ids)
        BY <2>1, <2>2
      <4>3. new = [id |-> form.ids[k], status |-> form.statuss[k]]
        OBVIOUS
      <4> HIDE DEF k, new, Named, Places, Good
      <4>4. \E o : Follows(Append(f[i], new), form, Places(i) \cup {k}, o)
        BY <3>1, <3>2, <4>1, <4>2, <4>3, FollowsOn
      <4> QED BY <3>1, <3>2, <4>4
    <3> HIDE DEF Named, Places
    <3> QED BY <3>3, <3>4, <3>5
  <2> QED BY <2>6, <2>7
<1>6. Nat \subseteq G
  <2> HIDE DEF G
  <2> QED BY <1>4, <1>5, Induction
<1>7. Good(f[n], n)
  <2> HIDE DEF Good
  <2>1. n \in G
    <3> HIDE DEF G
    <3> QED BY <1>1, <1>6
  <2> QED BY <1>1, <2>1
<1>8. ToSet(form.ids) = Named(n)
  BY FormIs, LenProperties DEF ToSet
<1>9. Places(n) = Deciding(T, form)
  BY <1>1, <1>3
<1> HIDE DEF Named, Places
<1> QED BY <1>2, <1>7, <1>8, <1>9

-----------------------------------------------------------------------------
(***************************************************************************)
(* Pages and the forms they make.                                          *)
(***************************************************************************)
\* The columns are statuses.
LEMMA ColumnsIn == ColumnSet \subseteq Statuses
BY ColumnsAssumption, LenProperties, ElementOfSeq DEF ColumnSet, ToSet

LEMMA SplitType ==
  ASSUME NEW T \in Seq(Ticket)
  PROVE  Split(T) \in Pages
<1>1. ASSUME NEW s \in ColumnSet
      PROVE  IdsOf(Chosen(T, [id : Ids, status : {s}])) \in Seq(Ids)
  BY ChosenIs, IdsAre
<1> QED BY <1>1 DEF Split, Pages

LEMMA BlankType == Blank \in Pages
BY EmptySeq DEF Blank, Pages

\* No id is on the page twice.
Once(p) ==
  /\ \A s \in ColumnSet : IsInjective(p[s])
  /\ \A s, r \in ColumnSet : s # r => ToSet(p[s]) \cap ToSet(p[r]) = {}

LEMMA BlankOnce == Once(Blank)
<1>1. IsInjective(<<>>) /\ ToSet(<<>>) = {}
  BY EmptyIds, LenProperties DEF IsInjective, NoDup, IdsOf, ToSet
<1> QED BY <1>1 DEF Once, Blank

\* A drop moves a card: the page stays a page, and shows no id twice.
LEMMA DroppedIs ==
  ASSUME NEW p \in Pages, NEW s \in ColumnSet, NEW r \in ColumnSet,
         NEW i \in DOMAIN p[s], NEW j \in 1..Len(p[r]) + 1,
         s = r => j <= Len(p[s])
  PROVE  /\ Dropped(p, s, i, r, j) \in Pages
         /\ Once(p) => Once(Dropped(p, s, i, r, j))
<1> DEFINE e == p[s][i]
           short == RemoveAt(p[s], i)
           lifted == [p EXCEPT ![s] = short]
           long == InsertAt(lifted[r], j, e)
           d == [lifted EXCEPT ![r] = long]
<1>1. /\ \A x \in ColumnSet : p[x] \in Seq(Ids)
      /\ i \in 1..Len(p[s]) /\ Len(p[s]) \in Nat /\ Len(p[r]) \in Nat
      /\ e \in Ids
  BY LenProperties, ElementOfSeq DEF Pages
<1>2. d = Dropped(p, s, i, r, j)
  BY DEF Dropped
<1>3. /\ short \in Seq(Ids) /\ Len(short) = Len(p[s]) - 1
      /\ ToSet(short) \subseteq ToSet(p[s])
      /\ IsInjective(p[s]) => IsInjective(short) /\ e \notin ToSet(short)
  BY <1>1, RemoveIs
<1> HIDE DEF short
<1>4. /\ lifted[s] = short
      /\ \A x \in ColumnSet : x # s => lifted[x] = p[x]
      /\ lifted \in Pages
  BY <1>3 DEF Pages
<1>5. e \in ToSet(p[s])
  BY <1>1, LenProperties DEF ToSet
<1> HIDE DEF e, lifted
<1>6. lifted[r] \in Seq(Ids) /\ j \in 1..Len(lifted[r]) + 1
  BY <1>1, <1>3, <1>4
<1>7. /\ long \in Seq(Ids) /\ ToSet(long) = ToSet(lifted[r]) \cup {e}
      /\ IsInjective(lifted[r]) /\ e \notin ToSet(lifted[r]) => IsInjective(long)
  BY <1>1, <1>6, InsertIs
<1> HIDE DEF long
<1>8. /\ d \in Pages /\ d[r] = long
      /\ \A x \in ColumnSet : x # r => d[x] = lifted[x]
  BY <1>4, <1>7 DEF Pages
<1> HIDE DEF d
<1>9. ASSUME Once(p) PROVE Once(d)
  <2>1. /\ \A x \in ColumnSet : IsInjective(p[x])
        /\ \A x, y \in ColumnSet : x # y => ToSet(p[x]) \cap ToSet(p[y]) = {}
    BY <1>9 DEF Once
  <2>2. \A x \in ColumnSet : /\ IsInjective(lifted[x])
                            /\ e \notin ToSet(lifted[x])
                            /\ ToSet(lifted[x]) \subseteq ToSet(p[x])
    BY <1>3, <1>4, <1>5, <2>1
  <2>3. \A x, y \in ColumnSet : x # y => ToSet(lifted[x]) \cap ToSet(lifted[y]) = {}
    BY <2>1, <2>2
  <2>4. \A x \in ColumnSet : IsInjective(d[x])
    BY <1>7, <1>8, <2>2
  <2>5. \A x \in ColumnSet : x # r =>
          ToSet(d[x]) \cap (ToSet(lifted[r]) \cup {e}) = {}
    BY <1>8, <2>2, <2>3
  <2>6. \A x, y \in ColumnSet : x # y => ToSet(d[x]) \cap ToSet(d[y]) = {}
    BY <1>7, <1>8, <2>3, <2>5
  <2> QED BY <2>4, <2>6 DEF Once
<1> QED BY <1>2, <1>8, <1>9

LEMMA FormOfType ==
  ASSUME NEW p \in Pages
  PROVE  FormOf(p) \in [ids : Seq(Ids), statuss : Seq(Statuses)]
<1> DEFINE I == [k \in DOMAIN Columns |-> p[Columns[k]]]
           S == [k \in DOMAIN Columns |->
                   [i \in DOMAIN p[Columns[k]] |-> Columns[k]]]
<1>1. /\ Len(Columns) \in Nat \ {0}
      /\ DOMAIN Columns = 1..Len(Columns)
      /\ \A k \in 1..Len(Columns) :
           Columns[k] \in Statuses /\ Columns[k] \in ColumnSet
  BY ColumnsAssumption, EmptySeq, LenProperties, ElementOfSeq DEF ColumnSet, ToSet
<1>2. \A k \in 1..Len(Columns) : p[Columns[k]] \in Seq(Ids)
  BY <1>1 DEF Pages
<1>3. I \in Seq(Seq(Ids)) /\ I # <<>>
  <2>1. I \in [1..Len(Columns) -> Seq(Ids)] /\ Len(I) # 0
    BY <1>1, <1>2
  <2> HIDE DEF I
  <2> QED BY <1>1, <2>1, SeqDef, EmptySeq
<1>4. S \in Seq(Seq(Statuses)) /\ S # <<>>
  <2>1. ASSUME NEW k \in 1..Len(Columns)
        PROVE  [i \in DOMAIN p[Columns[k]] |-> Columns[k]] \in Seq(Statuses)
    <3> DEFINE q == p[Columns[k]]
    <3>1. Len(q) \in Nat /\ DOMAIN q = 1..Len(q) /\ Columns[k] \in Statuses
      BY <1>1, <1>2, LenProperties
    <3>2. [i \in 1..Len(q) |-> Columns[k]] \in [1..Len(q) -> Statuses]
      <4> HIDE DEF q
      <4> QED BY <3>1
    <3> HIDE DEF q
    <3> QED BY <3>1, <3>2, SeqDef DEF q
  <2>2. S \in [1..Len(Columns) -> Seq(Statuses)] /\ Len(S) # 0
    BY <1>1, <2>1
  <2> HIDE DEF S
  <2> QED BY <1>1, <2>2, SeqDef, EmptySeq
<1>5. FlattenSeq(I) \in Seq(Ids) /\ FlattenSeq(S) \in Seq(Statuses)
  <2> HIDE DEF I, S
  <2> QED BY <1>3, <1>4, FlattenIs
<1> QED BY <1>5 DEF FormOf

-----------------------------------------------------------------------------
\* The ids of one column are those of the tickets with its status.
LEMMA ColumnIs ==
  ASSUME NEW T \in Seq(Ticket), NoDup(T), NEW s \in ColumnSet
  PROVE  /\ Split(T)[s] \in Seq(Ids)
         /\ IsInjective(Split(T)[s])
         /\ \A id : id \in ToSet(Split(T)[s]) <=>
              \E t \in ToSet(T) : t.id = id /\ t.status = s
<1> DEFINE C == Chosen(T, [id : Ids, status : {s}])
<1>1. Split(T)[s] = IdsOf(C)
  BY DEF Split
<1>2. /\ C \in Seq(Ticket) /\ NoDup(C)
      /\ ToSet(C) = ToSet(T) \cap [id : Ids, status : {s}]
  BY ChosenIs
<1>3. \A t \in Ticket : t \in [id : Ids, status : {s}] <=> t.status = s
  BY DEF Ticket
<1>4. ToSet(T) \subseteq Ticket
  BY IdsAre
<1> HIDE DEF C
<1>5. IdsOf(C) \in Seq(Ids) /\ IsInjective(IdsOf(C))
      /\ ToSet(IdsOf(C)) = {t.id : t \in ToSet(C)}
  BY <1>2, IdsAre DEF NoDup, IdSet
<1> QED BY <1>1, <1>2, <1>3, <1>4, <1>5

\* The ids of a form are those on the page, none twice if none is there twice.
LEMMA FormOnce ==
  ASSUME NEW p \in Pages, Once(p)
  PROVE  /\ IsInjective(FormOf(p).ids)
         /\ ToSet(FormOf(p).ids) = UNION {ToSet(p[s]) : s \in ColumnSet}
<1> DEFINE n == Len(Columns)
           cols == [k \in DOMAIN Columns |-> p[Columns[k]]]
<1>1. /\ n \in Nat \ {0}
      /\ DOMAIN Columns = 1..n
      /\ \A k \in 1..n : Columns[k] \in ColumnSet
      /\ ColumnSet = {Columns[k] : k \in 1..n}
      /\ \A k, l \in 1..n : Columns[k] = Columns[l] => k = l
  BY ColumnsAssumption, EmptySeq, LenProperties, ElementOfSeq
     DEF IsInjective, ColumnSet, ToSet
<1>2. cols = [k \in 1..n |-> p[Columns[k]]]
  BY <1>1
<1>3. FormOf(p).ids = FlattenSeq(cols)
  BY DEF FormOf
<1> HIDE DEF cols, n
<1>4. cols \in [1..n -> Seq(Ids)]
  BY <1>1, <1>2 DEF Pages
<1>5. cols \in Seq(Seq(Ids)) /\ Len(cols) = n
  BY <1>1, <1>4, SeqDef
<1>6. cols # <<>>
  BY <1>1, <1>5, EmptySeq
<1>7. \A k \in 1..n : IsInjective(cols[k])
  BY <1>1, <1>2 DEF Once
<1>8. \A k, l \in 1..n : k # l => ToSet(cols[k]) \cap ToSet(cols[l]) = {}
  BY <1>1, <1>2 DEF Once
<1>9. /\ ToSet(FlattenSeq(cols)) = UNION {ToSet(cols[k]) : k \in 1..n}
      /\ IsInjective(FlattenSeq(cols))
  BY <1>5, <1>6, <1>7, <1>8, FlattenIs
<1>10. UNION {ToSet(cols[k]) : k \in 1..n} = UNION {ToSet(p[s]) : s \in ColumnSet}
  BY <1>1, <1>2
<1> QED BY <1>3, <1>9, <1>10

\* No id is rendered twice.
LEMMA SplitOnce ==
  ASSUME NEW T \in Seq(Ticket), NoDup(T)
  PROVE  Once(Split(T))
<1>1. \A t, u \in ToSet(T) : t.id = u.id => t = u
  <2>1. \A i, j \in 1..Len(T) : T[i].id = T[j].id => i = j
    BY IdsAre
  <2>2. ToSet(T) = {T[i] : i \in 1..Len(T)}
    BY LenProperties DEF ToSet
  <2> QED BY <2>1, <2>2
<1>2. \A s \in ColumnSet :
        /\ IsInjective(Split(T)[s])
        /\ \A id : id \in ToSet(Split(T)[s]) <=>
             \E t \in ToSet(T) : t.id = id /\ t.status = s
  BY ColumnIs
<1>3. ASSUME NEW s \in ColumnSet, NEW r \in ColumnSet, s # r,
             NEW id, id \in ToSet(Split(T)[s]), id \in ToSet(Split(T)[r])
      PROVE  FALSE
  <2>1. PICK t \in ToSet(T) : t.id = id /\ t.status = s
    BY <1>2, <1>3
  <2>2. PICK u \in ToSet(T) : u.id = id /\ u.status = r
    BY <1>2, <1>3
  <2>3. t = u
    BY <1>1, <2>1, <2>2
  <2> QED BY <1>3, <2>1, <2>2, <2>3
<1>4. \A s, r \in ColumnSet :
        s # r => ToSet(Split(T)[s]) \cap ToSet(Split(T)[r]) = {}
  BY <1>3
<1> QED BY <1>2, <1>4 DEF Once

\* The rendered columns show no ticket twice.
LEMMA SplitShows ==
  ASSUME NEW T \in Seq(Ticket), NoDup(T)
  PROVE  IsInjective(FlattenSeq([k \in DOMAIN Columns |-> Split(T)[Columns[k]]]))
<1>1. PICK p \in Pages : p = Split(T)
  BY SplitType
<1>2. IsInjective(FormOf(p).ids)
  BY <1>1, SplitOnce, FormOnce
<1>3. FormOf(p).ids = FlattenSeq([k \in DOMAIN Columns |-> p[Columns[k]]])
  BY DEF FormOf
<1> QED BY <1>1, <1>2, <1>3

-----------------------------------------------------------------------------
(***************************************************************************)
(* Selecting from arrays that grow and that are concatenated.              *)
(***************************************************************************)
LEMMA ChosenConcat ==
  ASSUME NEW S, NEW A \in Seq(Ticket), NEW B \in Seq(Ticket)
  PROVE  Chosen(A \o B, S) = Chosen(A, S) \o Chosen(B, S)
<1> DEFINE G == {T \in Seq(Ticket) :
                   Chosen(A \o T, S) = Chosen(A, S) \o Chosen(T, S)}
<1>1. \A T \in Seq(Ticket) : Chosen(T, S) \in Seq(Ticket)
  BY ChosenIs
<1>2. <<>> \in G
  <2>1. <<>> \in Seq(Ticket)
    BY EmptySeq
  <2>2. A \o <<>> = A /\ Chosen(A, S) \o <<>> = Chosen(A, S)
    BY <1>1, ConcatEmptySeq
  <2> QED BY <2>1, <2>2, ChosenEmpty
<1>3. ASSUME NEW T \in Seq(Ticket), NEW t \in Ticket, T \in G
      PROVE  Append(T, t) \in G
  <2>1. /\ Append(T, t) \in Seq(Ticket) /\ A \o T \in Seq(Ticket)
        /\ A \o Append(T, t) = Append(A \o T, t)
    BY AppendProperties, ConcatProperties, ConcatAppend
  <2>2. Chosen(Append(A \o T, t), S) =
          IF t \in S THEN Append(Chosen(A \o T, S), t) ELSE Chosen(A \o T, S)
    BY <2>1, ChosenAppend
  <2>3. Chosen(Append(T, t), S) =
          IF t \in S THEN Append(Chosen(T, S), t) ELSE Chosen(T, S)
    BY ChosenAppend
  <2>4. Chosen(A, S) \o Append(Chosen(T, S), t) =
          Append(Chosen(A, S) \o Chosen(T, S), t)
    BY <1>1, ConcatAppend
  <2>5. Chosen(A \o T, S) = Chosen(A, S) \o Chosen(T, S)
    BY <1>3
  <2>6. Chosen(A \o Append(T, t), S) = Chosen(A, S) \o Chosen(Append(T, t), S)
    BY <2>1, <2>2, <2>3, <2>4, <2>5
  <2> QED BY <2>1, <2>6
<1>4. Seq(Ticket) \subseteq G
  <2> HIDE DEF G
  <2> QED BY <1>2, <1>3, AppendInduction
<1> QED BY <1>4

LEMMA ChosenAll ==
  ASSUME NEW S, NEW T \in Seq(Ticket), ToSet(T) \subseteq S
  PROVE  Chosen(T, S) = T
<1> DEFINE G == {s \in Seq(Ticket) : ToSet(s) \subseteq S => Chosen(s, S) = s}
<1>1. <<>> \in G
  BY EmptySeq, ChosenEmpty
<1>2. ASSUME NEW s \in Seq(Ticket), NEW t \in Ticket, s \in G
      PROVE  Append(s, t) \in G
  BY <1>2, Appended, ChosenAppend
<1>3. Seq(Ticket) \subseteq G
  <2> HIDE DEF G
  <2> QED BY <1>1, <1>2, AppendInduction
<1> QED BY <1>3

LEMMA ChosenNone ==
  ASSUME NEW S, NEW T \in Seq(Ticket), ToSet(T) \cap S = {}
  PROVE  Chosen(T, S) = <<>>
<1> DEFINE G == {s \in Seq(Ticket) : ToSet(s) \cap S = {} => Chosen(s, S) = <<>>}
<1>1. <<>> \in G
  BY EmptySeq, ChosenEmpty
<1>2. ASSUME NEW s \in Seq(Ticket), NEW t \in Ticket, s \in G
      PROVE  Append(s, t) \in G
  BY <1>2, Appended, ChosenAppend
<1>3. Seq(Ticket) \subseteq G
  <2> HIDE DEF G
  <2> QED BY <1>1, <1>2, AppendInduction
<1> QED BY <1>3

-----------------------------------------------------------------------------
(***************************************************************************)
(* The form of a page, stored and rendered, is the page.                   *)
(***************************************************************************)
\* Ids and statuses side by side.
Pairs(ids, statuss) ==
  [i \in 1..Len(ids) |-> [id |-> ids[i], status |-> statuss[i]]]

\* The hidden statuses of the column c, and the tickets in it.
Labels(q, c) == [i \in DOMAIN q |-> c]

Only(s) == [id : Ids, status : {s}]

\* Of ids and as many statuses they make tickets.
LEMMA PairsAre ==
  ASSUME NEW a \in Seq(Ids), NEW b \in Seq(Statuses), Len(a) = Len(b)
  PROVE  /\ Pairs(a, b) \in Seq(Ticket)
         /\ Len(Pairs(a, b)) = Len(a)
         /\ IdsOf(Pairs(a, b)) = a
         /\ \A i \in 1..Len(a) : Pairs(a, b)[i].id = a[i]
<1>1. /\ Len(a) \in Nat
      /\ \A i \in 1..Len(a) : a[i] \in Ids /\ b[i] \in Statuses
      /\ a = [i \in 1..Len(a) |-> a[i]]
  BY ElementOfSeq, LenProperties
<1>2. Pairs(a, b) \in [1..Len(a) -> Ticket]
  BY <1>1 DEF Pairs, Ticket
<1>3. Pairs(a, b) \in Seq(Ticket) /\ Len(Pairs(a, b)) = Len(a)
  BY <1>1, <1>2, SeqDef
<1>4. DOMAIN Pairs(a, b) = 1..Len(a) /\ \A i \in 1..Len(a) : Pairs(a, b)[i].id = a[i]
  BY DEF Pairs
<1>5. IdsOf(Pairs(a, b)) = [i \in 1..Len(a) |-> a[i]]
  BY <1>4 DEF IdsOf
<1> QED BY <1>1, <1>3, <1>4, <1>5

\* Pairs of concatenations are concatenations of pairs.
LEMMA PairsConcat ==
  ASSUME NEW a \in Seq(Ids), NEW b \in Seq(Statuses), Len(a) = Len(b),
         NEW c \in Seq(Ids), NEW d \in Seq(Statuses), Len(c) = Len(d)
  PROVE  /\ a \o c \in Seq(Ids) /\ b \o d \in Seq(Statuses)
         /\ Len(a \o c) = Len(b \o d)
         /\ Pairs(a \o c, b \o d) = Pairs(a, b) \o Pairs(c, d)
<1>1. /\ a \o c \in Seq(Ids)
      /\ Len(a \o c) = Len(a) + Len(c)
      /\ \A i \in 1..Len(a) + Len(c) :
           (a \o c)[i] = IF i <= Len(a) THEN a[i] ELSE c[i - Len(a)]
      /\ Len(a) \in Nat /\ Len(c) \in Nat
  BY ConcatProperties, LenProperties
<1>2. /\ b \o d \in Seq(Statuses)
      /\ Len(b \o d) = Len(a) + Len(c)
      /\ \A i \in 1..Len(a) + Len(c) :
           (b \o d)[i] = IF i <= Len(a) THEN b[i] ELSE d[i - Len(a)]
  BY ConcatProperties
<1> DEFINE P == Pairs(a, b)
           Q == Pairs(c, d)
           R == Pairs(a \o c, b \o d)
<1>3. /\ P \in Seq(Ticket) /\ Len(P) = Len(a)
      /\ Q \in Seq(Ticket) /\ Len(Q) = Len(c)
  BY PairsAre
<1>4. R \in Seq(Ticket) /\ Len(R) = Len(a) + Len(c)
  BY <1>1, <1>2, PairsAre
<1>5. /\ \A i \in 1..Len(a) : P[i] = [id |-> a[i], status |-> b[i]]
      /\ \A i \in 1..Len(c) : Q[i] = [id |-> c[i], status |-> d[i]]
      /\ \A i \in 1..Len(a) + Len(c) :
           R[i] = [id |-> (a \o c)[i], status |-> (b \o d)[i]]
  BY <1>1 DEF Pairs
<1> HIDE DEF P, Q, R
<1>6. /\ P \o Q \in Seq(Ticket)
      /\ Len(P \o Q) = Len(a) + Len(c)
      /\ \A i \in 1..Len(a) + Len(c) :
           (P \o Q)[i] = IF i <= Len(a) THEN P[i] ELSE Q[i - Len(a)]
  <2>1. /\ P \o Q \in Seq(Ticket)
        /\ Len(P \o Q) = Len(P) + Len(Q)
        /\ \A i \in 1..Len(P) + Len(Q) :
             (P \o Q)[i] = IF i <= Len(P) THEN P[i] ELSE Q[i - Len(P)]
    BY <1>3, ConcatProperties
  <2> QED BY <1>3, <2>1
<1>7. ASSUME NEW i \in 1..Len(a) + Len(c) PROVE R[i] = (P \o Q)[i]
  <2>1. CASE i <= Len(a)
    <3>1. i \in 1..Len(a)
      BY <1>1, <2>1
    <3> QED BY <1>1, <1>2, <1>5, <1>6, <2>1, <3>1
  <2>2. CASE ~(i <= Len(a))
    <3>1. i - Len(a) \in 1..Len(c)
      BY <1>1, <2>2
    <3> QED BY <1>1, <1>2, <1>5, <1>6, <2>2, <3>1
  <2> QED BY <2>1, <2>2
<1>8. R = P \o Q
  BY <1>4, <1>6, <1>7, SeqEqual
<1> QED BY <1>1, <1>2, <1>8 DEF P, Q, R

\* The tickets of one column are in that column.
LEMMA ColumnAlone ==
  ASSUME NEW q \in Seq(Ids), NEW c \in Statuses
  PROVE  /\ Labels(q, c) \in Seq(Statuses) /\ Len(Labels(q, c)) = Len(q)
         /\ \A s \in Statuses :
              /\ c = s => Chosen(Pairs(q, Labels(q, c)), Only(s)) =
                           Pairs(q, Labels(q, c))
              /\ c # s => Chosen(Pairs(q, Labels(q, c)), Only(s)) = <<>>
<1> DEFINE b == Labels(q, c)
<1>1. Len(q) \in Nat /\ DOMAIN q = 1..Len(q)
  BY LenProperties
<1>2. b \in [1..Len(q) -> Statuses] /\ \A i \in 1..Len(q) : b[i] = c
  BY <1>1 DEF Labels
<1> HIDE DEF b
<1>3. b \in Seq(Statuses) /\ Len(b) = Len(q)
  BY <1>1, <1>2, SeqDef
<1>4. /\ Pairs(q, b) \in Seq(Ticket) /\ Len(Pairs(q, b)) = Len(q)
      /\ ToSet(Pairs(q, b)) \subseteq Ticket
  BY <1>3, PairsAre, IdsAre
<1>5. \A i \in 1..Len(q) : Pairs(q, b)[i].status = c
  BY <1>2 DEF Pairs
<1>6. \A t \in ToSet(Pairs(q, b)) : t.status = c
  BY <1>4, <1>5, LenProperties DEF ToSet
<1>7. ASSUME NEW s \in Statuses
      PROVE  /\ c = s => Chosen(Pairs(q, b), Only(s)) = Pairs(q, b)
             /\ c # s => Chosen(Pairs(q, b), Only(s)) = <<>>
  <2>1. \A t \in Ticket : t \in Only(s) <=> t.status = s
    BY DEF Ticket, Only
  <2>2. CASE c = s
    <3>1. ToSet(Pairs(q, b)) \subseteq Only(s)
      BY <1>4, <1>6, <2>1, <2>2
    <3> QED BY <1>3, <1>4, <2>2, <3>1, ChosenAll
  <2>3. CASE c # s
    <3>1. ToSet(Pairs(q, b)) \cap Only(s) = {}
      BY <1>4, <1>6, <2>1, <2>3
    <3> QED BY <1>3, <1>4, <2>3, <3>1, ChosenNone
  <2> QED BY <2>2, <2>3
<1> QED BY <1>3, <1>7 DEF b

\* A form whose ids are all stored, none twice, is stored as it is.
LEMMA RearrangedAll ==
  ASSUME NEW T \in Seq(Ticket), NEW form \in Forms,
         IsInjective(form.ids), ToSet(form.ids) \subseteq IdSet(T)
  PROVE  Rearranged(T, form) = Pairs(form.ids, form.statuss)
<1> DEFINE n == Len(form.ids)
           all == Pairs(form.ids, form.statuss)
           Upto(i) == [k \in 1..i |-> all[k]]
<1>1. /\ n \in Nat /\ all \in Seq(Ticket) /\ Len(all) = n
      /\ IdsOf(all) = form.ids
      /\ form.ids \in Seq(Ids) /\ DOMAIN form.ids = 1..n
      /\ all = Upto(n)
      /\ \A k \in 1..n : all[k] \in Ticket /\ all[k].id = form.ids[k]
  <2>1. /\ form.ids \in Seq(Ids) /\ form.statuss \in Seq(Statuses)
        /\ Len(form.ids) = Len(form.statuss)
    BY DEF Forms
  <2>2. /\ all \in Seq(Ticket) /\ Len(all) = n /\ IdsOf(all) = form.ids
        /\ \A k \in 1..n : all[k].id = form.ids[k]
    BY <2>1, PairsAre
  <2> HIDE DEF all
  <2> QED BY <2>1, <2>2, LenProperties, ElementOfSeq
<1>2. PICK f : /\ f[0] = <<>>
               /\ \A i \in 1..n : f[i] = Placed(T, form, f[i - 1], i)
               /\ Rearranged(T, form) = f[n]
  BY RearrangedRun
<1>3. \A k \in 1..n : all[k] = [id |-> form.ids[k], status |-> form.statuss[k]]
  BY DEF Pairs
<1> HIDE DEF all, n
<1>4. \A k \in 1..n : form.ids[k] \in IdSet(T)
  BY <1>1 DEF ToSet
<1> DEFINE G == {j \in Nat : j <= n => f[j] = Upto(j)}
<1>5. 0 \in G
  <2>1. Upto(0) = <<>>
    BY EmptySeq
  <2> QED BY <1>2, <2>1
<1>6. ASSUME NEW i \in Nat, i \in G PROVE i + 1 \in G
  <2> SUFFICES ASSUME i + 1 <= n PROVE f[i + 1] = Upto(i + 1)
    OBVIOUS
  <2>1. PICK k \in 1..n : k = i + 1
    BY <1>1
  <2>2. k - 1 = i /\ 1..k = (1..i) \cup {k} /\ \A l \in 1..i : l \in 1..n /\ l # k
    BY <1>1, <2>1
  <2>3. PICK out : out = f[i]
    OBVIOUS
  <2>4. out = Upto(i)
    BY <1>1, <1>6, <2>3
  <2>5. out \in [1..i -> Ticket] /\ \A l \in 1..i : out[l] = all[l]
    <3>1. \A l \in 1..i : all[l] \in Ticket
      BY <1>1, <2>2
    <3> QED BY <2>4, <3>1
  <2>6. out \in Seq(Ticket) /\ Len(out) = i
    BY <2>5, SeqDef
  <2>7. form.ids[k] \notin IdSet(out)
    <3>1. \A l \in 1..i : out[l].id = form.ids[l]
      BY <1>1, <2>2, <2>5
    <3>2. \A l \in 1..i : form.ids[l] # form.ids[k]
      BY <1>1, <2>2 DEF IsInjective
    <3>3. IdSet(out) = {out[l].id : l \in 1..i}
      <4>1. IdSet(out) = {t.id : t \in ToSet(out)}
        BY <2>6, IdsAre
      <4>2. ToSet(out) = {out[l] : l \in 1..i}
        BY <2>5 DEF ToSet
      <4> QED BY <4>1, <4>2
    <3> QED BY <3>1, <3>2, <3>3
  <2>8. Placed(T, form, out, k) = Append(out, all[k])
    <3>1. k \in 1..Len(form.ids) /\ form.ids[k] \in IdSet(T) \ IdSet(out)
      BY <1>4, <2>7 DEF n
    <3>2. form.ids[k] \in IdSet(T) \ IdSet(out) =>
            Placed(T, form, out, k) =
              Append(out, [id |-> form.ids[k], status |-> form.statuss[k]])
      BY <2>6, <3>1, PlacedIs
    <3> QED BY <1>3, <3>1, <3>2
  <2>9. Append(out, all[k]) = Upto(k)
    <3>1. all[k] \in Ticket
      BY <1>1
    <3>2. /\ Append(out, all[k]) \in Seq(Ticket)
          /\ Len(Append(out, all[k])) = k
          /\ \A l \in 1..i : Append(out, all[k])[l] = all[l]
          /\ Append(out, all[k])[k] = all[k]
      BY <2>1, <2>5, <2>6, <3>1, AppendProperties
    <3>3. Append(out, all[k]) = [l \in 1..k |-> Append(out, all[k])[l]]
      BY <3>2, LenProperties
    <3>4. \A l \in 1..k : Append(out, all[k])[l] = all[l]
      BY <2>2, <3>2
    <3> QED BY <3>3, <3>4
  <2>10. f[k] = Placed(T, form, out, k)
    BY <1>2, <2>2, <2>3
  <2> QED BY <2>1, <2>8, <2>9, <2>10
<1>7. f[n] = Upto(n)
  <2>1. Nat \subseteq G
    <3> HIDE DEF G
    <3> QED BY <1>5, <1>6, Induction
  <2> QED BY <1>1, <2>1
<1> QED BY <1>1, <1>2, <1>7 DEF all

\* Of the form of a page, the tickets of one status are those of its column,
\* in their order.
LEMMA FormColumns ==
  ASSUME NEW p \in Pages
  PROVE  /\ FormOf(p) \in Forms
         /\ \A s \in ColumnSet :
              Chosen(Pairs(FormOf(p).ids, FormOf(p).statuss), Only(s)) =
                Pairs(p[s], Labels(p[s], s))
<1> DEFINE n == Len(Columns)
           col(k) == p[Columns[k]]
           lab(k) == Labels(p[Columns[k]], Columns[k])
           I == [k \in DOMAIN Columns |-> col(k)]
           S == [k \in DOMAIN Columns |-> lab(k)]
           Full(s) == Pairs(p[s], Labels(p[s], s))
<1>1. /\ n \in Nat \ {0}
      /\ DOMAIN Columns = 1..n
      /\ \A k \in 1..n : Columns[k] \in Statuses /\ Columns[k] \in ColumnSet
      /\ ColumnSet = {Columns[k] : k \in 1..n}
      /\ ColumnSet \subseteq Statuses
      /\ \A k, l \in 1..n : Columns[k] = Columns[l] => k = l
  BY ColumnsAssumption, EmptySeq, LenProperties, ElementOfSeq
     DEF IsInjective, ColumnSet, ToSet
<1>2. \A k \in 1..n : col(k) \in Seq(Ids)
  BY <1>1 DEF Pages
<1>3. \A k \in 1..n : lab(k) \in Seq(Statuses) /\ Len(lab(k)) = Len(col(k))
  BY <1>1, <1>2, ColumnAlone
<1>4. ASSUME NEW k \in 1..n, NEW s \in ColumnSet
      PROVE  /\ Columns[k] = s => Chosen(Pairs(col(k), lab(k)), Only(s)) = Full(s)
             /\ Columns[k] # s => Chosen(Pairs(col(k), lab(k)), Only(s)) = <<>>
  <2>1. PICK q \in Seq(Ids) : q = p[Columns[k]]
    BY <1>2
  <2>2. PICK c \in Statuses : c = Columns[k]
    BY <1>1
  <2>3. /\ c = s => Chosen(Pairs(q, Labels(q, c)), Only(s)) =
                     Pairs(q, Labels(q, c))
        /\ c # s => Chosen(Pairs(q, Labels(q, c)), Only(s)) = <<>>
    BY <1>1, ColumnAlone
  <2> QED BY <2>1, <2>2, <2>3
<1>5. /\ I \in Seq(Seq(Ids)) /\ Len(I) = n /\ I # <<>>
      /\ \A k \in 1..n : I[k] = col(k)
  <2>1. I = [k \in 1..n |-> col(k)]
    BY <1>1
  <2> HIDE DEF I, n, col
  <2>2. I \in [1..n -> Seq(Ids)] /\ \A k \in 1..n : I[k] = col(k)
    BY <1>2, <2>1
  <2>3. I \in Seq(Seq(Ids)) /\ Len(I) = n
    BY <1>1, <2>2, SeqDef
  <2> QED BY <1>1, <2>2, <2>3, EmptySeq
<1>6. /\ S \in Seq(Seq(Statuses)) /\ Len(S) = n /\ S # <<>>
      /\ \A k \in 1..n : S[k] = lab(k)
  <2>1. S = [k \in 1..n |-> lab(k)]
    BY <1>1
  <2> HIDE DEF S, n, lab
  <2>2. S \in [1..n -> Seq(Statuses)] /\ \A k \in 1..n : S[k] = lab(k)
    BY <1>3, <2>1
  <2>3. S \in Seq(Seq(Statuses)) /\ Len(S) = n
    BY <1>1, <2>2, SeqDef
  <2> QED BY <1>1, <2>2, <2>3, EmptySeq
<1>7. FormOf(p).ids = FlattenSeq(I) /\ FormOf(p).statuss = FlattenSeq(S)
  BY DEF FormOf, Labels
<1> HIDE DEF I, S, n, col, lab, Full
<1>8. PICK f : /\ \A i \in 1..n : f[i] = IF i = 1 THEN I[i] ELSE f[i - 1] \o I[i]
               /\ FlattenSeq(I) = f[n]
  <2>1. \E f : /\ \A i \in 1..Len(I) :
                    f[i] = IF i = 1 THEN I[i] ELSE f[i - 1] \o I[i]
               /\ FlattenSeq(I) = f[Len(I)]
    BY <1>5, FlattenRun
  <2> QED BY <1>5, <2>1
<1>9. PICK g : /\ \A i \in 1..n : g[i] = IF i = 1 THEN S[i] ELSE g[i - 1] \o S[i]
               /\ FlattenSeq(S) = g[n]
  <2>1. \E g : /\ \A i \in 1..Len(S) :
                    g[i] = IF i = 1 THEN S[i] ELSE g[i - 1] \o S[i]
               /\ FlattenSeq(S) = g[Len(S)]
    BY <1>6, FlattenRun
  <2> QED BY <1>6, <2>1
<1> DEFINE Good(i) ==
             /\ f[i] \in Seq(Ids) /\ g[i] \in Seq(Statuses)
             /\ Len(f[i]) = Len(g[i])
             /\ \A s \in ColumnSet :
                  /\ (\E l \in 1..i : Columns[l] = s) =>
                       Chosen(Pairs(f[i], g[i]), Only(s)) = Full(s)
                  /\ (\A l \in 1..i : Columns[l] # s) =>
                       Chosen(Pairs(f[i], g[i]), Only(s)) = <<>>
           G == {j \in Nat : j + 1 <= n => Good(j + 1)}
<1>10. 0 \in G
  <2>1. 1 \in 1..n /\ f[1] = col(1) /\ g[1] = lab(1) /\ 1..1 = {1}
    BY <1>1, <1>5, <1>6, <1>8, <1>9
  <2>2. /\ f[1] \in Seq(Ids) /\ g[1] \in Seq(Statuses) /\ Len(f[1]) = Len(g[1])
    BY <1>2, <1>3, <2>1
  <2>3. \A s \in ColumnSet :
           /\ Columns[1] = s => Chosen(Pairs(f[1], g[1]), Only(s)) = Full(s)
           /\ Columns[1] # s => Chosen(Pairs(f[1], g[1]), Only(s)) = <<>>
    BY <1>4, <2>1
  <2>4. Good(1)
    BY <2>1, <2>2, <2>3
  <2> HIDE DEF Good
  <2> QED BY <2>4
<1>11. ASSUME NEW j \in Nat, j \in G PROVE j + 1 \in G
  <2> SUFFICES ASSUME j + 1 + 1 <= n PROVE Good(j + 1 + 1)
    <3> HIDE DEF Good
    <3> QED OBVIOUS
  <2>1. PICK i \in Nat : i = j + 1
    OBVIOUS
  <2>2. PICK k \in 1..n : k = i + 1
    BY <1>1, <2>1
  <2>3. /\ i \in 1..n /\ k - 1 = i /\ k # 1
        /\ 1..k = (1..i) \cup {k}
        /\ \A l \in 1..i : l \in 1..n /\ l # k
    BY <1>1, <2>1, <2>2
  <2>4. Good(i)
    <3> HIDE DEF Good
    <3> QED BY <1>1, <1>11, <2>1
  <2>5. PICK a : a = f[i]
    OBVIOUS
  <2>6. PICK b : b = g[i]
    OBVIOUS
  <2>7. PICK c : c = col(k)
    OBVIOUS
  <2>8. PICK d : d = lab(k)
    OBVIOUS
  <2>9. /\ a \in Seq(Ids) /\ b \in Seq(Statuses) /\ Len(a) = Len(b)
        /\ c \in Seq(Ids) /\ d \in Seq(Statuses) /\ Len(c) = Len(d)
    BY <1>2, <1>3, <2>4, <2>5, <2>6, <2>7, <2>8
  <2>10. f[k] = a \o c /\ g[k] = b \o d
    BY <1>5, <1>6, <1>8, <1>9, <2>3, <2>5, <2>6, <2>7, <2>8
  <2>11. /\ a \o c \in Seq(Ids) /\ b \o d \in Seq(Statuses)
         /\ Len(a \o c) = Len(b \o d)
         /\ Pairs(a \o c, b \o d) = Pairs(a, b) \o Pairs(c, d)
    BY <2>9, PairsConcat
  <2>12. Pairs(a, b) \in Seq(Ticket) /\ Pairs(c, d) \in Seq(Ticket)
    BY <2>9, PairsAre
  <2>13. ASSUME NEW s \in ColumnSet
         PROVE  Chosen(Pairs(f[k], g[k]), Only(s)) =
                  Chosen(Pairs(a, b), Only(s)) \o Chosen(Pairs(c, d), Only(s))
    BY <2>10, <2>11, <2>12, ChosenConcat
  <2>14. ASSUME NEW s \in ColumnSet
         PROVE  /\ (\E l \in 1..k : Columns[l] = s) =>
                     Chosen(Pairs(f[k], g[k]), Only(s)) = Full(s)
                /\ (\A l \in 1..k : Columns[l] # s) =>
                     Chosen(Pairs(f[k], g[k]), Only(s)) = <<>>
    <3> DEFINE old == Chosen(Pairs(a, b), Only(s))
               new == Chosen(Pairs(c, d), Only(s))
    <3>1. old \in Seq(Ticket) /\ new \in Seq(Ticket)
      BY <2>12, ChosenIs
    <3>2. /\ (\E l \in 1..i : Columns[l] = s) => old = Full(s)
          /\ (\A l \in 1..i : Columns[l] # s) => old = <<>>
      BY <2>4, <2>5, <2>6
    <3>3. /\ Columns[k] = s => new = Full(s)
          /\ Columns[k] # s => new = <<>>
      BY <1>4, <2>7, <2>8
    <3>4. Chosen(Pairs(f[k], g[k]), Only(s)) = old \o new
      BY <2>13
    <3> HIDE DEF old, new
    <3>5. /\ old \o <<>> = old /\ <<>> \o new = new
      BY <3>1, ConcatEmptySeq
    <3>6. CASE Columns[k] = s
      <4>1. \A l \in 1..i : Columns[l] # s
        BY <1>1, <2>3, <3>6
      <4>2. old = <<>> /\ new = Full(s) /\ k \in 1..k
        BY <2>3, <3>2, <3>3, <3>6, <4>1
      <4> QED BY <3>4, <3>5, <3>6, <4>2
    <3>7. CASE Columns[k] # s
      BY <2>3, <3>2, <3>3, <3>4, <3>5, <3>7
    <3> QED BY <3>6, <3>7
  <2>15. Good(k)
    BY <2>10, <2>11, <2>14
  <2> HIDE DEF Good
  <2> QED BY <2>1, <2>2, <2>15
<1>12. Nat \subseteq G
  <2> HIDE DEF G
  <2> QED BY <1>10, <1>11, Induction
<1>13. Good(n)
  <2> HIDE DEF Good
  <2>1. n - 1 \in Nat /\ n - 1 + 1 = n
    BY <1>1
  <2>2. n - 1 \in G
    <3> HIDE DEF G
    <3> QED BY <1>12, <2>1
  <2> QED BY <1>1, <2>1, <2>2
<1>14. \A s \in ColumnSet : \E l \in 1..n : Columns[l] = s
  BY <1>1
<1>15. /\ FormOf(p).ids = f[n] /\ FormOf(p).statuss = g[n]
       /\ FormOf(p) \in [ids : Seq(Ids), statuss : Seq(Statuses)]
  BY <1>7, <1>8, <1>9, FormOfType
<1>16. FormOf(p) \in Forms
  BY <1>13, <1>15 DEF Forms
<1> QED BY <1>13, <1>14, <1>15, <1>16 DEF Full

\* A page that shows only stored tickets comes back as it is.
LEMMA DropRestores ==
  ASSUME NEW T \in Seq(Ticket), NEW p \in Pages, Once(p),
         UNION {ToSet(p[s]) : s \in ColumnSet} \subseteq IdSet(T)
  PROVE  Split(Rearranged(T, FormOf(p))) = p
<1>1. PICK form \in Forms : form = FormOf(p)
  BY FormColumns
<1>2. /\ IsInjective(form.ids) /\ ToSet(form.ids) \subseteq IdSet(T)
      /\ \A s \in ColumnSet : Chosen(Pairs(form.ids, form.statuss), Only(s)) =
                             Pairs(p[s], Labels(p[s], s))
  BY <1>1, FormOnce, FormColumns
<1>3. Rearranged(T, form) = Pairs(form.ids, form.statuss)
  BY <1>2, RearrangedAll
<1>4. \A s \in ColumnSet : IdsOf(Pairs(p[s], Labels(p[s], s))) = p[s]
  <2> SUFFICES ASSUME NEW s \in ColumnSet
               PROVE  IdsOf(Pairs(p[s], Labels(p[s], s))) = p[s]
    OBVIOUS
  <2>1. PICK q \in Seq(Ids) : q = p[s]
    BY DEF Pages
  <2>2. Labels(q, s) \in Seq(Statuses) /\ Len(q) = Len(Labels(q, s))
    BY ColumnsIn, ColumnAlone
  <2>3. IdsOf(Pairs(q, Labels(q, s))) = q
    BY <2>2, PairsAre
  <2> QED BY <2>1, <2>3
<1>5. Split(Rearranged(T, form)) =
        [s \in ColumnSet |-> IdsOf(Chosen(Rearranged(T, form), Only(s)))]
  BY DEF Split, Only
<1>6. \A s \in ColumnSet : IdsOf(Chosen(Rearranged(T, form), Only(s))) = p[s]
  BY <1>2, <1>3, <1>4
<1>7. p = [s \in ColumnSet |-> p[s]]
  BY DEF Pages
<1> QED BY <1>1, <1>5, <1>6, <1>7

-----------------------------------------------------------------------------
(***************************************************************************)
(* What a handler writes.                                                  *)
(***************************************************************************)
\* It is the atomic operation on the set of tickets, and no ticket is twice in
\* it if none was in the array that was read.
LEMMA StoredIs ==
  ASSUME NEW T \in Seq(Ticket), NEW r \in Request, Changes(r)
  PROVE  /\ Stored(T, r) \in Seq(Ticket)
         /\ r.kind \in {"add", "remove", "put"}
         /\ r.kind = "add" =>
              /\ r.ticket \in Ticket
              /\ ToSet(Stored(T, r)) = ToSet(T) \cup {r.ticket}
              /\ IdSet(Stored(T, r)) = IdSet(T) \cup {r.ticket.id}
              /\ NoDup(T) /\ r.ticket.id \notin IdSet(T) => NoDup(Stored(T, r))
         /\ r.kind = "remove" =>
              /\ r.id \in Ids
              /\ ToSet(Stored(T, r)) = {t \in ToSet(T) : t.id # r.id}
              /\ NoDup(T) => NoDup(Stored(T, r))
         /\ r.kind = "put" =>
              r.form \in Forms /\ Stored(T, r) = Rearranged(T, r.form)
<1>1. CASE r.kind = "add"
  <2>1. Stored(T, r) = Append(T, r.ticket) /\ r.ticket \in Ticket
    BY <1>1 DEF Stored, Request
  <2> QED BY <1>1, <2>1, Appended
<1>2. CASE r.kind = "remove"
  <2> DEFINE S == [id : Ids \ {r.id}, status : Statuses]
  <2>1. Stored(T, r) = Chosen(T, S) /\ r.id \in Ids
    BY <1>2 DEF Stored, Request
  <2>2. \A t \in Ticket : t \in S <=> t.id # r.id
    BY DEF Ticket
  <2>3. ToSet(T) \subseteq Ticket
    BY IdsAre
  <2> HIDE DEF S
  <2>4. /\ Chosen(T, S) \in Seq(Ticket)
        /\ ToSet(Chosen(T, S)) = {t \in ToSet(T) : t.id # r.id}
        /\ NoDup(T) => NoDup(Chosen(T, S))
    BY <2>2, <2>3, ChosenIs
  <2> QED BY <1>2, <2>1, <2>4
<1>3. CASE r.kind = "put"
  <2>1. r.form \in Forms /\ Stored(T, r) = Rearranged(T, r.form)
    BY <1>3 DEF Stored, Request, Changes, Form, Forms
  <2>2. Rearranged(T, r.form) \in Seq(Ticket)
    BY <2>1, RearrangedIs
  <2> QED BY <1>3, <2>1, <2>2
<1>4. r.kind \in {"add", "remove", "put"}
  BY DEF Changes
<1> QED BY <1>1, <1>2, <1>3, <1>4

\* The ids in it were read or added, and those read that are not in it were
\* deleted by name or left out of the form.
LEMMA StoredIds ==
  ASSUME NEW T \in Seq(Ticket), NoDup(T), NEW r \in Request, Changes(r),
         r.kind = "add" => r.ticket.id \notin IdSet(T)
  PROVE  /\ Stored(T, r) \in Seq(Ticket)
         /\ NoDup(Stored(T, r))
         /\ \A id \in IdSet(Stored(T, r)) :
              id \in IdSet(T) \/ (r.kind = "add" /\ id = r.ticket.id)
         /\ \A id \in IdSet(T) \ IdSet(Stored(T, r)) :
              \/ r.kind = "remove" /\ r.id = id
              \/ r.kind = "put" /\ id \notin ToSet(r.form.ids)
<1>1. PICK U : U = Stored(T, r)
  OBVIOUS
<1>2. IdSet(T) = {t.id : t \in ToSet(T)}
  BY IdsAre
<1>3. CASE r.kind = "add"
  <2>1. /\ U \in Seq(Ticket) /\ NoDup(U)
        /\ IdSet(U) = IdSet(T) \cup {r.ticket.id}
    BY <1>1, <1>3, StoredIs
  <2> QED BY <1>1, <1>3, <2>1
<1>4. CASE r.kind = "remove"
  <2>1. /\ U \in Seq(Ticket) /\ NoDup(U)
        /\ ToSet(U) = {t \in ToSet(T) : t.id # r.id}
    BY <1>1, <1>4, StoredIs
  <2>2. IdSet(U) = {t.id : t \in ToSet(U)}
    BY <2>1, IdsAre
  <2> QED BY <1>1, <1>2, <1>4, <2>1, <2>2
<1>5. CASE r.kind = "put"
  <2>1. r.form \in Forms /\ U = Rearranged(T, r.form)
    BY <1>1, <1>5, StoredIs
  <2>2. /\ U \in Seq(Ticket) /\ NoDup(U)
        /\ IdSet(U) = IdSet(T) \cap ToSet(r.form.ids)
    BY <2>1, RearrangedIs
  <2> QED BY <1>1, <1>5, <2>2
<1>6. r.kind \in {"add", "remove", "put"}
  BY StoredIs
<1> QED BY <1>3, <1>4, <1>5, <1>6

-----------------------------------------------------------------------------
(***************************************************************************)
(* The inductive invariant.  NoDuplicates alone is not inductive: a POST   *)
(* in flight must bring an id that no array has, neither the stored one    *)
(* nor one that a handler read and is about to write, which holds because  *)
(* ids are drawn once and a request is stored once.                        *)
(***************************************************************************)
Adds(cl) == stage[cl] \in {"sent", "fetched"} /\ request[cl].kind = "add"

\* What is stored, was read, or is on its way, was drawn.
Drawn ==
  /\ IdSet(tickets) \subseteq used
  /\ \A cl \in Clients : IdSet(snapshot[cl]) \subseteq used
  /\ \A cl \in Clients : Adds(cl) => request[cl].ticket.id \in used

\* No two requests bring the same id.
AddsApart ==
  \A cl, d \in Clients : Adds(cl) /\ Adds(d) /\ cl # d =>
    request[cl].ticket.id # request[d].ticket.id

\* A request that was not stored brings an id that no array has.
AddsNew ==
  \A cl \in Clients : Adds(cl) =>
    /\ request[cl].ticket.id \notin IdSet(tickets)
    /\ \A d \in Clients : request[cl].ticket.id \notin IdSet(snapshot[d])

\* What a handler knows of the stored array, unless another one wrote since.
HandlerOK(cl) ==
  /\ stage[cl] # "idle" => request[cl] \in Request
  /\ stage[cl] \in {"fetched", "stored"} => Changes(request[cl])
  /\ stage[cl] = "fetched" /\ ~overtaken[cl] => snapshot[cl] = tickets
  /\ stage[cl] = "stored" /\ ~overtaken[cl] =>
       tickets = Stored(snapshot[cl], request[cl])
  /\ stage[cl] = "answered" => answer[cl] \in Pages /\ Once(answer[cl])
  /\ NoDup(snapshot[cl])

BoardInv ==
  /\ TypeOK
  /\ NoDuplicates
  /\ Drawn
  /\ AddsApart
  /\ AddsNew
  /\ \A cl \in Clients : HandlerOK(cl)
  /\ \A tab \in Tabs : Once(page[tab])

LEMMA InitBoard == Init => BoardInv
<1> SUFFICES ASSUME Init PROVE BoardInv
  OBVIOUS
<1> DEFINE n == Len(DefaultIds)
<1>1. /\ n \in Nat /\ DOMAIN DefaultIds = 1..n
      /\ \A i \in 1..n : DefaultIds[i] \in Ids
  BY DefaultsAssumption, ElementOfSeq, LenProperties
<1>2. Columns[1] \in Statuses
  BY ColumnsAssumption, EmptySeq, ElementOfSeq
<1>3. /\ tickets = [i \in 1..n |-> [id |-> DefaultIds[i], status |-> Columns[1]]]
      /\ used = ToSet(DefaultIds)
  BY <1>1 DEF Init
<1>4. tickets \in [1..n -> Ticket]
  <2>1. \A i \in 1..n : [id |-> DefaultIds[i], status |-> Columns[1]] \in Ticket
    BY <1>1, <1>2 DEF Ticket
  <2> HIDE DEF n
  <2> QED BY <1>3, <2>1
<1>5. tickets \in Seq(Ticket) /\ Len(tickets) = n
  <2> HIDE DEF n
  <2> QED BY <1>1, <1>4, SeqDef
<1>6. \A i \in 1..n : tickets[i].id = DefaultIds[i]
  <2> HIDE DEF n
  <2> QED BY <1>3
<1>7. NoDuplicates
  <2>1. \A i, j \in 1..n : DefaultIds[i] = DefaultIds[j] => i = j
    BY <1>1, DefaultsAssumption DEF IsInjective
  <2>2. \A i, j \in 1..Len(tickets) : tickets[i].id = tickets[j].id => i = j
    <3> HIDE DEF n
    <3> QED BY <1>5, <1>6, <2>1
  <2>3. NoDup(tickets)
    BY <1>5, <2>2, IdsAre
  <2> QED BY <2>3 DEF NoDup, NoDuplicates
<1>8. TypeOK
  <2>1. used \in SUBSET Ids
    BY <1>1, <1>3 DEF ToSet
  <2>2. page \in [Tabs -> Pages]
    BY BlankType DEF Init
  <2>3. /\ request \in [Clients -> Request \cup {None}]
        /\ answer \in [Clients -> Pages \cup {None}]
        /\ stage \in [Clients -> Stages]
        /\ overtaken \in [Clients -> BOOLEAN]
    BY DEF Init, Stages
  <2>4. snapshot \in [Clients -> Seq(Ticket)]
    BY EmptyIds DEF Init
  <2> QED BY <1>5, <2>1, <2>2, <2>3, <2>4 DEF TypeOK
<1>9. IdSet(tickets) \subseteq used
  <2>1. ToSet(tickets) = {tickets[i] : i \in 1..n}
    BY <1>5, LenProperties DEF ToSet
  <2>2. used = {DefaultIds[i] : i \in 1..n}
    BY <1>1, <1>3 DEF ToSet
  <2>3. IdSet(tickets) = {t.id : t \in ToSet(tickets)}
    BY <1>5, IdsAre
  <2> HIDE DEF n
  <2> QED BY <1>6, <2>1, <2>2, <2>3
<1>10. \A cl \in Clients : /\ stage[cl] = "idle"
                           /\ IdSet(snapshot[cl]) = {}
                           /\ NoDup(snapshot[cl])
  BY EmptyIds DEF Init
<1>11. Drawn /\ AddsApart /\ AddsNew /\ \A cl \in Clients : HandlerOK(cl)
  BY <1>9, <1>10 DEF Drawn, AddsApart, AddsNew, Adds, HandlerOK
<1>12. \A tab \in Tabs : Once(page[tab])
  BY BlankOnce DEF Init
<1> QED BY <1>7, <1>8, <1>11, <1>12 DEF BoardInv

-----------------------------------------------------------------------------
(***************************************************************************)
(* Steps that change one client and its handler, but not the tickets.      *)
(***************************************************************************)
OthersKeep(cl) ==
  \A d \in Clients \ {cl} :
    /\ request'[d] = request[d]
    /\ stage'[d] = stage[d]
    /\ snapshot'[d] = snapshot[d]
    /\ overtaken'[d] = overtaken[d]
    /\ answer'[d] = answer[d]

LEMMA ClientKeeps ==
  ASSUME BoardInv, TypeOK', NEW cl \in Clients, OthersKeep(cl),
         tickets' = tickets, used \subseteq used',
         snapshot'[cl] \in {<<>>, tickets, snapshot[cl]},
         HandlerOK(cl)',
         Adds(cl)' => \/ Adds(cl) /\ request'[cl] = request[cl]
                      \/ request'[cl].ticket.id \in used' \ used,
         \A tab \in Tabs : Once(page'[tab])
  PROVE  BoardInv'
<1>1. /\ IdSet(tickets') = IdSet(tickets)
      /\ NoDuplicates'
  BY DEF BoardInv, NoDuplicates, IdSet, IdsOf
<1>2. \A d \in Clients : IdSet(snapshot'[d]) \subseteq IdSet(snapshot[d]) \cup IdSet(tickets)
  BY EmptyIds DEF OthersKeep
<1>3. \A d \in Clients \ {cl} : Adds(d)' => Adds(d) /\ request'[d] = request[d]
  BY DEF OthersKeep, Adds
<1>4. /\ IdSet(tickets) \subseteq used
      /\ \A d \in Clients : IdSet(snapshot[d]) \subseteq used
      /\ \A d \in Clients : Adds(d) => request[d].ticket.id \in used
  BY DEF BoardInv, Drawn
<1>5. \A d \in Clients : Adds(d)' =>
        \/ Adds(d) /\ request'[d] = request[d]
        \/ d = cl /\ request'[d].ticket.id \in used' \ used
  BY <1>3
<1>6. Drawn'
  <2>1. \A d \in Clients : IdSet(snapshot'[d]) \subseteq used'
    BY <1>2, <1>4
  <2>2. \A d \in Clients : Adds(d)' => request'[d].ticket.id \in used'
    BY <1>4, <1>5
  <2> QED BY <1>1, <1>4, <2>1, <2>2 DEF Drawn
<1>7. AddsApart'
  <2> SUFFICES ASSUME NEW d \in Clients, NEW e \in Clients, Adds(d)', Adds(e)', d # e
               PROVE  request'[d].ticket.id # request'[e].ticket.id
    BY DEF AddsApart
  <2>1. \A x, y \in Clients : Adds(x) /\ Adds(y) /\ x # y =>
          request[x].ticket.id # request[y].ticket.id
    BY DEF BoardInv, AddsApart
  <2> QED BY <1>4, <1>5, <2>1
<1>8. AddsNew'
  <2> SUFFICES ASSUME NEW d \in Clients, Adds(d)'
               PROVE  /\ request'[d].ticket.id \notin IdSet(tickets')
                      /\ \A e \in Clients :
                           request'[d].ticket.id \notin IdSet(snapshot'[e])
    BY DEF AddsNew
  <2>1. Adds(d) => /\ request[d].ticket.id \notin IdSet(tickets)
                   /\ \A e \in Clients : request[d].ticket.id \notin IdSet(snapshot[e])
    BY DEF BoardInv, AddsNew
  <2> QED BY <1>1, <1>2, <1>4, <1>5, <2>1
<1>9. \A d \in Clients : HandlerOK(d)'
  <2> SUFFICES ASSUME NEW d \in Clients \ {cl} PROVE HandlerOK(d)'
    OBVIOUS
  <2>1. HandlerOK(d)
    BY DEF BoardInv
  <2> QED BY <2>1 DEF HandlerOK, OthersKeep
<1> QED BY <1>1, <1>6, <1>7, <1>8, <1>9 DEF BoardInv

\* What BoardInv says of the variables, and of one client.
LEMMA Known ==
  ASSUME BoardInv, NEW cl \in Clients
  PROVE  /\ tickets \in Seq(Ticket) /\ NoDup(tickets)
         /\ used \in SUBSET Ids
         /\ page \in [Tabs -> Pages]
         /\ \A tab \in Tabs : Once(page[tab])
         /\ request \in [Clients -> Request \cup {None}]
         /\ stage \in [Clients -> Stages]
         /\ snapshot \in [Clients -> Seq(Ticket)]
         /\ overtaken \in [Clients -> BOOLEAN]
         /\ answer \in [Clients -> Pages \cup {None}]
         /\ HandlerOK(cl)
         /\ Tabs \subseteq Clients /\ Scripts \subseteq Clients
BY DEF BoardInv, TypeOK, NoDuplicates, NoDup, Clients

\* A client sends a request, which may bring a ticket of a new id.
LEMMA SendKeeps ==
  ASSUME BoardInv, NEW cl \in Clients, NEW r \in Request, Send(cl, r),
         used \subseteq used', used' \in SUBSET Ids,
         r.kind = "add" => r.ticket.id \in used' \ used,
         page' \in [Tabs -> Pages], \A tab \in Tabs : Once(page'[tab])
  PROVE  BoardInv'
<1>1. /\ tickets' = tickets /\ snapshot' = snapshot
      /\ overtaken' = overtaken /\ answer' = answer
      /\ request' = [request EXCEPT ![cl] = r]
      /\ stage' = [stage EXCEPT ![cl] = "sent"]
  BY DEF Send
<1>2. TypeOK'
  BY <1>1, Known DEF TypeOK, Stages
<1>3. /\ OthersKeep(cl)
      /\ request'[cl] = r /\ stage'[cl] = "sent"
  BY <1>1, Known DEF OthersKeep
<1>4. HandlerOK(cl)'
  BY <1>1, <1>3, Known DEF HandlerOK
<1>5. Adds(cl)' => request'[cl].ticket.id \in used' \ used
  BY <1>3 DEF Adds
<1> QED BY <1>1, <1>2, <1>3, <1>4, <1>5, ClientKeeps

LEMMA CreateKeeps ==
  ASSUME BoardInv, NEW cl \in Clients, NEW id \in Ids, NEW s \in Statuses,
         Create(cl, id, s)
  PROVE  BoardInv'
<1> DEFINE r == [kind |-> "add", ticket |-> [id |-> id, status |-> s]]
<1>1. r \in Request /\ r.kind = "add" /\ r.ticket.id = id
  BY DEF Request, Ticket
<1>2. /\ Send(cl, r)
      /\ id \notin used /\ used' = used \cup {id} /\ page' = page
  BY DEF Create
<1> HIDE DEF r
<1>3. /\ used \subseteq used' /\ used' \in SUBSET Ids
      /\ r.ticket.id \in used' \ used
  BY <1>1, <1>2, Known
<1> QED BY <1>1, <1>2, <1>3, SendKeeps, Known

LEMMA FinishKeeps ==
  ASSUME BoardInv, NEW cl \in Clients, Finish(cl),
         page' \in [Tabs -> Pages], \A tab \in Tabs : Once(page'[tab])
  PROVE  BoardInv'
<1>1. /\ tickets' = tickets /\ used' = used
      /\ request' = [request EXCEPT ![cl] = None]
      /\ stage' = [stage EXCEPT ![cl] = "idle"]
      /\ snapshot' = [snapshot EXCEPT ![cl] = <<>>]
      /\ overtaken' = [overtaken EXCEPT ![cl] = FALSE]
      /\ answer' = [answer EXCEPT ![cl] = None]
  BY DEF Finish
<1>2. TypeOK'
  BY <1>1, Known, EmptyIds DEF TypeOK, Stages
<1>3. OthersKeep(cl) /\ stage'[cl] = "idle" /\ snapshot'[cl] = <<>>
  BY <1>1, Known DEF OthersKeep
<1>4. HandlerOK(cl)' /\ ~Adds(cl)'
  BY <1>3, EmptyIds DEF HandlerOK, Adds
<1> QED BY <1>1, <1>2, <1>3, <1>4, ClientKeeps

LEMMA ReceiveKeeps ==
  ASSUME BoardInv, NEW cl \in Clients, Receive(cl)
  PROVE  BoardInv'
<1>1. answer[cl] \in Pages /\ Once(answer[cl])
  BY Known DEF Receive, HandlerOK
<1>2. page' = [tab \in Tabs |-> IF tab = cl THEN answer[cl] ELSE page[tab]]
  BY DEF Receive
<1>3. page' \in [Tabs -> Pages] /\ \A tab \in Tabs : Once(page'[tab])
  BY <1>1, <1>2, Known
<1> QED BY <1>3, FinishKeeps DEF Receive

-----------------------------------------------------------------------------
(***************************************************************************)
(* Steps of the handlers.                                                  *)
(***************************************************************************)
LEMMA FetchKeeps ==
  ASSUME BoardInv, NEW cl \in Clients, Fetch(cl)
  PROVE  BoardInv'
<1>1. /\ tickets' = tickets /\ used' = used /\ page' = page
      /\ request' = request /\ overtaken' = overtaken /\ answer' = answer
      /\ stage' = [stage EXCEPT ![cl] = "fetched"]
      /\ snapshot' = [snapshot EXCEPT ![cl] = tickets]
      /\ stage[cl] = "sent" /\ Changes(request[cl])
  BY DEF Fetch
<1>2. TypeOK'
  BY <1>1, Known DEF TypeOK, Stages
<1>3. OthersKeep(cl) /\ stage'[cl] = "fetched" /\ snapshot'[cl] = tickets
  BY <1>1, Known DEF OthersKeep
<1>4. HandlerOK(cl)'
  BY <1>1, <1>3, Known DEF HandlerOK
<1>5. Adds(cl)' => Adds(cl) /\ request'[cl] = request[cl]
  BY <1>1 DEF Adds
<1> QED BY <1>1, <1>2, <1>3, <1>4, <1>5, ClientKeeps, Known

LEMMA FailKeeps ==
  ASSUME BoardInv, NEW cl \in Clients, Fail(cl)
  PROVE  BoardInv'
<1>1. /\ tickets' = tickets /\ used' = used /\ page' = page
      /\ request' = request /\ answer' = answer
      /\ stage' = [stage EXCEPT ![cl] = "unstored"]
      /\ snapshot' = [snapshot EXCEPT ![cl] = <<>>]
      /\ overtaken' = [overtaken EXCEPT ![cl] = FALSE]
      /\ stage[cl] # "idle"
  BY DEF Fail
<1>2. TypeOK'
  BY <1>1, Known, EmptyIds DEF TypeOK, Stages
<1>3. OthersKeep(cl) /\ stage'[cl] = "unstored" /\ snapshot'[cl] = <<>>
  BY <1>1, Known DEF OthersKeep
<1>4. HandlerOK(cl)' /\ ~Adds(cl)'
  BY <1>1, <1>3, Known, EmptyIds DEF HandlerOK, Adds
<1> QED BY <1>1, <1>2, <1>3, <1>4, ClientKeeps, Known

LEMMA RenderKeeps ==
  ASSUME BoardInv, NEW cl \in Clients, Render(cl)
  PROVE  BoardInv'
<1>1. PICK shown \in {Split(tickets), Blank} : answer' = [answer EXCEPT ![cl] = shown]
  BY DEF Render
<1>2. /\ tickets' = tickets /\ used' = used /\ page' = page
      /\ request' = request
      /\ stage' = [stage EXCEPT ![cl] = "answered"]
      /\ snapshot' = [snapshot EXCEPT ![cl] = <<>>]
      /\ overtaken' = [overtaken EXCEPT ![cl] = FALSE]
      /\ stage[cl] # "idle"
  BY DEF Render
<1>3. shown \in Pages /\ Once(shown)
  BY Known, SplitType, SplitOnce, BlankType, BlankOnce
<1>4. TypeOK'
  BY <1>1, <1>2, <1>3, Known, EmptyIds DEF TypeOK, Stages
<1>5. /\ OthersKeep(cl) /\ stage'[cl] = "answered" /\ snapshot'[cl] = <<>>
      /\ answer'[cl] = shown
  BY <1>1, <1>2, Known DEF OthersKeep
<1>6. HandlerOK(cl)' /\ ~Adds(cl)'
  BY <1>2, <1>3, <1>5, Known, EmptyIds DEF HandlerOK, Adds
<1> QED BY <1>2, <1>4, <1>5, <1>6, ClientKeeps, Known

\* What a handler writes, given what it read.
LEMMA WriteIs ==
  ASSUME BoardInv, NEW cl \in Clients, Write(cl)
  PROVE  /\ snapshot[cl] \in Seq(Ticket) /\ NoDup(snapshot[cl])
         /\ request[cl] \in Request /\ Changes(request[cl])
         /\ tickets' = Stored(snapshot[cl], request[cl])
         /\ ~overtaken[cl] => snapshot[cl] = tickets
         /\ request[cl].kind = "add" =>
              /\ request[cl].ticket.id \notin IdSet(snapshot[cl])
              /\ request[cl].ticket.id \notin IdSet(tickets)
<1>1. stage[cl] = "fetched" /\ tickets' = Stored(snapshot[cl], request[cl])
  BY DEF Write
<1>2. /\ snapshot[cl] \in Seq(Ticket) /\ NoDup(snapshot[cl])
      /\ request[cl] \in Request /\ Changes(request[cl])
      /\ ~overtaken[cl] => snapshot[cl] = tickets
  BY <1>1, Known DEF HandlerOK
<1>3. request[cl].kind = "add" =>
        /\ request[cl].ticket.id \notin IdSet(snapshot[cl])
        /\ request[cl].ticket.id \notin IdSet(tickets)
  BY <1>1 DEF BoardInv, AddsNew, Adds
<1> QED BY <1>1, <1>2, <1>3

LEMMA WriteKeeps ==
  ASSUME BoardInv, NEW cl \in Clients, Write(cl)
  PROVE  BoardInv'
<1>1. /\ used' = used /\ page' = page /\ request' = request
      /\ snapshot' = snapshot /\ answer' = answer
      /\ stage[cl] = "fetched"
      /\ stage' = [stage EXCEPT ![cl] = "stored"]
      /\ overtaken' = [d \in Clients |->
                         d # cl /\ stage[d] \in {"fetched", "stored"}]
      /\ tickets' = Stored(snapshot[cl], request[cl])
  BY DEF Write
<1>2. PICK U : U = tickets'
  OBVIOUS
<1>3. /\ U \in Seq(Ticket) /\ NoDup(U)
      /\ \A id \in IdSet(U) :
           \/ id \in IdSet(snapshot[cl])
           \/ Adds(cl) /\ id = request[cl].ticket.id
  <2>1. PICK T : T = snapshot[cl]
    OBVIOUS
  <2>2. PICK r : r = request[cl]
    OBVIOUS
  <2>3. /\ T \in Seq(Ticket) /\ NoDup(T) /\ r \in Request /\ Changes(r)
        /\ U = Stored(T, r)
        /\ r.kind = "add" => r.ticket.id \notin IdSet(T)
    BY <1>2, <2>1, <2>2, WriteIs
  <2>4. /\ Stored(T, r) \in Seq(Ticket) /\ NoDup(Stored(T, r))
        /\ \A id \in IdSet(Stored(T, r)) :
             id \in IdSet(T) \/ (r.kind = "add" /\ id = r.ticket.id)
    BY <2>3, StoredIds
  <2> QED BY <1>1, <2>1, <2>2, <2>3, <2>4 DEF Adds
<1>4. TypeOK'
  <2>1. overtaken' \in [Clients -> BOOLEAN]
    BY <1>1
  <2>2. stage' \in [Clients -> Stages]
    BY <1>1, Known DEF Stages
  <2> QED BY <1>1, <1>2, <1>3, <2>1, <2>2, Known DEF TypeOK
<1>5. NoDuplicates' /\ IdSet(tickets)' = IdSet(U)
  BY <1>2, <1>3 DEF NoDup, NoDuplicates, IdSet, IdsOf
<1>6. /\ stage'[cl] = "stored" /\ ~overtaken'[cl]
      /\ \A d \in Clients \ {cl} :
           /\ stage'[d] = stage[d]
           /\ stage[d] \in {"fetched", "stored"} => overtaken'[d]
  BY <1>1, Known
<1>7. \A d \in Clients : Adds(d)' => Adds(d) /\ d # cl
  BY <1>6, <1>1 DEF Adds
<1>8. /\ IdSet(tickets) \subseteq used
      /\ \A d \in Clients : IdSet(snapshot[d]) \subseteq used
      /\ \A d \in Clients : Adds(d) => request[d].ticket.id \in used
  BY DEF BoardInv, Drawn
<1>9. Drawn'
  <2>1. IdSet(U) \subseteq used
    BY <1>3, <1>8
  <2> QED BY <1>1, <1>5, <1>7, <1>8, <2>1 DEF Drawn
<1>10. AddsApart'
  BY <1>1, <1>7 DEF BoardInv, AddsApart
<1>11. AddsNew'
  <2> SUFFICES ASSUME NEW d \in Clients, Adds(d)'
               PROVE  /\ request'[d].ticket.id \notin IdSet(tickets)'
                      /\ \A e \in Clients :
                           request'[d].ticket.id \notin IdSet(snapshot'[e])
    BY DEF AddsNew
  <2>1. /\ Adds(d) /\ d # cl
        /\ \A e \in Clients : request[d].ticket.id \notin IdSet(snapshot[e])
    BY <1>7 DEF BoardInv, AddsNew
  <2>2. Adds(cl) => request[d].ticket.id # request[cl].ticket.id
    BY <2>1 DEF BoardInv, AddsApart
  <2> QED BY <1>1, <1>3, <1>5, <2>1, <2>2
<1>12. \A d \in Clients : HandlerOK(d)'
  <2>1. HandlerOK(cl)'
    BY <1>1, <1>6, WriteIs DEF HandlerOK
  <2>2. ASSUME NEW d \in Clients \ {cl} PROVE HandlerOK(d)'
    <3>1. HandlerOK(d)
      BY DEF BoardInv
    <3> QED BY <1>1, <1>6, <3>1 DEF HandlerOK
  <2> QED BY <2>1, <2>2
<1>13. \A tab \in Tabs : Once(page'[tab])
  BY <1>1 DEF BoardInv
<1> QED BY <1>4, <1>5, <1>9, <1>10, <1>11, <1>12, <1>13 DEF BoardInv

LEMMA BoardStep == BoardInv /\ [Next]_vars => BoardInv'
<1> SUFFICES ASSUME BoardInv, [Next]_vars PROVE BoardInv'
  OBVIOUS
<1>1. ASSUME NEW cl \in Clients, NEW r \in Request, r.kind # "add",
             Send(cl, r), UNCHANGED used,
             page' \in [Tabs -> Pages], \A tab \in Tabs : Once(page'[tab])
      PROVE  BoardInv'
  BY <1>1, SendKeeps, Known
<1>2. ASSUME NEW cl \in Clients, Load(cl) PROVE BoardInv'
  <2>1. [kind |-> "get"] \in Request
    BY DEF Request
  <2> QED BY <1>1, <1>2, <2>1, Known DEF Load
<1>3. ASSUME NEW cl \in Clients, NEW id \in Ids, Delete(cl, id) PROVE BoardInv'
  <2>1. [kind |-> "remove", id |-> id] \in Request
    BY DEF Request
  <2> QED BY <1>1, <1>3, <2>1, Known DEF Delete
<1>4. ASSUME NEW cl \in Clients, Lose(cl) PROVE BoardInv'
  BY <1>4, FinishKeeps, Known DEF Lose
<1>5. ASSUME NEW cl \in Clients, ClientStep(cl) PROVE BoardInv'
  BY <1>2, <1>3, <1>4, <1>5, CreateKeeps, ReceiveKeeps DEF ClientStep
<1>6. ASSUME NEW cl \in Clients, HandlerStep(cl) PROVE BoardInv'
  BY <1>6, FetchKeeps, WriteKeeps, FailKeeps, RenderKeeps DEF HandlerStep
<1>7. ASSUME NEW form \in Form
      PROVE  [kind |-> "put", form |-> form] \in Request
  BY DEF Request
<1>8. ASSUME NEW tab \in Tabs, NEW s \in ColumnSet, NEW r \in ColumnSet,
             NEW i \in DOMAIN page[tab][s], NEW j \in 1..Len(page[tab][r]) + 1,
             s = r => j <= Len(page[tab][s]), Drag(tab, s, i, r, j)
      PROVE  BoardInv'
  <2>1. PICK p : p = Dropped(page[tab], s, i, r, j)
    OBVIOUS
  <2>2. tab \in Clients
    BY DEF Clients
  <2>3. page[tab] \in Pages /\ Once(page[tab])
    BY <2>2, Known
  <2>4. p \in Pages /\ Once(p)
    BY <1>8, <2>1, <2>3, DroppedIs
  <2>5. [kind |-> "put", form |-> FormOf(p)] \in Request
    BY <1>7, <2>4, FormOfType DEF Form
  <2>6. /\ Send(tab, [kind |-> "put", form |-> FormOf(p)])
        /\ page' = [page EXCEPT ![tab] = p] /\ UNCHANGED used
    BY <1>8, <2>1 DEF Drag
  <2>7. page' \in [Tabs -> Pages] /\ \A t \in Tabs : Once(page'[t])
    BY <2>2, <2>4, <2>6, Known
  <2> QED BY <1>1, <2>2, <2>5, <2>6, <2>7
<1>9. ASSUME NEW tab \in Tabs, TabStep(tab) PROVE BoardInv'
  BY <1>8, <1>9 DEF TabStep
<1>10. ASSUME NEW script \in Scripts, ScriptStep(script) PROVE BoardInv'
  <2>1. PICK form \in ScriptForms : Submit(script, form)
    BY <1>10 DEF ScriptStep
  <2>2. script \in Clients /\ [kind |-> "put", form |-> form] \in Request
    BY <1>7, FormsAssumption DEF Clients
  <2> QED BY <1>1, <2>1, <2>2, Known DEF Submit
<1>11. ASSUME UNCHANGED vars PROVE BoardInv'
  BY <1>11 DEF vars, BoardInv, TypeOK, NoDuplicates, Drawn, AddsApart, AddsNew,
               Adds, HandlerOK, IdSet, IdsOf
<1> QED BY <1>5, <1>6, <1>9, <1>10, <1>11 DEF Next

LEMMA BoardInvariant == Spec => []BoardInv
BY InitBoard, BoardStep, PTL DEF Spec

(***************************************************************************)
(* The array, the pages and the requests keep their shape, whatever loops  *)
(* over arrays and forms of any length make of them.                       *)
(***************************************************************************)
THEOREM TypeCorrect == Spec => []TypeOK
<1>1. BoardInv => TypeOK
  BY DEF BoardInv
<1> QED BY BoardInvariant, <1>1, PTL

(***************************************************************************)
(* handler.go:243 "to avoid dups": no ticket is ever stored twice,         *)
(* whatever forms arrive, of any length, stale or repeating ids, and       *)
(* however the statements of any number of handlers interleave.            *)
(***************************************************************************)
THEOREM DuplicatesCorrect == Spec => []NoDuplicates
<1>1. BoardInv => NoDuplicates
  BY DEF BoardInv
<1> QED BY BoardInvariant, <1>1, PTL

-----------------------------------------------------------------------------
(***************************************************************************)
(* Action properties.  Only an UPDATE and a rendering do what they are     *)
(* about.                                                                  *)
(***************************************************************************)
LEMMA StageStep ==
  ASSUME BoardInv, [Next]_vars, NEW cl \in Clients
  PROVE  /\ Writes(cl) => Write(cl)
         /\ Answers(cl) => Render(cl)
<1>1. stage \in [Clients -> Stages]
  BY DEF BoardInv, TypeOK
<1> DEFINE Goal == (Writes(cl) => Write(cl)) /\ (Answers(cl) => Render(cl))
<1>2. ASSUME NEW d, NEW x, x \notin {"stored", "answered"},
             stage' = [stage EXCEPT ![d] = x]
      PROVE  Goal
  BY <1>1, <1>2 DEF Writes, Answers
<1>3. ASSUME NEW d, NEW r, Send(d, r) PROVE Goal
  BY <1>2, <1>3 DEF Send
<1>4. ASSUME NEW d, Finish(d) PROVE Goal
  BY <1>2, <1>4 DEF Finish
<1>5. ASSUME NEW d \in Clients, ClientStep(d) PROVE Goal
  <2> HIDE DEF Goal
  <2> QED BY <1>3, <1>4, <1>5 DEF ClientStep, Load, Create, Delete, Receive, Lose
<1>6. ASSUME NEW d \in Clients, HandlerStep(d) PROVE Goal
  <2>1. CASE Fetch(d)
    BY <1>2, <2>1 DEF Fetch
  <2>2. CASE Fail(d)
    BY <1>2, <2>2 DEF Fail
  <2>3. CASE Write(d)
    <3>1. stage' = [stage EXCEPT ![d] = "stored"]
      BY <2>3 DEF Write
    <3>2. Writes(cl) => cl = d
      BY <1>1, <3>1 DEF Writes
    <3>3. ~Answers(cl)
      BY <1>1, <3>1 DEF Answers
    <3> QED BY <2>3, <3>2, <3>3
  <2>4. CASE Render(d)
    <3>1. stage' = [stage EXCEPT ![d] = "answered"]
      BY <2>4 DEF Render
    <3>2. ~Writes(cl)
      BY <1>1, <3>1 DEF Writes
    <3>3. Answers(cl) => cl = d
      BY <1>1, <3>1 DEF Answers
    <3> QED BY <2>4, <3>2, <3>3
  <2> QED BY <1>6, <2>1, <2>2, <2>3, <2>4 DEF HandlerStep
<1>7. ASSUME NEW tab \in Tabs, TabStep(tab) PROVE Goal
  <2> HIDE DEF Goal
  <2> QED BY <1>3, <1>7 DEF TabStep, Drag
<1>8. ASSUME NEW script \in Scripts, ScriptStep(script) PROVE Goal
  <2> HIDE DEF Goal
  <2> QED BY <1>3, <1>8 DEF ScriptStep, Submit
<1>9. CASE UNCHANGED vars
  BY <1>9 DEF vars, Writes, Answers
<1> QED BY <1>5, <1>6, <1>7, <1>8, <1>9 DEF Next

\* What one UPDATE adds to the board or takes from it.
LEMMA CardStep ==
  ASSUME BoardInv, [Next]_vars, NEW cl \in Clients, Writes(cl)
  PROVE  /\ \A id \in IdSet(tickets') \ IdSet(tickets) :
              \/ request[cl].kind = "add" /\ request[cl].ticket.id = id
              \/ overtaken[cl] /\ id \in IdSet(snapshot[cl])
         /\ \A id \in IdSet(tickets) \ IdSet(tickets') :
              \/ request[cl].kind = "remove" /\ request[cl].id = id
              \/ request[cl].kind = "put" /\ id \notin ToSet(request[cl].form.ids)
              \/ overtaken[cl] /\ id \notin IdSet(snapshot[cl])
<1>1. PICK T : T = snapshot[cl]
  OBVIOUS
<1>2. PICK r : r = request[cl]
  OBVIOUS
<1>3. /\ T \in Seq(Ticket) /\ NoDup(T) /\ r \in Request /\ Changes(r)
      /\ tickets' = Stored(T, r)
      /\ ~overtaken[cl] => T = tickets
      /\ r.kind = "add" => r.ticket.id \notin IdSet(T)
  BY <1>1, <1>2, StageStep, WriteIs
<1>4. /\ \A id \in IdSet(Stored(T, r)) :
           id \in IdSet(T) \/ (r.kind = "add" /\ id = r.ticket.id)
      /\ \A id \in IdSet(T) \ IdSet(Stored(T, r)) :
           \/ r.kind = "remove" /\ r.id = id
           \/ r.kind = "put" /\ id \notin ToSet(r.form.ids)
  BY <1>3, StoredIds
<1> QED BY <1>1, <1>2, <1>3, <1>4

(***************************************************************************)
(* A ticket enters and leaves the board by name, or because a handler      *)
(* wrote an array that it read before another one wrote: for forms and     *)
(* arrays of every length, and any number of handlers.                     *)
(***************************************************************************)
THEOREM CardsCorrect == Spec => CardsComeAndGoByName
<1>1. BoardInv /\ [Next]_vars =>
        \A cl \in Clients :
          Writes(cl)
          => LET before == ToSet(IdsOf(tickets))
                 after  == ToSet(IdsOf(tickets'))
                 read   == ToSet(IdsOf(snapshot[cl]))
                 r      == request[cl]
             IN  /\ \A id \in after \ before :
                      \/ r.kind = "add" /\ r.ticket.id = id
                      \/ overtaken[cl] /\ id \in read
                 /\ \A id \in before \ after :
                      \/ r.kind = "remove" /\ r.id = id
                      \/ r.kind = "put" /\ id \notin ToSet(r.form.ids)
                      \/ overtaken[cl] /\ id \notin read
  BY CardStep, Zenon DEF IdSet
<1> QED BY BoardInvariant, <1>1, PTL DEF Spec, CardsComeAndGoByName

-----------------------------------------------------------------------------
\* The step that renders the stored tickets.
LEMMA RenderStep ==
  ASSUME BoardInv, [Next]_vars, NEW cl \in Clients,
         Answers(cl), answer'[cl] # Blank
  PROVE  /\ IsInjective(FlattenSeq([k \in DOMAIN Columns |->
                                      answer'[cl][Columns[k]]]))
         /\ \A s \in ColumnSet :
              ToSet(answer'[cl][s]) =
                {t.id : t \in {x \in ToSet(tickets) : x.status = s}}
<1>1. PICK T : T = tickets
  OBVIOUS
<1>2. PICK p : p = answer'[cl]
  OBVIOUS
<1>3. T \in Seq(Ticket) /\ NoDup(T)
  BY <1>1, Known
<1>4. p = Split(T)
  BY <1>1, <1>2, StageStep, Known DEF Render
<1>5. IsInjective(FlattenSeq([k \in DOMAIN Columns |-> p[Columns[k]]]))
  BY <1>3, <1>4, SplitShows
<1>6. ASSUME NEW s \in ColumnSet
      PROVE  ToSet(p[s]) = {t.id : t \in {x \in ToSet(T) : x.status = s}}
  <2>1. \A id : id \in ToSet(Split(T)[s]) <=>
                \E t \in ToSet(T) : t.id = id /\ t.status = s
    BY <1>3, ColumnIs
  <2>2. PICK q : q = ToSet(p[s])
    OBVIOUS
  <2> DEFINE S == {x \in ToSet(T) : x.status = s}
             R == {t.id : t \in S}
  <2>3. \A id \in q : id \in R
    BY <1>4, <2>1, <2>2
  <2>4. \A t \in S : t.id \in q
    BY <1>4, <2>1, <2>2
  <2>5. q = R
    BY <2>3, <2>4
  <2> QED BY <2>2, <2>5
<1> QED BY <1>1, <1>2, <1>5, <1>6

(***************************************************************************)
(* The split of client.go:254-271 shows every stored ticket that has one   *)
(* of its statuses, in that column and nowhere else, and none twice, for   *)
(* arrays of every length and any statuses in them.                        *)
(***************************************************************************)
THEOREM RenderCorrect == Spec => RenderShowsEach
<1>1. BoardInv /\ [Next]_vars =>
        \A cl \in Clients : Answers(cl) /\ answer'[cl] # Blank =>
          /\ IsInjective(FlattenSeq([k \in DOMAIN Columns |->
                                       answer'[cl][Columns[k]]]))
          /\ \A s \in ColumnSet :
               ToSet(answer'[cl][s]) =
                 {t.id : t \in {x \in ToSet(tickets) : x.status = s}}
  BY RenderStep, Zenon
<1> QED BY BoardInvariant, <1>1, PTL DEF Spec, RenderShowsEach

-----------------------------------------------------------------------------
(***************************************************************************)
(* The refinement: the tickets, their order forgotten, are a board.        *)
(***************************************************************************)
Forgotten(T) == [u \in {None} |-> ToSet(T)]

\* An UPDATE that no other handler's came before is the operation requested.
LEMMA AtomicStep ==
  ASSUME BoardInv, [Next]_vars, NEW cl \in Clients, Writes(cl), ~overtaken[cl]
  PROVE  Operation(request[cl])
<1>1. PICK T : T = tickets
  OBVIOUS
<1>2. PICK U : U = tickets'
  OBVIOUS
<1>3. PICK r : r = request[cl]
  OBVIOUS
<1>4. /\ T \in Seq(Ticket) /\ NoDup(T) /\ r \in Request /\ Changes(r)
      /\ U = Stored(T, r)
      /\ r.kind = "add" => r.ticket.id \notin IdSet(T)
  BY <1>1, <1>2, <1>3, StageStep, WriteIs
<1>5. ToSet(T) \subseteq Ticket /\ IdSet(T) = {t.id : t \in ToSet(T)}
  BY <1>4, IdsAre
<1>6. CASE r.kind = "add"
  <2>1. r.ticket \in Ticket /\ ToSet(U) = ToSet(T) \cup {r.ticket}
    BY <1>4, <1>6, StoredIs
  <2>2. /\ \A x \in ToSet(T) : x.id # r.ticket.id
        /\ Forgotten(U) = [Forgotten(T) EXCEPT ![None] = @ \cup {r.ticket}]
    BY <1>4, <1>5, <1>6, <2>1 DEF Forgotten
  <2>3. Boards!Add(None, r.ticket)
    BY <1>1, <1>2, <2>2 DEF Boards!Add, Boards!Owners, Forgotten
  <2> QED BY <1>3, <1>6, <2>3 DEF Operation
<1>7. CASE r.kind = "remove"
  <2>1. r.id \in Ids /\ ToSet(U) = {t \in ToSet(T) : t.id # r.id}
    BY <1>4, <1>7, StoredIs
  <2>2. Forgotten(U) = [Forgotten(T) EXCEPT ![None] = {t \in @ : t.id # r.id}]
    BY <2>1 DEF Forgotten
  <2>3. Boards!Remove(None, r.id)
    BY <1>1, <1>2, <2>2 DEF Boards!Remove, Boards!Owners, Forgotten
  <2> QED BY <1>3, <1>7, <2>3 DEF Operation
<1>8. CASE r.kind = "put"
  <2>1. r.form \in Forms /\ U = Rearranged(T, r.form)
    BY <1>4, <1>8, StoredIs
  <2>2. /\ U \in Seq(Ticket) /\ NoDup(U)
        /\ IdSet(U) = IdSet(T) \cap ToSet(r.form.ids)
    BY <1>4, <2>1, RearrangedIs
  <2>3. ToSet(U) \subseteq Ticket /\ IdSet(U) = {t.id : t \in ToSet(U)}
    BY <2>2, IdsAre
  <2>4. \A t, v \in ToSet(U) : t.id = v.id => t = v
    <3>1. \A i, j \in 1..Len(U) : U[i].id = U[j].id => i = j
      BY <2>2, IdsAre
    <3>2. ToSet(U) = {U[i] : i \in 1..Len(U)}
      BY <2>2, LenProperties DEF ToSet
    <3> QED BY <3>1, <3>2
  <2> DEFINE N == ToSet(r.form.ids)
             form == [id \in N |-> IF id \in IdSet(U)
                                   THEN (CHOOSE t \in ToSet(U) : t.id = id).status
                                   ELSE Columns[1]]
  <2>5. /\ DOMAIN form = N
        /\ \A t \in ToSet(U) : form[t.id] = t.status
        /\ \A id \in N \ IdSet(U) : form[id] = Columns[1]
    <3> HIDE DEF N
    <3> QED BY <2>2, <2>3, <2>4 DEF N
  <2>6. form \in [N -> Statuses]
    <3>1. \A t \in Ticket : t.status \in Statuses
      BY DEF Ticket
    <3>2. Columns[1] \in Statuses
      BY ColumnsAssumption, EmptySeq, ElementOfSeq
    <3>3. \A id \in N : form[id] \in Statuses
      <4> HIDE DEF form, N
      <4> QED BY <2>3, <2>5, <3>1, <3>2
    <3> QED BY <3>3
  <2> HIDE DEF form
  <2>7. ToSet(U) = {t \in Ticket : /\ t.id \in DOMAIN form
                                   /\ t.status = form[t.id]
                                   /\ \E x \in ToSet(T) : x.id = t.id}
    <3> DEFINE R == {t \in Ticket : /\ t.id \in DOMAIN form
                                    /\ t.status = form[t.id]
                                    /\ \E x \in ToSet(T) : x.id = t.id}
    <3>1. \A t \in ToSet(U) : t \in R
      BY <1>5, <2>2, <2>3, <2>5
    <3>2. ASSUME NEW t \in R PROVE t \in ToSet(U)
      <4>1. t \in Ticket /\ t.status = form[t.id] /\ t.id \in IdSet(U)
        BY <1>5, <2>2, <2>5
      <4>2. PICK v \in ToSet(U) : v.id = t.id
        BY <2>3, <4>1
      <4>3. v \in Ticket /\ v.status = t.status
        BY <2>3, <2>5, <4>1, <4>2
      <4>4. v = t
        BY <4>1, <4>2, <4>3 DEF Ticket
      <4> QED BY <4>2, <4>4
    <3> QED BY <3>1, <3>2
  <2>8. Forgotten(U) = [Forgotten(T) EXCEPT ![None] =
                          {t \in Ticket : /\ t.id \in DOMAIN form
                                          /\ t.status = form[t.id]
                                          /\ \E x \in @ : x.id = t.id}]
    BY <2>7 DEF Forgotten
  <2>9. Boards!Rearrange(None, form)
    BY <1>1, <1>2, <2>8 DEF Boards!Rearrange, Boards!Owners, Boards!Ticket,
                            Ticket, Forgotten
  <2> QED BY <1>3, <1>8, <2>6, <2>9 DEF Operation
<1> QED BY <1>4, <1>6, <1>7, <1>8, StoredIs

(***************************************************************************)
(* The loops over arrays and forms compute the operations on sets that     *)
(* UserStore and AtomicBoards are written with, and take effect on the     *)
(* stored board in one step when no other UPDATE came after the SELECT,    *)
(* for arrays and forms of every length and any number of handlers.        *)
(***************************************************************************)
THEOREM AtomicCorrect == Spec => AtomicUnlessOvertaken
<1>1. BoardInv /\ [Next]_vars =>
        \A cl \in Clients :
          Writes(cl) /\ ~overtaken[cl] => Operation(request[cl])
  BY AtomicStep, Zenon
<1> QED BY BoardInvariant, <1>1, PTL DEF Spec, AtomicUnlessOvertaken

-----------------------------------------------------------------------------
\* The step that stores a form.
LEMMA PutStep ==
  ASSUME BoardInv, [Next]_vars, NEW cl \in Clients,
         Writes(cl), request[cl].kind = "put"
  PROVE  LET form   == request[cl].form
             places == Deciding(snapshot[cl], form)
         IN  \E order \in [DOMAIN tickets' -> places] :
               /\ ToSet(order) = places
               /\ \A i, j \in DOMAIN order : i < j => order[i] < order[j]
               /\ tickets' = [i \in DOMAIN order |->
                                [id     |-> form.ids[order[i]],
                                 status |-> form.statuss[order[i]]]]
<1>1. PICK T : T = snapshot[cl]
  OBVIOUS
<1>2. PICK U : U = tickets'
  OBVIOUS
<1>3. PICK r : r = request[cl]
  OBVIOUS
<1>4. /\ T \in Seq(Ticket) /\ NoDup(T) /\ r \in Request /\ Changes(r)
      /\ U = Stored(T, r)
  BY <1>1, <1>2, <1>3, StageStep, WriteIs
<1>5. r.form \in Forms /\ U = Rearranged(T, r.form)
  BY <1>3, <1>4, StoredIs
<1> DEFINE form   == r.form
           places == Deciding(T, form)
<1>6. PICK order : Follows(U, form, places, order)
  BY <1>4, <1>5, RearrangedIs
<1>7. U \in Seq(Ticket) /\ DOMAIN U = 1..Len(U)
  BY <1>4, <1>5, RearrangedIs, LenProperties
<1> HIDE DEF form, places
<1>8. /\ order \in [DOMAIN U -> places] /\ ToSet(order) = places
      /\ DOMAIN order = 1..Len(U)
      /\ \A i, j \in DOMAIN order : i < j => order[i] < order[j]
      /\ \A i \in 1..Len(U) : U[i] = [id     |-> form.ids[order[i]],
                                      status |-> form.statuss[order[i]]]
  BY <1>6, <1>7 DEF Follows
<1>9. U = [i \in DOMAIN order |-> [id     |-> form.ids[order[i]],
                                   status |-> form.statuss[order[i]]]]
  <2>1. U = [i \in 1..Len(U) |-> U[i]]
    BY <1>7, LenProperties
  <2> QED BY <1>8, <2>1
<1>10. \E o \in [DOMAIN U -> places] :
         /\ ToSet(o) = places
         /\ \A i, j \in DOMAIN o : i < j => o[i] < o[j]
         /\ U = [i \in DOMAIN o |-> [id     |-> form.ids[o[i]],
                                     status |-> form.statuss[o[i]]]]
  BY <1>8, <1>9
<1> QED BY <1>1, <1>2, <1>3, <1>10 DEF form, places

(***************************************************************************)
(* A PUT makes of the array that it read the form, less what was not in    *)
(* that array and less repetitions (handler.go:241-262), for forms of      *)
(* every length.                                                           *)
(***************************************************************************)
THEOREM PutCorrect == Spec => PutFollowsForm
<1>1. BoardInv /\ [Next]_vars =>
        \A cl \in Clients :
          Writes(cl) /\ request[cl].kind = "put"
          => LET form   == request[cl].form
                 places == Deciding(snapshot[cl], form)
             IN  \E order \in [DOMAIN tickets' -> places] :
                   /\ ToSet(order) = places
                   /\ \A i, j \in DOMAIN order : i < j => order[i] < order[j]
                   /\ tickets' = [i \in DOMAIN order |->
                                    [id     |-> form.ids[order[i]],
                                     status |-> form.statuss[order[i]]]]
  BY PutStep, Zenon
<1> QED BY BoardInvariant, <1>1, PTL DEF Spec, PutFollowsForm

-----------------------------------------------------------------------------
\* The step that answers a stored drag, when no other UPDATE came between.
LEMMA DropStep ==
  ASSUME BoardInv, [Next]_vars, NEW tab \in Tabs,
         Answers(tab), stage[tab] = "stored", ~overtaken[tab], FromPage(tab),
         Shown(tab) \subseteq ToSet(IdsOf(snapshot[tab]))
  PROVE  answer'[tab] \in {page[tab], Blank}
<1>1. PICK T : T = snapshot[tab]
  OBVIOUS
<1>2. PICK r : r = request[tab]
  OBVIOUS
<1>3. PICK p : p = page[tab]
  OBVIOUS
<1>4. tab \in Clients
  BY DEF Clients
<1>5. /\ T \in Seq(Ticket) /\ r \in Request /\ Changes(r)
      /\ p \in Pages /\ Once(p)
      /\ tickets = Stored(T, r)
  BY <1>1, <1>2, <1>3, <1>4, Known DEF HandlerOK
<1>6. UNION {ToSet(p[s]) : s \in ColumnSet} \subseteq IdSet(T)
  BY <1>1, <1>3 DEF Shown, IdSet
<1>7. r.kind = "put" /\ r.form = FormOf(p)
  BY <1>2, <1>3 DEF FromPage
<1>8. tickets = Rearranged(T, FormOf(p))
  <2>1. Stored(T, r) = Rearranged(T, r.form)
    BY <1>5, <1>7, StoredIs
  <2> QED BY <1>5, <1>7, <2>1
<1>9. Split(tickets) = p
  BY <1>5, <1>6, <1>8, DropRestores
<1>10. answer'[tab] \in {Split(tickets), Blank}
  BY <1>4, StageStep, Known DEF Render
<1> QED BY <1>3, <1>9, <1>10

(***************************************************************************)
(* What you drop is what you get: a stored drag on a page of stored        *)
(* tickets is answered with the page that it left in the tab, unless       *)
(* another handler wrote after its UPDATE or the tickets cannot be read,   *)
(* for boards of every size and any number of handlers.                    *)
(***************************************************************************)
THEOREM DropCorrect == Spec => DropIsKept
<1>1. BoardInv /\ [Next]_vars =>
        \A tab \in Tabs :
          /\ Answers(tab)
          /\ stage[tab] = "stored" /\ ~overtaken[tab]
          /\ FromPage(tab)
          /\ Shown(tab) \subseteq ToSet(IdsOf(snapshot[tab]))
          => answer'[tab] \in {page[tab], Blank}
  BY DropStep, Zenon
<1> QED BY BoardInvariant, <1>1, PTL DEF Spec, DropIsKept

=============================================================================
