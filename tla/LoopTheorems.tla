---------------------------- MODULE LoopTheorems ----------------------------
(***************************************************************************)
(* Facts about loops over sequences, which Board writes as recursive       *)
(* functions: induction, that such a function exists, and what one that    *)
(* concatenates computes.                                                  *)
(***************************************************************************)
EXTENDS Integers, SequencesExt, SequenceTheorems, WellFoundedInduction, TLAPS

\* Induction, said of a set instead of a predicate.
LEMMA Induction ==
  ASSUME NEW G, 0 \in G, \A n \in Nat : n \in G => n + 1 \in G
  PROVE  Nat \subseteq G
<1> SUFFICES ASSUME Nat \ G # {} PROVE FALSE
  OBVIOUS
<1>1. PICK n \in Nat \ G : \A m \in Nat \ G : <<m, n>> \notin OpToRel(<, Nat)
  <2>1. Nat \ G \subseteq Nat
    OBVIOUS
  <2> QED BY <2>1, NatLessThanWellFounded, WFMin, Zenon
<1>2. n - 1 \in Nat /\ n - 1 < n /\ n - 1 + 1 = n
  <2>1. n # 0 /\ n \in Nat
    BY <1>1
  <2> QED BY <2>1
<1>3. n - 1 \notin G
  BY <1>1, <1>2, Zenon
<1>4. <<n - 1, n>> \in OpToRel(<, Nat)
  BY <1>1, <1>2, Zenon DEF OpToRel
<1> QED BY <1>1, <1>2, <1>3, <1>4, Zenon

\* The least element of a set of natural numbers is one of them.
LEMMA LeastIsMember ==
  ASSUME NEW I \in SUBSET Nat, I # {}
  PROVE  Min(I) \in I /\ \A i \in I : Min(I) <= i
<1>1. PICK n \in I : \A i \in I : <<i, n>> \notin OpToRel(<, Nat)
  BY NatLessThanWellFounded, WFMin, Zenon
<1>2. ASSUME NEW i \in I, i < n PROVE FALSE
  <2>1. <<i, n>> \in OpToRel(<, Nat)
    BY <1>2, Zenon DEF OpToRel
  <2> QED BY <1>1, <2>1, Zenon
<1>3. \A i \in I : n <= i
  BY <1>2
<1> QED BY <1>3 DEF Min

\* The runs of a loop from place m to place n: what it has computed at each.
Runs(S, base, m, n, step) ==
  {f \in [m..n -> S] :
     \A i \in m..n : f[i] = IF i = m THEN base ELSE step[i][f[i - 1]]}

\* A loop that stays in a set of results has a run.
LEMMA RunExists ==
  ASSUME NEW S, NEW base \in S, NEW m \in Nat, NEW n \in Nat, m <= n,
         NEW step \in [m + 1..n -> [S -> S]]
  PROVE  Runs(S, base, m, n, step) # {}
<1> DEFINE Goal(k, f) ==
             \A i \in m..m + k : f[i] = IF i = m THEN base ELSE step[i][f[i - 1]]
           G == {k \in Nat : m + k <= n => \E f \in [m..m + k -> S] : Goal(k, f)}
<1>1. 0 \in G
  <2> DEFINE f == [i \in m..m + 0 |-> base]
  <2>1. f \in [m..m + 0 -> S]
    OBVIOUS
  <2>2. Goal(0, f)
    OBVIOUS
  <2> QED BY <2>1, <2>2
<1>2. ASSUME NEW k \in Nat, k \in G PROVE k + 1 \in G
  <2> SUFFICES ASSUME m + (k + 1) <= n
               PROVE  \E f \in [m..m + (k + 1) -> S] : Goal(k + 1, f)
    OBVIOUS
  <2>1. PICK g \in [m..m + k -> S] : Goal(k, g)
    BY <1>2
  <2> HIDE DEF G
  <2> DEFINE last == m + (k + 1)
             f == [i \in m..last |->
                     IF i = last THEN step[last][g[last - 1]] ELSE g[i]]
  <2>2. last \in m + 1..n /\ last - 1 \in m..m + k
    OBVIOUS
  <2>3. step[last][g[last - 1]] \in S
    <3>1. step[last] \in [S -> S]
      BY <2>2
    <3>2. g[last - 1] \in S
      BY <2>1, <2>2
    <3> HIDE DEF last
    <3> QED BY <3>1, <3>2
  <2>4. \A i \in m..last : i # last => i \in m..m + k
    OBVIOUS
  <2>5. f \in [m..last -> S]
    <3> HIDE DEF last, Goal
    <3> QED BY <2>1, <2>3, <2>4
  <2>6. ASSUME NEW i \in m..last
        PROVE  f[i] = IF i = m THEN base ELSE step[i][f[i - 1]]
    <3>1. CASE i = last
      <4>1. i # m /\ i - 1 \in m..last /\ i - 1 # last
        BY <3>1
      <4>2. f[i] = step[last][g[last - 1]]
        BY <3>1, Zenon
      <4>3. f[i - 1] = g[i - 1]
        BY <4>1, Zenon
      <4> HIDE DEF last, f
      <4> QED BY <3>1, <4>1, <4>2, <4>3
    <3>2. CASE i # last
      <4>1. i \in m..m + k /\ (i # m => i - 1 \in m..last /\ i - 1 # last)
        BY <3>2
      <4>2. f[i] = g[i]
        BY <3>2, Zenon
      <4>3. i # m => f[i - 1] = g[i - 1]
        BY <4>1, Zenon
      <4>4. g[i] = IF i = m THEN base ELSE step[i][g[i - 1]]
        BY <2>1, <4>1
      <4> HIDE DEF f
      <4> QED BY <4>2, <4>3, <4>4, Zenon
    <3> QED BY <3>1, <3>2
  <2>7. Goal(k + 1, f)
    BY <2>6
  <2> HIDE DEF f, Goal
  <2> QED BY <2>5, <2>7
<1>3. Nat \subseteq G
  <2> HIDE DEF G
  <2> QED BY <1>1, <1>2, Induction
<1>4. n - m \in Nat /\ m + (n - m) = n
  OBVIOUS
<1>5. n - m \in G
  <2> HIDE DEF G
  <2> QED BY <1>3, <1>4
<1>6. \E f \in [m..m + (n - m) -> S] : Goal(n - m, f)
  <2> HIDE DEF Goal
  <2> QED BY <1>4, <1>5
<1> HIDE DEF G
<1> QED BY <1>4, <1>6 DEF Runs

-----------------------------------------------------------------------------
\* The elements of a concatenation.
LEMMA ConcatElements ==
  ASSUME NEW S, NEW s \in Seq(S), NEW t \in Seq(S)
  PROVE  /\ s \o t \in Seq(S)
         /\ ToSet(s \o t) = ToSet(s) \cup ToSet(t)
<1>1. /\ s \o t \in Seq(S)
      /\ Len(s \o t) = Len(s) + Len(t)
      /\ \A i \in 1..Len(s) + Len(t) :
           (s \o t)[i] = IF i <= Len(s) THEN s[i] ELSE t[i - Len(s)]
      /\ Len(s) \in Nat /\ Len(t) \in Nat
      /\ DOMAIN s = 1..Len(s) /\ DOMAIN t = 1..Len(t)
      /\ DOMAIN (s \o t) = 1..Len(s) + Len(t)
  BY ConcatProperties, LenProperties
<1>2. ASSUME NEW i \in DOMAIN (s \o t)
      PROVE  (s \o t)[i] \in ToSet(s) \cup ToSet(t)
  <2>1. CASE i <= Len(s)
    <3>1. i \in DOMAIN s /\ (s \o t)[i] = s[i]
      BY <1>1, <2>1
    <3> QED BY <3>1 DEF ToSet
  <2>2. CASE ~(i <= Len(s))
    <3>1. i - Len(s) \in DOMAIN t /\ (s \o t)[i] = t[i - Len(s)]
      BY <1>1, <2>2
    <3> QED BY <3>1 DEF ToSet
  <2> QED BY <2>1, <2>2
<1>3. ASSUME NEW i \in DOMAIN s PROVE s[i] \in ToSet(s \o t)
  <2>1. i \in DOMAIN (s \o t) /\ (s \o t)[i] = s[i]
    BY <1>1
  <2> QED BY <2>1 DEF ToSet
<1>4. ASSUME NEW i \in DOMAIN t PROVE t[i] \in ToSet(s \o t)
  <2>1. /\ Len(s) + i \in DOMAIN (s \o t)
        /\ (s \o t)[Len(s) + i] = t[i]
    BY <1>1
  <2> QED BY <2>1 DEF ToSet
<1>5. /\ ToSet(s \o t) \subseteq ToSet(s) \cup ToSet(t)
      /\ ToSet(s) \subseteq ToSet(s \o t)
      /\ ToSet(t) \subseteq ToSet(s \o t)
  BY <1>2, <1>3, <1>4, Zenon DEF ToSet
<1> QED BY <1>1, <1>5

\* A concatenation of two sequences without repetitions that share nothing.
LEMMA ConcatInjective ==
  ASSUME NEW S, NEW s \in Seq(S), NEW t \in Seq(S),
         IsInjective(s), IsInjective(t), ToSet(s) \cap ToSet(t) = {}
  PROVE  IsInjective(s \o t)
<1>1. /\ s \o t \in Seq(S)
      /\ Len(s \o t) = Len(s) + Len(t)
      /\ \A i \in 1..Len(s) + Len(t) :
           (s \o t)[i] = IF i <= Len(s) THEN s[i] ELSE t[i - Len(s)]
      /\ Len(s) \in Nat /\ Len(t) \in Nat
      /\ DOMAIN s = 1..Len(s) /\ DOMAIN t = 1..Len(t)
      /\ DOMAIN (s \o t) = 1..Len(s) + Len(t)
  BY ConcatProperties, LenProperties
<1>2. \A i \in DOMAIN s, j \in DOMAIN t : s[i] # t[j]
  BY Zenon DEF ToSet
<1> SUFFICES ASSUME NEW i \in DOMAIN (s \o t), NEW j \in DOMAIN (s \o t),
                    (s \o t)[i] = (s \o t)[j]
             PROVE  i = j
  BY DEF IsInjective
<1>3. CASE i <= Len(s) /\ j <= Len(s)
  <2>1. i \in DOMAIN s /\ j \in DOMAIN s /\ s[i] = s[j]
    BY <1>1, <1>3
  <2> QED BY <2>1 DEF IsInjective
<1>4. CASE i <= Len(s) /\ ~(j <= Len(s))
  <2>1. i \in DOMAIN s /\ j - Len(s) \in DOMAIN t /\ s[i] = t[j - Len(s)]
    BY <1>1, <1>4
  <2> QED BY <2>1, <1>2
<1>5. CASE ~(i <= Len(s)) /\ j <= Len(s)
  <2>1. j \in DOMAIN s /\ i - Len(s) \in DOMAIN t /\ s[j] = t[i - Len(s)]
    BY <1>1, <1>5
  <2> QED BY <2>1, <1>2
<1>6. CASE ~(i <= Len(s)) /\ ~(j <= Len(s))
  <2>1. /\ i - Len(s) \in DOMAIN t /\ j - Len(s) \in DOMAIN t
        /\ t[i - Len(s)] = t[j - Len(s)]
    BY <1>1, <1>6
  <2>2. i - Len(s) = j - Len(s)
    BY <2>1 DEF IsInjective
  <2> QED BY <2>2, <1>1
<1> QED BY <1>3, <1>4, <1>5, <1>6

\* What the loop of FlattenSeq holds after each sequence.
LEMMA FlattenRun ==
  ASSUME NEW S, NEW seqs \in Seq(Seq(S)), seqs # <<>>
  PROVE  \E f : /\ \A i \in 1..Len(seqs) :
                     f[i] = IF i = 1 THEN seqs[i] ELSE f[i - 1] \o seqs[i]
                /\ FlattenSeq(seqs) = f[Len(seqs)]
<1> DEFINE n == Len(seqs)
           step == [i \in 1 + 1..n |-> [s \in Seq(S) |-> s \o seqs[i]]]
           Eq(f) == f = [i \in 1..n |->
                           IF i = 1 THEN seqs[i] ELSE f[i - 1] \o seqs[i]]
<1>1. n \in Nat \ {0} /\ \A i \in 1..n : seqs[i] \in Seq(S)
  BY EmptySeq, ElementOfSeq
<1>2. step \in [1 + 1..n -> [Seq(S) -> Seq(S)]]
  <2> SUFFICES ASSUME NEW i \in 1 + 1..n
               PROVE  [s \in Seq(S) |-> s \o seqs[i]] \in [Seq(S) -> Seq(S)]
    OBVIOUS
  <2>1. seqs[i] \in Seq(S)
    BY <1>1
  <2> QED BY <2>1, ConcatProperties
<1>3. PICK f \in [1..n -> Seq(S)] :
        \A i \in 1..n : f[i] = IF i = 1 THEN seqs[1] ELSE step[i][f[i - 1]]
  <2>1. PICK m \in Nat : m = 1
    OBVIOUS
  <2>2. m <= n /\ n \in Nat /\ seqs[1] \in Seq(S)
    BY <1>1, <2>1
  <2>3. step \in [m + 1..n -> [Seq(S) -> Seq(S)]]
    BY <1>2, <2>1
  <2> HIDE DEF n, step
  <2>4. Runs(Seq(S), seqs[1], m, n, step) # {}
    BY <2>2, <2>3, RunExists
  <2> QED BY <2>1, <2>4 DEF Runs
<1>4. Eq(f)
  <2> SUFFICES ASSUME NEW i \in 1..n
               PROVE  f[i] = IF i = 1 THEN seqs[i] ELSE f[i - 1] \o seqs[i]
    BY <1>3
  <2>1. CASE i = 1
    BY <1>3, <2>1
  <2>2. CASE i # 1
    <3>1. i \in 1 + 1..n /\ i - 1 \in 1..n
      BY <1>1, <2>2
    <3>2. f[i - 1] \in Seq(S)
      BY <3>1, Zenon
    <3>3. f[i] = step[i][f[i - 1]]
      BY <1>3, <2>2, Zenon
    <3>4. step[i][f[i - 1]] = f[i - 1] \o seqs[i]
      BY <3>1, <3>2, Zenon
    <3> QED BY <2>2, <3>3, <3>4
  <2> QED BY <2>1, <2>2
<1> DEFINE c == CHOOSE g : Eq(g)
<1>5. Eq(c)
  <2> HIDE DEF Eq
  <2> QED BY <1>4, Zenon
<1>6. \A i \in 1..n : c[i] = IF i = 1 THEN seqs[i] ELSE c[i - 1] \o seqs[i]
  <2> HIDE DEF c
  <2> QED BY <1>5, Zenon
<1>7. FlattenSeq(seqs) = c[n]
  <2>1. Len(seqs) # 0
    BY <1>1
  <2> QED BY <2>1, Zenon DEF FlattenSeq
<1> HIDE DEF c
<1> QED BY <1>6, <1>7

\* FlattenSeq keeps the elements, and repeats none that its arguments do not.
LEMMA FlattenIs ==
  ASSUME NEW S, NEW seqs \in Seq(Seq(S)), seqs # <<>>
  PROVE  /\ FlattenSeq(seqs) \in Seq(S)
         /\ ToSet(FlattenSeq(seqs)) = UNION {ToSet(seqs[k]) : k \in 1..Len(seqs)}
         /\ (/\ \A k \in 1..Len(seqs) : IsInjective(seqs[k])
             /\ \A k, l \in 1..Len(seqs) :
                  k # l => ToSet(seqs[k]) \cap ToSet(seqs[l]) = {})
            => IsInjective(FlattenSeq(seqs))
<1> DEFINE n == Len(seqs)
           Apart == /\ \A k \in 1..n : IsInjective(seqs[k])
                    /\ \A k, l \in 1..n :
                         k # l => ToSet(seqs[k]) \cap ToSet(seqs[l]) = {}
           Upto(i) == UNION {ToSet(seqs[k]) : k \in 1..i}
           Good(s, i) == /\ s \in Seq(S)
                         /\ ToSet(s) = Upto(i)
                         /\ Apart => IsInjective(s)
<1>1. n \in Nat \ {0} /\ \A i \in 1..n : seqs[i] \in Seq(S)
  BY EmptySeq, ElementOfSeq
<1>2. PICK f : /\ \A i \in 1..n :
                    f[i] = IF i = 1 THEN seqs[i] ELSE f[i - 1] \o seqs[i]
               /\ FlattenSeq(seqs) = f[n]
  BY FlattenRun
<1> DEFINE G == {j \in Nat : j + 1 <= n => Good(f[j + 1], j + 1)}
<1>3. 0 \in G
  <2>1. f[1] = seqs[1] /\ seqs[1] \in Seq(S) /\ 1 \in 1..n
    BY <1>1, <1>2
  <2>2. Upto(1) = ToSet(seqs[1])
    <3>1. 1..1 = {1}
      OBVIOUS
    <3> QED BY <3>1
  <2>3. Good(f[1], 1)
    BY <2>1, <2>2, Zenon
  <2> HIDE DEF Good
  <2> QED BY <2>3
<1>4. ASSUME NEW j \in Nat, j \in G PROVE j + 1 \in G
  <2> SUFFICES ASSUME j + 1 + 1 <= n PROVE Good(f[j + 1 + 1], j + 1 + 1)
    <3> HIDE DEF Good
    <3> QED OBVIOUS
  <2> DEFINE k == j + 1 + 1
  <2>1. /\ k \in 1..n /\ k # 1 /\ k - 1 = j + 1 /\ j + 1 \in 1..n
        /\ 1..k = (1..(j + 1)) \cup {k}
        /\ \A l \in 1..(j + 1) : l \in 1..n /\ l # k
    BY <1>1
  <2>2. Good(f[j + 1], j + 1)
    <3> HIDE DEF Good
    <3> QED BY <1>1, <1>4
  <2>3. f[k] = f[j + 1] \o seqs[k] /\ seqs[k] \in Seq(S)
    <3> HIDE DEF k
    <3> QED BY <1>1, <1>2, <2>1
  <2>4. f[k] \in Seq(S) /\ ToSet(f[k]) = Upto(j + 1) \cup ToSet(seqs[k])
    <3> HIDE DEF k, Upto, Apart
    <3> QED BY <2>2, <2>3, ConcatElements
  <2>5. Upto(k) = Upto(j + 1) \cup ToSet(seqs[k])
    <3> HIDE DEF k
    <3> QED BY <2>1
  <2>6. ASSUME Apart PROVE IsInjective(f[k])
    <3>1. IsInjective(f[j + 1]) /\ IsInjective(seqs[k])
      <4> HIDE DEF k, Upto
      <4> QED BY <2>1, <2>2, <2>6
    <3>2. \A l \in 1..(j + 1) : ToSet(seqs[l]) \cap ToSet(seqs[k]) = {}
      <4> HIDE DEF k
      <4> QED BY <2>1, <2>6
    <3>3. Upto(j + 1) \cap ToSet(seqs[k]) = {}
      <4> HIDE DEF k
      <4> QED BY <3>2
    <3>4. ToSet(f[j + 1]) \cap ToSet(seqs[k]) = {} /\ f[j + 1] \in Seq(S)
      <4> HIDE DEF k, Upto, Apart
      <4> QED BY <2>2, <3>3
    <3> HIDE DEF k
    <3> QED BY <2>3, <3>1, <3>4, ConcatInjective
  <2> HIDE DEF k, Upto, Apart
  <2> QED BY <2>4, <2>5, <2>6 DEF k
<1>5. Nat \subseteq G
  <2> HIDE DEF G
  <2> QED BY <1>3, <1>4, Induction
<1>6. Good(f[n], n)
  <2> HIDE DEF Good, n
  <2>1. n - 1 \in Nat /\ n - 1 + 1 = n
    BY <1>1
  <2>2. n - 1 \in G
    <3> HIDE DEF G
    <3> QED BY <1>5, <2>1
  <2> QED BY <1>1, <2>1, <2>2
<1> QED BY <1>2, <1>6

-----------------------------------------------------------------------------
\* Induction over sequences that grow at their end.
LEMMA AppendInduction ==
  ASSUME NEW S, NEW G, <<>> \in G,
         \A s \in Seq(S), e \in S : s \in G => Append(s, e) \in G
  PROVE  Seq(S) \subseteq G
<1> DEFINE H == {n \in Nat : \A s \in Seq(S) : Len(s) = n => s \in G}
<1>1. 0 \in H
  BY EmptySeq
<1>2. ASSUME NEW n \in Nat, n \in H PROVE n + 1 \in H
  <2> SUFFICES ASSUME NEW s \in Seq(S), Len(s) = n + 1 PROVE s \in G
    OBVIOUS
  <2> DEFINE front == [i \in 1..n |-> s[i]]
             last  == s[n + 1]
  <2>1. \A i \in 1..(n + 1) : s[i] \in S
    BY ElementOfSeq
  <2>2. front \in [1..n -> S] /\ last \in S
    BY <2>1
  <2>3. front \in Seq(S) /\ Len(front) = n
    <3> HIDE DEF front
    <3> QED BY <2>2, SeqDef
  <2>4. front \in G
    <3> HIDE DEF front
    <3> QED BY <1>2, <2>3
  <2>5. Append(front, last) = s
    <3>1. /\ Append(front, last) \in Seq(S)
          /\ Len(Append(front, last)) = n + 1
          /\ Append(front, last)[n + 1] = last
          /\ \A i \in 1..n : Append(front, last)[i] = front[i]
      <4> HIDE DEF front, last
      <4> QED BY <2>2, <2>3, AppendProperties
    <3>2. \A i \in 1..(n + 1) : Append(front, last)[i] = s[i]
      BY <3>1
    <3> HIDE DEF front, last
    <3> QED BY <3>1, <3>2, SeqEqual
  <2> HIDE DEF front, last
  <2> QED BY <2>2, <2>3, <2>4, <2>5
<1>3. Nat \subseteq H
  <2> HIDE DEF H
  <2> QED BY <1>1, <1>2, Induction
<1> QED BY <1>3, LenProperties

\* A concatenation grows at its end.
LEMMA ConcatAppend ==
  ASSUME NEW S, NEW s \in Seq(S), NEW t \in Seq(S), NEW e \in S
  PROVE  s \o Append(t, e) = Append(s \o t, e)
<1>1. /\ Append(t, e) \in Seq(S) /\ s \o t \in Seq(S)
      /\ Append(s \o t, e) \in Seq(S) /\ s \o Append(t, e) \in Seq(S)
  BY AppendProperties, ConcatProperties
<1> QED BY <1>1, AppendProperties, ConcatProperties, SeqEqual

-----------------------------------------------------------------------------
\* A sequence without its element at place i.
LEMMA RemoveIs ==
  ASSUME NEW S, NEW q \in Seq(S), NEW i \in 1..Len(q)
  PROVE  /\ RemoveAt(q, i) \in Seq(S)
         /\ Len(RemoveAt(q, i)) = Len(q) - 1
         /\ ToSet(RemoveAt(q, i)) \subseteq ToSet(q)
         /\ IsInjective(q) => /\ IsInjective(RemoveAt(q, i))
                              /\ q[i] \notin ToSet(RemoveAt(q, i))
<1> DEFINE n == Len(q)
           front == SubSeq(q, 1, i - 1)
           rest  == SubSeq(q, i + 1, n)
           R == RemoveAt(q, i)
<1>1. n \in Nat /\ DOMAIN q = 1..n /\ i \in 1..n /\ \A k \in 1..n : q[k] \in S
  BY LenProperties, ElementOfSeq
<1>2. /\ front \in Seq(S) /\ Len(front) = i - 1
      /\ \A k \in 1..i - 1 : front[k] = q[k]
  <2>1. \A k \in 1..i - 1 : q[k] \in S
    BY <1>1
  <2> HIDE DEF n
  <2> QED BY <1>1, <2>1, SubSeqProperties
<1>3. /\ rest \in Seq(S) /\ Len(rest) = n - i
      /\ \A k \in 1..n - i : rest[k] = q[k + i]
  <2>1. \A k \in i + 1..n : q[k] \in S
    BY <1>1
  <2>2. \A k \in 1..n - (i + 1) + 1 : rest[k] = q[i + 1 + k - 1]
    <3> HIDE DEF n
    <3> QED BY <1>1, <2>1, SubSeqProperties
  <2>3. rest \in Seq(S) /\ Len(rest) = n - i
    <3> HIDE DEF n
    <3> QED BY <1>1, <2>1, SubSeqProperties
  <2> HIDE DEF n, rest
  <2> QED BY <1>1, <2>2, <2>3
<1>4. R = front \o rest
  BY DEF RemoveAt
<1> HIDE DEF n, front, rest, R
<1>5. /\ R \in Seq(S) /\ Len(R) = n - 1
      /\ \A k \in 1..n - 1 : R[k] = IF k <= i - 1 THEN q[k] ELSE q[k + 1]
  <2>1. /\ R \in Seq(S) /\ Len(R) = Len(front) + Len(rest)
        /\ \A k \in 1..Len(front) + Len(rest) :
             R[k] = IF k <= Len(front) THEN front[k] ELSE rest[k - Len(front)]
    BY <1>2, <1>3, <1>4, ConcatProperties
  <2>2. Len(front) + Len(rest) = n - 1
    BY <1>1, <1>2, <1>3
  <2>3. ASSUME NEW k \in 1..n - 1
        PROVE  R[k] = IF k <= i - 1 THEN q[k] ELSE q[k + 1]
    <3>1. CASE k <= i - 1
      BY <1>1, <1>2, <2>1, <2>2, <3>1
    <3>2. CASE ~(k <= i - 1)
      <4>1. k - (i - 1) \in 1..n - i /\ k - (i - 1) + i = k + 1
        BY <1>1, <3>2
      <4>2. R[k] = rest[k - (i - 1)]
        BY <1>2, <2>1, <2>2, <3>2
      <4> QED BY <1>3, <3>2, <4>1, <4>2
    <3> QED BY <3>1, <3>2
  <2> QED BY <2>1, <2>2, <2>3
<1>6. DOMAIN R = 1..n - 1
  BY <1>5, LenProperties
<1>7. ToSet(R) \subseteq ToSet(q)
  <2>1. \A k \in 1..n - 1 : \E l \in 1..n : R[k] = q[l]
    BY <1>1, <1>5
  <2> QED BY <1>1, <1>6, <2>1 DEF ToSet
<1>8. ASSUME IsInjective(q) PROVE IsInjective(R) /\ q[i] \notin ToSet(R)
  <2>1. \A k, l \in 1..n : q[k] = q[l] => k = l
    BY <1>1, <1>8 DEF IsInjective
  <2>2. ASSUME NEW k \in 1..n - 1
        PROVE  \E l \in 1..n : R[k] = q[l] /\ l # i /\ l = IF k <= i - 1 THEN k ELSE k + 1
    BY <1>1, <1>5
  <2>3. \A k, l \in 1..n - 1 : R[k] = R[l] => k = l
    BY <1>1, <2>1, <2>2
  <2>4. \A k \in 1..n - 1 : R[k] # q[i]
    BY <1>1, <2>1, <2>2
  <2> QED BY <1>6, <2>3, <2>4 DEF IsInjective, ToSet
<1> QED BY <1>5, <1>7, <1>8 DEF R, n

\* A sequence with an element more, which becomes the one at place j.
LEMMA InsertIs ==
  ASSUME NEW S, NEW q \in Seq(S), NEW j \in 1..Len(q) + 1, NEW e \in S
  PROVE  /\ InsertAt(q, j, e) \in Seq(S)
         /\ ToSet(InsertAt(q, j, e)) = ToSet(q) \cup {e}
         /\ IsInjective(q) /\ e \notin ToSet(q) => IsInjective(InsertAt(q, j, e))
<1> DEFINE n == Len(q)
           front == SubSeq(q, 1, j - 1)
           rest  == SubSeq(q, j, n)
           R == InsertAt(q, j, e)
<1>1. n \in Nat /\ DOMAIN q = 1..n /\ j \in 1..n + 1 /\ \A k \in 1..n : q[k] \in S
  BY LenProperties, ElementOfSeq
<1>2. /\ front \in Seq(S) /\ Len(front) = j - 1
      /\ \A k \in 1..j - 1 : front[k] = q[k]
  <2>1. \A k \in 1..j - 1 : q[k] \in S
    BY <1>1
  <2> HIDE DEF n
  <2> QED BY <1>1, <2>1, SubSeqProperties
<1>3. /\ rest \in Seq(S) /\ Len(rest) = n - j + 1
      /\ \A k \in 1..n - j + 1 : rest[k] = q[k + j - 1]
  <2>1. \A k \in j..n : q[k] \in S
    BY <1>1
  <2>2. \A k \in 1..n - j + 1 : rest[k] = q[j + k - 1]
    <3> HIDE DEF n
    <3> QED BY <1>1, <2>1, SubSeqProperties
  <2>3. rest \in Seq(S) /\ Len(rest) = n - j + 1
    <3> HIDE DEF n
    <3> QED BY <1>1, <2>1, SubSeqProperties
  <2> HIDE DEF n, rest
  <2> QED BY <1>1, <2>2, <2>3
<1>4. R = front \o <<e>> \o rest
  BY DEF InsertAt
<1>5. <<e>> \in Seq(S) /\ Len(<<e>>) = 1 /\ <<e>>[1] = e
  OBVIOUS
<1> HIDE DEF n, front, rest, R
<1>6. /\ front \o <<e>> \in Seq(S) /\ Len(front \o <<e>>) = j
      /\ (front \o <<e>>)[j] = e
      /\ \A k \in 1..j - 1 : (front \o <<e>>)[k] = q[k]
  BY <1>1, <1>2, <1>5, ConcatProperties
<1>7. /\ R \in Seq(S) /\ Len(R) = n + 1
      /\ R[j] = e
      /\ \A k \in 1..j - 1 : R[k] = q[k]
      /\ \A k \in j + 1..n + 1 : R[k] = q[k - 1]
  <2> DEFINE head == front \o <<e>>
  <2>1. head \in Seq(S) /\ Len(head) = j
    BY <1>6
  <2>2. R = head \o rest
    BY <1>4
  <2>3. /\ head[j] = e
        /\ \A k \in 1..j - 1 : head[k] = q[k]
    BY <1>6
  <2> HIDE DEF head
  <2>4. /\ R \in Seq(S) /\ Len(R) = j + Len(rest)
        /\ \A k \in 1..j + Len(rest) :
             R[k] = IF k <= j THEN head[k] ELSE rest[k - j]
    BY <1>3, <2>1, <2>2, ConcatProperties
  <2>5. j + Len(rest) = n + 1
    BY <1>1, <1>3
  <2>6. R[j] = e /\ \A k \in 1..j - 1 : R[k] = q[k]
    BY <1>1, <2>3, <2>4, <2>5
  <2>7. ASSUME NEW k \in j + 1..n + 1 PROVE R[k] = q[k - 1]
    <3>1. k - j \in 1..n - j + 1 /\ k - j + j - 1 = k - 1 /\ ~(k <= j)
          /\ k \in 1..n + 1
      BY <1>1
    <3>2. R[k] = rest[k - j]
      BY <2>4, <2>5, <3>1
    <3> QED BY <1>3, <3>1, <3>2
  <2> QED BY <2>4, <2>5, <2>6, <2>7
<1>8. DOMAIN R = 1..n + 1
  BY <1>7, LenProperties
<1>9. ToSet(R) = ToSet(q) \cup {e}
  <2>1. \A k \in 1..n + 1 : R[k] = e \/ \E l \in 1..n : R[k] = q[l]
    BY <1>1, <1>7
  <2>2. ASSUME NEW l \in 1..n PROVE \E k \in 1..n + 1 : R[k] = q[l]
    <3>1. CASE l <= j - 1
      BY <1>1, <1>7, <3>1
    <3>2. CASE ~(l <= j - 1)
      <4>1. l + 1 \in j + 1..n + 1 /\ l + 1 - 1 = l /\ l + 1 \in 1..n + 1
        BY <1>1, <3>2
      <4> QED BY <1>7, <4>1
    <3> QED BY <3>1, <3>2
  <2>3. j \in 1..n + 1
    BY <1>1
  <2>4. ToSet(R) = {R[k] : k \in 1..n + 1} /\ ToSet(q) = {q[l] : l \in 1..n}
    BY <1>1, <1>8 DEF ToSet
  <2> QED BY <1>7, <2>1, <2>2, <2>3, <2>4
<1>10. ASSUME IsInjective(q), e \notin ToSet(q) PROVE IsInjective(R)
  <2>1. /\ \A k, l \in 1..n : q[k] = q[l] => k = l
        /\ \A k \in 1..n : q[k] # e
    BY <1>1, <1>10 DEF IsInjective, ToSet
  <2>2. ASSUME NEW k \in 1..n + 1, k # j
        PROVE  \E l \in 1..n : R[k] = q[l] /\ l = IF k <= j - 1 THEN k ELSE k - 1
    BY <1>1, <1>7, <2>2
  <2>3. \A k, l \in 1..n + 1 : R[k] = R[l] => k = l
    BY <1>1, <1>7, <2>1, <2>2
  <2> QED BY <1>8, <2>3 DEF IsInjective
<1> QED BY <1>7, <1>9, <1>10 DEF R

=============================================================================
