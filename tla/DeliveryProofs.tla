--------------------------- MODULE DeliveryProofs ---------------------------
(***************************************************************************)
(* The notification hub shows a notification at most once and implements   *)
(* the contract of module Delivery.                                        *)
(***************************************************************************)
EXTENDS NotificationsProofs

-----------------------------------------------------------------------------
(***************************************************************************)
(* Lemmas about NoRepeats.                                                 *)
(***************************************************************************)

\* Appending something that occurs nowhere repeats nothing.
LEMMA NoRepeatsAppend ==
  ASSUME NEW F \in [Conns -> Seq(Notes)], NoRepeats(F),
         NEW c \in Conns, NEW x \in Notes,
         \A d \in Conns : x \notin ToSet(F[d])
  PROVE  NoRepeats([F EXCEPT ![c] = Append(@, x)])
<1> DEFINE G == [F EXCEPT ![c] = Append(@, x)]
<1>1. /\ Len(G[c]) = Len(F[c]) + 1
      /\ G[c][Len(F[c]) + 1] = x
      /\ \A i \in 1..Len(F[c]) : G[c][i] = F[c][i]
      /\ Len(F[c]) \in Nat
  OBVIOUS
<1>2. \A d \in Conns \ {c} : G[d] = F[d]
  OBVIOUS
<1>3. \A d \in Conns : \A i \in 1..Len(G[d]) :
        \/ i \in 1..Len(F[d]) /\ G[d][i] = F[d][i]
        \/ d = c /\ i = Len(F[c]) + 1 /\ G[d][i] = x
  <2> TAKE d \in Conns
  <2> TAKE i \in 1..Len(G[d])
  <2> QED
    BY <1>1, <1>2
<1>4. \A d \in Conns : \A i \in 1..Len(F[d]) : F[d][i] # x
  BY DEF ToSet
<1> HIDE DEF G
<1>5. NoRepeats(G)
  <2> SUFFICES ASSUME NEW d \in Conns, NEW e \in Conns,
                      NEW i \in 1..Len(G[d]), NEW j \in 1..Len(G[e]),
                      G[d][i] = G[e][j]
               PROVE  d = e /\ i = j
    BY DEF NoRepeats
  <2>1. CASE i \in 1..Len(F[d]) /\ G[d][i] = F[d][i]
    <3>1. j \in 1..Len(F[e]) /\ G[e][j] = F[e][j]
      BY <1>3, <1>4, <2>1
    <3>2. F[d][i] = F[e][j]
      BY <2>1, <3>1
    <3>3. \A k \in 1..Len(F[d]), l \in 1..Len(F[e]) :
            F[d][k] = F[e][l] => d = e /\ k = l
      BY DEF NoRepeats
    <3> QED
      BY <2>1, <3>1, <3>2, <3>3
  <2>2. CASE d = c /\ i = Len(F[c]) + 1 /\ G[d][i] = x
    <3>1. ~(j \in 1..Len(F[e]) /\ G[e][j] = F[e][j])
      BY <1>4, <2>2
    <3> QED
      BY <1>3, <2>2, <3>1
  <2> QED
    BY <1>3, <2>1, <2>2
<1> QED
  BY <1>5 DEF G

\* Taking a head repeats nothing, and the head is then nowhere.
LEMMA NoRepeatsTail ==
  ASSUME NEW F \in [Conns -> Seq(Notes)], NoRepeats(F),
         NEW c \in Conns, F[c] # <<>>,
         NEW G, G = [F EXCEPT ![c] = Tail(@)]
  PROVE  /\ NoRepeats(G)
         /\ \A d \in Conns : Head(F[c]) \notin ToSet(G[d])
<1>1. /\ Len(F[c]) \in Nat \ {0}
      /\ Len(Tail(F[c])) = Len(F[c]) - 1
      /\ Head(F[c]) = F[c][1]
  OBVIOUS
<1>2. \A i \in 1..Len(Tail(F[c])) : Tail(F[c])[i] = F[c][i + 1]
  BY <1>1
<1>3. G[c] = Tail(F[c]) /\ \A d \in Conns \ {c} : G[d] = F[d]
  OBVIOUS
<1>4. \A d \in Conns : \A i \in 1..Len(G[d]) :
        /\ i \in Nat
        /\ d = c => i + 1 \in 1..Len(F[d]) /\ G[d][i] = F[d][i + 1]
        /\ d # c => i \in 1..Len(F[d]) /\ G[d][i] = F[d][i]
  <2> TAKE d \in Conns
  <2> TAKE i \in 1..Len(G[d])
  <2> QED
    BY <1>1, <1>2, <1>3
<1>5. NoRepeats(G)
  <2> SUFFICES ASSUME NEW d \in Conns, NEW e \in Conns,
                      NEW i \in 1..Len(G[d]), NEW j \in 1..Len(G[e]),
                      G[d][i] = G[e][j]
               PROVE  d = e /\ i = j
    BY DEF NoRepeats
  <2>1. CASE d = c /\ e = c
    <3>1. F[c][i + 1] = F[c][j + 1] /\ i + 1 \in 1..Len(F[c]) /\ j + 1 \in 1..Len(F[c])
      BY <1>4, <2>1
    <3>2. i + 1 = j + 1
      BY <3>1 DEF NoRepeats
    <3> QED
      BY <1>4, <2>1, <3>2
  <2>2. CASE d # c /\ e = c
    BY <1>4, <2>2 DEF NoRepeats
  <2>3. CASE d = c /\ e # c
    BY <1>4, <2>3 DEF NoRepeats
  <2>4. CASE d # c /\ e # c
    BY <1>4, <2>4 DEF NoRepeats
  <2> QED
    BY <2>1, <2>2, <2>3, <2>4
<1>6. ASSUME NEW d \in Conns, NEW i \in 1..Len(G[d]), G[d][i] = F[c][1]
      PROVE  FALSE
  <2>1. CASE d = c
    <3>1. i + 1 = 1
      BY <1>1, <1>4, <1>6, <2>1 DEF NoRepeats
    <3> QED
      BY <3>1
  <2>2. CASE d # c
    BY <1>1, <1>4, <1>6, <2>2 DEF NoRepeats
  <2> QED
    BY <2>1, <2>2
<1> QED
  BY <1>1, <1>5, <1>6 DEF ToSet

-----------------------------------------------------------------------------
(***************************************************************************)
(* At most once.                                                           *)
(***************************************************************************)
OnceInv == DeliveryInv /\ AtMostOnce

LEMMA OnceStep ==
  ASSUME OnceInv, [Next]_vars
  PROVE  OnceInv'
<1> USE DEF OnceInv
<1>0. TypeOK /\ DeliveryInv'
  BY RecipientStep DEF DeliveryInv, RegistryInv
<1>1. ASSUME UNCHANGED <<NotifyCh, stream>> PROVE OnceInv'
  BY <1>0, <1>1 DEF AtMostOnce, NoRepeats
<1>2. ASSUME NEW c \in Conns, Receive(c) PROVE OnceInv'
  <2> DEFINE h == Head(NotifyCh[c])
  <2>1. /\ NotifyCh[c] # <<>>
        /\ NotifyCh' = [NotifyCh EXCEPT ![c] = Tail(@)]
        /\ stream' = stream \/ stream' = [stream EXCEPT ![c] = Append(@, h)]
    BY <1>0, <1>2 DEF Receive, TypeOK
  <2>2. h \in ToSet(NotifyCh[c]) /\ h \in Notes
    BY <1>0, <2>1, ToSetTail DEF TypeOK
  <2>3. \A d \in Conns : h \notin ToSet(stream[d])
    BY <2>2 DEF AtMostOnce
  <2>4. NoRepeats(NotifyCh') /\ \A d \in Conns : h \notin ToSet(NotifyCh'[d])
    BY <1>0, <2>1, NoRepeatsTail DEF AtMostOnce, TypeOK
  <2>5. NoRepeats(stream')
    <3>1. NoRepeats([stream EXCEPT ![c] = Append(@, h)])
      BY <1>0, <2>2, <2>3, NoRepeatsAppend DEF AtMostOnce, TypeOK
    <3>2. NoRepeats(stream)
      BY DEF AtMostOnce
    <3> QED
      BY <2>1, <3>1, <3>2
  <2>6. ASSUME NEW d \in Conns
        PROVE  /\ ToSet(stream'[d]) \subseteq ToSet(stream[d]) \cup {h}
               /\ ToSet(NotifyCh'[d]) \subseteq ToSet(NotifyCh[d])
    <3>1. ToSet(Append(stream[c], h)) = ToSet(stream[c]) \cup {h}
      BY <1>0, <2>2, ToSetAppend DEF TypeOK
    <3>2. ToSet(Tail(NotifyCh[c])) \subseteq ToSet(NotifyCh[c])
      BY <1>0, <2>1, ToSetTail DEF TypeOK
    <3> HIDE DEF h
    <3> QED
      BY <1>0, <2>1, <3>1, <3>2 DEF TypeOK
  <2>7. \A d, e \in Conns : ToSet(stream'[d]) \cap ToSet(NotifyCh'[e]) = {}
    <3> SUFFICES ASSUME NEW d \in Conns, NEW e \in Conns,
                        NEW x \in ToSet(stream'[d]) \cap ToSet(NotifyCh'[e])
                 PROVE  FALSE
      OBVIOUS
    <3> QED
      BY <2>4, <2>6 DEF AtMostOnce
  <2> QED
    BY <1>0, <2>4, <2>5, <2>7 DEF AtMostOnce, NoRepeats
<1>3. ASSUME NEW n \in Notes, Send(n) PROVE OnceInv'
  <2>1. CASE NotifyCh' = NotifyCh
    BY <1>1, <1>3, <2>1 DEF Send, sseVars
  <2>2. CASE NotifyCh' = [NotifyCh EXCEPT ![held[n]] = Append(@, n)]
    <3>1. held[n] \in Conns /\ stream' = stream
      BY <1>3 DEF Send, DeliveryInv, HeldSound, sseVars
    <3>2. \A d \in Conns : n \notin ToSet(NotifyCh[d]) \cup ToSet(stream[d])
      BY <1>3 DEF Send, DeliveryInv, PlacedIsSent
    <3>3. NoRepeats(NotifyCh')
      BY <1>0, <2>2, <3>1, <3>2, NoRepeatsAppend DEF AtMostOnce, TypeOK
    <3>4. ASSUME NEW d \in Conns
          PROVE  ToSet(NotifyCh'[d]) \subseteq ToSet(NotifyCh[d]) \cup {n}
      <4>1. ToSet(Append(NotifyCh[held[n]], n)) = ToSet(NotifyCh[held[n]]) \cup {n}
        BY <1>0, <3>1, ToSetAppend DEF TypeOK
      <4> QED
        BY <1>0, <2>2, <3>1, <4>1 DEF TypeOK
    <3>5. \A d, e \in Conns : ToSet(stream'[d]) \cap ToSet(NotifyCh'[e]) = {}
      BY <3>1, <3>2, <3>4 DEF AtMostOnce
    <3> QED
      BY <1>0, <3>1, <3>3, <3>5 DEF AtMostOnce, NoRepeats
  <2> QED
    BY <1>3, <2>1, <2>2 DEF Send
<1>4. ASSUME NEW c \in Conns, ServeStep(c), ~Receive(c) PROVE OnceInv'
  <2>1. UNCHANGED <<NotifyCh, stream>>
    BY <1>4
       DEF ServeStep, Reject, Register, OpenStream, LeaveOnDisconnect,
           LeaveOnDone, Leave, Deregister, CloseChannel, Disconnect
  <2> QED
    BY <1>1, <2>1
<1>5. ASSUME NEW n \in Notes, NEW u \in Users \cup {NoUser}, Lookup(n, u)
      PROVE  OnceInv'
  BY <1>1, <1>5 DEF Lookup, sseVars
<1>6. CASE UNCHANGED vars
  BY <1>1, <1>6 DEF vars, sseVars
<1> QED
  BY <1>2, <1>3, <1>4, <1>5, <1>6 DEF Next, NotifyStep

LEMMA OnceInduction == Spec => []OnceInv
<1>1. Init => AtMostOnce
  BY ToSetEmpty DEF Init, AtMostOnce, NoRepeats
<1>2. Init => DeliveryInv
  BY ToSetEmpty
     DEF Init, DeliveryInv, RegistryInv, TypeOK, Stages, Outcomes,
         FreshUnknown, RegistrySound, EndsForAReason, HeldSound, PlacedIsSent,
         RightRecipient
<1> QED
  BY <1>1, <1>2, OnceStep, PTL DEF Spec, OnceInv

\* No notification is queued or shown twice, on one stream or on several.
THEOREM OnceCorrect == Spec => []AtMostOnce
<1>1. OnceInv => AtMostOnce
  BY DEF OnceInv
<1> QED
  BY <1>1, OnceInduction, PTL

-----------------------------------------------------------------------------
(***************************************************************************)
(* The hub implements the contract of Delivery.                            *)
(***************************************************************************)
FateMap  == [n \in Notes |-> Fate(n)]
InboxMap == [u \in Users |-> Inbox(u)]

LEMMA FateInit == Init => Contract!Init
<1> SUFFICES ASSUME Init PROVE Contract!Init
  OBVIOUS
<1>1. \A n \in Notes : Fate(n) = "unposted"
  BY DEF Init, Fate
<1>2. \A u \in Users : Inbox(u) = {}
  BY ToSetEmpty DEF Init, Inbox
<1> QED
  BY <1>1, <1>2 DEF Init, Contract!Init

\* Where a note stands decides its fate.
LEMMA FateCases ==
  ASSUME OnceInv, NEW n \in Notes
  PROVE  /\ note[n] = "idle" => Fate(n) = "unposted"
         /\ note[n] = "sending" => Fate(n) = "pending"
         /\ note[n] = "sent" /\ Shown(n) => Fate(n) = "shown"
         /\ note[n] = "sent" /\ ~Shown(n) /\ Queued(n) => Fate(n) = "pending"
         /\ note[n] = "sent" /\ ~Shown(n) /\ ~Queued(n) => Fate(n) = "lost"
         /\ note[n] \in {"noclient", "dropped", "panicked"} => Fate(n) = "lost"
         /\ Shown(n) => note[n] = "sent"
         /\ Queued(n) => note[n] = "sent" /\ ~Shown(n)
<1>1. Shown(n) => note[n] = "sent"
  BY DEF OnceInv, DeliveryInv, PlacedIsSent, Shown
<1>2. Queued(n) => note[n] = "sent" /\ ~Shown(n)
  BY DEF OnceInv, DeliveryInv, PlacedIsSent, Shown, Queued, AtMostOnce
<1> QED
  BY <1>1, <1>2 DEF Fate

\* What is shown or queued is read off the notes' places alone.
LEMMA InboxFrame ==
  ASSUME OnceInv, UNCHANGED stream,
         \A c \in Conns : userID[c] # NoUser => userID'[c] = userID[c]
  PROVE  InboxMap' = InboxMap
<1>1. ASSUME NEW u \in Users PROVE Inbox(u)' = Inbox(u)
  <2>1. \A c \in Conns, n \in Notes : n \in ToSet(stream[c]) => userID[c] # NoUser
    BY UserAssumption DEF OnceInv, DeliveryInv, PlacedIsSent
  <2> QED
    BY <2>1 DEF Inbox
<1> QED
  BY <1>1 DEF InboxMap

\* Steps after which some pending notes have no stream left are losses.
LEMMA LossStep ==
  ASSUME OnceInv, OnceInv', UNCHANGED <<note, stream, addressee>>,
         \A c \in Conns : userID[c] # NoUser => userID'[c] = userID[c],
         \A n \in Notes : Queued(n)' => Queued(n)
  PROVE  [Contract!Next]_(Contract!vars)
<1> DEFINE S == {n \in Notes : FateMap[n] # FateMap'[n]}
<1>1. \A n \in Notes : Shown(n)' <=> Shown(n)
  BY DEF Shown
<1>2. ASSUME NEW n \in Notes, Fate(n)' # Fate(n)
      PROVE  Fate(n) = "pending" /\ Fate(n)' = "lost"
  BY <1>1, <1>2 DEF Fate
<1>3. \A n \in S : FateMap[n] = "pending"
  BY <1>2 DEF FateMap
<1>4. FateMap' = [n \in Notes |-> IF n \in S THEN "lost" ELSE FateMap[n]]
  BY <1>2 DEF FateMap
<1>5. InboxMap' = InboxMap
  BY InboxFrame
<1>6. Contract!Lose(S)
  BY <1>3, <1>4, <1>5 DEF Contract!Lose, FateMap, InboxMap
<1> QED
  BY <1>6 DEF Contract!Next

LEMMA LookupStep ==
  ASSUME OnceInv, OnceInv', NEW n \in Notes, NEW u \in Users \cup {NoUser},
         Lookup(n, u)
  PROVE  Contract!Next
<1>0. TypeOK /\ note[n] = "idle"
  BY DEF OnceInv, DeliveryInv, RegistryInv, Lookup
<1>1. UNCHANGED <<NotifyCh, stream, userID, pc>>
  BY DEF Lookup, sseVars
<1>2. \A m \in Notes \ {n} : note'[m] = note[m]
  BY <1>0 DEF Lookup, TypeOK
<1>3. \A m \in Notes : (Shown(m)' <=> Shown(m)) /\ (Queued(m)' <=> Queued(m))
  BY <1>1 DEF Shown, Queued, Closed
<1>4. \A m \in Notes \ {n} : Fate(m)' = Fate(m)
  BY <1>2, <1>3 DEF Fate
<1>5. Fate(n) = "unposted" /\ note'[n] \in {"sending", "noclient"}
  BY <1>0, FateCases DEF Lookup, TypeOK
<1>6. Fate(n)' = IF note'[n] = "sending" THEN "pending" ELSE "lost"
  <2>1. ~Shown(n) /\ ~Queued(n)
    BY <1>0, FateCases
  <2> QED
    BY <1>3, <1>5, <2>1 DEF Fate
<1>7. u = NoUser => Fate(n)' = "lost"
  BY <1>0, <1>6 DEF Lookup, TypeOK
<1>8. FateMap' = [FateMap EXCEPT ![n] = Fate(n)']
  BY <1>4 DEF FateMap
<1>9. InboxMap' = InboxMap
  BY <1>1, InboxFrame
<1>10. addressee' = [addressee EXCEPT ![n] = u]
  BY DEF Lookup
<1>11. Contract!Post(n, u, Fate(n)')
  BY <1>5, <1>6, <1>7, <1>8, <1>9, <1>10 DEF Contract!Post, FateMap, InboxMap
<1> QED
  BY <1>6, <1>11 DEF Contract!Next

LEMMA SendStep ==
  ASSUME OnceInv, OnceInv', NEW n \in Notes, Send(n)
  PROVE  [Contract!Next]_(Contract!vars)
<1>0. /\ TypeOK /\ note[n] = "sending" /\ held[n] \in Conns
      /\ UNCHANGED <<stream, userID, pc, addressee>>
  BY DEF OnceInv, DeliveryInv, RegistryInv, HeldSound, Send, sseVars
<1>1. \A m \in Notes \ {n} : note'[m] = note[m]
  BY <1>0 DEF Send, TypeOK
<1>2. \A m \in Notes : Shown(m)' <=> Shown(m)
  BY <1>0 DEF Shown
<1>3. Fate(n) = "pending" /\ ~Shown(n) /\ ~Queued(n)
  BY <1>0, FateCases
<1>4. InboxMap' = InboxMap
  BY <1>0, InboxFrame
<1>5. CASE note'[n] = "sent"
  <2>1. NotifyCh' = [NotifyCh EXCEPT ![held[n]] = Append(@, n)] /\ ~Closed(held[n])
    BY <1>0, <1>5 DEF Send, SendOutcome, TypeOK
  <2>2. ToSet(Append(NotifyCh[held[n]], n)) = ToSet(NotifyCh[held[n]]) \cup {n}
    BY <1>0, ToSetAppend DEF TypeOK
  <2>3. \A c \in Conns :
          ToSet(NotifyCh'[c]) = ToSet(NotifyCh[c]) \cup
                                     (IF c = held[n] THEN {n} ELSE {})
    BY <1>0, <2>1, <2>2 DEF TypeOK
  <2>4. Queued(n)' /\ \A m \in Notes \ {n} : Queued(m)' <=> Queued(m)
    BY <1>0, <2>1, <2>3 DEF Queued, Closed
  <2>5. Fate(n)' = "pending"
    BY <1>2, <1>3, <1>5, <2>4 DEF Fate
  <2>6. \A m \in Notes \ {n} : Fate(m)' = Fate(m)
    BY <1>1, <1>2, <2>4 DEF Fate
  <2>7. FateMap' = FateMap
    BY <1>3, <2>5, <2>6 DEF FateMap
  <2> QED
    BY <1>0, <1>4, <2>7 DEF Contract!vars, FateMap, InboxMap
<1>6. CASE note'[n] # "sent"
  <2>1. NotifyCh' = NotifyCh /\ note'[n] \in {"dropped", "panicked"}
    BY <1>0, <1>6 DEF Send, SendOutcome, TypeOK
  <2>2. \A m \in Notes : Queued(m)' <=> Queued(m)
    BY <1>0, <2>1 DEF Queued, Closed
  <2>3. Fate(n)' = "lost"
    BY <1>2, <1>3, <2>1, <2>2 DEF Fate
  <2>4. \A m \in Notes \ {n} : Fate(m)' = Fate(m)
    BY <1>1, <1>2, <2>2 DEF Fate
  <2>5. FateMap' = [m \in Notes |-> IF m \in {n} THEN "lost" ELSE FateMap[m]]
    BY <2>3, <2>4 DEF FateMap
  <2>6. Contract!Lose({n})
    BY <1>0, <1>3, <1>4, <2>5 DEF Contract!Lose, FateMap, InboxMap
  <2> QED
    BY <2>6 DEF Contract!Next
<1> QED
  BY <1>5, <1>6

LEMMA ReceiveStep ==
  ASSUME OnceInv, OnceInv', NEW c \in Conns, Receive(c)
  PROVE  [Contract!Next]_(Contract!vars)
<1>0. /\ TypeOK /\ NotifyCh[c] # <<>> /\ pc[c] = "streaming"
      /\ NotifyCh' = [NotifyCh EXCEPT ![c] = Tail(@)]
      /\ UNCHANGED <<note, addressee, userID, pc>>
      /\ AtMostOnce
  BY DEF OnceInv, DeliveryInv, RegistryInv, Receive, notifyVars
<1>1. PICK h \in Notes : h = Head(NotifyCh[c]) /\ h \in ToSet(NotifyCh[c])
  BY <1>0, ToSetTail DEF TypeOK
<1>2. \A d \in Conns : ToSet(NotifyCh'[d]) \subseteq ToSet(NotifyCh[d])
  BY <1>0, ToSetTail DEF TypeOK
<1>3. Queued(h) /\ ~Shown(h) /\ note[h] = "sent" /\ Fate(h) = "pending"
  <2>1. Queued(h)
    BY <1>0, <1>1 DEF Queued, Closed
  <2> QED
    BY <1>1, <2>1, FateCases
<1>4. CASE stream' = stream
  <2>1. \A m \in Notes : Queued(m)' => Queued(m)
    BY <1>0, <1>2 DEF Queued, Closed
  <2> QED
    BY <1>0, <1>4, <2>1, LossStep
<1>5. CASE stream' = [stream EXCEPT ![c] = Append(@, h)]
  <2>1. ToSet(Append(stream[c], h)) = ToSet(stream[c]) \cup {h}
    BY <1>0, <1>1, ToSetAppend DEF TypeOK
  <2>2. \A d \in Conns :
          ToSet(stream'[d]) = ToSet(stream[d]) \cup (IF d = c THEN {h} ELSE {})
    BY <1>0, <1>5, <2>1 DEF TypeOK
  <2>3. Shown(h)' /\ \A m \in Notes \ {h} : Shown(m)' <=> Shown(m)
    BY <2>2 DEF Shown
  <2>4. ASSUME NEW m \in Notes \ {h} PROVE Queued(m)' <=> Queued(m)
    <3>1. \A d \in Conns \ {c} : NotifyCh'[d] = NotifyCh[d]
      BY <1>0 DEF TypeOK
    <3>2. m \in ToSet(NotifyCh[c]) => m \in ToSet(NotifyCh'[c])
      <4> SUFFICES ASSUME NEW i \in 1..Len(NotifyCh[c]), NotifyCh[c][i] = m
                   PROVE  m \in ToSet(NotifyCh'[c])
        BY DEF ToSet
      <4>1. NotifyCh'[c] = Tail(NotifyCh[c]) /\ NotifyCh[c] \in Seq(Notes)
        BY <1>0 DEF TypeOK
      <4>2. i # 1
        BY <1>0, <1>1, <4>1
      <4>3. i - 1 \in 1..Len(Tail(NotifyCh[c])) /\ Tail(NotifyCh[c])[i - 1] = NotifyCh[c][i]
        BY <1>0, <4>1, <4>2
      <4>4. DOMAIN Tail(NotifyCh[c]) = 1..Len(Tail(NotifyCh[c]))
        BY <1>0, <4>1
      <4> QED
        BY <4>1, <4>3, <4>4 DEF ToSet
    <3> QED
      BY <1>0, <1>2, <3>1, <3>2 DEF Queued, Closed
  <2>5. Fate(h)' = "shown"
    BY <1>0, <1>3, <2>3 DEF Fate
  <2>6. \A m \in Notes \ {h} : Fate(m)' = Fate(m)
    BY <1>0, <2>3, <2>4 DEF Fate
  <2>7. FateMap' = [FateMap EXCEPT ![h] = "shown"]
    BY <1>1, <2>5, <2>6 DEF FateMap
  <2>8. addressee[h] = userID[c] /\ userID[c] \in Users
    BY <1>1 DEF OnceInv, DeliveryInv, RightRecipient, PlacedIsSent
  <2>9. ASSUME NEW u \in Users
        PROVE  Inbox(u)' = Inbox(u) \cup (IF u = userID[c] THEN {h} ELSE {})
    BY <1>0, <1>1, <2>2 DEF Inbox
  <2>10. InboxMap' = [InboxMap EXCEPT ![addressee[h]] = @ \cup {h}]
    BY <2>8, <2>9 DEF InboxMap
  <2>11. Contract!Deliver(h)
    BY <1>0, <1>1, <1>3, <2>7, <2>10 DEF Contract!Deliver, FateMap, InboxMap
  <2> QED
    BY <1>1, <2>11 DEF Contract!Next
<1> QED
  BY <1>0, <1>1, <1>4, <1>5 DEF Receive, TypeOK

LEMMA ContractStep ==
  ASSUME OnceInv, OnceInv', [Next]_vars
  PROVE  [Contract!Next]_(Contract!vars)
<1>0. TypeOK
  BY DEF OnceInv, DeliveryInv, RegistryInv
<1>1. ASSUME NEW c \in Conns, ServeStep(c), ~Receive(c)
      PROVE  [Contract!Next]_(Contract!vars)
  <2>1. UNCHANGED <<NotifyCh, stream, note, addressee>>
    BY <1>1
       DEF ServeStep, Reject, Register, OpenStream, LeaveOnDisconnect,
           LeaveOnDone, Leave, Deregister, CloseChannel, Disconnect, notifyVars
  <2>2. \A d \in Conns : userID[d] # NoUser => userID'[d] = userID[d]
    <3>1. ASSUME NEW u \in Users, Register(c, u)
          PROVE  \A d \in Conns : userID[d] # NoUser => userID'[d] = userID[d]
      BY <1>0, <3>1
         DEF Register, TypeOK, OnceInv, DeliveryInv, RegistryInv, FreshUnknown
    <3> QED
      BY <1>1, <3>1
         DEF ServeStep, Reject, OpenStream, LeaveOnDisconnect, LeaveOnDone,
             Leave, Deregister, CloseChannel, Disconnect
  <2>3. \A d \in Conns : Closed(d) => Closed(d)'
    BY <1>0, <1>1
       DEF ServeStep, Reject, Register, OpenStream, LeaveOnDisconnect,
           LeaveOnDone, Leave, Deregister, CloseChannel, Disconnect, Closed,
           TypeOK
  <2>4. \A n \in Notes : Queued(n)' => Queued(n)
    BY <2>1, <2>3 DEF Queued
  <2> QED
    BY <2>1, <2>2, <2>4, LossStep
<1>2. CASE UNCHANGED vars
  <2>1. \A n \in Notes : Queued(n)' => Queued(n)
    BY <1>2 DEF vars, sseVars, Queued, Closed
  <2> QED
    BY <1>2, <2>1, LossStep DEF vars, sseVars, notifyVars
<1> QED
  BY <1>1, <1>2, ReceiveStep, LookupStep, SendStep DEF Next, NotifyStep

\* The hub never shows a notification its contract does not allow it to show.
THEOREM DeliveryCorrect == Spec => ImplementsDelivery
<1> QED
  BY FateInit, ContractStep, OnceInduction, PTL
     DEF Spec, ImplementsDelivery, Contract!Spec

=============================================================================
