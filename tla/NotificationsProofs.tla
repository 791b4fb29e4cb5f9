------------------------ MODULE NotificationsProofs ------------------------
(***************************************************************************)
(* Proofs about the notification hub, for every number of users,           *)
(* connections, notifications and every channel capacity.                  *)
(***************************************************************************)
EXTENDS Notifications, TLAPS

-----------------------------------------------------------------------------
(***************************************************************************)
(* The inductive invariant.                                                *)
(***************************************************************************)

\* Before its critical section an invocation is known to nobody.
FreshUnknown ==
  \A c \in Conns :
    IF pc[c] \in {"idle", "rejected"}
    THEN userID[c] = NoUser /\ ~Done[c]
    ELSE userID[c] \in Users

\* A Notify call between its two halves holds a connection of its addressee.
HeldSound ==
  \A n \in Notes : note[n] = "sending" =>
    /\ held[n] \in Conns
    /\ userID[held[n]] = addressee[n]
    /\ addressee[n] \in Users

\* What is in a channel or a stream was sent to a registered connection.
PlacedIsSent ==
  \A n \in Notes, c \in Conns :
    n \in ToSet(NotifyCh[c]) \cup ToSet(stream[c]) =>
      note[n] = "sent" /\ userID[c] \in Users

RegistryInv == TypeOK /\ FreshUnknown /\ RegistrySound /\ EndsForAReason

DeliveryInv == RegistryInv /\ HeldSound /\ PlacedIsSent /\ RightRecipient

-----------------------------------------------------------------------------
(***************************************************************************)
(* Lemmas about ToSet.                                                     *)
(***************************************************************************)

\* What a channel or a stream holds after one more notification is appended.
LEMMA ToSetAppend ==
  ASSUME NEW S, NEW s \in Seq(S), NEW e \in S
  PROVE  ToSet(Append(s, e)) = ToSet(s) \cup {e}
<1>1. Len(Append(s, e)) = Len(s) + 1 /\ Len(s) \in Nat
  OBVIOUS
<1>2. \A i \in 1..Len(s) : Append(s, e)[i] = s[i]
  OBVIOUS
<1>3. Append(s, e)[Len(s) + 1] = e
  OBVIOUS
<1>4. 1..(Len(s) + 1) = (1..Len(s)) \cup {Len(s) + 1}
  BY <1>1
<1> QED
  BY <1>1, <1>2, <1>3, <1>4 DEF ToSet

\* Taking the head of a channel leaves nothing in it that was not there.
LEMMA ToSetTail ==
  ASSUME NEW S, NEW s \in Seq(S), s # <<>>
  PROVE  /\ ToSet(Tail(s)) \subseteq ToSet(s)
         /\ Head(s) \in ToSet(s)
         /\ Head(s) \in S
         /\ Tail(s) \in Seq(S)
<1>1. Len(s) \in Nat \ {0} /\ Len(Tail(s)) = Len(s) - 1
  OBVIOUS
<1>2. \A i \in 1..Len(Tail(s)) : Tail(s)[i] = s[i + 1] /\ i + 1 \in 1..Len(s)
  BY <1>1
<1>3. Head(s) = s[1] /\ 1 \in 1..Len(s)
  BY <1>1
<1> QED
  BY <1>1, <1>2, <1>3 DEF ToSet

LEMMA ToSetEmpty == ToSet(<<>>) = {}
BY DEF ToSet

-----------------------------------------------------------------------------
(***************************************************************************)
(* Type correctness.                                                       *)
(***************************************************************************)

LEMMA TypeStep ==
  ASSUME TypeOK, [Next]_vars
  PROVE  TypeOK'
<1> USE DEF TypeOK
<1>1. ASSUME NEW c \in Conns, Reject(c) PROVE TypeOK'
  BY <1>1 DEF Reject, Stages, notifyVars
<1>2. ASSUME NEW c \in Conns, NEW u \in Users, Register(c, u) PROVE TypeOK'
  BY <1>2 DEF Register, Stages, notifyVars
<1>3. ASSUME NEW c \in Conns, OpenStream(c) PROVE TypeOK'
  BY <1>3 DEF OpenStream, Stages, notifyVars
<1>4. ASSUME NEW c \in Conns, Receive(c) PROVE TypeOK'
  <2>1. Head(NotifyCh[c]) \in Notes /\ Tail(NotifyCh[c]) \in Seq(Notes)
    BY <1>4, ToSetTail DEF Receive
  <2>2. NotifyCh' \in [Conns -> Seq(Notes)] /\ stream' \in [Conns -> Seq(Notes)]
    BY <1>4, <2>1 DEF Receive
  <2> QED
    BY <1>4, <2>2 DEF Receive, notifyVars
<1>5. ASSUME NEW c \in Conns, LeaveOnDisconnect(c) \/ LeaveOnDone(c)
      PROVE  TypeOK'
  BY <1>5 DEF LeaveOnDisconnect, LeaveOnDone, Leave, Stages, notifyVars
<1>6. ASSUME NEW c \in Conns, Deregister(c) PROVE TypeOK'
  BY <1>6 DEF Deregister, Stages, notifyVars
<1>7. ASSUME NEW c \in Conns, CloseChannel(c) PROVE TypeOK'
  BY <1>7 DEF CloseChannel, Stages, notifyVars
<1>8. ASSUME NEW c \in Conns, Disconnect(c) PROVE TypeOK'
  BY <1>8 DEF Disconnect, notifyVars
<1>9. ASSUME NEW n \in Notes, NEW u \in Users \cup {NoUser}, Lookup(n, u)
      PROVE  TypeOK'
  BY <1>9 DEF Lookup, Outcomes, sseVars
<1>10. ASSUME NEW n \in Notes, Send(n) PROVE TypeOK'
  <2> DEFINE queued == [NotifyCh EXCEPT ![held[n]] = Append(@, n)]
  <2>1. NotifyCh' \in [Conns -> Seq(Notes)]
    <3>1. queued \in [Conns -> Seq(Notes)]
      <4>1. CASE held[n] \in Conns
        BY <4>1
      <4>2. CASE held[n] \notin Conns
        BY <4>2
      <4> QED
        BY <4>1, <4>2
    <3>2. NotifyCh' = queued \/ NotifyCh' = NotifyCh
      BY <1>10 DEF Send
    <3> QED
      BY <3>1, <3>2
  <2>2. note' \in [Notes -> Outcomes]
    BY <1>10 DEF Send, SendOutcome, Outcomes
  <2> QED
    BY <1>10, <2>1, <2>2 DEF Send, sseVars
<1>11. CASE UNCHANGED vars
  BY <1>11 DEF vars, sseVars, notifyVars
<1> QED
  BY <1>1, <1>2, <1>3, <1>4, <1>5, <1>6, <1>7, <1>8, <1>9, <1>10, <1>11
     DEF Next, ServeStep, NotifyStep

\* The hub's state keeps its types: in particular its map holds only users.
THEOREM TypeCorrect == Spec => []TypeOK
<1>1. Init => TypeOK
  BY DEF Init, TypeOK, Stages, Outcomes
<1> QED
  BY <1>1, TypeStep, PTL DEF Spec

-----------------------------------------------------------------------------
(***************************************************************************)
(* The registry.                                                           *)
(***************************************************************************)

LEMMA RegistryStep ==
  ASSUME RegistryInv, [Next]_vars
  PROVE  RegistryInv'
<1> USE DEF RegistryInv
<1>0. TypeOK'
  BY TypeStep
<1>1. ASSUME NEW c \in Conns, Reject(c) PROVE RegistryInv'
  <2>1. RegistrySound' /\ EndsForAReason'
    BY <1>1 DEF Reject, TypeOK, RegistrySound, EndsForAReason, Stages
  <2>2. FreshUnknown'
    BY <1>1 DEF Reject, TypeOK, FreshUnknown
  <2> QED
    BY <1>0, <2>1, <2>2
<1>2. ASSUME NEW c \in Conns, NEW u \in Users, Register(c, u)
      PROVE  RegistryInv'
  <2> USE <1>2 DEF Register, TypeOK
  <2>1. c # clients[u] /\ userID[c] = NoUser /\ ~Done[c]
    BY ConnAssumption DEF RegistrySound, FreshUnknown
  <2>2. FreshUnknown'
    <3>1. ASSUME NEW d \in Conns, d = clients[u]
          PROVE  pc[d] \notin {"idle", "rejected"}
      BY <3>1, ConnAssumption DEF RegistrySound
    <3> QED
      BY <2>1, <3>1 DEF FreshUnknown
  <2>3. RegistrySound'
    <3> SUFFICES ASSUME NEW v \in Users, clients'[v] # NoConn
                 PROVE  /\ userID'[clients'[v]] = v
                        /\ ~Done'[clients'[v]]
                        /\ pc'[clients'[v]] \in {"registered", "streaming", "leaving"}
      BY DEF RegistrySound
    <3>1. CASE v = u
      BY <2>1, <3>1
    <3>2. CASE v # u
      <4>1. clients'[v] = clients[v] /\ clients[v] \in Conns
        BY <3>2
      <4>2. clients[v] # c /\ clients[v] # clients[u]
        BY <3>2, <4>1 DEF RegistrySound
      <4> QED
        BY <4>1, <4>2 DEF RegistrySound
    <3> QED
      BY <3>1, <3>2
  <2>4. EndsForAReason'
    <3>1. ASSUME NEW d \in Conns, Done'[d]
          PROVE  \E e \in Conns \ {d} : userID'[e] = userID'[d]
      <4>1. CASE d = clients[u]
        BY <2>1, <4>1, ConnAssumption DEF RegistrySound
      <4>2. CASE d # clients[u]
        <5>1. Done[d] /\ d # c /\ userID[d] \in Users
          BY <2>1, <3>1, <4>2 DEF FreshUnknown
        <5>2. PICK e \in Conns \ {d} : userID[e] = userID[d]
          BY <5>1 DEF EndsForAReason
        <5>3. e # c
          BY <2>1, <5>1, <5>2, UserAssumption
        <5> QED
          BY <5>1, <5>2, <5>3
      <4> QED
        BY <4>1, <4>2
    <3> QED
      BY <3>1 DEF EndsForAReason
  <2> QED
    BY <1>0, <2>2, <2>3, <2>4
<1>3. ASSUME NEW c \in Conns, OpenStream(c) PROVE RegistryInv'
  BY <1>0, <1>3
     DEF OpenStream, TypeOK, FreshUnknown, RegistrySound, EndsForAReason
<1>4. ASSUME NEW c \in Conns, Receive(c) PROVE RegistryInv'
  BY <1>0, <1>4 DEF Receive, FreshUnknown, RegistrySound, EndsForAReason
<1>5. ASSUME NEW c \in Conns, LeaveOnDisconnect(c) \/ LeaveOnDone(c)
      PROVE  RegistryInv'
  <2>1. Leave(c) /\ (Done[c] \/ ctxDone[c])
    BY <1>5 DEF LeaveOnDisconnect, LeaveOnDone
  <2>2. FreshUnknown'
    BY <2>1 DEF Leave, TypeOK, FreshUnknown
  <2>3. RegistrySound'
    BY <2>1 DEF Leave, TypeOK, RegistrySound
  <2>4. EndsForAReason'
    BY <2>1 DEF Leave, TypeOK, EndsForAReason
  <2> QED
    BY <1>0, <2>2, <2>3, <2>4
<1>6. ASSUME NEW c \in Conns, Deregister(c) PROVE RegistryInv'
  <2>1. \A v \in Users : clients'[v] # NoConn => clients'[v] = clients[v] /\ clients[v] # c
    BY <1>6 DEF Deregister, TypeOK, RegistrySound
  <2>2. RegistrySound'
    BY <1>6, <2>1 DEF Deregister, TypeOK, RegistrySound
  <2>3. FreshUnknown' /\ EndsForAReason'
    BY <1>6 DEF Deregister, TypeOK, FreshUnknown, EndsForAReason
  <2> QED
    BY <1>0, <2>2, <2>3
<1>7. ASSUME NEW c \in Conns, CloseChannel(c) PROVE RegistryInv'
  BY <1>0, <1>7
     DEF CloseChannel, TypeOK, FreshUnknown, RegistrySound, EndsForAReason
<1>8. ASSUME NEW c \in Conns, Disconnect(c) PROVE RegistryInv'
  BY <1>0, <1>8
     DEF Disconnect, TypeOK, FreshUnknown, RegistrySound, EndsForAReason
<1>9. ASSUME NEW n \in Notes, NotifyStep(n) PROVE RegistryInv'
  <2>1. UNCHANGED <<clients, sseVars>>
    BY <1>9 DEF NotifyStep, Lookup, Send
  <2> QED
    BY <1>0, <2>1 DEF sseVars, FreshUnknown, RegistrySound, EndsForAReason
<1>10. CASE UNCHANGED vars
  BY <1>0, <1>10
     DEF vars, sseVars, FreshUnknown, RegistrySound, EndsForAReason
<1> QED
  BY <1>1, <1>2, <1>3, <1>4, <1>5, <1>6, <1>7, <1>8, <1>9, <1>10
     DEF Next, ServeStep

LEMMA RegistryInduction == Spec => []RegistryInv
<1>1. Init => RegistryInv
  BY DEF Init, RegistryInv, TypeOK, Stages, Outcomes, FreshUnknown,
         RegistrySound, EndsForAReason
<1> QED
  BY <1>1, RegistryStep, PTL DEF Spec

(***************************************************************************)
(* No connection is registered for another user, after it was told to      *)
(* stop, or after its entry was deleted: close(oldConn.Done) never panics. *)
(***************************************************************************)
THEOREM RegistryCorrect == Spec => []RegistrySound
<1>1. RegistryInv => RegistrySound
  BY DEF RegistryInv
<1> QED
  BY <1>1, RegistryInduction, PTL

(***************************************************************************)
(* A stream ends only because the same user opened another one or because  *)
(* its browser went away.                                                  *)
(***************************************************************************)
THEOREM EndsCorrect == Spec => []EndsForAReason
<1>1. RegistryInv => EndsForAReason
  BY DEF RegistryInv
<1> QED
  BY <1>1, RegistryInduction, PTL

-----------------------------------------------------------------------------
(***************************************************************************)
(* Reachability.                                                           *)
(***************************************************************************)

\* Only Register and Deregister change what the map says of a stream; every
\* other step leaves a stream that goes on where it was.
LEMMA ReachFrame ==
  ASSUME UnreachableForAReason, UNCHANGED <<clients, userID, Done>>,
         \A c \in Conns :
           /\ pc'[c] \in {"registered", "streaming"} =>
                pc[c] \in {"registered", "streaming"}
           /\ pc[c] \in {"deregistered", "gone"} =>
                pc'[c] \in {"deregistered", "gone"}
  PROVE  UnreachableForAReason'
BY DEF UnreachableForAReason, Serving

LEMMA ReachStep ==
  ASSUME RegistryInv, UnreachableForAReason, [Next]_vars
  PROVE  UnreachableForAReason'
<1> USE DEF RegistryInv, TypeOK
<1>1. ASSUME NEW c \in Conns, NEW u \in Users, Register(c, u)
      PROVE  UnreachableForAReason'
  <2> USE <1>1 DEF Register
  <2>1. SUFFICES ASSUME NEW d \in Conns, Serving(d)', ~Done'[d],
                        clients'[userID'[d]] # d
                 PROVE  \E e \in Conns \ {d} :
                          /\ userID'[e] = userID'[d]
                          /\ pc'[e] \in {"deregistered", "gone"}
    BY DEF UnreachableForAReason
  <2>2. d # c
    BY <2>1
  <2>3. Serving(d) /\ ~Done[d] /\ d # clients[u] /\ userID'[d] = userID[d]
    BY <2>1, <2>2 DEF Serving
  <2>4. clients[userID[d]] # d
    <3>1. userID[d] \in Users
      BY <2>3 DEF FreshUnknown, Serving
    <3> QED
      BY <2>1, <2>2, <2>3, <3>1
  <2>5. PICK e \in Conns \ {d} : /\ userID[e] = userID[d]
                                 /\ pc[e] \in {"deregistered", "gone"}
    BY <2>3, <2>4 DEF UnreachableForAReason
  <2>6. e # c
    BY <2>5
  <2> QED
    BY <2>3, <2>5, <2>6
<1>2. ASSUME NEW c \in Conns, Deregister(c) PROVE UnreachableForAReason'
  <2> USE <1>2 DEF Deregister
  <2>1. SUFFICES ASSUME NEW d \in Conns, Serving(d)', ~Done'[d],
                        clients'[userID'[d]] # d
                 PROVE  \E e \in Conns \ {d} :
                          /\ userID'[e] = userID'[d]
                          /\ pc'[e] \in {"deregistered", "gone"}
    BY DEF UnreachableForAReason
  <2>2. d # c /\ Serving(d) /\ ~Done[d] /\ userID'[d] = userID[d]
    BY <2>1 DEF Serving
  <2>3. CASE userID[d] = userID[c]
    BY <2>2, <2>3
  <2>4. CASE userID[d] # userID[c]
    <3>1. clients[userID[d]] # d
      BY <2>1, <2>2, <2>4 DEF FreshUnknown, Serving
    <3>2. PICK e \in Conns \ {d} : /\ userID[e] = userID[d]
                                   /\ pc[e] \in {"deregistered", "gone"}
      BY <2>2, <3>1 DEF UnreachableForAReason
    <3> QED
      BY <2>2, <3>2
  <2> QED
    BY <2>3, <2>4
<1>3. ASSUME NEW c \in Conns,
             \/ Reject(c) \/ OpenStream(c) \/ LeaveOnDisconnect(c)
             \/ LeaveOnDone(c) \/ CloseChannel(c)
      PROVE  UnreachableForAReason'
  BY <1>3, ReachFrame
     DEF Reject, OpenStream, LeaveOnDisconnect, LeaveOnDone, Leave,
         CloseChannel
<1>4. ASSUME UNCHANGED <<clients, pc, userID, Done>>
      PROVE  UnreachableForAReason'
  BY <1>4, ReachFrame
<1>5. ASSUME NEW c \in Conns, Receive(c) \/ Disconnect(c)
      PROVE  UnreachableForAReason'
  BY <1>4, <1>5 DEF Receive, Disconnect
<1>6. ASSUME NEW n \in Notes, NotifyStep(n) PROVE UnreachableForAReason'
  BY <1>4, <1>6 DEF NotifyStep, Lookup, Send, sseVars
<1>7. CASE UNCHANGED vars
  BY <1>4, <1>7 DEF vars, sseVars
<1> QED
  BY <1>1, <1>2, <1>3, <1>5, <1>6, <1>7 DEF Next, ServeStep

(***************************************************************************)
(* A stream that goes on and was not replaced is found by Notify, however  *)
(* many streams its user opened, unless another of them has cleaned up.    *)
(***************************************************************************)
THEOREM ReachCorrect == Spec => []UnreachableForAReason
<1>1. Init => UnreachableForAReason
  BY DEF Init, UnreachableForAReason, Serving
<1> QED
  BY <1>1, ReachStep, RegistryInduction, PTL DEF Spec

-----------------------------------------------------------------------------
(***************************************************************************)
(* Recipients.                                                             *)
(***************************************************************************)

\* The three facts are about what a notification is found in, so a step that
\* adds nothing to a channel or a stream preserves them.
LEMMA RecipientFrame ==
  ASSUME DeliveryInv, TypeOK', UNCHANGED <<note, addressee, held>>,
         \A c \in Conns : userID[c] # NoUser => userID'[c] = userID[c],
         \A c \in Conns :
           ToSet(NotifyCh'[c]) \cup ToSet(stream'[c])
             \subseteq ToSet(NotifyCh[c]) \cup ToSet(stream[c])
  PROVE  HeldSound' /\ PlacedIsSent' /\ RightRecipient'
<1>1. HeldSound'
  BY UserAssumption DEF DeliveryInv, HeldSound
<1>2. PlacedIsSent'
  BY UserAssumption DEF DeliveryInv, PlacedIsSent
<1>3. RightRecipient'
  <2> SUFFICES ASSUME NEW c \in Conns, NEW n \in Notes,
                      n \in ToSet(NotifyCh'[c]) \cup ToSet(stream'[c])
               PROVE  addressee'[n] = userID'[c]
    BY DEF RightRecipient
  <2>1. n \in ToSet(NotifyCh[c]) \cup ToSet(stream[c])
    OBVIOUS
  <2>2. addressee[n] = userID[c] /\ userID[c] # NoUser
    BY <2>1, UserAssumption DEF DeliveryInv, RightRecipient, PlacedIsSent
  <2> QED
    BY <2>2
<1> QED
  BY <1>1, <1>2, <1>3

LEMMA RecipientStep ==
  ASSUME DeliveryInv, [Next]_vars
  PROVE  DeliveryInv'
<1> USE DEF DeliveryInv
<1>0. TypeOK /\ TypeOK' /\ RegistryInv'
  BY RegistryStep DEF RegistryInv
<1>1. ASSUME UNCHANGED <<userID, NotifyCh, stream, note, addressee, held>>
      PROVE  DeliveryInv'
  BY <1>0, <1>1, RecipientFrame
<1>2. ASSUME NEW c \in Conns,
             \/ Reject(c) \/ OpenStream(c) \/ LeaveOnDisconnect(c)
             \/ LeaveOnDone(c) \/ Deregister(c) \/ CloseChannel(c)
             \/ Disconnect(c)
      PROVE  DeliveryInv'
  BY <1>1, <1>2
     DEF Reject, OpenStream, LeaveOnDisconnect, LeaveOnDone, Leave,
         Deregister, CloseChannel, Disconnect, notifyVars
<1>3. ASSUME NEW c \in Conns, NEW u \in Users, Register(c, u)
      PROVE  DeliveryInv'
  <2>1. \A d \in Conns : userID[d] # NoUser => userID'[d] = userID[d]
    BY <1>0, <1>3 DEF Register, TypeOK, RegistryInv, FreshUnknown
  <2>2. UNCHANGED <<NotifyCh, stream, note, addressee, held>>
    BY <1>3 DEF Register, notifyVars
  <2> QED
    BY <1>0, <2>1, <2>2, RecipientFrame
<1>4. ASSUME NEW c \in Conns, Receive(c) PROVE DeliveryInv'
  <2>1. /\ ToSet(NotifyCh'[c]) \subseteq ToSet(NotifyCh[c])
        /\ Head(NotifyCh[c]) \in ToSet(NotifyCh[c])
        /\ Head(NotifyCh[c]) \in Notes
    BY <1>0, <1>4, ToSetTail DEF Receive, TypeOK
  <2>2. ToSet(stream'[c]) \subseteq ToSet(stream[c]) \cup {Head(NotifyCh[c])}
    <3>1. stream'[c] = stream[c] \/ stream'[c] = Append(stream[c], Head(NotifyCh[c]))
      BY <1>0, <1>4 DEF Receive, TypeOK
    <3>2. ToSet(Append(stream[c], Head(NotifyCh[c])))
            = ToSet(stream[c]) \cup {Head(NotifyCh[c])}
      BY <1>0, <2>1, ToSetAppend DEF TypeOK
    <3> QED
      BY <3>1, <3>2
  <2>3. \A d \in Conns \ {c} : NotifyCh'[d] = NotifyCh[d] /\ stream'[d] = stream[d]
    BY <1>0, <1>4 DEF Receive, TypeOK
  <2>4. \A d \in Conns :
          ToSet(NotifyCh'[d]) \cup ToSet(stream'[d])
            \subseteq ToSet(NotifyCh[d]) \cup ToSet(stream[d])
    <3> TAKE d \in Conns
    <3> QED
      BY <2>1, <2>2, <2>3
  <2>5. UNCHANGED <<userID, note, addressee, held>>
    BY <1>4 DEF Receive, notifyVars
  <2> QED
    BY <1>0, <2>4, <2>5, RecipientFrame
<1>5. ASSUME NEW n \in Notes, NEW u \in Users \cup {NoUser}, Lookup(n, u)
      PROVE  DeliveryInv'
  <2>1. UNCHANGED <<userID, NotifyCh, stream, clients>> /\ note[n] = "idle"
    BY <1>5 DEF Lookup, sseVars
  <2>2. note'[n] = "sending" => /\ u \in Users
                                /\ held'[n] = clients[u]
                                /\ clients[u] # NoConn
                                /\ addressee'[n] = u
    BY <1>0, <1>5 DEF Lookup, TypeOK
  <2>3. \A m \in Notes \ {n} : /\ note'[m] = note[m]
                               /\ addressee'[m] = addressee[m]
                               /\ held'[m] = held[m]
    BY <1>0, <1>5 DEF Lookup, TypeOK
  <2>4. HeldSound'
    <3> SUFFICES ASSUME NEW m \in Notes, note'[m] = "sending"
                 PROVE  /\ held'[m] \in Conns
                        /\ userID'[held'[m]] = addressee'[m]
                        /\ addressee'[m] \in Users
      BY DEF HeldSound
    <3>1. CASE m = n
      BY <1>0, <2>1, <2>2, <3>1 DEF TypeOK, RegistryInv, RegistrySound
    <3>2. CASE m # n
      BY <2>1, <2>3, <3>2 DEF HeldSound
    <3> QED
      BY <3>1, <3>2
  <2>5. PlacedIsSent' /\ RightRecipient'
    BY <2>1, <2>3 DEF PlacedIsSent, RightRecipient
  <2> QED
    BY <1>0, <2>4, <2>5
<1>6. ASSUME NEW n \in Notes, Send(n) PROVE DeliveryInv'
  <2>1. /\ held[n] \in Conns
        /\ userID[held[n]] = addressee[n]
        /\ addressee[n] \in Users
        /\ note[n] = "sending"
    BY <1>6 DEF Send, HeldSound
  <2>2. UNCHANGED <<userID, stream, addressee, held>>
    BY <1>6 DEF Send, sseVars
  <2>3. note'[n] # "sending" /\ \A m \in Notes \ {n} : note'[m] = note[m]
    BY <1>0, <1>6 DEF Send, SendOutcome, TypeOK
  <2>4. \A c \in Conns :
          ToSet(NotifyCh'[c]) \subseteq
            ToSet(NotifyCh[c]) \cup
              (IF c = held[n] /\ note'[n] = "sent" THEN {n} ELSE {})
    <3> TAKE c \in Conns
    <3>1. CASE note'[n] # "sent"
      BY <1>0, <1>6, <3>1 DEF Send, TypeOK
    <3>2. CASE note'[n] = "sent"
      <4>1. NotifyCh' = [NotifyCh EXCEPT ![held[n]] = Append(@, n)]
        BY <1>0, <1>6, <3>2 DEF Send, TypeOK
      <4>2. ToSet(Append(NotifyCh[held[n]], n)) = ToSet(NotifyCh[held[n]]) \cup {n}
        BY <1>0, <2>1, ToSetAppend DEF TypeOK
      <4> QED
        BY <1>0, <2>1, <3>2, <4>1, <4>2 DEF TypeOK
    <3> QED
      BY <3>1, <3>2
  <2>5. HeldSound'
    BY <2>2, <2>3 DEF HeldSound
  <2>6. \A m \in Notes, c \in Conns :
          m \in ToSet(NotifyCh'[c]) \cup ToSet(stream'[c]) =>
            \/ m \in ToSet(NotifyCh[c]) \cup ToSet(stream[c])
            \/ m = n /\ c = held[n] /\ note'[n] = "sent"
    BY <2>2, <2>4
  <2>7. PlacedIsSent'
    <3> SUFFICES ASSUME NEW m \in Notes, NEW c \in Conns,
                        m \in ToSet(NotifyCh'[c]) \cup ToSet(stream'[c])
                 PROVE  note'[m] = "sent" /\ userID'[c] \in Users
      BY DEF PlacedIsSent
    <3>1. CASE m \in ToSet(NotifyCh[c]) \cup ToSet(stream[c])
      <4>1. note[m] = "sent" /\ userID[c] \in Users
        BY <3>1 DEF PlacedIsSent
      <4> QED
        BY <2>1, <2>2, <2>3, <4>1
    <3>2. CASE m = n /\ c = held[n] /\ note'[n] = "sent"
      BY <2>1, <2>2, <3>2
    <3> QED
      BY <2>6, <3>1, <3>2
  <2>8. RightRecipient'
    BY <2>1, <2>2, <2>6 DEF RightRecipient
  <2> QED
    BY <1>0, <2>5, <2>7, <2>8
<1>7. CASE UNCHANGED vars
  BY <1>1, <1>7 DEF vars, sseVars, notifyVars
<1> QED
  BY <1>2, <1>3, <1>4, <1>5, <1>6, <1>7 DEF Next, ServeStep, NotifyStep

LEMMA DeliveryInduction == Spec => []DeliveryInv
<1>1. Init => DeliveryInv
  BY ToSetEmpty
     DEF Init, DeliveryInv, RegistryInv, TypeOK, Stages, Outcomes,
         FreshUnknown, RegistrySound, EndsForAReason, HeldSound, PlacedIsSent,
         RightRecipient
<1> QED
  BY <1>1, RecipientStep, PTL DEF Spec

\* Channels and streams hold only notifications addressed to their user.
THEOREM RecipientCorrect == Spec => []RightRecipient
<1>1. DeliveryInv => RightRecipient
  BY DEF DeliveryInv
<1> QED
  BY <1>1, DeliveryInduction, PTL

=============================================================================
