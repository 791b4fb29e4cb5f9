--------------------------- MODULE Notifications ---------------------------
(***************************************************************************)
(* The SSE notification hub of internal/web/notifications/handler.go.      *)
(*                                                                         *)
(* A hub owns a map from user ids to SSE connections, guarded by an        *)
(* RWMutex.  Every GET /notifications runs ServeSSE in a goroutine of its  *)
(* own, which creates one connection, puts it in the map and then streams  *)
(* from its channel; every Notify call runs in the goroutine of some       *)
(* todos request.  A member of Conns is one ServeSSE invocation together   *)
(* with the SSEConnection it allocates; a member of Notes is one Notify    *)
(* call together with the Notification it carries.  Both are one-shot, as  *)
(* in the code, so the sets are also the bounds of an instance.            *)
(*                                                                         *)
(* A critical section of h.mu contains no blocking operation and is one    *)
(* step; everything outside h.mu is a step of its own.                     *)
(***************************************************************************)
EXTENDS Integers, SequencesExt

CONSTANTS
  Users,     \* user ids a session can hold
  Conns,     \* ServeSSE invocations
  Notes,     \* Notify invocations
  ChanCap,   \* capacity of NotifyCh: 8 in the code
  NoUser,    \* the empty user id of a session without a user
  NoConn     \* absence of a map entry

ASSUME ChanCapAssumption == ChanCap \in Nat \ {0}
ASSUME UserAssumption    == NoUser \notin Users
ASSUME ConnAssumption    == NoConn \notin Conns

VARIABLES
  clients,   \* h.clients
  pc,        \* progress of each ServeSSE invocation
  userID,    \* the userID local of each ServeSSE invocation
  Done,      \* is conn.Done closed?
  NotifyCh,  \* contents of conn.NotifyCh
  ctxDone,   \* has the browser gone away (r.Context() cancelled)?
  stream,    \* notifications written to the response
  gauge,     \* h.m.SSENotificationConnections
  note,      \* progress and outcome of each Notify call
  addressee, \* the userID argument of each Notify call
  held       \* the conn pointer a Notify call took from the map

sseVars    == <<pc, userID, Done, ctxDone, stream, gauge>>
notifyVars == <<note, addressee, held>>
vars       == <<clients, NotifyCh, sseVars, notifyVars>>


(***************************************************************************)
(* Stages of a ServeSSE invocation, in program order.  "leaving" is the    *)
(* return statement taken, with the deferred cleanup still to run.  The    *)
(* channel of a connection is closed exactly when it is "gone".            *)
(***************************************************************************)
Stages == {"idle", "rejected", "registered", "streaming",
           "leaving", "deregistered", "gone"}

Outcomes == {"idle", "sending", "noclient", "sent", "dropped", "panicked"}

Serving(c) == pc[c] \in {"registered", "streaming"}
Closed(c)  == pc[c] = "gone"

TypeOK ==
  /\ clients   \in [Users -> Conns \cup {NoConn}]
  /\ pc        \in [Conns -> Stages]
  /\ userID    \in [Conns -> Users \cup {NoUser}]
  /\ Done      \in [Conns -> BOOLEAN]
  /\ NotifyCh  \in [Conns -> Seq(Notes)]
  /\ ctxDone   \in [Conns -> BOOLEAN]
  /\ stream    \in [Conns -> Seq(Notes)]
  /\ gauge     \in Int
  /\ note      \in [Notes -> Outcomes]
  /\ addressee \in [Notes -> Users \cup {NoUser}]
  /\ held      \in [Notes -> Conns \cup {NoConn}]

Init ==
  /\ clients   = [u \in Users |-> NoConn]
  /\ pc        = [c \in Conns |-> "idle"]
  /\ userID    = [c \in Conns |-> NoUser]
  /\ Done      = [c \in Conns |-> FALSE]
  /\ NotifyCh  = [c \in Conns |-> <<>>]
  /\ ctxDone   = [c \in Conns |-> FALSE]
  /\ stream    = [c \in Conns |-> <<>>]
  /\ gauge     = 0
  /\ note      = [n \in Notes |-> "idle"]
  /\ addressee = [n \in Notes |-> NoUser]
  /\ held      = [n \in Notes |-> NoConn]

-----------------------------------------------------------------------------
(***************************************************************************)
(* ServeSSE.                                                               *)
(***************************************************************************)

\* Mutated Reject: the return after the 401 is missing, and the connection of
\* nobody is registered.
Reject_MissingReturn(c) ==
  /\ pc[c] = "idle"
  /\ pc' = [pc EXCEPT ![c] = "registered"]
  /\ clients' = [u \in Users \cup {NoUser} |-> IF u = NoUser THEN c ELSE clients[u]]
  /\ UNCHANGED <<NotifyCh, userID, Done, ctxDone, stream, gauge, notifyVars>>

\* The session has no user: 401, nothing is registered.
Reject(c) ==
  /\ pc[c] = "idle"
  /\ pc' = [pc EXCEPT ![c] = "rejected"]
  /\ UNCHANGED <<clients, NotifyCh, userID, Done, ctxDone, stream, gauge,
                 notifyVars>>

\* Mutated Register: every connection is told to stop, not only the user's.
Register_StopsEveryone(c, u) ==
  /\ pc[c] = "idle"
  /\ pc' = [pc EXCEPT ![c] = "registered"]
  /\ userID' = [userID EXCEPT ![c] = u]
  /\ Done' = [d \in Conns |-> Done[d] \/ \E v \in Users : d = clients[v]]
  /\ clients' = [clients EXCEPT ![u] = c]
  /\ UNCHANGED <<NotifyCh, ctxDone, stream, gauge, notifyVars>>

\* Mutated Register: the entry of the user is deleted after, not before, the
\* new connection is put into the map.
Register_DeletesLast(c, u) ==
  /\ pc[c] = "idle"
  /\ pc' = [pc EXCEPT ![c] = "registered"]
  /\ userID' = [userID EXCEPT ![c] = u]
  /\ Done' = [d \in Conns |-> Done[d] \/ d = clients[u]]
  /\ clients' = [clients EXCEPT ![u] = IF @ = NoConn THEN c ELSE NoConn]
  /\ UNCHANGED <<NotifyCh, ctxDone, stream, gauge, notifyVars>>

(***************************************************************************)
(* The first critical section: the user's registered connection, if any,   *)
(* has its Done closed and its entry deleted, and the new one takes its    *)
(* place.  Closing a Done twice would panic with h.mu held; RegistrySound  *)
(* says that it cannot happen.                                             *)
(***************************************************************************)
Register(c, u) ==
  /\ pc[c] = "idle"
  /\ pc' = [pc EXCEPT ![c] = "registered"]
  /\ userID' = [userID EXCEPT ![c] = u]
  /\ Done' = [d \in Conns |-> Done[d] \/ d = clients[u]]
  /\ clients' = [clients EXCEPT ![u] = c]
  /\ UNCHANGED <<NotifyCh, ctxDone, stream, gauge, notifyVars>>

(***************************************************************************)
(* Headers and the gauge, outside the lock.  The http.Flusher test that    *)
(* follows always succeeds in the assembled program: main wraps the mux in *)
(* middleware.Logger, whose response writer has a Flush method.            *)
(***************************************************************************)
OpenStream(c) ==
  /\ pc[c] = "registered"
  /\ pc' = [pc EXCEPT ![c] = "streaming"]
  /\ gauge' = gauge + 1
  /\ UNCHANGED <<clients, NotifyCh, userID, Done, ctxDone, stream, notifyVars>>

\* Mutated Receive: what was written stays in the channel until the next one.
Receive_Again(c) ==
  /\ pc[c] = "streaming"
  /\ NotifyCh[c] # <<>>
  /\ NotifyCh' = [NotifyCh EXCEPT ![c] = IF Len(@) = 1 THEN @ ELSE Tail(@)]
  /\ stream' = [stream EXCEPT ![c] =
                  IF ctxDone[c] THEN @ ELSE Append(@, Head(NotifyCh[c]))]
  /\ UNCHANGED <<clients, pc, userID, Done, ctxDone, gauge, notifyVars>>

\* Mutated Receive: the loop waits for the channel to fill up first.
Receive_WhenFull(c) ==
  /\ Len(NotifyCh[c]) = ChanCap
  /\ pc[c] = "streaming"
  /\ NotifyCh' = [NotifyCh EXCEPT ![c] = <<>>]
  /\ stream' = [stream EXCEPT ![c] = @ \o NotifyCh[c]]
  /\ UNCHANGED <<clients, pc, userID, Done, ctxDone, gauge, notifyVars>>

(***************************************************************************)
(* The select loop.  Any ready case may be taken.  Rendering fails exactly *)
(* when the request's context is cancelled, and the error event written    *)
(* then carries no notification.                                           *)
(***************************************************************************)
Receive(c) ==
  /\ pc[c] = "streaming"
  /\ NotifyCh[c] # <<>>
  /\ NotifyCh' = [NotifyCh EXCEPT ![c] = Tail(@)]
  /\ stream' = [stream EXCEPT ![c] =
                  IF ctxDone[c] THEN @ ELSE Append(@, Head(NotifyCh[c]))]
  /\ UNCHANGED <<clients, pc, userID, Done, ctxDone, gauge, notifyVars>>

Leave(c) ==
  /\ pc[c] = "streaming"
  /\ pc' = [pc EXCEPT ![c] = "leaving"]
  /\ UNCHANGED <<clients, NotifyCh, userID, Done, ctxDone, stream, gauge,
                 notifyVars>>

\* Mutated LeaveOnDone: the loop has no case for conn.Done.
LeaveOnDone_Missing(c) == FALSE /\ Leave(c)

LeaveOnDisconnect(c) == ctxDone[c] /\ Leave(c)

LeaveOnDone(c) == Done[c] /\ Leave(c)

\* Mutated Deregister: the entry stays in the map.
Deregister_KeepsEntry(c) ==
  /\ pc[c] = "leaving"
  /\ pc' = [pc EXCEPT ![c] = "deregistered"]
  /\ UNCHANGED <<clients, NotifyCh, userID, Done, ctxDone, stream, gauge,
                 notifyVars>>

\* The deferred cleanup deletes the entry of the user, whoever put it there.
Deregister(c) ==
  /\ pc[c] = "leaving"
  /\ pc' = [pc EXCEPT ![c] = "deregistered"]
  /\ clients' = [clients EXCEPT ![userID[c]] = NoConn]
  /\ UNCHANGED <<NotifyCh, userID, Done, ctxDone, stream, gauge, notifyVars>>

\* Then, outside the lock, it closes the channel and decrements the gauge.
CloseChannel(c) ==
  /\ pc[c] = "deregistered"
  /\ pc' = [pc EXCEPT ![c] = "gone"]
  /\ gauge' = gauge - 1
  /\ UNCHANGED <<clients, NotifyCh, userID, Done, ctxDone, stream, notifyVars>>

\* The browser closes the stream; net/http cancels the request's context.
Disconnect(c) ==
  /\ pc[c] \in {"registered", "streaming", "leaving", "deregistered"}
  /\ ~ctxDone[c]
  /\ ctxDone' = [ctxDone EXCEPT ![c] = TRUE]
  /\ UNCHANGED <<clients, NotifyCh, pc, userID, Done, stream, gauge, notifyVars>>

-----------------------------------------------------------------------------
(***************************************************************************)
(* Notify: a lookup under the read lock, then a non-blocking send with no  *)
(* lock held.                                                              *)
(***************************************************************************)
\* Mutated Lookup: any registered connection is taken, not the user's.
Lookup_AnyConnection(n, u) ==
  /\ note[n] = "idle"
  /\ addressee' = [addressee EXCEPT ![n] = u]
  /\ \E v \in Users :
       /\ held' = [held EXCEPT ![n] = clients[v]]
       /\ note' = [note EXCEPT ![n] = IF clients[v] = NoConn
                                      THEN "noclient" ELSE "sending"]
  /\ UNCHANGED <<clients, NotifyCh, sseVars>>

\* ServeSSE refuses the empty user id, so nothing is ever found for NoUser.
Lookup(n, u) ==
  LET conn == IF u = NoUser THEN NoConn ELSE clients[u] IN
  /\ note[n] = "idle"
  /\ addressee' = [addressee EXCEPT ![n] = u]
  /\ held' = [held EXCEPT ![n] = conn]
  /\ note' = [note EXCEPT ![n] = IF conn = NoConn THEN "noclient" ELSE "sending"]
  /\ UNCHANGED <<clients, NotifyCh, sseVars>>

SendOutcome(c) == IF Closed(c) THEN "panicked"
                  ELSE IF Len(NotifyCh[c]) < ChanCap THEN "sent" ELSE "dropped"

\* A send on a closed channel panics, in a select with a default case too.
Send(n) ==
  LET outcome == SendOutcome(held[n]) IN
  /\ note[n] = "sending"
  /\ note' = [note EXCEPT ![n] = outcome]
  /\ NotifyCh' = IF outcome = "sent"
                 THEN [NotifyCh EXCEPT ![held[n]] = Append(@, n)]
                 ELSE NotifyCh
  /\ UNCHANGED <<clients, sseVars, addressee, held>>

-----------------------------------------------------------------------------
ServeStep(c) ==
  \/ Reject(c)
  \/ \E u \in Users : Register(c, u)
  \/ OpenStream(c)
  \/ Receive(c)
  \/ LeaveOnDisconnect(c)
  \/ LeaveOnDone(c)
  \/ Deregister(c)
  \/ CloseChannel(c)
  \/ Disconnect(c)

NotifyStep(n) ==
  \/ \E u \in Users \cup {NoUser} : Lookup(n, u)
  \/ Send(n)

Next ==
  \/ \E c \in Conns : ServeStep(c)
  \/ \E n \in Notes : NotifyStep(n)

Spec == Init /\ [][Next]_vars

(***************************************************************************)
(* Goroutines that can run are scheduled, a write to a response does not   *)
(* block for ever, and a select does not pass over a case that stays ready *)
(* for ever, since Go chooses uniformly among the ready ones.  Arrivals    *)
(* and disconnects are not fair.                                           *)
(***************************************************************************)
Fairness ==
  /\ \A c \in Conns : /\ WF_vars(OpenStream(c))
                      /\ WF_vars(Receive(c))
                      /\ WF_vars(LeaveOnDisconnect(c))
                      /\ WF_vars(LeaveOnDone(c))
                      /\ WF_vars(Deregister(c))
                      /\ WF_vars(CloseChannel(c))
  /\ \A n \in Notes : WF_vars(Send(n))

FairSpec == Spec /\ Fairness

-----------------------------------------------------------------------------
(***************************************************************************)
(* Safety.                                                                 *)
(***************************************************************************)

(***************************************************************************)
(* The registry never points at a connection that was told to stop, that   *)
(* has left the map, or that belongs to someone else.  So close(oldConn.   *)
(* Done) never closes a closed channel, which would panic while h.mu is    *)
(* held and block every later Notify and ServeSSE of the replica.          *)
(***************************************************************************)
RegistrySound ==
  \A u \in Users : clients[u] # NoConn =>
    /\ userID[clients[u]] = u
    /\ ~Done[clients[u]]
    /\ pc[clients[u]] \in {"registered", "streaming", "leaving"}

(***************************************************************************)
(* A connection is told to stop only because another connection of the     *)
(* same user arrived, and a stream ends only for that reason or because    *)
(* the browser went away.                                                  *)
(***************************************************************************)
EndsForAReason ==
  \A c \in Conns :
    /\ Done[c] => \E d \in Conns \ {c} : userID[d] = userID[c]
    /\ pc[c] \in {"leaving", "deregistered", "gone"} => Done[c] \/ ctxDone[c]

(***************************************************************************)
(* A stream that goes on and was not told to stop is the one Notify finds  *)
(* for its user, unless the cleanup of another stream of that user has run *)
(* already: no order of arrivals, replacements and disconnects cuts a user *)
(* off while none of his streams ended.                                    *)
(***************************************************************************)
UnreachableForAReason ==
  \A c \in Conns : Serving(c) /\ ~Done[c] /\ clients[userID[c]] # c =>
    \E d \in Conns \ {c} : /\ userID[d] = userID[c]
                          /\ pc[d] \in {"deregistered", "gone"}

\* No notification occurs at two places of the sequences in F.
NoRepeats(F) ==
  \A c, d \in Conns : \A i \in 1..Len(F[c]), j \in 1..Len(F[d]) :
    F[c][i] = F[d][j] => c = d /\ i = j

(***************************************************************************)
(* A notification reaches only connections of the user it is addressed to, *)
(* although the map, the connections and the Notify calls that hold them   *)
(* change hands independently.                                             *)
(***************************************************************************)
RightRecipient ==
  \A c \in Conns, n \in Notes :
    n \in ToSet(NotifyCh[c]) \cup ToSet(stream[c]) =>
      addressee[n] = userID[c]

(***************************************************************************)
(* A notification sits in at most one place: one slot of one channel or    *)
(* one event of one stream.                                                *)
(***************************************************************************)
AtMostOnce ==
  /\ NoRepeats(NotifyCh)
  /\ NoRepeats(stream)
  /\ \A c, d \in Conns : ToSet(stream[c]) \cap ToSet(NotifyCh[d]) = {}

(***************************************************************************)
(* What the comments of handler.go promise.                                *)
(***************************************************************************)
Live(c) == Serving(c) /\ ~Done[c] /\ ~ctxDone[c]

(***************************************************************************)
(* handler.go:118 "Notify sends a notification to the user's SSE           *)
(* connection": a live connection is the one Notify finds for its user.    *)
(***************************************************************************)
NotifyFindsConnection ==
  \A c \in Conns : Live(c) => clients[userID[c]] = c

(***************************************************************************)
(* handler.go:124 and 129: a user without an active connection and a full  *)
(* channel are the two ways a notification goes nowhere; a send on the     *)
(* closed channel of an ended connection is not among them.                *)
(***************************************************************************)
NotifyNeverPanics == \A n \in Notes : note[n] # "panicked"

(***************************************************************************)
(* Liveness.                                                               *)
(***************************************************************************)

\* A stream that was replaced or lost its browser gives its goroutine back.
StreamsEnd ==
  \A c \in Conns : (Done[c] \/ ctxDone[c]) ~> (pc[c] = "gone")

(***************************************************************************)
(* A notification that Notify queued does not sit in the channel of a live *)
(* stream for ever: it is received, or the stream ends with it.            *)
(***************************************************************************)
QueuedIsConsumed ==
  \A n \in Notes, c \in Conns :
    n \in ToSet(NotifyCh[c]) ~>
      \/ n \notin ToSet(NotifyCh[c])
      \/ pc[c] = "gone"

-----------------------------------------------------------------------------
(***************************************************************************)
(* The hub implements Delivery.  A notification is pending while a Notify  *)
(* call still holds it or while it sits in a channel that will be closed   *)
(* later, and is lost when no stream can show it any more.                 *)
(***************************************************************************)
Shown(n)  == \E c \in Conns : n \in ToSet(stream[c])
Queued(n) == \E c \in Conns : n \in ToSet(NotifyCh[c]) /\ ~Closed(c)

Fate(n) ==
  IF      note[n] = "idle"                 THEN "unposted"
  ELSE IF Shown(n)                         THEN "shown"
  ELSE IF note[n] = "sending" \/ Queued(n) THEN "pending"
  ELSE                                          "lost"

Inbox(u) ==
  {n \in Notes : \E c \in Conns : userID[c] = u /\ n \in ToSet(stream[c])}

Contract == INSTANCE Delivery WITH
              fate  <- [n \in Notes |-> Fate(n)],
              to    <- addressee,
              inbox <- [u \in Users |-> Inbox(u)]

(***************************************************************************)
(* Every behaviour of the hub, with its replaced connections, panics and   *)
(* full channels, is one Delivery allows.                                  *)
(***************************************************************************)
ImplementsDelivery == Contract!Spec

=============================================================================
