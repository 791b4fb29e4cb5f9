------------------------------ MODULE Delivery ------------------------------
(***************************************************************************)
(* What the notification hub promises to the rest of the program, with the *)
(* connections left out: a notification posted to a user is shown to that  *)
(* user at most once, or is lost; nothing is shown that was not posted,    *)
(* and what was shown or lost stays so.                                    *)
(***************************************************************************)
CONSTANTS
  Users,   \* user ids
  Notes,   \* notifications
  NoUser   \* the addressee of a session without a user

VARIABLES
  fate,    \* what became of each notification
  to,      \* whom it was posted to
  inbox    \* the notifications each user was shown

vars == <<fate, to, inbox>>

Init ==
  /\ fate  = [n \in Notes |-> "unposted"]
  /\ to    = [n \in Notes |-> NoUser]
  /\ inbox = [u \in Users |-> {}]

\* A notification is posted; without a listener it is lost on the spot.
Post(n, u, f) ==
  /\ fate[n] = "unposted"
  /\ f \in {"pending", "lost"}
  /\ u = NoUser => f = "lost"
  /\ fate' = [fate EXCEPT ![n] = f]
  /\ to' = [to EXCEPT ![n] = u]
  /\ UNCHANGED inbox

Deliver(n) ==
  /\ fate[n] = "pending"
  /\ fate' = [fate EXCEPT ![n] = "shown"]
  /\ inbox' = [inbox EXCEPT ![to[n]] = @ \cup {n}]
  /\ UNCHANGED to

\* Pending notifications disappear together with the stream that held them.
Lose(S) ==
  /\ \A n \in S : fate[n] = "pending"
  /\ fate' = [n \in Notes |-> IF n \in S THEN "lost" ELSE fate[n]]
  /\ UNCHANGED <<to, inbox>>

Next ==
  \/ \E n \in Notes, u \in Users \cup {NoUser}, f \in {"pending", "lost"} :
       Post(n, u, f)
  \/ \E n \in Notes : Deliver(n)
  \/ \E S \in SUBSET Notes : Lose(S)

Spec == Init /\ [][Next]_vars

=============================================================================
