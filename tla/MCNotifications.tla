-------------------------- MODULE MCNotifications --------------------------
(* Small instances of Notifications for TLC. *)
EXTENDS Notifications, TLC

\* Interchangeable users, connections and notifications: sound for safety only.
Symmetry == Permutations(Users) \cup Permutations(Conns) \cup Permutations(Notes)

=============================================================================
