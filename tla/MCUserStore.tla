---------------------------- MODULE MCUserStore ----------------------------
(* Small instances of UserStore for TLC. *)
EXTENDS UserStore, TLC

\* Interchangeable callers, workers and user ids: sound for safety only.
Symmetry ==
  Permutations(Callers) \cup Permutations(Workers) \cup Permutations(Users)

=============================================================================
