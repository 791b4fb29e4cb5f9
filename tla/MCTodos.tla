------------------------------ MODULE MCTodos ------------------------------
(* A small instance of Todos for TLC. *)
EXTENDS Todos, TLC

\* Every set of names is one of interchangeable names.
Symmetry ==
  Permutations(Users) \cup Permutations(Tokens) \cup Permutations(Requests)
    \cup Permutations(Browsers) \cup Permutations(Replicas)

=============================================================================
