----------------------------- MODULE MCService -----------------------------
(* Service for TLC. *)
EXTENDS Service, TLC

\* Every replica runs the same two loops.
Symmetry == Permutations(Replicas) \cup Permutations(Requests)
=============================================================================
