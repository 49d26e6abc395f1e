------------------------- MODULE MCSessionLifecycle -------------------------
(* SessionLifecycle for TLC. *)
EXTENDS SessionLifecycle, TLC

\* Every one of these sets is a set of interchangeable identities.
Symmetry == Permutations(Requests) \cup Permutations(Sweepers)
                \cup Permutations(Sessions) \cup Permutations(Clients)
=============================================================================
