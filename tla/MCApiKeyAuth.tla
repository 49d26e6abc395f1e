---------------------------- MODULE MCApiKeyAuth ----------------------------
(* ApiKeyAuth for TLC. *)
EXTENDS ApiKeyAuth, TLC

Symmetry == Permutations(Keys \ Corrupt) \cup Permutations(Requests)
=============================================================================
