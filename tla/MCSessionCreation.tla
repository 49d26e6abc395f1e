------------------------- MODULE MCSessionCreation -------------------------
(* SessionCreation for TLC. *)
EXTENDS SessionCreation, TLC

\* Claims in scopes and queries are not interchangeable; these are.
Symmetry == Permutations(Clients) \cup Permutations(IntendedUses)
                \cup Permutations(Templates) \cup Permutations(Requests)

\* Scopes and queries over the claims of one credential; {} is a query that
\* does not validate.
OneClaim     == {{"name"}}
OneOrInvalid == {{}, {"name"}}
EitherClaim  == {{"name"}, {"age"}}
=============================================================================
