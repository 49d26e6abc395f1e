------------------------- MODULE MCWebhookDelivery -------------------------
(* WebhookDelivery for TLC. *)
EXTENDS WebhookDelivery, TLC

\* Replicas run the same program and sessions are interchangeable.
Symmetry == Permutations(Replicas) \cup Permutations(Sessions)
=============================================================================
