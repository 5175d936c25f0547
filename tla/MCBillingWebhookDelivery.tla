---------------------- MODULE MCBillingWebhookDelivery ----------------------
(* Instances of BillingWebhookDelivery for TLC. *)
EXTENDS BillingWebhookDelivery, TLC

\* Slots, keys and scanners only compare equal or not.
Symmetry == Permutations(Slots) \cup Permutations(Keys) \cup Permutations(Scanners)
=============================================================================
