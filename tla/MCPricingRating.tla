-------------------------- MODULE MCPricingRating --------------------------
(* Instances of PricingRating for TLC. *)
EXTENDS PricingRating, TLC

CONSTANTS low, high

\* Every event overflows at the high price and none at the low one.
MCOverflow == {high} \X Events

\* Events and currencies only compare equal or not.
Symmetry == Permutations(Events) \cup Permutations(Currencies)
=============================================================================
