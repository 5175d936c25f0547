-------------------------------- MODULE Money --------------------------------
(***************************************************************************)
(* Exact money (lib/money-contract.ts, lib/currency-scales.ts,              *)
(* lib/persisted-rated-amount.ts): integers throughout.  A unit price is a   *)
(* number of micros, a rating a number of minor units of its currency, an    *)
(* amount as persisted a number of thousandths.  The strings between them    *)
(* are exact in both directions and left out; TLC's integers are narrower    *)
(* than BigInt, so the limits are constants.                                 *)
(***************************************************************************)
EXTENDS Integers, Sequences, SequencesExt

CONSTANTS MaxUnitMicros, MaxQuantity, MaxMinorUnits

\* Minor-unit digits of the supported currencies: JPY 0, INR 2, KWD 3.
Scales == {0, 2, 3}

\* 10 to the power of 6 - digits, and of 3 - digits.
Divisor(digits) == IF digits = 0 THEN 1000000 ELSE IF digits = 2 THEN 10000 ELSE 1000
Thousandths(digits) == IF digits = 0 THEN 1000 ELSE IF digits = 2 THEN 10 ELSE 1

\* Half-up, by adding half a divisor before the division of naturals.
Minor(micros, quantity, digits) ==
    (micros * quantity + Divisor(digits) \div 2) \div Divisor(digits)

\* The RangeErrors of rateMoney.
Ratable(micros, quantity, digits) ==
    /\ digits \in Scales
    /\ micros <= MaxUnitMicros
    /\ quantity \in 1..MaxQuantity
    /\ Minor(micros, quantity, digits) <= MaxMinorUnits

\* RatedEvent.amount is Decimal(18, 3), whatever the currency.
Persisted(minor, digits) == minor * Thousandths(digits)

SumPersisted(amounts) == FoldSeq(+, 0, amounts)

\* The reference: minor is a nearest number of minor units, the upper of two.
HalfUp(minor, micros, quantity, digits) ==
    LET error == 2 * (minor * Divisor(digits) - micros * quantity)
    IN  -Divisor(digits) < error /\ error <= Divisor(digits)
=============================================================================
