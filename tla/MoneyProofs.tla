---------------------------- MODULE MoneyProofs ----------------------------
(***************************************************************************)
(* What rateMoney returns, for every price, quantity and scale.             *)
(***************************************************************************)
EXTENDS Money, TLAPS

LEMMA Divisors ==
    ASSUME NEW digits \in Scales
    PROVE  \/ Divisor(digits) = 1000000 /\ Thousandths(digits) = 1000
           \/ Divisor(digits) = 10000 /\ Thousandths(digits) = 10
           \/ Divisor(digits) = 1000 /\ Thousandths(digits) = 1
  BY DEF Scales, Divisor, Thousandths

\* Adding half a divisor before dividing rounds half up, whatever the product.
LEMMA RoundedUp ==
    ASSUME NEW n \in Nat, NEW d \in {1000000, 10000, 1000}
    PROVE  LET m == (n + d \div 2) \div d
           IN  m \in Nat /\ -d < 2 * (m * d - n) /\ 2 * (m * d - n) <= d
  <1>1. CASE d = 1000000 BY <1>1
  <1>2. CASE d = 10000 BY <1>2
  <1>3. CASE d = 1000 BY <1>3
  <1> QED BY <1>1, <1>2, <1>3

\* rateMoney rounds half up to the minor unit (lib/money-contract.ts:20): its
\* amount is a nearest one to the exact product, the upper of two.
THEOREM MinorIsHalfUp ==
    ASSUME NEW micros \in Nat, NEW quantity \in Nat, NEW digits \in Scales
    PROVE  /\ Minor(micros, quantity, digits) \in Nat
           /\ HalfUp(Minor(micros, quantity, digits), micros, quantity, digits)
  <1> DEFINE n == micros * quantity
             d == Divisor(digits)
  <1>1. n \in Nat OBVIOUS
  <1>2. d \in {1000000, 10000, 1000} BY Divisors
  <1> HIDE DEF n, d
  <1>3. LET m == (n + d \div 2) \div d
        IN  m \in Nat /\ -d < 2 * (m * d - n) /\ 2 * (m * d - n) <= d
    BY <1>1, <1>2, RoundedUp
  <1>4. Minor(micros, quantity, digits) = (n + d \div 2) \div d BY DEF Minor, n, d
  <1> QED BY <1>3, <1>4 DEF HalfUp, n, d

\* Rounding is the only loss: there is one half-up amount, so the database
\* and the calculation that rates again (the ledger's check of a persisted
\* amount) cannot differ.
THEOREM HalfUpIsUnique ==
    ASSUME NEW micros \in Nat, NEW quantity \in Nat, NEW digits \in Scales,
           NEW m1 \in Nat, NEW m2 \in Nat,
           HalfUp(m1, micros, quantity, digits), HalfUp(m2, micros, quantity, digits)
    PROVE  m1 = m2
  <1> DEFINE n == micros * quantity
  <1>1. n \in Nat OBVIOUS
  <1> HIDE DEF n
  <1>2. \A d \in {1000000, 10000, 1000} :
          (/\ -d < 2 * (m1 * d - n) /\ 2 * (m1 * d - n) <= d
           /\ -d < 2 * (m2 * d - n) /\ 2 * (m2 * d - n) <= d) => m1 = m2
    BY <1>1
  <1> QED BY <1>2, Divisors DEF HalfUp, n
=============================================================================
