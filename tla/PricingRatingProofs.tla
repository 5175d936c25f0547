------------------------ MODULE PricingRatingProofs ------------------------
(***************************************************************************)
(* Proofs about PricingRating for every set of events, prices and           *)
(* currencies, every allowance, clock skew and bound.                       *)
(***************************************************************************)
EXTENDS PricingRating, TLAPS

LEMMA InstantsAreNat == Instants \subseteq Nat
BY PricingConstants DEF Instants

-----------------------------------------------------------------------------
(* Type correctness                                                         *)

\* Every reachable state has the types the tables and requests declare.
THEOREM TypeCorrect == Spec => []TypeOK
<1>1. Init => TypeOK
  BY PricingConstants DEF Init, TypeOK
<1>2. TypeOK /\ [Next]_vars => TypeOK'
  <2> SUFFICES ASSUME TypeOK, [Next]_vars PROVE TypeOK'
    OBVIOUS
  <2> USE DEF TypeOK, outcomes
  <2>1. CASE Tick
    BY <2>1, PricingConstants DEF Tick
  <2>2. ASSUME NEW e \in Events, NEW t \in Instants, Accept(e, t) PROVE TypeOK'
    BY <2>2 DEF Accept
  <2>3. ASSUME NEW e \in Events, Project(e) PROVE TypeOK'
    BY <2>3 DEF Project
  <2>4. ASSUME NEW v \in Versions, PublishChecks(v) PROVE TypeOK'
    <3>1. [version |-> v, at |-> clock] \in Publications
      BY <2>4, PricingConstants DEF Publications
    <3> QED BY <2>4, <3>1 DEF PublishChecks
  <2>5. CASE PublishCommits
    BY <2>5 DEF PublishCommits, Publications
  <2>6. CASE PublishAborts
    BY <2>6 DEF PublishAborts
  <2>7. ASSUME NEW e \in Events, Rate(e) PROVE TypeOK'
    BY <2>7 DEF Rate, NoApplicablePrice, RateAt
  <2>8. ASSUME NEW start \in Instants, NEW end \in Instants, Preview(start, end)
        PROVE TypeOK'
    <3>1. Eligible(start, end) \in SUBSET Events
      BY DEF Eligible
    <3>2. clock \in Nat /\ currency \in Currencies
      BY <2>8, PricingConstants DEF Preview
    <3>3. [start |-> start, end |-> end, at |-> clock, currency |-> currency,
           events |-> Eligible(start, end)] \in Reviews
      BY <3>1, <3>2 DEF Reviews
    <3> QED BY <2>8, <3>3 DEF Preview
  <2>9. ASSUME NEW r \in reviews, NEW p \in Prices, Approve(r, p)
        PROVE TypeOK'
    <3>1. [start |-> r.start, end |-> r.end, price |-> p,
           currency |-> r.currency] \in Corrections
      BY DEF Reviews, Corrections
    <3> QED BY <2>9, <3>1 DEF Approve
  <2>10. ASSUME NEW c \in Currencies, ReadUnpublished(c) PROVE TypeOK'
    BY <2>10 DEF ReadUnpublished
  <2>11. CASE UpdateCurrency
    BY <2>11 DEF UpdateCurrency
  <2>12. CASE UNCHANGED vars
    BY <2>12 DEF vars
  <2> QED
    BY <2>1, <2>2, <2>3, <2>4, <2>5, <2>6, <2>7, <2>8, <2>9, <2>10, <2>11,
       <2>12 DEF Next
<1> QED
  BY <1>1, <1>2, PTL DEF Spec
-----------------------------------------------------------------------------
(* The inductive invariant                                                  *)

\* Until the clock passes it, no accepted event lies beyond the allowance,
\* except those a fast clock accepted.
AcceptedWithinAllowance ==
    \A e \in Events \ early :
        timestamp[e] # NoRow => timestamp[e] <= clock + Lead

\* Only accepted, projected events have outcomes, and a corrected one keeps
\* the evidence that no price applied.
OutcomesAreOfAccepted ==
    /\ \A e \in processed : timestamp[e] # NoRow
    /\ \A e \in Events : HasOutcome(e) => e \in processed
    /\ \A e \in Events : corrected[e] # NoRow => e \in unrated

\* What publishPrice checked under the Organization lock still holds when it
\* commits, because every other decision needs the lock.
CheckedStillHolds ==
    publishing # NoRow =>
        /\ publishing.at <= clock
        /\ publishing.version.from > publishing.at + Lead
        /\ publishing.version.currency = currency
        /\ Succeeds(publishing.version.from)
        /\ \A e \in Events :
              /\ priced[e] # NoRow => timestamp[e] < publishing.version.from
              /\ e \notin early /\ HasOutcome(e)
                    => timestamp[e] < publishing.version.from

IInv ==
    /\ AcceptedWithinAllowance
    /\ OutcomesAreOfAccepted
    /\ CheckedStillHolds
    /\ RatedPriceStands
    /\ OutcomeStands
    /\ PublishedCurrencyIsLocked

\* Adding a version that starts after t changes nothing at t.
LEMMA LaterVersionIsInvisible ==
    ASSUME TypeOK, NEW p \in Versions, versions' = versions \cup {p},
           NEW t \in Nat, t < p.from
    PROVE  Applicable(t)' = Applicable(t)
<1>1. versions \subseteq Versions /\ \A v \in Versions : v.from \in Nat
  BY InstantsAreNat DEF TypeOK, Versions
<1>2. \A v \in versions' : v.from <= t <=> v \in versions /\ v.from <= t
  BY <1>1
<1> QED BY <1>1, <1>2 DEF Applicable

\* A step that leaves schedule, timestamps, outcomes and currency alone keeps
\* the invariant's parts about them.
LEMMA OutcomesUntouched ==
    ASSUME TypeOK, IInv,
           UNCHANGED <<timestamp, early, versions, currency, outcomes>>
    PROVE  RatedPriceStands' /\ OutcomeStands' /\ PublishedCurrencyIsLocked'
BY DEF IInv, RatedPriceStands, OutcomeStands, PublishedCurrencyIsLocked,
       Applicable, outcomes

\* An accepted event's occurrence time is a number.
LEMMA TimestampIsNat ==
    ASSUME TypeOK, NEW e \in Events, timestamp[e] # NoRow
    PROVE  timestamp[e] \in Nat
<1>1. timestamp[e] \in Instants
  BY DEF TypeOK
<1> QED BY <1>1, InstantsAreNat

\* Every step keeps the invariant.
LEMMA InvariantStep == TypeOK /\ IInv /\ [Next]_vars => IInv'
<1> SUFFICES ASSUME TypeOK, IInv, [Next]_vars PROVE IInv'
  OBVIOUS
<1>nat. /\ clock \in Nat /\ Lead \in Nat /\ TxLife \in Nat
        /\ Instants \subseteq Nat /\ NoRow \notin Instants
  BY InstantsAreNat, PricingConstants, NoRowIsNoRow DEF TypeOK
<1>1. CASE Tick
  <2> USE <1>1, <1>nat DEF Tick, outcomes
  <2>1. RatedPriceStands' /\ OutcomeStands' /\ PublishedCurrencyIsLocked'
    BY OutcomesUntouched
  <2>2. AcceptedWithinAllowance'
    BY TimestampIsNat DEF IInv, AcceptedWithinAllowance
  <2>3. OutcomesAreOfAccepted'
    BY DEF IInv, OutcomesAreOfAccepted, HasOutcome, IsRated
  <2>4. CheckedStillHolds'
    BY DEF IInv, CheckedStillHolds, HasOutcome, IsRated, Succeeds, TypeOK,
           Publications
  <2> QED BY <2>1, <2>2, <2>3, <2>4 DEF IInv
<1>2. ASSUME NEW e \in Events, NEW t \in Instants, Accept(e, t) PROVE IInv'
  <2> USE <1>2, <1>nat DEF Accept, outcomes
  <2>0. /\ timestamp'[e] = t /\ timestamp[e] = NoRow /\ NoRow # t
        /\ \A f \in Events \ {e} : /\ timestamp'[f] = timestamp[f]
                                   /\ f \in early' <=> f \in early
        /\ ~HasOutcome(e) /\ e \notin unrated /\ e \notin processed
        /\ priced[e] = NoRow /\ corrected[e] = NoRow /\ failed[e] = NoRow
    BY NoRowIsNoRow DEF TypeOK, IInv, OutcomesAreOfAccepted, HasOutcome, IsRated
  <2>1. RatedPriceStands' /\ OutcomeStands' /\ PublishedCurrencyIsLocked'
    BY <2>0 DEF IInv, RatedPriceStands, OutcomeStands, Applicable,
                PublishedCurrencyIsLocked
  <2>2. AcceptedWithinAllowance'
    <3>1. t \in Nat /\ (e \notin early' => t <= clock + Lead)
      BY DEF TypeOK
    <3> QED BY <2>0, <3>1 DEF IInv, AcceptedWithinAllowance
  <2>3. OutcomesAreOfAccepted'
    BY <2>0 DEF IInv, OutcomesAreOfAccepted, HasOutcome, IsRated
  <2>4. CheckedStillHolds'
    BY <2>0 DEF IInv, CheckedStillHolds, HasOutcome, IsRated, Succeeds
  <2> QED BY <2>1, <2>2, <2>3, <2>4 DEF IInv
<1>3. ASSUME NEW e \in Events, Project(e) PROVE IInv'
  <2> USE <1>3, <1>nat DEF Project, outcomes
  <2>1. RatedPriceStands' /\ OutcomeStands' /\ PublishedCurrencyIsLocked'
    BY OutcomesUntouched
  <2>2. OutcomesAreOfAccepted'
    BY DEF IInv, OutcomesAreOfAccepted, HasOutcome, IsRated
  <2>3. AcceptedWithinAllowance' /\ CheckedStillHolds'
    BY DEF IInv, AcceptedWithinAllowance, CheckedStillHolds, HasOutcome,
           IsRated, Succeeds
  <2> QED BY <2>1, <2>2, <2>3 DEF IInv
<1>4. ASSUME NEW v \in Versions, PublishChecks(v) PROVE IInv'
  <2> USE <1>4, <1>nat DEF PublishChecks, outcomes
  <2>1. RatedPriceStands' /\ OutcomeStands' /\ PublishedCurrencyIsLocked'
    BY OutcomesUntouched
  <2>2. OutcomesAreOfAccepted' /\ AcceptedWithinAllowance'
    BY DEF IInv, OutcomesAreOfAccepted, HasOutcome, IsRated,
           AcceptedWithinAllowance
  <2>3. /\ v.from \in Nat /\ v.from > clock + Lead
        /\ publishing'.version = v /\ publishing'.at = clock
    BY InstantsAreNat DEF BeyondAllowance, Versions
  <2>4. \A e \in Events : HasOutcome(e) => timestamp[e] \in Nat
    BY TimestampIsNat DEF IInv, OutcomesAreOfAccepted
  <2>5. ASSUME NEW e \in Events, priced[e] # NoRow
        PROVE  timestamp[e] < v.from
    BY <2>3, <2>4, <2>5 DEF RatedConflict, HasOutcome, IsRated
  <2>6. ASSUME NEW e \in Events \ early, HasOutcome(e)
        PROVE  timestamp[e] < v.from
    <3>1. timestamp[e] # NoRow
      BY <2>6 DEF IInv, OutcomesAreOfAccepted
    <3> QED BY <2>3, <2>4, <2>6, <3>1 DEF IInv, AcceptedWithinAllowance
  <2>7. CheckedStillHolds'
    BY <2>3, <2>5, <2>6 DEF CheckedStillHolds, HasOutcome, IsRated, Succeeds
  <2> QED BY <2>1, <2>2, <2>7 DEF IInv
<1>5. CASE PublishCommits
  <2> USE <1>5, <1>nat DEF PublishCommits, outcomes
  <2> DEFINE p == publishing.version
  <2>0. p \in Versions /\ versions' = versions \cup {p}
    BY DEF TypeOK, Publications
  <2>1. \A e \in Events : HasOutcome(e) => timestamp[e] \in Nat
    BY TimestampIsNat DEF IInv, OutcomesAreOfAccepted
  <2>2. ASSUME NEW e \in Events, priced[e] # NoRow \/ (e \notin early /\ HasOutcome(e))
        PROVE  Applicable(timestamp[e])' = Applicable(timestamp[e])
    <3>1. timestamp[e] \in Nat /\ timestamp[e] < p.from
      BY <2>1, <2>2 DEF IInv, CheckedStillHolds, HasOutcome, IsRated
    <3>2. \A t \in Nat : t < p.from => Applicable(t)' = Applicable(t)
      BY <2>0, LaterVersionIsInvisible
    <3>3. timestamp' = timestamp
      OBVIOUS
    <3> QED BY <3>1, <3>2, <3>3 DEF Applicable
  <2>3. RatedPriceStands'
    BY <2>2 DEF IInv, RatedPriceStands, HasOutcome, IsRated
  <2>4. OutcomeStands'
    BY <2>2 DEF IInv, OutcomeStands, HasOutcome, IsRated
  <2>5. PublishedCurrencyIsLocked'
    BY <2>0 DEF IInv, CheckedStillHolds, PublishedCurrencyIsLocked
  <2>6. OutcomesAreOfAccepted' /\ AcceptedWithinAllowance' /\ CheckedStillHolds'
    BY DEF IInv, OutcomesAreOfAccepted, HasOutcome, IsRated,
           AcceptedWithinAllowance, CheckedStillHolds
  <2> QED BY <2>3, <2>4, <2>5, <2>6 DEF IInv
<1>6. CASE PublishAborts
  <2> USE <1>6, <1>nat DEF PublishAborts, outcomes
  <2>1. RatedPriceStands' /\ OutcomeStands' /\ PublishedCurrencyIsLocked'
    BY OutcomesUntouched
  <2>2. OutcomesAreOfAccepted' /\ AcceptedWithinAllowance' /\ CheckedStillHolds'
    BY DEF IInv, OutcomesAreOfAccepted, HasOutcome, IsRated,
           AcceptedWithinAllowance, CheckedStillHolds
  <2> QED BY <2>1, <2>2 DEF IInv
<1>7. ASSUME NEW e \in Events, Rate(e) PROVE IInv'
  <2> USE <1>7, <1>nat DEF Rate, outcomes
  <2>0. /\ publishing = NoRow /\ publishing' = NoRow /\ e \in processed
        /\ priced[e] = NoRow /\ corrected[e] = NoRow /\ failed[e] = NoRow
        /\ e \notin unrated
        /\ \A f \in Events \ {e} : /\ priced'[f] = priced[f]
                                   /\ failed'[f] = failed[f]
                                   /\ f \in unrated' <=> f \in unrated
    BY DEF OrgUnlocked, Rateable, HasOutcome, IsRated, NoApplicablePrice,
           RateAt, TypeOK
  <2>1. /\ priced'[e] # NoRow => priced'[e] \in Applicable(timestamp[e])
        /\ failed'[e] # NoRow => failed'[e] \in Applicable(timestamp[e])
        /\ e \in unrated' => Applicable(timestamp[e]) = {}
    BY <2>0 DEF NoApplicablePrice, RateAt, TypeOK
  <2>2. \A f \in Events :
           Applicable(timestamp[f])' = Applicable(timestamp[f])
    BY DEF Applicable
  <2>3. RatedPriceStands'
    BY <2>0, <2>1, <2>2 DEF IInv, RatedPriceStands
  <2>4. OutcomeStands'
    BY <2>0, <2>1, <2>2 DEF IInv, OutcomeStands
  <2>5. OutcomesAreOfAccepted'
    BY <2>0 DEF IInv, OutcomesAreOfAccepted, HasOutcome, IsRated, TypeOK
  <2>6. /\ AcceptedWithinAllowance' /\ CheckedStillHolds'
        /\ PublishedCurrencyIsLocked'
    BY <2>0 DEF IInv, AcceptedWithinAllowance, CheckedStillHolds,
                PublishedCurrencyIsLocked
  <2> QED BY <2>3, <2>4, <2>5, <2>6 DEF IInv
<1>8. ASSUME NEW start \in Instants, NEW end \in Instants, Preview(start, end)
      PROVE IInv'
  <2> USE <1>8, <1>nat DEF Preview, outcomes
  <2>1. RatedPriceStands' /\ OutcomeStands' /\ PublishedCurrencyIsLocked'
    BY OutcomesUntouched
  <2>2. OutcomesAreOfAccepted' /\ AcceptedWithinAllowance' /\ CheckedStillHolds'
    BY DEF IInv, OutcomesAreOfAccepted, HasOutcome, IsRated, Succeeds,
           AcceptedWithinAllowance, CheckedStillHolds
  <2> QED BY <2>1, <2>2 DEF IInv
<1>9. ASSUME NEW r \in reviews, NEW p \in Prices, Approve(r, p) PROVE IInv'
  <2> USE <1>9, <1>nat DEF Approve, outcomes
  <2>0. /\ publishing = NoRow /\ publishing' = NoRow
        /\ \A e \in Events :
              corrected'[e] # NoRow => e \in unrated
    BY DEF OrgUnlocked, Eligible, IInv, OutcomesAreOfAccepted
  <2>1. \A f \in Events :
           Applicable(timestamp[f])' = Applicable(timestamp[f])
    BY DEF Applicable
  <2>2. RatedPriceStands' /\ PublishedCurrencyIsLocked'
    BY <2>1 DEF IInv, RatedPriceStands, PublishedCurrencyIsLocked
  <2>3. OutcomeStands'
    BY <2>0, <2>1 DEF IInv, OutcomeStands
  <2>4. OutcomesAreOfAccepted'
    BY <2>0 DEF IInv, OutcomesAreOfAccepted, HasOutcome, IsRated
  <2>5. AcceptedWithinAllowance' /\ CheckedStillHolds'
    BY <2>0 DEF IInv, AcceptedWithinAllowance, CheckedStillHolds
  <2> QED BY <2>2, <2>3, <2>4, <2>5 DEF IInv
<1>10. ASSUME NEW c \in Currencies, ReadUnpublished(c) PROVE IInv'
  <2> USE <1>10, <1>nat DEF ReadUnpublished, outcomes
  <2>1. RatedPriceStands' /\ OutcomeStands' /\ PublishedCurrencyIsLocked'
    BY OutcomesUntouched
  <2>2. OutcomesAreOfAccepted' /\ AcceptedWithinAllowance' /\ CheckedStillHolds'
    BY DEF IInv, OutcomesAreOfAccepted, HasOutcome, IsRated, Succeeds,
           AcceptedWithinAllowance, CheckedStillHolds
  <2> QED BY <2>1, <2>2 DEF IInv
<1>11. CASE UpdateCurrency
  <2> USE <1>11, <1>nat DEF UpdateCurrency, OrgUnlocked, outcomes
  <2>1. PublishedCurrencyIsLocked'
    BY DEF IInv, PublishedCurrencyIsLocked, TriggerAllows
  <2>2. RatedPriceStands' /\ OutcomeStands'
    BY DEF IInv, RatedPriceStands, OutcomeStands, Applicable
  <2>3. OutcomesAreOfAccepted' /\ AcceptedWithinAllowance' /\ CheckedStillHolds'
    BY DEF IInv, OutcomesAreOfAccepted, HasOutcome, IsRated,
           AcceptedWithinAllowance, CheckedStillHolds
  <2> QED BY <2>1, <2>2, <2>3 DEF IInv
<1>12. CASE UNCHANGED vars
  <2> USE <1>12 DEF vars, outcomes
  <2>1. RatedPriceStands' /\ OutcomeStands' /\ PublishedCurrencyIsLocked'
    BY OutcomesUntouched
  <2>2. OutcomesAreOfAccepted' /\ AcceptedWithinAllowance' /\ CheckedStillHolds'
    BY DEF IInv, OutcomesAreOfAccepted, HasOutcome, IsRated, Succeeds,
           AcceptedWithinAllowance, CheckedStillHolds
  <2> QED BY <2>1, <2>2 DEF IInv
<1> QED
  BY <1>1, <1>2, <1>3, <1>4, <1>5, <1>6, <1>7, <1>8, <1>9, <1>10, <1>11,
     <1>12 DEF Next

\* In every reachable state the invariant holds.
THEOREM InvariantHolds == Spec => []IInv
<1>1. Init => IInv
  <2> SUFFICES ASSUME Init PROVE IInv
    OBVIOUS
  <2>1. \A e \in Events : timestamp[e] = NoRow /\ ~HasOutcome(e)
    BY DEF Init, HasOutcome, IsRated
  <2> QED
    BY <2>1 DEF Init, IInv, AcceptedWithinAllowance, OutcomesAreOfAccepted,
                CheckedStillHolds, RatedPriceStands, OutcomeStands,
                PublishedCurrencyIsLocked
<1> QED
  BY <1>1, InvariantStep, TypeCorrect, PTL DEF Spec

\* A price used in a rating stays the one the occurrence time selects: no
\* publication, not even after a fast clock's acceptance, gets under it.
THEOREM PricesStand == Spec => []RatedPriceStands
<1>1. IInv => RatedPriceStands
  BY DEF IInv
<1> QED BY <1>1, InvariantHolds, PTL

\* Within the allowance the moment of rating never matters to its outcome.
THEOREM OutcomesStand == Spec => []OutcomeStands
<1>1. IInv => OutcomeStands
  BY DEF IInv
<1> QED BY <1>1, InvariantHolds, PTL

\* A currency change never overtakes a publication: the two transactions meet
\* at the Organization row.
THEOREM CurrencyLocked == Spec => []PublishedCurrencyIsLocked
<1>1. IInv => PublishedCurrencyIsLocked
  BY DEF IInv
<1> QED BY <1>1, InvariantHolds, PTL

\* The price of an instant that has passed never changes, because a checked
\* publication outlives its check by less than the allowance.
THEOREM PastPricesStand == Spec => PastPriceStands
<1> DEFINE Stands ==
      \A t \in 0..clock :
         \A v \in Versions : (v \in Applicable(t))' <=> v \in Applicable(t)
<1>1. TypeOK /\ IInv /\ [Next]_vars => [Stands]_vars
  <2> SUFFICES ASSUME TypeOK, IInv, Next,
                      NEW t \in 0..clock, NEW v \in Versions
               PROVE  (v \in Applicable(t))' <=> v \in Applicable(t)
    OBVIOUS
  <2>1. CASE PublishCommits
    <3> DEFINE p == publishing.version
    <3>1. p \in Versions /\ versions' = versions \cup {p} /\ p.from \in Nat
      BY <2>1, InstantsAreNat DEF PublishCommits, TypeOK, Publications, Versions
    <3>2. /\ publishing.at \in Nat /\ clock <= publishing.at + TxLife
          /\ p.from > publishing.at + Lead
      BY <2>1 DEF PublishCommits, TypeOK, Publications, IInv, CheckedStillHolds
    <3>3. t \in Nat /\ t < p.from
      BY <3>1, <3>2, PricingConstants DEF TypeOK
    <3> QED BY <3>1, <3>3, LaterVersionIsInvisible
  <2>2. CASE versions' = versions
    BY <2>2 DEF Applicable
  <2>3. PublishCommits \/ versions' = versions
    BY DEF Next, Tick, Accept, Project, PublishChecks, PublishAborts, Rate,
           Preview, Approve, ReadUnpublished, UpdateCurrency
  <2> QED BY <2>1, <2>2, <2>3
<1> QED
  BY <1>1, TypeCorrect, InvariantHolds, PTL DEF Spec, PastPriceStands

\* A correction rates exactly what an owner reviewed, since approval computes
\* the eligible events anew under the lock and compares.
THEOREM CorrectionsReviewed == Spec => CorrectsWhatWasReviewed
<1> DEFINE Reviewed ==
      corrected' # corrected =>
          \E r \in reviews, p \in Prices :
             /\ r.events = {e \in Events : corrected'[e] # corrected[e]}
             /\ \A e \in r.events :
                   corrected'[e] = [start |-> r.start, end |-> r.end,
                                    price |-> p, currency |-> r.currency]
<1>1. TypeOK /\ [Next]_vars => [Reviewed]_vars
  <2> SUFFICES ASSUME TypeOK, Next, corrected' # corrected PROVE Reviewed
    OBVIOUS
  <2>1. PICK r \in reviews, p \in Prices : Approve(r, p)
    BY DEF Next, Tick, Accept, Project, PublishChecks, PublishCommits,
           PublishAborts, Rate, Preview, ReadUnpublished, UpdateCurrency,
           outcomes
  <2> DEFINE row == [start |-> r.start, end |-> r.end, price |-> p,
                     currency |-> r.currency]
  <2>2. r.events = Eligible(r.start, r.end)
    BY <2>1 DEF Approve, StillValid
  <2>3. \A e \in Events :
           corrected'[e] = IF e \in r.events THEN row ELSE corrected[e]
    BY <2>1, <2>2 DEF Approve
  <2>4. row # NoRow
    <3>1. row \in Corrections
      BY DEF TypeOK, Reviews, Corrections
    <3> QED BY <3>1, NoRowIsNoRow
  <2>5. \A e \in r.events : e \in Events /\ corrected[e] = NoRow
    BY <2>2 DEF Eligible, IsRated, TypeOK
  <2>6. r.events = {e \in Events : corrected'[e] # corrected[e]}
    BY <2>3, <2>4, <2>5
  <2> QED BY <2>3, <2>5, <2>6
<1> QED
  BY <1>1, TypeCorrect, PTL DEF Spec, CorrectsWhatWasReviewed

=============================================================================
