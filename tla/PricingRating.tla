--------------------------- MODULE PricingRating ---------------------------
(***************************************************************************)
(* The price of usage: publication of a metric's price schedule            *)
(* (actions/pricing/firstPrice.ts), the rating of an accepted event at its *)
(* occurrence time (worker/processors/rateCustomerEvent.ts), the reviewed  *)
(* correction of events no price applies to (lib/pricing-gap-*.ts) and the  *)
(* Organization's currency (actions/organization/setCurrency.ts).           *)
(*                                                                          *)
(* One Organization, one metric, one Customer.  Instants are numbers; the   *)
(* clock is the publishing process's.  The Organization row lock            *)
(* (FOR NO KEY UPDATE) is held from PublishChecks to its commit, and every  *)
(* other transaction that needs it is one step taken while it is free.      *)
(***************************************************************************)
EXTENDS Naturals, FiniteSets

CONSTANTS
    Events,      \* usage events of the metric and the Customer
    Currencies,
    Prices,      \* unit prices
    Overflow,    \* <<price, event>>: the extended amount exceeds its limit
    Lead,        \* the five-minute future-occurrence allowance
    Skew,        \* how far an accepting clock may run ahead of the publisher's
    TxLife,      \* transaction timeout
    ReviewLife,  \* how long a gap review may be approved
    NoRow,
    MaxClock, MaxVersions, MaxReviews   \* bounds

ASSUME PricingConstants ==
    /\ Lead \in Nat /\ Skew \in Nat /\ TxLife \in Nat /\ ReviewLife \in Nat
    /\ MaxClock \in Nat /\ MaxVersions \in Nat /\ MaxReviews \in Nat
    /\ TxLife <= Lead
    /\ Overflow \subseteq Prices \X Events

Instants == 0..(MaxClock + Lead + Skew)
Versions == [from : Instants, price : Prices, currency : Currencies]
Reviews  == [start : Instants, end : Instants, at : Nat,
             currency : Currencies, events : SUBSET Events]
Corrections ==
    [start : Instants, end : Instants, price : Prices, currency : Currencies]

ASSUME NoRowIsNoRow ==
    NoRow \notin Versions \cup Corrections \cup Currencies \cup Instants
                 \cup [version : Versions, at : Nat]

VARIABLES
    clock,
    timestamp,   \* UsageEvent.timestamp, NoRow before acceptance
    early,       \* events accepted by a clock that ran ahead
    processed,   \* events the ledger has projected
    versions,    \* PriceVersion rows
    currency,    \* Organization.currency
    priced,      \* RatedEvent rows with a priceVersionId
    corrected,   \* RatedEvent rows with a correctionId
    failed,      \* RatingFailure rows, with their price version
    unrated,     \* UnratedEvent rows
    reviews,     \* signed gap previews shown to an owner
    publishing,  \* the checked, uncommitted publication that holds the lock
    changing     \* a currency change between its read and its update

outcomes == <<priced, corrected, failed, unrated>>
vars == <<clock, timestamp, early, processed, versions, currency, outcomes,
          reviews, publishing, changing>>

Publications == [version : Versions, at : Nat]

TypeOK ==
    /\ clock \in 0..MaxClock
    /\ timestamp \in [Events -> Instants \cup {NoRow}]
    /\ early \in SUBSET Events
    /\ processed \in SUBSET Events
    /\ versions \in SUBSET Versions
    /\ currency \in Currencies \cup {NoRow}
    /\ priced \in [Events -> Versions \cup {NoRow}]
    /\ corrected \in [Events -> Corrections \cup {NoRow}]
    /\ failed \in [Events -> Versions \cup {NoRow}]
    /\ unrated \in SUBSET Events
    /\ reviews \in SUBSET Reviews
    /\ publishing \in Publications \cup {NoRow}
    /\ changing \in Currencies \cup {NoRow}

Init ==
    /\ clock = 0
    /\ timestamp = [e \in Events |-> NoRow]
    /\ early = {}
    /\ processed = {}
    /\ versions = {}
    /\ currency = NoRow
    /\ priced = [e \in Events |-> NoRow]
    /\ corrected = [e \in Events |-> NoRow]
    /\ failed = [e \in Events |-> NoRow]
    /\ unrated = {}
    /\ reviews = {}
    /\ publishing = NoRow
    /\ changing = NoRow

OrgUnlocked == publishing = NoRow

Tick ==
    /\ clock < MaxClock
    /\ clock' = clock + 1
    /\ UNCHANGED <<timestamp, early, processed, versions, currency, outcomes,
                   reviews, publishing, changing>>

-----------------------------------------------------------------------------
(* Acceptance and projection, as far as prices see them.                   *)

\* receivedAt bounds the timestamp; the insert may come later than the check.
WithinAllowance(t) == t <= clock + Lead + Skew

Accept(e, t) ==
    /\ timestamp[e] = NoRow
    /\ WithinAllowance(t)
    /\ timestamp' = [timestamp EXCEPT ![e] = t]
    /\ early' = IF t > clock + Lead THEN early \cup {e} ELSE early
    /\ UNCHANGED <<clock, processed, versions, currency, outcomes, reviews,
                   publishing, changing>>

Project(e) ==
    /\ timestamp[e] # NoRow
    /\ e \notin processed
    /\ processed' = processed \cup {e}
    /\ UNCHANGED <<clock, timestamp, early, versions, currency, outcomes,
                   reviews, publishing, changing>>

-----------------------------------------------------------------------------
(* Publication of a price.                                                 *)

\* The published versions in force at t: at most one.
Applicable(t) ==
    {v \in versions : /\ v.from <= t
                      /\ \A u \in versions : u.from <= t => u.from <= v.from}

\* "first" wants an empty schedule, "scheduled" a later instant than the last.
Succeeds(from) == \A v \in versions : v.from < from

\* Mutant: a future instant is enough.
BeyondNow(from) == from > clock

BeyondAllowance(from) == from > clock + Lead

\* Mutant: an event exactly at the new instant is overlooked.
RatedConflictAfter(from) ==
    \E e \in Events : priced[e] # NoRow /\ timestamp[e] > from

RatedConflict(from) ==
    \E e \in Events : priced[e] # NoRow /\ timestamp[e] >= from

PublishChecks(v) ==
    /\ OrgUnlocked
    /\ Cardinality(versions) < MaxVersions
    /\ v.currency = currency
    /\ Succeeds(v.from)
    /\ BeyondAllowance(v.from)
    /\ ~RatedConflict(v.from)
    /\ publishing' = [version |-> v, at |-> clock]
    /\ UNCHANGED <<clock, timestamp, early, processed, versions, currency,
                   outcomes, reviews, changing>>

\* Mutant: a checked publication may commit at any later time.
PublishCommitsLate ==
    /\ publishing # NoRow
    /\ versions' = versions \cup {publishing.version}
    /\ publishing' = NoRow
    /\ UNCHANGED <<clock, timestamp, early, processed, currency, outcomes,
                   reviews, changing>>

PublishCommits ==
    /\ publishing # NoRow
    /\ clock <= publishing.at + TxLife
    /\ versions' = versions \cup {publishing.version}
    /\ publishing' = NoRow
    /\ UNCHANGED <<clock, timestamp, early, processed, currency, outcomes,
                   reviews, changing>>

PublishAborts ==
    /\ publishing # NoRow
    /\ publishing' = NoRow
    /\ UNCHANGED <<clock, timestamp, early, processed, versions, currency,
                   outcomes, reviews, changing>>

-----------------------------------------------------------------------------
(* Rating.                                                                 *)

IsRated(e) == priced[e] # NoRow \/ corrected[e] # NoRow

HasOutcome(e) == IsRated(e) \/ failed[e] # NoRow \/ e \in unrated

Rateable(e) == e \in processed /\ ~HasOutcome(e)

RateAt(e, v) ==
    /\ v \in Applicable(timestamp[e])
    /\ \/ /\ <<v.price, e>> \in Overflow
          /\ failed' = [failed EXCEPT ![e] = v]
          /\ UNCHANGED priced
       \/ /\ <<v.price, e>> \notin Overflow
          /\ priced' = [priced EXCEPT ![e] = v]
          /\ UNCHANGED failed
    /\ UNCHANGED unrated

NoApplicablePrice(e) ==
    /\ Applicable(timestamp[e]) = {}
    /\ unrated' = unrated \cup {e}
    /\ UNCHANGED <<priced, failed>>

Rate(e) ==
    /\ OrgUnlocked
    /\ Rateable(e)
    /\ NoApplicablePrice(e) \/ \E v \in versions : RateAt(e, v)
    /\ UNCHANGED <<clock, timestamp, early, processed, versions, currency,
                   corrected, reviews, publishing, changing>>

-----------------------------------------------------------------------------
(* Correction of a pricing gap.                                            *)

PublishedBefore(end) == \E v \in versions : v.from < end

Eligible(start, end) ==
    {e \in unrated : ~IsRated(e) /\ timestamp[e] \in start..(end - 1)}

\* The preview reads committed rows without the lock; approval repeats it.
Preview(start, end) ==
    /\ Cardinality(reviews) < MaxReviews
    /\ start < end
    /\ currency # NoRow
    /\ ~PublishedBefore(end)
    /\ Eligible(start, end) # {}
    /\ reviews' = reviews \cup
         {[start |-> start, end |-> end, at |-> clock, currency |-> currency,
           events |-> Eligible(start, end)]}
    /\ UNCHANGED <<clock, timestamp, early, processed, versions, currency,
                   outcomes, publishing, changing>>

\* Mutant: the reviewed ids are not compared with the current ones.
ScopeStillValid(r) ==
    /\ currency = r.currency
    /\ ~PublishedBefore(r.end)
    /\ clock <= r.at + ReviewLife

StillValid(r) ==
    /\ currency = r.currency
    /\ ~PublishedBefore(r.end)
    /\ Eligible(r.start, r.end) = r.events
    /\ clock <= r.at + ReviewLife

Approve(r, p) ==
    /\ OrgUnlocked
    /\ StillValid(r)
    /\ \A e \in Eligible(r.start, r.end) : <<p, e>> \notin Overflow
    /\ corrected' =
         [e \in Events |->
            IF e \in Eligible(r.start, r.end)
              THEN [start |-> r.start, end |-> r.end, price |-> p,
                    currency |-> r.currency]
              ELSE corrected[e]]
    /\ UNCHANGED <<clock, timestamp, early, processed, versions, currency,
                   priced, failed, unrated, reviews, publishing, changing>>

-----------------------------------------------------------------------------
(* The Organization's currency.                                            *)

ReadUnpublished(c) ==
    /\ changing = NoRow
    /\ versions = {}
    /\ changing' = c
    /\ UNCHANGED <<clock, timestamp, early, processed, versions, currency,
                   outcomes, reviews, publishing>>

\* Mutant: only the read before the update looks for a published price.
AlwaysAllowed(c) == c \in Currencies

\* The trigger on Organization runs once the update holds the row.
TriggerAllows(c) == c = currency \/ versions = {}

UpdateCurrency ==
    /\ changing # NoRow
    /\ OrgUnlocked
    /\ currency' = IF TriggerAllows(changing) THEN changing ELSE currency
    /\ changing' = NoRow
    /\ UNCHANGED <<clock, timestamp, early, processed, versions, outcomes,
                   reviews, publishing>>

-----------------------------------------------------------------------------

Next ==
    \/ Tick
    \/ \E e \in Events, t \in Instants : Accept(e, t)
    \/ \E e \in Events : Project(e)
    \/ \E v \in Versions : PublishChecks(v)
    \/ PublishCommits
    \/ PublishAborts
    \/ \E e \in Events : Rate(e)
    \/ \E start, end \in Instants : Preview(start, end)
    \/ \E r \in reviews, p \in Prices : Approve(r, p)
    \/ \E c \in Currencies : ReadUnpublished(c)
    \/ UpdateCurrency

Spec == Init /\ [][Next]_vars

-----------------------------------------------------------------------------
(* Properties                                                              *)

\* A price that was used to rate an event is and stays the one its
\* occurrence time selects, whatever is published later and even when the
\* accepting clock ran ahead (the ratedConflict check of publishPrice).
RatedPriceStands ==
    \A e \in Events : priced[e] # NoRow => priced[e] \in Applicable(timestamp[e])

\* For an event accepted within the allowance of the publisher's clock, the
\* moment it is rated never matters: an event found without a price, or
\* corrected, never gets one, and an overflow stays the overflow of the price
\* in force (the five-minute rule of publishPrice and the preview's recheck).
OutcomeStands ==
    \A e \in Events \ early :
        /\ e \in unrated \/ corrected[e] # NoRow => Applicable(timestamp[e]) = {}
        /\ failed[e] # NoRow => failed[e] \in Applicable(timestamp[e])

\* Every published price is in the Organization's currency: a currency change
\* that read an empty schedule cannot overtake a publication.
PublishedCurrencyIsLocked == \A v \in versions : v.currency = currency

\* The price in force at an instant that has passed never changes.
PastPriceStands ==
    [][\A t \in 0..clock :
          \A v \in Versions : (v \in Applicable(t))' <=> v \in Applicable(t)]_vars

\* A correction rates exactly the events an owner reviewed, in the reviewed
\* currency and at one price, though the gap may have changed meanwhile.
CorrectsWhatWasReviewed ==
    [][corrected' # corrected =>
          \E r \in reviews, p \in Prices :
             /\ r.events = {e \in Events : corrected'[e] # corrected[e]}
             /\ \A e \in r.events :
                   corrected'[e] = [start |-> r.start, end |-> r.end,
                                    price |-> p, currency |-> r.currency]]_vars

\* All ratings of a metric are in one currency.
OneCurrency ==
    \A e, f \in Events :
        /\ priced[e] # NoRow /\ priced[f] # NoRow
              => priced[e].currency = priced[f].currency
        /\ priced[e] # NoRow /\ corrected[f] # NoRow
              => priced[e].currency = corrected[f].currency
        /\ corrected[e] # NoRow /\ corrected[f] # NoRow
              => corrected[e].currency = corrected[f].currency

=============================================================================
