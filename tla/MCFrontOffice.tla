---------------------------- MODULE MCFrontOffice ----------------------------
(***************************************************************************)
(* The components around the ledger, each on a small instance.  They share   *)
(* no state that the others write (what one changes under another is an      *)
(* action of that one's environment), so a behaviour follows one component,  *)
(* named by focus: interleaving them would add no behaviour to any.  The     *)
(* variables of the one that is followed are v1, v2, ... in the order of its *)
(* declaration, those of Acceptance their own.                               *)
(***************************************************************************)
EXTENDS Acceptance, Naturals, FiniteSets, TLC

CONSTANTS
    x, y, z, w, n1, n2,                    \* values that stand for each other
    k1, c1, c2, bad,                       \* Acceptance
    Metered, MaxUsage,                     \* LegacyAggregation
    Subscriptions, Invoices, Owners, Jobs, None,   \* LegacyBilling
    Endpoints, MaxAttempts,                \* LegacyWebhook
    Users, Names, Orgs, Invites, Actors, Gone,   \* Organizations
    Secrets, NoSecret, Tabs,               \* EndpointSecrets, Console
    Places, BatchSize, PageSize,           \* LedgerExport
    MaxUnitMicros, MaxQuantity, MaxMinorUnits,   \* Showcase
    Quantities, Initial, Garbage, Nothing, MaxRecoveries, MaxRetries,
    MaxRows,                               \* Console
    MaxReasons, MaxKeys,                   \* Pages
    BasePrice, IncludedUnits, PricePerUnit, \* Figures
    Sessions                               \* EvidenceLocks

VARIABLES focus, v1, v2, v3, v4, v5, v6, v7, v8, v9, v10, v11, v12, v13, v14, v15

five  == <<v1, v2, v3, v4, v5>>
two   == <<v6, v7>>
seven == <<v9, v10, v11, v12, v13, v14, v15>>
frontVars == <<focus, vars, five, two, v8, seven>>

Aggregation == INSTANCE LegacyAggregation WITH
    Subscriptions <- Metered,
    usage <- v1, late <- v2, adding <- v3, job <- v4, window <- v5,
    read <- v6, total <- v7, dropped <- v8
Invoicing == INSTANCE LegacyBilling WITH
    status <- v1, periodEnd <- v2, invoice <- v3, request <- v4,
    run <- v5, jobPeak <- v6, activationPeak <- v7
Hooks == INSTANCE LegacyWebhook WITH
    event <- v1, adding <- v2, active <- v3, row <- v4, job <- v5,
    seen <- v6, broken <- v7
Members == INSTANCE Organizations WITH
    registered <- v1, org <- v2, member <- v3, invite <- v4,
    request <- v5
Rotation == INSTANCE EndpointSecrets WITH
    row <- v1, overlap <- v2, rotation <- v3, flight <- v4,
    replies <- v5, receiver <- v6, issued <- v7
Export == INSTANCE LedgerExport WITH
    ledger <- v1, step <- v2, snapshot <- v3, collected <- v4,
    rows <- v5, page <- v6, cursor <- v7
Demo == INSTANCE Showcase WITH
    MaxAttempts <- MaxRecoveries, Baseline <- <<6000, 4000>>,
    phase <- v1, attempt <- v2, chapter <- v3, dialog <- v4, typed <- v5,
    inputError <- v6, clock <- v7, event <- v8, retries <- v9,
    processed <- v10, rating <- v11, ratingError <- v12,
    finalization <- v13, finalizationError <- v14, delivery <- v15
Dashboard == INSTANCE Console WITH
    form <- v1, dialog <- v2, request <- v3, rows <- v4, revealed <- v5,
    lost <- v6, overlapped <- v7
Site == INSTANCE Pages WITH
    page <- v1, row <- v2, shown <- v3, stale <- v4, press <- v5, form <- v6,
    drawn <- v7, replays <- v8
Costs == INSTANCE Figures WITH
    Metrics <- Names, status <- v1, usage <- v2, priced <- v3, fallen <- v4,
    job <- v5, invoice <- v6, view <- v7, highest <- v8
Locks == INSTANCE EvidenceLocks WITH tx <- v1, moved <- v2

-----------------------------------------------------------------------------
(* What the constants are, for TLC and for the proofs.                      *)

ASSUME BoundsOK == MaxUsage \in Nat                                \* LegacyAggregation, Figures
ASSUME AttemptsOK == MaxAttempts \in Nat \ {0}                     \* LegacyWebhook
ASSUME NoSecretOK == NoSecret \notin Secrets                       \* EndpointSecrets
ASSUME RowsOK == MaxRows \in Nat                                   \* Console
ASSUME DrawsOK == MaxReasons \in Nat /\ MaxKeys \in Nat            \* Pages
ASSUME PagingOK == BatchSize \in Nat /\ PageSize \in Nat           \* LedgerExport
ASSUME NamesOK == IsFiniteSet(Names)                               \* Figures
ASSUME TermsOK == BasePrice \in Nat /\ IncludedUnits \in Nat /\ PricePerUnit \in Nat
ASSUME NotRatedOK == Nothing \notin Nat                            \* Showcase

\* LegacyBilling: people, subscriptions and invoices are finitely many.
ASSUME FiniteOK ==
    IsFiniteSet(Subscriptions) /\ IsFiniteSet(Invoices) /\ IsFiniteSet(Owners) /\ IsFiniteSet(Jobs)

\* Showcase: the quantities a visitor can enter are whole numbers.
ASSUME QuantitiesOK ==
    /\ Quantities \subseteq Nat /\ Initial \in Nat
    /\ MaxRecoveries \in Nat /\ MaxRetries \in Nat

\* LedgerExport: places are numbered.
ASSUME PlacesOK == Export!End \in Nat \ {0} /\ Places = 1..(Export!End - 1)

\* What is absent or deleted is no row (Organizations, LegacyBilling, Figures).
ASSUME NullsOK ==
    /\ None # Gone /\ None \notin Members!Roles
    /\ {None, Gone} \cap (Members!OrgRows \cup Members!InviteRows) = {}
ASSUME NoInvoiceOK == {None, Gone} \cap Invoicing!InvoiceRows = {}
ASSUME NothingOK ==
    /\ Nothing \notin [amount : Nat, floor : Nat]
    /\ \A listed \in SUBSET Names : Nothing \notin Costs!Views(listed)

-----------------------------------------------------------------------------

MCCalls ==
    {[key |-> k1, content |-> c1, ledger |-> TRUE], [key |-> k1, content |-> c2, ledger |-> TRUE],
     [key |-> k1, content |-> c1, ledger |-> FALSE], [key |-> k1, content |-> bad, ledger |-> TRUE],
     [key |-> NoKey, content |-> c1, ledger |-> FALSE], [key |-> NoKey, content |-> c1, ledger |-> TRUE]}

\* Requests, owners, users, tabs and endpoints are x and y; jobs and actors z
\* and w; names n1 and n2.
Symmetry == Permutations({x, y}) \cup Permutations({z, w}) \cup Permutations({n1, n2})

\* Variables that are not in use.
NoThree == v3 = None /\ v4 = None /\ v5 = None
NoTwo == v6 = None /\ v7 = None
NoSeven ==
    /\ v9 = None /\ v10 = None /\ v11 = None /\ v12 = None
    /\ v13 = None /\ v14 = None /\ v15 = None
NoEight == v8 = None /\ NoSeven

Resting == subscribed /\ known = {} /\ window = "open"

\* Tabs with different forms have nothing in common but the bound on rows.
SameForm == \A t, u \in Tabs : v1[t] = v1[u]

FrontInit ==
    /\ Init
    /\ \/ /\ focus = "acceptance"
          /\ v1 = None /\ v2 = None /\ NoThree /\ NoTwo /\ NoEight
       \/ focus = "aggregation" /\ Resting /\ Aggregation!Init /\ NoSeven
       \/ focus = "invoicing" /\ Resting /\ Invoicing!Init /\ NoEight
       \/ focus = "hooks" /\ Resting /\ Hooks!Init /\ NoEight
       \/ focus = "members" /\ Resting /\ Members!Init /\ NoTwo /\ NoEight
       \/ focus = "rotation" /\ Resting /\ Rotation!Init /\ NoEight
       \/ focus = "export" /\ Resting /\ Export!Init /\ NoEight
       \/ focus = "demo" /\ Resting /\ Demo!Init
       \/ focus = "dashboard" /\ Resting /\ Dashboard!Init /\ SameForm /\ NoEight
       \/ focus = "pages" /\ Resting /\ Site!Init /\ NoSeven
       \/ focus = "figures" /\ Resting /\ Costs!Init /\ NoSeven
       \/ focus = "locks" /\ Resting /\ Locks!Init /\ NoThree /\ NoTwo /\ NoEight

FrontNext ==
    \/ /\ focus = "acceptance" /\ Next
       /\ UNCHANGED <<focus, five, two, v8, seven>>
    \/ focus = "aggregation" /\ Aggregation!Next /\ UNCHANGED <<focus, vars, seven>>
    \/ focus = "invoicing" /\ Invoicing!Next /\ UNCHANGED <<focus, vars, v8, seven>>
    \/ focus = "hooks" /\ Hooks!Next /\ UNCHANGED <<focus, vars, v8, seven>>
    \/ focus = "members" /\ Members!Next /\ UNCHANGED <<focus, vars, two, v8, seven>>
    \/ focus = "rotation" /\ Rotation!Next /\ UNCHANGED <<focus, vars, v8, seven>>
    \/ focus = "export" /\ Export!Next /\ UNCHANGED <<focus, vars, v8, seven>>
    \/ focus = "demo" /\ Demo!Next /\ UNCHANGED <<focus, vars>>
    \/ focus = "dashboard" /\ Dashboard!Next /\ UNCHANGED <<focus, vars, v8, seven>>
    \/ focus = "pages" /\ Site!Next /\ UNCHANGED <<focus, vars, seven>>
    \/ focus = "figures" /\ Costs!Next /\ UNCHANGED <<focus, vars, seven>>
    \/ focus = "locks" /\ Locks!Next /\ UNCHANGED <<focus, vars, v3, v4, v5, two, v8, seven>>

\* Bounds: the last subscription is one that activations add while nothing is
\* billed, as the races between activations are about nothing else; and runs
\* that overlap are of one subscription, as others have nothing in common.
Bounded ==
    focus = "invoicing" =>
        /\ (\A s \in Subscriptions : v1[s] # "absent") =>
             (\A i \in Invoices : v3[i] = None) /\ (\A j \in Jobs : v5[j] = Invoicing!Idle)
        /\ \A j, k \in Jobs :
             v5[j] # Invoicing!Idle /\ v5[k] # Invoicing!Idle => v5[j].sub = v5[k].sub

FrontSpec == FrontInit /\ [][FrontNext]_frontVars

-----------------------------------------------------------------------------
(* RetryStands and ImplementsContract are Acceptance's own.  The others are  *)
(* those of the component that is followed.                                  *)

\* Every variable has its type.
TypesOK ==
    /\ TypeOK
    /\ focus = "aggregation" => Aggregation!TypeOK
    /\ focus = "invoicing" => Invoicing!TypeOK
    /\ focus = "hooks" => Hooks!TypeOK
    /\ focus = "members" => Members!TypeOK
    /\ focus = "rotation" => Rotation!TypeOK
    /\ focus = "export" => Export!TypeOK
    /\ focus = "demo" => Demo!TypeOK
    /\ focus = "dashboard" => Dashboard!TypeOK
    /\ focus = "pages" => Site!TypeOK
    /\ focus = "figures" => Costs!TypeOK
    /\ focus = "locks" => Locks!TypeOK

\* Legacy totals lag behind stored usage only for a reason the code has.
LagIsExplained == focus = "aggregation" => Aggregation!LagIsExplained

\* A FAILED invoice never leaves its subscription ACTIVE, and only overlapping
\* runs or activations duplicate invoices or subscriptions.
LegacyInvoicesStand ==
    focus = "invoicing" => Invoicing!FailedInvoiceSuspends /\ Invoicing!DuplicatesNeedOverlap

\* Attempts at an endpoint have no gap, none follows a success, and their chain
\* ends only by success, its limit, a fault or a switch.
ChainUnbroken == focus = "hooks" => Hooks!AttemptsInOrder /\ Hooks!ChainUnbroken

\* Members but the creator hold an accepted invitation for their role.
MembersWereInvited == focus = "members" => Members!MembersWereInvited

\* The endpoint row holds the last two secrets handed out, in order.
RotationsChain == focus = "rotation" => Rotation!RotationsChain

\* The pages of an export are the month at the instant the export began.
PagesAreTheSnapshot == focus = "export" => Export!PagesAreTheSnapshot

\* The version a visitor approved is the whole month at half-up amounts.
VersionIsTheMonth == focus = "demo" => Demo!VersionIsTheMonth

\* A secret is shown in its dialog, or its answer is on its way or lost.
SecretsReachTheirTab == focus = "dashboard" => Dashboard!SecretsReachTheirTab

\* A name that is looked for first repeats only by overlapping actions, that of
\* an Organization only after a rename.
NamesRepeatOnlyByOverlap ==
    /\ focus = "dashboard" => Dashboard!NamesRepeatOnlyByOverlap
    /\ focus = "members" => Members!NamesDifferUnlessRenamed

\* From however old a page, a press does what its button said and undoes nothing
\* that was settled, and a reason sent again begins no second replay.
PressesAreSafe == [][focus = "pages" => \A t \in Tabs : Site!PressIsSafe(t)]_frontVars

\* Nobody is billed less than an estimate seen before, and figures add up.
FiguresAgree == focus = "figures" => Costs!FiguresAgree

\* What a finalization reads stands still until it commits, and the deadlocks
\* its table locks bring about are those with the five transactions of the
\* ledger that write against their order.
ApprovalsHoldTheLedger ==
    focus = "locks" => Locks!EvidenceStandsStill /\ Locks!DeadlocksNeedAnApproval
=============================================================================
