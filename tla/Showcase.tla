------------------------------ MODULE Showcase ------------------------------
(***************************************************************************)
(* The public showcase: one run in one tab (showcase/app/run.ts), the       *)
(* provider that dispatches to it (session.tsx) and the controls that the   *)
(* demo page shows (demo/*.tsx).  All prices are in September's version and *)
(* all usage in September, as the fixtures have it; an event is its         *)
(* quantity, an amount is in thousandths of a rupee, as it is persisted.    *)
(***************************************************************************)
EXTENDS Money

CONSTANTS
    Baseline,      \* quantities of the two synthetic events
    Quantities,    \* what a visitor types that is valid
    Initial,       \* the quantity a fresh run shows, 1250
    Garbage,       \* anything else a visitor may type
    Nothing,
    MaxAttempts, MaxRetries   \* bounds of the model

VARIABLES
    phase, attempt,            \* "loading", "ready" or "error"
    chapter, dialog,           \* what the page shows
    typed, inputError,         \* the quantity field
    clock,                     \* "initial" or "afterClose"
    event, retries,            \* the accepted event
    processed, rating, ratingError,
    finalization, finalizationError,
    delivery                   \* the attempt's version, Nothing before it

screen   == <<chapter, dialog>>
evidence == <<clock, event, retries, processed, rating, ratingError,
              finalization, finalizationError, delivery>>
vars     == <<phase, attempt, screen, typed, inputError, evidence>>

UnitMicros == 2500
Digits == 2
Amount(quantity) == Persisted(Minor(UnitMicros, quantity, Digits), Digits)

Source == [quantity : Quantities \cup {Initial} \cup Range(Baseline),
           amount : Nat \cup {Nothing}]
Frozen == [sources : Seq(Source), total : Nat]

TypeOK ==
    /\ phase \in {"loading", "ready", "error"}
    /\ attempt \in 0..MaxAttempts
    /\ chapter \in 0..3
    /\ dialog \in {"none", "reset", "approve"}
    /\ typed \in Quantities \cup {Initial, Garbage}
    /\ clock \in {"initial", "afterClose"}
    /\ event \in Quantities \cup {Initial, Nothing}
    /\ retries \in 0..MaxRetries
    /\ rating \in Nat \cup {Nothing}
    /\ {inputError, processed, ratingError, finalizationError} \subseteq BOOLEAN
    /\ {finalization, delivery} \subseteq Frozen \cup {Nothing}

\* freshRun, but for the phase and the attempt.
Fresh ==
    /\ chapter' = 0
    /\ typed' = Initial
    /\ inputError' = FALSE
    /\ clock' = "initial"
    /\ event' = Nothing
    /\ retries' = 0
    /\ processed' = FALSE
    /\ rating' = Nothing
    /\ ratingError' = FALSE
    /\ finalization' = Nothing
    /\ finalizationError' = FALSE
    /\ delivery' = Nothing

Init ==
    /\ phase = "loading" /\ attempt = 0
    /\ chapter = 0 /\ dialog = "none"
    /\ typed = Initial /\ inputError = FALSE
    /\ clock = "initial"
    /\ event = Nothing /\ retries = 0
    /\ processed = FALSE /\ rating = Nothing /\ ratingError = FALSE
    /\ finalization = Nothing /\ finalizationError = FALSE
    /\ delivery = Nothing

-----------------------------------------------------------------------------
(* monthlyDraft: derived again at every render and every dispatch.          *)

BaselineSources ==
    [i \in 1..Len(Baseline) |-> [quantity |-> Baseline[i], amount |-> Amount(Baseline[i])]]

Sources ==
    BaselineSources
      \o IF event = Nothing THEN <<>> ELSE <<[quantity |-> event, amount |-> rating]>>

\* The filter on ratings: only the visitor's event may wait for one.
Rated == IF event # Nothing /\ rating = Nothing THEN BaselineSources ELSE Sources

Amounts(sources) == [i \in 1..Len(sources) |-> sources[i].amount]

\* Mutant: an event that waits for its rating does not block the month.
BugReconciled ==
    \A i \in 1..Len(Rated) : Rated[i].amount = Amount(Rated[i].quantity)

Reconciled ==
    /\ Len(Rated) = Len(Sources)
    /\ event # Nothing => processed
    /\ \A i \in 1..Len(Sources) : Sources[i].amount = Amount(Sources[i].quantity)

DraftState ==
    IF clock = "initial" THEN "OPEN" ELSE IF Reconciled THEN "READY_FOR_REVIEW" ELSE "BLOCKED"

\* Version and event are frozen together, and nothing if the second fails.
FreezeFinalization == [sources |-> Sources, total |-> SumPersisted(Amounts(Rated))]

-----------------------------------------------------------------------------
(* The provider.                                                            *)

\* The initializer of this attempt settles; the effect's cleanup makes the
\* answer of an earlier one void.
Settle ==
    /\ phase = "loading"
    /\ phase' \in {"ready", "error"}
    /\ UNCHANGED <<attempt, screen, typed, inputError, evidence>>

\* Shown only when initialization failed.
Recover ==
    /\ phase = "error"
    /\ attempt < MaxAttempts
    /\ phase' = "loading"
    /\ attempt' = attempt + 1
    /\ dialog' = "none"
    /\ Fresh

-----------------------------------------------------------------------------
(* The demo page.  Both dialogs are modal.                                  *)

Ready == phase = "ready" /\ dialog = "none"

SelectChapter(c) ==
    /\ Ready
    /\ c # chapter
    /\ chapter' = c
    /\ UNCHANGED <<phase, attempt, dialog, typed, inputError, evidence>>

OpenReset ==
    /\ Ready
    /\ dialog' = "reset"
    /\ UNCHANGED <<phase, attempt, chapter, typed, inputError, evidence>>

StartFresh ==
    /\ dialog = "reset"
    /\ dialog' = "none"
    /\ Fresh
    /\ UNCHANGED <<phase, attempt>>

CloseDialog ==
    /\ dialog # "none"
    /\ dialog' = "none"
    /\ UNCHANGED <<phase, attempt, chapter, typed, inputError, evidence>>

\* The field is read-only once there is an event or a version.
TypeQuantity(v) ==
    /\ Ready /\ chapter = 0
    /\ event = Nothing /\ finalization = Nothing
    /\ typed' = v
    /\ inputError' = FALSE
    /\ UNCHANGED <<phase, attempt, screen, evidence>>

\* An event after the month was frozen would belong to no version.
MayAccept == event = Nothing /\ finalization = Nothing

Accept ==
    /\ Ready /\ chapter = 0
    /\ MayAccept
    /\ inputError' = (typed = Garbage)
    /\ event' = IF typed = Garbage THEN Nothing ELSE typed
    /\ UNCHANGED <<phase, attempt, screen, typed, clock, retries, processed,
                   rating, ratingError, finalization, finalizationError, delivery>>

\* Identical, so nothing but the count changes.
Retry ==
    /\ Ready /\ chapter \in {0, 1}
    /\ event # Nothing
    /\ retries < MaxRetries
    /\ retries' = retries + 1
    /\ UNCHANGED <<phase, attempt, screen, typed, inputError, clock, event,
                   processed, rating, ratingError, finalization, finalizationError, delivery>>

\* A second click is answered by the evidence there is; the action may fail.
Rate ==
    /\ Ready /\ chapter = 1
    /\ event # Nothing /\ rating = Nothing /\ finalization = Nothing
    /\ \/ /\ Ratable(UnitMicros, event, Digits)
          /\ processed' = TRUE
          /\ rating' = Amount(event)
          /\ ratingError' = FALSE
       \/ /\ ratingError' = TRUE
          /\ UNCHANGED <<processed, rating>>
    /\ UNCHANGED <<phase, attempt, screen, typed, inputError, clock, event,
                   retries, finalization, finalizationError, delivery>>

\* Offered only while the month is not frozen.
AdvanceTime ==
    /\ Ready /\ chapter = 2 /\ finalization = Nothing
    /\ clock = "initial"
    /\ clock' = "afterClose"
    /\ UNCHANGED <<phase, attempt, screen, typed, inputError, event, retries,
                   processed, rating, ratingError, finalization, finalizationError, delivery>>

\* A click before the record is eligible opens nothing and changes nothing.
OpenApproval ==
    /\ Ready /\ chapter = 2
    /\ DraftState = "READY_FOR_REVIEW" /\ finalization = Nothing
    /\ dialog' = "approve"
    /\ UNCHANGED <<phase, attempt, chapter, typed, inputError, evidence>>

Finalize ==
    /\ dialog = "approve"
    /\ dialog' = "none"
    /\ \/ finalization' = FreezeFinalization /\ finalizationError' = FALSE
       \/ finalizationError' = TRUE /\ UNCHANGED finalization
    /\ UNCHANGED <<phase, attempt, chapter, typed, inputError, clock, event,
                   retries, processed, rating, ratingError, delivery>>

Deliver ==
    /\ Ready /\ chapter = 3
    /\ finalization # Nothing /\ delivery = Nothing
    /\ delivery' = finalization
    /\ UNCHANGED <<phase, attempt, screen, typed, inputError, clock, event, retries,
                   processed, rating, ratingError, finalization, finalizationError>>

Next ==
    \/ Settle \/ Recover \/ OpenReset \/ StartFresh \/ CloseDialog
    \/ \E c \in 0..3 : SelectChapter(c)
    \/ \E v \in Quantities \cup {Garbage} : TypeQuantity(v)
    \/ Accept \/ Retry \/ Rate \/ AdvanceTime \/ OpenApproval \/ Finalize \/ Deliver

Spec == Init /\ [][Next]_vars

-----------------------------------------------------------------------------

\* What chapter 02 adds up from the baseline and the run's rating.
PricingTotal ==
    SumPersisted(Amounts(BaselineSources)
                   \o IF rating = Nothing THEN <<>> ELSE <<rating>>)

\* The version a visitor approved is the whole month: whatever was clicked
\* before and after, it holds the baseline and the visitor's event, each at the
\* half-up amount of its own quantity, and adds up to what the pricing chapter
\* shows now; what was delivered is that version.
VersionIsTheMonth ==
    /\ finalization # Nothing =>
         /\ clock = "afterClose"
         /\ finalization.sources = Sources
         /\ finalization.total = PricingTotal
         /\ \A i \in 1..Len(finalization.sources) :
              LET s == finalization.sources[i]
              IN  /\ s.amount # Nothing /\ s.amount % Thousandths(Digits) = 0
                  /\ HalfUp(s.amount \div Thousandths(Digits), UnitMicros, s.quantity, Digits)
    /\ delivery # Nothing => delivery = finalization
-----------------------------------------------------------------------------
(* What makes VersionIsTheMonth inductive.                                  *)

\* A dialog is modal, and the month that is to be approved cannot change.
DialogStands ==
    /\ dialog # "none" => phase = "ready"
    /\ dialog = "approve" => Reconciled /\ clock = "afterClose" /\ finalization = Nothing

IInv ==
    /\ TypeOK
    /\ event = Nothing => rating = Nothing
    /\ DialogStands
    /\ VersionIsTheMonth
=============================================================================
