------------------------------- MODULE Figures -------------------------------
(***************************************************************************)
(* What a legacy subscription costs, as three places work it out, each with *)
(* its own copy of the formula and its own reads: the estimate on the       *)
(* dashboard and the billing page, the invoice job, and the page of an      *)
(* invoice.  Totals grow, metrics are attached to the plan and the          *)
(* subscription is replaced between those reads; terms never change and     *)
(* nothing is detached.  One subscription, one period; formatting, roles    *)
(* and the usage figures that are no amounts are left out.                  *)
(***************************************************************************)
EXTENDS Naturals, Functions

CONSTANTS
    Metrics, Nothing,
    MaxUsage,                          \* bound on a metric's total
    BasePrice, IncludedUnits, PricePerUnit   \* the plan's terms

VARIABLES
    status,    \* of the subscription
    usage,     \* AggregatedUsage.total, 0 without a row
    priced,    \* metrics attached to the plan
    fallen,    \* history: a total was corrected downwards
    job,       \* processInvoice
    invoice,
    view,      \* the page that is being rendered or read
    highest    \* history: the highest estimate shown

vars == <<status, usage, priced, fallen, job, invoice, view, highest>>

Pages == {"dashboard", "billing", "invoice"}
Amounts == Nat
NoFigures == [m \in {} |-> 0]
Rested == [at |-> "idle"]

TypeOK ==
    /\ status \in {"ACTIVE", "CANCELED"}
    /\ usage \in [Metrics -> 0..MaxUsage]
    /\ priced \in SUBSET Metrics
    /\ fallen \in BOOLEAN
    /\ \/ job = Rested
       \/ job \in [at : {"existing", "usage", "create"}, plan : SUBSET Metrics,
                   amount : Amounts, floor : Amounts]
    /\ invoice = Nothing \/ invoice \in [amount : Amounts, floor : Amounts]
    /\ \/ view = Nothing
       \/ /\ view.page \in Pages
          /\ view.at \in {"plan", "usage", "shown"}
          /\ view.plan \in SUBSET Metrics
          /\ DOMAIN view.costs \in SUBSET Metrics
    /\ highest \in Amounts

Init ==
    /\ status = "ACTIVE"
    /\ usage = [m \in Metrics |-> 0]
    /\ priced = {} /\ fallen = FALSE
    /\ job = Rested /\ invoice = Nothing
    /\ view = Nothing /\ highest = 0

-----------------------------------------------------------------------------
(* The formula, three times.                                                *)

Above(n, included) == IF n > included THEN n - included ELSE 0
Total(costs) == FoldFunction(+, 0, costs)
RowsOf(used) == {m \in Metrics : used[m] > 0}

\* Without a price a row is listed and costs nothing.
CostBreakdown(plan, used) ==
    [m \in RowsOf(used) |->
        LET included == IF m \in plan THEN IncludedUnits ELSE 0
            price    == IF m \in plan THEN PricePerUnit ELSE 0
        IN  Above(used[m], included) * price]

\* Mutant: the job charges what exceeds the units included in the whole plan.
BugInvoiceAmount(plan, used) ==
    LET all == Total([m \in RowsOf(used) \cap plan |-> used[m]])
    IN  BasePrice + PricePerUnit * Above(all, 2 * IncludedUnits)

\* Without a price a row is passed over.
InvoiceAmount(plan, used) ==
    BasePrice + Total([m \in RowsOf(used) \cap plan |->
                         Above(used[m], IncludedUnits) * PricePerUnit])

\* Without a price a row is not listed.
BreakdownRows(plan, used) ==
    [m \in RowsOf(used) \cap plan |-> Above(used[m], IncludedUnits) * PricePerUnit]

(* What the components make of it.                                          *)

DashboardKPIs(costs) == [usageCost |-> Total(costs), total |-> BasePrice + Total(costs)]
CostBreakdownCard(costs) == Total(costs)
BillingSummaryCards(costs) == [usageCost |-> Total(costs), total |-> BasePrice + Total(costs)]
BillingBreakdown(rows) == Total(rows)
InvoiceBreakdown(rows) == BasePrice + Total(rows)

-----------------------------------------------------------------------------
(* Pages.                                                                   *)

\* dashboard/page, billing/page: without an ACTIVE subscription an empty state.
OpenEstimate(p) ==
    /\ view = Nothing
    /\ p \in {"dashboard", "billing"} /\ status = "ACTIVE"
    /\ view' = [page |-> p, at |-> "plan", plan |-> {}, costs |-> NoFigures]
    /\ UNCHANGED <<status, usage, priced, fallen, job, invoice, highest>>

\* getCostBreakdown's first read: the page fails if the subscription is gone.
ReadPlan ==
    /\ view # Nothing /\ view.at = "plan"
    /\ view' = IF status = "ACTIVE"
               THEN [view EXCEPT !.at = "usage", !.plan = priced] ELSE Nothing
    /\ UNCHANGED <<status, usage, priced, fallen, job, invoice, highest>>

\* Its second read: the figures of the dashboard and of the billing page.
ShowEstimate ==
    /\ view # Nothing /\ view.at = "usage" /\ view.page # "invoice"
    /\ LET costs == CostBreakdown(view.plan, usage)
           total == (IF view.page = "dashboard" THEN DashboardKPIs(costs)
                                                ELSE BillingSummaryCards(costs)).total
       IN  /\ view' = [view EXCEPT !.at = "shown", !.costs = costs]
           /\ highest' = IF total > highest THEN total ELSE highest
    /\ UNCHANGED <<status, usage, priced, fallen, job, invoice>>

\* The page of the invoice reads it with the plan as it is now, then usage.
OpenInvoice ==
    /\ view = Nothing /\ invoice # Nothing
    /\ view' = [page |-> "invoice", at |-> "usage", plan |-> priced, costs |-> NoFigures]
    /\ UNCHANGED <<status, usage, priced, fallen, job, invoice, highest>>

ShowInvoice ==
    /\ view # Nothing /\ view.at = "usage" /\ view.page = "invoice"
    /\ view' = [view EXCEPT !.at = "shown", !.costs = BreakdownRows(view.plan, usage)]
    /\ UNCHANGED <<status, usage, priced, fallen, job, invoice, highest>>

ClosePage ==
    /\ view # Nothing /\ view.at = "shown"
    /\ view' = Nothing
    /\ UNCHANGED <<status, usage, priced, fallen, job, invoice, highest>>

-----------------------------------------------------------------------------
(* processInvoice.                                                          *)

LoadSubscription ==
    /\ job = Rested
    /\ job' = [at |-> "existing", plan |-> priced, amount |-> 0, floor |-> highest]
    /\ UNCHANGED <<status, usage, priced, fallen, invoice, view, highest>>

CheckExisting ==
    /\ job.at = "existing"
    /\ job' = IF invoice = Nothing THEN [job EXCEPT !.at = "usage"] ELSE Rested
    /\ UNCHANGED <<status, usage, priced, fallen, invoice, view, highest>>

ReadUsage ==
    /\ job.at = "usage"
    /\ job' = [job EXCEPT !.at = "create", !.amount = InvoiceAmount(job.plan, usage)]
    /\ UNCHANGED <<status, usage, priced, fallen, invoice, view, highest>>

CreateInvoice ==
    /\ job.at = "create"
    /\ invoice' = [amount |-> job.amount, floor |-> job.floor]
    /\ job' = Rested
    /\ UNCHANGED <<status, usage, priced, fallen, view, highest>>

JobFails ==
    /\ job # Rested
    /\ job' = Rested
    /\ UNCHANGED <<status, usage, priced, fallen, invoice, view, highest>>

-----------------------------------------------------------------------------
(* What goes on meanwhile.                                                  *)

Aggregate(m) ==
    /\ \E total \in usage[m] + 1 .. MaxUsage : usage' = [usage EXCEPT ![m] = total]
    /\ UNCHANGED <<status, priced, fallen, job, invoice, view, highest>>

\* Only once the window has ended: a total that a job with the old window made
\* of events beyond its end.
Correct(m) ==
    /\ status = "CANCELED" /\ usage[m] > 0
    /\ usage' = [usage EXCEPT ![m] = @ - 1]
    /\ fallen' = TRUE
    /\ UNCHANGED <<status, priced, job, invoice, view, highest>>

AddMetricToPlan(m) ==
    /\ m \notin priced
    /\ priced' = priced \cup {m}
    /\ UNCHANGED <<status, usage, fallen, job, invoice, view, highest>>

Replace ==
    /\ status = "ACTIVE" /\ status' = "CANCELED"
    /\ UNCHANGED <<usage, priced, fallen, job, invoice, view, highest>>

Next ==
    \/ \E p \in Pages : OpenEstimate(p)
    \/ ReadPlan \/ ShowEstimate \/ OpenInvoice \/ ShowInvoice \/ ClosePage
    \/ LoadSubscription \/ CheckExisting \/ ReadUsage \/ CreateInvoice \/ JobFails
    \/ \E m \in Metrics : Aggregate(m) \/ Correct(m) \/ AddMetricToPlan(m)
    \/ Replace

Spec == Init /\ [][Next]_vars

-----------------------------------------------------------------------------

\* Whatever changes between the reads, no customer is billed less than an estimate
\* seen before the job began, an invoice's own page explains all of its amount,
\* and the figures of one page add up - unless a total was corrected after the
\* subscription had been replaced.
FiguresAgree ==
    /\ invoice # Nothing => fallen \/ invoice.amount >= invoice.floor
    /\ (view # Nothing /\ view.at = "shown") =>
         CASE view.page = "dashboard" ->
                DashboardKPIs(view.costs).total = BasePrice + CostBreakdownCard(view.costs)
           [] view.page = "billing" ->
                BillingSummaryCards(view.costs).total = BasePrice + BillingBreakdown(view.costs)
           [] view.page = "invoice" ->
                fallen \/ InvoiceBreakdown(view.costs) >= invoice.amount
-----------------------------------------------------------------------------
(* What makes FiguresAgree inductive: as long as no total was corrected, no   *)
(* figure that was shown or is about to be billed exceeds what would be       *)
(* billed now.                                                                *)

Views(listed) ==
    [page : Pages, at : {"plan", "usage", "shown"}, plan : SUBSET Metrics, costs : [listed -> Nat]]

EstimatesStand == fallen \/ highest <= InvoiceAmount(priced, usage)

JobStands ==
    job # Rested =>
        /\ job.plan \subseteq priced
        /\ job.at \in {"usage", "create"} => invoice = Nothing
        /\ job.at \in {"existing", "usage"} => fallen \/ job.floor <= InvoiceAmount(job.plan, usage)
        /\ job.at = "create" =>
             fallen \/ (job.floor <= job.amount /\ job.amount <= InvoiceAmount(priced, usage))

InvoiceStands ==
    invoice # Nothing =>
        fallen \/ (invoice.floor <= invoice.amount /\ invoice.amount <= InvoiceAmount(priced, usage))

ViewStands ==
    view # Nothing =>
        /\ \E listed \in SUBSET Metrics : view \in Views(listed)
        /\ view.plan \subseteq priced
        /\ view.page = "invoice" =>
             /\ invoice # Nothing /\ view.at # "plan"
             /\ view.at = "usage" => fallen \/ invoice.amount <= InvoiceAmount(view.plan, usage)
             /\ view.at = "shown" => fallen \/ invoice.amount <= InvoiceBreakdown(view.costs)

IInv == TypeOK /\ EstimatesStand /\ JobStands /\ InvoiceStands /\ ViewStands
=============================================================================
