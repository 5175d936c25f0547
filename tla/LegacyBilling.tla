---------------------------- MODULE LegacyBilling ----------------------------
(***************************************************************************)
(* Subscriptions and invoices of one Organization before the ledger:        *)
(* createSubscription, the GENERATE_INVOICE job, markInvoicePaid and        *)
(* markInvoiceFailed.  Each reads, decides and writes in separate           *)
(* statements; only row locks order the writes.  An invoice's period is     *)
(* (periodStart, periodEnd): a replaced subscription's is cut short, so the *)
(* job looks for another invoice then.  Amounts, audit rows and the webhook *)
(* events that follow each commit are left out.                             *)
(***************************************************************************)
EXTENDS Naturals, FiniteSets, FiniteSetsExt

CONSTANTS
    Subscriptions, Invoices,   \* ids the database may hand out
    Owners,                    \* concurrent requests of owners and admins
    Jobs,                      \* concurrent runs of processInvoice
    None

VARIABLES
    status,     \* Subscription.status, "absent" before the insert
    periodEnd,  \* "month" as created, "cut" once replaced
    invoice,    \* Invoice rows: None or [sub, period, status]
    request,    \* each owner's open request
    run,        \* each job's statement and what it has read
    jobPeak,    \* most runs for one subscription at once, so far
    activationPeak   \* most activations at once, so far

vars == <<status, periodEnd, invoice, request, run, jobPeak, activationPeak>>

Periods == {"month", "cut"}
Status  == {"absent", "ACTIVE", "PAUSED", "CANCELED"}
InvoiceRows == [sub : Subscriptions, period : Periods,
                status : {"PENDING", "PAID", "FAILED"}]

Idle == [kind |-> "idle"]
Activation(k, S) == [kind |-> k, cancels |-> S]
Marking(k, i, wasActive) == [kind |-> k, invoice |-> i, wasActive |-> wasActive]
OpenRequests ==
    {Idle} \cup {Activation(k, S) : k \in {"cancel", "activate"}, S \in SUBSET Subscriptions}
           \cup {Marking(k, i, b) : k \in {"pay", "fail"}, i \in Invoices, b \in BOOLEAN}

RunSteps == {"check", "create", "announce"}
Runs == {Idle} \cup [kind : RunSteps, sub : Subscriptions, period : Periods]

TypeOK ==
    /\ status \in [Subscriptions -> Status]
    /\ periodEnd \in [Subscriptions -> Periods]
    /\ invoice \in [Invoices -> InvoiceRows \cup {None}]
    /\ request \in [Owners -> OpenRequests]
    /\ run \in [Jobs -> Runs]
    /\ jobPeak \in [Subscriptions -> 0..Cardinality(Jobs)]
    /\ activationPeak \in 0..Cardinality(Owners)

Init ==
    /\ status = [s \in Subscriptions |-> "absent"]
    /\ periodEnd = [s \in Subscriptions |-> "month"]
    /\ invoice = [i \in Invoices |-> None]
    /\ request = [o \in Owners |-> Idle]
    /\ run = [j \in Jobs |-> Idle]
    /\ jobPeak = [s \in Subscriptions |-> 0]
    /\ activationPeak = 0

Active == {s \in Subscriptions : status[s] = "ACTIVE"}

Activating == {o \in Owners : request[o].kind \in {"cancel", "activate"}}

\* Rows an open activation has updated and not yet committed.
Locked(s) == \E o \in Owners : request[o].kind = "activate" /\ s \in request[o].cancels

Ends(o) == request' = [request EXCEPT ![o] = Idle]

-----------------------------------------------------------------------------
(* createSubscription: one transaction, two statements.                     *)

\* updateMany at READ COMMITTED: which rows are ACTIVE is what its snapshot says.
\* It waits for those another activation holds and takes the ones that still are;
\* what that activation inserted it does not see.
FindActive(o) ==
    /\ request[o] = Idle
    /\ request' = [request EXCEPT ![o] = Activation("cancel", Active)]
    /\ activationPeak' = Max({activationPeak, Cardinality(Activating) + 1})
    /\ UNCHANGED <<status, periodEnd, invoice, run, jobPeak>>

CancelActive(o) ==
    /\ request[o].kind = "cancel"
    /\ LET found == request[o].cancels
       IN  /\ \A s \in found : ~ Locked(s)
           /\ request' = [request EXCEPT ![o] = Activation("activate", found \cap Active)]
    /\ UNCHANGED <<status, periodEnd, invoice, run, jobPeak, activationPeak>>

\* Mutant: a paused subscription is resumed instead of a new one created.
BugFresh ==
    CHOOSE s \in Subscriptions :
        IF \E p \in Subscriptions : status[p] = "PAUSED"
        THEN status[s] = "PAUSED" ELSE status[s] = "absent"

Fresh == CHOOSE s \in Subscriptions : status[s] = "absent"

Activate(o) ==
    /\ request[o].kind = "activate"
    /\ \E s \in Subscriptions : status[s] = "absent"
    /\ LET old == request[o].cancels
           new == Fresh
       IN  /\ status' = [s \in Subscriptions |->
                IF s \in old THEN "CANCELED" ELSE IF s = new THEN "ACTIVE" ELSE status[s]]
           /\ periodEnd' = [s \in Subscriptions |-> IF s \in old THEN "cut" ELSE periodEnd[s]]
    /\ Ends(o)
    /\ UNCHANGED <<invoice, run, jobPeak, activationPeak>>

-----------------------------------------------------------------------------
(* markInvoicePaid and markInvoiceFailed.                                   *)

ReadPending(o, k, i) ==
    /\ request[o] = Idle
    /\ invoice[i] # None /\ invoice[i].status = "PENDING"
    /\ request' = [request EXCEPT
         ![o] = Marking(k, i, status[invoice[i].sub] = "ACTIVE")]
    /\ UNCHANGED <<status, periodEnd, invoice, run, jobPeak, activationPeak>>

\* The status is not tested again.
MarkPaid(o) ==
    /\ request[o].kind = "pay"
    /\ invoice' = [invoice EXCEPT ![request[o].invoice].status = "PAID"]
    /\ Ends(o)
    /\ UNCHANGED <<status, periodEnd, run, jobPeak, activationPeak>>

\* Invoice and subscription in one transaction, on what was read before it.
Suspended(o) ==
    LET s == invoice[request[o].invoice].sub
    IN  IF request[o].wasActive THEN [status EXCEPT ![s] = "PAUSED"] ELSE status

MarkFailed(o) ==
    /\ request[o].kind = "fail"
    /\ LET i == request[o].invoice
       IN  /\ request[o].wasActive => ~ Locked(invoice[i].sub)
           /\ invoice' = [invoice EXCEPT ![i].status = "FAILED"]
    /\ status' = Suspended(o)
    /\ Ends(o)
    /\ UNCHANGED <<periodEnd, run, jobPeak, activationPeak>>

\* Rolled back, or the process ended before it wrote.
RequestFails(o) ==
    /\ request[o] # Idle
    /\ Ends(o)
    /\ UNCHANGED <<status, periodEnd, invoice, run, jobPeak, activationPeak>>

-----------------------------------------------------------------------------
(* processInvoice.  generateManualInvoice gives its jobs no id, so any       *)
(* number of them may be queued: a run may start at any time, again too.     *)

RunsOf(s) == {j \in Jobs : run[j] # Idle /\ run[j].sub = s}

LoadSubscription(j, s) ==
    /\ run[j] = Idle
    /\ status[s] # "absent"
    /\ run' = [run EXCEPT ![j] = [kind |-> "check", sub |-> s, period |-> periodEnd[s]]]
    /\ jobPeak' = [jobPeak EXCEPT ![s] = Max({@, Cardinality(RunsOf(s)) + 1})]
    /\ UNCHANGED <<status, periodEnd, invoice, request, activationPeak>>

Invoiced(s, p) ==
    {i \in Invoices : invoice[i] # None /\ invoice[i].sub = s /\ invoice[i].period = p}

\* Mutant: the job does not look for the period's invoice.
BugCheckExisting(j) ==
    /\ run[j].kind = "check"
    /\ run' = [run EXCEPT ![j].kind = "create"]
    /\ UNCHANGED <<status, periodEnd, invoice, request, jobPeak, activationPeak>>

CheckExisting(j) ==
    /\ run[j].kind = "check"
    /\ run' = [run EXCEPT ![j] =
         IF Invoiced(run[j].sub, run[j].period) = {} THEN [run[j] EXCEPT !.kind = "create"]
         ELSE Idle]
    /\ UNCHANGED <<status, periodEnd, invoice, request, jobPeak, activationPeak>>

CreateInvoice(j) ==
    /\ run[j].kind = "create"
    /\ \E i \in Invoices : invoice[i] = None
    /\ invoice' = [invoice EXCEPT ![CHOOSE i \in Invoices : invoice[i] = None] =
         [sub |-> run[j].sub, period |-> run[j].period, status |-> "PENDING"]]
    /\ run' = [run EXCEPT ![j].kind = "announce"]
    /\ UNCHANGED <<status, periodEnd, request, jobPeak, activationPeak>>

\* The audit row and the invoice.created event; or the run dies or throws.
RunEnds(j) ==
    /\ run[j] # Idle
    /\ run' = [run EXCEPT ![j] = Idle]
    /\ UNCHANGED <<status, periodEnd, invoice, request, jobPeak, activationPeak>>

Next ==
    \/ \E o \in Owners :
         \/ FindActive(o) \/ CancelActive(o) \/ Activate(o)
         \/ MarkPaid(o) \/ MarkFailed(o) \/ RequestFails(o)
         \/ \E k \in {"pay", "fail"}, i \in Invoices : ReadPending(o, k, i)
    \/ \E j \in Jobs :
         \/ CheckExisting(j) \/ CreateInvoice(j) \/ RunEnds(j)
         \/ \E s \in Subscriptions : LoadSubscription(j, s)

Spec == Init /\ [][Next]_vars

-----------------------------------------------------------------------------

\* A subscription with a FAILED invoice does not accept usage: markInvoiceFailed
\* commits both rows together, and no order of activations and markings brings
\* it back to ACTIVE, although its status was read before the transaction.
FailedInvoiceSuspends ==
    \A i \in Invoices :
        (invoice[i] # None /\ invoice[i].status = "FAILED")
            => status[invoice[i].sub] # "ACTIVE"

\* Nothing but overlap duplicates: a period has no more invoices than runs for
\* its subscription were ever under way at once, and the Organization no more
\* ACTIVE subscriptions than activations were.  In particular a redelivered
\* job, or a run that died after its insert, never invoices a period twice.
DuplicatesNeedOverlap ==
    /\ \A s \in Subscriptions, p \in Periods : Cardinality(Invoiced(s, p)) <= jobPeak[s]
    /\ Cardinality(Active) <= activationPeak
-----------------------------------------------------------------------------
(* What makes the two inductive.                                            *)

\* What is billed exists, and so does what an activation is about to cancel.
RowsExist ==
    /\ \A i \in Invoices : invoice[i] # None => status[invoice[i].sub] # "absent"
    /\ \A j \in Jobs : run[j] # Idle => status[run[j].sub] # "absent"
    /\ \A o \in Activating : \A s \in request[o].cancels : status[s] # "absent"

\* A subscription that was not ACTIVE when its invoice was read never is again.
MarkingsStand ==
    \A o \in Owners : request[o].kind \in {"pay", "fail"} =>
        LET i == request[o].invoice
        IN  /\ invoice[i] # None
            /\ ~ request[o].wasActive => status[invoice[i].sub] # "ACTIVE"

\* The runs that found no invoice for the period and are about to insert one.
Creating(s, p) == {j \in Jobs : run[j].kind = "create" /\ run[j].sub = s /\ run[j].period = p}

RunsAreCounted ==
    \A s \in Subscriptions :
        /\ Cardinality(RunsOf(s)) <= jobPeak[s]
        /\ \A p \in Periods : Cardinality(Invoiced(s, p)) + Cardinality(Creating(s, p)) <= jobPeak[s]

\* Whichever of the open activations commit, each adds one subscription and takes
\* away the ones it found: two that wait for one row may both leave theirs.
Left(D) == Active \ UNION {request[o].cancels : o \in D}

ActivationsAreCounted ==
    \A D \in SUBSET Activating : Cardinality(Left(D)) + Cardinality(D) <= activationPeak

IInv ==
    /\ TypeOK /\ FailedInvoiceSuspends /\ RowsExist /\ MarkingsStand
    /\ RunsAreCounted /\ ActivationsAreCounted
=============================================================================
