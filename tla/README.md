# TLA+ models of UsageFlow

UsageFlow accepts usage events, prices them, turns a Customer's month into a billing record, and tells the
Organization's webhook endpoints about it. This directory models the parts of that pipeline whose correctness depends
on order: several processes, one PostgreSQL, one Redis, and failures between any two steps. TLC checks the models on
small instances; TLAPS proves the most important results for every value of the constants. All paths below are
relative to the repository.

## 1. The system

### Components

| Component | State | Operations | Model |
|---|---|---|---|
| Ledger acceptance (`app/api/track/route.ts`) | `UsageEvent`, `LedgerProcessingIntent`, idempotency key | POST: authenticate, validate, look up the key, insert event and intent in one transaction, dispatch within 500 ms | `Acceptance` |
| Ledger processing and recovery (`worker/processors/processLedgerEvent.ts`, `rateCustomerEvent.ts`, `worker/recoverLedgerWork.ts`) | processing state, lease and token, projection, rating outcome, retry marker, scan cursor, BullMQ job ids | claim, project, record failure, rate, mark retry; two scans once a second; a correction's rating | `LedgerProcessing` |
| Price schedule, rating, gap correction (`actions/pricing/firstPrice.ts`, `lib/pricing-gap-*.ts`, `actions/organization/setCurrency.ts`) | `PriceVersion`, `RatedEvent`, `UnratedEvent`, `RatingFailure`, `Organization.currency` | publish, rate, preview, approve, set currency | `PricingRating` |
| Exact money (`lib/money-contract.ts`, `lib/persisted-rated-amount.ts`) | none | `rateMoney`, persisted amounts and their sums | `Money` |
| Billing records (`lib/billing-record-*.ts`, `app/api/organizations/[orgId]/billing-records/route.ts`) | current draft, versions, current-version pointer, request bindings | calculate, finalize, revise | `BillingRecord`; its table locks against the ledger's transactions: `EvidenceLocks` |
| Billing webhooks (`worker/processors/deliverBillingWebhook.ts`, `worker/recoverBillingWebhooks.ts`, `lib/webhooks/billing-*.ts`, `replay-billing.ts`) | target selection, work rows with claim and lease, attempts, aggregate status, replay keys | select, wake, claim, send, settle, reconcile, replay, toggle | `BillingWebhookDelivery` |
| Webhook endpoints (`lib/webhooks/create-endpoint.ts`, `rotate-secret.ts`) and the example receiver (`webhook-receiver/`) | secret, previous secret and its expiry; the receiver's two secrets | create, rotate, send, verify | `EndpointSecrets` |
| Ledger export (`lib/ledgerExport.ts`, `app/api/ledger-exports`) | a read snapshot, numbered rows | begin, read a batch, store, page by cursor | `LedgerExport` |
| Legacy usage totals (`worker/processors/aggregateUsage.ts`) | `AggregatedUsage`, one job id per subscription | wake, load, read, upsert | `LegacyAggregation` |
| Legacy subscriptions and invoices (`actions/subscription`, `actions/invoices`, `worker/processors/generateInvoice.ts`) | `Subscription`, `Invoice` | activate, generate, mark paid, mark failed | `LegacyBilling` |
| What a legacy subscription costs (`actions/analytics`, `actions/billing`, pages of `app/app/[orgId]`) | none of its own | estimate, invoice, page of an invoice | `Figures` |
| Legacy webhooks (`lib/webhooks/events.ts`, `worker/processors/deliverWebhook.ts`) | event status, attempts, a retry chain that only Redis keeps | create, attempt, retry, refresh status | `LegacyWebhook` |
| Organizations, members, invitations (`actions/organization`, `actions/members`, `actions/register.ts`) | `Organization`, `Membership`, `OrganizationInvite` | register, create, rename, delete, invite, accept, cancel | `Organizations` |
| Plans, metrics, customers, API keys and their dialogs (`actions/*`, `components/forms`) | one or two rows each; what a dialog shows | open, submit, answer, close, revoke | `Console`, in part |
| Pages and their buttons (`app/app/[orgId]`, `components`) | what a page showed when it was rendered | render, press, answer, refresh | `Pages`, in part |
| Showcase demo (`showcase/app`) | one run per tab, in memory | every control of the demo page | `Showcase` |
| Queue (`lib/queue.ts`, `lib/bullmq.ts`, `lib/jobs/processQueueJob.ts`) | jobs by id | add, take, complete, fail, redeliver after a stall | external, in the worker models |
| Exclusion report, landing and documentation pages, operational scripts | none that the pipeline reads | rendering, drills | not modelled |

### How they interact

    POST /api/track --insert--> UsageEvent + intent --job/scan--> claim --> projection --> rating
          |                          |                                           |  (price schedule)
          | legacy                   +--> ledger export (a snapshot)             |
          v                                                                      |
    aggregation job --> totals --> invoice job, estimates, invoice pages         |
                                                                                 |
    draft calculation  <---- reads ---- events, outcomes, retry and failure marks
    finalization       <---- freezes (LOCK TABLE ... SHARE) the same tables
          |  version + pointer + outbound event + request binding, one commit
          v
    webhook event --targets--> work rows --job/scan--> claim --> HTTP --> result, aggregate status

Endpoints, members, plans and keys are written by server actions behind the dashboard's dialogs and buttons; a page may
be older than the row its buttons act on.

Everything shared is in PostgreSQL: row locks, table locks, one advisory lock per billing record, leases with tokens.
Redis holds only wakeups, and any of them may be lost, duplicated or refused because its job id already exists.

### What is hard

* Concurrency: several wakeups of one event; a lease that expires under a running worker; statements whose
  snapshot predates the commit they wait for (a claim, an activation, a calculation); a status computed before another
  transaction commits.
* Failure: a process that dies between claim, projection and rating; a commit whose acknowledgement is lost; a request
  the receiver accepted whose result is never written, or that goes on when its transaction has timed out.
* Order: a price published while events stamped ahead of it are already rated; a gap reviewed and then changed; two
  approvals of one month, or one request identity used for two months; table locks taken in an order the ledger's
  transactions do not share.
* Read, decide, write in separate statements: nearly every server action and the legacy jobs. Two of them overlap, or a
  page, a dialog or a retry chain acts on what is no longer true.

`PROJECT.json` lists these hazards, each at its line with the properties that would catch it or, where none does, why.

## 2. Modules

| Module | Contents |
|---|---|
| `LedgerProcessing` | the event's life from acceptance to rating outcome, jobs, scans and crashes |
| `LedgerContract` | what an accepted event is promised; `LedgerProcessing` implements it |
| `LedgerProcessingProofs` | its theorems |
| `PricingRating`, `PricingRatingProofs` | schedule, rating decision, correction, currency; theorems |
| `BillingRecord` | drafts, finalization, revision over evidence that keeps changing |
| `BillingWebhookDelivery` | delivery of one event to its targets |
| `WebhookContract` | what a target is promised; `BillingWebhookDelivery` implements it |
| `BillingWebhookProofs` | theorems about it |
| `BillingRecordProofs` | theorems about `BillingRecord` |
| `EvidenceLocks`, `EvidenceLocksProofs` | locks of an approval against those of the ledger's transactions; theorems |
| `Acceptance`, `AcceptanceContract`, `AcceptanceProofs` | `POST /api/track`, what it promises of a key, theorems |
| `Money`, `MoneyProofs` | exact money and its rounding |
| `LedgerExport`, `EndpointSecrets` | export of a month; signing secrets and the receiver |
| `LegacyAggregation`, `LegacyBilling`, `LegacyWebhook`, `Figures` | what remains from before the ledger |
| `Organizations`, `Console`, `Pages`, `Showcase` | members, dialogs, buttons, the demo |
| `MC*` | the instances TLC checks; `MCFrontOffice` composes the components of the six rows above |
| `FrontOfficeProofs` | theorems about those components |

Definitions that begin with `Bug`, or whose comment begins with `Mutant`, are wrong variants of the definition that
follows. No specification uses them; each one is substituted to show that the property written for it can fail.

### LedgerProcessing

`evState`, `lease` and `token` are the columns of `UsageEvent` and `LedgerProcessingIntent`; `projected`, `outcome`
and `retry` are the rows of `LedgerEventProjection`, of the three outcome tables and of `RatingRetry`; `job` is the
queue by job id. A slot is one concurrent run of the processor and `pc` is the statement it has reached. `outcome[e]` is
the set of outcome tables that hold the event: a rating adds a table only to the empty set, and `Correct`, the approval of a
pricing gap, adds a `RatedEvent` beside the `UnratedEvent`, which stays.

Transactions run at READ COMMITTED, and one that throws either rolled back or committed without its acknowledgement.
Those that wait between reading and writing are several steps:

* The claim is one `UPDATE` whose condition on the event's state is a subselect (`processLedgerEvent.ts:28`).
  `ClaimStarts` takes its snapshot; `Claim` has waited for the intent row (`Held`) and re-reads what is in that row, the
  lease, but not the state. So a claim that waits behind a completion succeeds: it takes a PROCESSED event back to
  PROCESSING. `overtaken` remembers the events whose last completion met a claim under way.
* The completion takes the intent row when it renews the lease (`Project`) and holds it until `Complete`.
* The rating reads the event's state before it waits for the Organization's lock (`ReadEvent`), and the outcome tables
  after (`Rate`).

Time is reduced to the expiry of each deadline (lease, settle window, retry delay, 5 s bucket). A slot stands for the
random token of its run: runs of one slot never overlap and a claim overwrites the token. The cron drain in
`processQueueJob.ts` is one more slot.
Left out: the attempts counter, failure reasons, the `InvalidLedgerEvent` branch (a failure like any other), and the
loss of a BullMQ job lock while its process lives. A failed job keeps its id, because `attempts` is 1 and no ledger job
sets `removeOnFail`.

### PricingRating

One Organization, metric and Customer within one month still open. Instants are numbers. `processed` is whether an event
was ever completed: while it is processed once more, a rating or an approval does not happen, which the model allows
at any time. The Organization row lock is
held from `PublishChecks` to `PublishCommits`; other transactions that need it are one step taken while it is free.
`Skew` is how far the accepting process's clock may run ahead of the publishing one; `TxLife` is the transaction
timeout, assumed no longer than the five-minute allowance `Lead`. `setCurrency` is two steps, a read and an update that
the database trigger guards. Line 53's pre-check of `firstPrice.ts` is implied by line 70's. The preview is one step
because approval repeats every test of it. The amount is abstracted to whether price times quantity exceeds its limit
(`Overflow`). Role checks and input validation are left out.

### BillingRecord

`evidence` is what a calculation reads of an event: its processing state, its rating and its retry, failure or unrated
mark. PENDING, PROCESSING and FAILED are one state before the first completion, and one (REOPENED) after a claim has
taken a completed event back (see `LedgerProcessing`); an event may be reopened any number of times. The advisory lock of a record is held by the approval that has been decided and not committed (`approving`);
every undecided or decided finalization also holds the evidence tables (`Frozen`, which `EvidenceLocks` derives from
the locks themselves). Approvals read committed rows under
the lock. A draft calculation is repeatable read: `Started` fixes its snapshot *before* it waits for the lock, and
`Serializable` is PostgreSQL's first-updater-wins check (P2034, or P2002 for the first row), retried three times. The
version, the pointer, the outbound event and the request binding are one commit.

Left out: the GET path, which reads the request's time only once it has the lock; consequently a POST whose time was
taken before the close and which is retried may publish OPEN after a READY draft, a state the next GET corrects.
Also left out: owner and customer checks, amounts and their arithmetic, mixed currency and balance, the comparison with
the previous draft, adjustments. The unique keys and triggers on versions are a second line that the model does
without, so `VersionChain` rests on the locks and the code's own tests; the one key modelled is `(orgId, requestId)`,
because nothing else stops one identity from being used for two months at once.

### BillingWebhookDelivery

READ COMMITTED, statement by statement: a transaction that reads, waits for a row lock and writes is several steps,
and its writes stay in `tx` until `Commit`. Row locks are derived from the step their holder has reached, so a deadlock
between a send and a reconciliation is a state, and `BreakDeadlock` is PostgreSQL's answer to it. `received` is the
receivers' side: the attempts they accepted, whatever the sender learned. A send's transaction may be cut off after its
7 s, which include its wait for the endpoint's row (`SendTimesOut`): the row is free, the request goes on, and when it is
answered the callback's next statement throws (`LateAnswer`). The legacy event without a recorded selection
is one of the initial states.

Left out: startedAt, response codes, signatures, secrets, payload and its validation branch, the audit log of the
toggle. Two waiting jobs of one endpoint count as one. `Claim` is one step although it may wait; `Settle` takes the
delivery and work rows together.

### EvidenceLocks

Every transaction of the ledger and of billing is a list: the tables it writes, the rows and advisory locks it takes,
what it reads, in the order of its statements. A write holds ROW EXCLUSIVE on its table until the transaction ends, and
`LOCK TABLE ... IN SHARE MODE` is granted table by table as listed. `moved` records whether a table that a transaction
has read has been written since. Plain reads and foreign-key checks conflict with none of these locks and are left out;
so is the order in which PostgreSQL's queues grant locks (any order is allowed), and the deletion of an Organization,
which fails while it has a Customer. `BreakDeadlock` is PostgreSQL's choice of a victim; what its process does next
(record the failure, mark a retry, fail the request) is the next transaction of that session.

Two things the model brought out. Five transactions of the ledger can deadlock with an approval, because they write
against the order the approval locks in: the claim, the projection and the failure record (intent before event), and
the ratings that leave an unrated mark or an overflow (outcome before `RatingRetry`). Acceptance, priced ratings,
corrections, drafts and revisions cannot. A claim chosen as the victim fails its job, which is one way into finding 1.
And two of the approval's locks are redundant: whoever writes `UnratedEvent` or `RatingFailure` goes on to `RatingRetry`.

### Acceptance

The handler of one POST, one step per await: key lookup, window, subscription, customer, metric, insert, second lookup,
dispatch. Between any two the month closes, the subscription ends, a key is revoked, a customer or metric appears. A
request that died after its commit is one whose client retries. The gate `CUSTOMER_LINKED_INGESTION_ENABLED` is a field
of each call, since it differs between processes while a deployment rolls. `promised` records the requests begun after
an equal one was accepted. A malformed content fails the schema of either mode; the fields of a request are one content
(the fingerprint). `AcceptanceContract` is the promise in ledger mode: one event per key, told only to those who asked
for its content. What an accepted event goes through next is `LedgerProcessing`.

### Money

Integers throughout: micros for a unit price, minor units for a rating, thousandths for what is persisted. The strings
between them are exact and left out. The code's limits exceed TLC's integers, so they are constants; the proofs hold for
all of them. `Showcase` rates with this module, as the demo does.

### LedgerExport, EndpointSecrets

An event of an export is its place in the order of timestamp and id. The export's transaction is repeatable read; events
keep arriving, being processed and reopened, before, between and behind the batches it has read. The digest and the totals are
functions of the rows and left out, and so are the other columns.

`EndpointSecrets` has the endpoint row, rotations by several tabs after their own read, the send under the endpoint's
lock whose transaction is cut off after 7 s while its request may still be under way, and a receiver the owner
reconfigures by hand from the replies. A rotation holds the Membership row and then the endpoint row, and either would
keep two rotations apart (`MayRead`). Signatures, the tolerance of five minutes and the receiver's memory of event ids
are left out.

### The legacy half

`LegacyAggregation`: one job id per subscription, freed when the job ends; an add whose id exists is a no-op.
`dropped` notes each wakeup refused, lost, or come to a job past its reads, so the property can say that totals lag
for no other reason. Events are stamped when they are stored; a stalled job's old worker is assumed dead.
`LegacyBilling`: every action reads, decides and writes apart, and only row locks order the writes; `jobPeak` and
`activationPeak` record overlaps. The `updateMany` of an activation finds the ACTIVE rows in its snapshot
(`FindActive`) and cancels those that still are once they are free (`CancelActive`), so of two racing activations both
may leave an ACTIVE subscription. Amounts are left to `Figures`. `LegacyWebhook`: each attempt enqueues its successor
after its own row is committed, and no scan repairs a chain that broke there. `Figures`: three copies of one formula,
each with its own reads, while totals grow and metrics are attached. Terms of a plan never change and metrics are
never detached, because no code does either; a total falls only when a replaced subscription is aggregated again. The
code computes in floating point, the model in integers.

### Organizations, Console, Pages, Showcase

`Organizations`: a transaction is one step after the reads made before it, which is where duplicates come from. No code
changes a role or removes a member. Passwords and sessions are the user who acts. `Console`: six dialogs in several
browsers; `Form` tells them apart by what they show after success, the rows their action looks for first, and whether a
unique index stands behind it. A metric, plan or attachment may exist although its action answered an error, because the
audit row is written after it and may fail. Two dialogs show a secret that can be read nowhere else. `Pages`: a
button acts on what the row has become since its page was rendered; a move is named by the state its button promises.
One request per tab, one row. `Showcase`: the reducer and every control that dispatches to it; wording, layout and the
static evidence page are left out.

### MCFrontOffice

These modules share no variable that two of them write: what one changes under another (a revoked key, a closing month,
a switched-off endpoint) is an action of that one's environment. Interleaving them would multiply states and add no
behaviour to any, so a behaviour follows one component, named by `focus`, and `v1` to `v15` are that component's
variables. Each property names the component it is about. What the proofs need to know of the constants is stated here,
where the components meet, and TLC evaluates it. `Metered` are the subscriptions of `LegacyAggregation`. The constraint
`Bounded` keeps `invoicing` small: the third subscription may exist only while nothing is billed, and invoice jobs that
overlap are of one subscription.

## 3. Runs

| Run | Instance | Shows |
|---|---|---|
| `ledger_safety` | 1 event, 2 slots, 1 bucket, 3 outcome tables, 2 faults | leases, projection and outcome agree; a late worker is harmless; `LedgerContract` is implemented |
| `ledger_liveness` | 1 event, 1 slot, 1 bucket, 1 outcome table, 2 faults | claimed work completes, processed work is rated, pending work is taken unless its wakeup job failed |
| `ledger_pending_stuck` | as above | **violation**: a failed `recover-pending-` job keeps its id and the event stays PENDING |
| `webhook_safety` | 1 endpoint, 2 slots, 1 scanner, 2 owners, 2 keys, 2 attempts, 3 cycles, 1 fault | claims, history, work row and receiver agree; `WebhookContract` is implemented |
| `webhook_liveness` | 1 endpoint, 1 slot, 1 replay, 1 fault | every target settles, in every cycle |
| `webhook_deactivation` | 1 endpoint, 1 slot, 1 attempt, 1 fault | **violation**: an endpoint is deactivated while a request to it is in flight |
| `webhook_status_stale` | 2 endpoints, 1 attempt, 1 fault | **violation**: a reconciliation overwrites the event's status with a stale one |
| `pricing_safety` | 2 events, 2 prices, 2 currencies, instants 0 to 4, 2 versions, 1 review | no order of operations moves a price under an outcome |
| `pricing_mixed_currency` | as above, 2 reviews | **violation**: corrections do not lock the currency |
| `billing_safety` | 3 months, one of 2 events and two of 1; 2 finalization and 2 revision identities; 1 waiting calculation | drafts only move to newer evidence; a final version covers exactly the month's events, processed and rated; one chain of versions per month; identities keep their answers |
| `billing_ready_blocked` | 1 month, 2 events | **violation**: a ready draft that can never be finalized |

`front_office` is one run over twelve instances, chosen by `focus`:

| Component | Instance | Shows |
|---|---|---|
| `Acceptance` | 2 requests, 1 key or none, 2 contents and a malformed one, both modes | a retry gets the same event or a conflict; `AcceptanceContract` is implemented |
| `LegacyAggregation` | 2 subscriptions, 2 events each | totals lag behind usage only after a dropped wakeup |
| `LegacyBilling` | 3 subscriptions, 2 invoices, 2 owners, 2 jobs | no more duplicates than runs overlapped; a FAILED invoice leaves its subscription not ACTIVE |
| `LegacyWebhook` | 1 endpoint, 3 attempts | attempts in order; a chain ends only by success, limit, fault or switch |
| `Organizations` | 2 users, names, organizations, invitations, actors | every member but the creator was invited to that role; names differ unless renamed |
| `EndpointSecrets` | 3 secrets, 2 tabs | the row holds the last two secrets handed out |
| `LedgerExport` | 4 places, batches of 2, pages of 1 | the pages are the ledger at one instant |
| `Showcase` | 2 quantities, 1 recovery, 1 retry | the approved version is the month at half-up amounts |
| `Console` | 2 tabs, 2 names, 2 rows | a secret reaches its dialog or its answer was lost; duplicates need overlap |
| `Pages` | 2 tabs, 2 reasons, 2 keys | a press from an old page does what its button said and undoes nothing settled; a reason sent again begins no second replay |
| `Figures` | 2 metrics, usage up to 2, base 3, 1 included, 2 per unit | nobody is billed less than an estimate seen before |
| `EvidenceLocks` | 3 sessions, any of 15 transactions | an approval reads one instant; which transactions can deadlock with it |

### Why these bounds

* One event or endpoint is enough for safety where rows of different events never meet: a run touches only its own.
  Two slots give every race of two runs, and a third run adds only a later repetition of the second. Two endpoints are
  needed for the aggregate status, and two months for an identity used twice; those runs have them.
* `billing_safety` is two questions in one run (`Bounded` in `MCBillingRecord`): evidence that changes under drafts
  and finalizations of the month with two events, or versions and identities of the two other months, whose events
  bear no marks. Months share nothing but identities and the locks on the evidence tables, so no behaviour needs all
  three. Being reopened, for a rated event of the closed month, and having failed for good are bounded to one event
  and to before the second draft; `BillingRecordProofs` has no such bounds.
* With one slot no completion can overtake a claim, so `ledger_liveness` has no reopened event; `ledger_safety` has.
* Faults are counted because an unbounded number makes every liveness property vacuous. Two faults cover "a failure,
  and a failure of what handles it", and in `ledger_safety` a crash and a slow worker together.
* `MaxAttempts` is 5 in the code. Two is the first value at which an attempt is neither the first nor the last of its
  cycle at once; the stale status already needs only one.
* One bucket: it rolls once no job of it waits or runs, so recovery jobs of successive buckets never meet. Two jobs of
  one event still do, under ids of different kinds.
* `Lead`, `Skew`, `TxLife` and `ReviewLife` are one instant each: every comparison is met with equality and on both
  sides of it. Two prices suffice because one overflows and the other does not.
* `MaxDrafts` 3 and a calculation that tries three times exhaust the retry loop. Three versions make the first
  predecessor that is not the first version.
* In `front_office` two of each actor give every race of two. The exceptions: three subscriptions let two activations
  race to replace one; three secrets make a current, a previous and an expired one; three attempts make a first, a
  middle and a last; three sessions make a deadlock in which the victim's successor meets a third transaction. With a
  base of 3, 1 unit included and 2 per unit, usage of 0, 1 and 2 is none, included and charged.

Symmetry is used only for sets whose members the specification compares for equality, and in no run that checks
liveness. `CHECK_DEADLOCK FALSE` appears in the pricing and billing configurations, where the bounds on clock, versions
and drafts let a history end, and in `front_office`, where requests, secrets and rows run out; the ledger and webhook
runs check for deadlock.

### Fairness

`LedgerProcessing`: runs end, both scans are timers that fire once a second, deadlines pass, and BullMQ delivers waiting
jobs first in first out, so a job that finds a free slot again and again is taken (strong fairness). Acceptance and
faults are never owed; a lease that expires under its running worker is a fault, so fairness of expiry excludes it.
`BillingWebhookDelivery`: the HTTP call ends in 5 s and its transaction in 7 s, the scan fires every second, and a row
lock that is free again and again is obtained. Dispatch after the commit, replays, toggles and faults are never owed:
delivery may rest on the scan alone.

## 4. Findings

1. **A pending event can be stranded** (`worker/recoverLedgerWork.ts:76`). The job id `recover-pending-<id>` has no time
   bucket and its failed job is never removed, so one failure of that job turns every later wakeup into a no-op. The
   positive half, `PendingWorkIsTaken`, holds: nothing else strands it.
2. **A stale aggregate status** (`worker/recoverBillingWebhooks.ts:73`). The reconciliation computes the status before
   it waits for the event row that a send of another endpoint holds.
3. **Corrections do not lock the currency** (`actions/organization/setCurrency.ts:16`). One metric can be rated in two.
4. **Ready but not finalizable** (`lib/billing-record-calculation.ts:115`). A draft lets a persisted rating win over a
   surviving mark; finalization lets the mark win. A corrected event keeps its `UnratedEvent` row, and a retry marker
   written after a committed rating is never deleted.
5. **Deactivation does not wait for a request that outlives its transaction**
   (`worker/processors/deliverBillingWebhook.ts:89`). The endpoint's row is locked for at most 7 s, the wait for it
   included, and the timeout ends the transaction, not the request. `docs/billing-webhook-ticket-01-operations.md:3`
   says that deactivation waits for an in-flight send. What does hold is `SendsOnlyWhileActive`: no request begins at
   an inactive endpoint, and none is deactivated under an open transaction.

**A processed event can be processed again** (`worker/processors/processLedgerEvent.ts:28-36`). The claim that waited
behind a completion takes the event from PROCESSED back to PROCESSING and completes it a second time, or leaves it FAILED
until a retry does; meanwhile drafts and finalizations see it as unprocessed. `.scratch/ledger-correctness/spec.md:38`
speaks of "durably recorded completion exactly once". `ProjectedIffProcessed` and `ProcessedIsFinal` except exactly the
events of such claims (`overtaken`), and `ImplementsContract` shows that nothing else comes of it: the event is
projected once and its outcome does not change. `FinalizesCurrentEvidence` shows that no month is finalized while one of
its events is being processed once more. No run of its own is spent on it.

A slow request can also insert an event into a month that has been finalized meanwhile: the receipt time is compared
with the close before the insert (`app/api/track/route.ts:70`). The model has this behaviour (`Receive`, `Insert`); no
document forbids it, so no property does.

Overlaps the models have and no property forbids: a payment and a failure of one invoice overwrite each other
(`markInvoicePaid.ts:30`); a failure makes a CANCELED subscription PAUSED (`markInvoiceFailed.ts:49`); two activations
leave two ACTIVE subscriptions, which `LegacyInvoicesStand` counts (`createSubscription.ts:44`); two tabs create two keys
or invitations of one name, and a rename repeats an Organization's name. `PressesAreSafe` takes a reason typed
again for a new one. The explanation of `FiguresAgree` is an inequality: the rows of an invoice's page may
add up to more than its Total once usage has grown.

Behaviours worth knowing that no document of the repository contradicts, so no run claims them: once a replayed cycle
is exhausted again, the same reason pressed on a page not rendered since answers "Replay queued" though nothing is;
`OrganizationForm` keeps its old name after a refresh; `getUsageSummary` adds up every subscription of the Organization
under a heading that says "Across current cycle"; `mark` and `ingest` of `scripts/pilot-evidence-restore.mjs` read,
change and write one file.

## 5. Proofs

`LedgerProcessingProofs`, for any number of events, slots, buckets, outcomes and faults:

* `TypeCorrect`, and `InvariantHolds` for the conjunction `IInv` of `TypeOK`, three facts about runs (`CommitsOwnClaim`,
  `ClaimsUnfinished`, `RatesProjected`), `IntentMatchesEvent`, `ProjectedIffProcessed` and `OneOutcomeAfterProjection`.
  They are inductive only together. What a run knows is what the row locks leave standing: who is about to complete still
  has the token, because a claim waits for the intent row; what a claim found not PROCESSED is so still or is
  `overtaken`; who is about to rate read PROCESSED, hence the event has its projection, which nothing takes away.
* The step lemma `StepIsDbStep` reduces the many actions to the few ways the tables change (`DbStep`): an acceptance,
  a claim, a completion, a release, a rating, a correction, an expiry. Each invariant is then proved against those.
* `IntentAgrees`, `ProjectionAgrees` and `OutcomeIsSingle` are its parts. `ProcessedStays` (for events not `overtaken`) and
  `LateWorkerHarmless` are the action properties; `Implements` is the refinement of
  `LedgerContract`, with `accepted`, `projected` and `outcome` as the mapping.

`PricingRatingProofs`, for any clock skew, allowance, schedule and number of reviews:

* `IInv` adds to the outcome properties three facts: timestamps of events not accepted early lie within the allowance
  of the clock, outcomes are of projected events and a corrected one keeps its evidence of the gap, and what a
  publication checked is still true while it holds the lock
  (`CheckedStillHolds`). The last one is why the checks and the commit may be apart: the schedule cannot grow, no event
  can be rated and the currency cannot change under the lock.
* `LaterVersionIsInvisible` carries the argument: a version later than an instant leaves the applicable ones alone.
* `PricesStand`, `OutcomesStand`, `CurrencyLocked`, `PastPricesStand`, `CorrectionsReviewed` are its consequences;
  `PastPricesStand` uses the assumption `TxLife <= Lead`.

`BillingRecordProofs`, for any events, months, identities and bounds:

* `EvidenceInv` is the part about evidence: a draft and the snapshot of a calculation are never ahead of what is
  committed (`DraftsArePast`), a calculation that may still publish over a draft started from evidence at least as new
  as the draft's (`CalculationsMoveOn`), and a decided finalization still agrees with the tables it has locked
  (`ApprovalsAreCurrent`). It rests on one step lemma, `StepGrowsEvidence`: no step withdraws an
  event, a rating or a completion, and nothing changes while a finalization holds the tables. `DraftsMoveOn` and `FinalVersionsCoverTheMonth` follow.
* `VersionInv` is the part about versions. `Chains` needs to know that the version a decided approval will supersede is
  current for as long as it holds the record's lock (`LockStep`): without it, the invariant is `VersionChain` and not
  inductive. `IdentitiesAreBound` ties every version to one committed binding, which gives `AnswersAreFinal` and
  `IdentitiesActOnce`.

`AcceptanceProofs`, for any requests, keys and contents: `IInv` adds to `TypeOK` that a request past a check had passed it
(`Begun`, `Passed`), that a key names one event (`OnePerKey`), that an answer names an event stored with the requester's
content (`ToldOfStored`) and that a request begun after an equal one was accepted can only find it (`PromisedRepeats`).
`RetriesStand` and the refinement `Implements` follow.

`BillingWebhookProofs`, for any endpoints, runs, scanners, owners, keys, attempts, cycles and faults:

* `IInv` is `TypeOK`; `DataOK`, about rows alone (each work row accounts for its attempts, a pending attempt is the
  row's claim, a success is recorded); `RunsOK` and `OneWriter`, what a run at each statement knows of the row it
  claimed; `SendsOnlyWhileActive`, for the requests of open transactions; `TxsOK` and `OneLocker`, what an open
  transaction knows of what it has read.
* The step lemma `StepIsRowStep` reduces all actions to what may happen to an endpoint's row (`EndpointStep`): it is
  created, reserved, settled, released, reopened, or a deadline of it passes. Every invariant about rows is proved
  against those.
* `OneCyclePerReplay` counts: the cycle of an endpoint is one more than the replay keys bound to it (`CycleCount`).
* `Implements` refines `WebhookContract`: a row that is not settled changes the contract's outcome or cycle in no step but
  its settlement and its replay (`OpenRowStays`, `CycleEnds`, `CycleReopens`), and an answer only adds to what its
  endpoint accepted (`AnswerRefines`).

`EvidenceLocksProofs`, for any number of sessions: `ApprovalsReadOneInstant`. The invariant is that no two sessions hold
conflicting locks (`Exclusive`) and that a finalization has shared a table before it reads it (`InOrder`, from which
`ReadsAreShared`); a commit that wrote what a finalization has read would need both. `DeadlocksAreTheApprovals` needs no
further invariant: where a transaction is in its order says what it holds and what it can wait for (`WhatTheyWaitFor`),
each member of a circle waits for one member and is waited for by another (`CirclesTurn`), and of all pairs of holding
and waiting only a writer against the locks of a finalization closes a circle (`OnlyAgainstApprovals`).

`FrontOfficeProofs` proves every property of `front_office` for any number of users, tabs, subscriptions, endpoints,
events and sessions, any prices and any bounds. Since `focus` never changes, a behaviour follows one component, and each
component has an inductive invariant `IInv`, which stands at the end of its module:

* `LegacyAggregation`: `Settles`, what a job at each read may still not know, and that a wakeup is then owed.
* `LegacyBilling`: `LegacyInvoicesStand` counts, so the invariant counts too. The invoices of a period and the runs about
  to insert one (`Creating`) are together no more than the runs that overlapped (`RunsAreCounted`). For subscriptions,
  `ActivationsAreCounted` says it of every set of open activations: what they would leave ACTIVE (`Left`), and one more
  for each of them, is no more than the activations that overlapped. Every set, because any of them may commit and an
  activation no longer takes away what another has canceled. `MarkingsStand` is what a payment or a failure knows of
  the subscription it read.
* `LegacyWebhook`: `InOrder` and `JobOK`, which attempt a job at each step can be for. The case that needs them is a
  stalled job that runs twice while the first run's successor is queued.
* `EndpointSecrets`: `Chain` relates the row to the secrets handed out; `RotationsExclude` and `SendsExclude` are the two
  locks, without which a rotation's early read of the row would be stale at its commit.
* `Organizations`: `MembersAdmitted`, with `RowsAreLive`, as a deletion takes members and invitations with it, and
  `AcceptancesStand`, as an acceptance decides on what it read of an invitation. `CreationsAreAlone` gives the names.
* `Console`: a row is held by the tab it was made for (`HeldRowsExist`, `HeldByOne`) in a dialog that cannot be closed
  meanwhile (`DialogsAreOpen`); `InsertionsAreNoted` is what an action past its look for a duplicate knows.
* `Pages`: `PressesAreSafe` is an action property. Its first half follows from `LabelsFit`; for the replays, no reason is
  typed twice (`ReasonsAreDrawn`) and all that was sent with one reason bears one key (`KeysFollowReasons`).
* `LedgerExport`: what is collected is the snapshot up to the last row read (`CollectedStands`), and what is fetched is the
  rows up to the cursor (`PageStands`), for every batch and page size. A count of places bounds the rows (`RowsFit`).
* `Showcase`: a dialog is modal, so what is approved cannot change under it (`DialogStands`). That each event has its
  half-up amount is `MinorIsHalfUp` of `MoneyProofs`.
* `Figures`: no figure shown or about to be billed exceeds what would be billed now (`EstimatesStand`, `JobStands`,
  `InvoiceStands`, `ViewStands`), as long as no total was corrected. `BillsGrow`: a bill grows with the plan and the usage.
* `TypesCorrect` draws the types of all of them together.

Sums and folds over sets of any size are needed for `Figures` and `Showcase`. The induction behind them is made by hand:
`EveryNatural` takes the least number outside a set, which well-foundedness of the naturals provides; it is applied to
the set of sizes for which the lemma about sums holds.

`MoneyProofs`: `MinorIsHalfUp`, rounding is half up for every price, quantity and scale, and `HalfUpIsUnique`, the
reference definition leaves no second answer.

Assumptions are the named `ASSUME`s of the modules: naturals where a bound is a number, null values outside the sets
they stand beside, that timeout, and finitely many metrics, subscriptions, invoices, owners and jobs where they are
counted or summed. TLC evaluates all of them.

Only model-checked: liveness (`ClaimedWorkCompletes`, `ProcessedWorkIsRated`, `PendingWorkIsTaken`, `EveryTargetSettles`),
because it needs ENABLED, and the findings, which are counterexamples. Every invariant, action property and refinement
of a passing run has its theorem.

## 6. Not modelled

* The legacy exclusion report: it only reads.
* Landing page, documentation site, and the pages that only list rows (analytics, audit log, metrics, customers).
* Operational scripts and tests, which drive the system from outside.
* One-row updates and deletions of plans, metrics and customers: a single statement each, with no check that another
  statement could overtake.
* The GET path of billing records, which repeats a calculation before it answers (see `BillingRecord` above).
* The receiver's legacy route, its bounded memory of event ids and its tolerance for timestamps.
* Events inserted behind the recovery scan's cursor: `LedgerProcessing` has the cursor, but its runs have one event.

## 7. Plan

Done: the ledger pipeline with its three contracts and their proofs, billing records with their locks, exact money, the
export, endpoint secrets, the legacy half, organizations, dialogs, pages and the demo.

Next, by what it would add:

1. A run of `LedgerProcessing` with several events, where the scan's cursor passes some of them.
2. The GET path of billing records, with the request's time read under the lock.
