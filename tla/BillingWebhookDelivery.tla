----------------------- MODULE BillingWebhookDelivery -----------------------
(***************************************************************************)
(* Delivery of one committed billing event (invoice.finalized or .revised)  *)
(* to its selected endpoints: the worker's claim and send                   *)
(* (worker/processors/deliverBillingWebhook.ts), the recovery scan          *)
(* (worker/recoverBillingWebhooks.ts), the owner's replay                   *)
(* (lib/webhooks/replay-billing.ts) and the deactivation of an endpoint.    *)
(*                                                                          *)
(* Transactions run at READ COMMITTED: one that reads, waits for a row lock *)
(* and writes is several steps, its writes invisible until it commits.  A   *)
(* row lock is derived from the step its holder has reached.                *)
(***************************************************************************)
EXTENDS Naturals, FiniteSets

CONSTANTS
    Endpoints,     \* the organization's subscribed endpoints
    Slots,         \* concurrent DELIVER_WEBHOOK runs, over all workers
    Scanners,      \* worker processes, each with one recovery scan at a time
    Owners,        \* concurrent replay requests
    Keys,          \* replay idempotency keys
    MaxAttempts,   \* attempts of a cycle (5)
    MaxCycles,     \* bound: cycles of an endpoint, one more than its replays
    MaxFaults,     \* bound: crashes, timeouts, lost connections, slow workers
    NoToken, NoWork, NoReplay, NoKey, NoEndpoint

ASSUME ConstantsOK ==
    /\ MaxAttempts \in Nat \ {0}
    /\ MaxCycles \in Nat \ {0}
    /\ MaxFaults \in Nat
    /\ NoToken \notin Slots
    /\ NoKey \notin Keys /\ IsFiniteSet(Keys)
    /\ NoEndpoint \notin Endpoints
    /\ Scanners \cap Owners = {}

Cycles   == 1..MaxCycles
Attempts == Cycles \X (1..MaxAttempts)      \* WebhookDelivery's (cycle, attempt)

\* BillingWebhookWork: lease is leaseUntil, due says dueAt <= now.
WorkRows == [cycle : Cycles, attempt : 0..MaxAttempts, failed : 0..MaxAttempts,
             terminal : BOOLEAN, completed : BOOLEAN,
             token : Slots \cup {NoToken}, lease : {"none", "live", "expired"},
             due : BOOLEAN]

ASSUME NullsOK ==
    /\ NoWork \notin WorkRows
    /\ NoReplay \notin Endpoints \X Cycles

NewWork == [cycle |-> 1, attempt |-> 0, failed |-> 0, terminal |-> FALSE,
            completed |-> FALSE, token |-> NoToken, lease |-> "none", due |-> TRUE]

VARIABLES
    \* PostgreSQL, committed
    selection,   \* absent (no event yet), unrecorded, recorded
    targets,     \* WebhookEvent.targetEndpointIds
    status,      \* WebhookEvent.status
    active,      \* WebhookEndpoint.active
    work,        \* BillingWebhookWork of each endpoint, or NoWork
    delivery,    \* WebhookDelivery.status of each endpoint and attempt
    replays,     \* BillingWebhookReplay by idempotency key
    \* queue and worker runs
    wakeups,     \* endpoints with a waiting DELIVER_WEBHOOK job
    pc, ep, no, result,    \* a run's step, endpoint, attempt and HTTP result
    \* transactions that end in refreshBillingStatus outside a send
    tx,
    \* the receivers
    received,    \* attempts whose request each endpoint's server accepted
    faults

event == <<selection, targets, status>>
rows  == <<work, delivery, replays>>
runs  == <<pc, ep, no, result>>
vars  == <<event, active, rows, wakeups, runs, tx, received, faults>>

Statuses   == {"PENDING", "NO_TARGET", "DELIVERED", "FAILED", "MIXED"}
Deliveries == {"none", "PENDING", "SUCCESS", "FAILED", "SKIPPED"}
Results    == {"none", "SUCCESS", "FAILED", "SKIPPED"}
PCs        == {"idle", "claim", "lock", "http", "late", "answered", "write"}
TxSteps    == {"idle", "read", "wrote", "computed"}
Refreshers == Scanners \cup Owners
Txs == [step : TxSteps, ep : Endpoints \cup {NoEndpoint},
        row : WorkRows \cup {NoWork},   \* read, and once written the new row
        writes : BOOLEAN,               \* the work row matched and is locked
        marks : BOOLEAN,                \* so did the PENDING delivery
        key : Keys \cup {NoKey}, status : Statuses]
NoTx == [step |-> "idle", ep |-> NoEndpoint, row |-> NoWork, writes |-> FALSE,
         marks |-> FALSE, key |-> NoKey, status |-> "PENDING"]

TypeOK ==
    /\ selection \in {"absent", "unrecorded", "recorded"}
    /\ targets \in SUBSET Endpoints
    /\ status \in Statuses
    /\ active \in [Endpoints -> BOOLEAN]
    /\ work \in [Endpoints -> WorkRows \cup {NoWork}]
    /\ delivery \in [Endpoints -> [Attempts -> Deliveries]]
    /\ replays \in [Keys -> (Endpoints \X Cycles) \cup {NoReplay}]
    /\ wakeups \in SUBSET Endpoints
    /\ pc \in [Slots -> PCs]
    /\ ep \in [Slots -> Endpoints \cup {NoEndpoint}]
    /\ no \in [Slots -> Attempts]
    /\ result \in [Slots -> Results]
    /\ tx \in [Refreshers -> Txs]
    /\ received \in [Endpoints -> SUBSET Attempts]
    /\ faults \in 0..MaxFaults

\* Before the event exists, or with an event committed before selection was
\* recorded in the finalization transaction.
Init ==
    /\ selection \in {"absent", "unrecorded"}
    /\ targets = {}
    /\ status = "PENDING"
    /\ active \in [Endpoints -> BOOLEAN]
    /\ work = [e \in Endpoints |-> NoWork]
    /\ delivery = [e \in Endpoints |-> [n \in Attempts |-> "none"]]
    /\ replays = [k \in Keys |-> NoReplay]
    /\ wakeups = {}
    /\ pc = [w \in Slots |-> "idle"]
    /\ ep = [w \in Slots |-> NoEndpoint]
    /\ no = [w \in Slots |-> <<1, 1>>]
    /\ result = [w \in Slots |-> "none"]
    /\ tx = [r \in Refreshers |-> NoTx]
    /\ received = [e \in Endpoints |-> {}]
    /\ faults = 0

Fault == faults < MaxFaults /\ faults' = faults + 1

-----------------------------------------------------------------------------
(* Outcomes, row locks.                                                     *)

\* billingEndpointOutcome
RowOutcome(row) ==
    IF row = NoWork THEN "PENDING"
    ELSE CASE row.terminal /\ row.completed      -> "DISABLED"
           [] row.terminal /\ ~ row.completed    -> "FAILED"
           [] ~ row.terminal /\ row.completed    -> "DELIVERED"
           [] OTHER                              -> "PENDING"

\* What refreshBillingStatus writes when it reads the work table wk.
Aggregate(wk) ==
    LET has(o) == \E e \in targets : RowOutcome(wk[e]) = o
        failed == has("FAILED") \/ has("DISABLED")
    IN  CASE has("PENDING")                  -> "PENDING"
          [] failed /\ has("DELIVERED")      -> "MIXED"
          [] failed                          -> "FAILED"
          [] has("DELIVERED")                -> "DELIVERED"
          [] OTHER                           -> "NO_TARGET"

\* A send holds its endpoint row from its first statement to its end, and the
\* event row from the answer on.
EndpointHeld(e) == \E w \in Slots : pc[w] \in {"http", "answered", "write"} /\ ep[w] = e
EventHeld       == \E w \in Slots : pc[w] = "write"

\* A transaction outside a send locks the rows it wrote; a replay's new row also
\* holds, for its foreign keys, the event and endpoint rows against FOR UPDATE.
Open(r)         == tx[r].step \in {"wrote", "computed"}
Referenced      == {r \in Owners : Open(r)}
LocksRow(r, e)  == Open(r) /\ tx[r].ep = e /\ (tx[r].writes \/ tx[r].marks)
RowLocked(e)    == \E r \in Refreshers : LocksRow(r, e)

-----------------------------------------------------------------------------
(* The event, its selection and its work rows.                              *)

\* Finalization or revision commits the event with the endpoints active now.
CommitEvent ==
    /\ selection = "absent"
    /\ selection' = "recorded"
    /\ targets' = {e \in Endpoints : active[e]}
    /\ status' = IF \E e \in Endpoints : active[e] THEN "PENDING" ELSE "NO_TARGET"
    /\ UNCHANGED <<active, rows, wakeups, runs, tx, received, faults>>

\* The recovery scan records the selection of an older event, once (FOR UPDATE
\* SKIP LOCKED and the IS NULL recheck).
Select ==
    /\ selection = "unrecorded"
    /\ selection' = "recorded"
    /\ targets' = {e \in Endpoints : active[e]}
    /\ status' = IF \E e \in Endpoints : active[e] THEN "PENDING" ELSE "NO_TARGET"
    /\ UNCHANGED <<active, rows, wakeups, runs, tx, received, faults>>

CreateWork ==
    /\ status = "PENDING"
    /\ \E e \in targets : work[e] = NoWork
    /\ work' = [e \in Endpoints |-> IF e \in targets /\ work[e] = NoWork
                                    THEN NewWork ELSE work[e]]
    /\ UNCHANGED <<event, active, delivery, replays, wakeups, runs, tx, received,
                   faults>>

\* dispatchCommittedBillingEvent, after the finalization or a retry of it; may
\* never happen.  Two waiting jobs of one endpoint count as one.
Dispatch(e) ==
    /\ e \in targets
    /\ wakeups' = wakeups \cup {e}
    /\ UNCHANGED <<event, active, rows, runs, tx, received, faults>>

Claimable(e) ==
    /\ work[e] # NoWork
    /\ ~ work[e].completed /\ ~ work[e].terminal
    /\ work[e].attempt < MaxAttempts
    /\ work[e].due
    /\ work[e].token = NoToken /\ work[e].lease = "none"

\* The scan's due list and its queue.add: a stale entry is only a hint, the
\* claim re-checks everything.
Wake(e) ==
    /\ Claimable(e)
    /\ wakeups' = wakeups \cup {e}
    /\ UNCHANGED <<event, active, rows, runs, tx, received, faults>>

\* toggleWebhook: the UPDATE waits for a send that holds the row.
Toggle(e) ==
    /\ ~ EndpointHeld(e)
    /\ active' = [active EXCEPT ![e] = ~ @]
    /\ UNCHANGED <<event, rows, wakeups, runs, tx, received, faults>>

-----------------------------------------------------------------------------
(* deliverBillingWebhook                                                    *)

End(w) ==
    /\ pc' = [pc EXCEPT ![w] = "idle"]
    /\ ep' = [ep EXCEPT ![w] = NoEndpoint]
    /\ no' = [no EXCEPT ![w] = <<1, 1>>]
    /\ result' = [result EXCEPT ![w] = "none"]

Take(w, e) ==
    /\ pc[w] = "idle"
    /\ e \in wakeups
    /\ wakeups' = wakeups \ {e}
    /\ pc' = [pc EXCEPT ![w] = "claim"]
    /\ ep' = [ep EXCEPT ![w] = e]
    /\ UNCHANGED <<event, active, rows, no, result, tx, received, faults>>

\* A claim reserves the next attempt and gives it a delivery row; the cycle's
\* PENDING rows, which none should be left of, become FAILED.
Reserves(w, e) ==
    LET row == work[e]
        n   == <<row.cycle, row.attempt + 1>>
    IN  /\ work' = [work EXCEPT ![e] = [row EXCEPT !.token = w, !.lease = "live",
                                                   !.attempt = @ + 1]]
        /\ delivery' = [delivery EXCEPT ![e] = [m \in Attempts |->
                          IF m = n THEN IF active[e] THEN "PENDING" ELSE "SKIPPED"
                          ELSE IF m[1] = row.cycle /\ @[m] = "PENDING"
                               THEN "FAILED" ELSE @[m]]]
        /\ no' = [no EXCEPT ![w] = n]

\* One step although it waits: the work row by a replay, and, for the foreign
\* keys of the new delivery, the event and endpoint rows a send may hold.
Claim(w) ==
    /\ pc[w] = "claim"
    /\ Claimable(ep[w])
    /\ ~ RowLocked(ep[w]) /\ ~ EventHeld /\ ~ EndpointHeld(ep[w])
    /\ Reserves(w, ep[w])
    /\ pc' = [pc EXCEPT ![w] = "lock"]
    /\ UNCHANGED <<event, active, replays, wakeups, ep, result, tx, received, faults>>

ClaimNothing(w) ==
    /\ pc[w] = "claim"
    /\ ~ Claimable(ep[w])
    /\ End(w)
    /\ UNCHANGED <<event, active, rows, wakeups, tx, received, faults>>

\* The send's transaction locks the endpoint and decides by what it reads then,
\* not by what the claim read.
BugSendsAsClaimed(w) == delivery[ep[w]][no[w]] = "PENDING"

Sends(w) == active[ep[w]]

LockEndpoint(w) ==
    /\ pc[w] = "lock"
    /\ ~ EndpointHeld(ep[w])
    /\ \A r \in Referenced : tx[r].ep # ep[w]
    /\ IF Sends(w)
       THEN pc' = [pc EXCEPT ![w] = "http"] /\ UNCHANGED result
       ELSE /\ pc' = [pc EXCEPT ![w] = "answered"]
            /\ result' = [result EXCEPT ![w] = "SKIPPED"]
    /\ UNCHANGED <<event, active, rows, wakeups, ep, no, tx, received, faults>>

\* The 7 s timeout of the transaction, which a wait for the endpoint row may have
\* used up, or the loss of its connection frees the row.  The callback's request
\* goes on.
SendTimesOut(w) ==
    /\ pc[w] = "http"
    /\ Fault
    /\ pc' = [pc EXCEPT ![w] = "late"]
    /\ UNCHANGED <<event, active, rows, wakeups, ep, no, result, tx, received>>

\* Whether or not its receiver accepted, the callback's next statement throws.
LateAnswer(w) ==
    /\ pc[w] = "late"
    /\ \E accepts \in BOOLEAN :
         received' = IF accepts
                     THEN [received EXCEPT ![ep[w]] = @ \cup {no[w]}]
                     ELSE received
    /\ End(w)
    /\ UNCHANGED <<event, active, rows, wakeups, tx, faults>>

\* The receiver accepts and answers 2xx, accepts with the answer lost or late,
\* or does not accept.
Answer(w) ==
    /\ pc[w] = "http"
    /\ pc' = [pc EXCEPT ![w] = "answered"]
    /\ \E accepts, answered \in BOOLEAN :
         /\ received' = IF accepts
                        THEN [received EXCEPT ![ep[w]] = @ \cup {no[w]}]
                        ELSE received
         /\ result' = [result EXCEPT ![w] =
                         IF accepts /\ answered THEN "SUCCESS" ELSE "FAILED"]
    /\ UNCHANGED <<event, active, rows, wakeups, ep, no, tx, faults>>

\* claimToken is a fresh UUID per claim; a slot reused by a later run is told
\* apart by the attempt it reserved.
BugOwnsAnyClaim(w) == work[ep[w]].token # NoToken

OwnsClaim(w) ==
    /\ work[ep[w]].token = w
    /\ <<work[ep[w]].cycle, work[ep[w]].attempt>> = no[w]

\* SELECT ... FROM "WebhookEvent" FOR UPDATE, then the read of the work row:
\* a later claim owns the result.
LockEvent(w) ==
    /\ pc[w] = "answered"
    /\ ~ EventHeld
    /\ Referenced = {}
    /\ IF OwnsClaim(w)
       THEN pc' = [pc EXCEPT ![w] = "write"] /\ UNCHANGED <<ep, no, result>>
       ELSE End(w)
    /\ UNCHANGED <<event, active, rows, wakeups, tx, received, faults>>

BugSettledOneMore(w) ==
    LET row  == work[ep[w]]
        fail == result[w] = "FAILED"
        last == row.attempt > MaxAttempts
    IN  [row EXCEPT !.token = NoToken, !.lease = "none",
                    !.completed = ~ fail,
                    !.failed = IF fail THEN @ + 1 ELSE @,
                    !.terminal = result[w] = "SKIPPED" \/ (fail /\ last),
                    !.due = IF fail /\ ~ last THEN FALSE ELSE @]

SettledRow(w) ==
    LET row  == work[ep[w]]
        fail == result[w] = "FAILED"
        last == row.attempt >= MaxAttempts
    IN  [row EXCEPT !.token = NoToken, !.lease = "none",
                    !.completed = ~ fail,
                    !.failed = IF fail THEN @ + 1 ELSE @,
                    !.terminal = result[w] = "SKIPPED" \/ (fail /\ last),
                    !.due = IF fail /\ ~ last THEN FALSE ELSE @]

\* The result, the work row and the event's status, in one commit; waits for
\* the rows a reconciliation holds.
Settle(w) ==
    /\ pc[w] = "write"
    /\ ~ RowLocked(ep[w])
    /\ delivery' = [delivery EXCEPT ![ep[w]][no[w]] = result[w]]
    /\ work' = [work EXCEPT ![ep[w]] = SettledRow(w)]
    /\ status' = Aggregate(work')
    /\ End(w)
    /\ UNCHANGED <<selection, targets, active, replays, wakeups, tx, received, faults>>

\* The process dies, or a transaction with no request in flight times out or
\* loses its connection: nothing of it stays, the job is not retried.
RunAborts(w) ==
    /\ pc[w] # "idle"
    /\ Fault
    /\ End(w)
    /\ UNCHANGED <<event, active, rows, wakeups, tx, received>>

-----------------------------------------------------------------------------
(* Reconciliation of an expired claim (recoverBillingWebhooks).             *)

Expired(row) == row # NoWork /\ row.token # NoToken /\ row.lease = "expired"

\* The read, without a lock.
ReadExpired(r, e) ==
    /\ tx[r] = NoTx
    /\ Expired(work[e])
    /\ tx' = [tx EXCEPT ![r] = [NoTx EXCEPT !.step = "read", !.ep = e,
                                            !.row = work[e]]]
    /\ UNCHANGED <<event, active, rows, wakeups, runs, received, faults>>

BugSameEndpoint(row, seen) == row # NoWork

\* updateMany where claimToken is the one read.
SameClaim(row, seen) ==
    row.token = seen.token /\ row.cycle = seen.cycle /\ row.attempt = seen.attempt

BugGivesUpNever(row) == [row EXCEPT !.token = NoToken, !.lease = "none",
                                    !.failed = @ + 1, !.due = FALSE]
BugReleasesOnly(row) == [row EXCEPT !.token = NoToken, !.lease = "none",
                                    !.terminal = row.attempt >= MaxAttempts,
                                    !.due = row.attempt >= MaxAttempts]

ReleasedRow(row) ==
    LET last == row.attempt >= MaxAttempts
    IN  [row EXCEPT !.token = NoToken, !.lease = "none", !.failed = @ + 1,
                    !.terminal = last, !.due = IF last THEN @ ELSE FALSE]

\* The two updates, each of what still matches, which stays locked.
Mark(r) ==
    LET e == tx[r].ep
        n == <<tx[r].row.cycle, tx[r].row.attempt>>
        owned == SameClaim(work[e], tx[r].row)
    IN  /\ tx[r].step = "read"
        /\ ~ RowLocked(e)
        /\ tx' = [tx EXCEPT ![r] = [@ EXCEPT
                    !.step = "wrote",
                    !.writes = owned,
                    !.marks = delivery[e][n] = "PENDING",
                    !.row = IF owned THEN ReleasedRow(work[e]) ELSE tx[r].row]]
        /\ UNCHANGED <<event, active, rows, wakeups, runs, received, faults>>

-----------------------------------------------------------------------------
(* replayBillingWebhookForActor                                             *)

\* A key that was used returns the first answer or a conflict; no step.
BugKeyUnchecked(k) == k \in Keys

KeyUnused(k) ==
    replays[k] = NoReplay /\ \A r \in Owners : tx[r].key # k

Replayable(e) ==
    /\ work[e] # NoWork
    /\ work[e].terminal /\ ~ work[e].completed
    /\ work[e].token = NoToken /\ work[e].lease = "none"
    /\ work[e].attempt >= MaxAttempts
    /\ work[e].cycle < MaxCycles

\* Up to the two writes: all of it follows the row lock of the first statement.
StartReplay(r, e, k) ==
    /\ tx[r] = NoTx
    /\ ~ RowLocked(e) /\ ~ EventHeld /\ ~ EndpointHeld(e)
    /\ KeyUnused(k)
    /\ Replayable(e)
    /\ tx' = [tx EXCEPT ![r] = [NoTx EXCEPT
                !.step = "wrote", !.ep = e, !.writes = TRUE, !.key = k,
                !.row = [NewWork EXCEPT !.cycle = work[e].cycle + 1]]]
    /\ UNCHANGED <<event, active, rows, wakeups, runs, received, faults>>

-----------------------------------------------------------------------------
(* refreshBillingStatus at the end of a reconciliation or a replay.         *)

OwnWork(r) == IF tx[r].writes THEN [work EXCEPT ![tx[r].ep] = tx[r].row] ELSE work

\* It reads all work rows: its own writes and what others have committed.
Compute(r) ==
    /\ tx[r].step = "wrote"
    /\ tx' = [tx EXCEPT ![r] = [@ EXCEPT !.step = "computed",
                                         !.status = Aggregate(OwnWork(r))]]
    /\ UNCHANGED <<event, active, rows, wakeups, runs, received, faults>>

\* Its UPDATE of the event waits for a send that holds the row, then commits.
BugCommitForgetsMark(r) == delivery

MarkedDelivery(r) ==
    LET row == tx[r].row
    IN  IF tx[r].marks
        THEN [delivery EXCEPT ![tx[r].ep][<<row.cycle, row.attempt>>] = "FAILED"]
        ELSE delivery

Commit(r) ==
    /\ tx[r].step = "computed"
    /\ ~ EventHeld
    /\ work' = OwnWork(r)
    /\ delivery' = MarkedDelivery(r)
    /\ replays' = IF tx[r].key \in Keys
                  THEN [replays EXCEPT ![tx[r].key] = <<tx[r].ep, tx[r].row.cycle>>]
                  ELSE replays
    /\ status' = tx[r].status
    /\ tx' = [tx EXCEPT ![r] = NoTx]
    /\ UNCHANGED <<selection, targets, active, wakeups, runs, received, faults>>

TxAborts(r) ==
    /\ tx[r] # NoTx
    /\ Fault
    /\ tx' = [tx EXCEPT ![r] = NoTx]
    /\ UNCHANGED <<event, active, rows, wakeups, runs, received>>

\* A send that holds the event waits for rows of a transaction that waits for
\* the event: PostgreSQL aborts one of them.
Deadlock(w, r) == pc[w] = "write" /\ tx[r].step = "computed" /\ LocksRow(r, ep[w])

BreakDeadlock(w, r) ==
    /\ Deadlock(w, r)
    /\ \/ End(w) /\ UNCHANGED tx
       \/ tx' = [tx EXCEPT ![r] = NoTx] /\ UNCHANGED runs
    /\ UNCHANGED <<event, active, rows, wakeups, received, faults>>

-----------------------------------------------------------------------------
(* Time                                                                     *)

\* 30 s; a send ends within 7 s, so a run still at work then is a fault.
LeaseExpires(e) ==
    /\ work[e] # NoWork
    /\ work[e].lease = "live"
    /\ work' = [work EXCEPT ![e].lease = "expired"]
    /\ IF \E w \in Slots : ep[w] = e /\ pc[w] \notin {"idle", "claim"} /\ OwnsClaim(w)
       THEN Fault ELSE UNCHANGED faults
    /\ UNCHANGED <<event, active, delivery, replays, wakeups, runs, tx, received>>

ComesDue(e) ==
    /\ work[e] # NoWork
    /\ ~ work[e].due
    /\ work' = [work EXCEPT ![e].due = TRUE]
    /\ UNCHANGED <<event, active, delivery, replays, wakeups, runs, tx, received, faults>>

-----------------------------------------------------------------------------

RunStep(w) ==
    \/ Claim(w) \/ ClaimNothing(w) \/ LockEndpoint(w)
    \/ Answer(w) \/ LateAnswer(w) \/ LockEvent(w) \/ Settle(w)

Next ==
    \/ CommitEvent
    \/ Select
    \/ CreateWork
    \/ \E e \in Endpoints : Dispatch(e)
    \/ \E e \in Endpoints : Wake(e)
    \/ \E e \in Endpoints : Toggle(e)
    \/ \E w \in Slots, e \in Endpoints : Take(w, e)
    \/ \E w \in Slots : RunStep(w)
    \/ \E w \in Slots : RunAborts(w) \/ SendTimesOut(w)
    \/ \E r \in Scanners, e \in Endpoints : ReadExpired(r, e)
    \/ \E r \in Scanners : Mark(r)
    \/ \E r \in Owners, e \in Endpoints, k \in Keys : StartReplay(r, e, k)
    \/ \E r \in Refreshers : Compute(r)
    \/ \E r \in Refreshers : Commit(r)
    \/ \E r \in Refreshers : TxAborts(r)
    \/ \E w \in Slots, r \in Refreshers : BreakDeadlock(w, r)
    \/ \E e \in Endpoints : LeaseExpires(e)
    \/ \E e \in Endpoints : ComesDue(e)

Spec == Init /\ [][Next]_vars

\* Requests end (a 5 s HTTP timeout, a 7 s transaction), the scan runs every
\* second, deadlines pass.  Dispatch, replays, deactivation and faults are
\* never owed; a lock that is free again and again is obtained.
Fairness ==
    /\ WF_vars(Select)
    /\ WF_vars(CreateWork)
    /\ \A e \in Endpoints :
         /\ SF_vars(Wake(e))
         /\ SF_vars(\E w \in Slots : Take(w, e))
         /\ SF_vars(\E r \in Scanners : ReadExpired(r, e))
         /\ WF_vars(LeaseExpires(e) /\ UNCHANGED faults)
         /\ WF_vars(ComesDue(e))
    /\ \A w \in Slots : SF_vars(RunStep(w))
    /\ \A r \in Scanners : SF_vars(Mark(r))
    /\ \A r \in Refreshers : WF_vars(Compute(r)) /\ SF_vars(Commit(r))
    /\ \A w \in Slots, r \in Refreshers : WF_vars(BreakDeadlock(w, r))

FairSpec == Spec /\ Fairness

-----------------------------------------------------------------------------
(* What a target is promised.                                               *)

Outcome(e) == RowOutcome(work[e])

CycleOf(e) == IF work[e] = NoWork THEN 1 ELSE work[e].cycle

Contract == INSTANCE WebhookContract WITH
    cycle    <- [e \in Endpoints |-> CycleOf(e)],
    outcome  <- [e \in Endpoints |-> Outcome(e)],
    accepted <- [e \in Endpoints |-> {n[1] : n \in received[e]}]

\* The delivery refines WebhookContract: a cycle is DELIVERED only after its
\* receiver accepted a request of it, outcomes are final, and only the replay
\* of a FAILED target opens another cycle, whatever crashes, expired leases,
\* late workers and duplicate jobs do.
ImplementsContract == Contract!Spec

-----------------------------------------------------------------------------
(* Safety                                                                   *)

\* Every reserved attempt is accounted for exactly once, by the run that made it
\* or by the reconciliation of its claim, never by both.
AttemptsAccounted ==
    \A e \in Endpoints : work[e] # NoWork =>
        LET open == work[e].completed \/ work[e].token # NoToken
        IN  work[e].attempt = work[e].failed + IF open THEN 1 ELSE 0

\* No row is left that neither a claim nor a reconciliation nor a replay can
\* move and that is not settled; a settled one holds no claim.
UnsettledCanMove ==
    \A e \in Endpoints : work[e] # NoWork =>
        LET row == work[e]
        IN  /\ row.token = NoToken <=> row.lease = "none"
            /\ row.completed \/ row.terminal => row.token = NoToken
            /\ (row.token = NoToken /\ ~ row.completed)
                  => (row.terminal <=> row.attempt = MaxAttempts)

\* An attempt is PENDING in the history only while its claim lasts: a crash
\* leaves none behind once reconciled, a late worker revives none.
PendingAttemptIsClaimed ==
    \A e \in Endpoints, n \in Attempts :
        delivery[e][n] = "PENDING" =>
            /\ work[e] # NoWork /\ work[e].token # NoToken
            /\ n = <<work[e].cycle, work[e].attempt>>

\* The work row and the attempt history agree on success: DELIVERED exactly
\* with a SUCCESS of this very attempt, which the receiver did accept.
SuccessIsRecorded ==
    \A e \in Endpoints, n \in Attempts :
        /\ delivery[e][n] = "SUCCESS" =>
             /\ n \in received[e]
             /\ Outcome(e) = "DELIVERED" /\ n = <<work[e].cycle, work[e].attempt>>
        /\ (Outcome(e) = "DELIVERED" /\ n = <<work[e].cycle, work[e].attempt>>)
             => delivery[e][n] = "SUCCESS"

\* A request begins only at an active endpoint, and no deactivation commits while
\* the transaction that sent it is open.
SendsOnlyWhileActive ==
    \A w \in Slots : pc[w] = "http" => active[ep[w]]

\* docs/billing-webhook-ticket-01-operations.md: "Deactivation waits for an
\* in-flight send to finish".  No request is in flight to an inactive endpoint.
DeactivationWaits ==
    \A w \in Slots : pc[w] \in {"http", "late"} => active[ep[w]]

\* Each replay row opened one cycle and each cycle after the first has one.
OneCyclePerReplay ==
    \A e \in Endpoints :
        CycleOf(e) = 1 + Cardinality({k \in Keys : \E c \in Cycles : replays[k] = <<e, c>>})

\* deliverBillingWebhook.ts: "Serialize aggregate status updates across
\* endpoints of this event"; docs/billing-webhook-ticket-04-operations.md: "The
\* event status is pending while any endpoint can retry; it is delivered if all
\* selected endpoints succeed, failed if all are terminal failures or
\* disabled".  With no transaction open, the status is the targets' aggregate.
StatusIsAggregate ==
    (\A w \in Slots : pc[w] # "write") /\ (\A r \in Refreshers : tx[r] = NoTx)
    /\ selection = "recorded"
        => status = Aggregate(work)

-----------------------------------------------------------------------------
(* Liveness                                                                 *)

\* Every selected endpoint's cycle ends, whatever crashed: the scan finds the
\* work, expired claims are reconciled and attempts run out.
EveryTargetSettles ==
    \A e \in Endpoints : e \in targets ~> Outcome(e) # "PENDING"
=============================================================================
