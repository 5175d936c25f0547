-------------------------- MODULE LedgerProcessing --------------------------
(***************************************************************************)
(* The durable processing of accepted ledger events: the PROCESS_LEDGER    *)
(* EVENT job (worker/processors/processLedgerEvent.ts), the rating attempt  *)
(* it ends with (worker/processors/rateCustomerEvent.ts) and the two scans  *)
(* that find work no job will finish (worker/recoverLedgerWork.ts).         *)
(*                                                                          *)
(* A transaction is a single step unless it waits between what it reads and *)
(* what it writes: a statement at READ COMMITTED takes its snapshot first,   *)
(* waits for the row, and then re-reads that row only.  BullMQ is external: *)
(* a job id that exists in any state, failed included, makes queue.add a     *)
(* no-op.                                                                   *)
(* Time is the expiry of what has a deadline: a lease, a settle window, a   *)
(* retry delay, the 5 s bucket in a recovery job's id.                      *)
(***************************************************************************)
EXTENDS Naturals, FiniteSets

CONSTANTS
    NumEvents,   \* events are 1..NumEvents, in the scan's (createdAt, id) order
    Slots,       \* concurrent executions: worker concurrency, over all workers
    BatchSize,   \* SCAN_BATCH_SIZE
    Outcomes,    \* the outcome tables a rating can write under the price schedule
    NumBuckets,  \* consecutive 5 s buckets whose job ids are kept apart
    NoToken, NoJob,
    MaxFaults    \* bound on lost calls, failed statements, crashes, slow workers

ASSUME ConstantsOK ==
    /\ NumEvents \in Nat
    /\ BatchSize \in Nat \ {0}
    /\ NumBuckets \in Nat \ {0}
    /\ MaxFaults \in Nat
    /\ Outcomes \subseteq {"RatedEvent", "UnratedEvent", "RatingFailure"}
    /\ NoToken \notin Slots

Events == 1..NumEvents

\* Job ids: ledger-<id>, recover-pending-<id>, recover-<id>-<bucket> and
\* rate-<id>-<bucket>, the bucket kept modulo NumBuckets.
Kinds    == {"ledger", "pending", "recover", "rate"}
Bucketed == {"recover", "rate"}
JobIds   == [kind : Kinds, ev : Events, bucket : 0..(NumBuckets - 1)]

ASSUME NoJobIsNoId == NoJob \notin JobIds

VARIABLES
    \* PostgreSQL
    evState,    \* UsageEvent.processingState, "absent" before acceptance
    lease,      \* LedgerProcessingIntent.leaseUntil: none (null), live, expired
    token,      \* LedgerProcessingIntent.leaseToken
    projected,  \* events with a LedgerEventProjection row
    outcome,    \* outcome[e]: the outcome tables that hold a row of e
    retry,      \* RatingRetry row of e: none, waiting, due (retryAfter <= now)
    fresh,      \* events accepted less than PENDING_DISPATCH_SETTLE_MS ago
    \* the API process
    dispatch,   \* events whose first queue.add is still in flight
    \* Redis
    job, redelivered, bucket,
    \* worker processes
    pc, jobOf,        \* what each slot runs
    scan, cursor,     \* recoverLedgerIntents: candidates left, scanAfter
    ratingScan,       \* recoverUnratedRatings: candidates left
    faults,
    overtaken   \* history: events last completed while a claim of them was under way

db      == <<evState, lease, token, projected, outcome, retry, overtaken>>
queue   == <<job, redelivered, bucket>>
slots   == <<pc, jobOf>>
scanner == <<scan, cursor, ratingScan>>
vars    == <<db, fresh, dispatch, queue, slots, scanner, faults>>

EventStates == {"absent", "PENDING", "PROCESSING", "PROCESSED", "FAILED"}
Leases      == {"none", "live", "expired"}
Retries     == {"none", "waiting", "due"}
JobStates   == {"absent", "waiting", "active", "failed"}
PCs         == {"idle", "claim", "claiming", "project", "commit", "fail",
                "rate", "rating", "recordRetry"}
ScanStates  == {"no", "PENDING", "recheck", "addPending", "addRetry"}

TypeOK ==
    /\ evState \in [Events -> EventStates]
    /\ lease \in [Events -> Leases]
    /\ token \in [Events -> Slots \cup {NoToken}]
    /\ projected \in SUBSET Events
    /\ outcome \in [Events -> SUBSET (Outcomes \cup {"RatedEvent"})]
    /\ retry \in [Events -> Retries]
    /\ fresh \in SUBSET Events
    /\ dispatch \in SUBSET Events
    /\ job \in [JobIds -> JobStates]
    /\ redelivered \in SUBSET JobIds
    /\ bucket \in 0..(NumBuckets - 1)
    /\ pc \in [Slots -> PCs]
    /\ jobOf \in [Slots -> JobIds \cup {NoJob}]
    /\ \A w \in Slots : pc[w] # "idle" => jobOf[w] \in JobIds
    /\ scan \in [Events -> ScanStates]
    /\ cursor \in 0..NumEvents
    /\ ratingScan \in SUBSET Events
    /\ faults \in 0..MaxFaults
    /\ overtaken \in SUBSET Events

Init ==
    /\ evState = [e \in Events |-> "absent"]
    /\ lease = [e \in Events |-> "none"]
    /\ token = [e \in Events |-> NoToken]
    /\ projected = {}
    /\ outcome = [e \in Events |-> {}]
    /\ retry = [e \in Events |-> "none"]
    /\ fresh = {}
    /\ dispatch = {}
    /\ job = [id \in JobIds |-> "absent"]
    /\ redelivered = {}
    /\ bucket = 0
    /\ pc = [w \in Slots |-> "idle"]
    /\ jobOf = [w \in Slots |-> NoJob]
    /\ scan = [e \in Events |-> "no"]
    /\ cursor = 0
    /\ ratingScan = {}
    /\ faults = 0
    /\ overtaken = {}

Fault == faults < MaxFaults /\ faults' = faults + 1

EventOf(w)    == jobOf[w].ev
Claimable(e)  == lease[e] \in {"none", "expired"}
JobId(k, e)   == [kind |-> k, ev |-> e,
                  bucket |-> IF k \in Bucketed THEN bucket ELSE 0]

-----------------------------------------------------------------------------
(* Acceptance and its dispatch (app/api/track/route.ts).                   *)

\* The event and its processing intent commit in one transaction.
Accept(e) ==
    /\ evState[e] = "absent"
    /\ evState' = [evState EXCEPT ![e] = "PENDING"]
    /\ fresh' = fresh \cup {e}
    /\ dispatch' = dispatch \cup {e}
    /\ UNCHANGED <<lease, token, projected, outcome, retry, overtaken, queue,
                   slots, scanner, faults>>

\* queue.add: a no-op when the id already exists.
Enqueue(id) ==
    /\ job' = IF job[id] = "absent" THEN [job EXCEPT ![id] = "waiting"] ELSE job
    /\ UNCHANGED <<redelivered, bucket>>

\* The first add may land after the API gave up waiting for it (500 ms).
Dispatch(e) ==
    /\ e \in dispatch
    /\ dispatch' = dispatch \ {e}
    /\ Enqueue(JobId("ledger", e))
    /\ UNCHANGED <<db, fresh, slots, scanner, faults>>

\* Redis is down, or the API process ends before it calls add.
DispatchLost(e) ==
    /\ e \in dispatch
    /\ dispatch' = dispatch \ {e}
    /\ Fault
    /\ UNCHANGED <<db, fresh, queue, slots, scanner>>

-----------------------------------------------------------------------------
(* BullMQ (external): delivery, removal, stalled jobs.                     *)

Take(w, id) ==
    /\ pc[w] = "idle" /\ job[id] = "waiting"
    /\ job' = [job EXCEPT ![id] = "active"]
    /\ pc' = [pc EXCEPT ![w] = "claim"]
    /\ jobOf' = [jobOf EXCEPT ![w] = id]
    /\ UNCHANGED <<db, fresh, dispatch, redelivered, bucket, scanner, faults>>

\* The processor returned: removeOnComplete frees the id.
Return(w) ==
    /\ job' = [job EXCEPT ![jobOf[w]] = "absent"]
    /\ redelivered' = redelivered \ {jobOf[w]}
    /\ pc' = [pc EXCEPT ![w] = "idle"]
    /\ jobOf' = [jobOf EXCEPT ![w] = NoJob]
    /\ UNCHANGED bucket

\* The processor threw: attempts is 1 and no ledger job sets removeOnFail, so
\* the failed job keeps its id.
Throw(w) ==
    /\ job' = [job EXCEPT ![jobOf[w]] = "failed"]
    /\ pc' = [pc EXCEPT ![w] = "idle"]
    /\ jobOf' = [jobOf EXCEPT ![w] = NoJob]
    /\ UNCHANGED <<redelivered, bucket>>

Goto(w, label) ==
    /\ pc' = [pc EXCEPT ![w] = label]
    /\ UNCHANGED <<jobOf, queue>>

\* The process dies; its job stays active until BullMQ finds it stalled.
Crash(w) ==
    /\ pc[w] # "idle"
    /\ Fault
    /\ pc' = [pc EXCEPT ![w] = "idle"]
    /\ jobOf' = [jobOf EXCEPT ![w] = NoJob]
    /\ UNCHANGED <<db, fresh, dispatch, queue, scanner>>

\* A stalled job is redelivered once (maxStalledCount = 1), then failed.
StalledCheck(id) ==
    /\ job[id] = "active"
    /\ \A w \in Slots : jobOf[w] # id
    /\ \/ /\ id \notin redelivered
          /\ job' = [job EXCEPT ![id] = "waiting"]
          /\ redelivered' = redelivered \cup {id}
       \/ /\ id \in redelivered
          /\ job' = [job EXCEPT ![id] = "failed"]
          /\ UNCHANGED redelivered
    /\ UNCHANGED <<db, fresh, dispatch, bucket, slots, scanner, faults>>

-----------------------------------------------------------------------------
(* processLedgerEvent                                                      *)

\* The claim is one UPDATE.  Its snapshot decides on the lease and, through the
\* relation, on the event's state; then it waits for the intent row, which a
\* completion may hold, and re-reads the lease but not the state.
BugMatchesAnyState(e) == Claimable(e)

Matches(e) ==
    /\ evState[e] \in {"PENDING", "PROCESSING", "FAILED"}
    /\ Claimable(e)

Held(e) == \E w \in Slots : pc[w] = "commit" /\ EventOf(w) = e

\* A fresh token, a 30 s lease.  A slot stands for the random token of its run:
\* no two runs of one slot overlap, and a run that claims overwrites whatever
\* token its slot left behind.
TakesLease(w, e) ==
    /\ token' = [token EXCEPT ![e] = w]
    /\ lease' = [lease EXCEPT ![e] = "live"]
    /\ evState' = [evState EXCEPT ![e] = "PROCESSING"]
    /\ UNCHANGED <<projected, outcome, retry, overtaken>>

ClaimStarts(w) ==
    /\ pc[w] = "claim"
    /\ Goto(w, IF Matches(EventOf(w)) THEN "claiming" ELSE "rate")
    /\ UNCHANGED <<db, fresh, dispatch, scanner, faults>>

Claim(w) ==
    /\ pc[w] = "claiming" /\ ~ Held(EventOf(w))
    /\ Claimable(EventOf(w))
    /\ TakesLease(w, EventOf(w))
    /\ Goto(w, "project")
    /\ UNCHANGED <<fresh, dispatch, scanner, faults>>

\* Nothing to claim any more: the run still attempts the rating.
ClaimNothing(w) ==
    /\ pc[w] = "claiming" /\ ~ Held(EventOf(w))
    /\ ~ Claimable(EventOf(w))
    /\ Goto(w, "rate")
    /\ UNCHANGED <<db, fresh, dispatch, scanner, faults>>

\* The claim transaction throws, rolled back or with its commit unacknowledged;
\* it is outside the try block, so the job fails.
ClaimThrows(w) ==
    /\ pc[w] \in {"claim", "claiming"}
    /\ Fault
    /\ \/ UNCHANGED db
       \/ /\ pc[w] = "claiming" /\ ~ Held(EventOf(w))
          /\ Claimable(EventOf(w))
          /\ TakesLease(w, EventOf(w))
    /\ Throw(w)
    /\ UNCHANGED <<fresh, dispatch, scanner>>

BugOwnsIgnoresToken(w, e) == lease[e] = "live"

Owns(w, e) == token[e] = w /\ lease[e] = "live"

\* The projection's transaction starts by renewing the lease, which locks the
\* intent row until the commit; no one sees the renewal.
Project(w) ==
    /\ pc[w] = "project"
    /\ Goto(w, IF Owns(w, EventOf(w)) THEN "commit" ELSE "rate")
    /\ UNCHANGED <<db, fresh, dispatch, scanner, faults>>

BugProjectsOutside(w, e) ==
    /\ projected' = projected \cup {e}
    /\ UNCHANGED <<evState, lease, token, outcome, retry, overtaken>>

Completes(w, e) ==
    /\ projected' = projected \cup {e}
    /\ evState' = [evState EXCEPT ![e] = "PROCESSED"]
    /\ token' = [token EXCEPT ![e] = NoToken]
    /\ lease' = [lease EXCEPT ![e] = "none"]
    /\ overtaken' = IF \E v \in Slots : pc[v] = "claiming" /\ EventOf(v) = e
                    THEN overtaken \cup {e} ELSE overtaken \ {e}
    /\ UNCHANGED <<outcome, retry>>

Complete(w) ==
    /\ pc[w] = "commit"
    /\ Completes(w, EventOf(w))
    /\ Goto(w, "rate")
    /\ UNCHANGED <<fresh, dispatch, scanner, faults>>

ProjectThrows(w) ==
    /\ pc[w] \in {"project", "commit"}
    /\ Fault
    /\ UNCHANGED db \/ (pc[w] = "commit" /\ Completes(w, EventOf(w)))
    /\ Goto(w, "fail")
    /\ UNCHANGED <<fresh, dispatch, scanner>>

\* The catch block: release the claim for 5 s if the token is still ours,
\* whether or not the lease has expired.
BugHoldsWithoutToken(w, e) == e \in Events

Holds(w, e) == token[e] = w

ReleaseFailed(w, e) ==
    IF Holds(w, e)
    THEN /\ token' = [token EXCEPT ![e] = NoToken]
         /\ lease' = [lease EXCEPT ![e] = "live"]
         /\ evState' = [evState EXCEPT ![e] = "FAILED"]
         /\ UNCHANGED <<projected, outcome, retry, overtaken>>
    ELSE UNCHANGED db

RecordFailure(w) ==
    /\ pc[w] = "fail"
    /\ ReleaseFailed(w, EventOf(w))
    /\ Return(w)
    /\ UNCHANGED <<fresh, dispatch, scanner, faults>>

RecordFailureThrows(w) ==
    /\ pc[w] = "fail"
    /\ Fault
    /\ UNCHANGED db \/ ReleaseFailed(w, EventOf(w))
    /\ Throw(w)
    /\ UNCHANGED <<fresh, dispatch, scanner>>

-----------------------------------------------------------------------------
(* attemptCustomerRating                                                   *)

\* rateCustomerEvent reads the event before it waits for the Organization lock,
\* and the outcome tables under it.  Which outcome a price schedule gives is the
\* subject of module PricingRating.
BugRateableEarly(e) == evState[e] # "absent"

Rateable(e) == evState[e] = "PROCESSED"

ReadEvent(w) ==
    /\ pc[w] = "rate"
    /\ IF Rateable(EventOf(w)) THEN Goto(w, "rating") ELSE Return(w)
    /\ UNCHANGED <<db, fresh, dispatch, scanner, faults>>

BugUndecidedForRated(e) == "RatedEvent" \notin outcome[e]

Undecided(e) == outcome[e] = {}

Rates(e) ==
    IF Undecided(e)
    THEN /\ \E o \in Outcomes : outcome' = [outcome EXCEPT ![e] = @ \cup {o}]
         /\ retry' = [retry EXCEPT ![e] = "none"]
         /\ UNCHANGED <<evState, lease, token, projected, overtaken>>
    ELSE UNCHANGED db

Rate(w) ==
    /\ pc[w] = "rating"
    /\ Rates(EventOf(w))
    /\ Return(w)
    /\ UNCHANGED <<fresh, dispatch, scanner, faults>>

RateThrows(w) ==
    /\ pc[w] \in {"rate", "rating"}
    /\ Fault
    /\ UNCHANGED db \/ (pc[w] = "rating" /\ Rates(EventOf(w)))
    /\ Goto(w, "recordRetry")
    /\ UNCHANGED <<fresh, dispatch, scanner>>

\* The RatingRetry upsert is a statement of its own; its failure is swallowed.
RecordRetry(w) ==
    /\ pc[w] = "recordRetry"
    /\ retry' = [retry EXCEPT ![EventOf(w)] = "waiting"]
    /\ Return(w)
    /\ UNCHANGED <<evState, lease, token, projected, outcome, overtaken, fresh,
                   dispatch, scanner, faults>>

RecordRetryFails(w) ==
    /\ pc[w] = "recordRetry"
    /\ Fault
    /\ Return(w)
    /\ UNCHANGED <<db, fresh, dispatch, scanner>>

-----------------------------------------------------------------------------
(* The owner's approval of a pricing gap (lib/pricing-gap-correction.ts).    *)

\* previewPricingGap, repeated under the Organization lock: marked without a
\* price and never rated, whatever the processing state.
BugCorrectableAny(e) == outcome[e] # {} /\ "RatedEvent" \notin outcome[e]

Correctable(e) == outcome[e] = {"UnratedEvent"}

\* One transaction rates all events of the reviewed scope; each mark stays.
Correct(S) ==
    /\ S # {}
    /\ \A e \in S : Correctable(e)
    /\ outcome' = [e \in Events |->
                     IF e \in S THEN outcome[e] \cup {"RatedEvent"} ELSE outcome[e]]
    /\ UNCHANGED <<evState, lease, token, projected, retry, overtaken, fresh,
                   dispatch, queue, slots, scanner, faults>>

-----------------------------------------------------------------------------
(* recoverLedgerIntents: one scan at a time, its steps interleaved with     *)
(* everything else.                                                         *)

BugEligiblePendingOnly(e) ==
    evState[e] = "PENDING" /\ e \notin fresh /\ Claimable(e)

Eligible(e) ==
    /\ \/ evState[e] = "PENDING" /\ e \notin fresh
       \/ evState[e] \in {"PROCESSING", "FAILED"}
    /\ Claimable(e)

After(c)   == {e \in Events : Eligible(e) /\ e > c}
FirstOf(S) == {e \in S : Cardinality({d \in S : d <= e}) <= BatchSize}
Batch      == FirstOf(IF After(cursor) = {} THEN After(0) ELSE After(cursor))

ScanReads ==
    /\ \A e \in Events : scan[e] = "no"
    /\ scan' = [e \in Events |->
                  IF e \notin Batch THEN "no"
                  ELSE IF evState[e] = "PENDING" THEN "PENDING" ELSE "addRetry"]
    /\ IF Cardinality(Batch) = BatchSize
       THEN \E last \in Batch : (\A e \in Batch : e <= last) /\ cursor' = last
       ELSE cursor' = 0
    /\ UNCHANGED <<db, fresh, dispatch, queue, slots, ratingScan, faults>>

\* getJobState of the original job: leave the event to it if it can still run.
BugOriginalKnown(e) == job[JobId("ledger", e)] # "absent"

OriginalLive(e) == job[JobId("ledger", e)] \in {"waiting", "active"}

CheckOriginal(e) ==
    /\ scan[e] = "PENDING"
    /\ scan' = [scan EXCEPT ![e] = IF OriginalLive(e) THEN "no" ELSE "recheck"]
    /\ UNCHANGED <<db, fresh, dispatch, queue, slots, cursor, ratingScan, faults>>

Recheck(e) ==
    /\ scan[e] = "recheck"
    /\ scan' = [scan EXCEPT ![e] =
                  IF evState[e] = "PENDING" /\ Claimable(e)
                  THEN "addPending" ELSE "no"]
    /\ UNCHANGED <<db, fresh, dispatch, queue, slots, cursor, ratingScan, faults>>

WakeupKind(e) == IF scan[e] = "addPending" THEN "pending" ELSE "recover"

AddWakeup(e) ==
    /\ scan[e] \in {"addPending", "addRetry"}
    /\ Enqueue(JobId(WakeupKind(e), e))
    /\ scan' = [scan EXCEPT ![e] = "no"]
    /\ UNCHANGED <<db, fresh, dispatch, slots, cursor, ratingScan, faults>>

(* recoverUnratedRatings; its limit of 100 is not reached here.             *)

BugUnratedNeverTried(e) == Rateable(e) /\ Undecided(e) /\ retry[e] = "none"

Unrated(e) == Rateable(e) /\ Undecided(e) /\ retry[e] # "waiting"

RatingScanReads ==
    /\ ratingScan = {}
    /\ ratingScan' = {e \in Events : Unrated(e)}
    /\ UNCHANGED <<db, fresh, dispatch, queue, slots, scan, cursor, faults>>

AddRatingWakeup(e) ==
    /\ e \in ratingScan
    /\ Enqueue(JobId("rate", e))
    /\ ratingScan' = ratingScan \ {e}
    /\ UNCHANGED <<db, fresh, dispatch, slots, scan, cursor, faults>>

\* A scan throws (the cursor survives) or its process restarts (it does not).
ScansAbort ==
    /\ Fault
    /\ scan' = [e \in Events |-> "no"]
    /\ ratingScan' = {}
    /\ cursor' \in {cursor, 0}
    /\ UNCHANGED <<db, fresh, dispatch, queue, slots>>

-----------------------------------------------------------------------------
(* Time                                                                     *)

\* A lease outlives its run unless the run is slower than 30 s, a fault.
LeaseExpires(e) ==
    /\ lease[e] = "live"
    /\ lease' = [lease EXCEPT ![e] = "expired"]
    /\ IF \E w \in Slots : /\ pc[w] \in {"project", "commit", "fail"}
                           /\ token[e] = w /\ EventOf(w) = e
       THEN Fault ELSE UNCHANGED faults
    /\ UNCHANGED <<evState, token, projected, outcome, retry, overtaken, fresh,
                   dispatch, queue, slots, scanner>>

Settle(e) ==
    /\ e \in fresh
    /\ fresh' = fresh \ {e}
    /\ UNCHANGED <<db, dispatch, queue, slots, scanner, faults>>

RetryDue(e) ==
    /\ retry[e] = "waiting"
    /\ retry' = [retry EXCEPT ![e] = "due"]
    /\ UNCHANGED <<evState, lease, token, projected, outcome, overtaken, fresh,
                   dispatch, queue, slots, scanner, faults>>

\* The next 5 s bucket: bucketed ids become new ids.  Bounds: no scan outlives
\* its bucket, and no bucketed job NumBuckets buckets.
BucketRolls ==
    LET next == (bucket + 1) % NumBuckets
        Old(id) == id.kind \in Bucketed /\ id.bucket = next
    IN  /\ \A e \in Events : scan[e] = "no"
        /\ ratingScan = {}
        /\ \A id \in JobIds : Old(id) => job[id] \in {"absent", "failed"}
        /\ bucket' = next
        /\ job' = [id \in JobIds |-> IF Old(id) THEN "absent" ELSE job[id]]
        /\ redelivered' = {id \in redelivered : ~ Old(id)}
        /\ UNCHANGED <<db, fresh, dispatch, slots, scanner, faults>>

-----------------------------------------------------------------------------

RunStep(w) ==
    \/ ClaimStarts(w) \/ Claim(w) \/ ClaimNothing(w)
    \/ Project(w) \/ Complete(w) \/ RecordFailure(w)
    \/ ReadEvent(w) \/ Rate(w) \/ RecordRetry(w)

RunFault(w) ==
    \/ ClaimThrows(w) \/ ProjectThrows(w) \/ RecordFailureThrows(w)
    \/ RateThrows(w) \/ RecordRetryFails(w) \/ Crash(w)

ScanStep(e) == CheckOriginal(e) \/ Recheck(e) \/ AddWakeup(e)

TimeStep(e) == LeaseExpires(e) \/ Settle(e) \/ RetryDue(e)

Next ==
    \/ \E e \in Events : Accept(e) \/ Dispatch(e) \/ DispatchLost(e)
    \/ \E w \in Slots, id \in JobIds : Take(w, id)
    \/ \E id \in JobIds : StalledCheck(id)
    \/ \E w \in Slots : RunStep(w) \/ RunFault(w)
    \/ \E S \in SUBSET Events : Correct(S)
    \/ ScanReads
    \/ \E e \in Events : ScanStep(e)
    \/ RatingScanReads
    \/ \E e \in Events : AddRatingWakeup(e)
    \/ ScansAbort
    \/ \E e \in Events : TimeStep(e)
    \/ BucketRolls

Spec == Init /\ [][Next]_vars

\* Runs end, timers fire (setInterval, 1 s), deadlines pass.  BullMQ hands out
\* waiting jobs first in, first out, so a job that finds a free slot again and
\* again is taken; acceptance and faults are never owed.
Fairness ==
    /\ \A e \in Events :
         /\ WF_vars(Dispatch(e))
         /\ WF_vars(ScanStep(e))
         /\ WF_vars(AddRatingWakeup(e))
         /\ WF_vars(LeaseExpires(e) /\ UNCHANGED faults)
         /\ WF_vars(Settle(e))
         /\ WF_vars(RetryDue(e))
    /\ \A id \in JobIds :
         /\ SF_vars(\E w \in Slots : Take(w, id))
         /\ WF_vars(StalledCheck(id))
    /\ \A w \in Slots : WF_vars(RunStep(w))
    /\ WF_vars(ScanReads)
    /\ WF_vars(RatingScanReads)
    /\ SF_vars(BucketRolls)

FairSpec == Spec /\ Fairness

-----------------------------------------------------------------------------
(* What the processing promises, whatever jobs, leases and scans do.        *)

Contract == INSTANCE LedgerContract WITH
    accepted <- {e \in Events : evState[e] # "absent"},
    settled  <- projected,
    verdict  <- outcome

\* Every step of the processing is a step of LedgerContract or none of it:
\* an event is accepted once, then settled once, then rated once, and only a
\* correction rates what was marked without a price.
ImplementsContract == Contract!Spec

-----------------------------------------------------------------------------
(* Safety                                                                   *)

\* The intent's lease columns and the event's state, two tables written by
\* every claim, completion and failure, agree: a token exactly while
\* PROCESSING, a deadline exactly while PROCESSING or FAILED.
IntentMatchesEvent ==
    \A e \in Events :
        /\ token[e] # NoToken <=> evState[e] = "PROCESSING"
        /\ lease[e] # "none" <=> evState[e] \in {"PROCESSING", "FAILED"}

\* A PROCESSED event has its projection, through crashes, lost commits, late
\* workers and duplicate jobs, and one that has its projection is PROCESSED,
\* with one exception: a claim under way while the completion committed goes by
\* the state before it and takes the event back.
ProjectedIffProcessed ==
    \A e \in Events :
        /\ evState[e] = "PROCESSED" => e \in projected
        /\ e \in projected \ overtaken => evState[e] = "PROCESSED"

\* Only a projected event has an outcome, and a rating never adds a second one,
\* whichever runs race (rateCustomerEvent's re-check under the lock).  The one
\* pair there is comes from a correction, which rates an event and leaves its
\* UnratedEvent row; it never meets a RatingFailure.
OneOutcomeAfterProjection ==
    \A e \in Events :
        /\ outcome[e] # {} => e \in projected
        /\ \/ \A o, p \in outcome[e] : o = p
           \/ outcome[e] = {"UnratedEvent", "RatedEvent"}

\* PROCESSED is final but for the events of that exception: no duplicate wakeup,
\* expired lease or late failure handler takes an event back into processing.
ProcessedIsFinal ==
    [][\A e \in Events \ overtaken :
        evState[e] = "PROCESSED" => evState'[e] = "PROCESSED"]_vars

\* A worker whose claim was taken over changes nothing of the event any more:
\* neither its completion nor its catch block touches the new owner's claim.
LateWorkerIsHarmless ==
    [][\A w \in Slots :
        LET e == EventOf(w)
        IN  (/\ pc[w] \in {"project", "commit", "fail"} /\ pc'[w] # pc[w]
             /\ token[e] # w)
            => /\ evState'[e] = evState[e] /\ token'[e] = token[e]
               /\ lease'[e] = lease[e] /\ UNCHANGED projected]_vars

-----------------------------------------------------------------------------
(* Liveness                                                                 *)

\* Once claimed, an event is processed however the claim ends.
ClaimedWorkCompletes ==
    \A e \in Events :
        evState[e] \in {"PROCESSING", "FAILED"} ~> evState[e] = "PROCESSED"

\* Every processed event gets its rating outcome.
ProcessedWorkIsRated ==
    \A e \in Events : evState[e] = "PROCESSED" ~> outcome[e] # {}

PendingJobFailed(e) == job[[kind |-> "pending", ev |-> e, bucket |-> 0]] = "failed"

\* An accepted event leaves PENDING unless its recover-pending job has failed.
PendingWorkIsTaken ==
    \A e \in Events :
        evState[e] = "PENDING" ~> evState[e] # "PENDING" \/ PendingJobFailed(e)

\* .scratch/ledger-correctness/spec.md: "Recovery scans or re-enqueues
\* committed pending rows", and recoverLedgerWork.ts: a finished or absent
\* original "cannot process it, so a fresh wakeup is appropriate".
PendingWorkIsRecovered ==
    \A e \in Events : evState[e] = "PENDING" ~> evState[e] # "PENDING"
=============================================================================
