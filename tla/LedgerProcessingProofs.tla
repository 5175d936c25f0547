----------------------- MODULE LedgerProcessingProofs -----------------------
(***************************************************************************)
(* Proofs about LedgerProcessing for every number of events and slots,      *)
(* every batch size and every number of faults.                             *)
(***************************************************************************)
EXTENDS LedgerProcessing, TLAPS

LEMMA RunEvent ==
    ASSUME TypeOK, NEW w \in Slots, pc[w] # "idle"
    PROVE  jobOf[w] \in JobIds /\ EventOf(w) \in Events
BY DEF TypeOK, EventOf, JobIds

LEMMA JobIdType ==
    ASSUME TypeOK, NEW k \in Kinds, NEW e \in Events
    PROVE  JobId(k, e) \in JobIds
BY ConstantsOK DEF TypeOK, JobId, JobIds

LEMMA EnqueueType ==
    ASSUME TypeOK, NEW id \in JobIds, Enqueue(id)
    PROVE  /\ job' \in [JobIds -> JobStates]
           /\ redelivered' \in SUBSET JobIds
           /\ bucket' \in 0..(NumBuckets - 1)
BY DEF TypeOK, Enqueue, JobStates

-----------------------------------------------------------------------------
(* Type correctness                                                         *)

THEOREM TypeCorrect == Spec => []TypeOK
<1>1. Init => TypeOK
  BY ConstantsOK DEF Init, TypeOK, EventStates, Leases, Retries, JobStates,
     PCs, ScanStates
<1>2. TypeOK /\ [Next]_vars => TypeOK'
  <2> SUFFICES ASSUME TypeOK, [Next]_vars PROVE TypeOK'
    OBVIOUS
  <2> USE DEF TypeOK, db, queue, slots, scanner, EventStates, Leases, Retries,
             JobStates, PCs, ScanStates
  <2>1. ASSUME NEW e \in Events, Accept(e) PROVE TypeOK'
    BY <2>1 DEF Accept
  <2>2. ASSUME NEW e \in Events, Dispatch(e) PROVE TypeOK'
    BY <2>2, JobIdType, EnqueueType DEF Dispatch, Kinds
  <2>3. ASSUME NEW e \in Events, DispatchLost(e) PROVE TypeOK'
    BY <2>3, ConstantsOK DEF DispatchLost, Fault
  <2>4. ASSUME NEW w \in Slots, NEW id \in JobIds, Take(w, id) PROVE TypeOK'
    BY <2>4 DEF Take
  <2>5. ASSUME NEW id \in JobIds, StalledCheck(id) PROVE TypeOK'
    BY <2>5 DEF StalledCheck
  <2>6. ASSUME NEW w \in Slots, RunStep(w) PROVE TypeOK'
    <3>1. CASE Claim(w)
      BY <2>6, <3>1, RunEvent DEF Claim, TakesLease, Goto
    <3>2. CASE ClaimStarts(w) \/ ClaimNothing(w) \/ Project(w)
      BY <2>6, <3>2 DEF ClaimStarts, ClaimNothing, Project, Goto
    <3>3. CASE Complete(w)
      BY <2>6, <3>3, RunEvent DEF Complete, Completes, Goto
    <3>4. CASE RecordFailure(w)
      BY <2>6, <3>4, RunEvent DEF RecordFailure, ReleaseFailed, Return
    <3>5. CASE ReadEvent(w)
      BY <2>6, <3>5, RunEvent DEF ReadEvent, Return, Goto
    <3>6. CASE Rate(w)
      BY <2>6, <3>6, RunEvent DEF Rate, Rates, Return
    <3>7. CASE RecordRetry(w)
      BY <2>6, <3>7, RunEvent DEF RecordRetry, Return
    <3>8. QED
      BY <2>6, <3>1, <3>2, <3>3, <3>4, <3>5, <3>6, <3>7 DEF RunStep
  <2>7. ASSUME NEW w \in Slots, RunFault(w) PROVE TypeOK'
    <3>1. CASE ClaimThrows(w)
      BY <2>7, <3>1, RunEvent, ConstantsOK
         DEF ClaimThrows, TakesLease, Throw, Fault
    <3>2. CASE ProjectThrows(w)
      BY <2>7, <3>2, RunEvent, ConstantsOK
         DEF ProjectThrows, Completes, Goto, Fault
    <3>3. CASE RecordFailureThrows(w)
      BY <2>7, <3>3, RunEvent, ConstantsOK
         DEF RecordFailureThrows, ReleaseFailed, Throw, Fault
    <3>4. CASE RateThrows(w)
      BY <2>7, <3>4, RunEvent, ConstantsOK DEF RateThrows, Rates, Goto, Fault
    <3>5. CASE RecordRetryFails(w)
      BY <2>7, <3>5, RunEvent, ConstantsOK DEF RecordRetryFails, Return, Fault
    <3>6. CASE Crash(w)
      BY <2>7, <3>6, ConstantsOK DEF Crash, Fault
    <3>7. QED
      BY <2>7, <3>1, <3>2, <3>3, <3>4, <3>5, <3>6 DEF RunFault
  <2>8. ASSUME ScanReads PROVE TypeOK'
    <3>1. Batch \in SUBSET Events
      BY DEF Batch, FirstOf, After
    <3>2. cursor' \in 0..NumEvents
      BY <2>8, <3>1, ConstantsOK DEF ScanReads, Events
    <3>3. QED
      BY <2>8, <3>2 DEF ScanReads
  <2>9. ASSUME NEW e \in Events, ScanStep(e) PROVE TypeOK'
    <3>1. CASE CheckOriginal(e)
      BY <2>9, <3>1 DEF CheckOriginal
    <3>2. CASE Recheck(e)
      BY <2>9, <3>2 DEF Recheck
    <3>3. CASE AddWakeup(e)
      BY <2>9, <3>3, JobIdType, EnqueueType DEF AddWakeup, WakeupKind, Kinds
    <3>4. QED
      BY <2>9, <3>1, <3>2, <3>3 DEF ScanStep
  <2>10. ASSUME RatingScanReads PROVE TypeOK'
    BY <2>10 DEF RatingScanReads
  <2>11. ASSUME NEW e \in Events, AddRatingWakeup(e) PROVE TypeOK'
    BY <2>11, JobIdType, EnqueueType DEF AddRatingWakeup, Kinds
  <2>12. ASSUME ScansAbort PROVE TypeOK'
    BY <2>12, ConstantsOK DEF ScansAbort, Fault
  <2>13. ASSUME NEW e \in Events, TimeStep(e) PROVE TypeOK'
    BY <2>13, ConstantsOK DEF TimeStep, LeaseExpires, Settle, RetryDue, Fault
  <2>14. ASSUME BucketRolls PROVE TypeOK'
    <3>1. (bucket + 1) % NumBuckets \in 0..(NumBuckets - 1)
      BY ConstantsOK
    <3>2. QED
      BY <2>14, <3>1 DEF BucketRolls
  <2>15. ASSUME NEW S \in SUBSET Events, Correct(S) PROVE TypeOK'
    BY <2>15 DEF Correct
  <2>16. CASE UNCHANGED vars
    BY <2>16 DEF vars
  <2>17. QED
    BY <2>1, <2>2, <2>3, <2>4, <2>5, <2>6, <2>7, <2>8, <2>9, <2>10, <2>11,
       <2>12, <2>13, <2>14, <2>15, <2>16 DEF Next
<1>3. QED
  BY <1>1, <1>2, PTL DEF Spec

-----------------------------------------------------------------------------
(* What any step can do to the database: one of seven transactions, or       *)
(* nothing.  Everything below is proved from these and from what a step can  *)
(* do to a run.                                                              *)

AcceptsEvent(e) ==
    /\ evState[e] = "absent"
    /\ evState' = [evState EXCEPT ![e] = "PENDING"]
    /\ UNCHANGED <<lease, token, projected, outcome, overtaken>>

ExpiresLease(e) ==
    /\ lease[e] = "live"
    /\ lease' = [lease EXCEPT ![e] = "expired"]
    /\ UNCHANGED <<evState, token, projected, outcome, overtaken>>

Corrects(S) ==
    /\ \A e \in S : Correctable(e)
    /\ outcome' = [e \in Events |->
                     IF e \in S THEN outcome[e] \cup {"RatedEvent"} ELSE outcome[e]]
    /\ UNCHANGED <<evState, lease, token, projected, overtaken>>

Idles == UNCHANGED <<evState, lease, token, projected, outcome, overtaken>>

\* The steps at which a run's transaction is under way.
Underway == {"claiming", "commit", "rating"}

\* A run's transaction commits: what it had reached, and that it is over.
Commits(w, e) ==
    /\ pc'[w] \notin Underway
    /\ \/ pc[w] = "claiming" /\ ~ Held(e) /\ TakesLease(w, e)
       \/ pc[w] = "commit" /\ Completes(w, e)
       \/ pc[w] = "fail" /\ ReleaseFailed(w, e)
       \/ pc[w] = "rating" /\ e \in projected /\ Rates(e)

DbStep ==
    \/ Idles
    \/ \E e \in Events : AcceptsEvent(e) \/ ExpiresLease(e)
    \/ \E S \in SUBSET Events : Corrects(S)
    \/ \E w \in Slots : pc[w] # "idle" /\ Commits(w, EventOf(w))

\* A run that rates has seen its event PROCESSED.
RatesProjected ==
    \A w \in Slots : pc[w] = "rating" => EventOf(w) \in projected

\* Every step of the system is one of these database steps.
LEMMA StepIsDbStep == TypeOK /\ RatesProjected /\ [Next]_vars => DbStep
<1> SUFFICES ASSUME TypeOK, RatesProjected, [Next]_vars PROVE DbStep
  OBVIOUS
<1> USE DEF DbStep, Idles, TypeOK, db, queue, slots, scanner
<1>1. ASSUME NEW e \in Events, Accept(e) \/ Dispatch(e) \/ DispatchLost(e)
      PROVE  DbStep
  BY <1>1 DEF Accept, AcceptsEvent, Dispatch, DispatchLost
<1>2. ASSUME NEW w \in Slots, RunStep(w) PROVE DbStep
  <2>1. CASE Claim(w)
    BY <2>1 DEF Claim, Goto, Commits, Underway
  <2>2. CASE Complete(w)
    BY <2>2 DEF Complete, Goto, Commits, Underway
  <2>3. CASE RecordFailure(w)
    BY <2>3 DEF RecordFailure, Return, Commits, Underway
  <2>4. CASE Rate(w)
    BY <2>4 DEF Rate, Return, Commits, Underway, RatesProjected
  <2>5. CASE \/ ClaimStarts(w) \/ ClaimNothing(w) \/ Project(w)
             \/ ReadEvent(w) \/ RecordRetry(w)
    BY <2>5 DEF ClaimStarts, ClaimNothing, Project, ReadEvent, RecordRetry
  <2>6. QED
    BY <1>2, <2>1, <2>2, <2>3, <2>4, <2>5 DEF RunStep
<1>3. ASSUME NEW w \in Slots, RunFault(w) PROVE DbStep
  <2>1. CASE ClaimThrows(w)
    BY <2>1 DEF ClaimThrows, Throw, Commits, Underway
  <2>2. CASE ProjectThrows(w)
    BY <2>2 DEF ProjectThrows, Goto, Commits, Underway
  <2>3. CASE RecordFailureThrows(w)
    BY <2>3 DEF RecordFailureThrows, Throw, Commits, Underway
  <2>4. CASE RateThrows(w)
    BY <2>4 DEF RateThrows, Goto, Commits, Underway, RatesProjected
  <2>5. CASE RecordRetryFails(w) \/ Crash(w)
    BY <2>5 DEF RecordRetryFails, Crash
  <2>6. QED
    BY <1>3, <2>1, <2>2, <2>3, <2>4, <2>5 DEF RunFault
<1>4. ASSUME NEW e \in Events, TimeStep(e) PROVE DbStep
  BY <1>4 DEF TimeStep, LeaseExpires, ExpiresLease, Settle, RetryDue
<1>5. ASSUME NEW e \in Events, ScanStep(e) \/ AddRatingWakeup(e) PROVE DbStep
  BY <1>5 DEF ScanStep, CheckOriginal, Recheck, AddWakeup, AddRatingWakeup
<1>6. ASSUME NEW id \in JobIds,
             StalledCheck(id) \/ \E w \in Slots : Take(w, id)
      PROVE  DbStep
  BY <1>6 DEF StalledCheck, Take
<1>7. ASSUME NEW S \in SUBSET Events, Correct(S) PROVE DbStep
  BY <1>7 DEF Correct, Corrects
<1>8. CASE ScanReads \/ RatingScanReads \/ ScansAbort \/ BucketRolls
  BY <1>8 DEF ScanReads, RatingScanReads, ScansAbort, BucketRolls
<1>9. CASE UNCHANGED vars
  BY <1>9 DEF vars
<1>10. QED
  BY <1>1, <1>2, <1>3, <1>4, <1>5, <1>6, <1>7, <1>8, <1>9 DEF Next

\* What a step can do to the run of one slot: leave it where it is, or take it
\* to a step of which nothing below is said, or let it begin a claim, a
\* projection or a rating on what it then reads, and nothing else.
Stays(w) == pc'[w] = pc[w] /\ jobOf'[w] = jobOf[w]

Begins(w) ==
    /\ pc[w] # "idle"
    /\ jobOf' = jobOf
    /\ Idles
    /\ \/ pc'[w] = "claiming" /\ Matches(EventOf(w))
       \/ pc'[w] = "commit" /\ Owns(w, EventOf(w))
       \/ pc'[w] = "rating" /\ Rateable(EventOf(w))

RunMoves(w) ==
    Stays(w) \/ Begins(w) \/ pc'[w] \notin Underway

LEMMA StepMovesRun ==
    ASSUME TypeOK, [Next]_vars, NEW w \in Slots
    PROVE  RunMoves(w)
<1> USE DEF RunMoves, Underway, Stays, TypeOK, db, queue, slots, scanner
<1>1. ASSUME RunStep(w)
      PROVE  RunMoves(w)
  <2>1. CASE ClaimStarts(w) \/ Project(w)
    BY <2>1 DEF ClaimStarts, Project, Begins, Idles, Goto
  <2>2. CASE ReadEvent(w)
    BY <2>2 DEF ReadEvent, Begins, Idles, Goto, Return
  <2>3. CASE Claim(w) \/ ClaimNothing(w) \/ Complete(w)
    BY <2>3 DEF Claim, ClaimNothing, Complete, Goto
  <2>4. CASE RecordFailure(w) \/ Rate(w) \/ RecordRetry(w)
    BY <2>4 DEF RecordFailure, Rate, RecordRetry, Return
  <2>5. QED
    BY <1>1, <2>1, <2>2, <2>3, <2>4 DEF RunStep
<1>2. ASSUME RunFault(w)
      PROVE  RunMoves(w)
  BY <1>2 DEF RunFault, ClaimThrows, ProjectThrows, RecordFailureThrows,
     RateThrows, RecordRetryFails, Crash, Goto, Return, Throw
<1>3. ASSUME NEW v \in Slots, v # w, RunStep(v) \/ RunFault(v)
      PROVE  RunMoves(w)
  BY <1>3 DEF RunStep, RunFault, ClaimStarts, Claim, ClaimNothing, Project,
     Complete, RecordFailure, ReadEvent, Rate, RecordRetry, ClaimThrows,
     ProjectThrows, RecordFailureThrows, RateThrows, RecordRetryFails,
     Crash, Goto, Return, Throw
<1>4. ASSUME NEW v \in Slots, NEW id \in JobIds, Take(v, id)
      PROVE  RunMoves(w)
  BY <1>4 DEF Take
<1>5. ASSUME NEW e \in Events,
             \/ Accept(e) \/ Dispatch(e) \/ DispatchLost(e)
             \/ ScanStep(e) \/ AddRatingWakeup(e) \/ TimeStep(e)
      PROVE  RunMoves(w)
  BY <1>5 DEF Accept, Dispatch, DispatchLost, ScanStep, CheckOriginal,
     Recheck, AddWakeup, AddRatingWakeup, TimeStep, LeaseExpires, Settle,
     RetryDue
<1>6. ASSUME \/ ScanReads \/ RatingScanReads \/ ScansAbort \/ BucketRolls
             \/ \E id \in JobIds : StalledCheck(id)
             \/ \E S \in SUBSET Events : Correct(S)
             \/ UNCHANGED vars
      PROVE  RunMoves(w)
  BY <1>6 DEF ScanReads, RatingScanReads, ScansAbort, BucketRolls,
     StalledCheck, Correct, vars
<1>7. QED
  BY <1>1, <1>2, <1>3, <1>4, <1>5, <1>6 DEF Next

-----------------------------------------------------------------------------
(* The safety invariants.  Together they are inductive: IntentMatchesEvent   *)
(* tells the catch block that a token means PROCESSING, hence not projected  *)
(* unless overtaken; what a run saw when it began its transaction is kept    *)
(* for it by the row it holds, or lost to a completion that overtook it.     *)

\* A completion owns the claim until it commits, even when its lease expires.
CommitsOwnClaim ==
    \A w \in Slots : pc[w] = "commit" => token[EventOf(w)] = w

\* A claim under way found its event unfinished; if that is past, a completion
\* overtook it.
ClaimsUnfinished ==
    \A w \in Slots : pc[w] = "claiming" =>
        \/ evState[EventOf(w)] \in {"PENDING", "PROCESSING", "FAILED"}
        \/ EventOf(w) \in overtaken /\ evState[EventOf(w)] = "PROCESSED"

IInv ==
    /\ TypeOK
    /\ CommitsOwnClaim
    /\ ClaimsUnfinished
    /\ RatesProjected
    /\ IntentMatchesEvent
    /\ ProjectedIffProcessed
    /\ OneOutcomeAfterProjection

\* What a run's transaction leaves behind, whatever its event was.
LEMMA NextDb ==
    ASSUME IInv, [Next]_vars PROVE DbStep
BY StepIsDbStep DEF IInv

LEMMA StepKeepsCommits ==
    ASSUME IInv, [Next]_vars, TypeOK' PROVE CommitsOwnClaim'
<1> SUFFICES ASSUME NEW w \in Slots, pc'[w] = "commit"
             PROVE  token'[jobOf'[w].ev] = w
  BY DEF CommitsOwnClaim, EventOf
<1> USE DEF IInv
<1>1. RunMoves(w)
  BY StepMovesRun
<1>2. CASE Begins(w)
  BY <1>2 DEF Begins, Idles, Owns, EventOf
<1>3. CASE Stays(w)
  <2> DEFINE e == EventOf(w)
  <2>1. pc[w] = "commit" /\ jobOf'[w].ev = e /\ e \in Events /\ token[e] = w
    BY <1>3, RunEvent DEF Stays, EventOf, CommitsOwnClaim
  <2>2. DbStep
    BY NextDb
  <2>3. ASSUME NEW v \in Slots, pc[v] # "idle", Commits(v, EventOf(v))
        PROVE  token'[e] = w
    <3>1. EventOf(v) \in Events
      BY <2>3, RunEvent
    <3>2. CASE EventOf(v) # e
      BY <2>3, <2>1, <3>1, <3>2
         DEF Commits, TakesLease, Completes, ReleaseFailed, Rates, db, TypeOK
    <3>3. CASE EventOf(v) = e /\ v # w
      BY <2>3, <2>1, <3>1, <3>3 DEF Commits, TakesLease, Completes,
         ReleaseFailed, Rates, db, TypeOK, Held, Holds, CommitsOwnClaim
    <3>4. v # w
      BY <2>3 DEF Commits, Underway
    <3>5. QED
      BY <3>2, <3>3, <3>4
  <2>4. QED
    BY <2>1, <2>2, <2>3
       DEF DbStep, Idles, AcceptsEvent, ExpiresLease, Corrects
<1>4. QED
  BY <1>1, <1>2, <1>3 DEF RunMoves, Underway

LEMMA StepKeepsClaims ==
    ASSUME IInv, [Next]_vars, TypeOK' PROVE ClaimsUnfinished'
<1> SUFFICES ASSUME NEW w \in Slots, pc'[w] = "claiming"
             PROVE  \/ evState'[jobOf'[w].ev] \in {"PENDING", "PROCESSING", "FAILED"}
                    \/ /\ jobOf'[w].ev \in overtaken'
                       /\ evState'[jobOf'[w].ev] = "PROCESSED"
  BY DEF ClaimsUnfinished, EventOf
<1> USE DEF IInv
<1>1. RunMoves(w)
  BY StepMovesRun
<1>2. CASE Begins(w)
  BY <1>2 DEF Begins, Idles, Matches, EventOf
<1>3. CASE Stays(w)
  <2> DEFINE e == EventOf(w)
  <2> DEFINE Kept == \/ evState'[e] \in {"PENDING", "PROCESSING", "FAILED"}
                     \/ e \in overtaken' /\ evState'[e] = "PROCESSED"
  <2>1. /\ pc[w] = "claiming" /\ jobOf'[w].ev = e /\ e \in Events
        /\ \/ evState[e] \in {"PENDING", "PROCESSING", "FAILED"}
           \/ e \in overtaken /\ evState[e] = "PROCESSED"
    BY <1>3, RunEvent DEF Stays, EventOf, ClaimsUnfinished
  <2>2. DbStep
    BY NextDb
  <2>3. ASSUME NEW v \in Slots, pc[v] # "idle", Commits(v, EventOf(v))
        PROVE  Kept
    <3> DEFINE d == EventOf(v)
    <3>1. d \in Events
      BY <2>3, RunEvent
    <3>2. CASE Completes(v, d)
      BY <3>2, <2>1, <3>1 DEF Completes, TypeOK
    <3>3. CASE TakesLease(v, d) \/ ReleaseFailed(v, d) \/ Rates(d)
      BY <3>3, <2>1, <3>1 DEF TakesLease, ReleaseFailed, Rates, db, TypeOK
    <3>4. QED
      BY <2>3, <3>2, <3>3 DEF Commits
  <2>4. ASSUME NEW d \in Events, AcceptsEvent(d) \/ ExpiresLease(d)
        PROVE  Kept
    BY <2>4, <2>1 DEF AcceptsEvent, ExpiresLease, TypeOK
  <2>5. CASE Idles \/ \E S \in SUBSET Events : Corrects(S)
    BY <2>5, <2>1 DEF Idles, Corrects
  <2>6. QED
    BY <2>1, <2>2, <2>3, <2>4, <2>5 DEF DbStep
<1>4. QED
  BY <1>1, <1>2, <1>3 DEF RunMoves, Underway

LEMMA ProjectionsStay ==
    ASSUME IInv, [Next]_vars PROVE projected \subseteq projected'
<1>1. ASSUME NEW v \in Slots, pc[v] # "idle", Commits(v, EventOf(v))
      PROVE  projected \subseteq projected'
  BY <1>1 DEF Commits, TakesLease, Completes, ReleaseFailed, Rates, db
<1>2. QED
  BY <1>1, NextDb DEF DbStep, Idles, AcceptsEvent, ExpiresLease, Corrects

LEMMA StepKeepsRatings ==
    ASSUME IInv, [Next]_vars PROVE RatesProjected'
<1> SUFFICES ASSUME NEW w \in Slots, pc'[w] = "rating"
             PROVE  jobOf'[w].ev \in projected'
  BY DEF RatesProjected, EventOf
<1>1. RunMoves(w)
  BY StepMovesRun DEF IInv
<1>2. CASE Begins(w)
  <2>1. EventOf(w) \in Events
    BY <1>2, RunEvent DEF Begins, IInv
  <2>2. QED
    BY <1>2, <2>1 DEF Begins, Idles, Rateable, EventOf, IInv, ProjectedIffProcessed
<1>3. CASE Stays(w)
  BY <1>3, ProjectionsStay DEF Stays, EventOf, IInv, RatesProjected
<1>4. QED
  BY <1>1, <1>2, <1>3 DEF RunMoves, Underway

LEMMA StepKeepsIntent ==
    ASSUME IInv, [Next]_vars PROVE IntentMatchesEvent'
<1> USE ConstantsOK DEF IInv, TypeOK, IntentMatchesEvent, Leases, EventStates
<1>1. DbStep
  BY NextDb
<1>2. ASSUME NEW e \in Events, AcceptsEvent(e) \/ ExpiresLease(e)
      PROVE  IntentMatchesEvent'
  BY <1>2 DEF AcceptsEvent, ExpiresLease
<1>3. ASSUME NEW w \in Slots, pc[w] # "idle", Commits(w, EventOf(w))
      PROVE  IntentMatchesEvent'
  <2>1. EventOf(w) \in Events
    BY <1>3, RunEvent
  <2>2. CASE TakesLease(w, EventOf(w))
    BY <2>1, <2>2 DEF TakesLease
  <2>3. CASE Completes(w, EventOf(w))
    BY <2>1, <2>3 DEF Completes
  <2>4. CASE ReleaseFailed(w, EventOf(w))
    BY <2>1, <2>4 DEF ReleaseFailed, db
  <2>5. CASE Rates(EventOf(w))
    BY <2>5 DEF Rates, db
  <2>6. QED
    BY <1>3, <2>2, <2>3, <2>4, <2>5 DEF Commits
<1>4. CASE Idles \/ \E S \in SUBSET Events : Corrects(S)
  BY <1>4 DEF Idles, Corrects
<1>5. QED
  BY <1>1, <1>2, <1>3, <1>4 DEF DbStep

LEMMA StepKeepsProjection ==
    ASSUME IInv, [Next]_vars PROVE ProjectedIffProcessed'
<1> USE ConstantsOK DEF IInv, TypeOK, ProjectedIffProcessed
<1>1. DbStep
  BY NextDb
<1>2. ASSUME NEW e \in Events, AcceptsEvent(e) \/ ExpiresLease(e)
      PROVE  ProjectedIffProcessed'
  BY <1>2 DEF AcceptsEvent, ExpiresLease
<1>3. ASSUME NEW w \in Slots, pc[w] # "idle", Commits(w, EventOf(w))
      PROVE  ProjectedIffProcessed'
  <2>1. EventOf(w) \in Events
    BY <1>3, RunEvent
  <2>2. CASE pc[w] = "claiming" /\ TakesLease(w, EventOf(w))
    BY <2>1, <2>2 DEF TakesLease, ClaimsUnfinished
  <2>3. CASE Completes(w, EventOf(w))
    BY <2>1, <2>3 DEF Completes
  <2>4. CASE ReleaseFailed(w, EventOf(w))
    BY <2>1, <2>4 DEF ReleaseFailed, Holds, IntentMatchesEvent, db
  <2>5. CASE Rates(EventOf(w))
    BY <2>5 DEF Rates, db
  <2>6. QED
    BY <1>3, <2>2, <2>3, <2>4, <2>5 DEF Commits
<1>4. CASE Idles \/ \E S \in SUBSET Events : Corrects(S)
  BY <1>4 DEF Idles, Corrects
<1>5. QED
  BY <1>1, <1>2, <1>3, <1>4 DEF DbStep

LEMMA StepKeepsOutcome ==
    ASSUME IInv, [Next]_vars PROVE OneOutcomeAfterProjection'
<1> USE DEF IInv, TypeOK, OneOutcomeAfterProjection
<1>1. DbStep
  BY NextDb
<1>2. ASSUME NEW e \in Events, AcceptsEvent(e) \/ ExpiresLease(e)
      PROVE  OneOutcomeAfterProjection'
  BY <1>2 DEF AcceptsEvent, ExpiresLease
<1>3. ASSUME NEW w \in Slots, pc[w] # "idle", Commits(w, EventOf(w))
      PROVE  OneOutcomeAfterProjection'
  <2>1. EventOf(w) \in Events
    BY <1>3, RunEvent
  <2>2. CASE EventOf(w) \in projected /\ Rates(EventOf(w))
    BY <2>1, <2>2 DEF Rates, Undecided, db
  <2>3. CASE \/ TakesLease(w, EventOf(w)) \/ Completes(w, EventOf(w))
             \/ ReleaseFailed(w, EventOf(w))
    BY <2>3 DEF TakesLease, Completes, ReleaseFailed, db
  <2>4. QED
    BY <1>3, <2>2, <2>3 DEF Commits
<1>4. ASSUME NEW S \in SUBSET Events, Corrects(S)
      PROVE  OneOutcomeAfterProjection'
  <2> SUFFICES ASSUME NEW e \in Events
               PROVE  /\ outcome'[e] # {} => e \in projected'
                      /\ \/ \A o, p \in outcome'[e] : o = p
                         \/ outcome'[e] = {"UnratedEvent", "RatedEvent"}
    OBVIOUS
  <2>1. CASE e \in S
    <3>1. outcome'[e] = {"UnratedEvent", "RatedEvent"}
      BY <1>4, <2>1 DEF Corrects, Correctable
    <3>2. QED
      BY <1>4, <2>1, <3>1 DEF Corrects, Correctable
  <2>2. CASE e \notin S
    BY <1>4, <2>2 DEF Corrects
  <2>3. QED
    BY <2>1, <2>2
<1>5. CASE Idles
  BY <1>5 DEF Idles
<1>6. QED
  BY <1>1, <1>2, <1>3, <1>4, <1>5 DEF DbStep

\* The two steps of a claim, of a completion and of a rating, with everything that
\* can happen between them, keep all parts of the invariant together.
THEOREM InvariantHolds == Spec => []IInv
<1>1. Init => IInv
  <2>1. Init => TypeOK
    BY ConstantsOK DEF Init, TypeOK, EventStates, Leases, Retries, JobStates,
       PCs, ScanStates
  <2>2. QED
    BY <2>1, ConstantsOK DEF Init, IInv, CommitsOwnClaim, ClaimsUnfinished,
       RatesProjected, IntentMatchesEvent, ProjectedIffProcessed,
       OneOutcomeAfterProjection
<1>2. IInv /\ TypeOK' /\ [Next]_vars => IInv'
  BY StepKeepsCommits, StepKeepsClaims, StepKeepsRatings, StepKeepsIntent,
     StepKeepsProjection, StepKeepsOutcome DEF IInv
<1>3. QED
  BY <1>1, <1>2, TypeCorrect, PTL DEF Spec

\* The lease columns and the event's state always agree.
THEOREM IntentAgrees == Spec => []IntentMatchesEvent
BY InvariantHolds, PTL DEF IInv

\* The projection of an event exists exactly when it is PROCESSED, unless a
\* completion of it overtook a claim.
THEOREM ProjectionAgrees == Spec => []ProjectedIffProcessed
BY InvariantHolds, PTL DEF IInv

\* No event has an outcome before its projection, and none has two but an
\* unrated one that was corrected.
THEOREM OutcomeIsSingle == Spec => []OneOutcomeAfterProjection
BY InvariantHolds, PTL DEF IInv

-----------------------------------------------------------------------------
(* Action properties                                                        *)

\* PROCESSED is final, unless the completion overtook a claim.
THEOREM ProcessedStays == Spec => ProcessedIsFinal
<1>1. IInv /\ [Next]_vars =>
        [\A e \in Events \ overtaken :
            evState[e] = "PROCESSED" => evState'[e] = "PROCESSED"]_vars
  <2> SUFFICES ASSUME IInv, [Next]_vars, NEW e \in Events \ overtaken,
                      evState[e] = "PROCESSED"
               PROVE  evState'[e] = "PROCESSED"
    OBVIOUS
  <2> USE DEF IInv, TypeOK
  <2>1. DbStep
    BY NextDb
  <2>2. ASSUME NEW d \in Events, AcceptsEvent(d) \/ ExpiresLease(d)
        PROVE  evState'[e] = "PROCESSED"
    BY <2>2 DEF AcceptsEvent, ExpiresLease
  <2>3. ASSUME NEW w \in Slots, pc[w] # "idle", Commits(w, EventOf(w))
        PROVE  evState'[e] = "PROCESSED"
    <3>1. EventOf(w) \in Events
      BY <2>3, RunEvent
    <3>2. CASE pc[w] = "claiming" /\ TakesLease(w, EventOf(w))
      BY <3>1, <3>2 DEF TakesLease, ClaimsUnfinished
    <3>3. CASE Completes(w, EventOf(w))
      BY <3>1, <3>3 DEF Completes
    <3>4. CASE ReleaseFailed(w, EventOf(w))
      BY <3>1, <3>4, ConstantsOK
         DEF ReleaseFailed, Holds, IntentMatchesEvent, db
    <3>5. CASE Rates(EventOf(w))
      BY <3>5 DEF Rates, db
    <3>6. QED
      BY <2>3, <3>2, <3>3, <3>4, <3>5 DEF Commits
  <2>4. CASE Idles \/ \E S \in SUBSET Events : Corrects(S)
    BY <2>4 DEF Idles, Corrects
  <2>5. QED
    BY <2>1, <2>2, <2>3, <2>4 DEF DbStep
<1>2. QED
  BY <1>1, InvariantHolds, PTL DEF Spec, ProcessedIsFinal

\* A run whose claim was taken over changes nothing of its event any more.
THEOREM LateWorkerHarmless == Spec => LateWorkerIsHarmless
<1>1. IInv /\ [Next]_vars =>
        [\A w \in Slots :
          LET e == EventOf(w)
          IN  (/\ pc[w] \in {"project", "commit", "fail"} /\ pc'[w] # pc[w]
               /\ token[e] # w)
              => /\ evState'[e] = evState[e] /\ token'[e] = token[e]
                 /\ lease'[e] = lease[e] /\ UNCHANGED projected]_vars
  <2> SUFFICES ASSUME IInv, [Next]_vars, NEW w \in Slots,
                      pc[w] \in {"project", "commit", "fail"}, pc'[w] # pc[w],
                      token[EventOf(w)] # w
               PROVE  UNCHANGED <<evState, token, lease, projected>>
    OBVIOUS
  <2> USE DEF db, slots
  <2>1. pc[w] # "commit"
    BY DEF IInv, CommitsOwnClaim
  <2>2. ASSUME RunStep(w) \/ RunFault(w)
        PROVE  UNCHANGED <<evState, token, lease, projected>>
    <3>1. CASE pc[w] = "project"
      BY <2>2, <3>1 DEF RunStep, RunFault, ClaimStarts, Claim, ClaimNothing,
         Project, Complete, RecordFailure, ReadEvent, Rate, RecordRetry,
         ClaimThrows, ProjectThrows, RecordFailureThrows, RateThrows,
         RecordRetryFails, Crash
    <3>2. CASE pc[w] = "fail"
      BY <2>2, <3>2 DEF RunStep, RunFault, ClaimStarts, Claim, ClaimNothing,
         Project, Complete, RecordFailure, ReadEvent, Rate, RecordRetry,
         ClaimThrows, ProjectThrows, RecordFailureThrows, RateThrows,
         RecordRetryFails, Crash, ReleaseFailed, Holds
    <3>3. QED
      BY <2>1, <3>1, <3>2
  <2>3. ASSUME NEW v \in Slots, v # w,
               RunStep(v) \/ RunFault(v) \/ (\E id \in JobIds : Take(v, id))
        PROVE  pc'[w] = pc[w]
    BY <2>3 DEF IInv, TypeOK, RunStep, RunFault, ClaimStarts, Claim,
       ClaimNothing, Project, Complete, RecordFailure, ReadEvent, Rate,
       RecordRetry, ClaimThrows, ProjectThrows, RecordFailureThrows,
       RateThrows, RecordRetryFails, Crash, Goto, Return, Throw, Take
  <2>4. ASSUME NEW id \in JobIds, Take(w, id)
        PROVE  FALSE
    BY <2>4 DEF Take
  <2>5. ASSUME NEW e \in Events,
               \/ Accept(e) \/ Dispatch(e) \/ DispatchLost(e)
               \/ ScanStep(e) \/ AddRatingWakeup(e) \/ TimeStep(e)
        PROVE  pc'[w] = pc[w]
    BY <2>5 DEF Accept, Dispatch, DispatchLost, ScanStep, CheckOriginal,
       Recheck, AddWakeup, AddRatingWakeup, TimeStep, LeaseExpires, Settle,
       RetryDue
  <2>6. ASSUME \/ ScanReads \/ RatingScanReads \/ ScansAbort \/ BucketRolls
               \/ \E id \in JobIds : StalledCheck(id)
               \/ \E S \in SUBSET Events : Correct(S)
               \/ UNCHANGED vars
        PROVE  pc'[w] = pc[w]
    BY <2>6 DEF ScanReads, RatingScanReads, ScansAbort, BucketRolls,
       StalledCheck, Correct, vars
  <2>7. QED
    BY <2>2, <2>3, <2>4, <2>5, <2>6 DEF Next
<1>2. QED
  BY <1>1, InvariantHolds, PTL DEF Spec, LateWorkerIsHarmless

-----------------------------------------------------------------------------
(* Refinement                                                               *)

\* A database step is a step of the contract or leaves it alone.
LEMMA StepRefines ==
    ASSUME IInv, [Next]_vars
    PROVE  [Contract!Next]_(Contract!contractVars)
<1> USE DEF IInv, TypeOK, Contract!contractVars
<1>1. DbStep
  BY NextDb
<1>2. ASSUME NEW e \in Events, AcceptsEvent(e)
      PROVE  Contract!Accept(e)
  BY <1>2 DEF AcceptsEvent, Contract!Accept
<1>3. ASSUME NEW e \in projected, e \in Events, Rates(e)
      PROVE  \/ \E o \in Outcomes : Contract!GiveVerdict(e, o)
             \/ UNCHANGED Contract!contractVars
  <2>1. CASE Undecided(e)
    <3>1. PICK o \in Outcomes : outcome' = [outcome EXCEPT ![e] = @ \cup {o}]
      BY <1>3, <2>1 DEF Rates
    <3>2. Contract!GiveVerdict(e, o)
      BY <1>3, <2>1, <3>1 DEF Rates, Undecided, Contract!GiveVerdict
    <3>3. QED
      BY <3>2
  <2>2. CASE ~ Undecided(e)
    BY <1>3, <2>2 DEF Rates, db
  <2>3. QED
    BY <2>1, <2>2
<1>4. ASSUME NEW w \in Slots, pc[w] = "commit", EventOf(w) \in Events,
             Completes(w, EventOf(w))
      PROVE  Contract!Settle(EventOf(w)) \/ UNCHANGED Contract!contractVars
  <2>1. evState[EventOf(w)] = "PROCESSING"
    BY <1>4, ConstantsOK DEF CommitsOwnClaim, IntentMatchesEvent
  <2>2. CASE EventOf(w) \in projected
    BY <1>4, <2>1, <2>2 DEF Completes
  <2>3. CASE EventOf(w) \notin projected
    BY <1>4, <2>1, <2>3 DEF Completes, Contract!Settle
  <2>4. QED
    BY <2>2, <2>3
<1>5. ASSUME NEW e \in Events, NEW w \in Slots, ReleaseFailed(w, e)
      PROVE  UNCHANGED Contract!contractVars
  BY <1>5, ConstantsOK DEF ReleaseFailed, Holds, IntentMatchesEvent, db
<1>6. ASSUME NEW w \in Slots, pc[w] = "claiming", EventOf(w) \in Events,
             TakesLease(w, EventOf(w))
      PROVE  UNCHANGED Contract!contractVars
  <2>1. evState[EventOf(w)] # "absent"
    BY <1>6 DEF ClaimsUnfinished
  <2>2. QED
    BY <1>6, <2>1 DEF TakesLease
<1>7. ASSUME NEW e \in Events, ExpiresLease(e)
      PROVE  UNCHANGED Contract!contractVars
  BY <1>7 DEF ExpiresLease
<1>8. ASSUME NEW S \in SUBSET Events, Corrects(S)
      PROVE  Contract!Correct(S)
  BY <1>8 DEF Corrects, Correctable, Contract!Correct
<1>9. ASSUME NEW w \in Slots, pc[w] # "idle", Commits(w, EventOf(w))
      PROVE  [Contract!Next]_(Contract!contractVars)
  <2>1. EventOf(w) \in Events
    BY <1>9, RunEvent
  <2>2. QED
    BY <1>9, <2>1, <1>3, <1>4, <1>5, <1>6 DEF Commits, Contract!Next
<1>10. CASE Idles
  BY <1>10 DEF Idles
<1>11. QED
  BY <1>1, <1>2, <1>7, <1>8, <1>9, <1>10 DEF DbStep, Contract!Next

\* The processing implements its contract: accepted, settled and rated once
\* each, in that order, corrected at most from unrated, and never withdrawn.
THEOREM Implements == Spec => ImplementsContract
<1>1. Init => Contract!Init
  BY DEF Init, Contract!Init
<1>2. IInv /\ [Next]_vars => [Contract!Next]_(Contract!contractVars)
  BY StepRefines
<1>3. QED
  BY <1>1, <1>2, InvariantHolds, PTL
     DEF Spec, ImplementsContract, Contract!Spec
=============================================================================
