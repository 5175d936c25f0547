---------------------------- MODULE LegacyWebhook ----------------------------
(***************************************************************************)
(* Delivery of one webhook event that is not a billing one: the event row   *)
(* and its jobs (lib/webhooks/events.ts), the DELIVER_WEBHOOK job that      *)
(* attempts one endpoint and enqueues its own retry                         *)
(* (worker/processors/deliverWebhook.ts), and owners who switch endpoints   *)
(* off and on.  The job id names event, endpoint and attempt; it is freed   *)
(* when the job ends.  No scan recovers a chain of attempts that broke.     *)
(* The checks before an attempt are one step, and so are the reads of a      *)
(* refresh; backoff delays only order what the model leaves unordered.      *)
(***************************************************************************)
EXTENDS Naturals, FiniteSetsExt

CONSTANTS
    Endpoints,     \* endpoints of the Organization subscribed to the type
    MaxAttempts    \* MAX_WEBHOOK_ATTEMPTS

VARIABLES
    event,     \* "absent", or [status, targets]
    adding,    \* createWebhookEventRecord has the jobs still to add
    active,    \* WebhookEndpoint.active
    row,       \* WebhookDelivery by endpoint and attempt
    job,       \* step of the job of an endpoint and attempt
    seen,      \* what the refresh of that job is about to write
    broken     \* endpoints whose chain a fault or a switched-off endpoint ended

vars == <<event, adding, active, row, job, seen, broken>>

Attempts == 1..MaxAttempts
JobSteps == {"absent", "waiting", "send", "accepted", "refused", "retry",
             "refresh", "write"}
EventRows == [status : {"PENDING", "DELIVERED", "FAILED"}, targets : SUBSET Endpoints]
Absent == [status |-> "absent", targets |-> {}]

TypeOK ==
    /\ event \in EventRows \cup {Absent}
    /\ adding \in BOOLEAN
    /\ active \in SUBSET Endpoints
    /\ row \in [Endpoints -> [Attempts -> {"none", "FAILED", "SUCCESS"}]]
    /\ job \in [Endpoints -> [Attempts -> JobSteps]]
    /\ seen \in [Endpoints -> [Attempts -> EventRows \cup {Absent}]]
    /\ broken \in SUBSET Endpoints

Init ==
    /\ event = Absent
    /\ adding = FALSE
    /\ active \in SUBSET Endpoints
    /\ row = [e \in Endpoints |-> [n \in Attempts |-> "none"]]
    /\ job = [e \in Endpoints |-> [n \in Attempts |-> "absent"]]
    /\ seen = [e \in Endpoints |-> [n \in Attempts |-> Absent]]
    /\ broken = {}

-----------------------------------------------------------------------------
(* The event.                                                               *)

CreateEvent ==
    /\ event = Absent
    /\ event' = [status |-> IF active = {} THEN "DELIVERED" ELSE "PENDING",
                 targets |-> active]
    /\ adding' = (active # {})
    /\ UNCHANGED <<active, row, job, seen, broken>>

\* addBulk adds all jobs or throws; createWebhookEvent's callers log that.
AddFirstJobs ==
    /\ adding
    /\ adding' = FALSE
    /\ \/ /\ job' = [e \in Endpoints |->
               IF e \in event.targets THEN [job[e] EXCEPT ![1] = "waiting"] ELSE job[e]]
          /\ UNCHANGED broken
       \/ broken' = broken \cup event.targets /\ UNCHANGED job
    /\ UNCHANGED <<event, active, row, seen>>

ToggleEndpoint(e) ==
    /\ active' = IF e \in active THEN active \ {e} ELSE active \cup {e}
    /\ UNCHANGED <<event, adding, row, job, seen, broken>>

-----------------------------------------------------------------------------
(* One attempt.                                                             *)

Recorded(e) == {n \in Attempts : row[e][n] # "none"}
Latest(e) == IF Recorded(e) = {} THEN 0 ELSE Max(Recorded(e))
Settled(e) == Latest(e) > 0 /\ row[e][Latest(e)] = "SUCCESS"

\* A switched-off endpoint is not attempted; one that refreshes dropped from
\* the targets is, once nothing is left of them.
Targeted(e) == e \in active /\ (event.targets = {} \/ e \in event.targets)

\* Mutant: a redelivered job attempts again what it has recorded.
BugDue(e, n) == ~ Settled(e)

Due(e, n) == ~ Settled(e) /\ Latest(e) = n - 1

Goto(e, n, step) ==
    /\ job' = [job EXCEPT ![e][n] = step]
    /\ seen' = [seen EXCEPT ![e][n] = Absent]

Breaks(e) == broken' = broken \cup {e}

Check(e, n) ==
    /\ job[e][n] = "waiting"
    /\ Goto(e, n, IF Targeted(e) /\ Due(e, n) THEN "send" ELSE "refresh")
    /\ IF ~ Targeted(e) /\ ~ Settled(e) /\ Latest(e) < n THEN Breaks(e) ELSE UNCHANGED broken
    /\ UNCHANGED <<event, adding, active, row>>

\* A response outside 2xx, or none in time, is a refusal.
Send(e, n) ==
    /\ job[e][n] = "send"
    /\ \E outcome \in {"accepted", "refused"} : Goto(e, n, outcome)
    /\ UNCHANGED <<event, adding, active, row, broken>>

RecordSuccess(e, n) ==
    /\ job[e][n] = "accepted"
    /\ row' = [row EXCEPT ![e][n] = "SUCCESS"]
    /\ Goto(e, n, "refresh")
    /\ UNCHANGED <<event, adding, active, broken>>

\* The catch block is entered too when the SUCCESS row could not be written.
RecordFailure(e, n) ==
    /\ job[e][n] \in {"accepted", "refused"}
    /\ row' = [row EXCEPT ![e][n] = "FAILED"]
    /\ Goto(e, n, IF n < MaxAttempts THEN "retry" ELSE "refresh")
    /\ UNCHANGED <<event, adding, active, broken>>

\* Mutant: the job id leaves out the attempt, so the active job swallows it.
BugEnqueueRetry(e, n) ==
    /\ job[e][n] = "retry"
    /\ Goto(e, n, "refresh")
    /\ UNCHANGED <<event, adding, active, row, broken>>

EnqueueRetry(e, n) ==
    /\ job[e][n] = "retry"
    /\ job' = [job EXCEPT ![e][n] = "refresh",
                          ![e][n + 1] = IF @ = "absent" THEN "waiting" ELSE @]
    /\ UNCHANGED <<event, adding, active, row, seen, broken>>

\* A throw, or one stall too many: removeOnFail forgets the job.
Unattempted == {"waiting", "send", "accepted", "refused", "retry"}

JobFails(e, n) ==
    /\ job[e][n] # "absent"
    /\ Goto(e, n, "absent")
    /\ IF job[e][n] \in Unattempted THEN Breaks(e) ELSE UNCHANGED broken
    /\ UNCHANGED <<event, adding, active, row>>

\* The worker dies and the job is handed out again, from its beginning.
Stalls(e, n) ==
    /\ job[e][n] \notin {"absent", "waiting"}
    /\ Goto(e, n, "waiting")
    /\ IF job[e][n] = "retry" THEN Breaks(e) ELSE UNCHANGED broken
    /\ UNCHANGED <<event, adding, active, row>>

-----------------------------------------------------------------------------
(* refreshWebhookEventStatus.                                               *)

Exhausted(e) == Latest(e) = MaxAttempts /\ ~ Settled(e)

StatusOf(tracked) ==
    IF \E e \in tracked : ~ Settled(e) /\ ~ Exhausted(e) THEN "PENDING"
    ELSE IF \E e \in tracked : Exhausted(e) THEN "FAILED" ELSE "DELIVERED"

\* With no target left there is nothing to settle.
Refresh(e, n) ==
    /\ job[e][n] = "refresh"
    /\ LET tracked == event.targets \cap active
           next    == [status |-> StatusOf(tracked), targets |-> tracked]
       IN  IF event.targets = {} \/ next = event THEN Goto(e, n, "absent")
           ELSE /\ job' = [job EXCEPT ![e][n] = "write"]
                /\ seen' = [seen EXCEPT ![e][n] = next]
    /\ UNCHANGED <<event, adding, active, row, broken>>

\* Unconditional: what was read may be stale by now.
WriteEvent(e, n) ==
    /\ job[e][n] = "write"
    /\ event' = seen[e][n]
    /\ Goto(e, n, "absent")
    /\ UNCHANGED <<adding, active, row, broken>>

Next ==
    \/ CreateEvent \/ AddFirstJobs
    \/ \E e \in Endpoints :
         \/ ToggleEndpoint(e)
         \/ \E n \in Attempts :
              \/ Check(e, n) \/ Send(e, n) \/ RecordSuccess(e, n) \/ RecordFailure(e, n)
              \/ EnqueueRetry(e, n) \/ JobFails(e, n) \/ Stalls(e, n)
              \/ Refresh(e, n) \/ WriteEvent(e, n)

Spec == Init /\ [][Next]_vars

-----------------------------------------------------------------------------

\* Attempts of an endpoint are numbered without a gap, and nothing follows a
\* success: redelivered jobs, retries in flight and refreshes never attempt a
\* number twice once it is recorded, nor one out of turn.
AttemptsInOrder ==
    \A e \in Endpoints : \A n \in Recorded(e) :
        \A m \in 1..(n - 1) : row[e][m] = "FAILED"

\* While an endpoint has neither accepted nor exhausted its attempts, the next
\* one is queued or about to be (deliverWebhook.ts:190), unless a fault lost
\* its job or the job came while the endpoint was switched off: a chain never
\* ends by the races of retries, redeliveries and refreshes alone.
ChainUnbroken ==
    \A e \in Endpoints :
        (Recorded(e) # {} /\ ~ Settled(e) /\ ~ Exhausted(e) /\ e \notin broken)
            => \/ job[e][Latest(e)] = "retry"
               \/ job[e][Latest(e) + 1] # "absent"

-----------------------------------------------------------------------------
(* What makes the two inductive.                                            *)

\* Nothing happens to endpoints before the first jobs have been added.
Unstarted ==
    /\ adding => event # Absent
    /\ (adding \/ event = Absent)
         => \A e \in Endpoints : \A n \in Attempts : row[e][n] = "none" /\ job[e][n] = "absent"

InOrder(e) ==
    \E k \in 0..MaxAttempts :
        Recorded(e) = 1..k /\ \A m \in 1..(k - 1) : row[e][m] = "FAILED"

JobOK(e, n) ==
    /\ job[e][n] # "absent" => n <= Latest(e) + 1
    /\ job[e][n] \in {"send", "accepted", "refused"} => n = Latest(e) + 1 /\ ~ Settled(e)
    /\ job[e][n] = "retry" => n < MaxAttempts /\ n <= Latest(e)
    /\ job[e][n] \in {"refresh", "write"} => n <= Latest(e) \/ Settled(e) \/ e \in broken
    /\ job[e][n] = "write" => seen[e][n] \in EventRows

IInv ==
    /\ TypeOK /\ Unstarted /\ ChainUnbroken
    /\ \A e \in Endpoints : InOrder(e) /\ \A n \in Attempts : JobOK(e, n)
=============================================================================
