-------------------------- MODULE LegacyAggregation --------------------------
(***************************************************************************)
(* Totals of legacy usage: the wakeup POST /api/track adds after each event *)
(* (app/api/track/route.ts) and the AGGREGATE_USAGE job it names, one job   *)
(* id per subscription (worker/processors/aggregateUsage.ts).  An add whose *)
(* id exists is a no-op; the job id is freed when the job ends, either way. *)
(* One metric; an event is stamped when it is stored, and the window ends   *)
(* when the subscription is replaced.                                       *)
(***************************************************************************)
EXTENDS Naturals

CONSTANTS Subscriptions, MaxUsage   \* MaxUsage bounds the events of each

VARIABLES
    usage,    \* LEGACY events inside the subscription's window
    late,     \* LEGACY events after it
    adding,   \* events whose handler has yet to add the wakeup
    job,      \* the job with id aggregate:<org>:<subscription>
    window,   \* of the subscription, and as the active job has read it
    read,     \* the events the active job has read, Unread before that
    total,    \* AggregatedUsage.total, 0 without a row
    dropped   \* a wakeup was refused, lost or came to a job past its reads

vars == <<usage, late, adding, job, window, read, total, dropped>>

Unread == MaxUsage + 1
Counts == [Subscriptions -> 0..MaxUsage]
Windows == {"open", "ended"}

TypeOK ==
    /\ {usage, late, adding, total} \subseteq Counts
    /\ job \in [Subscriptions -> {"absent", "waiting", "active"}]
    /\ window \in [Subscriptions -> [now : Windows, loaded : Windows]]
    /\ read \in [Subscriptions -> 0..Unread]
    /\ dropped \in SUBSET Subscriptions

Init ==
    /\ usage = [s \in Subscriptions |-> 0]
    /\ late = [s \in Subscriptions |-> 0]
    /\ adding = [s \in Subscriptions |-> 0]
    /\ job = [s \in Subscriptions |-> "absent"]
    /\ window = [s \in Subscriptions |-> [now |-> "open", loaded |-> "open"]]
    /\ read = [s \in Subscriptions |-> Unread]
    /\ total = [s \in Subscriptions |-> 0]
    /\ dropped = {}

-----------------------------------------------------------------------------
(* The API.                                                                 *)

\* A handler that read the subscription earlier may insert after it ended;
\* such an event lies outside the window, and wakes the job all the same.
Track(s) ==
    /\ usage[s] + late[s] < MaxUsage
    /\ adding' = [adding EXCEPT ![s] = @ + 1]
    /\ IF window[s].now = "open"
       THEN usage' = [usage EXCEPT ![s] = @ + 1] /\ UNCHANGED late
       ELSE late' = [late EXCEPT ![s] = @ + 1] /\ UNCHANGED usage
    /\ UNCHANGED <<job, window, read, total, dropped>>

\* The active job has read the events, or a window that has ended since.
PastItsReads(s) ==
    job[s] = "active" /\ (read[s] # Unread \/ window[s].loaded # window[s].now)

AddWakeup(s) ==
    /\ adding[s] > 0
    /\ adding' = [adding EXCEPT ![s] = @ - 1]
    /\ job' = [job EXCEPT ![s] = IF @ = "absent" THEN "waiting" ELSE @]
    /\ dropped' = IF PastItsReads(s) THEN dropped \cup {s} ELSE dropped
    /\ UNCHANGED <<usage, late, window, read, total>>

\* Redis refuses: the client gets 500 though its event is stored, and its
\* retry is told {success: true} without a wakeup.
AddFails(s) ==
    /\ adding[s] > 0
    /\ adding' = [adding EXCEPT ![s] = @ - 1]
    /\ dropped' = dropped \cup {s}
    /\ UNCHANGED <<usage, late, job, window, read, total>>

\* createSubscription gives the replaced subscription periodEnd = now.
EndPeriod(s) ==
    /\ window[s].now = "open"
    /\ window' = [window EXCEPT ![s].now = "ended"]
    /\ UNCHANGED <<usage, late, adding, job, read, total, dropped>>

-----------------------------------------------------------------------------
(* The job.                                                                 *)

LoadSubscription(s) ==
    /\ job[s] = "waiting"
    /\ job' = [job EXCEPT ![s] = "active"]
    /\ window' = [window EXCEPT ![s].loaded = window[s].now]
    /\ UNCHANGED <<usage, late, adding, read, total, dropped>>

ReadEvents(s) ==
    /\ job[s] = "active" /\ read[s] = Unread
    /\ read' = [read EXCEPT ![s] =
         usage[s] + IF window[s].loaded = "open" THEN late[s] ELSE 0]
    /\ UNCHANGED <<usage, late, adding, job, window, total, dropped>>

\* Mutant: the upsert increments the total.
BugUpsert(s) ==
    /\ job[s] = "active" /\ read[s] # Unread
    /\ total' = [total EXCEPT ![s] = @ + read[s]]
    /\ read' = [read EXCEPT ![s] = Unread]
    /\ job' = [job EXCEPT ![s] = "absent"]
    /\ dropped' = IF read[s] = usage[s] THEN dropped \ {s} ELSE dropped
    /\ UNCHANGED <<usage, late, adding, window>>

\* The upsert overwrites the total, or deletes the row when nothing was read.
Upsert(s) ==
    /\ job[s] = "active" /\ read[s] # Unread
    /\ total' = [total EXCEPT ![s] = read[s]]
    /\ read' = [read EXCEPT ![s] = Unread]
    /\ job' = [job EXCEPT ![s] = "absent"]
    /\ dropped' = IF read[s] = usage[s] THEN dropped \ {s} ELSE dropped
    /\ UNCHANGED <<usage, late, adding, window>>

\* A throw, or one stall too many: attempts is 1 and removeOnFail frees the id.
JobFails(s) ==
    /\ job[s] = "active"
    /\ job' = [job EXCEPT ![s] = "absent"]
    /\ read' = [read EXCEPT ![s] = Unread]
    /\ dropped' = dropped \cup {s}
    /\ UNCHANGED <<usage, late, adding, window, total>>

\* The worker dies and the stalled job is handed out again.
Stalls(s) ==
    /\ job[s] = "active"
    /\ job' = [job EXCEPT ![s] = "waiting"]
    /\ read' = [read EXCEPT ![s] = Unread]
    /\ UNCHANGED <<usage, late, adding, window, total, dropped>>

Next ==
    \E s \in Subscriptions :
        \/ Track(s) \/ AddWakeup(s) \/ AddFails(s) \/ EndPeriod(s)
        \/ LoadSubscription(s) \/ ReadEvents(s) \/ Upsert(s) \/ JobFails(s) \/ Stalls(s)

Spec == Init /\ [][Next]_vars

-----------------------------------------------------------------------------

\* A total differs from the usage of its window only while a wakeup or its job
\* is still to come, or because one was refused, failed or swallowed by a job
\* that had read already (app/api/track/route.ts:187): nothing else loses or
\* adds usage, and a total never exceeds what was stored, however often a job
\* runs and whenever the window is cut short.
LagIsExplained ==
    \A s \in Subscriptions :
        /\ total[s] <= usage[s] + late[s]
        /\ total[s] # usage[s] => adding[s] > 0 \/ job[s] # "absent" \/ s \in dropped

-----------------------------------------------------------------------------
(* What makes LagIsExplained inductive.                                     *)

\* A wakeup of the subscription is owed, or one is missing.
Owed(s) == adding[s] > 0 \/ s \in dropped

Settles(s) ==
    /\ adding[s] <= usage[s] + late[s]
    /\ usage[s] + late[s] <= MaxUsage
    /\ late[s] > 0 \/ window[s].loaded = "ended" => window[s].now = "ended"
    /\ read[s] # Unread => job[s] = "active" /\ read[s] <= usage[s] + late[s]
    /\ read[s] \notin {Unread, usage[s]} => Owed(s)
    /\ (job[s] = "active" /\ window[s].loaded = "open" /\ late[s] > 0) => Owed(s)

IInv == TypeOK /\ LagIsExplained /\ \A s \in Subscriptions : Settles(s)
=============================================================================
