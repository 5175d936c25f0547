--------------------------- MODULE BillingRecord ---------------------------
(***************************************************************************)
(* The monthly billing records of an Organization: draft calculation       *)
(* (lib/billing-record-calculation.ts), finalization                        *)
(* (lib/billing-record-finalization.ts) and revision                        *)
(* (lib/billing-record-revision.ts), over evidence that the ledger and      *)
(* rating workers keep changing.                                            *)
(*                                                                          *)
(* A calculation is repeatable read: its snapshot is taken when it starts   *)
(* to wait for the record's advisory lock.  Approvals read committed rows   *)
(* once they hold the lock.  The unique keys and triggers on versions are a *)
(* second line the model does without, except the key on request ids.      *)
(***************************************************************************)
EXTENDS Naturals, FiniteSets, Sequences

CONSTANTS
    Events,        \* accepted events of the months
    Records,       \* a Customer's months, one billing record each
    RecordOf,      \* the month an event occurred in
    FinalIds,      \* request identities of finalizations
    RevisionIds,   \* request identities of revisions
    Nothing,
    MaxDrafts, MaxVersions, MaxCalculations   \* bounds

ASSUME BillingConstants ==
    /\ RecordOf \in [Events -> Records]
    /\ FinalIds \cap RevisionIds = {}
    /\ MaxDrafts \in Nat /\ MaxVersions \in Nat /\ MaxCalculations \in Nat

Ids == FinalIds \cup RevisionIds

\* REOPENED is PROCESSING or FAILED once more, after a claim that a completion
\* overtook (LedgerProcessing).
Completed == {"PROCESSED", "REOPENED"}
Stored    == Completed \cup {"PENDING"}

Facts == [state : Stored \cup {"NONE", "RECEIVED"},
          rating : {"none", "price", "correction"},
          mark : {"none", "retry", "failed", "unrated"}]

Outcomes == {"RATED", "RATING_PENDING", "LEDGER", "retry", "failed", "unrated"}

Lines == [state : Stored, outcome : Outcomes,
          rating : {"none", "price", "correction"}]

DraftStates == {"OPEN", "BLOCKED", "READY_FOR_REVIEW"}

Drafts == [number : Nat, state : DraftStates,
           lines : UNION {[E -> Lines] : E \in SUBSET Events}]

Versions == [record : Records, number : Nat, predecessor : Nat, by : Ids]

VARIABLES
    closed,        \* the inclusive 72-hour close has passed
    evidence,      \* per event: UsageEvent, RatedEvent and its failure marks
    draft,         \* per record: the current snapshot and its number
    calculations,  \* draft calculations that wait with their snapshot
    approving,     \* per record: the approval that holds the advisory lock
    versions,      \* BillingRecordVersion rows; the index is the id
    final,         \* per record: currentFinalVersionId, 0 when NULL
    binding,       \* per identity: its finalization or revision request row
    answers        \* per identity: the versions answered to it

vars == <<closed, evidence, draft, calculations, approving, versions, final,
          binding, answers>>

approvals == <<versions, final, binding, answers>>

Calculations == [record : Records, past : BOOLEAN, seen : Drafts,
                 row : [draft : Drafts \cup {Nothing}, final : Nat], try : 1..3]

Approvals == [id : Ids, expected : Nat, seen : Drafts \cup {Nothing}]

Bindings == [record : Records, expected : Nat, version : Nat \ {0}]

ASSUME NothingIsNothing == Nothing \notin Drafts \cup Approvals \cup Bindings

TypeOK ==
    /\ closed \in BOOLEAN
    /\ evidence \in [Events -> Facts]
    /\ draft \in [Records -> Drafts \cup {Nothing}]
    /\ calculations \subseteq Calculations
    /\ approving \in [Records -> Approvals \cup {Nothing}]
    /\ \A r \in Records :
          approving[r] # Nothing => approving[r].expected <= Len(versions)
    /\ versions \in Seq(Versions)
    /\ final \in [Records -> 0..Len(versions)]
    /\ binding \in [Ids -> Bindings \cup {Nothing}]
    /\ \A i \in Ids : binding[i] # Nothing => binding[i].version <= Len(versions)
    /\ answers \in [Ids -> SUBSET (1..Len(versions))]

Init ==
    /\ closed = FALSE
    /\ evidence = [e \in Events |->
                     [state |-> "NONE", rating |-> "none", mark |-> "none"]]
    /\ draft = [r \in Records |-> Nothing]
    /\ calculations = {}
    /\ approving = [r \in Records |-> Nothing]
    /\ versions = <<>>
    /\ final = [r \in Records |-> 0]
    /\ binding = [i \in Ids |-> Nothing]
    /\ answers = [i \in Ids |-> {}]

Close ==
    /\ ~closed
    /\ closed' = TRUE
    /\ UNCHANGED <<evidence, draft, calculations, approving, approvals>>

-----------------------------------------------------------------------------
(* The evidence and its writers, as far as billing records see them.       *)

\* Mutant: nobody holds the evidence tables.
NeverFrozen == FALSE

\* LOCK TABLE ... IN SHARE MODE, held by every undecided finalization.
Frozen == \E r \in Records : approving[r] # Nothing /\ approving[r].id \in FinalIds

Write(e, facts) ==
    /\ ~Frozen
    /\ evidence' = [evidence EXCEPT ![e] = facts]
    /\ UNCHANGED <<closed, draft, calculations, approving, approvals>>

\* The receipt instant is compared with the close; the insert comes later.
Receive(e) ==
    /\ ~closed
    /\ evidence[e].state = "NONE"
    /\ evidence' = [evidence EXCEPT ![e].state = "RECEIVED"]
    /\ UNCHANGED <<closed, draft, calculations, approving, approvals>>

Insert(e) ==
    /\ evidence[e].state = "RECEIVED"
    /\ Write(e, [evidence[e] EXCEPT !.state = "PENDING"])

Project(e) ==
    /\ evidence[e].state \in {"PENDING", "REOPENED"}
    /\ Write(e, [evidence[e] EXCEPT !.state = "PROCESSED"])

Reopen(e) ==
    /\ evidence[e].state = "PROCESSED"
    /\ Write(e, [evidence[e] EXCEPT !.state = "REOPENED"])

\* A run that rates read the state earlier, when it was PROCESSED.
Rate(e) ==
    /\ evidence[e].state \in Completed
    /\ evidence[e].rating = "none"
    /\ evidence[e].mark \in {"none", "retry"}
    /\ \/ Write(e, [evidence[e] EXCEPT !.rating = "price", !.mark = "none"])
       \/ \E m \in {"failed", "unrated"} :
             Write(e, [evidence[e] EXCEPT !.mark = m])

\* The rating threw, possibly after its commit.
MarkRetry(e) ==
    /\ evidence[e].state \in Completed
    /\ evidence[e].mark = "none"
    /\ Write(e, [evidence[e] EXCEPT !.mark = "retry"])

CorrectGap(e) ==
    /\ evidence[e].mark = "unrated"
    /\ evidence[e].rating = "none"
    /\ Write(e, [evidence[e] EXCEPT !.rating = "correction"])

-----------------------------------------------------------------------------
(* Draft calculation.                                                      *)

\* Mutant: an event that was completed once counts as processed.
BugUnresolved(x) == IF x.state = "PENDING" THEN "LEDGER" ELSE x.mark

Unresolved(x) == IF x.state # "PROCESSED" THEN "LEDGER" ELSE x.mark

Outcome(x, requireResolved) ==
    IF Unresolved(x) # "none" /\ (requireResolved \/ x.rating = "none")
      THEN Unresolved(x)
      ELSE IF x.rating = "none" THEN "RATING_PENDING" ELSE "RATED"

Accepted(r) ==
    {e \in Events : RecordOf[e] = r /\ evidence[e].state \in Stored}

LinesOf(r, requireResolved) ==
    [e \in Accepted(r) |->
        [state |-> evidence[e].state, rating |-> evidence[e].rating,
         outcome |-> Outcome(evidence[e], requireResolved)]]

FullyRated(lines) ==
    \A e \in DOMAIN lines : lines[e].rating # "none" /\ lines[e].outcome = "RATED"

StateOf(lines, past) ==
    IF ~past THEN "OPEN"
    ELSE IF FullyRated(lines) THEN "READY_FOR_REVIEW" ELSE "BLOCKED"

NumberOf(d) == IF d = Nothing THEN 0 ELSE d.number

\* What a calculation publishes over the draft it found.
Over(found, lines, past) ==
    [number |-> NumberOf(found) + 1, state |-> StateOf(lines, past),
     lines |-> lines]

SameDraft(found, new) ==
    /\ found # Nothing
    /\ found.lines = new.lines
    /\ found.state = new.state

Row(r) == [draft |-> draft[r], final |-> final[r]]

Started(r, past, try) ==
    [record |-> r, past |-> past, row |-> Row(r), try |-> try,
     seen |-> Over(draft[r], LinesOf(r, FALSE), past)]

StartCalculation(r) ==
    /\ Cardinality(calculations) < MaxCalculations
    /\ NumberOf(draft[r]) < MaxDrafts
    /\ calculations' = calculations \cup {Started(r, closed, 1)}
    /\ UNCHANGED <<closed, evidence, draft, approving, approvals>>

Unlocked(r) == approving[r] = Nothing

\* Mutant: read committed, the last writer wins.
AlwaysSerializable(c) == c \in calculations

\* P2034 when the row has changed since the snapshot, P2002 when it is new.
Serializable(c) == c.row = Row(c.record)

CalculationDone(c) ==
    /\ Unlocked(c.record)
    /\ SameDraft(c.row.draft, c.seen)
    /\ calculations' = calculations \ {c}
    /\ UNCHANGED <<closed, evidence, draft, approving, approvals>>

Publish(c) ==
    /\ Unlocked(c.record)
    /\ ~SameDraft(c.row.draft, c.seen)
    /\ Serializable(c)
    /\ draft' = [draft EXCEPT ![c.record] = c.seen]
    /\ calculations' = calculations \ {c}
    /\ UNCHANGED <<closed, evidence, approving, approvals>>

RetryCalculation(c) ==
    /\ Unlocked(c.record)
    /\ ~SameDraft(c.row.draft, c.seen)
    /\ ~Serializable(c)
    /\ calculations' =
         (calculations \ {c}) \cup
           IF c.try < 3 THEN {Started(c.record, c.past, c.try + 1)} ELSE {}
    /\ UNCHANGED <<closed, evidence, draft, approving, approvals>>

CalculationFails(c) ==
    /\ calculations' = calculations \ {c}
    /\ UNCHANGED <<closed, evidence, draft, approving, approvals>>

-----------------------------------------------------------------------------
(* Finalization.                                                           *)

\* Mutant: a repeated identity is answered with the current version.
CurrentAnswer(id) == final[binding[id].record]

Answer(id) == binding[id].version

\* A repeated identity: its own result for the same fields, else a conflict.
Repeat(r, id, expected) ==
    /\ Unlocked(r)
    /\ binding[id] # Nothing
    /\ binding[id].record = r /\ binding[id].expected = expected
    /\ answers' = [answers EXCEPT ![id] = @ \cup {Answer(id)}]
    /\ UNCHANGED <<closed, evidence, draft, calculations, approving, versions,
                   final, binding>>

Approvable(lines) == closed /\ FullyRated(lines) /\ DOMAIN lines # {}

Recalculated(r) ==
    LET new == Over(draft[r], LinesOf(r, TRUE), closed)
    IN  IF SameDraft(draft[r], new) THEN draft[r] ELSE new

NotFinalized(r) == final[r] = 0

\* The blocked finalization still commits its recalculated draft.
FinalizeBlocked(r) ==
    /\ Unlocked(r)
    /\ NotFinalized(r)
    /\ NumberOf(draft[r]) < MaxDrafts
    /\ ~Approvable(LinesOf(r, TRUE))
    /\ draft' = [draft EXCEPT ![r] = Recalculated(r)]
    /\ UNCHANGED <<closed, evidence, calculations, approving, approvals>>

Finalize(r, id) ==
    /\ Unlocked(r)
    /\ binding[id] = Nothing
    /\ NotFinalized(r)
    /\ Approvable(LinesOf(r, TRUE))
    /\ approving' = [approving EXCEPT ![r] =
                       [id |-> id, expected |-> 0, seen |-> Recalculated(r)]]
    /\ UNCHANGED <<closed, evidence, draft, calculations, approvals>>

-----------------------------------------------------------------------------
(* Revision.                                                               *)

\* Mutant: any version of the record may be revised.
IsVersionOf(r, expected) ==
    expected \in 1..Len(versions) /\ versions[expected].record = r

IsCurrent(r, expected) == final[r] # 0 /\ expected = final[r]

Revise(r, id, expected) ==
    /\ Unlocked(r)
    /\ binding[id] = Nothing
    /\ IsCurrent(r, expected)
    /\ versions[expected].number < MaxVersions
    /\ approving' = [approving EXCEPT ![r] =
                       [id |-> id, expected |-> expected, seen |-> Nothing]]
    /\ UNCHANGED <<closed, evidence, draft, calculations, approvals>>

-----------------------------------------------------------------------------
(* Commit of an approval: version, pointer, outbound event and binding.    *)

NextVersion(r, a) ==
    [record |-> r, predecessor |-> a.expected, by |-> a.id,
     number |-> IF a.expected = 0 THEN 1 ELSE versions[a.expected].number + 1]

\* Mutant: the request id is unique only within a record.
FreeInRecord(r, id) == binding[id] # Nothing => binding[id].record # r

\* The primary key (orgId, requestId) is checked by the insert.
KeyFree(r, id) == binding[id] = Nothing

Commit(r) ==
    LET a == approving[r]
        new == Len(versions) + 1
    IN  /\ a # Nothing
        /\ KeyFree(r, a.id)
        /\ draft' = IF a.seen = Nothing THEN draft
                    ELSE [draft EXCEPT ![r] = a.seen]
        /\ versions' = Append(versions, NextVersion(r, a))
        /\ final' = [final EXCEPT ![r] = new]
        /\ binding' = [binding EXCEPT ![a.id] =
             [record |-> r, expected |-> a.expected, version |-> new]]
        /\ answers' = [answers EXCEPT ![a.id] = @ \cup {new}]
        /\ approving' = [approving EXCEPT ![r] = Nothing]
        /\ UNCHANGED <<closed, evidence, calculations>>

Abort(r) ==
    /\ approving[r] # Nothing
    /\ approving' = [approving EXCEPT ![r] = Nothing]
    /\ UNCHANGED <<closed, evidence, draft, calculations, approvals>>

-----------------------------------------------------------------------------

Next ==
    \/ Close
    \/ \E e \in Events : Receive(e)
    \/ \E e \in Events : Insert(e)
    \/ \E e \in Events : Project(e) \/ Reopen(e)
    \/ \E e \in Events : Rate(e)
    \/ \E e \in Events : MarkRetry(e)
    \/ \E e \in Events : CorrectGap(e)
    \/ \E r \in Records : StartCalculation(r)
    \/ \E c \in calculations : CalculationDone(c)
    \/ \E c \in calculations : Publish(c)
    \/ \E c \in calculations : RetryCalculation(c)
    \/ \E c \in calculations : CalculationFails(c)
    \/ \E r \in Records, id \in Ids, v \in 0..Len(versions) : Repeat(r, id, v)
    \/ \E r \in Records : FinalizeBlocked(r)
    \/ \E r \in Records, id \in FinalIds : Finalize(r, id)
    \/ \E r \in Records, id \in RevisionIds, v \in 1..Len(versions) :
          Revise(r, id, v)
    \/ \E r \in Records : Commit(r)
    \/ \E r \in Records : Abort(r)

Spec == Init /\ [][Next]_vars

-----------------------------------------------------------------------------
(* Properties                                                              *)

Extends(old, new) ==
    /\ DOMAIN old \subseteq DOMAIN new
    /\ \A e \in DOMAIN old :
          /\ old[e].state \in Completed => new[e].state \in Completed
          /\ old[e].rating # "none" => new[e].rating = old[e].rating

\* A published draft is never replaced by one calculated from older evidence,
\* though a calculation fixes its snapshot before it waits for the lock.
DraftNeverRegresses ==
    [][\A r \in Records :
          draft[r] # Nothing => Extends(draft[r].lines, draft'[r].lines)]_vars

Resolved(e) ==
    /\ evidence[e].state = "PROCESSED"
    /\ evidence[e].rating # "none" /\ evidence[e].mark = "none"

\* When a record is finalized, every event its month then holds is processed and
\* rated, none is being processed once more or carries a failure or retry mark,
\* and the frozen draft lists exactly these.
FinalizesCurrentEvidence ==
    [][\A r \in Records :
          final[r] = 0 /\ final'[r] # 0 =>
             /\ closed
             /\ DOMAIN draft'[r].lines = Accepted(r)
             /\ \A e \in Accepted(r) : Resolved(e)]_vars

\* The versions of a record form one chain that ends at its current final
\* version: no fork, no gap and no second start, in any race of approvals.
VersionChain ==
    \A r \in Records :
        LET mine == {v \in 1..Len(versions) : versions[v].record = r}
        IN  /\ {versions[v].number : v \in mine} = 1..Cardinality(mine)
            /\ mine # {} => /\ final[r] \in mine
                            /\ versions[final[r]].number = Cardinality(mine)
            /\ \A v \in mine :
                  versions[v].number > 1 =>
                     /\ versions[v].predecessor \in mine
                     /\ versions[versions[v].predecessor].number + 1
                          = versions[v].number

\* However often and whenever an identity is repeated, it is answered with the
\* one version it made, even after a later revision.
AnswersStand ==
    \A i \in Ids : \A v, w \in answers[i] : v = w /\ versions[v].by = i

\* An identity approves at most once, also when two months race for it.
IdentityActsOnce ==
    \A v, w \in 1..Len(versions) : versions[v].by = versions[w].by => v = w

\* A current draft that is ready for review, with every event processed, may be
\* finalized: a persisted rating wins over a stale mark.
ReadyIsApprovable ==
    \A r \in Records :
        /\ draft[r] # Nothing /\ closed
        /\ draft[r].state = "READY_FOR_REVIEW"
        /\ draft[r].lines = LinesOf(r, FALSE)
        /\ Accepted(r) # {} /\ \A e \in Accepted(r) : evidence[e].state = "PROCESSED"
        => Approvable(LinesOf(r, TRUE))

=============================================================================
